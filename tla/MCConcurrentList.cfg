CONSTANTS
    NumThread = 2
    MaxKey = 2
    MaxWork = 2
    Nobody = Nobody
SPECIFICATION Spec
INVARIANTS
    ListSorted
    FreedOnlyCompared
PROPERTIES
    Linearizable
    RetriesJustified
    Terminates
