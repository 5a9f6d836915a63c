CONSTANTS
    NumThread = 3
    MaxWork = 2
    Nobody = Nobody
SPECIFICATION Spec
INVARIANTS
    TypeOK
    ArgAlive
    ChecksumExact
PROPERTIES
    RunEnds
