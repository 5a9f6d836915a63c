CONSTANTS
    NumThread = 3
    MaxUpdates = 2
SPECIFICATION Spec
INVARIANTS
    TypeOK
    WaitFree
PROPERTY ScansAtomic
