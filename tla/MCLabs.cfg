CONSTANTS
    NumProducer = 2
    NumKey = 2
    QueueSize = 2
    NumThread = 3
    NumWork = 2
    NUM_THREAD = 2
    Ranges <- LabRanges
    MaxRounds = 2
    MaxSpurious = 1
    NumPool = 2
    NumPost = 3
    Limit = 3
SPECIFICATION LabSpec
CHECK_DEADLOCK FALSE
INVARIANTS
    FirstInFirstOut
    TailNearEnd
    CounterExact
    NodesOwned
    CountExact
    HandlersExact
PROPERTY LabsEnd
