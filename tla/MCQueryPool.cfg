CONSTANTS
    NumThread = 2
    MaxLines = 5
SPECIFICATION HSpec
INVARIANTS
    OutputInOrder
PROPERTIES
    SignalsReach
    EndsIfIdle
    HarnessSucceeds
