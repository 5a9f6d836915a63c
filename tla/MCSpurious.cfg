CONSTANTS
    NumThread = 2
    MaxWork = 1
    Nobody = Nobody
SPECIFICATION Spec
INVARIANT StartTogether
