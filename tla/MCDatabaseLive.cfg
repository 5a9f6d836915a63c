CONSTANTS
    t1 = t1
    t2 = t2
    t3 = t3
    a = a
    b = b
    c = c
    Txn = {t1, t2, t3}
    Record = {a, b, c}
    NoTxn = NoTxn
    null = null
    MaxExecution = 1
    InitialValue = 1
    Modulus = 2
SPECIFICATION PlannedSpec
INVARIANT AbortsAreDeadlocks
PROPERTIES
    Serializable
    SpinEnds
    EndsUnlessRefused
