CONSTANTS
    Txn = {t1, t2, t3}
    Record = {a, b}
    NoTxn = NoTxn
    null = null
SPECIFICATION LTSpec
SYMMETRY Symmetry
INVARIANTS
    LTInv
    OwnRecordRefused
    LockExclusion
    NoLostWakeup
    DeadlockFree
PROPERTY FirstComeFirstServed
