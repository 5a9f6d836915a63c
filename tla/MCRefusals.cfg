CONSTANTS
    Txn = {t1, t2, t3}
    Record = {a, b}
    NoTxn = NoTxn
    null = null
SPECIFICATION LTSpec
INVARIANT RefusalMeansDeadlock
