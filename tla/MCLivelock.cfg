CONSTANTS
    Txn = {t1, t2}
    Record = {a, b, c}
    NoTxn = NoTxn
    null = null
    MaxExecution = 1
    InitialValue = 0
    Modulus = 1
SPECIFICATION FairDBSpec
PROPERTY TransactionEnds
