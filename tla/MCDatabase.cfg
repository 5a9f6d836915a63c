CONSTANTS
    Txn = {t1, t2}
    Record = {a, b, c}
    NoTxn = NoTxn
    null = null
    MaxExecution = 2
    InitialValue = 1
    Modulus = 4
SPECIFICATION DBSpec
SYMMETRY Symmetry
INVARIANTS
    DBTypeOK
    RacesAreSilent
    LogComplete
PROPERTIES
    Serializable
