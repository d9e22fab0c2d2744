CONSTANTS
    tA = tA
    tB = tB
    r1 = r1
    r2 = r2
    r3 = r3
    Bad = Bad
    Txns <- MC_Txns
    TxIn <- MC_TxIn
    TxOut <- MC_TxOut
    Chain <- MC_Chain
    Readers <- MC_Readers
    Route <- MC_Route
    Query <- MC_Query
SPECIFICATION Spec
INVARIANTS NoInternalError
CHECK_DEADLOCK FALSE
