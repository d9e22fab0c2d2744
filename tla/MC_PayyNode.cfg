CONSTANTS
    c1 = c1
    c2 = c2
    c3 = c3
    p1 = p1
    sendA = sendA
    sendB = sendB
    mintM = mintM
    replay = replay
    m1 = m1
    mintBad = mintBad
    mintP = mintP
    m2 = m2
    spendBoth = spendBoth
    none = none
    RpcClients <- MC_RpcClients
    Peers <- MC_Peers
    Txns <- MC_Txns
    Mints <- MC_Mints
    NoMint = none
    Req <- MC_Req
    TxIn <- MC_TxIn
    TxOut <- MC_TxOut
    TxMint <- MC_TxMint
    ProofValid <- MC_ProofValid
    MintMatches <- MC_MintMatches
    MaxElem = 4
    MODULUS = 4
    Genesis = {1}
    Offset = 1
    MaxL1 = 3
    MaxBlocks = 2
SPECIFICATION Spec
PROPERTIES LedgerRefinement
CHECK_DEADLOCK FALSE
