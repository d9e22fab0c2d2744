CONSTANTS
    c1 = c1
    c2 = c2
    c3 = c3
    p1 = p1
    sendA = sendA
    sendB = sendB
    mintM = mintM
    replay = replay
    m1 = m1
    mintBad = mintBad
    mintP = mintP
    m2 = m2
    spendBoth = spendBoth
    none = none
    RpcClients <- Dup_RpcClients
    Peers <- MC_Peers
    Txns <- Dup_Txns
    Mints <- MC_Mints
    NoMint = none
    Req <- Dup_Req
    TxIn <- Dup_TxIn
    TxOut <- Dup_TxOut
    TxMint <- Dup_TxMint
    ProofValid <- Dup_ProofValid
    MintMatches <- Dup_MintMatches
    MaxElem = 4
    MODULUS = 4
    Genesis = {1}
    Offset = 0
    MaxL1 = 1
    MaxBlocks = 3
SPECIFICATION Spec
PROPERTIES BlockOutputsFresh
CHECK_DEADLOCK FALSE
