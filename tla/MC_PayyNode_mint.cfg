CONSTANTS
    c1 = c1
    c2 = c2
    c3 = c3
    p1 = p1
    sendA = sendA
    sendB = sendB
    mintM = mintM
    replay = replay
    m1 = m1
    mintBad = mintBad
    mintP = mintP
    m2 = m2
    spendBoth = spendBoth
    none = none
    RpcClients <- Mint_RpcClients
    Peers <- MC_Peers
    Txns <- Mint_Txns
    Mints <- Mint_Mints
    NoMint = none
    Req <- Mint_Req
    TxIn <- Mint_TxIn
    TxOut <- Mint_TxOut
    TxMint <- Mint_TxMint
    ProofValid <- Mint_ProofValid
    MintMatches <- Mint_MintMatches
    MaxElem = 4
    MODULUS = 4
    Genesis = {1}
    Offset = 1
    MaxL1 = 3
    MaxBlocks = 2
SPECIFICATION Spec
INVARIANTS MintsConfirmed CommitmentsInField
CHECK_DEADLOCK FALSE
