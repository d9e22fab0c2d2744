---------------------------- MODULE MC_PayyNode ----------------------------
(***************************************************************************)
(* Small instances of PayyNode.  Genesis holds note 1.  sendA and sendB   *)
(* spend note 1 (the double_spend test), replay re-creates the genesis    *)
(* note 1 (the resurrection validate_txn's history check is for), and a   *)
(* peer relays mintM, which mints note 3 once mint m1 is on L1.           *)
(***************************************************************************)
EXTENDS PayyNode, TLC

CONSTANTS c1, c2, c3, p1, sendA, sendB, mintM, replay, mintBad, mintP, m1, m2,
          spendBoth, none

MC_RpcClients == {c1, c2, c3}
MC_Peers == {p1}
MC_Txns == {sendA, sendB, mintM, replay}
MC_Mints == {m1}
MC_Req == (c1 :> sendA) @@ (c2 :> sendB) @@ (c3 :> replay) @@ (p1 :> mintM)
MC_TxIn == (sendA :> <<1, 0>>) @@ (sendB :> <<1, 0>>) @@ (mintM :> <<0, 0>>)
           @@ (replay :> <<0, 0>>)
MC_TxOut == (sendA :> <<2, 0>>) @@ (sendB :> <<0, 0>>) @@ (mintM :> <<3, 0>>)
            @@ (replay :> <<1, 0>>)
MC_TxMint == (sendA :> none) @@ (sendB :> none) @@ (mintM :> m1)
             @@ (replay :> none)
MC_ProofValid == [t \in MC_Txns |-> TRUE]
MC_MintMatches == [t \in MC_Txns |-> TRUE]

(* Two RPC handlers submitting the same mint: a client retrying a request *)
(* it gave up on, or the double_mint test run concurrently.  spendBoth    *)
(* spends the genesis note 1 and the minted note 3, and a peer relays     *)
(* replay, which re-creates note 1.                                       *)
Dup_RpcClients == {c1, c2, c3}
Dup_Txns == {mintM, spendBoth, replay}
Dup_Req == (c1 :> mintM) @@ (c2 :> mintM) @@ (c3 :> spendBoth) @@ (p1 :> replay)
Dup_TxIn == (mintM :> <<0, 0>>) @@ (spendBoth :> <<1, 3>>) @@ (replay :> <<0, 0>>)
Dup_TxOut == (mintM :> <<3, 0>>) @@ (spendBoth :> <<2, 0>>) @@ (replay :> <<1, 0>>)
Dup_TxMint == (mintM :> m1) @@ (spendBoth :> none) @@ (replay :> none)
Dup_ProofValid == [t \in Dup_Txns |-> TRUE]
Dup_MintMatches == [t \in Dup_Txns |-> TRUE]

(* Mint admission: mintBad claims mint m1 with another amount, and a peer *)
(* relays mintP, a mint of m2 whose second output 4 is not a field      *)
(* element (MODULUS = 4).                                                 *)
Mint_RpcClients == {c1, c3}
Mint_Txns == {mintM, mintBad, mintP}
Mint_Mints == {m1, m2}
Mint_Req == (c1 :> mintBad) @@ (c3 :> mintM) @@ (p1 :> mintP)
Mint_TxIn == [t \in Mint_Txns |-> <<0, 0>>]
Mint_TxOut == (mintM :> <<3, 0>>) @@ (mintBad :> <<3, 0>>) @@ (mintP :> <<2, 4>>)
Mint_TxMint == (mintM :> m1) @@ (mintBad :> m1) @@ (mintP :> m2)
Mint_ProofValid == [t \in Mint_Txns |-> TRUE]
Mint_MintMatches == (mintM :> TRUE) @@ (mintBad :> FALSE) @@ (mintP :> TRUE)
=============================================================================
