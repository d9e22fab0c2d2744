--------------------------- MODULE MC_ElementQuery ---------------------------
EXTENDS ElementQuery, TLC

CONSTANTS tA, tB, r1, r2, r3

(* Block 1 mints notes 1 and 2; block 2 spends note 1 into note 3. *)
MC_Txns == {tA, tB}
MC_TxIn == (tA :> <<0, 0>>) @@ (tB :> <<1, 0>>)
MC_TxOut == (tA :> <<1, 2>>) @@ (tB :> <<3, 0>>)
MC_Chain == << <<tA>>, <<tB>> >>

(* A single lookup of note 3, a list of notes 1 and 3, and a list with   *)
(* an item that is not an element.                                       *)
MC_Readers == {r1, r2, r3}
MC_Route == (r1 :> "get_element") @@ (r2 :> "list_elements")
                @@ (r3 :> "list_elements")
MC_Query == (r1 :> <<3>>) @@ (r2 :> <<1, 3>>) @@ (r3 :> <<2, Bad>>)
=============================================================================
