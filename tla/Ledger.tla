------------------------------- MODULE Ledger -------------------------------
(* What the node's chain promises (spec 2, 4.2, 8.1, 8.2): a sequence of    *)
(* blocks, each a set of proofs that spend only live notes, no note twice, *)
(* and create only field elements that are neither live nor spent, each    *)
(* once.  The live notes and the spent history follow the blocks.          *)
EXTENDS Naturals, Sequences

CONSTANTS Txns, TxIn, TxOut, MODULUS, Genesis

VARIABLES live, spent, chain

ZERO == 0
Ins(t) == {TxIn[t][i] : i \in {1, 2}} \ {ZERO}
Outs(t) == {TxOut[t][i] : i \in {1, 2}} \ {ZERO}
InsOf(B) == UNION {Ins(t) : t \in B}
OutsOf(B) == UNION {Outs(t) : t \in B}

(* Two distinct proofs of a block share no note, spent or created. *)
PairwiseDisjoint(B) ==
    \A t, u \in B : t # u => /\ Ins(t) \cap Ins(u) = {}
                             /\ Outs(t) \cap Outs(u) = {}

Init ==
    /\ live = Genesis
    /\ spent = {}
    /\ chain = <<>>

AppendBlock(B) ==
    /\ B # {}
    /\ InsOf(B) \subseteq live
    /\ OutsOf(B) \cap (live \cup spent) = {}
    /\ \A e \in OutsOf(B) : e < MODULUS
    /\ PairwiseDisjoint(B)
    /\ live' = (live \ InsOf(B)) \cup OutsOf(B)
    /\ spent' = spent \cup InsOf(B)
    /\ chain' = Append(chain, B)

Next == \E B \in SUBSET Txns : AppendBlock(B)

Spec == Init /\ [][Next]_<<live, spent, chain>>
=============================================================================
