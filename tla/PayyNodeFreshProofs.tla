------------------------- MODULE PayyNodeFreshProofs -------------------------
(***************************************************************************)
(* Every block the node applies spends only live notes, none twice, and    *)
(* re-creates a spent note only when an earlier block created it too       *)
(* (FreshUnlessRepeated), for every value of the constants and whoever     *)
(* submits what: a proof may reach the mempool twice, and two proofs may   *)
(* create the same note.                                                   *)
(***************************************************************************)
EXTENDS PayyNodeProofs

(* validate_txn answers ok only when every input slot is padding or a     *)
(* note of the tree, and every output slot padding or a note that is      *)
(* neither in the tree nor in the element history.                         *)
LEMMA ValidateOkFresh ==
    ASSUME NEW t \in Txns, ValidateTxn(t) = "ok"
    PROVE  /\ Ins(t) \subseteq tree
           /\ Outs(t) \cap (tree \cup removed) = {}
<1>1. /\ InputErr(TxIn[t][1]) = "ok" /\ InputErr(TxIn[t][2]) = "ok"
      /\ OutputErr(TxOut[t][1]) = "ok" /\ OutputErr(TxOut[t][2]) = "ok"
  BY DEF ValidateTxn, FirstErr
<1>2. \A x : InputErr(x) = "ok" => x = ZERO \/ x \in tree
  BY DEF InputErr
<1>3. \A x : OutputErr(x) = "ok" => x = ZERO \/ (x \notin tree /\ x \notin removed)
  BY DEF OutputErr
<1>4. QED
  BY <1>1, <1>2, <1>3 DEF Ins, Outs

(* A step that leaves the notes and the blocks alone leaves alone which   *)
(* proofs create only notes some block created.                            *)
LEMMA RepeatsFrame ==
    ASSUME UNCHANGED <<tree, removed, height, blk>>, NEW t
    PROVE  CreatesOnlyRepeats(t)' = CreatesOnlyRepeats(t)
BY DEF CreatesOnlyRepeats, Included

(* ProduceBlock stores its block at the next height and keeps the others. *)
LEMMA BlockStored ==
    ASSUME TypeOK, NEW B, ProduceBlock(B)
    PROVE  /\ height \in Nat /\ height' = height + 1
           /\ \A h \in 1 .. height : blk'[h] = blk[h]
           /\ blk'[height + 1] = B
<1>1. /\ height \in Nat /\ height' = height + 1 /\ height + 1 \in Heights
      /\ blk' = [blk EXCEPT ![height + 1] = B] /\ DOMAIN blk = Heights
  BY BoundsNat DEF ProduceBlock, TypeOK, Heights
<1>2. \A h \in 1 .. height : blk'[h] = blk[h]
  BY <1>1 DEF Heights
<1>3. QED
  BY <1>1, <1>2

(* An applied block joins the included transactions. *)
LEMMA IncludedGrows ==
    ASSUME TypeOK, NEW B, ProduceBlock(B)
    PROVE  Included' = Included \cup B
<1>1. /\ height \in Nat /\ height' = height + 1
      /\ \A h \in 1 .. height : blk'[h] = blk[h]
      /\ blk'[height + 1] = B
  BY BlockStored
<1>2. 1 .. height' = (1 .. height) \cup {height + 1}
  BY <1>1
<1>3. QED
  BY <1>1, <1>2 DEF Included

(* The handler steps other than Validate and the two mempool insertions   *)
(* move no handler into or within Stage and leave notes, blocks and the    *)
(* mempool alone.                                                          *)
LEMMA QuietHandlerRepeatInv ==
    ASSUME TypeOK, RepeatInv, NEW p \in Procs,
           Receive(p) \/ ReadEthBlock(p) \/ GetMint(p) \/ WaitForMint(p)
           \/ EthRpcFail(p)
    PROVE  RepeatInv'
<1>1. UNCHANGED <<tree, removed, mempool, height, blk>>
  BY DEF Receive, ReadEthBlock, GetMint, WaitForMint, EthRpcFail
<1>2. /\ pc'[p] \notin Stage
      /\ \A q \in Procs \ {p} : pc'[q] = pc[q]
  BY DEF Receive, ReadEthBlock, GetMint, WaitForMint, EthRpcFail, Finish,
         Stage, TypeOK
<1>3. QED
  BY <1>1, <1>2, RepeatsFrame DEF RepeatInv, MempoolDisjoint

(* Validate moves its handler into Stage only with a proof whose inputs    *)
(* are live and whose outputs are new; Gossip keeps it there.              *)
LEMMA CheckHandlerRepeatInv ==
    ASSUME TypeOK, RepeatInv, NEW p \in Procs, Validate(p) \/ Gossip(p)
    PROVE  RepeatInv'
<1>1. UNCHANGED <<tree, removed, mempool, height, blk>>
  BY DEF Validate, Gossip
<1>2. \A q \in Procs \ {p} : pc'[q] = pc[q]
  BY DEF Validate, Gossip, Finish, TypeOK
<1>3. pc'[p] \in Stage =>
        Ins(Req[p]) \subseteq tree \cup removed /\ CreatesOnlyRepeats(Req[p])
  <2>1. CASE Validate(p)
    BY <2>1, ReqType, ValidateOkFresh
       DEF Validate, Finish, Stage, TypeOK, CreatesOnlyRepeats
  <2>2. CASE Gossip(p)
    BY <2>2 DEF Gossip, RepeatInv, Stage
  <2>3. QED
    BY <2>1, <2>2
<1>4. QED
  BY <1>1, <1>2, <1>3, RepeatsFrame DEF RepeatInv, MempoolDisjoint

(* add_wait and add insert the handler's proof only when MempoolConflict   *)
(* is false: none of its inputs is spent or spent by another entry.        *)
LEMMA AdmitRepeatInv ==
    ASSUME TypeOK, RepeatInv, NEW p \in Procs, AddWait(p) \/ PeerAdd(p)
    PROVE  RepeatInv'
<1> DEFINE t == Req[p]
<1>1. /\ UNCHANGED <<tree, removed, height, blk>>
      /\ \A q \in Procs \ {p} : pc'[q] = pc[q]
      /\ pc[p] \in Stage /\ pc'[p] \notin Stage
  BY DEF AddWait, PeerAdd, Finish, Stage, TypeOK
<1>2. \A u : CreatesOnlyRepeats(u)' = CreatesOnlyRepeats(u)
  BY <1>1, RepeatsFrame
<1>3. CASE MempoolConflict(t)
  <2>1. mempool' = mempool
    BY <1>3 DEF AddWait, PeerAdd
  <2>2. QED
    BY <1>1, <1>2, <2>1 DEF RepeatInv, MempoolDisjoint
<1>4. CASE ~MempoolConflict(t)
  <2>1. mempool' = mempool \cup {t}
    BY <1>4 DEF AddWait, PeerAdd
  <2>2. Ins(t) \cap removed = {} /\ \A u \in mempool \ {t} : Ins(t) \cap Ins(u) = {}
    BY <1>4 DEF MempoolConflict
  <2>3. Ins(t) \subseteq tree /\ CreatesOnlyRepeats(t)
    BY <1>1, <2>2 DEF RepeatInv
  <2>4. MempoolDisjoint'
    BY <2>1, <2>2 DEF RepeatInv, MempoolDisjoint
  <2>5. QED
    BY <1>1, <1>2, <2>1, <2>3, <2>4 DEF RepeatInv
<1>5. QED
  BY <1>3, <1>4

(* A block spends only notes of the tree that no entry left behind        *)
(* spends; what it creates becomes a note some block created.             *)
LEMMA ProduceBlockRepeatInv ==
    ASSUME TypeOK, RepeatInv, NEW B \in SUBSET mempool, ProduceBlock(B)
    PROVE  RepeatInv'
<1>1. /\ tree' = (tree \ InsOf(B)) \cup OutsOf(B)
      /\ removed' = removed \cup InsOf(B)
      /\ mempool' = mempool \ B
  BY DEF ProduceBlock
<1>2. OutsOf(Included') = OutsOf(Included) \cup OutsOf(B)
  <2>1. Included' = Included \cup B
    BY IncludedGrows
  <2>2. \A X, Y : OutsOf(X \cup Y) = OutsOf(X) \cup OutsOf(Y)
    BY DEF OutsOf
  <2>3. QED
    BY <2>1, <2>2
<1>3. tree' \cup removed' \subseteq tree \cup removed \cup OutsOf(B)
      /\ tree \cup removed \subseteq tree' \cup removed'
  <2>1. InsOf(B) \subseteq tree
    BY DEF RepeatInv, InsOf
  <2>2. QED
    BY <1>1, <2>1
<1>4. \A u : CreatesOnlyRepeats(u) => CreatesOnlyRepeats(u)'
  BY <1>2, <1>3 DEF CreatesOnlyRepeats
<1>5. \A u \in mempool' : Ins(u) \subseteq tree'
  <2> SUFFICES ASSUME NEW u \in mempool \ B PROVE Ins(u) \subseteq tree'
    BY <1>1
  <2>1. Ins(u) \cap InsOf(B) = {}
    BY DEF RepeatInv, MempoolDisjoint, InsOf
  <2>2. QED
    BY <1>1, <2>1 DEF RepeatInv
<1>6. \A q \in Procs : pc'[q] \in Stage => pc[q] = pc'[q]
  BY DEF ProduceBlock, Stage
<1>7. QED
  BY <1>1, <1>3, <1>4, <1>5, <1>6 DEF RepeatInv, MempoolDisjoint

(* RepeatInv holds in every reachable state, whatever the interleaving of *)
(* handlers, blocks and rejected blocks.                                  *)
LEMMA RepeatInvHolds == Spec => []RepeatInv
<1>1. Init => RepeatInv
  BY DEF Init, RepeatInv, MempoolDisjoint, Stage
<1>2. TypeOK /\ RepeatInv /\ [Next]_vars => RepeatInv'
  <2> SUFFICES ASSUME TypeOK, RepeatInv, [Next]_vars PROVE RepeatInv'
    OBVIOUS
  <2>1. ASSUME NEW p \in Procs,
               Receive(p) \/ ReadEthBlock(p) \/ GetMint(p) \/ WaitForMint(p)
               \/ EthRpcFail(p)
        PROVE  RepeatInv'
    BY <2>1, QuietHandlerRepeatInv
  <2>2. ASSUME NEW p \in Procs, Validate(p) \/ Gossip(p) PROVE RepeatInv'
    BY <2>2, CheckHandlerRepeatInv
  <2>3. ASSUME NEW p \in Procs, AddWait(p) \/ PeerAdd(p) PROVE RepeatInv'
    BY <2>3, AdmitRepeatInv
  <2>4. ASSUME NEW B \in SUBSET mempool, ProduceBlock(B) PROVE RepeatInv'
    BY <2>4, ProduceBlockRepeatInv
  <2>5. ASSUME NEW B \in SUBSET mempool, BlockRejected(B) PROVE RepeatInv'
    BY <2>5, RepeatsFrame DEF BlockRejected, RepeatInv, MempoolDisjoint
  <2>6. ASSUME NEW S \in SUBSET Mints, L1Block(S) PROVE RepeatInv'
    BY <2>6, RepeatsFrame DEF L1Block, RepeatInv, MempoolDisjoint
  <2>7. CASE UNCHANGED vars
    BY <2>7, RepeatsFrame DEF vars, RepeatInv, MempoolDisjoint
  <2>8. QED
    BY <2>1, <2>2, <2>3, <2>4, <2>5, <2>6, <2>7 DEF Next
<1>3. QED
  BY <1>1, <1>2, TypeCorrect, PTL DEF Spec

(* Only ProduceBlock raises the block height. *)
LEMMA HeightStep ==
    ASSUME TypeOK, [Next]_vars, height' = height + 1
    PROVE  \E B \in SUBSET mempool : ProduceBlock(B)
<1>1. height \in Nat
  BY DEF TypeOK
<1>2. height' # height
  BY <1>1
<1>3. QED
  BY <1>2 DEF Next, vars, Receive, ReadEthBlock, GetMint, Validate,
     WaitForMint, EthRpcFail, Gossip, AddWait, PeerAdd, BlockRejected, L1Block

(* Every block the node applies spends only notes live in the tree, no     *)
(* note twice, and re-creates a spent note only if an earlier block        *)
(* created it, although each proof was validated against an older tree     *)
(* and waited through the gossip and add_wait awaits since.                *)
THEOREM FreshUnlessRepeatedHolds == Spec => FreshUnlessRepeated
<1>1. TypeOK /\ RepeatInv /\ [Next]_vars => [BlockSpendsLive]_vars
  <2> SUFFICES ASSUME TypeOK, RepeatInv, [Next]_vars, height' = height + 1
               PROVE  LET B == blk'[height'] IN
                      /\ InsOf(B) \subseteq tree
                      /\ \A t1, t2 \in B : t1 # t2 => Ins(t1) \cap Ins(t2) = {}
                      /\ OutsOf(B) \cap removed \subseteq OutsOf(Included)
    BY DEF BlockSpendsLive
  <2>1. PICK B \in SUBSET mempool : ProduceBlock(B)
    BY HeightStep
  <2>2. blk'[height'] = B
    BY <2>1, BlockStored
  <2>3. InsOf(B) \subseteq tree
    BY DEF RepeatInv, InsOf
  <2>4. \A t1, t2 \in B : t1 # t2 => Ins(t1) \cap Ins(t2) = {}
    BY DEF RepeatInv, MempoolDisjoint
  <2>5. OutsOf(B) \cap removed \subseteq OutsOf(Included)
    BY DEF RepeatInv, CreatesOnlyRepeats, OutsOf
  <2>6. QED
    BY <2>2, <2>3, <2>4, <2>5
<1>2. QED
  BY <1>1, TypeCorrect, RepeatInvHolds, PTL DEF FreshUnlessRepeated, Spec
=============================================================================
