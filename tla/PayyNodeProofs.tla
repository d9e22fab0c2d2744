--------------------------- MODULE PayyNodeProofs ---------------------------
(***************************************************************************)
(* Proofs about PayyNode for every value of its constants: the type        *)
(* invariant, and that only field elements enter the notes tree and its    *)
(* history.                                                                *)
(***************************************************************************)
EXTENDS PayyNode, TLAPS

(* The bounds of the model are natural numbers. *)
LEMMA BoundsNat ==
    MaxBlocks \in Nat /\ MaxL1 \in Nat /\ Offset \in Nat
BY ConstAssumption

(* The proof a handler is given is one of Txns. *)
LEMMA ReqType ==
    ASSUME NEW p \in Procs
    PROVE  Req[p] \in Txns
BY ConstAssumption

(* The commitments of a set of transactions are elements. *)
LEMMA CommitmentsType ==
    ASSUME NEW B \in SUBSET Txns
    PROVE  /\ InsOf(B) \subseteq Elements
           /\ OutsOf(B) \subseteq Elements
<1>1. ASSUME NEW t \in Txns
      PROVE  TxIn[t] \in Elements \X Elements /\ TxOut[t] \in Elements \X Elements
  BY ConstAssumption
<1>2. ASSUME NEW t \in Txns PROVE Ins(t) \subseteq Elements /\ Outs(t) \subseteq Elements
  BY <1>1 DEF Ins, Outs
<1>3. QED
  BY <1>2 DEF InsOf, OutsOf

(* The results validate_txn can report are results of a handler. *)
LEMMA ValidateTxnType ==
    ASSUME NEW t
    PROVE  ValidateTxn(t) \in Results
BY DEF ValidateTxn, FirstErr, InputErr, OutputErr, Results

(* Each handler action keeps the type invariant. *)
LEMMA HandlerTypeOK ==
    ASSUME TypeOK, NEW p \in Procs,
           Receive(p) \/ ReadEthBlock(p) \/ GetMint(p) \/ Validate(p)
           \/ WaitForMint(p) \/ EthRpcFail(p) \/ Gossip(p) \/ AddWait(p)
           \/ PeerAdd(p)
    PROVE  TypeOK'
<1>1. CASE Receive(p)
  BY <1>1 DEF Receive, TypeOK, PCs
<1>2. CASE ReadEthBlock(p)
  BY <1>2 DEF ReadEthBlock, TypeOK, PCs
<1>3. CASE GetMint(p)
  BY <1>3 DEF GetMint, Finish, TypeOK, PCs, Results
<1>4. CASE Validate(p)
  <2>1. ValidateTxn(Req[p]) \in Results
    BY ValidateTxnType
  <2>2. QED
    BY <1>4, <2>1 DEF Validate, Finish, TypeOK, PCs
<1>5. CASE WaitForMint(p)
  BY <1>5 DEF WaitForMint, Finish, TypeOK, PCs, Results, NotWaiting
<1>6. CASE EthRpcFail(p)
  BY <1>6 DEF EthRpcFail, Finish, TypeOK, PCs, Results
<1>7. CASE Gossip(p)
  BY <1>7 DEF Gossip, TypeOK, PCs
<1>8. CASE AddWait(p)
  BY <1>8, ReqType DEF AddWait, Finish, TypeOK, PCs, Results
<1>9. CASE PeerAdd(p)
  BY <1>9, ReqType DEF PeerAdd, Finish, TypeOK, PCs, Results
<1>10. QED
  BY <1>1, <1>2, <1>3, <1>4, <1>5, <1>6, <1>7, <1>8, <1>9

(* Every state of the specification has the types TypeOK states. *)
THEOREM TypeCorrect == Spec => []TypeOK
<1>1. Init => TypeOK
  <2> SUFFICES ASSUME Init PROVE TypeOK
    OBVIOUS
  <2>1. tree \subseteq Elements /\ removed \subseteq Elements
    BY ConstAssumption DEF Init, Elements
  <2>2. blk \in [Heights -> SUBSET Txns] /\ height \in 0 .. MaxBlocks
    BY BoundsNat DEF Init
  <2>3. /\ pc \in [Procs -> PCs] /\ res \in [Procs -> Results]
        /\ ethBlk \in [Procs -> 0 .. MaxL1] /\ resH \in [Procs -> 0 .. MaxBlocks]
        /\ started \in [Procs -> {NotWaiting} \cup 0 .. MaxL1]
    BY BoundsNat DEF Init, PCs, Results, NotWaiting
  <2>4. l1 \in 0 .. MaxL1 /\ mintReg \in [Mints -> {NotRegistered} \cup 0 .. MaxL1]
    BY BoundsNat DEF Init, NotRegistered
  <2>5. QED
    BY <2>1, <2>2, <2>3, <2>4 DEF Init, TypeOK
<1>2. TypeOK /\ [Next]_vars => TypeOK'
  <2> SUFFICES ASSUME TypeOK, [Next]_vars PROVE TypeOK'
    OBVIOUS
  <2>1. ASSUME NEW p \in Procs,
               Receive(p) \/ ReadEthBlock(p) \/ GetMint(p) \/ Validate(p)
               \/ WaitForMint(p) \/ EthRpcFail(p) \/ Gossip(p)
               \/ AddWait(p) \/ PeerAdd(p)
        PROVE  TypeOK'
    BY <2>1, HandlerTypeOK
  <2>2. ASSUME NEW B \in SUBSET mempool, ProduceBlock(B) PROVE TypeOK'
    <3>1. B \in SUBSET Txns
      BY DEF TypeOK
    <3>2. tree' \subseteq Elements /\ removed' \subseteq Elements
      BY <2>2, <3>1, CommitmentsType DEF ProduceBlock, TypeOK
    <3>3. height' \in 0 .. MaxBlocks /\ height' \in Heights
      BY <2>2, BoundsNat DEF ProduceBlock, TypeOK, Heights
    <3>6. blk' \in [Heights -> SUBSET Txns]
      BY <2>2, <3>1, <3>3 DEF ProduceBlock, TypeOK
    <3>4. pc' \in [Procs -> PCs] /\ res' \in [Procs -> Results]
      BY <2>2 DEF ProduceBlock, TypeOK, PCs, Results
    <3>7. resH' \in [Procs -> 0 .. MaxBlocks]
      BY <2>2, <3>3 DEF ProduceBlock, TypeOK
    <3>5. QED
      BY <2>2, <3>2, <3>3, <3>4, <3>6, <3>7 DEF ProduceBlock, TypeOK
  <2>3. ASSUME NEW S \in SUBSET Mints, L1Block(S) PROVE TypeOK'
    BY <2>3, BoundsNat DEF L1Block, TypeOK, NotRegistered
  <2>4. CASE UNCHANGED vars
    BY <2>4 DEF vars, TypeOK
  <2>6. ASSUME NEW B \in SUBSET mempool, BlockRejected(B) PROVE TypeOK'
    BY <2>6 DEF BlockRejected, TypeOK
  <2>5. QED
    BY <2>1, <2>2, <2>3, <2>4, <2>6 DEF Next
<1>3. QED
  BY <1>1, <1>2, PTL DEF Spec


-----------------------------------------------------------------------------
(* validate_txn answers ok only for a proof whose four slots are all     *)
(* below MODULUS: each slot's size check comes before its other checks.  *)
LEMMA ValidateOkInField ==
    ASSUME NEW t \in Txns, ValidateTxn(t) = "ok"
    PROVE  SlotsInField(t)
<1>1. TxIn[t] \in Elements \X Elements /\ TxOut[t] \in Elements \X Elements
  BY ConstAssumption
<1>2. /\ InputErr(TxIn[t][1]) = "ok" /\ InputErr(TxIn[t][2]) = "ok"
      /\ OutputErr(TxOut[t][1]) = "ok" /\ OutputErr(TxOut[t][2]) = "ok"
  BY DEF ValidateTxn, FirstErr
<1>3. QED
  BY <1>1, <1>2, ConstAssumption DEF SlotsInField, InputErr, OutputErr,
     Elements

(* The commitments a set of in-field transactions inputs or outputs are  *)
(* below MODULUS.                                                        *)
LEMMA InFieldCommitments ==
    ASSUME NEW B \in SUBSET Txns, \A t \in B : SlotsInField(t)
    PROVE  \A e \in InsOf(B) \cup OutsOf(B) : e < MODULUS
BY DEF InsOf, OutsOf, Ins, Outs, SlotsInField

(* Only the handler that passed Validate, and only along gossip, add_wait *)
(* and add, is at a stage that FieldInv constrains.                       *)
LEMMA HandlerFieldInv ==
    ASSUME TypeOK, FieldInv, NEW p \in Procs,
           Receive(p) \/ ReadEthBlock(p) \/ GetMint(p) \/ Validate(p)
           \/ WaitForMint(p) \/ EthRpcFail(p) \/ Gossip(p) \/ AddWait(p)
           \/ PeerAdd(p)
    PROVE  FieldInv'
<1>1. Req[p] \in Txns
  BY ReqType
<1>2. UNCHANGED <<tree, removed>>
  BY DEF Receive, ReadEthBlock, GetMint, Validate, WaitForMint, EthRpcFail,
         Gossip, AddWait, PeerAdd
<1>3. \A q \in Procs \ {p} : pc'[q] = pc[q]
  BY DEF Receive, ReadEthBlock, GetMint, Validate, WaitForMint, EthRpcFail,
         Gossip, AddWait, PeerAdd, Finish, TypeOK
<1>4. pc'[p] \in Stage => SlotsInField(Req[p])
  <2>1. CASE Validate(p)
    BY <2>1, <1>1, ValidateOkInField DEF Validate, Finish, TypeOK, Stage
  <2>2. CASE Gossip(p)
    BY <2>2 DEF Gossip, FieldInv, TypeOK, Stage
  <2>3. CASE ~Validate(p) /\ ~Gossip(p)
    BY <2>3 DEF Receive, ReadEthBlock, GetMint, WaitForMint, EthRpcFail,
                AddWait, PeerAdd, Finish, TypeOK, Stage
  <2>4. QED
    BY <2>1, <2>2, <2>3
<1>5. \A t \in mempool' : SlotsInField(t)
  <2>1. CASE AddWait(p) \/ PeerAdd(p)
    BY <2>1 DEF AddWait, PeerAdd, FieldInv, Stage
  <2>2. CASE ~(AddWait(p) \/ PeerAdd(p))
    BY <2>2 DEF Receive, ReadEthBlock, GetMint, Validate, WaitForMint,
                EthRpcFail, Gossip, FieldInv
  <2>3. QED
    BY <2>1, <2>2
<1>6. QED
  BY <1>2, <1>3, <1>4, <1>5 DEF FieldInv, CommitmentsInField, Stage

(* A block inserts and spends only commitments of in-field mempool       *)
(* entries; it moves handlers only from waiting to done.                 *)
LEMMA ProduceBlockFieldInv ==
    ASSUME TypeOK, FieldInv, NEW B \in SUBSET mempool, ProduceBlock(B)
    PROVE  FieldInv'
<1>1. B \in SUBSET Txns /\ \A t \in B : SlotsInField(t)
  BY DEF TypeOK, FieldInv
<1>2. \A e \in InsOf(B) \cup OutsOf(B) : e < MODULUS
  BY <1>1, InFieldCommitments
<1>3. CommitmentsInField'
  BY <1>2 DEF ProduceBlock, FieldInv, CommitmentsInField
<1>4. \A t \in mempool' : SlotsInField(t)
  BY DEF ProduceBlock, FieldInv
<1>5. \A q \in Procs : pc'[q] \in {"gossip", "add_wait", "add"}
                          => pc[q] = pc'[q]
  BY DEF ProduceBlock
<1>6. QED
  BY <1>3, <1>4, <1>5 DEF FieldInv, ProduceBlock

(* FieldInv holds in every reachable state: the tree, the history, the    *)
(* mempool and every validated proof hold only field elements.           *)
THEOREM FieldInvHolds == Spec => []FieldInv
<1>1. Init => FieldInv
  BY ConstAssumption DEF Init, FieldInv, CommitmentsInField, Procs, Stage
<1>2. TypeOK /\ FieldInv /\ [Next]_vars => FieldInv'
  <2> SUFFICES ASSUME TypeOK, FieldInv, [Next]_vars PROVE FieldInv'
    OBVIOUS
  <2>1. ASSUME NEW p \in Procs,
               Receive(p) \/ ReadEthBlock(p) \/ GetMint(p) \/ Validate(p)
               \/ WaitForMint(p) \/ EthRpcFail(p) \/ Gossip(p)
               \/ AddWait(p) \/ PeerAdd(p)
        PROVE  FieldInv'
    BY <2>1, HandlerFieldInv
  <2>2. ASSUME NEW B \in SUBSET mempool, ProduceBlock(B) PROVE FieldInv'
    BY <2>2, ProduceBlockFieldInv
  <2>3. ASSUME NEW S \in SUBSET Mints, L1Block(S) PROVE FieldInv'
    BY <2>3 DEF L1Block, FieldInv, CommitmentsInField
  <2>4. CASE UNCHANGED vars
    BY <2>4 DEF vars, FieldInv, CommitmentsInField
  <2>6. ASSUME NEW B \in SUBSET mempool, BlockRejected(B) PROVE FieldInv'
    BY <2>6 DEF BlockRejected, FieldInv, CommitmentsInField
  <2>5. QED
    BY <2>1, <2>2, <2>3, <2>4, <2>6 DEF Next
<1>3. QED
  BY <1>1, <1>2, TypeCorrect, PTL DEF Spec

(* Only field elements ever enter the notes tree or the element history: *)
(* the size checks of validate_txn hold for every value of the constants, *)
(* although the commitments are inserted a block after they were checked. *)
THEOREM CommitmentsInFieldHolds == Spec => []CommitmentsInField
<1>1. FieldInv => CommitmentsInField
  BY DEF FieldInv
<1>2. QED
  BY <1>1, FieldInvHolds, PTL

=============================================================================
