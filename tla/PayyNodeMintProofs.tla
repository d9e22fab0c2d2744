------------------------- MODULE PayyNodeMintProofs -------------------------
(* Proof that the node includes only mints confirmed on L1 at safe depth   *)
(* (MintsConfirmed), for every value of the constants.  The argument: a    *)
(* mint proof leaves get_mint only when the mint is registered at the safe *)
(* height of an eth_block read from L1 earlier; L1 only grows and a        *)
(* registration never changes; so the mint stays at safe depth while its   *)
(* proof is validated, gossiped, waits in the mempool and is included.     *)
EXTENDS PayyNodeProofs

(* Every proof in a block is one of Txns. *)
LEMMA IncludedType ==
    ASSUME TypeOK PROVE Included \subseteq Txns
<1> SUFFICES ASSUME NEW t \in Included PROVE t \in Txns
  OBVIOUS
<1>1. PICK h \in 1 .. height : t \in blk[h]
  BY DEF Included
<1>2. h \in Heights
  BY BoundsNat DEF TypeOK, Heights
<1>3. QED
  BY <1>1, <1>2 DEF TypeOK

(* A step that leaves L1 alone leaves every proof's confirmation alone. *)
LEMMA ConfirmedFrame ==
    ASSUME UNCHANGED <<l1, mintReg>>, NEW t
    PROVE  MintConfirmed(t)' = MintConfirmed(t)
BY DEF MintConfirmed

(* get_mint found the mint at the safe height of an eth_block that L1 had *)
(* reached, and a registration lies above genesis: the mint is at depth   *)
(* Offset below the latest L1 block.  The clamp of safe_eth_height to 0   *)
(* finds nothing, since no mint is registered at block 0.                 *)
LEMMA FoundIsConfirmed ==
    ASSUME NEW m \in Mints, NEW b \in Nat, NEW top \in Nat,
           b <= top, mintReg[m] # NotRegistered => mintReg[m] \in 1 .. top,
           MintAt(m, SafeHeight(b))
    PROVE  /\ mintReg[m] # NotRegistered
           /\ mintReg[m] + Offset <= top
<1>1. Offset \in Nat
  BY ConstAssumption
<1>2. CASE b >= Offset
  BY <1>1, <1>2 DEF MintAt, SafeHeight
<1>3. CASE b < Offset
  BY <1>1, <1>3 DEF MintAt, SafeHeight
<1>4. QED
  BY <1>1, <1>2, <1>3

(* The handler steps keep MintInv. *)
LEMMA HandlerMintInv ==
    ASSUME TypeOK, MintInv, NEW p \in Procs,
           \/ Receive(p) \/ ReadEthBlock(p) \/ GetMint(p) \/ Validate(p)
           \/ WaitForMint(p) \/ EthRpcFail(p) \/ Gossip(p) \/ AddWait(p)
           \/ PeerAdd(p)
    PROVE  MintInv'
<1>1. UNCHANGED <<l1, mintReg, height, blk>>
  BY DEF Receive, ReadEthBlock, GetMint, Validate, WaitForMint, EthRpcFail,
         Gossip, AddWait, PeerAdd
<1>2. Included' = Included
  BY <1>1 DEF Included
<1>3. \A q \in Procs \ {p} : pc'[q] = pc[q] /\ ethBlk'[q] = ethBlk[q]
  BY DEF Receive, ReadEthBlock, GetMint, Validate, WaitForMint, EthRpcFail,
         Gossip, AddWait, PeerAdd, Finish, TypeOK
<1>4. ethBlk'[p] <= l1
  <2>1. CASE ReadEthBlock(p)
    BY <2>1 DEF ReadEthBlock, TypeOK
  <2>2. CASE ~ReadEthBlock(p)
    <3>1. ethBlk'[p] = ethBlk[p]
      BY <2>2 DEF Receive, GetMint, Validate, WaitForMint, EthRpcFail,
                  Gossip, AddWait, PeerAdd
    <3>2. QED
      BY <3>1 DEF MintInv
  <2>3. QED
    BY <2>1, <2>2
<1>5. pc'[p] \in {"validate"} \cup Stage => MintConfirmed(Req[p])
  <2>1. CASE Receive(p)
    BY <2>1 DEF Receive, MintConfirmed, Stage, TypeOK
  <2>2. CASE ReadEthBlock(p) \/ WaitForMint(p) \/ EthRpcFail(p)
        \/ AddWait(p) \/ PeerAdd(p)
    BY <2>2 DEF ReadEthBlock, WaitForMint, EthRpcFail, AddWait, PeerAdd,
                Finish, Stage, TypeOK
  <2>3. CASE Validate(p) \/ Gossip(p)
    BY <2>3 DEF Validate, Gossip, MintInv, Stage
  <2>4. CASE GetMint(p)
    <3> DEFINE t == Req[p]
               m == TxMint[t]
    <3>1. pc'[p] = "validate" => MintAt(m, SafeHeight(ethBlk[p])) /\ MintMatches[t]
      BY <2>4 DEF GetMint, Finish, TypeOK
    <3>2. pc'[p] \in Stage => FALSE
      BY <2>4 DEF GetMint, Finish, Stage, TypeOK
    <3>3. t \in Txns /\ l1 \in Nat /\ ethBlk[p] \in Nat
      BY ReqType DEF TypeOK
    <3>4. CASE m = NoMint
      BY <3>4 DEF MintConfirmed
    <3>5. CASE m # NoMint
      <4>1. m \in Mints
        BY <3>3, <3>5, ConstAssumption
      <4>2. ASSUME MintAt(m, SafeHeight(ethBlk[p]))
            PROVE  mintReg[m] # NotRegistered /\ mintReg[m] + Offset <= l1
        BY <3>3, <4>1, <4>2, FoundIsConfirmed DEF MintInv
      <4>3. QED
        BY <3>1, <3>2, <4>2 DEF MintConfirmed
    <3>6. QED
      BY <3>4, <3>5
  <2>5. QED
    BY <2>1, <2>2, <2>3, <2>4
<1>6. \A u \in mempool' : u \in mempool \/ (u = Req[p] /\ pc[p] \in Stage)
  BY DEF Receive, ReadEthBlock, GetMint, Validate, WaitForMint, EthRpcFail,
         Gossip, AddWait, PeerAdd, Stage
<1>7. \A t : MintConfirmed(t)' = MintConfirmed(t)
  BY <1>1, ConfirmedFrame
<1>8. MintsConfirmed'
  BY <1>2, <1>7 DEF MintsConfirmed, MintInv
<1>9. QED
  BY <1>1, <1>3, <1>4, <1>5, <1>6, <1>7, <1>8 DEF MintInv

(* A block includes mempool entries only, which are confirmed. *)
LEMMA ProduceBlockMintInv ==
    ASSUME TypeOK, MintInv, NEW B \in SUBSET mempool, ProduceBlock(B)
    PROVE  MintInv'
<1>1. UNCHANGED <<l1, mintReg, ethBlk>> /\ mempool' = mempool \ B
  BY DEF ProduceBlock
<1>2. \A t : MintConfirmed(t)' = MintConfirmed(t)
  BY <1>1, ConfirmedFrame
<1>3. Included' \subseteq Included \cup B
  <2>1. height \in Nat /\ height' = height + 1 /\ height + 1 \in Heights
    BY BoundsNat DEF ProduceBlock, TypeOK, Heights
  <2>2. blk' = [blk EXCEPT ![height + 1] = B] /\ DOMAIN blk = Heights
    BY DEF ProduceBlock, TypeOK
  <2>3. \A h \in 1 .. height' : blk'[h] \subseteq blk[h] \cup B
    BY <2>1, <2>2 DEF Heights
  <2>4. \A h \in 1 .. height' : h # height + 1 => h \in 1 .. height
    BY <2>1
  <2>5. \A h \in 1 .. height' : blk'[h] \subseteq Included \cup B
    BY <2>1, <2>2, <2>4 DEF Included
  <2>6. QED
    BY <2>5 DEF Included
<1>4. \A q \in Procs : pc'[q] \in {"validate"} \cup Stage => pc[q] = pc'[q]
  BY DEF ProduceBlock, Stage
<1>5. MintsConfirmed'
  BY <1>2, <1>3 DEF MintsConfirmed, MintInv
<1>6. QED
  BY <1>1, <1>2, <1>4, <1>5 DEF MintInv

(* A new L1 block keeps every registration and raises the latest block,  *)
(* so a confirmed mint stays confirmed.                                   *)
LEMMA L1BlockMintInv ==
    ASSUME TypeOK, MintInv, NEW S \in SUBSET Mints, L1Block(S)
    PROVE  MintInv'
<1>1. l1 \in Nat /\ l1' = l1 + 1
  BY DEF L1Block, TypeOK
<1>2. \A m \in Mints : mintReg[m] # NotRegistered => mintReg'[m] = mintReg[m]
  BY DEF L1Block, NotRegistered
<1>3. \A m \in Mints : mintReg'[m] # NotRegistered => mintReg'[m] \in 1 .. l1'
  BY <1>1 DEF L1Block, MintInv, NotRegistered
<1>4. ASSUME NEW t \in Txns, MintConfirmed(t) PROVE MintConfirmed(t)'
  <2>1. CASE TxMint[t] = NoMint
    BY <2>1 DEF MintConfirmed
  <2>2. CASE TxMint[t] # NoMint
    <3>1. TxMint[t] \in Mints
      BY <2>2, ConstAssumption
    <3>2. mintReg[TxMint[t]] \in Int
      BY <3>1 DEF TypeOK, NotRegistered
    <3>3. QED
      BY <1>1, <1>2, <2>2, <3>1, <3>2, <1>4, BoundsNat DEF MintConfirmed
  <2>3. QED
    BY <2>1, <2>2
<1>5. UNCHANGED <<tree, removed, mempool, height, blk, pc, ethBlk>>
  BY DEF L1Block
<1>6. Included' = Included
  BY <1>5 DEF Included
<1>7. \A p \in Procs : ethBlk'[p] <= l1'
  BY <1>1, <1>5 DEF MintInv, TypeOK
<1>8. \A p \in Procs : pc'[p] \in {"validate"} \cup Stage => MintConfirmed(Req[p])'
  BY <1>4, <1>5, ReqType DEF MintInv
<1>9. \A t \in mempool' : MintConfirmed(t)'
  BY <1>4, <1>5 DEF MintInv, TypeOK
<1>10. MintsConfirmed'
  <2>1. \A t \in Included : MintConfirmed(t)
    BY DEF MintInv, MintsConfirmed
  <2>2. QED
    BY <1>4, <1>6, <2>1, IncludedType DEF MintsConfirmed
<1>11. QED
  BY <1>3, <1>7, <1>8, <1>9, <1>10 DEF MintInv

(* MintInv holds in every reachable state. *)
THEOREM MintInvHolds == Spec => []MintInv
<1>1. Init => MintInv
  BY DEF Init, MintInv, MintsConfirmed, Included, Stage
<1>2. TypeOK /\ MintInv /\ [Next]_vars => MintInv'
  <2> SUFFICES ASSUME TypeOK, MintInv, [Next]_vars PROVE MintInv'
    OBVIOUS
  <2>1. ASSUME NEW p \in Procs,
               \/ Receive(p) \/ ReadEthBlock(p) \/ GetMint(p) \/ Validate(p)
               \/ WaitForMint(p) \/ EthRpcFail(p) \/ Gossip(p) \/ AddWait(p)
               \/ PeerAdd(p)
        PROVE  MintInv'
    BY <2>1, HandlerMintInv
  <2>2. ASSUME NEW B \in SUBSET mempool, ProduceBlock(B) PROVE MintInv'
    BY <2>2, ProduceBlockMintInv
  <2>3. ASSUME NEW S \in SUBSET Mints, L1Block(S) PROVE MintInv'
    BY <2>3, L1BlockMintInv
  <2>4. CASE UNCHANGED vars
    <3>1. \A t : MintConfirmed(t)' = MintConfirmed(t)
      BY <2>4, ConfirmedFrame DEF vars
    <3>2. Included' = Included
      BY <2>4 DEF vars, Included
    <3>3. QED
      BY <2>4, <3>1, <3>2 DEF MintsConfirmed, vars, MintInv
  <2>6. ASSUME NEW B \in SUBSET mempool, BlockRejected(B) PROVE MintInv'
    <3>1. \A t : MintConfirmed(t)' = MintConfirmed(t)
      BY <2>6, ConfirmedFrame DEF BlockRejected
    <3>2. Included' = Included
      BY <2>6 DEF BlockRejected, Included
    <3>3. QED
      BY <2>6, <3>1, <3>2 DEF MintsConfirmed, BlockRejected, MintInv
  <2>5. QED
    BY <2>1, <2>2, <2>3, <2>4, <2>6 DEF Next
<1>3. QED
  BY <1>1, <1>2, TypeCorrect, PTL DEF Spec

(* The node never includes a mint that L1 has not registered at least    *)
(* Offset blocks deep with the proof's amount and kind, whatever L1 does  *)
(* between the block_number and get_mint reads of validate_transaction.  *)
THEOREM MintsConfirmedHolds == Spec => []MintsConfirmed
BY MintInvHolds, PTL DEF MintInv
=============================================================================
