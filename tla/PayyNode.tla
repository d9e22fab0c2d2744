------------------------------ MODULE PayyNode ------------------------------
(***************************************************************************)
(* The transaction admission path of a rollup node.                        *)
(*                                                                         *)
(* Processes are request handlers: an RPC handler runs                     *)
(* NodeShared::submit_transaction_and_wait (validate, retry while a mint   *)
(* is not yet at the safe L1 height, gossip, Mempool::add_wait), a peer    *)
(* handler runs NodeShared::receive_transaction (validate, Mempool::add).  *)
(* Every .await of that code is a boundary between two actions, so L1      *)
(* blocks, node blocks and other handlers interleave at exactly the points *)
(* where the code can be suspended.                                        *)
(*                                                                         *)
(* The mempool, block production and block application are not part of    *)
(* the source tree: they are modelled from the specification (sections     *)
(* 4.2, 4.6 and 4.9); a block that insert_batch rejects is not applied and *)
(* block production stops.  The L1 chain is the environment: it grows, and mint      *)
(* registrations land in its blocks.                                       *)
(***************************************************************************)
EXTENDS Integers, FiniteSets

CONSTANTS
    RpcClients,    \* handlers of POST /transaction
    Peers,         \* handlers of transactions gossiped by other nodes
    Txns,          \* the UtxoProofs the handlers are given (by hash)
    Mints,         \* mint hashes registered on the rollup contract
    NoMint,        \* kind_messages of a Send or Burn: no mint to check
    Req,           \* Req[p]: the proof handler p was given
    TxIn,          \* TxIn[t]: input_commitments, a pair of elements
    TxOut,         \* TxOut[t]: output_commitments, a pair of elements
    TxMint,        \* TxMint[t]: the mint hash of a Mint, else NoMint
    ProofValid,    \* ProofValid[t]: utxo_proof.verify() succeeds
    MintMatches,   \* MintMatches[t]: contract amount/kind equal the proof's
    MaxElem,       \* elements are 0..MaxElem
    MODULUS,       \* Element::MODULUS; elements >= MODULUS are invalid
    Genesis,       \* commitments in the notes tree at start
    Offset,        \* config.safe_eth_height_offset
    MaxL1,         \* bound on the L1 block number
    MaxBlocks      \* bound on the node's block height

Procs == RpcClients \cup Peers
Elements == 0 .. MaxElem
ZERO == 0
NotRegistered == -1
NotWaiting == -1

ASSUME ConstAssumption ==
    /\ RpcClients \cap Peers = {}
    /\ NoMint \notin Mints
    /\ Req \in [Procs -> Txns]
    /\ TxIn \in [Txns -> Elements \X Elements]
    /\ TxOut \in [Txns -> Elements \X Elements]
    /\ TxMint \in [Txns -> Mints \cup {NoMint}]
    /\ ProofValid \in [Txns -> BOOLEAN]
    /\ MintMatches \in [Txns -> BOOLEAN]
    /\ MaxElem \in Nat /\ MODULUS \in Nat \ {0}
    /\ Genesis \subseteq (1 .. MaxElem) \cap (0 .. MODULUS - 1)
    /\ Offset \in Nat /\ MaxL1 \in Nat /\ MaxBlocks \in Nat

VARIABLES
    l1,         \* latest L1 block number
    mintReg,    \* mintReg[m]: L1 block that registered mint m, or NotRegistered
    tree,       \* the commitments in the notes tree
    removed,    \* element history: commitments spent by some block
    mempool,    \* the live mempool entries
    height,     \* the node's block height
    blk,        \* blk[h]: the transactions of block h
    pc,         \* where each handler is suspended
    ethBlk,     \* validate_transaction's eth_block, per handler
    started,    \* started_waiting_at_eth_block, per handler
    res,        \* the result each handler returned
    resH,       \* the block height an accepted submission was told
    halted      \* block application failed and the node stopped

vars == <<l1, mintReg, tree, removed, mempool, height, blk,
          pc, ethBlk, started, res, resH, halted>>

Heights == 1 .. MaxBlocks
PCs == {"idle", "read_block", "get_mint", "validate", "wait_block",
        "gossip", "add_wait", "add", "waiting", "done"}
Results == {"none", "ok", "InvalidProof", "InvalidElementSize",
            "InputNotInTree", "OutputExists", "OutputExistedRecently",
            "MintNotInContract", "MintDifferent", "EthRpc",
            "MempoolConflict"}

(* The non-padding input and output commitments of t. *)
Ins(t) == {TxIn[t][i] : i \in {1, 2}} \ {ZERO}
Outs(t) == {TxOut[t][i] : i \in {1, 2}} \ {ZERO}
InsOf(B) == UNION {Ins(t) : t \in B}
OutsOf(B) == UNION {Outs(t) : t \in B}
Included == UNION {blk[h] : h \in 1 .. height}

(* Mutant: the offset is not subtracted. *)
SafeHeightNoOffset(b) == b

(* safe_eth_height: eth_block - offset, 0 when the subtraction overflows. *)
SafeHeight(b) == IF b >= Offset THEN b - Offset ELSE 0

(* get_mint at L1 height h finds mint m. *)
MintAt(m, h) == mintReg[m] # NotRegistered /\ mintReg[m] <= h

(* The error validate_txn reports for one input and one output slot.     *)
InputErr(e) ==
    IF e >= MODULUS THEN "InvalidElementSize"
    ELSE IF e # ZERO /\ e \notin tree THEN "InputNotInTree"
    ELSE "ok"
(* Mutant: the size check of the output slots is off by one. *)
OutputErrOffByOne(e) ==
    IF e > MODULUS THEN "InvalidElementSize"
    ELSE IF e # ZERO /\ e \in tree THEN "OutputExists"
    ELSE IF e # ZERO /\ e \in removed THEN "OutputExistedRecently"
    ELSE "ok"

(* Mutant: the get_element_history check is dropped. *)
OutputErrNoHistory(e) ==
    IF e >= MODULUS THEN "InvalidElementSize"
    ELSE IF e # ZERO /\ e \in tree THEN "OutputExists"
    ELSE "ok"
OutputErr(e) ==
    IF e >= MODULUS THEN "InvalidElementSize"
    ELSE IF e # ZERO /\ e \in tree THEN "OutputExists"
    ELSE IF e # ZERO /\ e \in removed THEN "OutputExistedRecently"
    ELSE "ok"
FirstErr(a, b) == IF a # "ok" THEN a ELSE b

(* validate_txn: the proof, then the input slots, then the output slots, *)
(* in order, against one read of the notes tree and the block store.     *)
ValidateTxn(t) ==
    IF ~ProofValid[t] THEN "InvalidProof"
    ELSE FirstErr(InputErr(TxIn[t][1]),
         FirstErr(InputErr(TxIn[t][2]),
         FirstErr(OutputErr(TxOut[t][1]), OutputErr(TxOut[t][2]))))

(* Mempool admission (spec 4.6, 7): an input shared with another live    *)
(* entry, or already consumed by a block, is a conflict.  Only input     *)
(* commitments are given to the mempool (transaction.rs, NOIR_TODO).     *)
MempoolConflict(t) ==
    \E e \in Ins(t) : e \in removed \/ \E u \in mempool \ {t} : e \in Ins(u)

Finish(p, r) ==
    /\ pc' = [pc EXCEPT ![p] = "done"]
    /\ res' = [res EXCEPT ![p] = r]

-----------------------------------------------------------------------------
Init ==
    /\ l1 = 0
    /\ mintReg = [m \in Mints |-> NotRegistered]
    /\ tree = Genesis
    /\ removed = {}
    /\ mempool = {}
    /\ height = 0
    /\ blk = [h \in Heights |-> {}]
    /\ pc = [p \in Procs |-> "idle"]
    /\ ethBlk = [p \in Procs |-> 0]
    /\ started = [p \in Procs |-> NotWaiting]
    /\ res = [p \in Procs |-> "none"]
    /\ resH = [p \in Procs |-> 0]
    /\ halted = FALSE

(* A request reaches its handler; validate_transaction starts with the   *)
(* L1 reads when the proof is a Mint.                                    *)
Receive(p) ==
    /\ pc[p] = "idle"
    /\ pc' = [pc EXCEPT ![p] = IF TxMint[Req[p]] # NoMint THEN "read_block"
                                                          ELSE "validate"]
    /\ UNCHANGED <<l1, mintReg, tree, removed, mempool, height, blk,
                   ethBlk, started, res, resH, halted>>

(* validate_transaction: eth().block_number().await *)
ReadEthBlock(p) ==
    /\ pc[p] = "read_block"
    /\ ethBlk' = [ethBlk EXCEPT ![p] = l1]
    /\ pc' = [pc EXCEPT ![p] = "get_mint"]
    /\ UNCHANGED <<l1, mintReg, tree, removed, mempool, height, blk,
                   started, res, resH, halted>>

(* validate_transaction: get_mint(mint_hash) at the safe height.  A      *)
(* missing mint sends the RPC handler to the retry loop and ends the     *)
(* peer handler, whose errors are logged and swallowed.                  *)
GetMint(p) ==
    LET t == Req[p]
        found == MintAt(TxMint[t], SafeHeight(ethBlk[p]))
    IN /\ pc[p] = "get_mint"
       /\ \/ /\ ~found /\ p \in RpcClients
             /\ pc' = [pc EXCEPT ![p] = "wait_block"]
             /\ UNCHANGED res
          \/ /\ ~found /\ p \in Peers
             /\ Finish(p, "MintNotInContract")
          \/ /\ found /\ ~MintMatches[t]
             /\ Finish(p, "MintDifferent")
          \/ /\ found /\ MintMatches[t]
             /\ pc' = [pc EXCEPT ![p] = "validate"]
             /\ UNCHANGED res
       /\ UNCHANGED <<l1, mintReg, tree, removed, mempool, height, blk,
                      ethBlk, started, resH, halted>>

(* validate_txn, under the read latch of the notes tree. *)
Validate(p) ==
    LET r == ValidateTxn(Req[p]) IN
    /\ pc[p] = "validate"
    /\ IF r = "ok"
         THEN /\ pc' = [pc EXCEPT ![p] = IF p \in RpcClients THEN "gossip"
                                                             ELSE "add"]
              /\ UNCHANGED res
         ELSE Finish(p, r)
    /\ UNCHANGED <<l1, mintReg, tree, removed, mempool, height, blk,
                   ethBlk, started, resH, halted>>

(* The MintIsNotInTheContract arm of submit_transaction_and_wait: read   *)
(* the L1 block, remember the first one read, give up once more than     *)
(* Offset blocks have passed (at once when Offset = 0), else sleep and   *)
(* run validate_transaction again.                                       *)
WaitForMint(p) ==
    LET s == IF started[p] = NotWaiting THEN l1 ELSE started[p] IN
    /\ pc[p] = "wait_block"
    /\ started' = [started EXCEPT ![p] = s]
    /\ IF Offset = 0 \/ l1 - s > Offset
         THEN Finish(p, "MintNotInContract")
         ELSE /\ pc' = [pc EXCEPT ![p] = "read_block"]
              /\ UNCHANGED res
    /\ UNCHANGED <<l1, mintReg, tree, removed, mempool, height, blk,
                   ethBlk, resH, halted>>

(* A block_number() or get_mint() call fails; `?` returns the error. *)
EthRpcFail(p) ==
    /\ pc[p] \in {"read_block", "get_mint", "wait_block"}
    /\ Finish(p, "EthRpc")
    /\ UNCHANGED <<l1, mintReg, tree, removed, mempool, height, blk,
                   ethBlk, started, resH, halted>>

(* send_all(NetworkEvent::Transaction(..)).await: nothing of this node   *)
(* changes, but the handler is suspended.                                *)
Gossip(p) ==
    /\ pc[p] = "gossip"
    /\ pc' = [pc EXCEPT ![p] = "add_wait"]
    /\ UNCHANGED <<l1, mintReg, tree, removed, mempool, height, blk,
                   ethBlk, started, res, resH, halted>>

(* mempool.add_wait(hash, utxo, input_commitments).  An entry already    *)
(* live under the same hash gains one more waiter.                       *)
AddWait(p) ==
    LET t == Req[p] IN
    /\ pc[p] = "add_wait"
    /\ IF MempoolConflict(t)
         THEN /\ Finish(p, "MempoolConflict")
              /\ UNCHANGED mempool
         ELSE /\ mempool' = mempool \cup {t}
              /\ pc' = [pc EXCEPT ![p] = "waiting"]
              /\ UNCHANGED res
    /\ UNCHANGED <<l1, mintReg, tree, removed, height, blk,
                   ethBlk, started, resH, halted>>

(* receive_transaction: mempool.add, fire and forget. *)
PeerAdd(p) ==
    LET t == Req[p] IN
    /\ pc[p] = "add"
    /\ IF MempoolConflict(t)
         THEN /\ Finish(p, "MempoolConflict")
              /\ UNCHANGED mempool
         ELSE /\ mempool' = mempool \cup {t}
              /\ Finish(p, "ok")
    /\ UNCHANGED <<l1, mintReg, tree, removed, height, blk,
                   ethBlk, started, resH, halted>>

(* insert_batch (spec 4.2) inserts a block's outputs one at a time and   *)
(* fails on one already in the tree, or inserted before by the same      *)
(* batch, or repeated in the two slots of one proof.                     *)
InsertBatchOk(B) ==
    /\ OutsOf(B) \cap tree = {}
    /\ \A t1, t2 \in B : t1 # t2 => Outs(t1) \cap Outs(t2) = {}
    /\ \A t \in B : TxOut[t][1] = TxOut[t][2] => TxOut[t][1] = ZERO

(* Block production and application (spec 4.6, 4.9): take entries from  *)
(* the mempool, insert their outputs and spend their inputs under the    *)
(* exclusive latch, store the block, then resolve every add_wait whose   *)
(* transaction it includes.                                              *)
ProduceBlock(B) ==
    LET h == height + 1 IN
    /\ ~halted
    /\ height < MaxBlocks
    /\ B # {}
    /\ B \subseteq mempool
    /\ InsertBatchOk(B)
    /\ height' = h
    /\ blk' = [blk EXCEPT ![h] = B]
    /\ tree' = (tree \ InsOf(B)) \cup OutsOf(B)
    /\ removed' = removed \cup InsOf(B)
    /\ mempool' = mempool \ B
    /\ pc' = [p \in Procs |->
                IF pc[p] = "waiting" /\ Req[p] \in B THEN "done" ELSE pc[p]]
    /\ res' = [p \in Procs |->
                IF pc[p] = "waiting" /\ Req[p] \in B THEN "ok" ELSE res[p]]
    /\ resH' = [p \in Procs |->
                IF pc[p] = "waiting" /\ Req[p] \in B THEN h ELSE resH[p]]
    /\ UNCHANGED <<l1, mintReg, ethBlk, started, halted>>

(* The same block when insert_batch, which is atomic, fails: nothing is   *)
(* applied and block production stops; the handlers go on.              *)
BlockRejected(B) ==
    /\ ~halted
    /\ height < MaxBlocks
    /\ B # {}
    /\ B \subseteq mempool
    /\ ~InsertBatchOk(B)
    /\ halted' = TRUE
    /\ UNCHANGED <<l1, mintReg, tree, removed, mempool, height, blk,
                   pc, ethBlk, started, res, resH>>

(* A new L1 block; it registers some of the mints not yet registered. *)
L1Block(S) ==
    /\ l1 < MaxL1
    /\ \A m \in S : mintReg[m] = NotRegistered
    /\ l1' = l1 + 1
    /\ mintReg' = [m \in Mints |-> IF m \in S THEN l1 + 1 ELSE mintReg[m]]
    /\ UNCHANGED <<tree, removed, mempool, height, blk,
                   pc, ethBlk, started, res, resH, halted>>

Next ==
    \/ \E p \in Procs :
          \/ Receive(p) \/ ReadEthBlock(p) \/ GetMint(p) \/ Validate(p)
          \/ WaitForMint(p) \/ EthRpcFail(p) \/ Gossip(p) \/ AddWait(p)
          \/ PeerAdd(p)
    \/ \E B \in SUBSET mempool : ProduceBlock(B)
    \/ \E B \in SUBSET mempool : BlockRejected(B)
    \/ \E S \in SUBSET Mints : L1Block(S)

Spec == Init /\ [][Next]_vars

-----------------------------------------------------------------------------
(* Every variable holds a value of its intended kind. *)
TypeOK ==
    /\ l1 \in 0 .. MaxL1
    /\ mintReg \in [Mints -> {NotRegistered} \cup 0 .. MaxL1]
    /\ tree \subseteq Elements
    /\ removed \subseteq Elements
    /\ mempool \subseteq Txns
    /\ height \in 0 .. MaxBlocks
    /\ blk \in [Heights -> SUBSET Txns]
    /\ pc \in [Procs -> PCs]
    /\ ethBlk \in [Procs -> 0 .. MaxL1]
    /\ started \in [Procs -> {NotWaiting} \cup 0 .. MaxL1]
    /\ res \in [Procs -> Results]
    /\ resH \in [Procs -> 0 .. MaxBlocks]
    /\ halted \in BOOLEAN

(* Every mint in a block was registered on L1 at least Offset blocks     *)
(* below the latest L1 block, with the amount and kind of the proof: the *)
(* node never includes a mint that is not yet at safe depth, although    *)
(* L1 moves on between the two reads of validate_transaction.           *)
MintConfirmed(t) ==
    TxMint[t] # NoMint =>
        /\ mintReg[TxMint[t]] # NotRegistered
        /\ mintReg[TxMint[t]] + Offset <= l1
        /\ MintMatches[t]
MintsConfirmed == \A t \in Included : MintConfirmed(t)

(* Elements at or above MODULUS are invalid at the system's boundary     *)
(* (spec 3): every commitment in the notes tree or its history is a      *)
(* field element, whichever handler, RPC or peer, admitted it.           *)
CommitmentsInField ==
    \A e \in tree \cup removed : e < MODULUS

(* The element history keeps never-seen, present and removed apart (spec *)
(* 4.2, 8.5): a block the node applies never inserts a commitment that   *)
(* is in the tree or was spent, nor one another transaction of the same  *)
(* block inserts.                                                        *)
BlockOutputsFresh ==
    [][height' = height + 1 =>
         LET B == blk'[height'] IN
         /\ OutsOf(B) \cap (tree \cup removed) = {}
         /\ \A t1, t2 \in B : t1 # t2 => Outs(t1) \cap Outs(t2) = {}]_vars

(* What the node does guarantee, whoever submits what: every block it     *)
(* applies spends only notes live in the tree at that moment, no note      *)
(* twice, and re-creates a spent note only when an earlier block created   *)
(* it too, although validate_txn read the tree before the gossip and       *)
(* add_wait awaits and other blocks landed in between.                     *)
BlockSpendsLive ==
    height' = height + 1 =>
        LET B == blk'[height'] IN
        /\ InsOf(B) \subseteq tree
        /\ \A t1, t2 \in B : t1 # t2 => Ins(t1) \cap Ins(t2) = {}
        /\ OutsOf(B) \cap removed \subseteq OutsOf(Included)
FreshUnlessRepeated == [][BlockSpendsLive]_vars

-----------------------------------------------------------------------------
(* Live mempool entries spend nothing another entry spends. *)
MempoolDisjoint ==
    \A t, u \in mempool : t # u => Ins(t) \cap Ins(u) = {}

(* The inductive strengthening of CommitmentsInField: a proof past        *)
(* validate_txn, and every mempool entry, has only field elements in its  *)
(* slots.                                                                 *)
Stage == {"gossip", "add_wait", "add"}
SlotsInField(t) ==
    \A i \in {1, 2} : TxIn[t][i] < MODULUS /\ TxOut[t][i] < MODULUS
FieldInv ==
    /\ CommitmentsInField
    /\ \A t \in mempool : SlotsInField(t)
    /\ \A p \in Procs : pc[p] \in Stage => SlotsInField(Req[p])

-----------------------------------------------------------------------------
(* The node's blocks as the abstract ledger sees them: the notes tree is   *)
(* the set of live notes and the element history the spent ones.          *)
Chain == [h \in 1 .. height |-> blk[h]]

L == INSTANCE Ledger WITH live <- tree, spent <- removed, chain <- Chain

(* The node implements the ledger: every block it produces spends only     *)
(* notes live in the tree when the block is applied, spends none twice     *)
(* and creates only fresh field elements, although every proof was         *)
(* validated against an older tree and waited in the mempool since.  This *)
(* holds when no proof is submitted twice (duplicate_mint shows why).      *)
LedgerRefinement == L!Spec

(* The inductive strengthening of FreshUnlessRepeated: a validated proof  *)
(* spends notes that are live or already spent, and any existing note it   *)
(* creates was created by a block; a mempool entry spends only live notes  *)
(* and no other entry's, and the same holds of the notes it creates.       *)
CreatesOnlyRepeats(t) == Outs(t) \cap (tree \cup removed) \subseteq OutsOf(Included)
RepeatInv ==
    /\ MempoolDisjoint
    /\ \A t \in mempool : Ins(t) \subseteq tree /\ CreatesOnlyRepeats(t)
    /\ \A p \in Procs : pc[p] \in Stage =>
          Ins(Req[p]) \subseteq tree \cup removed /\ CreatesOnlyRepeats(Req[p])

-----------------------------------------------------------------------------
(* The inductive strengthening of MintsConfirmed.  A mint is registered  *)
(* in an L1 block that exists, above the genesis block; every handler's   *)
(* eth_block was read from L1; and a proof that passed get_mint, whether  *)
(* its handler is still at validate_txn or past it, or it waits in the    *)
(* mempool, or a block holds it, carries a mint that is registered at     *)
(* safe depth with its amount and kind (MintConfirmed).                   *)
MintInv ==
    /\ \A m \in Mints : mintReg[m] # NotRegistered => mintReg[m] \in 1 .. l1
    /\ \A p \in Procs : ethBlk[p] <= l1
    /\ \A p \in Procs : pc[p] \in {"validate"} \cup Stage => MintConfirmed(Req[p])
    /\ \A t \in mempool : MintConfirmed(t)
    /\ MintsConfirmed

=============================================================================
