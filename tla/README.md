# TLA+ models of the payy rollup node

These are TLA+ specifications of the payy rollup node (`src/pkg/node`):
its transaction admission path, its element query routes, the
barretenberg proof backend (`src/pkg/barretenberg`) and the test spies
(`src/pkg/testutil`). There are TLC models that check them on small
instances, an abstract ledger that the admission path implements on
instances where every proof is submitted once, and TLAPS proofs of the
main safety properties for every value of the constants.

## 1. Inventory

### Components, their state and operations

| Component | Source | State | Operations |
|---|---|---|---|
| AdmissionPipeline | `node/src/node/transaction.rs` | per request: `started_waiting_at_eth_block`, where the future is suspended | `submit_transaction_and_wait` (validate, mint retry loop with a 6 s sleep, `send_all` gossip, `mempool.add_wait`); `receive_transaction` (validate, `mempool.add`, errors swallowed) |
| Validator | `node/src/node/transaction.rs` (`validate_transaction`), `node/src/utxo.rs` (`validate_txn`) | none of its own. It reads the L1 block number, the rollup contract's mint at the safe height, the notes tree (under its read latch) and the block store's element history | proof check; per input slot a size check and an in-tree check; per output slot a size check, a not-in-tree check and a never-spent check. The first failure returns |
| Mempool | not in `src/` (spec 4.6) | live entries keyed by hash, with their input commitments and waiters | `add`, `add_wait`, `take_for_block`, `notify_included` |
| Notes tree and block application | not in `src/` (spec 4.2, 4.9) | live commitments, element history (spent commitments), blocks | apply a block: insert its outputs, spend its inputs, store it, resolve waiters |
| L1 gateway and rollup contract | `contracts/src/lib.rs` (types only) | L1 block number, mint registrations | `block_number`, `get_mint` at a height. Both can fail |
| Element query route | `node/src/rpc/routes/element.rs` | none | `get_element_response`: tree `get`, then `get_block(inserted_in)`, then find the transaction. `list_elements` maps it over a list |
| ProofBackend | `barretenberg/src/backend/bb_rs.rs` | `BB_MUTEX`, `INIT: Once` | `prove` and `verify`, each under the mutex, each loading the SRS once |
| Test spies | `testutil/src/spy.rs` | `calls`, `return_next` queue, default return | `register_call`, `return_next`, `reset`, `calls` |
| HTTP error derive | `rpc-error-convert/src/lib.rs` | compile-time only | generates the error conversion code |

### How they interact

Every `.await` in `submit_transaction_and_wait` and `validate_transaction`
is a point where the handler is suspended. At each such point these can
run: other RPC handlers, peer handlers (`receive_transaction`), block
production and application, and the L1 chain. The handlers share the
notes tree, the block store and the mempool. The tree and the block store
are read by `validate_txn`. The mempool is written by `add`/`add_wait` and
drained by block production, which resolves the `add_wait` futures. The
L1 chain is read twice per validation attempt (block number, then
`get_mint` at `block - offset`), and once more by the retry loop.

### What is hard

* **Stale validation.** `validate_txn` reads the tree. The result is used
  only after the `send_all` and `add_wait` awaits, so a block may spend
  the same note in between. The mempool must refuse such a proof.
* **Conflict key.** The mempool only gets input commitments (the
  `NOIR_TODO` at `transaction.rs:52`). Mints have only padding inputs.
* **The mint retry loop.** Three L1 reads happen at three different
  times: the block number, the mint at the safe height, and the block
  number the loop compares with the first one it read.
* **Numeric edges.** The safe-height subtraction is clamped at 0. The
  waited-blocks subtraction is an unchecked `u64` subtraction. The size
  check is `>= MODULUS`.
* **Element history.** A spent commitment must never be re-created. Only
  a long sequence of blocks reaches that case.
* **Backend mutex poisoning**, and **test spy ordering** under concurrency.

### What makes each component correct

* Every block the node applies spends only live notes, none twice, and
  re-creates a spent note only when an earlier block created it too,
  whoever submits what (spec 8.2): `FreshUnlessRepeated`.
* A block inserts only commitments that are neither present nor spent
  (spec 4.2, 8.5): `BlockOutputsFresh`.
* An included mint is registered on L1 at safe depth, with the proof's
  amount and kind: `MintsConfirmed`.
* Only field elements enter the tree: `CommitmentsInField`.
* When every proof is submitted once, the node implements the abstract
  ledger `Ledger`: `LedgerRefinement`.
* An element query never fails with an internal error for an element in
  the tree: `NoInternalError`.
* The backend never drives the native library from two threads at once
  (`MutualExclusion`), and every call returns (`CallsReturn`).
* A spy hands its queued values out once each, in queue order
  (`PopsInQueueOrder`).

## 2. Modules

### `PayyNode.tla`: the admission path (modelled)

The constants describe the instance:

* `RpcClients` and `Peers` are the handler processes.
* `Req[p]` is the proof that handler `p` is given.
* `TxIn` and `TxOut` give each proof's input and output slot pairs. The
  source's arity is 2, and 0 is `Element::ZERO`, the padding slot.
* `TxMint`, `ProofValid` and `MintMatches` abstract the proof's mint
  message, the verifier's answer and the contract's amount/kind
  comparison.
* `MODULUS`, `Offset` (`safe_eth_height_offset`), and the bounds `MaxL1`
  and `MaxBlocks`.

`ConstAssumption` states what the proofs need of these constants.

Variables and how they map to the code:

* `pc[p]` is where the handler's future is suspended:
  * `read_block`: `block_number().await` in `validate_transaction`;
  * `get_mint`: `get_mint(..).await`;
  * `validate`: `validate_txn` under `notes_tree.read()`;
  * `wait_block`: the `MintIsNotInTheContract` arm of the loop;
  * `gossip`: `send_all(..).await`;
  * `add_wait` / `add`: the mempool calls;
  * `waiting`: waiting on the `add_wait` future.
* `ethBlk[p]` is `eth_block`. `started[p]` is
  `started_waiting_at_eth_block`, with `-1` for `None`.
* `res[p]` is the returned error reason, or `ok`. `resH[p]` is the block
  height returned to an accepted submission.
* `tree`, `removed`, `mempool`, `height`, `blk`: the spec-modelled shared
  state. `halted` is set when `insert_batch` rejects a block.
* `l1` and `mintReg`: the L1 chain.

Actions, one per step between awaits:

* `Receive`, `ReadEthBlock`, `GetMint`, `Validate`, `WaitForMint`,
  `Gossip`, `AddWait`, `PeerAdd`: the code's steps.
* `EthRpcFail`: the `?` on a failed `block_number` or `get_mint`.
* `ProduceBlock(B)`: spec 4.9. It takes any non-empty subset of the
  mempool, inserts and spends under the exclusive latch, stores the
  block, and resolves the waiters. Its guard `InsertBatchOk(B)` is spec
  4.2: `insert_batch` is atomic and rejects an element that already
  exists, whether in the tree, earlier in the same batch, or in the
  other slot of the same proof.
* `BlockRejected(B)`: the same block when `insert_batch` rejects it.
  Nothing is applied, and block production stops (`halted`). The spec
  does not say what the node does next; the handlers go on.
* `L1Block(S)`: a new L1 block that registers the mints in `S`.

`ValidateTxn` keeps the code's check order and early returns. It uses
`InputErr`, `OutputErr` and `FirstErr`.

Abstractions:

* Commitments are small integers.
* The Merkle root is the set of live commitments.
* Mempool admission order is over-approximated by "any subset" (sound for
  safety).
* Proof verification is a constant per proof.
* `get_element_history`'s own I/O error is not modelled.

### Runs (`MC_PayyNode.tla` and its configurations)

| Run | cfg | Expect | Checks | Instance |
|---|---|---|---|---|
| spend_safety | `MC_PayyNode.cfg` | pass | `LedgerRefinement` | genesis note 1. Clients: `sendA` (1→2) and `sendB` (1→∅) double-spend note 1; `replay` re-creates note 1. A peer relays `mintM` (mint m1 → note 3). Each proof is submitted once. Offset 1, L1 ≤ 3, ≤ 2 blocks |
| mint_admission | `MC_PayyNode_mint.cfg` | pass | `MintsConfirmed`, `CommitmentsInField` | clients: `mintM`, and `mintBad` (same mint, different amount). Peer: `mintP`, whose second output is 4 = MODULUS. Offset 1, L1 ≤ 3 |
| duplicate_mint | `MC_PayyNode_dup.cfg` | violation | `BlockOutputsFresh` | clients c1 and c2 submit `mintM`; c3 submits `spendBoth` (1, 3 → 2); a peer relays `replay` (→ 1). Offset 0, L1 ≤ 1, ≤ 3 blocks |
| duplicate_submission | `MC_PayyNode_fresh.cfg` | pass | `FreshUnlessRepeated` | the same instance |

Why these bounds are enough:

* Two blocks let a spend land between another handler's validation and
  its `add_wait`.
* `Offset = 1` with `MaxL1 = 3` lets the retry loop both succeed and give
  up, and lets L1 advance twice within one loop iteration.
* Element 4 = `MODULUS` exercises the size boundary.
* The duplicate instance needs three blocks: the mint, the spend of the
  minted note, and the mint again. `Offset = 0` with one L1 block keeps
  the mint wait short, since that instance is about the mempool. The
  rejected branch is reached too: the mint included again while its note
  is still live.

The passing runs fire every action and every disjunct of `GetMint`.

Deadlock checking is off: every handler serves one request, and L1 and
the block height are bounded. So every behaviour ends in a state where
all handlers are done, or a handler waits on a block that the bound
forbids. Both are artefacts of the bounds.

### Findings

* **duplicate_mint.** A mint submitted twice is validated twice before
  the first copy is included. The second `add_wait` finds no conflict,
  because the mint has no inputs. This is the case that the `NOIR_TODO`
  at `transaction.rs:52` and the spec's open question ask about. What
  follows depends on the tree:
  * while the minted note is live, `insert_batch` rejects the block with
    the second copy, and block production stops;
  * once `spendBoth` has spent the note, the second copy passes
    `insert_batch`, because the note is no longer in the tree, and the
    spent note comes back. The trace is: mint included, `spendBoth`
    admitted and included, the second mint admitted and included.

  The spec says a repeated mint fails with output-commitments-exists.
  This breaks the `double_mint` scenario whenever the two submissions
  overlap (a client retry, or the same mint sent to two nodes).

### Proofs (`PayyNodeProofs.tla`)

* `TypeCorrect`: `Spec => []TypeOK`.
* `CommitmentsInFieldHolds`: `Spec => []CommitmentsInField`, for all
  constants satisfying `ConstAssumption`.

`CommitmentsInField` is not inductive: a block inserts the
outputs of mempool entries, which were size-checked one or more steps
earlier. Its strengthening `FieldInv` adds that every mempool entry, and
the proof of every handler at `gossip`, `add_wait` or `add`, has all four
slots below `MODULUS`. `ValidateOkInField` shows that `validate_txn`
answers ok only for such proofs (each slot's size check comes first).
`HandlerFieldInv` and `ProduceBlockFieldInv` carry `FieldInv` across
steps.

`MintsConfirmed` is proved in `PayyNodeMintProofs.tla` and
`FreshUnlessRepeated` in `PayyNodeFreshProofs.tla` (both below).

### `Ledger.tla` and the refinement (`LedgerRefinement`)

`Ledger` is what the chain promises, written from spec 2, 4.2 and 8:

* `live` is the set of live notes, `spent` the spent history, and `chain`
  the sequence of blocks.
* `AppendBlock(B)` appends a non-empty set of proofs under these
  conditions:
  * its inputs are live;
  * its outputs are neither live nor spent, and are below `MODULUS`;
  * no two of its proofs share an input or an output.

`PayyNode` defines `Chain` (the stored blocks `blk[1..height]` as a
sequence). It instantiates `L == INSTANCE Ledger WITH live <- tree,
spent <- removed, chain <- Chain`. The run spend_safety checks
`LedgerRefinement == L!Spec` as a PROPERTY. Every step except
`ProduceBlock` leaves `tree`, `removed`, `height` and `blk` unchanged, so
it maps to a stutter. `ProduceBlock(B)` maps to `AppendBlock(B)`.

The refinement holds only on instances where each proof is submitted
once and no two proofs create the same note, as in spend_safety. The
duplicate_mint run shows that it fails otherwise: the second copy of a
mint re-creates a spent note, which is not a ledger step. The code does
nothing to rule such instances out, so no theorem states the refinement.
What holds of every instance is `FreshUnlessRepeated`, proved below: a
block's inputs are live and pairwise disjoint, and the only notes it
re-creates are ones an earlier block created.

### `ElementQuery.tla`: the element routes (`element.rs`)

* Each request is a process.
  * `get_element` goes straight to `Lookup`.
  * `list_elements` first runs `ParseList`: an empty string answers `[]`,
    and any item that fails `Element::from_str` fails the whole request.
    It then runs one `Lookup` per element.
* `GetElementResponse(e)` is `get_element_response` under one read latch:
  * `ElementNotFound` if the tree lacks `e`;
  * `BlockNotFound` if block `inserted_in` is not stored yet;
  * `ElementNotInTxn` if no proof of that block has `e` among its
    commitments (`find` over `commitments()`, i.e. inputs and outputs);
  * otherwise the answer, with the first matching proof.

  `Matches(s, e)` is the set of positions whose commitments hold `e`.
  `find` returns `None` exactly when that set is empty, so the error test
  is `Matches = {}`. `FindTxn` picks the least position, which is the
  proof `find` returns.
* `list_elements` skips `ElementNotFound` (the `filter_map`); any other
  error ends it.
* Block handling comes from spec 3 and 4.9, because that code is not
  under `src/`. `StoreBlock` hands the next block of a fixed `Chain` to
  the block store. `ApplyBlock` applies it to the tree with
  `inserted_in = height`. A block is stored before it is applied.
* Run element_query (pass, 128 states): three requests against two
  blocks, the second spending an output of the first. `NoInternalError`
  holds.
  * The mutant that searches only input commitments breaks it. The
    element is then in the tree but not found in its block.
  * The property depends on the store-before-apply order of spec 4.9.
    The model takes that order from the spec.

### `ProofBackend.tla`: `BindingBackend` (`bb_rs.rs`)

* `holder` is the thread whose `MutexGuard` on `BB_MUTEX` is live.
  `poisoned` is the mutex's poison flag, and `srs` is `INIT` having run.
  Each thread has `pc` (idle, lock, load_srs, backend), `op` (prove or
  verify), `calls`, and `res` (the last outcome: ok, err or panic).
* `Call` enters prove or verify. `Lock` is `BB_MUTEX.lock().unwrap()`:
  * it waits while the mutex is held;
  * on a poisoned mutex it panics at once, and the guard is dropped while
    unwinding.
* `LoadSrs` is `INIT.call_once`.
* `Prove` takes a proof of any length in `ProofLen`. A proof shorter than
  4 bytes makes `drain(..4)` panic with the guard live, which poisons the
  mutex.
* `Verify` answers ok or err. `Return` drops the guard.
* Fairness: `WF` on each thread's steps after `Call`. The OS schedules
  every runnable thread. The only wait is for `BB_MUTEX`, and the model
  shows it is released on every path. `Call` is not fair, because
  callers may stop calling.

Runs (threads t1 to t3, `ProofLen = {0, 4}`, two calls each):

* backend_mutex (pass, 6610 states) checks two properties:
  * `MutualExclusion` (the `Lock` mutant without the wait breaks it);
  * `CallsReturn`, `pc = lock ~> pc = idle` (the mutant that waits on a
    poisoned mutex breaks it).

  Deadlock checking is off, because every thread stops after
  `MaxCalls`.
* backend_poison (violation) checks `VerifyNeverPanics`. One thread's
  prove gets a short proof and poisons the mutex. Every later verify, of
  any thread, then panics. Spec 7 says proof-level failures are returned
  to the caller and only SRS initialisation is fatal, so this is a
  divergence between code and spec at `bb_rs.rs:63`.

### `Spy.tla`: the test spies (`spy.rs`)

* `queue` is `return_next` (the values 1..`MaxVals` in the order they
  were queued). `calls` is the log, `dflt` the default function, and
  `pc`/`got` are per caller. `tpc` and `resets` belong to the test
  thread.
* Each lock section is one action:
  * `Pop` is `pop_front`, falling back on the default.
  * `Push` logs the call. In `AsyncSpy` the await of the popped future
    comes first. It changes no state of the spy, and other callers can
    run between `Pop` and `Push` anyway, so it is part of `Push`.
  * `ResetCalls` and `ResetQueue` are the two clears of `reset`, which
    are separate critical sections.
  * `ReturnNext` and `ReturnDefault` are the test's setters.
* `register_call` pops, then logs. `register_call_return_next` logs,
  then pops.
* Run spy_fifo_sync (pass) uses a `Spy` with three callers, one of them
  `register_call_return_next`, and checks `PopsInQueueOrder`: the values
  are handed out each once, in queue order. The mutant that peeks
  without popping breaks it. An `AsyncSpy` has the same steps (without
  `return_default`), so this run covers it too.
* spy_call_order (violation) checks `LoggedInPopOrder` on an `AsyncSpy`
  with two callers. The test queues 1 and 2. c1 pops 1, c2 pops 2, c2
  logs, then c1 logs. The log now pairs the first call with the second
  value, which a test that reads `calls()` next to its queued values
  would not expect. The same holds for `Spy`, whose pop and log are
  also two critical sections.

### Proofs of the backend (`ProofBackendProofs.tla`)

* `BackendTypeCorrect`: `Spec => []TypeOK`.
* `MutualExclusionHolds`: `Spec => []MutualExclusion`, for any set of
  threads and any `MaxCalls`.
  * The inductive invariant is `GuardInv`: a thread is in `load_srs` or
    `backend` exactly when it is `holder`. Every step that leaves those
    states drops the guard (lemma `ReturnKeepsGuardInv`).
  * `Lock` is split on `poisoned`. On the poisoned path the thread
    returns without entering.
  * The step is the lemma `GuardInvStep`.

### Proof of `MintsConfirmed` (`PayyNodeMintProofs.tla`)

* `MintInvHolds`: `Spec => []MintInv`. `MintsConfirmed` is not inductive:
  a block includes mempool entries whose mint was checked several steps
  earlier, against an older L1 head. `MintInv` adds four things:
  * every registered mint is registered at a block in `1..l1`;
  * every handler's `ethBlk` is at most `l1`;
  * every handler past `GetMint` (at `validate` or later) has its mint
    confirmed;
  * every mempool entry has its mint confirmed.
* The lemmas:
  * `ConfirmedFrame`: a step that leaves `l1` and `mintReg` alone keeps
    `MintConfirmed`. `L1BlockMintInv`: a new L1 block registers only mints that
    were unregistered, at `l1 + 1`, and raises `l1`. Earlier
    registrations stay, and `MintConfirmed` only asks for `<= l1`, so
    a confirmed mint stays confirmed.
  * `FoundIsConfirmed`: a mint found at `SafeHeight(b)` with `b <= l1` is
    confirmed. It splits on `b >= Offset`. When `b < Offset` the height is
    clamped to 0, and no mint is registered at block 0, so nothing is
    found there.
  * `HandlerMintInv` and `ProduceBlockMintInv` carry `MintInv` across the
    handler steps and block production. The new `Included` is the old one
    plus the block.
* `MintsConfirmedHolds` follows by PTL.

### Proofs of the spies (`SpyProofs.tla`)

* `SpyTypeCorrect`: `Spec => []TypeOK`.
* `QueueInvHolds`: `Spec => []QueueInv`. `PopsInQueueOrder` is not
  inductive: a pop appends the head of the queue to `popped`, so the
  proof must know that head is above everything popped so far. `QueueInv`
  adds three things:
  * every value queued or handed out is at most `nextVal`;
  * the queue is strictly increasing (`Increasing`);
  * every value handed out is below every value still queued.

  `ReturnNextQueueInv` covers `return_next`, which appends
  `nextVal + 1`. `PopQueueInv` covers a pop, and splits each order fact
  into the old positions and the new last one. `QueueFrame` covers the
  other steps. `ResetQueue` empties the queue, which keeps every
  conjunct.
* `PopsInQueueOrderHolds` follows by PTL.

### Proofs of the element routes (`ElementQueryProofs.tla`)

* `QueryTypeCorrect`: `Spec => []TypeOK`. Lemma `OutsNat` gives that
  output slots are naturals.
* `TreeInvHolds`: `Spec => []TreeInv`. `NoInternalError` is not
  inductive: it is about the errors returned, while the reason they
  cannot happen is in the tree. `TreeInv` says that every element of the
  tree has `inserted_in` in `1..applied`, and that a proof of that block
  has it among its outputs.
  * `ApplyTreeInv`: a block application gives each of its outputs its
    own height, found through `OutsOf`.
  * `LookupTreeInv`: for an element in the tree, `inserted_in <= applied
    <= stored`, so the block is found. The output that `TreeInv` names is
    a commitment, so `Matches` is non-empty.
* `NoInternalErrorHolds` follows by PTL. It rests on the
  store-before-apply order (`applied <= stored`), which the model takes
  from spec 4.9.

### Proof of `FreshUnlessRepeated` (`PayyNodeFreshProofs.tla`)

* `FreshUnlessRepeatedHolds`: `Spec => FreshUnlessRepeated`, for every
  value of the constants. There is no assumption on the instance: a
  proof may be submitted by several handlers, and two proofs may create
  the same note.
* It is not inductive as it stands. A block takes mempool entries that
  were validated several steps earlier, against an older tree. The
  strengthening `RepeatInv` (checked by TLC on the duplicate instance)
  says:
  * live mempool entries spend nothing of one another (`MempoolDisjoint`);
  * a mempool entry spends only live notes, and any existing note it
    creates was created by a block (`CreatesOnlyRepeats`);
  * the proof of a handler at `gossip`, `add_wait` or `add` spends only
    notes that are live or spent, and `CreatesOnlyRepeats` holds of it.
* One lemma per group of actions:
  * `ValidateOkFresh`: `validate_txn` answers ok only for a proof whose
    inputs are in the tree and whose outputs are in neither the tree nor
    the history.
  * `AdmitRepeatInv`: an admitted proof passed `MempoolConflict`, so its
    inputs are not spent (hence live) and not spent by another entry.
  * `ProduceBlockRepeatInv`: a block spends only its entries' inputs,
    which no remaining entry shares. What it creates becomes a note of
    `Included` (`IncludedGrows`).
  * `QuietHandlerRepeatInv` and `CheckHandlerRepeatInv` cover the other
    handler steps. `BlockRejected` and `L1Block` change nothing the
    invariant reads.
* `HeightStep`: only `ProduceBlock` raises the height. The theorem then
  reads the block's properties off `RepeatInv` and closes with PTL.

Only model-checked:

* `LedgerRefinement`: it holds only on instances the code does not
  enforce (see above). `BlockOutputsFresh` is checked only by the
  duplicate_mint violation.
* `CallsReturn`: liveness, and ENABLED, are out of TLAPS's reach.
* `FindTxn` picks the first matching proof. That a least position exists
  needs induction over the naturals with a predicate parameter, which
  the installed provers cannot instantiate. No theorem depends on which
  proof is picked: `NoInternalError` needs only that `Matches` is
  non-empty.
* The violations. They are counterexamples, and TLC's traces are their
  evidence.

### Not modelled

* `rpc-error-convert` is a procedural macro that generates error
  conversion code at compile time. It has no runtime state.
* The interface crates (`contracts`, `node-interface`) are types and
  serialisation only.
* The mempool, the notes tree and block production are not under
  `src/`. They are modelled from the spec, inside `PayyNode`.

## 3. Plan

In order of importance:

1. **Done:** the `PayyNode` core with `insert_batch` rejection,
   `ElementQuery`, `ProofBackend` with liveness, `Spy`, the `Ledger`
   refinement (model-checked), and the proofs of type correctness,
   `FreshUnlessRepeated`, `CommitmentsInField`, `MutualExclusion`,
   `MintsConfirmed`, `PopsInQueueOrder` and `NoInternalError`.
2. **Liveness of submissions.** Add `WF` on handler steps and on block
   production, then check that every `submit_transaction_and_wait`
   returns.
3. **Non-monotonic L1 reads**, for the unchecked `u64` subtraction.
4. **BurnSubstitutor**, from spec 4.8.
