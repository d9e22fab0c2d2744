---------------------------- MODULE ElementQuery ----------------------------
(* The element routes of node/src/rpc/routes/element.rs racing block       *)
(* application.  get_element_response takes the notes tree's read latch,   *)
(* reads the element's inserted_in, fetches that block from the block      *)
(* store and looks for the proof that carries the element.  list_elements  *)
(* parses the whole list, then answers it one element at a time, each      *)
(* under a read latch of its own.  Blocks come from consensus as a fixed   *)
(* chain; each is handed to the block store and then applied to the tree   *)
(* under the exclusive latch (spec 3, 4.9).                                *)
EXTENDS Naturals, Sequences

CONSTANTS
    Txns, TxIn, TxOut,  \* the proofs and their input and output slots
    Chain,      \* Chain[h]: the proofs of block h, in block order
    Readers,    \* the HTTP requests served concurrently
    Route,      \* Route[r]: get_element or list_elements
    Query,      \* Query[r]: the requested elements, in order
    Bad         \* a list item that Element::from_str rejects

ZERO == 0

ASSUME QueryAssumption ==
    /\ TxIn \in [Txns -> Nat \X Nat] /\ TxOut \in [Txns -> Nat \X Nat]
    /\ Chain \in Seq(Seq(Txns))
    /\ Route \in [Readers -> {"get_element", "list_elements"}]
    /\ Query \in [Readers -> Seq(Nat \cup {Bad})]
    /\ Bad \notin Nat

VARIABLES
    stored,     \* the blocks handed to the block store
    applied,    \* the blocks applied to the notes tree
    tree,       \* tree[e]: inserted_in of each element of the notes tree
    pc,         \* parse, lookup or done, per request
    idx,        \* the next element of the request to answer
    out,        \* the answers built so far
    err         \* the error the request returned, or "none"

vars == <<stored, applied, tree, pc, idx, out, err>>

Ins(t) == {TxIn[t][i] : i \in {1, 2}} \ {ZERO}
Outs(t) == {TxOut[t][i] : i \in {1, 2}} \ {ZERO}
Range2(s) == {s[i] : i \in 1 .. Len(s)}
InsOf(s) == UNION {Ins(t) : t \in Range2(s)}
OutsOf(s) == UNION {Outs(t) : t \in Range2(s)}

(* Mutant: the proof is searched for among its input commitments only. *)
CommitmentsInputsOnly(t) == Ins(t)

(* txn.public_inputs.commitments(): the proof's input and output slots. *)
Commitments(t) == Ins(t) \cup Outs(t)

Errors == {"none", "InvalidElement", "ElementNotFound", "BlockNotFound",
           "ElementNotInTxn"}

Init ==
    /\ stored = 0 /\ applied = 0
    /\ tree = [e \in {} |-> 0]
    /\ pc = [r \in Readers |->
               IF Route[r] = "list_elements" THEN "parse" ELSE "lookup"]
    /\ idx = [r \in Readers |-> 1]
    /\ out = [r \in Readers |-> <<>>]
    /\ err = [r \in Readers |-> "none"]

(* Consensus hands the next block to the block store. *)
StoreBlock ==
    /\ stored < Len(Chain) /\ stored = applied
    /\ stored' = stored + 1
    /\ UNCHANGED <<applied, tree, pc, idx, out, err>>

(* Block application under the exclusive latch: the block's inputs leave *)
(* the tree, its outputs enter it with inserted_in = the block's height. *)
ApplyBlock ==
    LET h == applied + 1
        B == Chain[h]
    IN /\ applied < stored
       /\ applied' = h
       /\ tree' = [e \in (DOMAIN tree \ InsOf(B)) \cup OutsOf(B) |->
                     IF e \in OutsOf(B) THEN h ELSE tree[e]]
       /\ UNCHANGED <<stored, pc, idx, out, err>>

(* list_elements: an empty list answers []; any item that is not an      *)
(* element fails the whole request before a lookup.                      *)
ParseList(r) ==
    /\ pc[r] = "parse"
    /\ IF \E i \in 1 .. Len(Query[r]) : Query[r][i] = Bad
         THEN /\ err' = [err EXCEPT ![r] = "InvalidElement"]
              /\ pc' = [pc EXCEPT ![r] = "done"]
         ELSE /\ pc' = [pc EXCEPT ![r] =
                          IF Query[r] = <<>> THEN "done" ELSE "lookup"]
              /\ UNCHANGED err
    /\ UNCHANGED <<stored, applied, tree, idx, out>>

(* The positions of the proofs of s whose commitments contain e. *)
Matches(s, e) == {i \in 1 .. Len(s) : e \in Commitments(s[i])}

(* txns.iter().find(..): the first of them. *)
FindTxn(s, e) == CHOOSE i \in Matches(s, e) : \A j \in Matches(s, e) : i <= j

(* get_element_response, under one read latch of the notes tree: the    *)
(* answer for element e, or the error it returns.  find is None exactly  *)
(* when no proof of the block matches.                                   *)
GetElementResponse(e) ==
    LET h == tree[e] IN
    IF e \notin DOMAIN tree THEN [err |-> "ElementNotFound"]
    ELSE IF h > stored THEN [err |-> "BlockNotFound"]
    ELSE IF Matches(Chain[h], e) = {} THEN [err |-> "ElementNotInTxn"]
    ELSE [err |-> "none", element |-> e, height |-> h,
          txn |-> Chain[h][FindTxn(Chain[h], e)]]

(* The request answers its next element.  list_elements omits a missing *)
(* element; every other error fails the whole request.                  *)
Lookup(r) ==
    LET a == GetElementResponse(Query[r][idx[r]])
        skip == a.err = "ElementNotFound" /\ Route[r] = "list_elements"
        last == idx[r] = Len(Query[r])
    IN /\ pc[r] = "lookup"
       /\ IF a.err # "none" /\ ~skip
            THEN /\ err' = [err EXCEPT ![r] = a.err]
                 /\ pc' = [pc EXCEPT ![r] = "done"]
                 /\ UNCHANGED <<idx, out>>
            ELSE /\ out' = [out EXCEPT ![r] =
                              IF skip THEN @ ELSE Append(@, a)]
                 /\ idx' = [idx EXCEPT ![r] = @ + 1]
                 /\ pc' = [pc EXCEPT ![r] = IF last THEN "done" ELSE "lookup"]
                 /\ UNCHANGED err
       /\ UNCHANGED <<stored, applied, tree>>

Next ==
    \/ StoreBlock \/ ApplyBlock
    \/ \E r \in Readers : ParseList(r) \/ Lookup(r)

Spec == Init /\ [][Next]_vars

-----------------------------------------------------------------------------
TypeOK ==
    /\ stored \in 0 .. Len(Chain) /\ applied \in 0 .. stored
    /\ DOMAIN tree \subseteq Nat /\ \A e \in DOMAIN tree : tree[e] \in 1 .. applied
    /\ pc \in [Readers -> {"parse", "lookup", "done"}]
    /\ err \in [Readers -> Errors]

(* element.rs:82 says ElementNotInTxn "should never happen in practice", *)
(* and BlockNotFound is the same kind of internal error: a lookup of an  *)
(* element the tree holds always finds its block and the proof in it,   *)
(* whatever the order of the lookups and the block applications.        *)
NoInternalError ==
    \A r \in Readers : err[r] \notin {"BlockNotFound", "ElementNotInTxn"}

(* The inductive strengthening of NoInternalError: the block store is     *)
(* never behind the tree, and every element of the tree was inserted by   *)
(* an applied block that has a proof creating it.                          *)
TreeInv ==
    /\ \A e \in DOMAIN tree :
          /\ tree[e] \in 1 .. applied
          /\ \E i \in 1 .. Len(Chain[tree[e]]) : e \in Outs(Chain[tree[e]][i])
    /\ NoInternalError
=============================================================================
