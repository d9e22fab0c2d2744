------------------------- MODULE ElementQueryProofs -------------------------
(* Proofs about the element routes: whatever the order of the lookups and *)
(* the block applications, a lookup never reaches the internal errors of  *)
(* get_element_response, for every chain, every set of requests and every *)
(* list of elements they ask for.                                          *)
EXTENDS ElementQuery, TLAPS

(* An output slot of a proof of the chain is a natural number. *)
LEMMA OutsNat ==
    ASSUME NEW h \in 1 .. Len(Chain)
    PROVE  OutsOf(Chain[h]) \subseteq Nat
BY QueryAssumption DEF OutsOf, Outs, Range2

(* The answer of get_element_response carries one of its errors. *)
LEMMA ResponseErr ==
    ASSUME NEW e
    PROVE  GetElementResponse(e).err \in Errors
BY DEF GetElementResponse, Errors

(* Every variable keeps its type. *)
THEOREM QueryTypeCorrect == Spec => []TypeOK
<1>1. Init => TypeOK
  BY DEF Init, TypeOK, Errors
<1>2. TypeOK /\ [Next]_vars => TypeOK'
  <2> SUFFICES ASSUME TypeOK, [Next]_vars PROVE TypeOK'
    OBVIOUS
  <2>1. CASE StoreBlock
    BY <2>1 DEF StoreBlock, TypeOK
  <2>2. CASE ApplyBlock
    <3> DEFINE h == applied + 1
    <3>1. h \in 1 .. Len(Chain) /\ applied' = h
      BY <2>2 DEF ApplyBlock, TypeOK
    <3>2. OutsOf(Chain[h]) \subseteq Nat
      BY <3>1, OutsNat
    <3>3. DOMAIN tree' \subseteq Nat
      BY <2>2, <3>2 DEF ApplyBlock, TypeOK
    <3>4. \A e \in DOMAIN tree' : tree'[e] \in 1 .. applied'
      BY <2>2, <3>1 DEF ApplyBlock, TypeOK
    <3>5. QED
      BY <2>2, <3>1, <3>3, <3>4 DEF ApplyBlock, TypeOK
  <2>3. ASSUME NEW r \in Readers, ParseList(r) PROVE TypeOK'
    BY <2>3 DEF ParseList, TypeOK, Errors
  <2>4. ASSUME NEW r \in Readers, Lookup(r) PROVE TypeOK'
    BY <2>4, ResponseErr DEF Lookup, TypeOK
  <2>5. CASE UNCHANGED vars
    BY <2>5 DEF vars, TypeOK
  <2>6. QED
    BY <2>1, <2>2, <2>3, <2>4, <2>5 DEF Next
<1>3. QED
  BY <1>1, <1>2, PTL DEF Spec

(* The element a block application inserts is an output of a proof of    *)
(* that block.                                                             *)
LEMMA ApplyTreeInv ==
    ASSUME TypeOK, TreeInv, ApplyBlock
    PROVE  TreeInv'
<1> DEFINE h == applied + 1
           B == Chain[h]
<1>1. /\ applied' = h /\ err' = err
      /\ DOMAIN tree' = (DOMAIN tree \ InsOf(B)) \cup OutsOf(B)
      /\ \A e \in DOMAIN tree' :
            tree'[e] = IF e \in OutsOf(B) THEN h ELSE tree[e]
  BY DEF ApplyBlock
<1>2. h \in 1 .. Len(Chain) /\ applied \in Nat
  BY DEF ApplyBlock, TypeOK
<1>3. ASSUME NEW e \in DOMAIN tree'
      PROVE  /\ tree'[e] \in 1 .. applied'
             /\ \E i \in 1 .. Len(Chain[tree'[e]]) :
                   e \in Outs(Chain[tree'[e]][i])
  <2>1. CASE e \in OutsOf(B)
    <3>1. tree'[e] = h
      BY <1>1, <2>1
    <3>2. \E i \in 1 .. Len(B) : e \in Outs(B[i])
      BY <2>1 DEF OutsOf, Range2
    <3>3. QED
      BY <1>1, <1>2, <3>1, <3>2
  <2>2. CASE e \notin OutsOf(B)
    <3>1. e \in DOMAIN tree /\ tree'[e] = tree[e]
      BY <1>1, <2>2
    <3>2. QED
      BY <1>1, <1>2, <3>1 DEF TreeInv
  <2>3. QED
    BY <2>1, <2>2
<1>4. QED
  BY <1>1, <1>3 DEF TreeInv, NoInternalError

(* A lookup of an element the tree holds finds its block, at most as high *)
(* as the blocks stored, and a proof in it whose commitments hold the     *)
(* element.                                                                 *)
LEMMA LookupTreeInv ==
    ASSUME TypeOK, TreeInv, NEW r \in Readers, Lookup(r)
    PROVE  TreeInv'
<1> DEFINE e == Query[r][idx[r]]
           a == GetElementResponse(e)
<1>1. a.err \notin {"BlockNotFound", "ElementNotInTxn"}
  <2>1. CASE e \notin DOMAIN tree
    BY <2>1 DEF GetElementResponse
  <2>2. CASE e \in DOMAIN tree
    <3>1. tree[e] \in 1 .. applied /\ applied <= stored /\ stored \in Nat
      BY <2>2 DEF TreeInv, TypeOK
    <3>2. PICK i \in 1 .. Len(Chain[tree[e]]) : e \in Outs(Chain[tree[e]][i])
      BY <2>2 DEF TreeInv
    <3>3. i \in Matches(Chain[tree[e]], e)
      BY <3>2 DEF Matches, Commitments
    <3>4. ~(tree[e] > stored)
      BY <3>1 DEF TypeOK
    <3>5. QED
      BY <2>2, <3>3, <3>4 DEF GetElementResponse
  <2>3. QED
    BY <2>1, <2>2
<1>2. \A s \in Readers : err'[s] \notin {"BlockNotFound", "ElementNotInTxn"}
  BY <1>1 DEF Lookup, TreeInv, NoInternalError, TypeOK
<1>3. QED
  BY <1>2 DEF Lookup, TreeInv, NoInternalError

(* TreeInv holds in every reachable state. *)
THEOREM TreeInvHolds == Spec => []TreeInv
<1>1. Init => TreeInv
  BY QueryAssumption DEF Init, TreeInv, NoInternalError
<1>2. TypeOK /\ TreeInv /\ [Next]_vars => TreeInv'
  <2> SUFFICES ASSUME TypeOK, TreeInv, [Next]_vars PROVE TreeInv'
    OBVIOUS
  <2>1. CASE StoreBlock
    BY <2>1 DEF StoreBlock, TreeInv, NoInternalError
  <2>2. CASE ApplyBlock
    BY <2>2, ApplyTreeInv
  <2>3. ASSUME NEW r \in Readers, ParseList(r) PROVE TreeInv'
    BY <2>3 DEF ParseList, TreeInv, NoInternalError, TypeOK
  <2>4. ASSUME NEW r \in Readers, Lookup(r) PROVE TreeInv'
    BY <2>4, LookupTreeInv
  <2>5. CASE UNCHANGED vars
    BY <2>5 DEF vars, TreeInv, NoInternalError
  <2>6. QED
    BY <2>1, <2>2, <2>3, <2>4, <2>5 DEF Next
<1>3. QED
  BY <1>1, <1>2, QueryTypeCorrect, PTL DEF Spec

(* No lookup ever returns BlockNotFound or ElementNotInTxn, the errors    *)
(* element.rs treats as impossible, for any interleaving of the requests  *)
(* with the block store and the notes tree.                                *)
THEOREM NoInternalErrorHolds == Spec => []NoInternalError
BY TreeInvHolds, PTL DEF TreeInv
=============================================================================
