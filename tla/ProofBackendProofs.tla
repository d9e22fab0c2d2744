------------------------- MODULE ProofBackendProofs -------------------------
(* Proofs about BB_MUTEX in the binding backend, for any set of threads, *)
(* any prover output lengths and any number of calls.                    *)
EXTENDS ProofBackend, TLAPS

(* The guard records exactly the thread that is inside the library.  It  *)
(* is the inductive form of MutualExclusion.                              *)
GuardInv ==
    \A t \in Threads : InBackend(t) <=> holder = t

(* The variables keep their types on every path, the panics included. *)
THEOREM BackendTypeCorrect == Spec => []TypeOK
<1>1. Init => TypeOK
  <2> SUFFICES ASSUME Init PROVE TypeOK
    OBVIOUS
  <2>1. 0 \in 0 .. MaxCalls
    BY BackendAssumption
  <2>2. QED
    BY <2>1 DEF Init, TypeOK, Outcomes
<1>2. TypeOK /\ [Next]_vars => TypeOK'
  <2> SUFFICES ASSUME TypeOK, [Next]_vars PROVE TypeOK'
    OBVIOUS
  <2>1. ASSUME NEW t \in Threads, Call(t) PROVE TypeOK'
    BY <2>1, BackendAssumption DEF Call, TypeOK, Outcomes
  <2>2. ASSUME NEW t \in Threads, Lock(t) PROVE TypeOK'
    BY <2>2 DEF Lock, Return, TypeOK, Outcomes
  <2>3. ASSUME NEW t \in Threads, LoadSrs(t) PROVE TypeOK'
    BY <2>3 DEF LoadSrs, TypeOK
  <2>4. ASSUME NEW t \in Threads, Prove(t) PROVE TypeOK'
    BY <2>4 DEF Prove, Return, TypeOK, Outcomes
  <2>5. ASSUME NEW t \in Threads, Verify(t) PROVE TypeOK'
    BY <2>5 DEF Verify, Return, TypeOK, Outcomes
  <2>6. CASE UNCHANGED vars
    BY <2>6 DEF vars, TypeOK
  <2>7. QED
    BY <2>1, <2>2, <2>3, <2>4, <2>5, <2>6 DEF Next
<1>3. QED
  BY <1>1, <1>2, PTL DEF Spec

(* The steps that leave the library hand the guard back (Return). *)
LEMMA ReturnKeepsGuardInv ==
    ASSUME TypeOK, GuardInv, NEW t \in Threads, InBackend(t) \/ holder = NoThread,
           NEW r, pc' = [pc EXCEPT ![t] = "idle"], holder' = NoThread
    PROVE  GuardInv'
<1>1. \A u \in Threads \ {t} : InBackend(u) => holder = u
  BY DEF GuardInv
<1>2. \A u \in Threads \ {t} : ~InBackend(u)
  BY <1>1, BackendAssumption DEF GuardInv, TypeOK
<1>3. QED
  BY <1>2, BackendAssumption DEF GuardInv, InBackend, TypeOK

(* Every step of the backend keeps GuardInv. *)
LEMMA GuardInvStep ==
    TypeOK /\ GuardInv /\ [Next]_vars => GuardInv'
<1> SUFFICES ASSUME TypeOK, GuardInv, [Next]_vars PROVE GuardInv'
  OBVIOUS
<1>1. ASSUME NEW t \in Threads, Call(t) PROVE GuardInv'
  BY <1>1 DEF Call, GuardInv, InBackend, TypeOK
<1>2. ASSUME NEW t \in Threads, Lock(t) PROVE GuardInv'
  <3>1. CASE poisoned
    BY <1>2, <3>1, ReturnKeepsGuardInv DEF Lock, Return
  <3>2. CASE ~poisoned
    <4>1. ~InBackend(t) /\ \A u \in Threads : ~InBackend(u)
      BY <1>2, BackendAssumption DEF Lock, GuardInv, InBackend
    <4>2. QED
      BY <1>2, <3>2, <4>1 DEF Lock, GuardInv, InBackend, TypeOK
  <3>3. QED
    BY <3>1, <3>2
<1>3. ASSUME NEW t \in Threads, LoadSrs(t) PROVE GuardInv'
  BY <1>3 DEF LoadSrs, GuardInv, InBackend, TypeOK
<1>4. ASSUME NEW t \in Threads, Prove(t) PROVE GuardInv'
  BY <1>4, ReturnKeepsGuardInv DEF Prove, Return, InBackend
<1>5. ASSUME NEW t \in Threads, Verify(t) PROVE GuardInv'
  BY <1>5, ReturnKeepsGuardInv DEF Verify, Return, InBackend
<1>6. CASE UNCHANGED vars
  BY <1>6 DEF vars, GuardInv, InBackend
<1>7. QED
  BY <1>1, <1>2, <1>3, <1>4, <1>5, <1>6 DEF Next

(* BB_MUTEX admits one thread at a time into load_srs and the native     *)
(* prover and verifier, whatever the interleaving of the threads and     *)
(* whether or not a panic has poisoned it.                               *)
THEOREM MutualExclusionHolds == Spec => []MutualExclusion
<1>1. Init => GuardInv
  BY BackendAssumption DEF Init, GuardInv, InBackend
<1>2. TypeOK /\ GuardInv /\ [Next]_vars => GuardInv'
  BY GuardInvStep
<1>3. GuardInv => MutualExclusion
  BY DEF GuardInv, MutualExclusion
<1>4. QED
  BY <1>1, <1>2, <1>3, BackendTypeCorrect, PTL DEF Spec
=============================================================================
