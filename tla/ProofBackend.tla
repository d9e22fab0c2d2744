---------------------------- MODULE ProofBackend ----------------------------
(* The barretenberg binding backend (barretenberg/src/backend/bb_rs.rs):  *)
(* prove and verify, called from any thread, each take the process-wide   *)
(* BB_MUTEX, load the SRS once through INIT (a std Once) and then call    *)
(* into the native library.  A std Mutex is poisoned when a thread panics *)
(* while holding it; lock().unwrap() on a poisoned mutex acquires it,     *)
(* panics, and releases it again while unwinding.                         *)
EXTENDS Naturals

CONSTANTS
    Threads,    \* the threads that call into the backend
    ProofLen,   \* the lengths the native prover may return
    MaxCalls,   \* the calls each thread makes
    NoThread    \* BB_MUTEX is free

ASSUME BackendAssumption ==
    /\ NoThread \notin Threads
    /\ ProofLen \subseteq Nat /\ ProofLen # {}
    /\ MaxCalls \in Nat

VARIABLES
    holder,     \* the thread whose MutexGuard on BB_MUTEX is live
    poisoned,   \* BB_MUTEX's poison flag
    srs,        \* INIT has run init_srs to completion
    pc,         \* where each thread is: idle, lock, load_srs, backend
    op,         \* the function the thread's current call is in
    calls,      \* the calls each thread has started
    res         \* the outcome of each thread's last call

vars == <<holder, poisoned, srs, pc, op, calls, res>>

Outcomes == {"none", "ok", "err", "panic"}

TypeOK ==
    /\ holder \in Threads \cup {NoThread}
    /\ poisoned \in BOOLEAN
    /\ srs \in BOOLEAN
    /\ pc \in [Threads -> {"idle", "lock", "load_srs", "backend"}]
    /\ op \in [Threads -> {"prove", "verify"}]
    /\ calls \in [Threads -> 0 .. MaxCalls]
    /\ res \in [Threads -> Outcomes]

Init ==
    /\ holder = NoThread
    /\ poisoned = FALSE
    /\ srs = FALSE
    /\ pc = [t \in Threads |-> "idle"]
    /\ op = [t \in Threads |-> "prove"]
    /\ calls = [t \in Threads |-> 0]
    /\ res = [t \in Threads |-> "none"]

(* A caller enters prove or verify. *)
Call(t) ==
    /\ pc[t] = "idle"
    /\ calls[t] < MaxCalls
    /\ \E f \in {"prove", "verify"} : op' = [op EXCEPT ![t] = f]
    /\ calls' = [calls EXCEPT ![t] = @ + 1]
    /\ pc' = [pc EXCEPT ![t] = "lock"]
    /\ res' = [res EXCEPT ![t] = "none"]
    /\ UNCHANGED <<holder, poisoned, srs>>

(* Ends the thread's call with outcome r and drops its guard. *)
Return(t, r) ==
    /\ pc' = [pc EXCEPT ![t] = "idle"]
    /\ res' = [res EXCEPT ![t] = r]
    /\ holder' = NoThread

(* Mutant: the lock does not wait for the guard of another thread. *)
LockNoWait(t) ==
    /\ pc[t] = "lock"
    /\ IF poisoned
         THEN /\ Return(t, "panic")
         ELSE /\ holder' = t
              /\ pc' = [pc EXCEPT ![t] = "load_srs"]
              /\ UNCHANGED res
    /\ UNCHANGED <<poisoned, srs, op, calls>>

(* Mutant: a poisoned mutex is waited on as if it were still held. *)
LockWaitPoison(t) ==
    /\ pc[t] = "lock"
    /\ holder = NoThread /\ ~poisoned
    /\ holder' = t
    /\ pc' = [pc EXCEPT ![t] = "load_srs"]
    /\ UNCHANGED <<poisoned, srs, op, calls, res>>

(* BB_MUTEX.lock().unwrap(): blocks while another guard is live.  On a    *)
(* poisoned mutex unwrap panics; the guard inside the PoisonError is      *)
(* dropped while unwinding, so the mutex is free again at once.           *)
Lock(t) ==
    /\ pc[t] = "lock"
    /\ holder = NoThread
    /\ IF poisoned
         THEN /\ Return(t, "panic")
         ELSE /\ holder' = t
              /\ pc' = [pc EXCEPT ![t] = "load_srs"]
              /\ UNCHANGED res
    /\ UNCHANGED <<poisoned, srs, op, calls>>

(* load_srs: INIT.call_once runs init_srs on the first call only. *)
LoadSrs(t) ==
    /\ pc[t] = "load_srs"
    /\ srs' = TRUE
    /\ pc' = [pc EXCEPT ![t] = "backend"]
    /\ UNCHANGED <<holder, poisoned, op, calls, res>>

(* prove: acir_prove_ultra_(keccak_)honk returns a proof of some length;  *)
(* proof.drain(..4) panics on one shorter than 4 bytes, and the guard     *)
(* dropped while unwinding poisons BB_MUTEX.                              *)
Prove(t) ==
    /\ pc[t] = "backend" /\ op[t] = "prove"
    /\ \E n \in ProofLen :
          IF n < 4 THEN /\ Return(t, "panic")
                        /\ poisoned' = TRUE
                   ELSE /\ Return(t, "ok")
                        /\ UNCHANGED poisoned
    /\ UNCHANGED <<srs, op, calls>>

(* verify: acir_verify_ultra_(keccak_)honk answers true or false; false   *)
(* is returned as an error, and the guard is dropped either way.          *)
Verify(t) ==
    /\ pc[t] = "backend" /\ op[t] = "verify"
    /\ \E ok \in BOOLEAN : Return(t, IF ok THEN "ok" ELSE "err")
    /\ UNCHANGED <<poisoned, srs, op, calls>>

Next ==
    \E t \in Threads :
        Call(t) \/ Lock(t) \/ LoadSrs(t) \/ Prove(t) \/ Verify(t)

(* Every thread that has entered a call is scheduled again: the OS runs   *)
(* every runnable thread, and BB_MUTEX is released on every path.         *)
Fairness ==
    \A t \in Threads :
        WF_vars(Lock(t) \/ LoadSrs(t) \/ Prove(t) \/ Verify(t))

Spec == Init /\ [][Next]_vars /\ Fairness

-----------------------------------------------------------------------------
(* The native library is used by one thread at a time: SRS loading and    *)
(* the prover and verifier calls of two threads never overlap, on the     *)
(* panic and poison paths included.                                       *)
InBackend(t) == pc[t] \in {"load_srs", "backend"}

MutualExclusion ==
    \A t, u \in Threads : InBackend(t) /\ InBackend(u) => t = u

(* Every call of prove or verify returns, with a result or a panic: a     *)
(* poisoned BB_MUTEX makes later calls fail but never blocks them.        *)
CallsReturn ==
    \A t \in Threads : pc[t] = "lock" ~> pc[t] = "idle"

(* Spec 7: proof-level failures are surfaced to their caller, and only an *)
(* SRS initialisation failure is fatal.  So a verify call fails only for  *)
(* its own proof: it never panics.                                        *)
VerifyNeverPanics ==
    \A t \in Threads : op[t] = "verify" => res[t] # "panic"
=============================================================================
