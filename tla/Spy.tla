-------------------------------- MODULE Spy --------------------------------
(* The test spies of testutil/src/spy.rs.  A spy keeps a FIFO queue of     *)
(* return values (return_next) and a log of calls (calls), each under its  *)
(* own mutex.  register_call pops the queue and appends to the log in two  *)
(* separate critical sections; AsyncSpy awaits the popped future between   *)
(* them, which touches neither.  Concurrent callers interleave there, and  *)
(* so does reset, which clears the log and then the queue.                 *)
EXTENDS Naturals, Sequences

CONSTANTS
    Callers,    \* the tasks or threads that call the spied function
    Method,     \* Method[c]: register_call or register_call_return_next
    Async,      \* the spy is an AsyncSpy (else a Spy)
    DefaultFns, \* the default return functions a test installs
    MaxVals,    \* the values the test queues with return_next
    MaxResets,  \* the resets the test makes
    NoReturn    \* register_call_return_next found the queue empty

ASSUME SpyAssumption ==
    /\ Method \in [Callers -> {"register_call", "register_call_return_next"}]
    /\ Async \in BOOLEAN
    /\ Async => \A c \in Callers : Method[c] = "register_call"
    /\ DefaultFns # {} /\ NoReturn \notin DefaultFns \cup Nat
    /\ MaxVals \in Nat /\ MaxResets \in Nat

VARIABLES
    queue,      \* return_next: the queued values, 1 .. MaxVals in order
    calls,      \* calls: the callers logged, in log order
    dflt,       \* default_return
    pc,         \* where each caller is
    got,        \* what each caller was handed
    nextVal,    \* the values queued so far
    tpc,        \* the test thread: ready, or between the two clears
    resets,     \* the resets begun
    popped      \* the queued values handed out, in the order of the pops

vars == <<queue, calls, dflt, pc, got, nextVal, tpc, resets, popped>>

Vals == 1 .. MaxVals

TypeOK ==
    /\ queue \in Seq(Vals) /\ calls \in Seq(Callers)
    /\ dflt \in DefaultFns
    /\ pc \in [Callers -> {"pop", "push", "done"}]
    /\ got \in [Callers -> Vals \cup DefaultFns \cup {NoReturn}]
    /\ nextVal \in 0 .. MaxVals /\ tpc \in {"ready", "reset"}
    /\ resets \in 0 .. MaxResets /\ popped \in Seq(Vals)

Init ==
    /\ queue = <<>> /\ calls = <<>>
    /\ dflt \in DefaultFns
    /\ pc = [c \in Callers |->
               IF Method[c] = "register_call" THEN "pop" ELSE "push"]
    /\ got = [c \in Callers |-> NoReturn]
    /\ nextVal = 0 /\ tpc = "ready" /\ resets = 0
    /\ popped = <<>>

(* return_next: push_back under the queue's lock. *)
ReturnNext ==
    /\ nextVal < MaxVals
    /\ nextVal' = nextVal + 1
    /\ queue' = Append(queue, nextVal + 1)
    /\ UNCHANGED <<calls, dflt, pc, got, tpc, resets, popped>>

(* Spy::return_default replaces the default function. *)
ReturnDefault(f) ==
    /\ ~Async
    /\ dflt' = f
    /\ UNCHANGED <<queue, calls, pc, got, nextVal, tpc, resets, popped>>

(* reset, first statement: calls.lock().clear(). *)
ResetCalls ==
    /\ tpc = "ready" /\ resets < MaxResets
    /\ calls' = <<>>
    /\ tpc' = "reset"
    /\ resets' = resets + 1
    /\ UNCHANGED <<queue, dflt, pc, got, nextVal, popped>>

(* reset, second statement: return_next.lock().clear(). *)
ResetQueue ==
    /\ tpc = "reset"
    /\ queue' = <<>>
    /\ tpc' = "ready"
    /\ UNCHANGED <<calls, dflt, pc, got, nextVal, resets, popped>>

(* Mutant: the front of the queue is read and left in place. *)
PopPeek(c) ==
    /\ pc[c] = "pop"
    /\ got' = [got EXCEPT ![c] =
                 IF queue # <<>> THEN Head(queue)
                 ELSE IF Method[c] = "register_call" THEN dflt ELSE NoReturn]
    /\ popped' = IF queue # <<>> THEN Append(popped, Head(queue)) ELSE popped
    /\ pc' = [pc EXCEPT ![c] =
                IF Method[c] = "register_call_return_next" THEN "done"
                ELSE "push"]
    /\ UNCHANGED <<queue, calls, dflt, nextVal, tpc, resets>>

(* return_next.lock().pop_front().  register_call falls back on the      *)
(* default function.  For register_call_return_next the pop is the last  *)
(* step.                                                                 *)
Pop(c) ==
    /\ pc[c] = "pop"
    /\ queue' = IF queue # <<>> THEN Tail(queue) ELSE queue
    /\ got' = [got EXCEPT ![c] =
                 IF queue # <<>> THEN Head(queue)
                 ELSE IF Method[c] = "register_call" THEN dflt ELSE NoReturn]
    /\ popped' = IF queue # <<>> THEN Append(popped, Head(queue)) ELSE popped
    /\ pc' = [pc EXCEPT ![c] =
                IF Method[c] = "register_call_return_next" THEN "done"
                ELSE "push"]
    /\ UNCHANGED <<calls, dflt, nextVal, tpc, resets>>

(* calls.lock().push(SpyCall::new(params)): the last step of              *)
(* register_call, the first of register_call_return_next.  AsyncSpy's    *)
(* v(&cloned_params).await comes first: it is a point where other tasks  *)
(* run, which the interleaving of Pop and Push already gives, and it     *)
(* changes no state of the spy.                                          *)
Push(c) ==
    /\ pc[c] = "push"
    /\ calls' = Append(calls, c)
    /\ pc' = [pc EXCEPT ![c] =
                IF Method[c] = "register_call" THEN "done" ELSE "pop"]
    /\ UNCHANGED <<queue, dflt, got, nextVal, tpc, resets, popped>>

Next ==
    \/ ReturnNext \/ ResetCalls \/ ResetQueue
    \/ \E f \in DefaultFns : ReturnDefault(f)
    \/ \E c \in Callers : Pop(c) \/ Push(c)

Spec == Init /\ [][Next]_vars

-----------------------------------------------------------------------------
(* return_next is a FIFO shared by all callers: the queued values are     *)
(* handed out each to one call only, in the order they were queued,       *)
(* however the pops of concurrent callers and the resets interleave.      *)
PopsInQueueOrder ==
    \A i, j \in 1 .. Len(popped) : i < j => popped[i] < popped[j]

(* The doc comment of calls(): "Gets all calls to the spied fn so values  *)
(* can be asserted".  A test pairs the i-th logged call with the i-th     *)
(* value it queued with return_next: of two finished calls that were      *)
(* handed queued values, the one logged first was handed the earlier one. *)
LoggedInPopOrder ==
    \A i, j \in 1 .. Len(calls) :
        (/\ i < j
         /\ pc[calls[i]] = "done" /\ pc[calls[j]] = "done"
         /\ got[calls[i]] \in Vals /\ got[calls[j]] \in Vals)
            => got[calls[i]] < got[calls[j]]

(* The inductive strengthening of PopsInQueueOrder: return_next holds     *)
(* values queued so far in increasing order, and every value handed out   *)
(* precedes every value still queued, whatever reset has cleared.          *)
Increasing(s) == \A i, j \in 1 .. Len(s) : i < j => s[i] < s[j]
QueueInv ==
    /\ \A i \in 1 .. Len(queue) : queue[i] <= nextVal
    /\ \A i \in 1 .. Len(popped) : popped[i] <= nextVal
    /\ Increasing(queue)
    /\ \A i \in 1 .. Len(popped), j \in 1 .. Len(queue) : popped[i] < queue[j]
    /\ PopsInQueueOrder
=============================================================================
