------------------------------ MODULE SpyProofs ------------------------------
(* Proofs about the test spies: the return_next queue hands its values     *)
(* out once each and in the order the test queued them, for any number of *)
(* concurrent callers, values and resets.                                 *)
EXTENDS Spy, TLAPS

(* The bounds of the instance are natural numbers. *)
LEMMA SpyBounds == MaxVals \in Nat /\ MaxResets \in Nat
BY SpyAssumption

(* A caller's next state is one of the three places of a call. *)
LEMMA PcStep ==
    ASSUME TypeOK, NEW c \in Callers, NEW s \in {"pop", "push", "done"}
    PROVE  [pc EXCEPT ![c] = s] \in [Callers -> {"pop", "push", "done"}]
BY DEF TypeOK

(* Every variable keeps its type. *)
THEOREM SpyTypeCorrect == Spec => []TypeOK
<1>1. Init => TypeOK
  BY SpyAssumption, SpyBounds DEF Init, TypeOK, Vals
<1>2. TypeOK /\ [Next]_vars => TypeOK'
  <2> SUFFICES ASSUME TypeOK, [Next]_vars PROVE TypeOK'
    OBVIOUS
  <2>1. CASE ReturnNext
    BY <2>1, SpyBounds DEF ReturnNext, TypeOK, Vals
  <2>2. CASE ResetCalls
    BY <2>2, SpyBounds DEF ResetCalls, TypeOK
  <2>3. CASE ResetQueue
    BY <2>3 DEF ResetQueue, TypeOK
  <2>4. ASSUME NEW f \in DefaultFns, ReturnDefault(f) PROVE TypeOK'
    BY <2>4 DEF ReturnDefault, TypeOK
  <2>5. ASSUME NEW c \in Callers, Pop(c) PROVE TypeOK'
    <3>1. queue' \in Seq(Vals) /\ popped' \in Seq(Vals)
      BY <2>5 DEF Pop, TypeOK
    <3>2. got' \in [Callers -> Vals \cup DefaultFns \cup {NoReturn}]
      BY <2>5 DEF Pop, TypeOK
    <3>3. pc' \in [Callers -> {"pop", "push", "done"}]
      BY <2>5, PcStep DEF Pop
    <3>5. QED
      BY <2>5, <3>1, <3>2, <3>3 DEF Pop, TypeOK
  <2>7. ASSUME NEW c \in Callers, Push(c) PROVE TypeOK'
    BY <2>7, PcStep DEF Push, TypeOK
  <2>8. CASE UNCHANGED vars
    BY <2>8 DEF vars, TypeOK
  <2>9. QED
    BY <2>1, <2>2, <2>3, <2>4, <2>5, <2>7, <2>8 DEF Next
<1>3. QED
  BY <1>1, <1>2, PTL DEF Spec

(* The steps that touch neither the queue, the values handed out nor the  *)
(* values queued keep QueueInv.                                            *)
LEMMA QueueFrame ==
    ASSUME QueueInv, UNCHANGED <<queue, popped, nextVal>>
    PROVE  QueueInv'
BY DEF QueueInv, Increasing, PopsInQueueOrder

(* return_next appends a value above every value queued or handed out. *)
LEMMA ReturnNextQueueInv ==
    ASSUME TypeOK, QueueInv, ReturnNext
    PROVE  QueueInv'
<1> DEFINE v == nextVal + 1
<1>1. /\ queue' = Append(queue, v) /\ nextVal' = v /\ popped' = popped
      /\ nextVal \in Nat
  BY DEF ReturnNext, TypeOK
<1>2. /\ Len(queue') = Len(queue) + 1
      /\ \A i \in 1 .. Len(queue) : queue'[i] = queue[i]
      /\ queue'[Len(queue) + 1] = v
  BY <1>1 DEF TypeOK
<1>3. \A i \in 1 .. Len(queue') : queue'[i] <= nextVal'
  BY <1>1, <1>2, SpyBounds DEF QueueInv, TypeOK, Vals
<1>a. Len(queue) \in Nat /\ Len(popped) \in Nat
  BY DEF TypeOK
<1>b. \A i \in 1 .. Len(queue) : queue[i] \in Nat
  BY SpyBounds DEF TypeOK, Vals
<1>4. Increasing(queue')
  <2> SUFFICES ASSUME NEW i \in 1 .. Len(queue'), NEW j \in 1 .. Len(queue'),
                      i < j
               PROVE  queue'[i] < queue'[j]
    BY DEF Increasing
  <2>1. CASE j <= Len(queue)
    BY <1>a, <1>2, <2>1 DEF QueueInv, Increasing
  <2>2. CASE j = Len(queue) + 1
    BY <1>a, <1>b, <1>1, <1>2, <2>2 DEF QueueInv
  <2>3. QED
    BY <1>a, <1>2, <2>1, <2>2
<1>5. \A i \in 1 .. Len(popped'), j \in 1 .. Len(queue') : popped'[i] < queue'[j]
  <2> SUFFICES ASSUME NEW i \in 1 .. Len(popped), NEW j \in 1 .. Len(queue')
               PROVE  popped[i] < queue'[j]
    BY <1>1
  <2>1. popped[i] \in Nat
    BY SpyBounds DEF TypeOK, Vals
  <2>2. CASE j <= Len(queue)
    BY <1>a, <1>2, <2>2 DEF QueueInv
  <2>3. CASE j = Len(queue) + 1
    BY <1>a, <1>1, <1>2, <2>1, <2>3 DEF QueueInv
  <2>4. QED
    BY <1>a, <1>2, <2>2, <2>3
<1>6. PopsInQueueOrder'
  BY <1>1 DEF QueueInv, PopsInQueueOrder
<1>7. \A i \in 1 .. Len(popped') : popped'[i] <= nextVal'
  BY <1>1, SpyBounds DEF QueueInv, TypeOK, Vals
<1>8. QED
  BY <1>3, <1>4, <1>5, <1>6, <1>7 DEF QueueInv

(* A pop moves the head of the queue to the end of the values handed out: *)
(* it is above every value handed out before, and below the rest of the   *)
(* queue.                                                                  *)
LEMMA PopQueueInv ==
    ASSUME TypeOK, QueueInv, NEW c \in Callers, Pop(c)
    PROVE  QueueInv'
<1>1. CASE queue = <<>>
  <2>1. UNCHANGED <<queue, popped, nextVal>>
    BY <1>1 DEF Pop
  <2>2. QED
    BY <2>1, QueueFrame
<1>2. CASE queue # <<>>
  <2> DEFINE h == Head(queue)
  <2>1. /\ queue' = Tail(queue) /\ popped' = Append(popped, h)
        /\ nextVal' = nextVal
    BY <1>2 DEF Pop
  <2>2. /\ Len(queue) >= 1 /\ h = queue[1]
        /\ Len(queue') = Len(queue) - 1
        /\ \A i \in 1 .. Len(queue') : queue'[i] = queue[i + 1]
    BY <1>2, <2>1 DEF TypeOK
  <2>3. /\ Len(popped') = Len(popped) + 1
        /\ \A i \in 1 .. Len(popped) : popped'[i] = popped[i]
        /\ popped'[Len(popped) + 1] = h
    BY <2>1 DEF TypeOK
  <2>4. \A i \in 1 .. Len(queue') : queue'[i] <= nextVal'
    BY <2>1, <2>2 DEF QueueInv
  <2>5. \A i \in 1 .. Len(popped') : popped'[i] <= nextVal'
    BY <2>1, <2>2, <2>3 DEF QueueInv
  <2>6. Increasing(queue')
    BY <2>2 DEF QueueInv, Increasing
  <2>7. \A i \in 1 .. Len(popped'), j \in 1 .. Len(queue') : popped'[i] < queue'[j]
    <3> SUFFICES ASSUME NEW i \in 1 .. Len(popped'), NEW j \in 1 .. Len(queue')
                 PROVE  popped'[i] < queue'[j]
      OBVIOUS
    <3>1. Len(popped) \in Nat /\ Len(queue) \in Nat
      BY DEF TypeOK
    <3>2. queue'[j] = queue[j + 1] /\ j + 1 \in 1 .. Len(queue)
      BY <2>2, <3>1
    <3>3. CASE i <= Len(popped)
      BY <2>3, <3>1, <3>2, <3>3 DEF QueueInv
    <3>4. CASE i = Len(popped) + 1
      <4>1. popped'[i] = queue[1] /\ 1 \in 1 .. Len(queue) /\ 1 < j + 1
        BY <2>2, <2>3, <3>1, <3>4
      <4>2. QED
        BY <3>2, <4>1 DEF QueueInv, Increasing
    <3>5. QED
      BY <2>3, <3>1, <3>3, <3>4
  <2>8. PopsInQueueOrder'
    <3> SUFFICES ASSUME NEW i \in 1 .. Len(popped'), NEW j \in 1 .. Len(popped'),
                        i < j
                 PROVE  popped'[i] < popped'[j]
      BY DEF PopsInQueueOrder
    <3>1. Len(popped) \in Nat
      BY DEF TypeOK
    <3>2. CASE j <= Len(popped)
      BY <2>3, <3>1, <3>2 DEF QueueInv, PopsInQueueOrder
    <3>3. CASE j = Len(popped) + 1
      <4>1. i \in 1 .. Len(popped) /\ popped'[i] = popped[i] /\ popped'[j] = queue[1]
        BY <2>2, <2>3, <3>1, <3>3
      <4>2. 1 \in 1 .. Len(queue)
        BY <2>2 DEF TypeOK
      <4>3. QED
        BY <4>1, <4>2 DEF QueueInv
    <3>4. QED
      BY <2>3, <3>1, <3>2, <3>3
  <2>9. QED
    BY <2>4, <2>5, <2>6, <2>7, <2>8 DEF QueueInv, Increasing
<1>3. QED
  BY <1>1, <1>2

(* QueueInv holds in every reachable state. *)
THEOREM QueueInvHolds == Spec => []QueueInv
<1>1. Init => QueueInv
  BY DEF Init, QueueInv, Increasing, PopsInQueueOrder
<1>2. TypeOK /\ QueueInv /\ [Next]_vars => QueueInv'
  <2> SUFFICES ASSUME TypeOK, QueueInv, [Next]_vars PROVE QueueInv'
    OBVIOUS
  <2>1. CASE ReturnNext
    BY <2>1, ReturnNextQueueInv
  <2>2. CASE ResetQueue
    <3>1. queue' = <<>> /\ UNCHANGED <<popped, nextVal>>
      BY <2>2 DEF ResetQueue
    <3>2. QED
      BY <3>1 DEF QueueInv, Increasing, PopsInQueueOrder
  <2>3. ASSUME NEW c \in Callers, Pop(c) PROVE QueueInv'
    BY <2>3, PopQueueInv
  <2>4. CASE ResetCalls \/ (\E f \in DefaultFns : ReturnDefault(f))
             \/ (\E c \in Callers : Push(c))
             \/ UNCHANGED vars
    <3>1. UNCHANGED <<queue, popped, nextVal>>
      BY <2>4 DEF ResetCalls, ReturnDefault, Push, vars
    <3>2. QED
      BY <3>1, QueueFrame
  <2>5. QED
    BY <2>1, <2>2, <2>3, <2>4 DEF Next
<1>3. QED
  BY <1>1, <1>2, SpyTypeCorrect, PTL DEF Spec

(* The spy hands the queued return values out each once and in queue      *)
(* order, however concurrent register_call and register_call_return_next  *)
(* pops interleave with return_next and reset.                            *)
THEOREM PopsInQueueOrderHolds == Spec => []PopsInQueueOrder
BY QueueInvHolds, PTL DEF QueueInv
=============================================================================
