-------------------------- MODULE FrameQueue_proofs -------------------------
(***************************************************************************)
(* Proofs about the frame queue for every capacity, every set of producers *)
(* and consumers and every set of frames.                                  *)
(***************************************************************************)
EXTENDS FrameQueue, SequenceTheorems, FiniteSetTheorems, TLAPS

(* Moving at most one lap forward from a slot wraps at most once: what     *)
(* "% q->capacity" computes in enqueue and dequeue.                        *)
LEMMA Wrap ==
  ASSUME NEW i \in Slots, NEW n \in 0 .. Capacity
  PROVE  /\ (i + n) % Capacity = IF i + n < Capacity THEN i + n ELSE i + n - Capacity
         /\ (i + n) % Capacity \in Slots
  BY CapacityAssumption, SMT DEF Slots

(* The slot after i: the increment of rear in enqueue and front in dequeue.*)
LEMMA NextSlot ==
  ASSUME NEW i \in Slots
  PROVE  /\ (i + 1) % Capacity = IF i + 1 = Capacity THEN 0 ELSE i + 1
         /\ (i + 1) % Capacity \in Slots
<1>1. CASE i + 1 = Capacity
  BY <1>1, CapacityAssumption, SMT DEF Slots
<1>2. CASE i + 1 # Capacity
  BY <1>2, CapacityAssumption, SMT DEF Slots
<1> QED BY <1>1, <1>2

(* The slot enqueue writes is not one of the queued frames.                *)
LEMMA RearIsFree ==
  ASSUME TypeOK, RingConsistent, count < Capacity, NEW n \in 0 .. count - 1
  PROVE  Pos(n) \in Slots /\ Pos(n) # rear
<1>1. n \in 0 .. Capacity /\ count \in 0 .. Capacity /\ front \in Slots
  BY CapacityAssumption DEF TypeOK
<1>2. Pos(n) = IF front + n < Capacity THEN front + n ELSE front + n - Capacity
  BY <1>1, Wrap DEF Pos
<1>3. rear = IF front + count < Capacity THEN front + count ELSE front + count - Capacity
  BY <1>1, Wrap DEF Pos, RingConsistent
<1>4. Pos(n) \in Slots
  BY <1>1, Wrap DEF Pos
<1> QED BY <1>1, <1>2, <1>3, <1>4, CapacityAssumption DEF Slots, TypeOK

(* Removing the front frame renumbers the others.                          *)
LEMMA PosAfterFront ==
  ASSUME TypeOK, NEW n \in 0 .. Capacity - 1
  PROVE  (((front + 1) % Capacity) + n) % Capacity = Pos(n + 1)
<1>1. n \in 0 .. Capacity /\ n + 1 \in 0 .. Capacity /\ front \in Slots
  BY CapacityAssumption DEF TypeOK
<1> DEFINE g == (front + 1) % Capacity
<1>2. g \in Slots /\ g = IF front + 1 = Capacity THEN 0 ELSE front + 1
  BY <1>1, NextSlot
<1> HIDE DEF g
<1>3. (g + n) % Capacity = IF g + n < Capacity THEN g + n ELSE g + n - Capacity
  BY <1>1, <1>2, Wrap
<1>4. Pos(n + 1) = IF front + (n + 1) < Capacity
                   THEN front + (n + 1) ELSE front + (n + 1) - Capacity
  BY <1>1, Wrap DEF Pos
<1>5. (g + n) % Capacity = Pos(n + 1)
  BY <1>1, <1>2, <1>3, <1>4, CapacityAssumption DEF Slots
<1> QED BY <1>5 DEF g

(* The inductive invariant: types, the mutex discipline and the ring       *)
(* arithmetic need each other (count < Capacity at "advance" holds because *)
(* nobody else is inside the mutex since it was checked).                  *)
IInv == TypeOK /\ MutexInv /\ RingConsistent /\ CopiesInv

LEMMA InitIInv == Init => IInv
<1> SUFFICES ASSUME Init PROVE IInv
  OBVIOUS
<1> USE CapacityAssumption, ThreadsAssumption, SpuriousAssumption DEF Init, Slots, Threads
<1>1. TypeOK
  BY DEF TypeOK
<1>2. MutexInv
  BY DEF MutexInv, Inside
<1>3. RingConsistent
  BY Wrap DEF RingConsistent, Pos
<1>4. CopiesInv
  BY DEF CopiesInv
<1> QED BY <1>1, <1>2, <1>3, <1>4 DEF IInv

LEMMA TypeStep == IInv /\ [Next]_vars => TypeOK'
<1> SUFFICES ASSUME IInv, [Next]_vars PROVE TypeOK'
  OBVIOUS
<1> USE CapacityAssumption, ThreadsAssumption, SpuriousAssumption
    DEF IInv, TypeOK, Slots, Threads, Goto, ring, conds
<1>1. ASSUME NEW t \in Threads, Lock(t) PROVE TypeOK'
  BY <1>1 DEF Lock
<1>2. ASSUME NEW t \in Threads, Unlock(t) PROVE TypeOK'
  BY <1>2 DEF Unlock
<1>3. ASSUME NEW t \in Threads, SpuriousWakeup(t) PROVE TypeOK'
  BY <1>3 DEF SpuriousWakeup
<1>4. ASSUME NEW p \in Producers, NEW f \in Frame, EnqCall(p, f) PROVE TypeOK'
  BY <1>4 DEF EnqCall
<1>5. ASSUME NEW p \in Producers, EnqWait(p) PROVE TypeOK'
  BY <1>5 DEF EnqWait
<1>6. ASSUME NEW p \in Producers, EnqCopy(p) PROVE TypeOK'
  BY <1>6 DEF EnqCopy
<1>7. ASSUME NEW p \in Producers, EnqAdvance(p) PROVE TypeOK'
  BY <1>7, NextSlot DEF EnqAdvance, CopiesInv
<1>8. ASSUME NEW p \in Producers, EnqSignal(p) PROVE TypeOK'
  BY <1>8 DEF EnqSignal
<1>9. ASSUME NEW c \in Consumers, DeqCall(c) PROVE TypeOK'
  BY <1>9 DEF DeqCall
<1>10. ASSUME NEW c \in Consumers, DeqWait(c) PROVE TypeOK'
  BY <1>10 DEF DeqWait
<1>11. ASSUME NEW c \in Consumers, DeqCopy(c) PROVE TypeOK'
  BY <1>11 DEF DeqCopy
<1>12. ASSUME NEW c \in Consumers, DeqAdvance(c) PROVE TypeOK'
  BY <1>12, NextSlot DEF DeqAdvance, CopiesInv
<1>13. ASSUME NEW c \in Consumers, DeqSignal(c) PROVE TypeOK'
  BY <1>13 DEF DeqSignal
<1>14. CASE UNCHANGED vars
  BY <1>14 DEF vars
<1> QED
  BY <1>1, <1>2, <1>3, <1>4, <1>5, <1>6, <1>7, <1>8, <1>9, <1>10, <1>11,
     <1>12, <1>13, <1>14 DEF Next, Enqueue, Dequeue
LEMMA MutexStep == IInv /\ [Next]_vars => MutexInv'
<1> SUFFICES ASSUME IInv, [Next]_vars PROVE MutexInv'
  OBVIOUS
<1> USE ThreadsAssumption
    DEF IInv, TypeOK, MutexInv, Inside, Threads, Goto, ring, conds
<1>1. ASSUME NEW t \in Threads, Lock(t) PROVE MutexInv'
  BY <1>1 DEF Lock
<1>2. ASSUME NEW t \in Threads, Unlock(t) PROVE MutexInv'
  BY <1>2 DEF Unlock
<1>3. ASSUME NEW t \in Threads, SpuriousWakeup(t) PROVE MutexInv'
  BY <1>3 DEF SpuriousWakeup
<1>4. ASSUME NEW p \in Producers, NEW f \in Frame, EnqCall(p, f) PROVE MutexInv'
  BY <1>4 DEF EnqCall
<1>5. ASSUME NEW p \in Producers, EnqWait(p) PROVE MutexInv'
  BY <1>5 DEF EnqWait
<1>6. ASSUME NEW p \in Producers, EnqCopy(p) PROVE MutexInv'
  BY <1>6 DEF EnqCopy
<1>7. ASSUME NEW p \in Producers, EnqAdvance(p) PROVE MutexInv'
  BY <1>7 DEF EnqAdvance
<1>8. ASSUME NEW p \in Producers, EnqSignal(p) PROVE MutexInv'
  BY <1>8 DEF EnqSignal
<1>9. ASSUME NEW c \in Consumers, DeqCall(c) PROVE MutexInv'
  BY <1>9 DEF DeqCall
<1>10. ASSUME NEW c \in Consumers, DeqWait(c) PROVE MutexInv'
  BY <1>10 DEF DeqWait
<1>11. ASSUME NEW c \in Consumers, DeqCopy(c) PROVE MutexInv'
  BY <1>11 DEF DeqCopy
<1>12. ASSUME NEW c \in Consumers, DeqAdvance(c) PROVE MutexInv'
  BY <1>12 DEF DeqAdvance
<1>13. ASSUME NEW c \in Consumers, DeqSignal(c) PROVE MutexInv'
  BY <1>13 DEF DeqSignal
<1>14. CASE UNCHANGED vars
  BY <1>14 DEF vars
<1> QED
  BY <1>1, <1>2, <1>3, <1>4, <1>5, <1>6, <1>7, <1>8, <1>9, <1>10, <1>11,
     <1>12, <1>13, <1>14 DEF Next, Enqueue, Dequeue

LEMMA RingStep == IInv /\ [Next]_vars => RingConsistent'
<1> SUFFICES ASSUME IInv, [Next]_vars PROVE RingConsistent'
  OBVIOUS
<1> USE CapacityAssumption
    DEF IInv, TypeOK, RingConsistent, Pos, Slots, Goto, ring, conds
<1>1. ASSUME NEW t \in Threads, Lock(t) PROVE RingConsistent'
  BY <1>1 DEF Lock
<1>2. ASSUME NEW t \in Threads, Unlock(t) PROVE RingConsistent'
  BY <1>2 DEF Unlock
<1>3. ASSUME NEW t \in Threads, SpuriousWakeup(t) PROVE RingConsistent'
  BY <1>3 DEF SpuriousWakeup
<1>4. ASSUME NEW p \in Producers, NEW f \in Frame, EnqCall(p, f) PROVE RingConsistent'
  BY <1>4 DEF EnqCall
<1>5. ASSUME NEW p \in Producers, EnqWait(p) PROVE RingConsistent'
  BY <1>5 DEF EnqWait
<1>6. ASSUME NEW p \in Producers, EnqCopy(p) PROVE RingConsistent'
  BY <1>6 DEF EnqCopy
<1>7. ASSUME NEW p \in Producers, EnqAdvance(p) PROVE RingConsistent'
  <2>1. /\ front' = front
        /\ count' = count + 1 /\ count < Capacity
        /\ rear' = (rear + 1) % Capacity
    BY <1>7 DEF EnqAdvance, CopiesInv
  <2>2. (front + (count + 1)) % Capacity =
          IF front + (count + 1) < Capacity
          THEN front + (count + 1) ELSE front + (count + 1) - Capacity
    <3>1. count + 1 \in 0 .. Capacity
      BY <2>1
    <3> QED BY <3>1, Wrap
  <2>3. rear = IF front + count < Capacity THEN front + count ELSE front + count - Capacity
    BY Wrap
  <2>4. rear' = IF rear + 1 = Capacity THEN 0 ELSE rear + 1
    BY <2>1, NextSlot
  <2> QED BY <2>1, <2>2, <2>3, <2>4
<1>8. ASSUME NEW p \in Producers, EnqSignal(p) PROVE RingConsistent'
  BY <1>8 DEF EnqSignal
<1>9. ASSUME NEW c \in Consumers, DeqCall(c) PROVE RingConsistent'
  BY <1>9 DEF DeqCall
<1>10. ASSUME NEW c \in Consumers, DeqWait(c) PROVE RingConsistent'
  BY <1>10 DEF DeqWait
<1>11. ASSUME NEW c \in Consumers, DeqCopy(c) PROVE RingConsistent'
  BY <1>11 DEF DeqCopy
<1>12. ASSUME NEW c \in Consumers, DeqAdvance(c) PROVE RingConsistent'
  <2>1. /\ front' = (front + 1) % Capacity
        /\ count' = count - 1 /\ count > 0
        /\ rear' = rear
    BY <1>12 DEF DeqAdvance, CopiesInv
  <2>2. front' \in Slots /\ count' \in 0 .. Capacity
    BY <2>1, NextSlot
  <2>4. (front' + count') % Capacity =
          IF front' + count' < Capacity
          THEN front' + count' ELSE front' + count' - Capacity
    BY <2>2, Wrap
  <2>5. rear = IF front + count < Capacity THEN front + count ELSE front + count - Capacity
    BY Wrap
  <2>6. front' = IF front + 1 = Capacity THEN 0 ELSE front + 1
    BY <2>1, NextSlot
  <2> QED BY <2>1, <2>4, <2>5, <2>6
<1>13. ASSUME NEW c \in Consumers, DeqSignal(c) PROVE RingConsistent'
  BY <1>13 DEF DeqSignal
<1>14. CASE UNCHANGED vars
  BY <1>14 DEF vars
<1> QED
  BY <1>1, <1>2, <1>3, <1>4, <1>5, <1>6, <1>7, <1>8, <1>9, <1>10, <1>11,
     <1>12, <1>13, <1>14 DEF Next, Enqueue, Dequeue

LEMMA CopiesStep == IInv /\ [Next]_vars => CopiesInv'
<1> SUFFICES ASSUME IInv, [Next]_vars PROVE CopiesInv'
  OBVIOUS
<1>first. count > 0 => slot[front] # NoFrame
  <2>1. /\ front \in Nat /\ front < Capacity /\ Capacity \in Nat \ {0}
        /\ count \in Nat
    BY CapacityAssumption DEF IInv, TypeOK, Slots
  <2>2. front + 0 = front /\ front % Capacity = front
    BY <2>1
  <2>3. Pos(0) = front
    BY <2>2 DEF Pos
  <2>4. count > 0 => 0 \in 0 .. count - 1
    BY <2>1
  <2> QED BY <2>3, <2>4 DEF IInv, CopiesInv
<1>last. rear = Pos(count)
  BY DEF IInv, RingConsistent
<1>free. \A n \in 0 .. count - 1 :
           count < Capacity => Pos(n) \in Slots /\ Pos(n) # rear
  BY RearIsFree DEF IInv
<1>next. \A n \in 0 .. Capacity - 1 :
           (((front + 1) % Capacity) + n) % Capacity = Pos(n + 1)
  BY PosAfterFront DEF IInv
<1> USE CapacityAssumption, ThreadsAssumption, FrameAssumption
    DEF IInv, TypeOK, MutexInv, Inside, RingConsistent, CopiesInv, Pos, Slots,
        Threads, Goto, ring, conds
<1>1. ASSUME NEW t \in Threads, Lock(t) PROVE CopiesInv'
  BY <1>1 DEF Lock
<1>2. ASSUME NEW t \in Threads, Unlock(t) PROVE CopiesInv'
  BY <1>2 DEF Unlock
<1>3. ASSUME NEW t \in Threads, SpuriousWakeup(t) PROVE CopiesInv'
  BY <1>3 DEF SpuriousWakeup
<1>4. ASSUME NEW p \in Producers, NEW f \in Frame, EnqCall(p, f) PROVE CopiesInv'
  BY <1>4 DEF EnqCall
<1>5. ASSUME NEW p \in Producers, EnqWait(p) PROVE CopiesInv'
  BY <1>5 DEF EnqWait
<1>6. ASSUME NEW p \in Producers, EnqCopy(p) PROVE CopiesInv'
  <2>1. /\ count < Capacity /\ front' = front /\ count' = count /\ rear' = rear
        /\ slot' = [slot EXCEPT ![rear] = arg[p]]
        /\ arg' = arg /\ pc' = [pc EXCEPT ![p] = "advance"]
        /\ pc[p] = "check"
    BY <1>6 DEF EnqCopy
  <2>2. \A n \in 0 .. count' - 1 : slot'[Pos(n)'] # NoFrame
    BY <2>1, <1>free
  <2>3. \A q \in Threads : q # p => ~Inside(q)
    BY <2>1
  <2> QED BY <2>1, <2>2, <2>3
<1>7. ASSUME NEW p \in Producers, EnqAdvance(p) PROVE CopiesInv'
  <2>1. /\ front' = front /\ count' = count + 1 /\ slot' = slot
        /\ count < Capacity /\ slot[rear] = arg[p] /\ arg[p] # NoFrame
        /\ arg' = arg /\ pc' = [pc EXCEPT ![p] = "signal"]
        /\ pc[p] = "advance"
    BY <1>7 DEF EnqAdvance
  <2>2. \A n \in 0 .. count' - 1 : slot'[Pos(n)'] # NoFrame
    <3> SUFFICES ASSUME NEW n \in 0 .. count' - 1 PROVE slot'[Pos(n)'] # NoFrame
      OBVIOUS
    <3>1. Pos(n)' = Pos(n)
      BY <2>1
    <3>2. CASE n = count
      BY <2>1, <3>1, <3>2, <1>last
    <3>3. CASE n # count
      BY <2>1, <3>1, <3>3
    <3> QED BY <3>2, <3>3
  <2>3. \A q \in Threads : q # p => ~Inside(q)
    BY <2>1
  <2> QED BY <2>1, <2>2, <2>3
<1>8. ASSUME NEW p \in Producers, EnqSignal(p) PROVE CopiesInv'
  BY <1>8 DEF EnqSignal
<1>9. ASSUME NEW c \in Consumers, DeqCall(c) PROVE CopiesInv'
  BY <1>9 DEF DeqCall
<1>10. ASSUME NEW c \in Consumers, DeqWait(c) PROVE CopiesInv'
  BY <1>10 DEF DeqWait
<1>11. ASSUME NEW c \in Consumers, DeqCopy(c) PROVE CopiesInv'
  BY <1>11 DEF DeqCopy
<1>12. ASSUME NEW c \in Consumers, DeqAdvance(c) PROVE CopiesInv'
  <2>1. /\ front' = (front + 1) % Capacity /\ count' = count - 1
        /\ slot' = slot /\ rear' = rear /\ count > 0 /\ arg[c] = slot[front]
        /\ arg' = arg /\ pc' = [pc EXCEPT ![c] = "signal"]
        /\ pc[c] = "advance"
    BY <1>12 DEF DeqAdvance
  <2>2. \A n \in 0 .. count' - 1 : slot'[Pos(n)'] # NoFrame
    <3> SUFFICES ASSUME NEW n \in 0 .. count' - 1 PROVE slot'[Pos(n)'] # NoFrame
      OBVIOUS
    <3>1. n \in 0 .. Capacity - 1 /\ n + 1 \in 0 .. count - 1
      BY <2>1
    <3>2. Pos(n)' = Pos(n + 1)
      BY <2>1, <3>1, <1>next
    <3> QED BY <2>1, <3>1, <3>2
  <2>3. slot[front] # NoFrame
    BY <2>1, <1>first
  <2>4. \A q \in Threads : q # c => ~Inside(q)
    BY <2>1
  <2> QED BY <2>1, <2>2, <2>3, <2>4
<1>13. ASSUME NEW c \in Consumers, DeqSignal(c) PROVE CopiesInv'
  BY <1>13 DEF DeqSignal
<1>14. CASE UNCHANGED vars
  BY <1>14 DEF vars
<1> QED
  BY <1>1, <1>2, <1>3, <1>4, <1>5, <1>6, <1>7, <1>8, <1>9, <1>10, <1>11,
     <1>12, <1>13, <1>14 DEF Next, Enqueue, Dequeue

LEMMA Invariance == Spec => []IInv
<1>1. IInv /\ [Next]_vars => IInv'
  BY TypeStep, MutexStep, RingStep, CopiesStep DEF IInv
<1> QED
  BY InitIInv, <1>1, PTL DEF Spec

(* Types, the mutex discipline and the ring arithmetic of enqueue and      *)
(* dequeue hold in every reachable state.                                  *)
THEOREM TypeCorrect == Spec => []TypeOK
  BY Invariance, PTL DEF IInv

(* Between lock and unlock of enqueue or dequeue a thread is alone, and a  *)
(* thread in pthread_cond_wait sleeps on the condition of its own loop.    *)
THEOREM MutualExclusion == Spec => []MutexInv
  BY Invariance, PTL DEF IInv

(* rear stays count slots after front, modulo the capacity: enqueue and    *)
(* dequeue agree on which slots are in use.                                *)
THEOREM RingCorrect == Spec => []RingConsistent
  BY Invariance, PTL DEF IInv

(* enqueue never overwrites a frame that is still queued and dequeue never *)
(* returns a slot nobody wrote.                                            *)
THEOREM CopiesCorrect == Spec => []CopiesInv
  BY Invariance, PTL DEF IInv

(* Both at once.                                                           *)
THEOREM RingInvCorrect == Spec => []RingInv
  BY Invariance, PTL DEF IInv, RingInv

-----------------------------------------------------------------------------
(* No wakeup is lost: who is on the way to use a free slot or a queued     *)
(* frame, and who is about to signal, are counted.                         *)
GoingProducers == {p \in Producers : pc[p] \in {"lock", "check", "advance"}}
GoingConsumers == {c \in Consumers : pc[c] \in {"lock", "check", "advance"}}
SignallingProducers == {p \in Producers : pc[p] = "signal"}
SignallingConsumers == {c \in Consumers : pc[c] = "signal"}

LEMMA Counted ==
  ASSUME NEW S, IsFiniteSet(S), NEW x
  PROVE  /\ Cardinality(S) \in Nat
         /\ Cardinality(S \cup {x}) = IF x \in S THEN Cardinality(S) ELSE Cardinality(S) + 1
         /\ Cardinality(S \ {x}) = IF x \in S THEN Cardinality(S) - 1 ELSE Cardinality(S)
  BY FS_CardinalityType, FS_AddElement, FS_RemoveElement

LEMMA Finite ==
  /\ IsFiniteSet(GoingProducers) /\ IsFiniteSet(SignallingProducers)
  /\ IsFiniteSet(GoingConsumers) /\ IsFiniteSet(SignallingConsumers)
<1>1. /\ GoingProducers \subseteq Producers /\ SignallingProducers \subseteq Producers
      /\ GoingConsumers \subseteq Consumers /\ SignallingConsumers \subseteq Consumers
  BY DEF GoingProducers, SignallingProducers, GoingConsumers, SignallingConsumers
<1> QED BY <1>1, FiniteAssumption, FS_Subset

(* A producer that moves changes the producers' sets only, and a consumer  *)
(* the consumers'.                                                         *)
LEMMA ProducerMoves ==
  ASSUME TypeOK, NEW p \in Producers, NEW x, pc' = [pc EXCEPT ![p] = x]
  PROVE  /\ x \in {"lock", "check", "advance"} => GoingProducers' = GoingProducers \cup {p}
         /\ x \notin {"lock", "check", "advance"} => GoingProducers' = GoingProducers \ {p}
         /\ x = "signal" => SignallingProducers' = SignallingProducers \cup {p}
         /\ x # "signal" => SignallingProducers' = SignallingProducers \ {p}
         /\ GoingConsumers' = GoingConsumers /\ SignallingConsumers' = SignallingConsumers
<1>1. pc'[p] = x /\ \A t \in Threads \ {p} : pc'[t] = pc[t]
  BY DEF TypeOK, Threads
<1> QED BY <1>1, ThreadsAssumption DEF Threads, GoingProducers, SignallingProducers,
                                        GoingConsumers, SignallingConsumers

LEMMA ConsumerMoves ==
  ASSUME TypeOK, NEW c \in Consumers, NEW x, pc' = [pc EXCEPT ![c] = x]
  PROVE  /\ x \in {"lock", "check", "advance"} => GoingConsumers' = GoingConsumers \cup {c}
         /\ x \notin {"lock", "check", "advance"} => GoingConsumers' = GoingConsumers \ {c}
         /\ x = "signal" => SignallingConsumers' = SignallingConsumers \cup {c}
         /\ x # "signal" => SignallingConsumers' = SignallingConsumers \ {c}
         /\ GoingProducers' = GoingProducers /\ SignallingProducers' = SignallingProducers
<1>1. pc'[c] = x /\ \A t \in Threads \ {c} : pc'[t] = pc[t]
  BY DEF TypeOK, Threads
<1> QED BY <1>1, ThreadsAssumption DEF Threads, GoingProducers, SignallingProducers,
                                        GoingConsumers, SignallingConsumers

(* The four counts, as numbers.                                            *)
Counts ==
  /\ Cardinality(GoingProducers) \in Nat /\ Cardinality(SignallingProducers) \in Nat
  /\ Cardinality(GoingConsumers) \in Nat /\ Cardinality(SignallingConsumers) \in Nat

Covered ==
  /\ notFull # {} => Capacity - count <= Cardinality(GoingProducers) + Cardinality(SignallingConsumers)
  /\ notEmpty # {} => count <= Cardinality(GoingConsumers) + Cardinality(SignallingProducers)

LEMMA CoveredIs == NoLostWakeup <=> Covered
  BY DEF NoLostWakeup, Covered, GoingProducers, GoingConsumers, SignallingProducers,
         SignallingConsumers

LEMMA CountsOK == Counts
  BY Finite, FS_CardinalityType DEF Counts

(* A move that is neither on nor off the way to the ring, nor to or from a *)
(* signal, changes none of the sets.                                       *)
LEMMA NeutralMoves ==
  ASSUME TypeOK, NEW t \in Threads, NEW x, pc' = [pc EXCEPT ![t] = x],
         x \in {"lock", "check", "advance"} <=> pc[t] \in {"lock", "check", "advance"},
         x = "signal" <=> pc[t] = "signal"
  PROVE  /\ GoingProducers' = GoingProducers /\ SignallingProducers' = SignallingProducers
         /\ GoingConsumers' = GoingConsumers /\ SignallingConsumers' = SignallingConsumers
<1>1. pc'[t] = x /\ \A u \in Threads \ {t} : pc'[u] = pc[u]
  BY DEF TypeOK
<1> QED BY <1>1 DEF Threads, GoingProducers, SignallingProducers,
                    GoingConsumers, SignallingConsumers

LEMMA NeutralSteps ==
  ASSUME TypeOK, Covered, NEW t \in Threads,
         \/ Lock(t) \/ Unlock(t)
         \/ t \in Producers /\ EnqCopy(t)
         \/ t \in Consumers /\ DeqCopy(t)
  PROVE  Covered'
<1>1. /\ UNCHANGED <<count, notFull, notEmpty>>
      /\ \/ pc[t] = "lock" /\ pc' = [pc EXCEPT ![t] = "check"]
         \/ pc[t] = "unlock" /\ pc' = [pc EXCEPT ![t] = "idle"]
         \/ pc[t] = "check" /\ pc' = [pc EXCEPT ![t] = "advance"]
  BY DEF Lock, Unlock, EnqCopy, DeqCopy, Goto, ring, conds
<1>2. /\ GoingProducers' = GoingProducers /\ SignallingProducers' = SignallingProducers
      /\ GoingConsumers' = GoingConsumers /\ SignallingConsumers' = SignallingConsumers
  <2>1. CASE pc[t] = "lock" /\ pc' = [pc EXCEPT ![t] = "check"]
    BY <2>1, NeutralMoves
  <2>2. CASE pc[t] = "unlock" /\ pc' = [pc EXCEPT ![t] = "idle"]
    BY <2>2, NeutralMoves
  <2>3. CASE pc[t] = "check" /\ pc' = [pc EXCEPT ![t] = "advance"]
    BY <2>3, NeutralMoves
  <2> QED BY <1>1, <2>1, <2>2, <2>3
<1> QED BY <1>1, <1>2 DEF Covered

(* A thread that starts, or wakes by itself: one more is on its way.       *)
LEMMA StartSteps ==
  ASSUME TypeOK, Covered, NEW t \in Threads,
         \/ SpuriousWakeup(t)
         \/ t \in Producers /\ \E f \in Frame : EnqCall(t, f)
         \/ t \in Consumers /\ DeqCall(t)
  PROVE  Covered'
<1>1. /\ pc[t] \in {"sleep", "idle"} /\ pc' = [pc EXCEPT ![t] = "lock"]
      /\ count' = count /\ notFull' \subseteq notFull /\ notEmpty' \subseteq notEmpty
  BY DEF SpuriousWakeup, EnqCall, DeqCall, Goto, ring, conds
<1>2. pc'[t] = "lock" /\ \A u \in Threads \ {t} : pc'[u] = pc[u]
  BY <1>1 DEF TypeOK
<1>3. /\ GoingProducers \subseteq GoingProducers' /\ GoingConsumers \subseteq GoingConsumers'
      /\ SignallingProducers' = SignallingProducers /\ SignallingConsumers' = SignallingConsumers
  BY <1>1, <1>2 DEF Threads, GoingProducers, SignallingProducers,
                    GoingConsumers, SignallingConsumers
<1>4. Counts /\ Counts' /\ IsFiniteSet(GoingProducers') /\ IsFiniteSet(GoingConsumers')
  <2>1. Counts'
    BY CountsOK, PTL
  <2>2. GoingProducers' \subseteq Producers /\ GoingConsumers' \subseteq Consumers
    BY DEF GoingProducers, GoingConsumers
  <2> QED BY <2>1, <2>2, CountsOK, FiniteAssumption, FS_Subset
<1>5. /\ Cardinality(GoingProducers) <= Cardinality(GoingProducers')
      /\ Cardinality(GoingConsumers) <= Cardinality(GoingConsumers')
  BY <1>3, <1>4, FS_Subset
<1>6. count \in Nat /\ Capacity \in Nat
  BY CapacityAssumption DEF TypeOK
<1>7. ASSUME notFull' # {}
      PROVE  Capacity - count' <= Cardinality(GoingProducers') + Cardinality(SignallingConsumers')
  <2>1. notFull # {}
    BY <1>1, <1>7
  <2> QED BY <1>1, <1>3, <1>4, <1>5, <1>6, <2>1 DEF Covered, Counts
<1>8. ASSUME notEmpty' # {}
      PROVE  count' <= Cardinality(GoingConsumers') + Cardinality(SignallingProducers')
  <2>1. notEmpty # {}
    BY <1>1, <1>8
  <2> QED BY <1>1, <1>3, <1>4, <1>5, <1>6, <2>1 DEF Covered, Counts
<1> QED BY <1>7, <1>8 DEF Covered

(* The steps of enqueue that can leave the way or stop signalling.        *)
LEMMA ProducerSteps ==
  ASSUME TypeOK, MutexInv, Covered, NEW p \in Producers,
         EnqWait(p) \/ EnqAdvance(p) \/ EnqSignal(p)
  PROVE  Covered'
<1>1. /\ count \in Nat /\ Capacity \in Nat /\ Counts /\ Counts'
      /\ pc \in [Threads -> {"idle", "lock", "check", "sleep", "advance", "signal", "unlock"}]
      /\ p \in Threads
  <2>1. Counts'
    BY CountsOK, PTL
  <2> QED BY <2>1, CapacityAssumption, CountsOK DEF TypeOK, Threads
<1>2. /\ (p \in GoingProducers <=> pc[p] \in {"lock", "check", "advance"})
      /\ (p \in SignallingProducers <=> pc[p] = "signal")
  BY DEF GoingProducers, SignallingProducers
<1>3. CASE EnqWait(p)
  <2>1. /\ count = Capacity /\ UNCHANGED <<count, notEmpty>> /\ pc[p] = "check"
        /\ pc' = [pc EXCEPT ![p] = "sleep"]
    BY <1>3 DEF EnqWait, Goto, ring
  <2>2. GoingConsumers' = GoingConsumers
    BY <2>1, ProducerMoves
  <2>3. SignallingProducers' = SignallingProducers \ {p}
    <3>1. pc'[p] = "sleep" /\ \A u \in Threads \ {p} : pc'[u] = pc[u]
      BY <1>1, <2>1
    <3> QED BY <3>1 DEF Threads, SignallingProducers
  <2>4. SignallingProducers' = SignallingProducers
    BY <1>2, <2>1, <2>3
  <2>5. Capacity - count' <= Cardinality(GoingProducers') + Cardinality(SignallingConsumers')
    BY <1>1, <2>1 DEF Counts
  <2> QED BY <2>1, <2>2, <2>4, <2>5 DEF Covered
<1>4. CASE EnqAdvance(p)
  <2>1. /\ count' = count + 1 /\ UNCHANGED conds /\ pc[p] = "advance"
        /\ pc' = [pc EXCEPT ![p] = "signal"]
    BY <1>4 DEF EnqAdvance, Goto
  <2>2. /\ GoingProducers' = GoingProducers \ {p} /\ p \in GoingProducers
        /\ SignallingProducers' = SignallingProducers \cup {p} /\ p \notin SignallingProducers
        /\ GoingConsumers' = GoingConsumers /\ SignallingConsumers' = SignallingConsumers
    BY <1>2, <2>1, ProducerMoves
  <2>3. /\ Cardinality(GoingProducers') = Cardinality(GoingProducers) - 1
        /\ Cardinality(SignallingProducers') = Cardinality(SignallingProducers) + 1
    BY <2>2, Finite, Counted
  <2> QED BY <1>1, <2>1, <2>2, <2>3 DEF Covered, conds, Counts
<1>5. CASE EnqSignal(p)
  <2>1. pc[p] = "signal" /\ UNCHANGED <<count, notFull>>
    BY <1>5 DEF EnqSignal, ring
  <2>2. CASE notEmpty = {}
    <3>1. pc' = [pc EXCEPT ![p] = "unlock"] /\ notEmpty' = {}
      BY <1>5, <2>2 DEF EnqSignal
    <3>2. /\ GoingProducers' = GoingProducers \ {p} /\ p \notin GoingProducers
          /\ SignallingConsumers' = SignallingConsumers
      BY <1>2, <2>1, <3>1, ProducerMoves
    <3>3. GoingProducers' = GoingProducers
      BY <3>2
    <3> QED BY <2>1, <3>1, <3>2, <3>3 DEF Covered
  <2>3. CASE notEmpty # {}
    <3>1. PICK c \in notEmpty : /\ pc' = [pc EXCEPT ![p] = "unlock", ![c] = "lock"]
                                /\ notEmpty' = notEmpty \ {c}
      BY <1>5, <2>3 DEF EnqSignal
    <3>2. c \in Consumers /\ c # p /\ pc[c] = "sleep"
      BY ThreadsAssumption DEF TypeOK, MutexInv
    <3>3. pc'[c] = "lock" /\ pc'[p] = "unlock" /\ \A t \in Threads \ {p, c} : pc'[t] = pc[t]
      BY <1>1, <3>1, <3>2 DEF Threads
    <3>4. /\ GoingProducers' = GoingProducers /\ SignallingProducers' = SignallingProducers \ {p}
          /\ p \in SignallingProducers
      BY <2>1, <3>2, <3>3, ThreadsAssumption DEF Threads, GoingProducers, SignallingProducers
    <3>5. GoingConsumers' = GoingConsumers \cup {c} /\ c \notin GoingConsumers
      BY <2>1, <3>2, <3>3, ThreadsAssumption DEF Threads, GoingConsumers
    <3>6. SignallingConsumers' = SignallingConsumers
      BY <2>1, <3>2, <3>3, ThreadsAssumption DEF Threads, SignallingConsumers
    <3>7. /\ Cardinality(GoingConsumers') = Cardinality(GoingConsumers) + 1
          /\ Cardinality(SignallingProducers') = Cardinality(SignallingProducers) - 1
      BY <3>4, <3>5, Finite, Counted
    <3> QED BY <1>1, <2>1, <2>3, <3>4, <3>6, <3>7 DEF Covered, Counts
  <2> QED BY <2>2, <2>3
<1> QED BY <1>3, <1>4, <1>5

(* The steps of dequeue that can leave the way or stop signalling.        *)
LEMMA ConsumerSteps ==
  ASSUME TypeOK, MutexInv, Covered, NEW c \in Consumers,
         DeqWait(c) \/ DeqAdvance(c) \/ DeqSignal(c)
  PROVE  Covered'
<1>1. /\ count \in Nat /\ Capacity \in Nat /\ Counts /\ Counts'
      /\ pc \in [Threads -> {"idle", "lock", "check", "sleep", "advance", "signal", "unlock"}]
      /\ c \in Threads
  <2>1. Counts'
    BY CountsOK, PTL
  <2> QED BY <2>1, CapacityAssumption, CountsOK DEF TypeOK, Threads
<1>2. /\ (c \in GoingConsumers <=> pc[c] \in {"lock", "check", "advance"})
      /\ (c \in SignallingConsumers <=> pc[c] = "signal")
  BY DEF GoingConsumers, SignallingConsumers
<1>3. CASE DeqWait(c)
  <2>1. /\ count = 0 /\ UNCHANGED <<count, notFull>> /\ pc[c] = "check"
        /\ pc' = [pc EXCEPT ![c] = "sleep"]
    BY <1>3 DEF DeqWait, Goto, ring
  <2>2. GoingProducers' = GoingProducers
    BY <2>1, ConsumerMoves
  <2>3. SignallingConsumers' = SignallingConsumers \ {c}
    <3>1. pc'[c] = "sleep" /\ \A u \in Threads \ {c} : pc'[u] = pc[u]
      BY <1>1, <2>1
    <3> QED BY <3>1 DEF Threads, SignallingConsumers
  <2>4. SignallingConsumers' = SignallingConsumers
    BY <1>2, <2>1, <2>3
  <2>5. count' <= Cardinality(GoingConsumers') + Cardinality(SignallingProducers')
    BY <1>1, <2>1 DEF Counts
  <2> QED BY <2>1, <2>2, <2>4, <2>5 DEF Covered
<1>4. CASE DeqAdvance(c)
  <2>1. /\ count' = count - 1 /\ UNCHANGED conds /\ pc[c] = "advance"
        /\ pc' = [pc EXCEPT ![c] = "signal"]
    BY <1>4 DEF DeqAdvance, Goto
  <2>2. /\ GoingConsumers' = GoingConsumers \ {c} /\ c \in GoingConsumers
        /\ SignallingConsumers' = SignallingConsumers \cup {c} /\ c \notin SignallingConsumers
        /\ GoingProducers' = GoingProducers /\ SignallingProducers' = SignallingProducers
    BY <1>2, <2>1, ConsumerMoves
  <2>3. /\ Cardinality(GoingConsumers') = Cardinality(GoingConsumers) - 1
        /\ Cardinality(SignallingConsumers') = Cardinality(SignallingConsumers) + 1
    BY <2>2, Finite, Counted
  <2> QED BY <1>1, <2>1, <2>2, <2>3 DEF Covered, conds, Counts
<1>5. CASE DeqSignal(c)
  <2>1. pc[c] = "signal" /\ UNCHANGED <<count, notEmpty>>
    BY <1>5 DEF DeqSignal, ring
  <2>2. CASE notFull = {}
    <3>1. pc' = [pc EXCEPT ![c] = "unlock"] /\ notFull' = {}
      BY <1>5, <2>2 DEF DeqSignal
    <3>2. /\ GoingConsumers' = GoingConsumers \ {c} /\ c \notin GoingConsumers
          /\ SignallingProducers' = SignallingProducers
      BY <1>2, <2>1, <3>1, ConsumerMoves
    <3>3. GoingConsumers' = GoingConsumers
      BY <3>2
    <3> QED BY <2>1, <3>1, <3>2, <3>3 DEF Covered
  <2>3. CASE notFull # {}
    <3>1. PICK p \in notFull : /\ pc' = [pc EXCEPT ![c] = "unlock", ![p] = "lock"]
                                /\ notFull' = notFull \ {p}
      BY <1>5, <2>3 DEF DeqSignal
    <3>2. p \in Producers /\ p # c /\ pc[p] = "sleep"
      BY ThreadsAssumption DEF TypeOK, MutexInv
    <3>3. pc'[p] = "lock" /\ pc'[c] = "unlock" /\ \A t \in Threads \ {c, p} : pc'[t] = pc[t]
      BY <1>1, <3>1, <3>2 DEF Threads
    <3>4. /\ GoingConsumers' = GoingConsumers /\ SignallingConsumers' = SignallingConsumers \ {c}
          /\ c \in SignallingConsumers
      BY <2>1, <3>2, <3>3, ThreadsAssumption DEF Threads, GoingConsumers, SignallingConsumers
    <3>5. GoingProducers' = GoingProducers \cup {p} /\ p \notin GoingProducers
      BY <2>1, <3>2, <3>3, ThreadsAssumption DEF Threads, GoingProducers
    <3>6. SignallingProducers' = SignallingProducers
      BY <2>1, <3>2, <3>3, ThreadsAssumption DEF Threads, SignallingProducers
    <3>7. /\ Cardinality(GoingProducers') = Cardinality(GoingProducers) + 1
          /\ Cardinality(SignallingConsumers') = Cardinality(SignallingConsumers) - 1
      BY <3>4, <3>5, Finite, Counted
    <3> QED BY <1>1, <2>1, <2>3, <3>4, <3>6, <3>7 DEF Covered, Counts
  <2> QED BY <2>2, <2>3
<1> QED BY <1>3, <1>4, <1>5

(* While enqueue sleeps on not_full, every free slot has a thread that     *)
(* will use it or pass it on, and so for dequeue and the queued frames.    *)
THEOREM WakeupCorrect == Spec => []NoLostWakeup
<1>1. Init => Covered
  BY DEF Init, Covered
<1>2. IInv /\ Covered /\ [Next]_vars => Covered'
  <2> SUFFICES ASSUME IInv, Covered, [Next]_vars PROVE Covered'
    OBVIOUS
  <2>1. TypeOK /\ MutexInv
    BY DEF IInv
  <2>2. ASSUME NEW t \in Threads, Lock(t) \/ Unlock(t) \/ SpuriousWakeup(t) PROVE Covered'
    BY <2>1, <2>2, NeutralSteps, StartSteps
  <2>3. ASSUME NEW p \in Producers, Enqueue(p) \/ \E f \in Frame : EnqCall(p, f) PROVE Covered'
    <3>1. p \in Threads
      BY DEF Threads
    <3> QED BY <2>1, <2>3, <3>1, ProducerSteps, NeutralSteps, StartSteps DEF Enqueue
  <2>4. ASSUME NEW c \in Consumers, Dequeue(c) \/ DeqCall(c) PROVE Covered'
    <3>1. c \in Threads
      BY DEF Threads
    <3> QED BY <2>1, <2>4, <3>1, ConsumerSteps, NeutralSteps, StartSteps DEF Dequeue
  <2>5. CASE UNCHANGED vars
    BY <2>5 DEF vars, ring, conds, Covered, GoingProducers, GoingConsumers,
                SignallingProducers, SignallingConsumers
  <2> QED BY <2>2, <2>3, <2>4, <2>5 DEF Next
<1> QED BY <1>1, <1>2, Invariance, CoveredIs, PTL DEF Spec

(* The threads cannot all be waiting for each other: when both sides take  *)
(* part, some thread is outside pthread_cond_wait, whatever the order of   *)
(* the signals.  Were all asleep, no free slot and no queued frame would   *)
(* be left, in a ring of at least one slot.                                *)
SomeoneAwake ==
  Producers # {} /\ Consumers # {} => \E t \in Threads : pc[t] # "sleep"

THEOREM AwakeCorrect == Spec => []SomeoneAwake
<1>1. ASSUME IInv, NoLostWakeup PROVE SomeoneAwake
  <2> SUFFICES ASSUME NEW p \in Producers, NEW c \in Consumers,
                      \A t \in Threads : pc[t] = "sleep"
               PROVE FALSE
    BY DEF SomeoneAwake
  <2>1. \A t \in Producers \cup Consumers : pc[t] = "sleep"
    BY DEF Threads
  <2>2. p \in notFull /\ c \in notEmpty
    BY <1>1, <2>1 DEF IInv, MutexInv
  <2>3. /\ {t \in Producers : pc[t] \in {"lock", "check", "advance"}} = {}
        /\ {t \in Consumers : pc[t] = "signal"} = {}
        /\ {t \in Consumers : pc[t] \in {"lock", "check", "advance"}} = {}
        /\ {t \in Producers : pc[t] = "signal"} = {}
    BY <2>1
  <2>4. Cardinality({}) = 0
    BY FS_EmptySet
  <2>5. notFull # {} /\ notEmpty # {}
    BY <2>2
  <2>6. Capacity - count <= 0 + 0 /\ count <= 0 + 0
    BY <1>1, <2>3, <2>4, <2>5 DEF NoLostWakeup
  <2>7. count \in Nat
    BY <1>1 DEF IInv, TypeOK
  <2> QED BY <2>6, <2>7, CapacityAssumption
<1> QED BY <1>1, Invariance, WakeupCorrect, PTL

-----------------------------------------------------------------------------
(* The refinement.  Contents(s, f, k): the k frames of ring s from slot f. *)
Contents(s, f, k) == [n \in 1 .. k |-> s[(f + (n - 1)) % Capacity]]

Value == Frame \cup {NoFrame}

LEMMA ContentsSeq ==
  ASSUME NEW s \in [Slots -> Value], NEW f \in Slots, NEW k \in 0 .. Capacity
  PROVE  /\ Contents(s, f, k) \in Seq(Value)
         /\ Len(Contents(s, f, k)) = k
         /\ \A n \in 1 .. k : Contents(s, f, k)[n] = s[(f + (n - 1)) % Capacity]
<1>1. k \in Nat /\ \A n \in 1 .. k : n - 1 \in 0 .. Capacity
  BY CapacityAssumption
<1>2. \A n \in 1 .. k : s[(f + (n - 1)) % Capacity] \in Value
  BY <1>1, Wrap
<1>3. Contents(s, f, k) \in [1 .. k -> Value]
  BY <1>2 DEF Contents
<1>4. Contents(s, f, k) \in Seq(Value)
  BY <1>1, <1>3, SeqDef
<1>5. DOMAIN Contents(s, f, k) = 1 .. k
  BY DEF Contents
<1> QED BY <1>1, <1>4, <1>5, LenProperties DEF Contents

(* What counting one more frame does to the contents of the ring.          *)
LEMMA ContentsAppend ==
  ASSUME NEW s \in [Slots -> Value], NEW f \in Slots, NEW k \in 0 .. Capacity - 1
  PROVE  Contents(s, f, k + 1) = Append(Contents(s, f, k), s[(f + k) % Capacity])
<1> DEFINE new == s[(f + k) % Capacity]
           old == Contents(s, f, k)
<1>1. k \in 0 .. Capacity /\ k + 1 \in 0 .. Capacity /\ k \in Nat
  BY CapacityAssumption
<1>2. /\ old \in Seq(Value) /\ Len(old) = k
      /\ \A n \in 1 .. k : old[n] = s[(f + (n - 1)) % Capacity]
  BY <1>1, ContentsSeq
<1>3. /\ Contents(s, f, k + 1) \in Seq(Value) /\ Len(Contents(s, f, k + 1)) = k + 1
      /\ \A n \in 1 .. k + 1 : Contents(s, f, k + 1)[n] = s[(f + (n - 1)) % Capacity]
  BY <1>1, ContentsSeq
<1>4. new \in Value
  BY <1>1, Wrap
<1> HIDE DEF old, new
<1>5. /\ Append(old, new) \in Seq(Value) /\ Len(Append(old, new)) = k + 1
      /\ \A n \in 1 .. k : Append(old, new)[n] = old[n]
      /\ Append(old, new)[k + 1] = new
  BY <1>1, <1>2, <1>4, AppendProperties
<1>6. ASSUME NEW n \in 1 .. k + 1
      PROVE  Contents(s, f, k + 1)[n] = Append(old, new)[n]
  <2>1. CASE n \in 1 .. k
    BY <1>2, <1>3, <1>5, <2>1
  <2>2. CASE n = k + 1
    <3>1. n - 1 = k
      BY <1>1, <2>2
    <3> QED BY <1>3, <1>5, <2>2, <3>1 DEF new
  <2>3. n \in 1 .. k \/ n = k + 1
    BY <1>1
  <2> QED BY <2>1, <2>2, <2>3
<1>7. Contents(s, f, k + 1) = Append(old, new)
  BY <1>3, <1>5, <1>6, SeqEqual
<1> QED BY <1>7 DEF old, new

(* What moving front past the oldest frame does to it.                     *)
LEMMA ContentsTail ==
  ASSUME NEW s \in [Slots -> Value], NEW f \in Slots, NEW k \in 1 .. Capacity
  PROVE  /\ Contents(s, f, k) # <<>>
         /\ Head(Contents(s, f, k)) = s[f]
         /\ Tail(Contents(s, f, k)) = Contents(s, (f + 1) % Capacity, k - 1)
<1> DEFINE old == Contents(s, f, k)
           g == (f + 1) % Capacity
           new == Contents(s, g, k - 1)
<1>1. k \in 0 .. Capacity /\ k - 1 \in 0 .. Capacity /\ k \in Nat /\ k - 1 \in Nat
  BY CapacityAssumption
<1>2. g \in Slots /\ g = IF f + 1 = Capacity THEN 0 ELSE f + 1
  BY NextSlot
<1> HIDE DEF g
<1>3. /\ old \in Seq(Value) /\ Len(old) = k
      /\ \A n \in 1 .. k : old[n] = s[(f + (n - 1)) % Capacity]
  BY <1>1, ContentsSeq
<1>4. /\ new \in Seq(Value) /\ Len(new) = k - 1
      /\ \A n \in 1 .. k - 1 : new[n] = s[(g + (n - 1)) % Capacity]
  BY <1>1, <1>2, ContentsSeq
<1> HIDE DEF old, new
<1>5. old # <<>>
  BY <1>1, <1>3, EmptySeq
<1>6. /\ Tail(old) \in Seq(Value) /\ Len(Tail(old)) = k - 1
      /\ \A n \in 1 .. k - 1 : Tail(old)[n] = old[n + 1]
  BY <1>1, <1>3, <1>5, HeadTailProperties
<1>7. Head(old) = s[f]
  <2>1. (f + (1 - 1)) % Capacity = f
    BY CapacityAssumption DEF Slots
  <2>2. 1 \in 1 .. k
    BY <1>1
  <2>3. Head(old) = old[1]
    BY <1>3, <1>5
  <2> QED BY <1>3, <2>1, <2>2, <2>3
<1>8. ASSUME NEW n \in 1 .. k - 1
      PROVE  Tail(old)[n] = new[n]
  <2>1. n \in 0 .. Capacity /\ n - 1 \in 0 .. Capacity /\ n + 1 \in 1 .. k
    BY <1>1, CapacityAssumption
  <2>2. (f + n) % Capacity = IF f + n < Capacity THEN f + n ELSE f + n - Capacity
    BY <2>1, Wrap
  <2>3. (g + (n - 1)) % Capacity =
          IF g + (n - 1) < Capacity THEN g + (n - 1) ELSE g + (n - 1) - Capacity
    BY <1>2, <2>1, Wrap
  <2>4. (g + (n - 1)) % Capacity = (f + n) % Capacity
    BY <1>2, <2>1, <2>2, <2>3, CapacityAssumption DEF Slots
  <2>5. old[n + 1] = s[(f + n) % Capacity]
    <3>1. (n + 1) - 1 = n
      BY <2>1
    <3> QED BY <1>3, <2>1, <3>1
  <2> QED BY <1>4, <1>6, <2>4, <2>5
<1>9. Tail(old) = new
  BY <1>4, <1>6, <1>8, SeqEqual
<1> QED BY <1>5, <1>7, <1>9 DEF old, new, g

(* Writing a slot that holds no queued frame does not change the contents. *)
LEMMA ContentsCopy ==
  ASSUME NEW s \in [Slots -> Value], NEW t \in [Slots -> Value], NEW r \in Slots,
         \A i \in Slots \ {r} : t[i] = s[i],
         NEW f \in Slots, NEW k \in 0 .. Capacity,
         \A n \in 0 .. k - 1 : (f + n) % Capacity # r
  PROVE  Contents(t, f, k) = Contents(s, f, k)
<1>1. k \in Nat /\ k <= Capacity /\ Capacity \in Nat
  BY CapacityAssumption
<1>2. ASSUME NEW n \in 1 .. k
      PROVE  t[(f + (n - 1)) % Capacity] = s[(f + (n - 1)) % Capacity]
  <2>1. n - 1 \in 0 .. k - 1 /\ n - 1 \in 0 .. Capacity
    BY <1>1
  <2>2. (f + (n - 1)) % Capacity \in Slots
    BY <2>1, Wrap
  <2> QED BY <2>1, <2>2
<1> QED BY <1>2 DEF Contents

LEMMA ItemsAreContents == Items = Contents(slot, front, count)
  BY DEF Items, Contents, Pos

LEMMA FifoInit == Init => Fifo!Init
<1> SUFFICES ASSUME Init PROVE Fifo!Init
  OBVIOUS
<1>1. Items = <<>>
  <2>1. /\ slot \in [Slots -> Value] /\ front \in Slots
        /\ count \in 0 .. Capacity /\ count = 0
    BY CapacityAssumption DEF Init, Slots, Value
  <2>2. Items \in Seq(Value) /\ Len(Items) = 0
    BY <2>1, ContentsSeq, ItemsAreContents
  <2> QED BY <2>2, EmptySeq
<1>2. Offered = [p \in Producers |-> NoFrame]
  BY DEF Init, Offered, Threads
<1>3. Taken = [c \in Consumers |-> NoFrame]
  BY DEF Init, Taken, Threads
<1> QED BY <1>1, <1>2, <1>3 DEF Fifo!Init

(* A step that moves a thread between two points on the same side of the   *)
(* hand-over, and leaves the ring alone, is invisible in the channel.      *)
LEMMA FifoStutter ==
  ASSUME Items' = Items, Offered' = Offered, Taken' = Taken
  PROVE  [Fifo!Next]_(Fifo!vars)
  BY DEF Fifo!vars

LEMMA FifoStep == IInv /\ [Next]_vars => [Fifo!Next]_(Fifo!vars)
<1> SUFFICES ASSUME IInv, [Next]_vars PROVE [Fifo!Next]_(Fifo!vars)
  OBVIOUS
<1> USE ThreadsAssumption, FrameAssumption
    DEF IInv, TypeOK, MutexInv, CopiesInv, Threads, Goto, ring, conds, Offered, Taken
<1> DEFINE Same == slot' = slot /\ front' = front /\ count' = count
<1>same. Same => Items' = Items
  BY DEF Items, Pos
<1>1. ASSUME NEW t \in Threads, Lock(t) PROVE [Fifo!Next]_(Fifo!vars)
  <2>1. Same /\ Offered' = Offered /\ Taken' = Taken
    BY <1>1 DEF Lock
  <2> QED BY <1>same, <2>1, FifoStutter
<1>3. ASSUME NEW t \in Threads, SpuriousWakeup(t) PROVE [Fifo!Next]_(Fifo!vars)
  <2>1. Same /\ Offered' = Offered /\ Taken' = Taken
    BY <1>3 DEF SpuriousWakeup
  <2> QED BY <1>same, <2>1, FifoStutter
<1>2. ASSUME NEW t \in Threads, Unlock(t) PROVE [Fifo!Next]_(Fifo!vars)
  <2>1. Same /\ Offered' = Offered
    BY <1>2 DEF Unlock
  <2>2. CASE t \in Producers
    <3>1. Taken' = Taken
      BY <1>2, <2>2 DEF Unlock
    <3> QED BY <1>same, <2>1, <3>1, FifoStutter
  <2>3. CASE t \in Consumers
    <3>1. Taken' = [Taken EXCEPT ![t] = NoFrame] /\ Taken[t] # NoFrame
      BY <1>2, <2>3 DEF Unlock
    <3>2. Fifo!Consume(t)
      BY <1>same, <2>1, <3>1 DEF Fifo!Consume
    <3> QED BY <2>3, <3>2 DEF Fifo!Next
  <2> QED BY <2>2, <2>3
<1>4. ASSUME NEW p \in Producers, NEW f \in Frame, EnqCall(p, f)
      PROVE  [Fifo!Next]_(Fifo!vars)
  <2>1. Same /\ Taken' = Taken
    BY <1>4 DEF EnqCall
  <2>2. Offered[p] = NoFrame /\ Offered' = [Offered EXCEPT ![p] = f]
    BY <1>4 DEF EnqCall
  <2>3. Fifo!Offer(p, f)
    BY <1>same, <2>1, <2>2 DEF Fifo!Offer
  <2> QED BY <2>3 DEF Fifo!Next
<1>5. ASSUME NEW p \in Producers, EnqWait(p) PROVE [Fifo!Next]_(Fifo!vars)
  <2>1. Same /\ Offered' = Offered /\ Taken' = Taken
    BY <1>5 DEF EnqWait
  <2> QED BY <1>same, <2>1, FifoStutter
<1>6. ASSUME NEW p \in Producers, EnqCopy(p) PROVE [Fifo!Next]_(Fifo!vars)
  <2>1. Offered' = Offered /\ Taken' = Taken
    BY <1>6 DEF EnqCopy
  <2>2. /\ slot' = [slot EXCEPT ![rear] = arg[p]] /\ front' = front /\ count' = count
        /\ count < Capacity
    BY <1>6, CapacityAssumption DEF EnqCopy
  <2>3. \A n \in 0 .. count - 1 : (front + n) % Capacity # rear
    BY <2>2, RearIsFree DEF Pos
  <2>4. Items' = Items
    <3>1. /\ slot \in [Slots -> Value] /\ slot' \in [Slots -> Value]
          /\ front \in Slots /\ count \in 0 .. Capacity /\ rear \in Slots
      BY <2>2 DEF Value
    <3>2. \A i \in Slots \ {rear} : slot'[i] = slot[i]
      BY <2>2
    <3>3. Contents(slot', front, count) = Contents(slot, front, count)
      BY <2>3, <3>1, <3>2, ContentsCopy
    <3> QED BY <2>2, <3>3 DEF Items, Contents, Pos
  <2> QED BY <2>1, <2>4, FifoStutter
<1>7. ASSUME NEW p \in Producers, EnqAdvance(p) PROVE [Fifo!Next]_(Fifo!vars)
  <2>1. Taken' = Taken
    BY <1>7 DEF EnqAdvance
  <2>2. /\ Offered[p] = arg[p] /\ arg[p] # NoFrame
        /\ Offered' = [Offered EXCEPT ![p] = NoFrame]
    BY <1>7 DEF EnqAdvance
  <2>3. /\ slot' = slot /\ front' = front /\ count' = count + 1
        /\ count < Capacity /\ slot[rear] = arg[p]
    BY <1>7 DEF EnqAdvance
  <2>4. count \in 0 .. Capacity - 1
    BY <2>3, CapacityAssumption
  <2>5. Items' = Append(Items, arg[p])
    <3>1. Contents(slot, front, count + 1)
            = Append(Contents(slot, front, count), slot[(front + count) % Capacity])
      BY <2>4, ContentsAppend DEF Value
    <3>2. rear = (front + count) % Capacity
      BY DEF RingConsistent, Pos
    <3>3. Items' = Contents(slot, front, count + 1)
      BY <2>3 DEF Items, Contents, Pos
    <3> QED BY <2>3, <3>1, <3>2, <3>3, ItemsAreContents
  <2>6. Len(Items) < Capacity
    BY <2>3, ContentsSeq, ItemsAreContents DEF Value
  <2>7. Fifo!Accept(p)
    BY <2>1, <2>2, <2>5, <2>6 DEF Fifo!Accept
  <2> QED BY <2>7 DEF Fifo!Next
<1>8. ASSUME NEW p \in Producers, EnqSignal(p) PROVE [Fifo!Next]_(Fifo!vars)
  <2>1. Same /\ Offered' = Offered /\ Taken' = Taken
    BY <1>8 DEF EnqSignal
  <2> QED BY <1>same, <2>1, FifoStutter
<1>9. ASSUME NEW c \in Consumers, DeqCall(c) PROVE [Fifo!Next]_(Fifo!vars)
  <2>1. Same /\ Offered' = Offered /\ Taken' = Taken
    BY <1>9 DEF DeqCall
  <2> QED BY <1>same, <2>1, FifoStutter
<1>10. ASSUME NEW c \in Consumers, DeqWait(c) PROVE [Fifo!Next]_(Fifo!vars)
  <2>1. Same /\ Offered' = Offered /\ Taken' = Taken
    BY <1>10 DEF DeqWait
  <2> QED BY <1>same, <2>1, FifoStutter
<1>11. ASSUME NEW c \in Consumers, DeqCopy(c) PROVE [Fifo!Next]_(Fifo!vars)
  <2>1. Same /\ Offered' = Offered /\ Taken' = Taken
    BY <1>11 DEF DeqCopy
  <2> QED BY <1>same, <2>1, FifoStutter
<1>12. ASSUME NEW c \in Consumers, DeqAdvance(c) PROVE [Fifo!Next]_(Fifo!vars)
  <2>1. Offered' = Offered
    BY <1>12 DEF DeqAdvance
  <2>2. Taken[c] = NoFrame /\ Taken' = [Taken EXCEPT ![c] = arg[c]]
    BY <1>12 DEF DeqAdvance
  <2>3. /\ slot' = slot /\ front' = (front + 1) % Capacity /\ count' = count - 1
        /\ count > 0 /\ arg[c] = slot[front]
    BY <1>12 DEF DeqAdvance
  <2>4. count \in 1 .. Capacity
    BY <2>3, CapacityAssumption
  <2>5. /\ Contents(slot, front, count) # <<>>
        /\ Head(Contents(slot, front, count)) = slot[front]
        /\ Tail(Contents(slot, front, count))
             = Contents(slot, (front + 1) % Capacity, count - 1)
    BY <2>4, ContentsTail DEF Value
  <2>6. Items' = Contents(slot, (front + 1) % Capacity, count - 1)
    BY <2>3 DEF Items, Contents, Pos
  <2>7. Fifo!Deliver(c)
    BY <2>1, <2>2, <2>3, <2>5, <2>6, ItemsAreContents DEF Fifo!Deliver
  <2> QED BY <2>7 DEF Fifo!Next
<1>13. ASSUME NEW c \in Consumers, DeqSignal(c) PROVE [Fifo!Next]_(Fifo!vars)
  <2>1. Same /\ Offered' = Offered /\ Taken' = Taken
    BY <1>13 DEF DeqSignal
  <2> QED BY <1>same, <2>1, FifoStutter
<1>14. CASE UNCHANGED vars
  <2>1. Same /\ Offered' = Offered /\ Taken' = Taken
    BY <1>14 DEF vars
  <2> QED BY <1>same, <2>1, FifoStutter
<1> QED
  BY <1>1, <1>2, <1>3, <1>4, <1>5, <1>6, <1>7, <1>8, <1>9, <1>10, <1>11,
     <1>12, <1>13, <1>14 DEF Next, Enqueue, Dequeue

(* The queue implements the bounded first-in first-out channel: whatever   *)
(* enqueue accepts, dequeue returns once, whole and in order.              *)
THEOREM Refinement == Spec => FifoSpec
  BY FifoInit, FifoStep, Invariance, PTL DEF Spec, FifoSpec, Fifo!Spec
=============================================================================
