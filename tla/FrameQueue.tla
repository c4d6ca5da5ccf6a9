----------------------------- MODULE FrameQueue -----------------------------
(***************************************************************************)
(* main/c_queue_frame.c: the global ring g_queue through which the camera  *)
(* capture callback (enqueue) hands encoded frames to the RTSP thread      *)
(* (dequeue).  One mutex, two condition variables.                         *)
(*                                                                         *)
(* A thread inside enqueue or dequeue is at one of                         *)
(*   "lock"     about to acquire the mutex (on entry, or on its way out of *)
(*              pthread_cond_wait)                                         *)
(*   "check"    holds the mutex, evaluates the condition of its while loop *)
(*   "sleep"    inside pthread_cond_wait, mutex released                   *)
(*   "advance"  has copied the frame to or from the slot, about to move    *)
(*              rear or front and count                                    *)
(*   "signal"   about to signal the other condition variable               *)
(*   "unlock"   about to release the mutex and return                      *)
(* and at "idle" outside.                                                  *)
(***************************************************************************)
EXTENDS Naturals, Sequences, FiniteSets

CONSTANTS
  Producers,    \* threads that call enqueue (the program has one)
  Consumers,    \* threads that call dequeue (the program has one)
  Frame,        \* encoded frames
  NoFrame,      \* contents of a slot no frame was copied into
  NoThread,     \* owner of a free mutex
  Capacity,     \* init_queue's capacity (100 in main)
  MaxSpurious   \* bound on spurious wakeups, so that they are finitely many

Threads == Producers \cup Consumers

ASSUME ThreadsAssumption ==
  /\ Producers \cap Consumers = {}
  /\ NoThread \notin Threads
ASSUME CapacityAssumption == Capacity \in Nat \ {0}
ASSUME FrameAssumption == NoFrame \notin Frame
ASSUME SpuriousAssumption == MaxSpurious \in Nat
ASSUME FiniteAssumption == IsFiniteSet(Producers) /\ IsFiniteSet(Consumers)

VARIABLES
  slot,       \* q->queue: the data of each slot
  front,      \* q->front
  rear,       \* q->rear
  count,      \* q->count
  holder,     \* owner of q->mutex, or NoThread
  notEmpty,   \* threads asleep on q->not_empty
  notFull,    \* threads asleep on q->not_full
  pc,         \* where each thread is
  arg,        \* enqueue's data argument, dequeue's local frame
  spurious    \* spurious wakeups so far

ring == <<slot, front, rear, count>>
conds == <<notEmpty, notFull>>
vars == <<ring, holder, conds, pc, arg, spurious>>

Slots == 0 .. Capacity - 1

Goto(t, from, to) ==
  /\ pc[t] = from
  /\ pc' = [pc EXCEPT ![t] = to]

(* init_queue: malloc leaves the slots unwritten.                          *)
Init ==
  /\ slot = [i \in Slots |-> NoFrame]
  /\ front = 0
  /\ rear = 0
  /\ count = 0
  /\ holder = NoThread
  /\ notEmpty = {}
  /\ notFull = {}
  /\ pc = [t \in Threads |-> "idle"]
  /\ arg = [t \in Threads |-> NoFrame]
  /\ spurious = 0

-----------------------------------------------------------------------------
(* The mutex.                                                              *)

Lock(t) ==
  /\ Goto(t, "lock", "check")
  /\ holder = NoThread
  /\ holder' = t
  /\ UNCHANGED <<ring, conds, arg, spurious>>

Unlock(t) ==
  /\ Goto(t, "unlock", "idle")
  /\ holder' = NoThread
  /\ UNCHANGED <<ring, conds, arg, spurious>>

(* pthread_cond_wait may return although nobody signalled.                 *)
SpuriousWakeup(t) ==
  /\ Goto(t, "sleep", "lock")
  /\ spurious < MaxSpurious
  /\ spurious' = spurious + 1
  /\ notEmpty' = notEmpty \ {t}
  /\ notFull' = notFull \ {t}
  /\ UNCHANGED <<ring, holder, arg>>

-----------------------------------------------------------------------------
(* enqueue(q, data, size), called by the capture callback.                 *)

EnqCall(p, f) ==
  /\ Goto(p, "idle", "lock")
  /\ arg' = [arg EXCEPT ![p] = f]
  /\ UNCHANGED <<ring, holder, conds, spurious>>

EnqWait(p) ==
  /\ Goto(p, "check", "sleep")
  /\ count = Capacity
  /\ notFull' = notFull \cup {p}
  /\ holder' = NoThread
  /\ UNCHANGED <<ring, notEmpty, arg, spurious>>

(* Mutation of EnqCopy: the full queue is not noticed.                     *)
EnqCopyUnchecked(p) ==
  /\ Goto(p, "check", "advance")
  /\ slot' = [slot EXCEPT ![rear] = arg[p]]
  /\ UNCHANGED <<front, rear, count, holder, conds, arg, spurious>>

EnqCopy(p) ==
  /\ Goto(p, "check", "advance")
  /\ count # Capacity
  /\ slot' = [slot EXCEPT ![rear] = arg[p]]
  /\ UNCHANGED <<front, rear, count, holder, conds, arg, spurious>>

EnqAdvance(p) ==
  /\ Goto(p, "advance", "signal")
  /\ rear' = (rear + 1) % Capacity
  /\ count' = count + 1
  /\ UNCHANGED <<slot, front, holder, conds, arg, spurious>>

(* Mutation of EnqSignal: no signal.                                       *)
EnqSignalForgotten(p) ==
  /\ Goto(p, "signal", "unlock")
  /\ UNCHANGED <<ring, holder, conds, arg, spurious>>

(* Mutation of EnqSignal: a signal only when the queue was empty, but asked *)
(* after count was incremented.                                            *)
EnqSignalIfEmptyNow(p) ==
  /\ pc[p] = "signal"
  /\ IF notEmpty = {} \/ count # 0
     THEN /\ pc' = [pc EXCEPT ![p] = "unlock"]
          /\ UNCHANGED notEmpty
     ELSE \E c \in notEmpty :
            /\ pc' = [pc EXCEPT ![p] = "unlock", ![c] = "lock"]
            /\ notEmpty' = notEmpty \ {c}
  /\ UNCHANGED <<ring, holder, notFull, arg, spurious>>

(* pthread_cond_signal(&q->not_empty): wakes one sleeper, if there is one; *)
(* it still has to get the mutex.                                          *)
EnqSignal(p) ==
  /\ pc[p] = "signal"
  /\ IF notEmpty = {}
     THEN /\ pc' = [pc EXCEPT ![p] = "unlock"]
          /\ UNCHANGED notEmpty
     ELSE \E c \in notEmpty :
            /\ pc' = [pc EXCEPT ![p] = "unlock", ![c] = "lock"]
            /\ notEmpty' = notEmpty \ {c}
  /\ UNCHANGED <<ring, holder, notFull, arg, spurious>>

-----------------------------------------------------------------------------
(* dequeue(q), called by the RTSP thread.                                  *)

DeqCall(c) ==
  /\ Goto(c, "idle", "lock")
  /\ UNCHANGED <<ring, holder, conds, arg, spurious>>

DeqWait(c) ==
  /\ Goto(c, "check", "sleep")
  /\ count = 0
  /\ notEmpty' = notEmpty \cup {c}
  /\ holder' = NoThread
  /\ UNCHANGED <<ring, notFull, arg, spurious>>

(* Mutation of DeqCopy: the empty queue is not noticed.                    *)
DeqCopyUnchecked(c) ==
  /\ Goto(c, "check", "advance")
  /\ arg' = [arg EXCEPT ![c] = slot[front]]
  /\ UNCHANGED <<ring, holder, conds, spurious>>

DeqCopy(c) ==
  /\ Goto(c, "check", "advance")
  /\ count # 0
  /\ arg' = [arg EXCEPT ![c] = slot[front]]
  /\ UNCHANGED <<ring, holder, conds, spurious>>

(* Mutation of DeqAdvance: count is not decremented.                       *)
DeqAdvanceKeepsCount(c) ==
  /\ Goto(c, "advance", "signal")
  /\ front' = (front + 1) % Capacity
  /\ UNCHANGED <<slot, rear, count, holder, conds, arg, spurious>>

DeqAdvance(c) ==
  /\ Goto(c, "advance", "signal")
  /\ front' = (front + 1) % Capacity
  /\ count' = count - 1
  /\ UNCHANGED <<slot, rear, holder, conds, arg, spurious>>

DeqSignal(c) ==
  /\ pc[c] = "signal"
  /\ IF notFull = {}
     THEN /\ pc' = [pc EXCEPT ![c] = "unlock"]
          /\ UNCHANGED notFull
     ELSE \E p \in notFull :
            /\ pc' = [pc EXCEPT ![c] = "unlock", ![p] = "lock"]
            /\ notFull' = notFull \ {p}
  /\ UNCHANGED <<ring, holder, notEmpty, arg, spurious>>

-----------------------------------------------------------------------------
Enqueue(p) ==
  EnqWait(p) \/ EnqCopy(p) \/ EnqAdvance(p) \/ EnqSignal(p)

Dequeue(c) ==
  DeqWait(c) \/ DeqCopy(c) \/ DeqAdvance(c) \/ DeqSignal(c)

Next ==
  \/ \E t \in Threads : Lock(t) \/ Unlock(t) \/ SpuriousWakeup(t)
  \/ \E p \in Producers : Enqueue(p) \/ \E f \in Frame : EnqCall(p, f)
  \/ \E c \in Consumers : Dequeue(c) \/ DeqCall(c)

Spec == Init /\ [][Next]_vars

(* A thread that can run does run, and the RTSP thread comes back for the  *)
(* next frame.  Weak fairness only: nothing says the mutex is handed out   *)
(* fairly, and the camera may stop producing.                              *)
Fairness ==
  /\ \A t \in Threads : WF_vars(Lock(t)) /\ WF_vars(Unlock(t))
  /\ \A p \in Producers : WF_vars(Enqueue(p))
  /\ \A c \in Consumers : WF_vars(Dequeue(c)) /\ WF_vars(DeqCall(c))

FairSpec == Spec /\ Fairness

-----------------------------------------------------------------------------
TypeOK ==
  /\ slot \in [Slots -> Frame \cup {NoFrame}]
  /\ front \in Slots
  /\ rear \in Slots
  /\ count \in 0 .. Capacity
  /\ holder \in Threads \cup {NoThread}
  /\ notEmpty \subseteq Consumers
  /\ notFull \subseteq Producers
  /\ pc \in [Threads ->
               {"idle", "lock", "check", "sleep", "advance", "signal", "unlock"}]
  /\ arg \in [Threads -> Frame \cup {NoFrame}]
  /\ spurious \in 0 .. MaxSpurious

Inside(t) == pc[t] \in {"check", "advance", "signal", "unlock"}

(* The mutex is owned by exactly the thread that is between lock and       *)
(* unlock, and a thread asleep in pthread_cond_wait is on the condition    *)
(* variable of its loop.                                                   *)
MutexInv ==
  /\ \A t \in Threads : Inside(t) <=> holder = t
  /\ \A p \in Producers : pc[p] = "sleep" <=> p \in notFull
  /\ \A c \in Consumers : pc[c] = "sleep" <=> c \in notEmpty

(* The n-th slot from the front, wrapping round.                           *)
Pos(n) == (front + n) % Capacity

(* front, rear and count of the ring always agree: count frames lie        *)
(* between front and rear, so a full and an empty ring are told apart.     *)
RingConsistent == rear = Pos(count)

(* The frames in the ring, oldest first.                                   *)
Items == [n \in 1 .. count |-> slot[Pos(n - 1)]]

(* No slot between front and rear is unwritten, and a copy in progress is  *)
(* of the frame it is meant to be: the producer's slot lies outside the    *)
(* frames still queued, the consumer's copy is the oldest of them.         *)
CopiesInv ==
  /\ \A n \in 0 .. count - 1 : slot[Pos(n)] # NoFrame
  /\ \A p \in Producers :
       /\ pc[p] # "idle" => arg[p] # NoFrame
       /\ pc[p] = "advance" => count < Capacity /\ slot[rear] = arg[p]
  /\ \A c \in Consumers :
       /\ pc[c] = "advance" => count > 0 /\ arg[c] = slot[front]
       /\ pc[c] \in {"signal", "unlock"} => arg[c] # NoFrame

(* The indices agree with the frames between them, and no thread that is   *)
(* between its copy and its move of an index can be overtaken by another.  *)
RingInv == RingConsistent /\ CopiesInv

(* No wakeup is lost.  While a producer sleeps on not_full, every free     *)
(* slot has somebody who will use it or pass it on: a producer that is     *)
(* awake and has not yet counted its frame, or a consumer about to signal. *)
(* The same for consumers and queued frames.                               *)
NoLostWakeup ==
  /\ notFull # {} =>
       Capacity - count <=
         Cardinality({p \in Producers : pc[p] \in {"lock", "check", "advance"}})
           + Cardinality({c \in Consumers : pc[c] = "signal"})
  /\ notEmpty # {} =>
       count <=
         Cardinality({c \in Consumers : pc[c] \in {"lock", "check", "advance"}})
           + Cardinality({p \in Producers : pc[p] = "signal"})

-----------------------------------------------------------------------------
(* The queue implements the bounded FIFO channel: a frame is accepted when *)
(* count is incremented and delivered when count is decremented.           *)
Offered ==
  [p \in Producers |->
     IF pc[p] \in {"lock", "check", "sleep", "advance"} THEN arg[p] ELSE NoFrame]
Taken ==
  [c \in Consumers |->
     IF pc[c] \in {"signal", "unlock"} THEN arg[c] ELSE NoFrame]

Fifo == INSTANCE FrameFifo
          WITH items <- Items, offered <- Offered, taken <- Taken

(* Every behaviour of the ring is one of the bounded FIFO channel: no      *)
(* frame is lost, duplicated, reordered or torn (enqueue, dequeue).        *)
FifoSpec == Fifo!Spec

(* The same with the channel's progress: room in the ring lets a waiting   *)
(* enqueue through, a frame in the ring reaches the RTSP thread.           *)
FifoFairSpec == Fifo!FairSpec
=============================================================================
