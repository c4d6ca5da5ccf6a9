----------------------------- MODULE FrameFifo ------------------------------
(***************************************************************************)
(* What the frame queue between the capture thread and the RTSP thread     *)
(* promises: a bounded first-in first-out channel.  A producer offers one  *)
(* frame at a time and is held until the channel accepts it; a consumer    *)
(* receives the oldest accepted frame.  Nothing is lost, duplicated,       *)
(* reordered or torn, and nobody drops a frame because the channel is full.*)
(*                                                                         *)
(* This is the abstract specification; FrameQueue.tla is the mutex and     *)
(* condition-variable code that implements it.                             *)
(***************************************************************************)
EXTENDS Naturals, Sequences

CONSTANTS
  Producers,   \* threads that call enqueue
  Consumers,   \* threads that call dequeue
  Frame,       \* encoded frames
  NoFrame,     \* "no frame here"
  Capacity     \* slots of the ring

VARIABLES
  items,       \* accepted frames, oldest first
  offered,     \* the frame each producer waits to hand over, or NoFrame
  taken        \* the frame each consumer has just received, or NoFrame

vars == <<items, offered, taken>>

Init ==
  /\ items = <<>>
  /\ offered = [p \in Producers |-> NoFrame]
  /\ taken = [c \in Consumers |-> NoFrame]

Offer(p, f) ==
  /\ offered[p] = NoFrame
  /\ offered' = [offered EXCEPT ![p] = f]
  /\ UNCHANGED <<items, taken>>

Accept(p) ==
  /\ offered[p] # NoFrame
  /\ Len(items) < Capacity
  /\ items' = Append(items, offered[p])
  /\ offered' = [offered EXCEPT ![p] = NoFrame]
  /\ UNCHANGED taken

Deliver(c) ==
  /\ taken[c] = NoFrame
  /\ items # <<>>
  /\ taken' = [taken EXCEPT ![c] = Head(items)]
  /\ items' = Tail(items)
  /\ UNCHANGED offered

Consume(c) ==
  /\ taken[c] # NoFrame
  /\ taken' = [taken EXCEPT ![c] = NoFrame]
  /\ UNCHANGED <<items, offered>>

Next ==
  \/ \E p \in Producers : Accept(p) \/ \E f \in Frame : Offer(p, f)
  \/ \E c \in Consumers : Deliver(c) \/ Consume(c)

Spec == Init /\ [][Next]_vars

(* A channel with room accepts, a channel with frames delivers.            *)
FairSpec ==
  /\ Spec
  /\ WF_vars(\E p \in Producers : Accept(p))
  /\ WF_vars(\E c \in Consumers : Deliver(c))
  /\ \A c \in Consumers : WF_vars(Consume(c))
=============================================================================
