------------------------------ MODULE StreamLog -----------------------------
(***************************************************************************)
(* What the video stream of an RTSP session promises its readers: packets  *)
(* are appended to a log that keeps a bounded window of the newest ones,   *)
(* and every subscriber is sent the packets one after the other from the   *)
(* moment it joined, skipping only packets that left the window before it  *)
(* got them.                                                               *)
(***************************************************************************)
EXTENDS Integers

CONSTANTS
  Readers,  \* who may subscribe
  Window,   \* packets the log can hold
  Gone      \* sent[c] of a reader not subscribed; no number

VARIABLES
  next,    \* number of the next packet
  oldest,  \* number of the oldest packet of the window
  sent     \* number of the newest packet sent to (or over before) each reader

vars == <<next, oldest, sent>>

Init ==
  /\ next = 1 /\ oldest = 1
  /\ sent = [c \in Readers |-> Gone]

Append ==
  /\ next - oldest < Window
  /\ next' = next + 1
  /\ UNCHANGED <<oldest, sent>>

Discard ==
  /\ oldest < next
  /\ oldest' = oldest + 1
  /\ UNCHANGED <<next, sent>>

Join(c) ==
  /\ sent' = [sent EXCEPT ![c] = next - 1]
  /\ UNCHANGED <<next, oldest>>

Leave(c) ==
  /\ sent' = [sent EXCEPT ![c] = Gone]
  /\ UNCHANGED <<next, oldest>>

(* The packet c is due next: the one after the last, if it is still there. *)
Due(c) == IF sent[c] + 1 < oldest THEN oldest ELSE sent[c] + 1

(* A subscriber is sent the packet it is due.                              *)
Deliver(c) ==
  /\ sent[c] # Gone
  /\ Due(c) < next
  /\ sent' = [sent EXCEPT ![c] = Due(c)]
  /\ UNCHANGED <<next, oldest>>

Next == Append \/ Discard \/ \E c \in Readers : Join(c) \/ Leave(c) \/ Deliver(c)

Spec == Init /\ [][Next]_vars
=============================================================================
