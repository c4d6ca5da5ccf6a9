----------------------------- MODULE RtspStream -----------------------------
(***************************************************************************)
(* librtsp/rtsp_demo.c: the video stream of a session and its readers.     *)
(* rtsp_tx_video packs a frame into the packet ring, throwing the oldest   *)
(* packets away when it needs their slots; every playing connection reads  *)
(* the ring at its own rtp->streamq_index; SETUP, PLAY, PAUSE, TEARDOWN    *)
(* and a lost connection move readers in and out.                          *)
(*                                                                         *)
(* All of it runs on the RTSP thread, so a request is served only between  *)
(* two calls of rtsp_tx_video (pc = "idle").  The program has video only:  *)
(* rtsp_set_audio is never called and artp stays NULL.                     *)
(*                                                                         *)
(* Packets are numbered in the order they are encoded; next is the number  *)
(* of the next one.  last[c] is a history variable: the number of the      *)
(* newest packet c was sent, or that was already over when c joined.       *)
(***************************************************************************)
EXTENDS Integers, FiniteSets, StreamQueue

CONSTANTS
  Conns,       \* client connections
  NoRtp,       \* cc->vrtp == NULL
  MaxReserve,  \* VRTP_MAX_NBPKTS
  MaxPackets   \* bound on the packets ever encoded

ASSUME ReserveAssumption == MaxReserve \in 1 .. NbPkts - 1
ASSUME NoRtpAssumption == NoRtp \notin Nat
ASSUME PacketsAssumption == MaxPackets \in Nat

VARIABLES
  head, tail,  \* of s->vstreamq
  num,         \* which packet each slot holds, 0 for none yet
  next,        \* number of the next packet
  pc,          \* where rtsp_tx_video is, "idle" outside
  reserved,    \* slots reserved so far in this call (i)
  need,        \* slots this frame asks for (count, first half)
  made,        \* packets the encoder produced (count, second half)
  state,       \* cc->state, "NONE" when there is no such connection
  index,       \* cc->vrtp->streamq_index, NoRtp without vrtp
  last         \* history: newest packet sent to the connection

queue == <<head, tail, num, next>>
call == <<pc, reserved, need, made>>
conn == <<state, index, last>>
vars == <<queue, call, conn>>

Init ==
  /\ head = 0 /\ tail = 0
  /\ num = [i \in Slots |-> 0]
  /\ next = 1
  /\ pc = "idle" /\ reserved = 0 /\ need = 0 /\ made = 0
  /\ state = [c \in Conns |-> "NONE"]
  /\ index = [c \in Conns |-> NoRtp]
  /\ last = [c \in Conns |-> 0]

InUse(i) == Inused(head, tail, i)

Reading(c) == state[c] = "PLAYING" /\ index[c] # NoRtp

(* One turn of the loop of rtsp_tx_video_packet: the packet c is at goes   *)
(* out whole, and c moves on to the next.  A packet the socket does not    *)
(* take ends the loop and leaves c where it is.                            *)
Send(c) ==
  /\ Reading(c)
  /\ InUse(index[c])
  /\ index' = [index EXCEPT ![c] = NextIndex(@)]
  /\ last' = [last EXCEPT ![c] = num[index[c]]]
  /\ UNCHANGED <<queue, call, state>>

-----------------------------------------------------------------------------
(* rtsp_tx_video.  A frame that asks for n packets arrives.                *)
TxStart(n) ==
  /\ pc = "idle"
  /\ next + n <= MaxPackets + 1
  /\ pc' = "reserve"
  /\ need' = n
  /\ reserved' = 0
  /\ made' = 0
  /\ UNCHANGED <<queue, conn>>

(* One turn of the loop that gets free slots after tail: the oldest packet *)
(* goes when the slot after this one is head.                              *)
TxReserve ==
  /\ pc = "reserve"
  /\ reserved < need
  /\ head' = IF NextIndex((tail + reserved) % NbPkts) = head
             THEN Popped(head, tail) ELSE head
  /\ reserved' = reserved + 1
  /\ UNCHANGED <<tail, num, next, pc, need, made, conn>>

(* Mutation of TxFixSlow: a reader whose packet went is moved to tail.     *)
TxFixSlowToTail ==
  /\ pc = "reserve"
  /\ reserved = need
  /\ index' = [c \in Conns |->
                 IF Reading(c) /\ ~InUse(index[c]) /\ index[c] # tail
                 THEN tail ELSE index[c]]
  /\ pc' = "encode"
  /\ UNCHANGED <<queue, reserved, need, made, state, last>>

(* A reader whose packet went is moved to the oldest packet that is left.  *)
TxFixSlow ==
  /\ pc = "reserve"
  /\ reserved = need
  /\ index' = [c \in Conns |->
                 IF Reading(c) /\ ~InUse(index[c]) /\ index[c] # tail
                 THEN head ELSE index[c]]
  /\ pc' = "encode"
  /\ UNCHANGED <<queue, reserved, need, made, state, last>>

(* Mutation of TxEncode: does not stop at the end of packets[].            *)
TxEncodeOverrun(k, ok) ==
  /\ pc = "encode"
  /\ num' = [i \in Slots |-> IF Distance(tail, i) < k
                             THEN next + Distance(tail, i) ELSE num[i]]
  /\ made' = IF ok THEN k ELSE 0
  /\ pc' = IF ok THEN "push" ELSE "idle"
  /\ UNCHANGED <<head, tail, next, reserved, need, conn>>

(* Mutation of TxEncode: every reserved slot is pushed, filled or not.     *)
TxEncodeAll(k, ok) ==
  /\ pc = "encode"
  /\ k <= reserved
  /\ num' = [i \in Slots |-> IF Distance(tail, i) < k
                             THEN next + Distance(tail, i) ELSE num[i]]
  /\ made' = IF ok THEN reserved ELSE 0
  /\ pc' = IF ok THEN "push" ELSE "idle"
  /\ UNCHANGED <<head, tail, next, reserved, need, conn>>

(* The encoder fills k of the reserved slots (none when no NAL unit is     *)
(* found), and either finishes the frame or fails on a NAL unit: then      *)
(* rtsp_tx_video returns and nothing is pushed.                            *)
TxEncode(k, ok) ==
  /\ pc = "encode"
  /\ k <= reserved
  /\ num' = [i \in Slots |-> IF Distance(tail, i) < k
                             THEN next + Distance(tail, i) ELSE num[i]]
  /\ made' = IF ok THEN k ELSE 0
  /\ pc' = IF ok THEN "push" ELSE "idle"
  /\ UNCHANGED <<head, tail, next, reserved, need, conn>>

(* One turn of the loop that pushes the packets.                           *)
TxPush ==
  /\ pc = "push"
  /\ made > 0
  /\ tail' = Pushed(head, tail)
  /\ next' = next + 1
  /\ made' = made - 1
  /\ UNCHANGED <<head, num, pc, reserved, need, conn>>

(* First send, after the pushes: rtsp_tx_video_packet for every playing    *)
(* connection, each as far as its socket takes packets; then the call      *)
(* returns.                                                                *)
TxSend(c) ==
  /\ pc = "push"
  /\ made = 0
  /\ Send(c)

TxReturn ==
  /\ pc = "push"
  /\ made = 0
  /\ pc' = "idle"
  /\ UNCHANGED <<queue, reserved, need, made, conn>>

-----------------------------------------------------------------------------
(* rtsp_do_event, between two frames.                                      *)

Connect(c) ==
  /\ pc = "idle"
  /\ state[c] = "NONE"
  /\ state' = [state EXCEPT ![c] = "INIT"]
  /\ UNCHANGED <<queue, call, index, last>>

(* A writable socket with packets waiting: the rest is sent.               *)
Resend(c) == pc = "idle" /\ Send(c)

(* SETUP replaces vrtp.  The new one is zeroed (streamq_index 0); only a   *)
(* connection that is already playing joins the stream at once.            *)
Setup(c) ==
  /\ pc = "idle"
  /\ state[c] # "NONE"
  /\ index' = [index EXCEPT ![c] = IF state[c] = "PLAYING" THEN tail ELSE 0]
  /\ state' = [state EXCEPT ![c] = IF @ = "INIT" THEN "READY" ELSE @]
  /\ last' = [last EXCEPT ![c] = next - 1]
  /\ UNCHANGED <<queue, call>>

(* SETUP whose new transport cannot be created: the old one is gone.       *)
SetupFails(c) ==
  /\ pc = "idle"
  /\ state[c] # "NONE"
  /\ index' = [index EXCEPT ![c] = NoRtp]
  /\ UNCHANGED <<queue, call, state, last>>

Play(c) ==
  /\ pc = "idle"
  /\ state[c] = "READY"
  /\ state' = [state EXCEPT ![c] = "PLAYING"]
  /\ index' = [index EXCEPT ![c] = IF @ # NoRtp THEN tail ELSE NoRtp]
  /\ last' = [last EXCEPT ![c] = next - 1]
  /\ UNCHANGED <<queue, call>>

Pause(c) ==
  /\ pc = "idle"
  /\ state[c] \in {"READY", "PLAYING"}
  /\ state' = [state EXCEPT ![c] = "READY"]
  /\ UNCHANGED <<queue, call, index, last>>

Teardown(c) ==
  /\ pc = "idle"
  /\ state[c] # "NONE"
  /\ state' = [state EXCEPT ![c] = "INIT"]
  /\ index' = [index EXCEPT ![c] = NoRtp]
  /\ UNCHANGED <<queue, call, last>>

(* rtsp_del_client_connection                                              *)
Disconnect(c) ==
  /\ pc = "idle"
  /\ state[c] # "NONE"
  /\ state' = [state EXCEPT ![c] = "NONE"]
  /\ index' = [index EXCEPT ![c] = NoRtp]
  /\ UNCHANGED <<queue, call, last>>

-----------------------------------------------------------------------------
Tx ==
  \/ TxReserve
  \/ TxFixSlow
  \/ \E k \in 0 .. MaxReserve, ok \in BOOLEAN : TxEncode(k, ok)
  \/ TxPush
  \/ \E c \in Conns : TxSend(c)
  \/ TxReturn

Next ==
  \/ \E n \in 1 .. MaxReserve : TxStart(n)
  \/ Tx
  \/ \E c \in Conns :
       \/ Connect(c) \/ Setup(c) \/ SetupFails(c) \/ Play(c) \/ Pause(c)
       \/ Teardown(c) \/ Disconnect(c) \/ Resend(c)

Spec == Init /\ [][Next]_vars

-----------------------------------------------------------------------------
TypeOK ==
  /\ head \in Slots /\ tail \in Slots
  /\ num \in [Slots -> Nat]
  /\ next \in Nat \ {0}
  /\ pc \in {"idle", "reserve", "encode", "push"}
  /\ need \in 0 .. MaxReserve
  /\ reserved \in 0 .. need
  /\ made \in 0 .. reserved
  /\ state \in [Conns -> {"NONE", "INIT", "READY", "PLAYING"}]
  /\ index \in [Conns -> Slots \cup {NoRtp}]
  /\ last \in [Conns -> Nat]

Count == Distance(head, tail)

(* The slots a call has reserved lie outside the packets in use, up to the *)
(* push of the last one: rtsp_tx_video never encodes into a packet a       *)
(* connection may still be reading, and streamq_push never finds the ring  *)
(* full.                                                                   *)
ReservedAreFree ==
  /\ pc \in {"reserve", "encode"} => Count + reserved <= NbPkts - 1
  /\ pc = "push" => Count + made <= NbPkts - 1

(* The ring holds the newest packets, one after the other: nothing is      *)
(* missing, doubled or overwritten between head and tail.                  *)
RingHoldsNewest ==
  /\ Count < next
  /\ \A i \in Slots : InUse(i) => num[i] = next - Distance(i, tail)

(* No packet a connection may still read is written over, and the ring     *)
(* never holds a packet that was not encoded into it.                      *)
RingSound == ReservedAreFree /\ RingHoldsNewest

(* Number of the packet connection c will be sent next, and of the oldest  *)
(* packet of the ring.                                                     *)
Position(c) == next - Distance(index[c], tail)
Oldest == next - Count

(* A playing connection is always at the oldest packet it has not been     *)
(* sent that the ring still holds: never at a packet it has been sent, and *)
(* past one it has not only when the ring had to throw that one away.      *)
(* While a call of rtsp_tx_video is still popping, the packet it is at may *)
(* be gone; TxFixSlow moves it before anything is written there.           *)
Delivery ==
  \A c \in Conns : Reading(c) =>
    /\ last[c] < Position(c)
    /\ Position(c) > last[c] + 1 => Position(c) <= Oldest
    /\ pc # "reserve" => Position(c) >= Oldest

(* The stream implements StreamLog: whatever the interleaving of frames,   *)
(* full sockets, failed encodings, SETUPs, PAUSEs and lost connections, a  *)
(* reader is sent every packet from its PLAY on, in order and once, except *)
(* those the ring threw away first.                                        *)
Log == INSTANCE StreamLog WITH
  Readers <- Conns,
  Window <- NbPkts - 1,
  Gone <- NoRtp,
  oldest <- Oldest,
  sent <- [c \in Conns |-> IF Reading(c) THEN last[c] ELSE NoRtp]

LogSpec == Log!Spec

=============================================================================
