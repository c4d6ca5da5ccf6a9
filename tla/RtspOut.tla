------------------------------ MODULE RtspOut -------------------------------
(***************************************************************************)
(* librtsp/rtsp_demo.c: what leaves one client connection on its TCP       *)
(* socket.  RTSP responses (rtsp_send_msg) and interleaved RTP packets     *)
(* (rtsp_send_interlaced_frame) share the socket and one buffer, resbuf,   *)
(* for the part of a unit the non-blocking socket did not take.            *)
(*                                                                         *)
(* A byte is <<u, k>>: the k-th byte of the u-th unit the server tried to  *)
(* send.  A socket error is a send that takes nothing: the code treats it  *)
(* like EAGAIN but for the value it returns, which no caller acts on.      *)
(***************************************************************************)
EXTENDS Integers, Sequences

CONSTANTS
  HeaderLen,  \* the "$", channel, length prefix of a packet (4 bytes)
  MsgLens,    \* sizes of responses
  PktLens,    \* sizes of RTP packets
  BufSize,    \* RTSP_RESBUF_MAX_SIZ
  MaxUnits    \* bound on the units the server tries to send

ASSUME LensAssumption ==
  /\ HeaderLen \in Nat \ {0} /\ BufSize \in Nat /\ MaxUnits \in Nat
  /\ MsgLens \subseteq 1 .. BufSize
  /\ PktLens \subseteq 1 .. BufSize - HeaderLen   \* RTP_MAX_PKTSIZ + 4 = BufSize

VARIABLES
  wire,      \* bytes the socket has taken
  resbuf,    \* bytes kept for later: resbuf[resoff .. resoff + reslen - 1]
  tried,     \* units the server has tried to send
  reported   \* history: the bytes of the units the code reported as sent

outVars == <<wire, resbuf, tried, reported>>

OutInit == wire = <<>> /\ resbuf = <<>> /\ tried = 0 /\ reported = <<>>

Unit(len) == [k \in 1 .. len |-> <<tried + 1, k>>]
Report(len) == reported' = reported \o Unit(len)

Take(s, n) == SubSeq(s, 1, n)
Rest(s, n) == SubSeq(s, n + 1, Len(s))

(* The first block of both functions: what is pending goes first; when the *)
(* socket does not take all of it, nothing else is sent and the call gives *)
(* up.  A caller that gives up on a response drops it.                     *)
FlushBlocked(n) ==
  /\ tried < MaxUnits
  /\ n < Len(resbuf)
  /\ wire' = wire \o Take(resbuf, n)
  /\ resbuf' = Rest(resbuf, n)
  /\ tried' = tried + 1
  /\ UNCHANGED reported

(* Mutation of SendMsg: the response is queued behind what is pending.     *)
SendMsgQueued(len, n) ==
  /\ tried < MaxUnits
  /\ resbuf' = resbuf \o Unit(len)
  /\ tried' = tried + 1
  /\ Report(len)
  /\ UNCHANGED wire

(* rtsp_send_msg after the flush: the socket takes n of len bytes.         *)
SendMsg(len, n) ==
  /\ tried < MaxUnits
  /\ wire' = wire \o resbuf \o Take(Unit(len), n)
  /\ resbuf' = IF n > 0 THEN Rest(Unit(len), n) ELSE <<>>
  /\ tried' = tried + 1
  /\ IF n > 0 THEN Report(len) ELSE UNCHANGED reported

(* Mutation of SendHeaderPart: only the header's remainder is kept.        *)
SendHeaderPartNoData(len, h) ==
  /\ tried < MaxUnits
  /\ h < HeaderLen
  /\ wire' = wire \o resbuf \o Take(Unit(HeaderLen + len), h)
  /\ resbuf' = IF h > 0 THEN Rest(Unit(HeaderLen), h) ELSE <<>>
  /\ tried' = tried + 1
  /\ IF h > 0 THEN Report(HeaderLen + len) ELSE UNCHANGED reported

(* rtsp_send_interlaced_frame after the flush: the socket takes h bytes of *)
(* the header and, if that was all of it, n of the packet.                 *)
SendHeaderPart(len, h) ==
  /\ tried < MaxUnits
  /\ h < HeaderLen
  /\ wire' = wire \o resbuf \o Take(Unit(HeaderLen + len), h)
  /\ resbuf' = IF h > 0 THEN Rest(Unit(HeaderLen + len), h) ELSE <<>>
  /\ tried' = tried + 1
  /\ IF h > 0 THEN Report(HeaderLen + len) ELSE UNCHANGED reported

SendPacket(len, n) ==
  /\ tried < MaxUnits
  /\ wire' = wire \o resbuf \o Take(Unit(HeaderLen + len), HeaderLen + n)
  /\ resbuf' = Rest(Unit(HeaderLen + len), HeaderLen + n)
  /\ tried' = tried + 1
  /\ Report(HeaderLen + len)

OutNext ==
  \/ \E n \in 0 .. BufSize - 1 : FlushBlocked(n)
  \/ \E len \in MsgLens : \E n \in 0 .. len : SendMsg(len, n)
  \/ \E len \in PktLens :
       \/ \E h \in 0 .. HeaderLen - 1 : SendHeaderPart(len, h)
       \/ \E n \in 0 .. len : SendPacket(len, n)

OutSpec == OutInit /\ [][OutNext]_outVars

-----------------------------------------------------------------------------
Byte == (1 .. MaxUnits) \X (1 .. BufSize)

(* A remainder always fits resbuf: it is never stored behind another.      *)
OutTypeOK ==
  /\ wire \in Seq(Byte)
  /\ resbuf \in Seq(Byte) /\ Len(resbuf) <= BufSize
  /\ tried \in 0 .. MaxUnits
  /\ reported \in Seq(Byte)

(* What the socket has taken and what resbuf still holds are exactly the   *)
(* units reported as sent, whole and one after the other: the client never *)
(* sees a response inside a packet, half a unit followed by another, or a  *)
(* packet twice, however the socket cuts the sends.                        *)
Framing == wire \o resbuf = reported
=============================================================================
