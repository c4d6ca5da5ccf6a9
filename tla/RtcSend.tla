------------------------------ MODULE RtcSend -------------------------------
(***************************************************************************)
(* Sending one stream of the WebRTC push, libmetartccore6.  The publish    *)
(* thread cuts a frame into RTP packets (YangPushH264.c), each made in the *)
(* next buffer of a ring (YangRtpBuffer.c), noted for resending            *)
(* (YangPublishNackBuffer.c), encrypted where it lies and written to the   *)
(* socket (YangPush.c).  The socket thread looks up the packets a NACK     *)
(* names and encrypts and writes them again (YangPushStream.c).  Nothing   *)
(* but srtp's rtpLock, held for one encryption, keeps the two apart: the   *)
(* fields of a slot are stored and read one by one, and a buffer may be    *)
(* made anew while its old packet is being resent.                         *)
(*                                                                         *)
(* A packet is known by its number, counted from the first of the session; *)
(* its sequence is that number in 16 bits.  A payload is the number of     *)
(* times that its packet's key stream lies over it: srtp_protect applies   *)
(* the same one each time, so that twice is not at all.  It is Spoiled     *)
(* when only a part of it was encrypted.                                   *)
(***************************************************************************)
EXTENDS Integers

CONSTANTS
  Modulus,     \* sequences, 2^16
  Buffers,     \* bufLen: 1400 for video, 100 for sound
  Capacity,    \* of the queue: 1024 for video, 128 for sound
  MaxPayload,  \* kRtpMaxPayloadSize
  FrameSizes,  \* sizes of the frames the encoder delivers
  MaxPackets   \* bound on the packets made

ASSUME SendAssumption ==
  /\ Modulus \in Nat \ {0} /\ Buffers \in Nat \ {0} /\ Capacity \in Nat \ {0}
  /\ Modulus % Capacity = 0   \* seq & capacityIndex is seq % Capacity
  /\ MaxPayload \in Nat \ {0} /\ FrameSizes \subseteq Nat \ {0}
  /\ MaxPackets \in Nat

VARIABLES
  made,         \* packets made; videoSeq is made % Modulus
  buffers,      \* the packet in each buffer, its length and the layers over its payload
  queue,        \* what each slot names: a sequence, a buffer and a length
  pub,          \* where the publish thread is
  left, todo,   \* bytes and packets left of its frame
  unset,        \* fields of the slot it has not stored yet
  rcv,          \* where the socket thread is
  asked,        \* the packet it resends
  found, unread,   \* what it has read of the slot, and what it has not
  frame, out, failed,  \* history: size of the last frame, bytes of it written, a write failed
  checked,      \* history: packets made when the slot was looked at
  hit           \* history: the NACK that got at the newest packet

publisher == <<pub, left, todo, unset, frame, out, failed>>
receiver == <<rcv, asked, found, unread, checked>>
vars == <<made, buffers, queue, publisher, receiver, hit>>

Nobody == -1
Spoiled == 2
BufferNo == 0..Buffers - 1
SlotNo == 0..Capacity - 1
Field == {"payload", "nb", "seq"}
Seq16(k) == k % Modulus

\* mutant: the ring's index moves only with every other packet
BufferOfHalf(k) == ((k + 1) \div 2) % Buffers
\* The buffer and the slot of packet k: index is 1 when packet 0 is made.
BufferOf(k) == (k + 1) % Buffers
SlotOf(k) == Seq16(k) % Capacity

Init ==
  /\ made = 0
  /\ buffers = [b \in BufferNo |-> [no |-> Nobody, nb |-> 0, layers |-> 0]]
  /\ queue = [s \in SlotNo |-> [payload |-> Nobody, nb |-> 0, seq |-> 0]]
  /\ pub = "idle" /\ left = 0 /\ todo = 0 /\ unset = {}
  /\ rcv = "idle" /\ asked = 0 /\ found = [payload |-> 0, nb |-> 0] /\ unread = {}
  /\ frame = 0 /\ out = 0 /\ failed = FALSE /\ checked = 0 /\ hit = Nobody

\* srtp_protect over n bytes of the packet in b.
Layered(b, n) ==
  IF n = buffers[b].nb /\ buffers[b].layers # Spoiled THEN 1 - buffers[b].layers ELSE Spoiled

-----------------------------------------------------------------------------
(* The publish thread.                                                     *)

\* mutant: the piece that does not fill a packet is not counted
NumOfPacketDown(n) == IF n <= MaxPayload THEN 1 ELSE (n - 1) \div MaxPayload
\* A frame that fits goes as it is; one that does not goes in fragments, without
\* its first byte.  The count is none when that fills its packets to the byte.
FillsAll(n) == n > MaxPayload /\ (n - 1) % MaxPayload = 0
NumOfPacket(n) ==
  IF n <= MaxPayload THEN 1 ELSE IF FillsAll(n) THEN 0 ELSE 1 + (n - 1) \div MaxPayload
Whole(n) == IF n <= MaxPayload THEN n ELSE n - 1

Begin(n) ==
  /\ pub = "idle" /\ made + NumOfPacket(n) <= MaxPackets
  /\ left' = Whole(n) /\ todo' = NumOfPacket(n)
  /\ pub' = IF NumOfPacket(n) = 0 THEN "idle" ELSE "make"
  /\ frame' = n /\ out' = 0 /\ failed' = FALSE
  /\ UNCHANGED <<made, buffers, queue, unset, receiver, hit>>

\* mutant: the piece is not cut
PacketSizeUncut == left
PacketSize == IF left > MaxPayload THEN MaxPayload ELSE left

\* The next buffer is taken, whatever the socket thread is about to do with it,
\* and written to until Encoded.
Make ==
  /\ pub = "make" /\ pub' = "encode"
  /\ buffers' = [buffers EXCEPT ![BufferOf(made)] = [no |-> made, nb |-> PacketSize, layers |-> 0]]
  /\ made' = made + 1
  /\ left' = left - PacketSize /\ todo' = todo - 1
  /\ hit' = Nobody
  /\ UNCHANGED <<queue, unset, frame, out, failed, receiver>>

Encoded ==
  /\ pub = "encode" /\ pub' = "cache"
  /\ unset' = Field
  /\ UNCHANGED <<made, buffers, queue, left, todo, frame, out, failed, receiver, hit>>

\* yang_pubnackbuffer_set stores payload, nb and seq; without a lock, the other
\* thread may see them come in any order.
Cache(f) ==
  /\ pub = "cache" /\ f \in unset
  /\ LET b == BufferOf(made - 1)
         slot == [payload |-> b, nb |-> buffers[b].nb, seq |-> Seq16(made - 1)] IN
     queue' = [queue EXCEPT ![SlotOf(made - 1)][f] = slot[f]]
  /\ unset' = unset \ {f}
  /\ pub' = IF unset' = {} THEN "encrypt" ELSE "cache"
  /\ UNCHANGED <<made, buffers, left, todo, frame, out, failed, receiver, hit>>

Encrypt ==
  /\ pub = "encrypt" /\ pub' = "write"
  /\ LET b == BufferOf(made - 1) IN
     buffers' = [buffers EXCEPT ![b].layers = Layered(b, buffers[b].nb)]
  /\ UNCHANGED <<made, queue, left, todo, unset, frame, out, failed, receiver, hit>>

\* When sendto fails, the rest of the frame is not made.
Write ==
  /\ pub = "write"
  /\ \/ /\ out' = out + buffers[BufferOf(made - 1)].nb
        /\ pub' = IF todo = 0 THEN "idle" ELSE "make"
        /\ UNCHANGED <<left, todo, failed>>
     \/ /\ failed' = TRUE /\ pub' = "idle" /\ left' = 0 /\ todo' = 0
        /\ UNCHANGED out
  /\ UNCHANGED <<made, buffers, queue, unset, frame, receiver, hit>>

-----------------------------------------------------------------------------
(* The socket thread.                                                      *)

\* mutant: whatever the slot names is sent
FoundAny(k) == TRUE
Found(k) == queue[SlotOf(k)].seq = Seq16(k)

\* A NACK names packet k, the last of its sequence; the server misses it once a
\* later one was made.
Fetch(k) ==
  /\ rcv = "idle" /\ k >= 0 /\ made - 1 - k \in 1..Modulus - 1
  /\ Found(k)
  /\ rcv' = "load" /\ asked' = k /\ checked' = made
  /\ unread' = {"payload", "nb"} /\ UNCHANGED found
  /\ UNCHANGED <<made, buffers, queue, publisher, hit>>

\* The slot is read again, a field at a time: it may name another packet by now.
Load(f) ==
  /\ rcv = "load" /\ f \in unread
  /\ found' = [found EXCEPT ![f] = queue[SlotOf(asked)][f]]
  /\ unread' = unread \ {f}
  /\ rcv' = IF unread' = {} THEN "encrypt" ELSE "load"
  /\ UNCHANGED <<made, buffers, queue, publisher, asked, checked, hit>>

\* Of a buffer that is being written to, any part may have been encrypted.
EncryptAgain ==
  /\ rcv = "encrypt" /\ rcv' = "write"
  /\ LET b == found.payload
         newest == b = BufferOf(made - 1) IN
     /\ \E l \in (IF newest /\ pub = "encode" THEN 0..Spoiled ELSE {Layered(b, found.nb)}) :
          buffers' = [buffers EXCEPT ![b].layers = l]
     /\ hit' = IF newest THEN asked ELSE hit
  /\ UNCHANGED <<made, queue, publisher, asked, found, unread, checked>>

\* Whether it fails or not.
WriteAgain ==
  /\ rcv = "write" /\ rcv' = "idle"
  /\ UNCHANGED <<made, buffers, queue, publisher, asked, found, unread, checked, hit>>

Next ==
  \/ \E n \in FrameSizes : Begin(n)
  \/ Make \/ Encoded \/ Encrypt \/ Write
  \/ \E f \in Field : Cache(f) \/ Load(f)
  \/ \E k \in 0..made : Fetch(k)
  \/ EncryptAgain \/ WriteAgain

Spec == Init /\ [][Next]_vars

-----------------------------------------------------------------------------
(* Properties.                                                             *)

\* Types; a slot the socket thread has found names a buffer.
TypeOK ==
  /\ made \in Nat
  /\ buffers \in [BufferNo -> [no : Nat \cup {Nobody}, nb : 0..MaxPayload, layers : 0..Spoiled]]
  /\ queue \in [SlotNo -> [payload : BufferNo \cup {Nobody}, nb : 0..MaxPayload, seq : 0..Modulus - 1]]
  /\ pub \in {"idle", "make", "encode", "cache", "encrypt", "write"}
  /\ left \in Nat /\ todo \in Nat /\ unset \subseteq Field
  /\ rcv \in {"idle", "load", "encrypt", "write"}
  /\ asked \in Nat /\ found \in [payload : BufferNo, nb : 0..MaxPayload] /\ unread \subseteq {"payload", "nb"}
  /\ frame \in Nat /\ out \in Nat /\ failed \in BOOLEAN /\ checked \in Nat /\ hit \in Nat \cup {Nobody}

\* A round of the shorter ring: the queue's slots or the buffers come again.
Lap == IF Capacity < Buffers THEN Capacity ELSE Buffers

\* What the publish thread writes is its own packet, encrypted once, whatever
\* NACKs came between; only one for a packet a whole lap back, which is answered
\* while the ring comes round to it, can have got at the packet.
SendsOwn ==
  pub = "write" =>
    LET p == buffers[BufferOf(made - 1)] IN
    /\ p.no = made - 1
    /\ p.layers = 1 \/ (hit # Nobody /\ made - 1 - hit >= Lap)

\* What is resent is the packet that was asked for, in its own length, unless the
\* ring came round to it while the NACK was answered: when the slot was looked at
\* it was still the packet's, or just being stored to, and a lap has been made.
Overtaken == checked <= asked + Capacity + 1 /\ made > asked + Lap
ResendIsAsked ==
  rcv \in {"encrypt", "write"} /\ ~Overtaken =>
    buffers[found.payload].no = asked /\ buffers[found.payload].nb = found.nb

\* A frame goes to its last byte.  Where its fragments would all be full none
\* goes; where a write failed, whole fragments went and the last did not.
WholeFrame ==
  pub = "idle" =>
    IF failed THEN out % MaxPayload = 0 /\ out < Whole(frame)
    ELSE out = IF FillsAll(frame) THEN 0 ELSE Whole(frame)
=============================================================================
