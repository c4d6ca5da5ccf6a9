--------------------------- MODULE RtcSend_proofs ---------------------------
(***************************************************************************)
(* Proofs about the sending side for rings of any size, frames of any size *)
(* and any number of packets, with the socket thread free to come between  *)
(* any two steps of the publish thread.                                    *)
(***************************************************************************)
EXTENDS RtcSend, TLAPS

-----------------------------------------------------------------------------
LEMMA Divided ==
  ASSUME NEW n \in Nat, n > 0, NEW a \in Nat
  PROVE  /\ a = n * (a \div n) + (a % n)
         /\ a \div n \in Nat /\ a % n \in Nat /\ a % n < n /\ a % n <= a
         /\ (a < n => a % n = a)
  OBVIOUS

LEMMA SmallMultiple ==
  ASSUME NEW n \in Nat, n > 0, NEW d \in Int, n * d < n, n * d > 0 - n
  PROVE  d = 0
<1>1. CASE d >= 1
  <2>1. n * d >= n
    BY <1>1
  <2> QED BY <2>1
<1>2. CASE d <= -1
  <2>1. n * d <= 0 - n
    BY <1>2
  <2> QED BY <2>1
<1> QED BY <1>1, <1>2

(* What is left of a number that is written as a multiple and a rest.      *)
LEMMA RestOf ==
  ASSUME NEW n \in Nat, n > 0, NEW a \in Nat, NEW p \in Int, NEW r \in Nat,
         a = n * p + r, r < n
  PROVE  a % n = r
<1> DEFINE q == a \div n  s == a % n
<1>1. q \in Nat /\ s \in Nat /\ s < n /\ a = n * q + s
  BY Divided
<1> HIDE DEF q, s
<1>2. n * q - n * p = r - s
  BY <1>1
<1>3. n * (q - p) = n * q - n * p
  BY <1>1
<1>4. n * (q - p) = r - s /\ r - s < n /\ r - s > 0 - n /\ q - p \in Int
  BY <1>1, <1>2, <1>3
<1>5. q - p = 0
  BY <1>4, SmallMultiple
<1>6. r = s
  BY <1>1, <1>4, <1>5
<1> QED BY <1>6 DEF s

(* Two packets less than a ring apart never share a place in it.           *)
LEMMA Apart ==
  ASSUME NEW n \in Nat, n > 0, NEW a \in Nat, NEW b \in Nat,
         a < b, b - a < n
  PROVE  a % n # b % n
<1> SUFFICES ASSUME a % n = b % n PROVE FALSE
  OBVIOUS
<1> DEFINE p == a \div n  q == b \div n  r == a % n
<1>1. /\ p \in Nat /\ q \in Nat /\ r \in Nat
      /\ a = n * p + r /\ b = n * q + r
  BY Divided
<1> HIDE DEF p, q, r
<1>2. n * q - n * p = b - a
  BY <1>1
<1>3. n * (q - p) = n * q - n * p
  BY <1>1
<1>4. q - p = 0
  BY <1>1, <1>2, <1>3, SmallMultiple
<1>5. b - a = 0
  BY <1>1, <1>3, <1>2, <1>4
<1> QED BY <1>5

(* A ring's length later comes the same place.                             *)
LEMMA Round ==
  ASSUME NEW n \in Nat, n > 0, NEW a \in Nat
  PROVE  (a + n) % n = a % n
<1> DEFINE q == a \div n  r == a % n
<1>1. q \in Nat /\ r \in Nat /\ r < n /\ a = n * q + r
  BY Divided
<1> HIDE DEF q, r
<1>2. a + n = n * (q + 1) + r /\ a + n \in Nat /\ q + 1 \in Int
  BY <1>1
<1>3. (a + n) % n = r
  BY <1>1, <1>2, RestOf
<1> QED BY <1>3 DEF r

(* The rest of a rest, where one ring's length divides the other's.        *)
LEMMA Nested ==
  ASSUME NEW m \in Nat, m > 0, NEW n \in Nat, n > 0, m % n = 0, NEW k \in Nat
  PROVE  (k % m) % n = k % n
<1> DEFINE q == m \div n  t == k \div m  r == k % m  u == r \div n  v == r % n
<1>1. q \in Nat /\ m = n * q
  <2>1. m = n * (m \div n) + (m % n) /\ m \div n \in Nat
    BY Divided
  <2> QED BY <2>1
<1>2. t \in Nat /\ r \in Nat /\ k = m * t + r
  BY Divided
<1>3. u \in Nat /\ v \in Nat /\ v < n /\ r = n * u + v
  <2> HIDE DEF r
  <2> QED BY <1>2, Divided
<1> HIDE DEF q, t, r, u, v
<1>4. m * t = n * (q * t) /\ q * t \in Nat
  BY <1>1, <1>2
<1>5. k = n * ((q * t) + u) + v /\ (q * t) + u \in Int
  <2> DEFINE w == q * t
  <2>1. w \in Nat /\ k = n * w + (n * u + v)
    BY <1>2, <1>3, <1>4
  <2> HIDE DEF w
  <2>2. k = n * (w + u) + v
    BY <1>3, <2>1
  <2> QED BY <1>3, <2>1, <2>2 DEF w
<1>6. k % n = v
  BY <1>3, <1>5, RestOf
<1> QED BY <1>6 DEF r, v

-----------------------------------------------------------------------------
(* The two rings and the sequences.                                        *)

LEMMA Constants ==
  /\ Modulus \in Nat /\ Modulus > 0 /\ Buffers \in Nat /\ Buffers > 0
  /\ Capacity \in Nat /\ Capacity > 0 /\ Modulus % Capacity = 0
  /\ MaxPayload \in Nat /\ MaxPayload > 0
  BY SendAssumption

LEMMA BufferType ==
  ASSUME NEW k \in Nat
  PROVE  BufferOf(k) \in BufferNo
<1>1. (k + 1) % Buffers \in Nat /\ (k + 1) % Buffers < Buffers
  BY Constants, Divided
<1> QED BY <1>1, Constants DEF BufferOf, BufferNo

LEMMA BufferApart ==
  ASSUME NEW a \in Nat, NEW b \in Nat, a < b, b - a < Buffers
  PROVE  BufferOf(a) # BufferOf(b)
<1>1. a + 1 \in Nat /\ b + 1 \in Nat /\ a + 1 < b + 1 /\ (b + 1) - (a + 1) < Buffers
  BY Constants
<1> QED BY <1>1, Constants, Apart DEF BufferOf

LEMMA SlotIs ==
  ASSUME NEW k \in Nat
  PROVE  SlotOf(k) = k % Capacity
  BY Constants, Nested DEF SlotOf, Seq16

LEMMA SlotType ==
  ASSUME NEW k \in Nat
  PROVE  SlotOf(k) \in SlotNo /\ SlotOf(k) <= k /\ (k < Capacity => SlotOf(k) = k)
<1>1. /\ k % Capacity \in Nat /\ k % Capacity < Capacity /\ k % Capacity <= k
      /\ k < Capacity => k % Capacity = k
  BY Constants, Divided
<1> QED BY <1>1, Constants, SlotIs DEF SlotNo

LEMMA SlotApart ==
  ASSUME NEW a \in Nat, NEW b \in Nat, a < b, b - a < Capacity
  PROVE  SlotOf(a) # SlotOf(b)
  BY Constants, Apart, SlotIs

LEMMA SlotRound ==
  ASSUME NEW k \in Nat
  PROVE  SlotOf(k + Capacity) = SlotOf(k)
<1>1. k + Capacity \in Nat
  BY Constants
<1> QED BY <1>1, Constants, Round, SlotIs

LEMMA SeqType ==
  ASSUME NEW k \in Nat
  PROVE  Seq16(k) \in 0..Modulus - 1
<1>1. k % Modulus \in Nat /\ k % Modulus < Modulus
  BY Constants, Divided
<1> QED BY <1>1, Constants DEF Seq16

LEMMA SeqApart ==
  ASSUME NEW a \in Nat, NEW b \in Nat, a < b, b - a < Modulus
  PROVE  Seq16(a) # Seq16(b)
  BY Constants, Apart DEF Seq16

-----------------------------------------------------------------------------
(* The inductive invariant.                                                *)

(* l bytes need exactly t packets.                                         *)
Exact(l, t) == t >= 1 /\ MaxPayload * (t - 1) < l /\ l <= MaxPayload * t

Sending == {"encode", "cache", "encrypt", "write"}
Newest == BufferOf(made - 1)

(* Bytes and packets left of a frame agree at every step of its cutting,   *)
(* and with those written; all but the last packet are full.               *)
LeftInv ==
  /\ WholeFrame
  /\ pub # "idle" => ~failed /\ ~FillsAll(frame) /\ out % MaxPayload = 0
  /\ pub = "make" => Exact(left, todo) /\ out + left = Whole(frame)
  /\ pub \in Sending =>
       /\ made > 0 /\ buffers[Newest].nb > 0
       /\ out + buffers[Newest].nb + left = Whole(frame)
       /\ IF todo = 0 THEN left = 0 ELSE Exact(left, todo) /\ buffers[Newest].nb = MaxPayload

(* The ring holds the last packets, each in its own buffer.                *)
RingKept ==
  \A k \in Nat : k < made /\ made <= k + Buffers => buffers[BufferOf(k)].no = k

(* Packets whose field f has been stored so far.                           *)
Stored(f) == IF pub = "encode" \/ (pub = "cache" /\ f \in unset) THEN made - 1 ELSE made

(* Field f of slot s is packet k's, one of the last the queue has room     *)
(* for; its length is known as long as its buffer is its own.              *)
Says(s, f, k) ==
  /\ f = "payload" => queue[s].payload = BufferOf(k)
  /\ f = "seq" => queue[s].seq = Seq16(k)
  /\ f = "nb" /\ made <= k + Buffers => queue[s].nb = buffers[BufferOf(k)].nb
Names(s, f, k) == k < Stored(f) /\ Stored(f) <= k + Capacity /\ SlotOf(k) = s /\ Says(s, f, k)

SlotsNamed ==
  \A s \in SlotNo, f \in Field : s >= Stored(f) \/ \E k \in Nat : Names(s, f, k)

(* The slot was looked at before the next lap's packet was in it, and the  *)
(* buffer read from it is the packet's or one a lap later.                 *)
AskedInv ==
  rcv # "idle" =>
    /\ asked + 1 < made /\ checked <= asked + Capacity + 1
    /\ rcv # "load" => unread = {}
    /\ "payload" \notin unread =>
         \E k \in Nat : k < made /\ found.payload = BufferOf(k) /\ (k = asked \/ k >= asked + Capacity)
    /\ "nb" \notin unread /\ made <= asked + Lap => found.nb = buffers[BufferOf(asked)].nb

(* The packet being sent is encrypted once and no more, unless a NACK a    *)
(* lap back got at it.                                                     *)
LayersInv ==
  /\ hit # Nobody => made > 0 /\ made - 1 - hit >= Lap
  /\ pub \in {"encode", "cache", "encrypt"} => buffers[Newest].layers = 0 \/ hit # Nobody
  /\ pub = "write" => buffers[Newest].layers = 1 \/ hit # Nobody

IInv == TypeOK /\ LeftInv /\ RingKept /\ SlotsNamed /\ AskedInv /\ LayersInv

Buffer == [no : Nat \cup {Nobody}, nb : 0..MaxPayload, layers : 0..Spoiled]
Slot == [payload : BufferNo \cup {Nobody}, nb : 0..MaxPayload, seq : 0..Modulus - 1]

LEMMA TypesOf ==
  ASSUME TypeOK
  PROVE  /\ made \in Nat /\ buffers \in [BufferNo -> Buffer] /\ queue \in [SlotNo -> Slot]
         /\ asked \in Nat /\ checked \in Nat /\ hit \in Nat \cup {Nobody}
         /\ left \in Nat /\ todo \in Nat /\ out \in Nat /\ frame \in Nat
         /\ found \in [payload : BufferNo, nb : 0..MaxPayload] /\ unread \subseteq {"payload", "nb"}
  BY DEF TypeOK, Buffer, Slot

LEMMA LapIs == Lap \in Nat /\ Lap > 0 /\ Lap <= Capacity /\ Lap <= Buffers
  BY Constants DEF Lap

LEMMA InitIInv == Init => IInv
<1> SUFFICES ASSUME Init PROVE IInv
  OBVIOUS
<1>1. 0 \in BufferNo
  BY Constants DEF BufferNo
<1>2. TypeOK
  <2>1. /\ [no |-> Nobody, nb |-> 0, layers |-> 0] \in [no : Nat \cup {Nobody}, nb : 0..MaxPayload, layers : 0..Spoiled]
        /\ [payload |-> Nobody, nb |-> 0, seq |-> 0] \in [payload : BufferNo \cup {Nobody}, nb : 0..MaxPayload, seq : 0..Modulus - 1]
        /\ [payload |-> 0, nb |-> 0] \in [payload : BufferNo, nb : 0..MaxPayload]
    BY <1>1, Constants DEF Spoiled
  <2> QED BY <2>1 DEF Init, TypeOK
<1>3. LeftInv
  BY Constants DEF Init, LeftInv, WholeFrame, FillsAll, Whole, Sending
<1>4. RingKept
  BY DEF Init, RingKept
<1>5. SlotsNamed
  BY DEF Init, SlotsNamed, Stored, SlotNo
<1>6. AskedInv
  BY DEF Init, AskedInv
<1>7. LayersInv
  BY DEF Init, LayersInv
<1> QED BY <1>2, <1>3, <1>4, <1>5, <1>6, <1>7 DEF IInv

-----------------------------------------------------------------------------
(* The frame and its packets.                                              *)

LEMMA FramePackets ==
  ASSUME NEW n \in FrameSizes
  PROVE  /\ n \in Nat /\ n > 0 /\ NumOfPacket(n) \in Nat /\ Whole(n) \in Nat
         /\ IF FillsAll(n) THEN NumOfPacket(n) = 0
            ELSE NumOfPacket(n) # 0 /\ Exact(Whole(n), NumOfPacket(n))
<1>1. n \in Nat /\ n > 0
  BY SendAssumption
<1>2. CASE n <= MaxPayload
  <2>1. NumOfPacket(n) = 1 /\ Whole(n) = n /\ ~FillsAll(n)
    BY <1>1, <1>2, Constants DEF NumOfPacket, Whole, FillsAll
  <2> QED BY <1>1, <1>2, <2>1, Constants DEF Exact
<1>3. CASE n > MaxPayload
  <2> DEFINE q == (n - 1) \div MaxPayload  r == (n - 1) % MaxPayload
  <2>1. /\ q \in Nat /\ r \in Nat /\ r < MaxPayload /\ n - 1 = MaxPayload * q + r
    <3>1. n - 1 \in Nat
      BY <1>1
    <3> QED BY <3>1, Constants, Divided
  <2>2. /\ NumOfPacket(n) = IF r = 0 THEN 0 ELSE 1 + q
        /\ FillsAll(n) <=> r = 0
        /\ Whole(n) = n - 1
    BY <1>1, <1>3, Constants DEF NumOfPacket, FillsAll, Whole
  <2> HIDE DEF q, r
  <2>3. ASSUME r # 0 PROVE Exact(n - 1, 1 + q)
    <3>1. MaxPayload * ((1 + q) - 1) = MaxPayload * q
      BY <2>1
    <3>2. MaxPayload * (1 + q) = MaxPayload * q + MaxPayload
      BY <2>1, Constants
    <3>3. MaxPayload * q \in Nat
      BY <2>1, Constants
    <3> QED BY <1>1, <2>1, <2>3, <3>1, <3>2, <3>3, Constants DEF Exact
  <2> QED BY <1>1, <2>1, <2>2, <2>3
<1> QED BY <1>1, <1>2, <1>3, Constants

(* One packet takes its part and leaves the others theirs; it is full      *)
(* unless it is the last.                                                  *)
LEMMA OnePacket ==
  ASSUME left \in Nat, todo \in Nat, Exact(left, todo)
  PROVE  /\ PacketSize \in 1..MaxPayload
         /\ left - PacketSize \in Nat /\ todo - 1 \in Nat
         /\ IF todo - 1 = 0 THEN left - PacketSize = 0
            ELSE Exact(left - PacketSize, todo - 1) /\ PacketSize = MaxPayload
<1>1. left > 0
  <2>1. MaxPayload * (todo - 1) >= 0
    BY Constants DEF Exact
  <2> QED BY <2>1, Constants DEF Exact
<1>2. CASE todo = 1
  BY <1>1, <1>2, Constants DEF Exact, PacketSize
<1>3. CASE todo > 1
  <2>1. PICK u \in Nat : todo = u + 2
    BY <1>3
  <2>2. /\ MaxPayload * (todo - 1) = MaxPayload * u + MaxPayload
        /\ MaxPayload * todo = MaxPayload * u + MaxPayload + MaxPayload
        /\ MaxPayload * ((todo - 1) - 1) = MaxPayload * u
        /\ MaxPayload * u \in Nat
    BY <2>1, Constants
  <2>3. left > MaxPayload /\ PacketSize = MaxPayload
    BY <2>2, Constants DEF Exact, PacketSize
  <2> QED BY <2>1, <2>2, <2>3, Constants DEF Exact
<1> QED BY <1>2, <1>3 DEF Exact

-----------------------------------------------------------------------------
(* What the steps make of the buffers and the queue.                       *)

LEMMA MakeIs ==
  ASSUME IInv, Make
  PROVE  /\ BufferOf(made) \in BufferNo
         /\ buffers' \in [BufferNo -> Buffer]
         /\ buffers'[BufferOf(made)] = [no |-> made, nb |-> PacketSize, layers |-> 0]
         /\ \A k \in Nat : k < made /\ made < k + Buffers =>
              BufferOf(k) \in BufferNo /\ buffers'[BufferOf(k)] = buffers[BufferOf(k)]
<1>0. made \in Nat /\ left \in Nat /\ todo \in Nat /\ buffers \in [BufferNo -> Buffer]
  BY TypesOf DEF IInv
<1>1. BufferOf(made) \in BufferNo
  BY <1>0, BufferType
<1>2. PacketSize \in 1..MaxPayload
  BY <1>0, OnePacket DEF IInv, LeftInv, Make
<1>3. [no |-> made, nb |-> PacketSize, layers |-> 0] \in Buffer
  BY <1>0, <1>2, Constants DEF Buffer, Spoiled
<1>4. buffers' = [buffers EXCEPT ![BufferOf(made)] = [no |-> made, nb |-> PacketSize, layers |-> 0]]
  BY DEF Make
<1>5. ASSUME NEW k \in Nat, k < made, made < k + Buffers
      PROVE  BufferOf(k) \in BufferNo /\ buffers'[BufferOf(k)] = buffers[BufferOf(k)]
  <2>1. made - k < Buffers
    BY <1>0, <1>5, Constants
  <2>2. BufferOf(k) # BufferOf(made) /\ BufferOf(k) \in BufferNo
    BY <1>0, <1>5, <2>1, BufferApart, BufferType
  <2> QED BY <1>0, <1>4, <2>2
<1> QED BY <1>0, <1>1, <1>3, <1>4, <1>5

(* Encryption changes nothing but one packet's layers.                     *)
LEMMA LayeredIs ==
  ASSUME TypeOK, NEW b \in BufferNo, NEW l \in 0..Spoiled,
         buffers' = [buffers EXCEPT ![b].layers = l]
  PROVE  /\ buffers' \in [BufferNo -> Buffer]
         /\ \A c \in BufferNo : buffers'[c].no = buffers[c].no /\ buffers'[c].nb = buffers[c].nb
         /\ \A c \in BufferNo : c # b => buffers'[c] = buffers[c]
         /\ buffers'[b].layers = l
<1>1. buffers \in [BufferNo -> Buffer] /\ buffers[b] \in Buffer
  BY TypesOf
<1>2. [buffers[b] EXCEPT !.layers = l] \in Buffer
  BY <1>1 DEF Buffer
<1> QED BY <1>1, <1>2 DEF Buffer

LEMMA LayeredType ==
  ASSUME TypeOK, NEW b \in BufferNo, NEW n
  PROVE  Layered(b, n) \in 0..Spoiled
<1>1. buffers[b].layers \in 0..2
  BY TypesOf DEF Buffer, Spoiled
<1> QED BY <1>1 DEF Layered, Spoiled

LEMMA NewestIs ==
  ASSUME IInv, pub \in Sending
  PROVE  /\ made - 1 \in Nat /\ Newest \in BufferNo
         /\ buffers[Newest] \in Buffer /\ buffers[Newest].no = made - 1
<1>1. made \in Nat /\ made > 0 /\ buffers \in [BufferNo -> Buffer]
  BY TypesOf DEF IInv, LeftInv
<1>2. PICK j \in Nat : j = made - 1
  BY <1>1
<1>3. j < made /\ made <= j + Buffers
  BY <1>1, <1>2, Constants
<1>4. buffers[BufferOf(j)].no = j /\ BufferOf(j) \in BufferNo
  BY <1>3, BufferType DEF IInv, RingKept
<1> QED BY <1>1, <1>2, <1>4 DEF Newest

(* What both encryptions do, and that the second finds a buffer.           *)
LEMMA EncryptIs ==
  ASSUME IInv, Encrypt
  PROVE  /\ pub = "encrypt" /\ pub' = "write" /\ Newest \in BufferNo
         /\ \E l \in 0..Spoiled : buffers' = [buffers EXCEPT ![Newest].layers = l]
                                /\ (buffers[Newest].layers = 0 => l = 1)
<1>1. pub = "encrypt" /\ pub' = "write" /\ Newest \in BufferNo /\ TypeOK
  BY NewestIs DEF Encrypt, IInv, Sending
<1>2. buffers' = [buffers EXCEPT ![Newest].layers = Layered(Newest, buffers[Newest].nb)]
  BY DEF Encrypt, Newest
<1>3. buffers[Newest].layers = 0 => Layered(Newest, buffers[Newest].nb) = 1
  BY DEF Layered, Spoiled
<1> QED BY <1>1, <1>2, <1>3, LayeredType

LEMMA EncryptAgainIs ==
  ASSUME IInv, EncryptAgain
  PROVE  /\ rcv = "encrypt" /\ rcv' = "write" /\ found.payload \in BufferNo
         /\ \E l \in 0..Spoiled : buffers' = [buffers EXCEPT ![found.payload].layers = l]
         /\ hit' = IF found.payload = Newest THEN asked ELSE hit
         /\ UNCHANGED <<made, queue, publisher, asked, found, unread, checked>>
<1>1. found.payload \in BufferNo /\ TypeOK
  BY TypesOf DEF IInv
<1>2. Layered(found.payload, found.nb) \in 0..Spoiled
  BY <1>1, LayeredType
<1>3. PICK l \in (IF found.payload = BufferOf(made - 1) /\ pub = "encode" THEN 0..Spoiled
                  ELSE {Layered(found.payload, found.nb)}) :
        buffers' = [buffers EXCEPT ![found.payload].layers = l]
  BY DEF EncryptAgain
<1>4. l \in 0..Spoiled
  BY <1>2, <1>3
<1> QED BY <1>1, <1>3, <1>4 DEF EncryptAgain, Newest

(* A field is stored in the slot of the newest packet, and no other.       *)
LEMMA CacheIs ==
  ASSUME IInv, NEW f \in Field, Cache(f)
  PROVE  /\ queue' \in [SlotNo -> Slot]
         /\ \A s \in SlotNo, g \in Field :
              s # SlotOf(made - 1) \/ g # f => queue'[s][g] = queue[s][g]
         /\ f = "payload" => queue'[SlotOf(made - 1)].payload = Newest
         /\ f = "seq" => queue'[SlotOf(made - 1)].seq = Seq16(made - 1)
         /\ f = "nb" => queue'[SlotOf(made - 1)].nb = buffers[Newest].nb
<1>0. queue \in [SlotNo -> Slot]
  BY TypesOf DEF IInv
<1>1. /\ made - 1 \in Nat /\ Newest \in BufferNo /\ buffers[Newest] \in Buffer
  BY NewestIs DEF Cache, Sending
<1>2. SlotOf(made - 1) \in SlotNo /\ Seq16(made - 1) \in 0..Modulus - 1
  BY <1>1, SlotType, SeqType
<1> DEFINE t == SlotOf(made - 1)
           v == [payload |-> Newest, nb |-> buffers[Newest].nb, seq |-> Seq16(made - 1)]
<1>3. queue' = [queue EXCEPT ![t][f] = v[f]]
  BY DEF Cache, Newest
<1>4. v \in Slot /\ t \in SlotNo
  BY <1>1, <1>2 DEF Slot, Buffer
<1>5. v.payload = Newest /\ v.nb = buffers[Newest].nb /\ v.seq = Seq16(made - 1)
  OBVIOUS
<1> HIDE DEF t, v
<1>6. CASE f = "payload"
  BY <1>0, <1>3, <1>4, <1>5, <1>6 DEF Slot, Field, t
<1>7. CASE f = "nb"
  BY <1>0, <1>3, <1>4, <1>5, <1>7 DEF Slot, Field, t
<1>8. CASE f = "seq"
  BY <1>0, <1>3, <1>4, <1>5, <1>8 DEF Slot, Field, t
<1> QED BY <1>6, <1>7, <1>8 DEF Field

LEMMA LoadIs ==
  ASSUME TypeOK, NEW f \in Field, Load(f)
  PROVE  /\ f \in {"payload", "nb"}
         /\ f = "payload" => /\ found'.payload = queue[SlotOf(asked)].payload /\ found'.nb = found.nb
                             /\ "payload" \notin unread' /\ ("nb" \in unread' <=> "nb" \in unread)
         /\ f = "nb" => /\ found'.nb = queue[SlotOf(asked)].nb /\ found'.payload = found.payload
                        /\ "nb" \notin unread' /\ ("payload" \in unread' <=> "payload" \in unread)
         /\ found' \in [payload : BufferNo \cup {Nobody}, nb : 0..MaxPayload]
         /\ rcv = "load" /\ rcv' \in {"load", "encrypt"} /\ (rcv' = "encrypt" => unread' = {})
<1>1. found \in [payload : BufferNo, nb : 0..MaxPayload] /\ unread \subseteq {"payload", "nb"}
  BY TypesOf
<1>2. found' = [found EXCEPT ![f] = queue[SlotOf(asked)][f]] /\ unread' = unread \ {f} /\ f \in unread
      /\ rcv = "load" /\ rcv' = IF unread' = {} THEN "encrypt" ELSE "load"
  BY DEF Load
<1>3. queue[SlotOf(asked)] \in Slot
  BY TypesOf, SlotType
<1>4. CASE f = "payload"
  BY <1>1, <1>2, <1>3, <1>4 DEF Slot
<1>5. CASE f = "nb"
  BY <1>1, <1>2, <1>3, <1>5 DEF Slot
<1> QED BY <1>1, <1>2, <1>4, <1>5

-----------------------------------------------------------------------------
(* Frames: LeftInv.                                                        *)

LEMMA LeftStep == IInv /\ [Next]_vars => LeftInv'
<1> SUFFICES ASSUME IInv, [Next]_vars PROVE LeftInv'
  OBVIOUS
<1> USE DEF LeftInv, WholeFrame, Sending
<1>0. /\ LeftInv /\ TypeOK
      /\ made \in Nat /\ left \in Nat /\ todo \in Nat /\ out \in Nat
      /\ pub \in {"idle", "make", "encode", "cache", "encrypt", "write"}
  BY TypesOf DEF IInv, TypeOK
<1>1. ASSUME NEW n \in FrameSizes, Begin(n) PROVE LeftInv'
  <2>1. 0 % MaxPayload = 0
    BY Constants, Divided
  <2>2. /\ left' = Whole(n) /\ todo' = NumOfPacket(n) /\ frame' = n /\ out' = 0 /\ failed' = FALSE
        /\ pub' = IF NumOfPacket(n) = 0 THEN "idle" ELSE "make"
    BY <1>1 DEF Begin
  <2> QED BY <2>1, <2>2, FramePackets
<1>2. ASSUME Make PROVE LeftInv'
  <2>1. /\ pub' = "encode" /\ made' = made + 1 /\ left' = left - PacketSize /\ todo' = todo - 1
        /\ UNCHANGED <<frame, out, failed>> /\ pub = "make"
    BY <1>2 DEF Make
  <2>2. Newest' = BufferOf(made)
    BY <1>0, <2>1 DEF Newest
  <2>3. buffers'[Newest'].nb = PacketSize
    BY <1>2, <2>2, MakeIs
  <2>4. PacketSize \in 1..MaxPayload
        /\ IF todo' = 0 THEN left' = 0 ELSE Exact(left', todo') /\ PacketSize = MaxPayload
    BY <1>0, <2>1, OnePacket
  <2>5. out' + PacketSize + left' = Whole(frame')
    BY <1>0, <2>1, <2>4
  <2> QED BY <1>0, <2>1, <2>3, <2>4, <2>5
<1>3. ASSUME Write PROVE LeftInv'
  <2> DEFINE nb == buffers[Newest].nb
  <2>1. nb \in Nat /\ nb > 0 /\ made \in Nat /\ made > 0
    BY <1>0, <1>3, NewestIs, Constants DEF Write, Buffer
  <2>2. /\ out + nb + left = Whole(frame) /\ out % MaxPayload = 0 /\ ~failed /\ ~FillsAll(frame)
        /\ IF todo = 0 THEN left = 0 ELSE Exact(left, todo) /\ nb = MaxPayload
    BY <1>0, <1>3 DEF Write
  <2>3. (out + MaxPayload) % MaxPayload = 0
    BY <1>0, <2>2, Constants, Round
  <2>4. frame' = frame /\ made' = made /\ buffers' = buffers
    BY <1>3 DEF Write
  <2>5. \/ /\ out' = out + nb /\ pub' = IF todo = 0 THEN "idle" ELSE "make"
           /\ left' = left /\ todo' = todo /\ failed' = failed
        \/ /\ failed' = TRUE /\ pub' = "idle" /\ out' = out
    BY <1>3 DEF Write, Newest
  <2> HIDE DEF nb
  <2> QED BY <1>0, <2>1, <2>2, <2>3, <2>4, <2>5
<1>4. ASSUME UNCHANGED <<made, left, todo, frame, out, failed>>, pub' = pub \/ {pub, pub'} \subseteq Sending,
             pub \in Sending => buffers'[Newest].nb = buffers[Newest].nb
      PROVE  LeftInv'
  <2>1. Newest' = Newest
    BY <1>4 DEF Newest
  <2> QED BY <1>0, <1>4, <2>1
<1>5. ASSUME Encoded PROVE LeftInv'
  BY <1>4, <1>5 DEF Encoded
<1>6. ASSUME NEW f \in Field, Cache(f) PROVE LeftInv'
  BY <1>4, <1>6 DEF Cache
<1>7. ASSUME Encrypt PROVE LeftInv'
  <2>1. buffers'[Newest].nb = buffers[Newest].nb /\ pub = "encrypt" /\ pub' = "write"
    BY <1>0, <1>7, EncryptIs, LayeredIs
  <2> QED BY <1>4, <1>7, <2>1 DEF Encrypt
<1>8. ASSUME EncryptAgain PROVE LeftInv'
  <2>1. pub \in Sending => Newest \in BufferNo
    BY NewestIs
  <2>2. pub \in Sending => buffers'[Newest].nb = buffers[Newest].nb
    BY <1>0, <1>8, <2>1, EncryptAgainIs, LayeredIs
  <2> QED BY <1>4, <1>8, <2>2 DEF EncryptAgain, publisher
<1>9. ASSUME UNCHANGED <<made, buffers, publisher>> PROVE LeftInv'
  BY <1>4, <1>9 DEF publisher
<1> QED
  BY <1>1, <1>2, <1>3, <1>5, <1>6, <1>7, <1>8, <1>9 DEF Next, Load, Fetch, WriteAgain, vars

-----------------------------------------------------------------------------
(* The ring of buffers.                                                    *)

LEMMA RingStep == IInv /\ [Next]_vars => RingKept'
<1> SUFFICES ASSUME IInv, [Next]_vars PROVE RingKept'
  OBVIOUS
<1>0. RingKept /\ TypeOK /\ made \in Nat
  BY TypesOf DEF IInv
<1>1. ASSUME Make PROVE RingKept'
  <2> SUFFICES ASSUME NEW k \in Nat, k < made + 1, made + 1 <= k + Buffers
               PROVE  buffers'[BufferOf(k)].no = k
    BY <1>1 DEF RingKept, Make
  <2>1. CASE k = made
    BY <1>1, <2>1, MakeIs
  <2>2. CASE k < made
    <3>1. made < k + Buffers /\ made <= k + Buffers
      BY <1>0, Constants
    <3> QED BY <1>0, <1>1, <2>2, <3>1, MakeIs DEF RingKept
  <2> QED BY <1>0, <2>1, <2>2
<1>2. ASSUME made' = made, \A c \in BufferNo : buffers'[c].no = buffers[c].no PROVE RingKept'
  BY <1>0, <1>2, BufferType DEF RingKept
<1>3. ASSUME Encrypt PROVE RingKept'
  BY <1>0, <1>2, <1>3, EncryptIs, LayeredIs DEF Encrypt
<1>4. ASSUME EncryptAgain PROVE RingKept'
  BY <1>0, <1>2, <1>4, EncryptAgainIs, LayeredIs
<1>5. ASSUME UNCHANGED <<made, buffers>> PROVE RingKept'
  BY <1>2, <1>5
<1> QED
  BY <1>1, <1>3, <1>4, <1>5
     DEF Next, Begin, Encoded, Cache, Write, Fetch, Load, WriteAgain, vars

-----------------------------------------------------------------------------
(* The queue of packets that may be asked for.                             *)

LEMMA SlotsStep == IInv /\ [Next]_vars => SlotsNamed'
<1> SUFFICES ASSUME IInv, [Next]_vars PROVE SlotsNamed'
  OBVIOUS
<1>0. SlotsNamed /\ TypeOK /\ LeftInv /\ made \in Nat /\ buffers \in [BufferNo -> Buffer]
      /\ queue \in [SlotNo -> Slot]
  BY TypesOf DEF IInv
<1>1. ASSUME queue' = queue, \A f \in Field : Stored(f)' = Stored(f), made' = made,
             \A c \in BufferNo : buffers'[c].nb = buffers[c].nb
      PROVE  SlotsNamed'
  <2>1. \A s \in SlotNo, f \in Field, k \in Nat : Names(s, f, k) => Names(s, f, k)'
    BY <1>1, BufferType DEF Names, Says
  <2> QED BY <1>0, <1>1, <2>1 DEF SlotsNamed
<1>2. ASSUME Make PROVE SlotsNamed'
  <2>1. queue' = queue /\ made' = made + 1 /\ pub = "make" /\ pub' = "encode"
    BY <1>2 DEF Make
  <2>2. \A f \in Field : Stored(f) = made /\ Stored(f)' = made
    BY <1>0, <2>1 DEF Stored
  <2>3. ASSUME NEW s, NEW f \in Field, NEW k \in Nat, Names(s, f, k)
        PROVE  Names(s, f, k)'
    <3>1. k < made
      BY <2>2, <2>3 DEF Names
    <3>2. made' <= k + Buffers => buffers'[BufferOf(k)] = buffers[BufferOf(k)] /\ made <= k + Buffers
      BY <1>0, <1>2, <2>1, <3>1, MakeIs, Constants
    <3> QED BY <2>1, <2>2, <2>3, <3>2 DEF Names, Says
  <2> QED BY <1>0, <2>2, <2>3 DEF SlotsNamed
<1>3. ASSUME NEW g \in Field, Cache(g) PROVE SlotsNamed'
  <2>1. PICK j \in Nat : j = made - 1
    BY <1>3, NewestIs DEF Cache, Sending
  <2>2. /\ made' = made /\ buffers' = buffers /\ pub = "cache" /\ g \in unset /\ unset' = unset \ {g}
        /\ pub' = IF unset' = {} THEN "encrypt" ELSE "cache"
    BY <1>3 DEF Cache
  <2>3. Stored(g) = j /\ Stored(g)' = j + 1 /\ \A f \in Field : f # g => Stored(f)' = Stored(f)
    BY <1>0, <2>1, <2>2 DEF Stored
  <2>4. ASSUME NEW s \in SlotNo, NEW f \in Field, s # SlotOf(j) \/ f # g, NEW k \in Nat, Names(s, f, k)
        PROVE  Names(s, f, k)'
    <3>1. queue'[s][f] = queue[s][f]
      BY <1>3, <2>1, <2>4, CacheIs
    <3>2. Says(s, f, k)'
      BY <2>2, <2>4, <3>1 DEF Names, Says
    <3>3. f = g => j # k + Capacity
      BY <2>4, SlotRound DEF Names
    <3>4. k < Stored(f)' /\ Stored(f)' <= k + Capacity
      BY <2>1, <2>3, <2>4, <3>3, Constants DEF Names
    <3> QED BY <2>4, <3>2, <3>4 DEF Names
  <2>5. Names(SlotOf(j), g, j)'
    <3>1. Says(SlotOf(j), g, j)'
      BY <1>3, <2>1, <2>2, CacheIs DEF Says, Newest
    <3> QED BY <2>3, <3>1, Constants DEF Names
  <2>6. ASSUME NEW s \in SlotNo, NEW f \in Field, ~(s >= Stored(f)')
        PROVE  \E k \in Nat : Names(s, f, k)'
    <3>1. CASE s = SlotOf(j) /\ f = g
      BY <2>5, <3>1
    <3>2. CASE f # g
      BY <1>0, <2>3, <2>4, <2>6, <3>2 DEF SlotsNamed
    <3>3. CASE s # SlotOf(j) /\ f = g
      <4>1. s \in Nat /\ s < Capacity /\ s < j + 1
        BY <2>3, <2>6, <3>3, Constants DEF SlotNo
      <4>2. s # j
        BY <2>1, <3>3, <4>1, SlotType
      <4>3. ~(s >= Stored(f))
        BY <2>1, <2>3, <3>3, <4>1, <4>2
      <4> QED BY <1>0, <2>4, <3>3, <4>3 DEF SlotsNamed
    <3> QED BY <3>1, <3>2, <3>3
  <2> QED BY <2>6 DEF SlotsNamed
<1>4. ASSUME NEW n \in FrameSizes, Begin(n) PROVE SlotsNamed'
  BY <1>1, <1>4 DEF Begin, Stored
<1>5. ASSUME Encoded PROVE SlotsNamed'
  BY <1>1, <1>5 DEF Encoded, Stored
<1>6. ASSUME Encrypt PROVE SlotsNamed'
  <2>1. \A c \in BufferNo : buffers'[c].nb = buffers[c].nb
    BY <1>0, <1>6, EncryptIs, LayeredIs
  <2> QED BY <1>1, <1>6, <2>1 DEF Encrypt, Stored
<1>7. ASSUME Write PROVE SlotsNamed'
  BY <1>1, <1>7 DEF Write, Stored
<1>8. ASSUME EncryptAgain PROVE SlotsNamed'
  <2>1. \A c \in BufferNo : buffers'[c].nb = buffers[c].nb
    BY <1>0, <1>8, EncryptAgainIs, LayeredIs
  <2> QED BY <1>1, <1>8, <2>1 DEF EncryptAgain, publisher, Stored
<1>9. ASSUME UNCHANGED <<made, buffers, queue, publisher>> PROVE SlotsNamed'
  BY <1>1, <1>9 DEF publisher, Stored
<1> QED
  BY <1>2, <1>3, <1>4, <1>5, <1>6, <1>7, <1>8, <1>9 DEF Next, Fetch, Load, WriteAgain, vars

(* A field of a packet's slot, whenever it is read, is that packet's or    *)
(* one's at least a lap later.                                             *)
LEMMA ReadIs ==
  ASSUME IInv, NEW a \in Nat, a + 1 < made, NEW f \in Field
  PROVE  \E k \in Nat : Names(SlotOf(a), f, k) /\ k < made /\ made <= k + Capacity + 1
                       /\ (k = a \/ k >= a + Capacity)
<1>1. made \in Nat /\ SlotsNamed /\ SlotOf(a) \in SlotNo /\ SlotOf(a) <= a
  BY TypesOf, SlotType DEF IInv
<1>2. Stored(f) \in Nat /\ a < Stored(f) /\ Stored(f) <= made /\ made - 1 <= Stored(f)
  BY <1>1 DEF Stored
<1>3. PICK k \in Nat : Names(SlotOf(a), f, k)
  <2>1. SlotOf(a) \in Nat
    BY <1>1, Constants DEF SlotNo
  <2> QED BY <1>1, <1>2, <2>1 DEF SlotsNamed
<1>4. k < Stored(f) /\ Stored(f) <= k + Capacity /\ SlotOf(k) = SlotOf(a)
  BY <1>3 DEF Names
<1>5. ~(k < a)
  BY <1>2, <1>4, SlotApart, Constants
<1>6. a < k => k >= a + Capacity
  BY <1>4, SlotApart, Constants
<1> QED BY <1>1, <1>2, <1>3, <1>4, <1>5, <1>6, Constants

-----------------------------------------------------------------------------
(* The socket thread's packet.                                             *)

LEMMA AskedStep == IInv /\ [Next]_vars => AskedInv'
<1> SUFFICES ASSUME IInv, [Next]_vars PROVE AskedInv'
  OBVIOUS
<1>0. AskedInv /\ TypeOK /\ made \in Nat /\ asked \in Nat /\ checked \in Nat
      /\ rcv \in {"idle", "load", "encrypt", "write"}
  BY TypesOf DEF IInv, TypeOK
<1>1. ASSUME Make PROVE AskedInv'
  <2>1. made' = made + 1 /\ UNCHANGED <<rcv, asked, found, unread, checked>>
    BY <1>1 DEF Make, receiver
  <2>2. ASSUME rcv # "idle", made' <= asked + Lap
        PROVE  buffers'[BufferOf(asked)] = buffers[BufferOf(asked)] /\ made <= asked + Lap
    <3>1. asked < made /\ made < asked + Buffers
      BY <1>0, <2>1, <2>2, LapIs, Constants DEF AskedInv
    <3> QED BY <1>0, <1>1, <2>1, <2>2, <3>1, MakeIs, LapIs
  <2> QED BY <1>0, <2>1, <2>2 DEF AskedInv
<1>2. ASSUME NEW k \in 0..made, Fetch(k) PROVE AskedInv'
  <2>1. /\ k \in Nat /\ k + 1 < made /\ made <= k + Modulus /\ queue[SlotOf(k)].seq = Seq16(k)
        /\ made' = made /\ asked' = k /\ checked' = made /\ rcv' = "load" /\ unread' = {"payload", "nb"}
    BY <1>0, <1>2, Constants DEF Fetch, Found
  <2>2. PICK q \in Nat : /\ Names(SlotOf(k), "seq", q) /\ q < made /\ made <= q + Capacity + 1
                         /\ (q = k \/ q >= k + Capacity)
    BY <2>1, ReadIs DEF Field
  <2>3. Seq16(q) = Seq16(k)
    BY <2>1, <2>2 DEF Names, Says
  <2>4. q = k
    BY <1>0, <2>1, <2>2, <2>3, SeqApart, Constants
  <2> QED BY <2>1, <2>2, <2>4 DEF AskedInv
<1>3. ASSUME NEW f \in Field, Load(f) PROVE AskedInv'
  <2>1. asked + 1 < made
    BY <1>0, <1>3, LoadIs DEF AskedInv
  <2>2. PICK q \in Nat : /\ Names(SlotOf(asked), f, q) /\ q < made
                         /\ (q = asked \/ q >= asked + Capacity)
    BY <1>0, <2>1, ReadIs
  <2>3. UNCHANGED <<made, buffers, queue, asked, checked>>
    BY <1>3 DEF Load
  <2>4. f = "payload" => queue[SlotOf(asked)].payload = BufferOf(q)
    BY <2>2 DEF Names, Says
  <2>5. f = "nb" /\ made <= asked + Lap => queue[SlotOf(asked)].nb = buffers[BufferOf(asked)].nb
    <3>1. made <= asked + Lap => q = asked /\ made <= q + Buffers
      BY <1>0, <2>2, LapIs, Constants
    <3> QED BY <2>2, <3>1 DEF Names, Says
  <2>6. CASE f = "payload"
    BY <1>0, <1>3, <2>2, <2>3, <2>4, <2>6, LoadIs DEF AskedInv
  <2>7. CASE f = "nb"
    BY <1>0, <1>3, <2>3, <2>5, <2>7, LoadIs DEF AskedInv
  <2> QED BY <1>0, <1>3, <2>6, <2>7, LoadIs
<1>4. ASSUME UNCHANGED <<made, asked, found, unread, checked>>, rcv' # "idle" => rcv # "idle",
             rcv' # "idle" /\ rcv' # "load" => rcv \in {"encrypt", "write"},
             \A c \in BufferNo : buffers'[c].nb = buffers[c].nb
      PROVE  AskedInv'
  <2>1. BufferOf(asked) \in BufferNo
    BY <1>0, BufferType
  <2> QED BY <1>0, <1>4, <2>1 DEF AskedInv
<1>5. ASSUME Encrypt PROVE AskedInv'
  <2>1. \A c \in BufferNo : buffers'[c].nb = buffers[c].nb
    BY <1>0, <1>5, EncryptIs, LayeredIs
  <2> QED BY <1>0, <1>4, <1>5, <2>1 DEF Encrypt, receiver
<1>6. ASSUME EncryptAgain PROVE AskedInv'
  <2>1. \A c \in BufferNo : buffers'[c].nb = buffers[c].nb
    BY <1>0, <1>6, EncryptAgainIs, LayeredIs
  <2> QED BY <1>4, <1>6, <2>1, EncryptAgainIs
<1>7. ASSUME WriteAgain PROVE AskedInv'
  BY <1>4, <1>7 DEF WriteAgain
<1>8. ASSUME UNCHANGED <<made, buffers, receiver>> PROVE AskedInv'
  BY <1>0, <1>4, <1>8 DEF receiver
<1> QED
  BY <1>1, <1>2, <1>3, <1>5, <1>6, <1>7, <1>8 DEF Next, Begin, Encoded, Cache, Write, vars

-----------------------------------------------------------------------------
(* Encryption, by the publish thread and by the socket thread.             *)

LEMMA LayersStep == IInv /\ [Next]_vars => LayersInv'
<1> SUFFICES ASSUME IInv, [Next]_vars PROVE LayersInv'
  OBVIOUS
<1> USE DEF LayersInv
<1>0. LayersInv /\ AskedInv /\ TypeOK /\ made \in Nat /\ asked \in Nat
  BY TypesOf DEF IInv
<1>1. ASSUME Make PROVE LayersInv'
  <2>1. made' = made + 1 /\ pub' = "encode" /\ hit' = Nobody
    BY <1>1 DEF Make
  <2>2. Newest' = BufferOf(made)
    BY <1>0, <2>1 DEF Newest
  <2>3. buffers'[Newest'].layers = 0
    BY <1>1, <2>2, MakeIs
  <2> QED BY <2>1, <2>3
<1>2. ASSUME Encrypt PROVE LayersInv'
  <2>1. Newest' = Newest /\ made' = made /\ hit' = hit
    BY <1>2 DEF Encrypt, Newest
  <2>2. buffers[Newest].layers = 0 => buffers'[Newest].layers = 1
    BY <1>0, <1>2, EncryptIs, LayeredIs
  <2> QED BY <1>0, <1>2, <2>1, <2>2, EncryptIs
<1>3. ASSUME EncryptAgain PROVE LayersInv'
  <2>1. made' = made /\ pub' = pub /\ Newest' = Newest
    BY <1>3, EncryptAgainIs DEF publisher, Newest
  <2>2. CASE found.payload = Newest
    <3>1. asked + 1 < made /\ hit' = asked
      BY <1>0, <1>3, <2>2, EncryptAgainIs DEF AskedInv
    <3>2. PICK k \in Nat : k < made /\ Newest = BufferOf(k) /\ (k = asked \/ k >= asked + Capacity)
      BY <1>0, <1>3, <2>2, EncryptAgainIs DEF AskedInv
    <3>3. PICK j \in Nat : j = made - 1
      BY <1>0, <3>1
    <3>4. j - asked >= Lap
      <4>1. CASE k = asked
        <5>1. BufferOf(asked) = BufferOf(j) /\ asked < j
          BY <1>0, <3>1, <3>2, <3>3, <4>1 DEF Newest
        <5>2. ~(j - asked < Buffers)
          BY <1>0, <3>3, <5>1, BufferApart
        <5> QED BY <1>0, <3>3, <5>2, LapIs, Constants
      <4>2. CASE k >= asked + Capacity
        BY <1>0, <3>2, <3>3, <4>2, LapIs, Constants
      <4> QED BY <3>2, <4>1, <4>2
    <3>5. hit' # Nobody
      BY <1>0, <3>1 DEF Nobody
    <3> QED BY <1>0, <2>1, <3>1, <3>3, <3>4, <3>5
  <2>3. CASE found.payload # Newest
    <3>1. hit' = hit
      BY <1>3, <2>3, EncryptAgainIs
    <3>2. pub \in Sending => buffers'[Newest] = buffers[Newest]
      BY <1>0, <1>3, <2>3, EncryptAgainIs, LayeredIs, NewestIs
    <3> QED BY <1>0, <2>1, <3>1, <3>2 DEF Sending
  <2> QED BY <2>2, <2>3
<1>4. ASSUME UNCHANGED <<made, buffers, hit>>,
             pub' \in {"idle", "make"} \/ pub' = pub \/ (pub' \in {"cache", "encrypt"} /\ pub \in {"encode", "cache"})
      PROVE  LayersInv'
  BY <1>0, <1>4 DEF Newest
<1>5. ASSUME NEW n \in FrameSizes, Begin(n) PROVE LayersInv'
  BY <1>4, <1>5 DEF Begin
<1>6. ASSUME Encoded PROVE LayersInv'
  BY <1>4, <1>6 DEF Encoded
<1>7. ASSUME NEW f \in Field, Cache(f) PROVE LayersInv'
  BY <1>4, <1>7 DEF Cache
<1>8. ASSUME Write PROVE LayersInv'
  BY <1>4, <1>8 DEF Write
<1>9. ASSUME UNCHANGED <<made, buffers, publisher, hit>> PROVE LayersInv'
  BY <1>4, <1>9 DEF publisher
<1> QED
  BY <1>1, <1>2, <1>3, <1>5, <1>6, <1>7, <1>8, <1>9 DEF Next, Fetch, Load, WriteAgain, vars

-----------------------------------------------------------------------------
(* Types.                                                                  *)

LEMMA TypeStep == IInv /\ [Next]_vars => TypeOK'
<1> SUFFICES ASSUME IInv, [Next]_vars PROVE TypeOK'
  OBVIOUS
<1> USE DEF TypeOK
<1>0. TypeOK /\ AskedInv /\ LeftInv
  BY DEF IInv
<1>1. ASSUME NEW n \in FrameSizes, Begin(n) PROVE TypeOK'
  <2>1. left' \in Nat /\ todo' \in Nat /\ frame' \in Nat
    BY <1>1, FramePackets DEF Begin
  <2>2. out' = 0 /\ failed' = FALSE /\ pub' \in {"idle", "make"}
    BY <1>1 DEF Begin
  <2>3. UNCHANGED <<made, buffers, queue, unset, receiver, hit>>
    BY <1>1 DEF Begin
  <2> QED BY <1>0, <2>1, <2>2, <2>3 DEF receiver
<1>2. ASSUME Make PROVE TypeOK'
  <2>1. left' \in Nat /\ todo' \in Nat
    BY <1>0, <1>2, OnePacket DEF Make, LeftInv
  <2>2. buffers' \in [BufferNo -> [no : Nat \cup {Nobody}, nb : 0..MaxPayload, layers : 0..Spoiled]]
    BY <1>2, MakeIs DEF Buffer
  <2> QED BY <1>0, <1>2, <2>1, <2>2 DEF Make, receiver
<1>3. ASSUME Encoded PROVE TypeOK'
  BY <1>0, <1>3 DEF Encoded, receiver
<1>4. ASSUME NEW f \in Field, Cache(f) PROVE TypeOK'
  <2>1. queue' \in [SlotNo -> [payload : BufferNo \cup {Nobody}, nb : 0..MaxPayload, seq : 0..Modulus - 1]]
    BY <1>4, CacheIs DEF Slot
  <2>2. unset' \subseteq Field /\ pub' \in {"cache", "encrypt"}
    BY <1>0, <1>4 DEF Cache
  <2> QED BY <1>0, <1>4, <2>1, <2>2 DEF Cache, receiver
<1>5. ASSUME Encrypt PROVE TypeOK'
  <2>1. buffers' \in [BufferNo -> [no : Nat \cup {Nobody}, nb : 0..MaxPayload, layers : 0..Spoiled]]
    BY <1>0, <1>5, EncryptIs, LayeredIs DEF Buffer
  <2> QED BY <1>0, <1>5, <2>1 DEF Encrypt, receiver
<1>6. ASSUME Write PROVE TypeOK'
  <2>1. buffers[Newest].nb \in Nat
    BY <1>6, NewestIs, Constants DEF Write, Sending, Buffer
  <2>2. /\ pub' = "idle" \/ pub' = "make"
        /\ failed' = failed \/ failed' = TRUE
        /\ left' = left \/ left' = 0
        /\ todo' = todo \/ todo' = 0
    BY <1>6 DEF Write
  <2>3. pub' \in {"idle", "make", "encode", "cache", "encrypt", "write"} /\ left' \in Nat /\ todo' \in Nat
    BY <1>0, <2>2
  <2>4. failed' \in BOOLEAN
    BY <1>0, <2>2, Zenon
  <2>5. out' \in Nat
    <3>1. out' = out \/ out' = out + buffers[Newest].nb
      BY <1>6 DEF Write, Newest
    <3> QED BY <1>0, <2>1, <3>1
  <2>6. UNCHANGED <<made, buffers, queue, unset, frame, receiver, hit>>
    BY <1>6 DEF Write
  <2> QED BY <1>0, <2>3, <2>4, <2>5, <2>6 DEF receiver
<1>7. ASSUME NEW k \in 0..made, Fetch(k) PROVE TypeOK'
  <2>1. k \in Nat
    BY <1>0
  <2> QED BY <1>0, <1>7, <2>1 DEF Fetch, publisher
<1>8. ASSUME NEW f \in Field, Load(f) PROVE TypeOK'
  <2>1. f = "payload" => queue[SlotOf(asked)].payload \in BufferNo
    <3>1. asked + 1 < made /\ asked \in Nat
      BY <1>0, <1>8, LoadIs DEF AskedInv
    <3>2. f = "payload" => \E k \in Nat : queue[SlotOf(asked)].payload = BufferOf(k)
      BY <1>8, <3>1, ReadIs DEF Names, Says
    <3> QED BY <3>2, BufferType
  <2>2. found' \in [payload : BufferNo, nb : 0..MaxPayload]
    <3>1. found'.payload \in BufferNo
      BY <1>0, <1>8, <2>1, LoadIs
    <3>2. found' \in [payload : BufferNo \cup {Nobody}, nb : 0..MaxPayload]
      BY <1>0, <1>8, LoadIs
    <3> QED BY <3>1, <3>2
  <2>3. rcv' \in {"load", "encrypt"} /\ unread' \subseteq {"payload", "nb"}
    BY <1>0, <1>8 DEF Load
  <2> QED BY <1>0, <1>8, <2>2, <2>3 DEF Load, publisher
<1>9. ASSUME EncryptAgain PROVE TypeOK'
  <2>1. buffers' \in [BufferNo -> [no : Nat \cup {Nobody}, nb : 0..MaxPayload, layers : 0..Spoiled]]
    BY <1>0, <1>9, EncryptAgainIs, LayeredIs DEF Buffer
  <2>2. hit' \in Nat \cup {Nobody}
    BY <1>0, <1>9, EncryptAgainIs
  <2> QED BY <1>0, <1>9, <2>1, <2>2 DEF EncryptAgain, publisher
<1>10. ASSUME WriteAgain PROVE TypeOK'
  BY <1>0, <1>10 DEF WriteAgain, publisher
<1>11. ASSUME UNCHANGED vars PROVE TypeOK'
  BY <1>0, <1>11 DEF vars, publisher, receiver
<1> QED
  BY <1>1, <1>2, <1>3, <1>4, <1>5, <1>6, <1>7, <1>8, <1>9, <1>10, <1>11 DEF Next

-----------------------------------------------------------------------------
(* The theorems.                                                           *)

LEMMA Invariance == Spec => []IInv
<1>1. IInv /\ [Next]_vars => IInv'
  BY TypeStep, LeftStep, RingStep, SlotsStep, AskedStep, LayersStep DEF IInv
<1> QED BY InitIInv, <1>1, PTL DEF Spec

LEMMA Sends == IInv => SendsOwn
<1> SUFFICES ASSUME IInv, pub = "write" PROVE SendsOwn
  BY DEF SendsOwn
<1>1. buffers[Newest].no = made - 1
  BY NewestIs DEF Sending
<1>2. buffers[Newest].layers = 1 \/ (hit # Nobody /\ made - 1 - hit >= Lap)
  BY DEF IInv, LayersInv
<1> QED BY <1>1, <1>2 DEF SendsOwn, Newest

LEMMA Resends == IInv => ResendIsAsked
<1> SUFFICES ASSUME IInv, rcv \in {"encrypt", "write"}, ~Overtaken
             PROVE  buffers[found.payload].no = asked /\ buffers[found.payload].nb = found.nb
  BY DEF ResendIsAsked
<1>1. /\ made \in Nat /\ asked \in Nat /\ asked + 1 < made /\ checked <= asked + Capacity + 1
      /\ "payload" \notin unread /\ "nb" \notin unread
  BY TypesOf DEF IInv, AskedInv
<1>2. made <= asked + Lap
  BY <1>1, LapIs DEF Overtaken
<1>3. PICK k \in Nat : k < made /\ found.payload = BufferOf(k) /\ (k = asked \/ k >= asked + Capacity)
  BY <1>1 DEF IInv, AskedInv
<1>4. k = asked
  BY <1>1, <1>2, <1>3, LapIs, Constants
<1>5. buffers[BufferOf(asked)].no = asked
  BY <1>1, <1>2, LapIs, Constants DEF IInv, RingKept
<1>6. found.nb = buffers[BufferOf(asked)].nb
  BY <1>1, <1>2 DEF IInv, AskedInv
<1> QED BY <1>3, <1>4, <1>5, <1>6

(* Every variable of the sending side keeps its type, although the slots   *)
(* are read while they are stored to.                                      *)
THEOREM TypeCorrect == Spec => []TypeOK
  BY Invariance, PTL DEF IInv

(* Whatever the publish thread writes is the packet it made, encrypted     *)
(* once, unless a NACK for a packet a lap of the ring back was answered    *)
(* under it.                                                               *)
THEOREM SendsOwnCorrect == Spec => []SendsOwn
  BY Invariance, Sends, PTL

(* What the socket thread resends is the packet it was asked for, unless   *)
(* the ring came round to it after the slot was looked at.                 *)
THEOREM ResendCorrect == Spec => []ResendIsAsked
  BY Invariance, Resends, PTL

(* A frame is sent whole, or not begun, or up to the write that failed.    *)
THEOREM WholeFrameCorrect == Spec => []WholeFrame
  BY Invariance, PTL DEF IInv, LeftInv
=============================================================================
