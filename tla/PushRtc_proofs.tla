--------------------------- MODULE PushRtc_proofs ---------------------------
(***************************************************************************)
(* Proofs about the video side of the WebRTC push, for rings of any length *)
(* and any number of frames.                                               *)
(***************************************************************************)
EXTENDS PushRtc, SequenceTheorems, TLAPS

-----------------------------------------------------------------------------
(* The ring of YangMediaBuffer.                                            *)

RingType == [frames : [Slot -> Frame \cup {NoFrame}], put : Slot, get : Slot, size : 0..Cache]

LEMMA Fields ==
  ASSUME NEW b \in RingType
  PROVE  /\ b.frames \in [Slot -> Frame \cup {NoFrame}] /\ b.put \in Slot /\ b.get \in Slot
         /\ b.size \in 0..Cache /\ b.size \in Nat
         /\ Following(b.put) \in Slot /\ Following(b.get) \in Slot
<1>1. /\ b.frames \in [Slot -> Frame \cup {NoFrame}] /\ b.put \in Slot /\ b.get \in Slot
      /\ b.size \in 0..Cache
  BY DEF RingType
<1>2. \A s \in Slot : Following(s) \in Slot
  BY CacheAssumption DEF Following, Slot
<1>3. b.size \in Nat
  BY <1>1, CacheAssumption
<1> QED BY <1>1, <1>2, <1>3

(* The slot after s, and the walk from the oldest frame.                   *)
LEMMA Around ==
  ASSUME NEW b \in RingType
  PROVE  /\ \A s \in Slot : Following(s) \in Slot
         /\ \A i \in 0..Cache : Place(b, i) \in Slot
         /\ \A i \in 0..Cache - 1 : Following(Place(b, i)) = Place(b, i + 1)
         /\ \A i \in 1..Cache : Place([b EXCEPT !.get = Following(@), !.size = @ - 1], i - 1) = Place(b, i)
<1>1. b.get \in Slot
  BY Fields
<1> DEFINE g == b.get
<1>2. \A s \in Slot : Following(s) \in Slot
  BY CacheAssumption DEF Following, Slot
<1>3. \A i : Place(b, i) = IF g + i < Cache THEN g + i ELSE g + i - Cache
  BY DEF Place
<1>4. \A i : Place([b EXCEPT !.get = Following(@), !.size = @ - 1], i)
               = IF Following(g) + i < Cache THEN Following(g) + i ELSE Following(g) + i - Cache
  BY DEF Place
<1> HIDE DEF g
<1>5. g \in Slot
  BY <1>1 DEF g
<1>6. \A i \in 0..Cache : Place(b, i) \in Slot
  BY <1>3, <1>5, CacheAssumption DEF Slot
<1>7. \A i \in 0..Cache - 1 : Following(Place(b, i)) = Place(b, i + 1)
  BY <1>3, <1>5, CacheAssumption DEF Slot, Following
<1>8. ASSUME NEW i \in 1..Cache
      PROVE  Place([b EXCEPT !.get = Following(@), !.size = @ - 1], i - 1) = Place(b, i)
  <2>1. CASE g + 1 >= Cache
    BY <1>3, <1>4, <1>5, <2>1, CacheAssumption DEF Slot, Following
  <2>2. CASE g + 1 < Cache
    BY <1>3, <1>4, <1>5, <2>2, CacheAssumption DEF Slot, Following
  <2> QED BY <1>5, <2>1, <2>2, CacheAssumption DEF Slot
<1> QED BY <1>2, <1>6, <1>7, <1>8

(* The frames that wait are a sequence of frames.                          *)
LEMMA Waiting ==
  ASSUME NEW b \in RingType, NEW F, \A i \in 1..b.size : Contents(b)[i] \in F
  PROVE  /\ Contents(b) \in Seq(F) /\ Len(Contents(b)) = b.size /\ b.size \in Nat
         /\ \A i \in 1..b.size : Contents(b)[i] = b.frames[Place(b, i - 1)]
<1>1. b.size \in Nat
  BY Fields
<1>2. Contents(b) \in [1..b.size -> F]
  BY DEF Contents
<1>3. Contents(b) \in Seq(F) /\ DOMAIN Contents(b) = 1..b.size
  BY <1>1, <1>2, SeqDef
<1>4. Len(Contents(b)) = b.size
  BY <1>1, <1>3, LenProperties
<1> QED BY <1>1, <1>3, <1>4 DEF Contents

(* putFrame appends, or turns the frame away.                              *)
LEMMA PutAppends ==
  ASSUME NEW b, BufferOK(b), NEW f \in Frame
  PROVE  /\ BufferOK(PutFrame(b, f))
         /\ Contents(PutFrame(b, f)) =
              IF Len(Contents(b)) < Cache THEN Append(Contents(b), f) ELSE Contents(b)
<1>1. /\ b \in RingType /\ b.put = Place(b, b.size)
      /\ \A i \in 1..b.size : Contents(b)[i] \in Frame
  BY DEF BufferOK, RingType
<1>2. /\ Contents(b) \in Seq(Frame) /\ Len(Contents(b)) = b.size /\ b.size \in 0..Cache
      /\ \A i \in 1..b.size : Contents(b)[i] = b.frames[Place(b, i - 1)]
  BY <1>1, Waiting, Fields
<1>3. CASE b.size >= Cache
  BY <1>1, <1>2, <1>3, CacheAssumption DEF PutFrame
<1>4. CASE b.size < Cache
  <2> DEFINE c == PutFrame(b, f)
  <2>1. /\ c.frames = [b.frames EXCEPT ![b.put] = f] /\ c.put = Following(b.put)
        /\ c.get = b.get /\ c.size = b.size + 1
        /\ c = [b EXCEPT !.frames = c.frames, !.put = c.put, !.size = c.size]
    <3>1. PutFrame(b, f) = [b EXCEPT !.frames[b.put] = f, !.put = Following(@), !.size = @ + 1]
      BY <1>2, <1>4, CacheAssumption DEF PutFrame
    <3> QED BY <1>1, <3>1 DEF RingType
  <2> HIDE DEF c
  <2>2. b.size \in 0..Cache - 1 /\ b.size + 1 \in 0..Cache
    BY <1>2, <1>4, CacheAssumption
  <2>3. c \in RingType
    <3>1. /\ b.frames \in [Slot -> Frame \cup {NoFrame}] /\ b.put \in Slot
          /\ Following(b.put) \in Slot
      BY <1>1, Fields
    <3>2. c.frames \in [Slot -> Frame \cup {NoFrame}] /\ c.put \in Slot /\ c.size \in 0..Cache
      BY <2>1, <2>2, <3>1
    <3> QED BY <1>1, <2>1, <3>2 DEF RingType
  <2>4. \A i : Place(c, i) = Place(b, i)
    BY <2>1 DEF Place
  <2>5. c.put = Place(c, c.size)
    <3>1. Following(Place(b, b.size)) = Place(b, b.size + 1)
      BY <1>1, <2>2, Around
    <3> QED BY <1>1, <2>1, <2>4, <3>1
  <2>6. ASSUME NEW i \in 1..b.size PROVE Place(b, i - 1) # b.put
    <3>1. i - 1 \in Nat /\ i - 1 < b.size
      BY <1>2
    <3>2. b.get \in Slot
      BY <1>1 DEF RingType
    <3> QED BY <1>1, <1>2, <1>4, <3>1, <3>2, CacheAssumption DEF Place, Slot
  <2>7. ASSUME NEW i \in 1..b.size + 1
        PROVE  Contents(c)[i] = IF i = b.size + 1 THEN f ELSE Contents(b)[i]
    <3>1. Contents(c)[i] = c.frames[Place(b, i - 1)]
      BY <2>1, <2>4 DEF Contents
    <3>2. CASE i = b.size + 1
      <4>1. i - 1 = b.size
        BY <1>2, <3>2
      <4> QED BY <1>1, <2>1, <3>1, <3>2, <4>1 DEF RingType
    <3>3. CASE i # b.size + 1
      <4>1. i \in 1..b.size /\ i - 1 \in 0..Cache
        BY <1>2, <3>3, CacheAssumption
      <4> QED BY <1>1, <1>2, <2>1, <2>6, <3>1, <3>3, <4>1, Around DEF RingType
    <3> QED BY <3>2, <3>3
  <2>8. \A i \in 1..c.size : Contents(c)[i] \in Frame
    <3>1. \A i \in 1..b.size + 1 : i = b.size + 1 \/ i \in 1..b.size
      BY <1>2
    <3> QED BY <1>1, <2>1, <2>7, <3>1
  <2>9. BufferOK(c)
    BY <2>3, <2>5, <2>8 DEF BufferOK, RingType
  <2>10. Contents(c) = Append(Contents(b), f)
    <3> DEFINE s == Contents(b)  t == Append(s, f)
    <3>1. Contents(c) \in Seq(Frame) /\ Len(Contents(c)) = b.size + 1
      BY <2>1, <2>3, <2>8, Waiting
    <3>2. s \in Seq(Frame) /\ Len(s) = b.size
      BY <1>2
    <3> HIDE DEF s
    <3>3. /\ t \in Seq(Frame) /\ Len(t) = b.size + 1 /\ t[b.size + 1] = f
          /\ \A i \in 1..b.size : t[i] = s[i]
      BY <3>2, AppendProperties
    <3> HIDE DEF t
    <3>4. \A i \in 1..b.size + 1 : Contents(c)[i] = t[i]
      <4>1. \A i \in 1..b.size + 1 : i = b.size + 1 \/ i \in 1..b.size
        BY <1>2
      <4> QED BY <2>7, <3>3, <4>1 DEF s
    <3>5. Contents(c) = t
      BY <3>1, <3>3, <3>4, SeqEqual
    <3> QED BY <3>5 DEF t, s
  <2> QED BY <1>2, <1>4, <2>9, <2>10 DEF c
<1> QED BY <1>2, <1>3, <1>4, CacheAssumption

(* getFrameRef hands out the oldest frame and removes it.                  *)
LEMMA TakeRemoves ==
  ASSUME NEW b, BufferOK(b), b.size > 0
  PROVE  /\ BufferOK(Taken(b)) /\ GetFrameRef(b) = Contents(b)[1] /\ GetFrameRef(b) \in Frame
         /\ Contents(b) # <<>> /\ Contents(Taken(b)) = Tail(Contents(b))
<1>1. /\ b \in RingType /\ b.put = Place(b, b.size)
      /\ \A i \in 1..b.size : Contents(b)[i] \in Frame
  BY DEF BufferOK, RingType
<1>2. /\ Contents(b) \in Seq(Frame) /\ Len(Contents(b)) = b.size /\ b.size \in 1..Cache
      /\ \A i \in 1..b.size : Contents(b)[i] = b.frames[Place(b, i - 1)]
  BY <1>1, Waiting, CacheAssumption DEF RingType
<1> DEFINE c == Taken(b)
<1>3. /\ c = [b EXCEPT !.get = Following(@), !.size = @ - 1] /\ c.frames = b.frames /\ c.put = b.put
      /\ c.size = b.size - 1 /\ c.get = Following(b.get)
  BY <1>1 DEF Taken, RingType
<1>4. c \in RingType
  <2>1. b.size - 1 \in 0..Cache /\ Following(b.get) \in Slot
    <3>1. b.size - 1 \in 0..Cache
      BY <1>2, CacheAssumption
    <3> QED BY <1>1, <3>1, Fields
  <2> QED BY <1>1, <2>1 DEF Taken, RingType
<1>5. \A i \in 1..Cache : Place(c, i - 1) = Place(b, i)
  BY <1>1, <1>3, Around
<1> HIDE DEF c
<1>6. c.put = Place(c, c.size)
  BY <1>1, <1>2, <1>3, <1>5
<1>7. ASSUME NEW i \in 1..b.size - 1 PROVE Contents(c)[i] = Contents(b)[i + 1]
  <2>1. i \in 1..Cache /\ i + 1 \in 1..b.size /\ (i + 1) - 1 = i
    BY <1>2, CacheAssumption
  <2>2. Contents(c)[i] = c.frames[Place(c, i - 1)]
    BY <1>3 DEF Contents
  <2>3. Contents(b)[i + 1] = b.frames[Place(b, i)]
    BY <1>2, <2>1
  <2> QED BY <1>3, <1>5, <2>1, <2>2, <2>3
<1>8. \A i \in 1..c.size : Contents(c)[i] \in Frame
  <2>1. \A i \in 1..b.size - 1 : i + 1 \in 1..b.size
    BY <1>2
  <2> QED BY <1>1, <1>3, <1>7, <2>1
<1>9. BufferOK(c)
  BY <1>4, <1>6, <1>8 DEF BufferOK, RingType
<1>10. GetFrameRef(b) = Contents(b)[1] /\ GetFrameRef(b) \in Frame
  <2>1. Place(b, 1 - 1) = b.get
    BY <1>1, CacheAssumption DEF Place, RingType, Slot
  <2>2. 1 \in 1..b.size
    BY <1>2
  <2> QED BY <1>1, <1>2, <2>1, <2>2 DEF GetFrameRef
<1>11. Contents(c) = Tail(Contents(b)) /\ Contents(b) # <<>>
  <2> DEFINE s == Contents(b)  t == Tail(s)
  <2>1. Contents(c) \in Seq(Frame) /\ Len(Contents(c)) = b.size - 1
    BY <1>3, <1>4, <1>8, Waiting
  <2>2. s \in Seq(Frame) /\ Len(s) = b.size
    BY <1>2
  <2> HIDE DEF s
  <2>3. s # <<>>
    BY <1>2, <2>2, EmptySeq
  <2>4. /\ t \in Seq(Frame) /\ Len(t) = b.size - 1
        /\ \A i \in 1..b.size - 1 : t[i] = s[i + 1]
    BY <2>2, <2>3, HeadTailProperties
  <2> HIDE DEF t
  <2>5. Contents(c) = t
    BY <1>7, <2>1, <2>4, SeqEqual DEF s
  <2> QED BY <2>3, <2>5 DEF t, s
<1> QED BY <1>9, <1>10, <1>11 DEF c

(* A ring that is empty, and one emptied by resetIndex.                    *)
LEMMA EmptyOK == BufferOK(EmptyBuffer) /\ Contents(EmptyBuffer) = <<>> /\ EmptyBuffer.size = 0
<1>1. EmptyBuffer.size = 0 /\ EmptyBuffer \in RingType /\ EmptyBuffer.put = Place(EmptyBuffer, 0)
  BY CacheAssumption DEF EmptyBuffer, RingType, Slot, Place
<1>2. Contents(EmptyBuffer) = <<>>
  <2>1. Contents(EmptyBuffer) \in Seq(Frame) /\ Len(Contents(EmptyBuffer)) = 0
    BY <1>1, Waiting
  <2> QED BY <2>1, EmptySeq
<1> QED BY <1>1, <1>2 DEF BufferOK, RingType

LEMMA ResetOK ==
  ASSUME NEW b, BufferOK(b)
  PROVE  BufferOK(ResetIndex(b)) /\ ResetIndex(b).size = 0
<1> DEFINE c == ResetIndex(b)
<1>1. c.size = 0 /\ c \in RingType /\ c.put = 0 /\ c.get = 0
  <2>1. 0 \in Slot /\ 0 \in 0..Cache
    BY CacheAssumption DEF Slot
  <2>2. b \in RingType
    BY DEF BufferOK, RingType
  <2> QED BY <2>1, <2>2 DEF ResetIndex, RingType
<1> HIDE DEF c
<1>2. c.put = Place(c, c.size) /\ \A i \in 1..c.size : Contents(c)[i] \in Frame
  BY <1>1, CacheAssumption DEF Place
<1> QED BY <1>1, <1>2 DEF BufferOK, RingType, c

(* What Append, Head and Tail do, by indexes.                              *)
LEMMA Lengths ==
  ASSUME NEW S, NEW q \in Seq(S)
  PROVE  /\ Len(q) \in Nat /\ (Len(q) = 0 <=> q = <<>>)
         /\ \A i \in 1..Len(q) : q[i] \in S
         /\ Len(q) > 0 => /\ Head(q) = q[1] /\ Tail(q) \in Seq(S)
                          /\ Len(Tail(q)) = Len(q) - 1
                          /\ \A i \in 1..Len(q) - 1 : Tail(q)[i] = q[i + 1]
         /\ \A m \in S : /\ Append(q, m) \in Seq(S) /\ Len(Append(q, m)) = Len(q) + 1
                             /\ Append(q, m)[Len(q) + 1] = m
                             /\ \A i \in 1..Len(q) : Append(q, m)[i] = q[i]
<1>1. Len(q) \in Nat /\ (Len(q) = 0 <=> q = <<>>)
  BY EmptySeq, LenProperties
<1>2. \A i \in 1..Len(q) : q[i] \in S
  BY ElementOfSeq
<1>3. \A m \in S : /\ Append(q, m) \in Seq(S) /\ Len(Append(q, m)) = Len(q) + 1
                       /\ Append(q, m)[Len(q) + 1] = m
                       /\ \A i \in 1..Len(q) : Append(q, m)[i] = q[i]
  BY AppendProperties
<1>4. ASSUME Len(q) > 0
      PROVE  /\ Head(q) = q[1] /\ Tail(q) \in Seq(S) /\ Len(Tail(q)) = Len(q) - 1
             /\ \A i \in 1..Len(q) - 1 : Tail(q)[i] = q[i + 1]
  <2>1. q # <<>>
    BY <1>1, <1>4
  <2> QED BY <2>1, HeadTailProperties
<1> QED BY <1>1, <1>2, <1>3, <1>4

-----------------------------------------------------------------------------
(* The messages, which nothing but the webrtc and the message thread touch.*)

MessageType ==
  /\ msg \in Message
  /\ web \in {"create", "post", "pushing", "check", "signal", "callback", "spin"}
  /\ loop \in {"new", "top", "wait", "woken", "drain"} \cup Message
  /\ waitState \in BOOLEAN /\ messages \in Seq(Message)
  /\ handled \subseteq Message /\ missed \subseteq Message

(* Message m has neither been handled nor waits to be.                     *)
Fresh(m) == m \notin handled /\ \A i \in 1..Len(messages) : messages[i] # m

(* Each message is posted once, in order; the one just posted is the last. *)
PostedOnce ==
  /\ \A i \in 1..Len(messages) : messages[i] \notin handled
  /\ \A i, j \in 1..Len(messages) : messages[i] = messages[j] => i = j
  /\ web \in {"create", "post", "pushing"} => Fresh(msg)
  /\ msg = "camera" => Fresh("connect")
  /\ web \in {"create", "callback"} => msg = "camera"
  /\ web = "check" /\ Len(messages) > 0 => messages[Len(messages)] = msg

(* m_waitState is set exactly during the wait, and what is being handled   *)
(* is at the front of the list.                                            *)
LoopInv ==
  /\ waitState <=> loop \in {"wait", "woken"}
  /\ loop = "new" => Len(messages) = 0 /\ web \in {"create", "post", "callback", "spin"}
  /\ loop \in Message => Len(messages) > 0 /\ messages[1] = loop

(* NoLostWakeup, by the length of the list.                                *)
WakeupInv ==
  loop \in {"top", "wait"} /\ Len(messages) > 0
    => web = "check" \/ (web = "signal" /\ loop = "wait") \/ missed \ handled # {}

MInv == MessageType /\ PostedOnce /\ LoopInv /\ WakeupInv

LEMMA MInit == Init => MInv
<1> SUFFICES ASSUME Init PROVE MInv
  OBVIOUS
<1>1. messages \in Seq(Message) /\ Len(messages) = 0
  BY EmptySeq DEF Init
<1>2. /\ web = "create" /\ msg = "camera" /\ loop = "new" /\ waitState = FALSE
      /\ handled = {} /\ missed = {}
  BY DEF Init
<1>3. MessageType
  BY <1>1, <1>2 DEF MessageType, Message
<1>4. PostedOnce
  BY <1>1, <1>2 DEF PostedOnce, Fresh
<1>5. LoopInv /\ WakeupInv
  BY <1>1, <1>2 DEF LoopInv, WakeupInv, Message
<1> QED BY <1>3, <1>4, <1>5 DEF MInv

(* Whether the message thread or its poster moves, when the list stays.    *)
LEMMA PushKeeps ==
  ASSUME MInv, Push
  PROVE  MInv'
<1> DEFINE q == messages  r == Append(q, msg)
<1>1. /\ web = "pushing" /\ web' = "check" /\ messages' = r
      /\ UNCHANGED <<msg, loop, waitState, handled, missed>>
  BY DEF Push
<1>2. MessageType /\ PostedOnce /\ LoopInv
  BY DEF MInv
<1>3. q \in Seq(Message) /\ msg \in Message /\ Len(q) \in Nat
  BY <1>2, LenProperties DEF MessageType
<1>4. /\ r \in Seq(Message) /\ Len(r) = Len(q) + 1 /\ r[Len(q) + 1] = msg
      /\ \A i \in 1..Len(q) : r[i] = q[i]
  BY <1>3, Lengths
<1>5. /\ \A i \in 1..Len(q) : q[i] \notin handled /\ q[i] # msg
      /\ \A i, j \in 1..Len(q) : q[i] = q[j] => i = j
      /\ msg \notin handled
      /\ msg = "camera" => /\ "connect" \notin handled
                           /\ \A i \in 1..Len(q) : q[i] # "connect"
  BY <1>1, <1>2 DEF PostedOnce, Fresh
<1>6. \A i \in 1..Len(q) + 1 : i \in 1..Len(q) \/ i = Len(q) + 1
  BY <1>3
<1> HIDE DEF q, r
<1>7. MessageType'
  BY <1>1, <1>2, <1>4 DEF MessageType
<1>8. PostedOnce'
  <2>1. \A i \in 1..Len(r) : r[i] \notin handled
    BY <1>4, <1>5, <1>6
  <2>2. \A i, j \in 1..Len(r) : r[i] = r[j] => i = j
    BY <1>4, <1>5, <1>6
  <2>3. msg = "camera" => "connect" \notin handled /\ \A i \in 1..Len(r) : r[i] # "connect"
    BY <1>4, <1>5, <1>6
  <2>4. r[Len(r)] = msg
    BY <1>4
  <2> QED BY <1>1, <2>1, <2>2, <2>3, <2>4 DEF PostedOnce, Fresh
<1>9. LoopInv'
  <2>1. loop # "new"
    BY <1>1, <1>2 DEF LoopInv
  <2>2. loop \in Message => Len(r) > 0 /\ r[1] = loop
    <3>1. Len(q) > 0 => r[1] = q[1]
      BY <1>3, <1>4
    <3> QED BY <1>2, <1>3, <1>4, <3>1 DEF LoopInv, q
  <2> QED BY <1>1, <1>2, <2>1, <2>2 DEF LoopInv
<1>10. WakeupInv'
  BY <1>1 DEF WakeupInv
<1> QED BY <1>7, <1>8, <1>9, <1>10 DEF MInv

(* The message at the front is done.                                       *)
LEMMA FinishKeeps ==
  ASSUME MInv, NEW m \in Message, loop = m, Finish(m), UNCHANGED posting
  PROVE  MInv'
<1> DEFINE q == messages  r == Tail(q)
<1>1. /\ loop' = "drain" /\ messages' = r /\ handled' = handled \cup {m}
      /\ UNCHANGED <<web, msg, waitState, missed>>
  BY DEF Finish, posting
<1>2. MessageType /\ PostedOnce /\ LoopInv
  BY DEF MInv
<1>3. q \in Seq(Message) /\ Len(q) \in Nat /\ Len(q) > 0 /\ q[1] = m
  BY <1>2, LenProperties DEF MessageType, LoopInv
<1>4. /\ r \in Seq(Message) /\ Len(r) = Len(q) - 1
      /\ \A i \in 1..Len(q) - 1 : r[i] = q[i + 1]
  BY <1>3, Lengths
<1>5. /\ \A i \in 1..Len(q) : q[i] \notin handled
      /\ \A i, j \in 1..Len(q) : q[i] = q[j] => i = j
      /\ web \in {"create", "post", "pushing"} =>
           msg \notin handled /\ \A i \in 1..Len(q) : q[i] # msg
      /\ msg = "camera" => "connect" \notin handled /\ \A i \in 1..Len(q) : q[i] # "connect"
      /\ web = "check" => q[Len(q)] = msg
  BY <1>2, <1>3 DEF PostedOnce, Fresh
<1>6. /\ 1 \in 1..Len(q)
      /\ \A i \in 1..Len(r) : i + 1 \in 1..Len(q) /\ i + 1 # 1 /\ r[i] = q[i + 1]
  BY <1>3, <1>4
<1>7. web = "check" /\ Len(r) > 0 => r[Len(r)] = msg
  <2>1. Len(r) > 0 => Len(r) \in 1..Len(q) - 1 /\ Len(r) + 1 = Len(q)
    BY <1>3, <1>4
  <2> QED BY <1>4, <1>5, <2>1
<1> HIDE DEF q, r
<1>8. MessageType'
  BY <1>1, <1>2, <1>4 DEF MessageType
<1>9. PostedOnce'
  <2>1. \A i \in 1..Len(r) : r[i] \notin handled \cup {m}
    BY <1>3, <1>5, <1>6
  <2>2. \A i, j \in 1..Len(r) : r[i] = r[j] => i = j
    BY <1>3, <1>4, <1>5, <1>6
  <2>3. \A n : n \notin handled /\ (\A i \in 1..Len(q) : q[i] # n) =>
          n \notin handled \cup {m} /\ \A i \in 1..Len(r) : r[i] # n
    BY <1>3, <1>6
  <2> QED BY <1>1, <1>2, <1>5, <1>7, <2>1, <2>2, <2>3 DEF PostedOnce, Fresh
<1>10. LoopInv' /\ WakeupInv'
  BY <1>1, <1>2 DEF LoopInv, WakeupInv, Message
<1> QED BY <1>8, <1>9, <1>10 DEF MInv

LEMMA MStep ==
  ASSUME MInv, [Next]_vars
  PROVE  MInv'
<1> DEFINE same == UNCHANGED <<messages, handled>>
<1>1. MessageType /\ PostedOnce /\ LoopInv /\ WakeupInv
  BY DEF MInv
<1>2. /\ messages \in Seq(Message) /\ Len(messages) \in Nat
      /\ (Len(messages) = 0 <=> messages = <<>>)
      /\ Len(messages) > 0 => Head(messages) = messages[1] /\ messages[1] \in Message
  <2>1. messages \in Seq(Message)
    BY <1>1 DEF MessageType
  <2>2. Len(messages) > 0 => 1 \in 1..Len(messages)
    BY <2>1, LenProperties
  <2> QED BY <2>1, <2>2, Lengths
<1> USE DEF MInv, MessageType, PostedOnce, Fresh, LoopInv, WakeupInv, Message
<1>3. CASE UNCHANGED <<posting, queue>>
  BY <1>1, <1>3 DEF posting, queue
<1>4. CASE \E o \in BOOLEAN : Create(o)
  BY <1>1, <1>4 DEF Create, queue
<1>5. CASE PostLost
  BY <1>1, <1>5 DEF PostLost, Posted, queue
<1>6. CASE Post
  BY <1>1, <1>6 DEF Post, queue
<1>7. CASE Check
  <2>1. /\ web = "check" /\ UNCHANGED <<msg, loop, waitState, messages, handled>>
        /\ web' \in {"signal", "callback", "spin"} /\ (waitState => web' = "signal")
        /\ (web' = "callback" => msg = "camera")
        /\ missed' = IF loop = "top" THEN missed \cup {msg} ELSE missed
    BY <1>1, <1>7 DEF Check, Posted
  <2>2. WakeupInv'
    <3>1. CASE loop = "top" /\ Len(messages) > 0
      <4>1. Len(messages) \in 1..Len(messages)
        BY <1>2, <3>1
      <4>2. msg \notin handled
        BY <1>1, <2>1, <3>1, <4>1
      <4> QED BY <2>1, <3>1, <4>2
    <3>2. CASE ~(loop = "top" /\ Len(messages) > 0)
      BY <1>1, <2>1, <3>2
    <3> QED BY <3>1, <3>2
  <2> HIDE DEF WakeupInv
  <2> QED BY <1>1, <2>1, <2>2
<1>8. CASE Signal
  BY <1>1, <1>8 DEF Signal, Posted
<1>9. CASE SetCallback
  BY <1>1, <1>9 DEF SetCallback, queue
<1>10. CASE StartLoop
  BY <1>1, <1>10 DEF StartLoop, KeepAllButLoop, posting
<1>11. CASE Wait
  BY <1>1, <1>11 DEF Wait, KeepAllButLoop, posting
<1>12. CASE SpuriousWakeup
  BY <1>1, <1>12 DEF SpuriousWakeup, KeepAllButLoop, posting
<1>13. CASE Wake
  BY <1>1, <1>13 DEF Wake, KeepAllButLoop, posting
<1>14. CASE Drain
  BY <1>1, <1>2, <1>14 DEF Drain, KeepAllButLoop, posting
<1>15. CASE StartVideoCapture \/ Connect \/ ConnectFails
  BY <1>15, FinishKeeps DEF StartVideoCapture, Connect, ConnectFails
<1>16. ASSUME DrainTorn \/ Publish \/ Stamp \/ PutBuffers \/ Exit \/ Record \/ Encoder
       PROVE  UNCHANGED <<posting, queue>>
  BY <1>16 DEF DrainTorn, Publish, Stamp, PutBuffers, Exit, KeepAllButCapture, Record, Render,
     CopyFrame, FrameQueued, Encoder, EncoderStart, EncoderTake, EncoderSkip, Encode, KeepAllButReaders
<1> HIDE DEF MInv
<1> QED BY <1>3, <1>4, <1>5, <1>6, <1>7, <1>8, <1>9, <1>10, <1>11, <1>12, <1>13, <1>14, <1>15,
           <1>16, PushKeeps DEF Next, Web, Handle, vars

-----------------------------------------------------------------------------
(* The capture thread and its stamps.                                      *)

CaptureType ==
  /\ exited \in BOOLEAN /\ camera \in {"none", "failed", "open"}
  /\ cap \in {"off", "bad", "select", "put"} /\ isCapture \in BOOLEAN
  /\ count \in 0..MaxFrames /\ base \in 0..MaxFrames /\ pts \in 0..MaxFrames

(* The base of the stamps is never after the frame to stamp.               *)
CInv == CaptureType /\ base <= count /\ (cap = "put" => count >= 1)

LEMMA CInit == Init => CInv
<1> SUFFICES ASSUME Init PROVE CInv
  OBVIOUS
<1>1. /\ exited = FALSE /\ camera = "none" /\ cap = "off" /\ count = 0 /\ base = 0 /\ pts = 0
      /\ isCapture = FALSE
  BY DEF Init
<1>2. exited \in BOOLEAN /\ isCapture \in BOOLEAN
  BY <1>1
<1>3. count \in 0..MaxFrames /\ base \in 0..MaxFrames /\ pts \in 0..MaxFrames /\ base <= count
  BY <1>1, FramesAssumption
<1> QED BY <1>1, <1>2, <1>3 DEF CInv, CaptureType

LEMMA CStep ==
  ASSUME CInv, [Next]_vars
  PROVE  CInv'
<1> USE FramesAssumption DEF CInv, CaptureType
<1>1. CASE UNCHANGED <<exited, capture>>
  BY <1>1 DEF capture
<1>2. CASE \E o \in BOOLEAN : Create(o)
  BY <1>2 DEF Create
<1>3. CASE StartVideoCapture
  BY <1>3 DEF StartVideoCapture
<1>4. CASE Connect
  BY <1>4 DEF Connect, Curstamp
<1>5. CASE Stamp
  <2>1. /\ count < MaxFrames /\ count' = count + 1 /\ cap' = "put"
        /\ base' = (IF base = 0 THEN count ELSE base) /\ pts' = count - base'
        /\ UNCHANGED <<exited, camera, isCapture>>
    BY <1>5 DEF Stamp, KeepAllButCapture
  <2>2. base' \in 0..count
    BY <2>1
  <2>3. pts' \in 0..count
    BY <2>1, <2>2
  <2> QED BY <2>1, <2>2, <2>3
<1>6. CASE PutBuffers
  BY <1>6 DEF PutBuffers, KeepAllButCapture
<1>7. CASE DrainTorn \/ Exit
  BY <1>7 DEF DrainTorn, Exit, capture
<1>8. ASSUME PostLost \/ Post \/ Push \/ Check \/ Signal \/ SetCallback \/ StartLoop \/ Wait
             \/ SpuriousWakeup \/ Wake \/ Drain \/ Publish \/ ConnectFails \/ Record \/ Encoder
      PROVE  UNCHANGED <<exited, capture>>
  BY <1>8 DEF PostLost, Post, Push, Check, Signal, SetCallback, KeepAllButQueue, StartLoop, Wait,
     SpuriousWakeup, Wake, Drain, KeepAllButLoop, Publish, ConnectFails, Record, Render,
     CopyFrame, FrameQueued, Encoder, EncoderStart, EncoderTake, EncoderSkip, Encode,
     KeepAllButReaders
<1> HIDE DEF CInv
<1> QED BY <1>1, <1>2, <1>3, <1>4, <1>5, <1>6, <1>7, <1>8 DEF Next, Web, Handle, vars

-----------------------------------------------------------------------------
(* The rings and their readers.                                            *)

ReaderType ==
  /\ BufferOK(pre) /\ BufferOK(out)
  /\ attached \in BOOLEAN /\ callback \in BOOLEAN
  /\ at \in [Reader -> {"off", "start", "idle", "copy", "queue", "encode"}]
  /\ held \in [Reader -> [frame : Frame \cup {NoFrame}, slot : Slot]]
  /\ last \in Frame \cup {NoFrame} /\ seen \in [Reader -> 0..MaxFrames]

(* A reference h is to the slot just given back, which the writer reaches  *)
(* with the frame that fills ring b.                                       *)
Keeps(h, b) ==
  Following(h.slot) = b.get /\ (b.size < Cache => b.frames[h.slot] = h.frame)

HeldInv ==
  /\ web = "create" => at["record"] = "off"
  /\ \A r \in Reader : held[r].frame # NoFrame
       => at[r] \in {"copy", "encode"} /\ Keeps(held[r], Ring(r))

(* The encoder gets the frames in the order they were taken.               *)
InOrder(s, l) ==
  /\ \A i \in 1..Len(s) : l # NoFrame => l.no < s[i].no
  /\ \A i, j \in 1..Len(s) : i < j => s[i].no < s[j].no
UpTo(s, l, n) ==
  /\ \A i \in 1..Len(s) : s[i].no <= n
  /\ l # NoFrame => l.no <= n
OrderInv ==
  /\ InOrder(Contents(out), last)
  /\ UpTo(Contents(out), last, IF cap = "put" THEN count - 1 ELSE count)

RInv == ReaderType /\ HeldInv /\ OrderInv

LEMMA PutKeeps ==
  ASSUME NEW b, BufferOK(b), NEW f \in Frame,
         NEW h \in [frame : Frame \cup {NoFrame}, slot : Slot], Keeps(h, b)
  PROVE  Keeps(h, PutFrame(b, f))
<1>1. /\ b \in RingType /\ b.put = Place(b, b.size) /\ h.slot \in Slot
  BY DEF BufferOK, RingType
<1>2. b.get \in Slot /\ b.put \in Slot /\ b.size \in 0..Cache /\ b.frames \in [Slot -> Frame \cup {NoFrame}]
  BY <1>1, Fields
<1>3. CASE b.size >= Cache
  BY <1>3 DEF PutFrame
<1>4. CASE b.size < Cache
  <2>1. PutFrame(b, f) = [b EXCEPT !.frames[b.put] = f, !.put = Following(@), !.size = @ + 1]
    BY <1>2, <1>4, CacheAssumption DEF PutFrame
  <2> DEFINE c == PutFrame(b, f)
  <2>2. c.get = b.get /\ c.size = b.size + 1 /\ c.frames = [b.frames EXCEPT ![b.put] = f]
    BY <1>1, <2>1 DEF RingType
  <2> HIDE DEF c
  <2>3. b.size + 1 < Cache => b.put # h.slot
    BY <1>1, <1>2, CacheAssumption DEF Keeps, Following, Place, Slot
  <2>4. c.size < Cache => c.frames[h.slot] = h.frame
    BY <1>1, <1>2, <1>4, <2>2, <2>3 DEF Keeps
  <2> QED BY <2>2, <2>4 DEF Keeps, c
<1> QED BY <1>2, <1>3, <1>4, CacheAssumption

LEMMA TakeKeeps ==
  ASSUME NEW b, BufferOK(b), b.size > 0
  PROVE  /\ HandOut(b) \in [frame : Frame, slot : Slot] /\ Keeps(HandOut(b), Taken(b))
<1>1. b \in RingType
  BY DEF BufferOK, RingType
<1>2. Taken(b).frames = b.frames /\ Taken(b).get = Following(b.get)
  BY <1>1 DEF Taken, RingType
<1>3. GetFrameRef(b) \in Frame /\ b.get \in Slot
  BY <1>1, TakeRemoves, Fields
<1> QED BY <1>2, <1>3 DEF HandOut, Keeps, GetFrameRef

LEMMA RInit == Init => RInv
<1> SUFFICES ASSUME Init PROVE RInv
  OBVIOUS
<1>1. /\ pre = EmptyBuffer /\ out = EmptyBuffer /\ attached = FALSE /\ callback = FALSE
      /\ at = [r \in Reader |-> "off"] /\ held = [r \in Reader |-> Nothing]
      /\ last = NoFrame /\ seen = [r \in Reader |-> 0] /\ web = "create"
  BY DEF Init
<1>2. 0 \in Slot /\ 0 \in 0..MaxFrames
  BY CacheAssumption, FramesAssumption DEF Slot
<1>3. ReaderType
  BY <1>1, <1>2, EmptyOK DEF ReaderType, Nothing
<1>4. HeldInv
  BY <1>1 DEF HeldInv, Nothing, Reader
<1>5. OrderInv
  <2>1. Contents(out) = <<>> /\ Len(<<>>) = 0
    BY <1>1, EmptyOK, EmptySeq
  <2> QED BY <1>1, <2>1 DEF OrderInv, InOrder, UpTo
<1> QED BY <1>3, <1>4, <1>5 DEF RInv

(* The frames that wait for the encoder, as a sequence.                    *)
LEMMA OutFrames ==
  ASSUME RInv
  PROVE  /\ BufferOK(out) /\ Contents(out) \in Seq(Frame)
         /\ Len(Contents(out)) = out.size /\ out.size \in Nat
<1>1. out \in RingType /\ \A i \in 1..out.size : Contents(out)[i] \in Frame
  BY DEF RInv, ReaderType, BufferOK, RingType
<1> QED BY <1>1, Waiting DEF RInv, ReaderType

(* putBuffers.                                                             *)
LEMMA RPut ==
  ASSUME RInv, CInv, PutBuffers
  PROVE  RInv'
<1> DEFINE f == [no |-> count, pts |-> pts]
<1>1. /\ cap = "put" /\ cap' = "select" /\ pre' = PutFrame(pre, f)
      /\ out' = (IF isCapture THEN PutFrame(out, f) ELSE out)
      /\ UNCHANGED <<count, web, attached, callback, at, held, last, seen>>
  BY DEF PutBuffers, KeepAllButCapture, readers, posting
<1>2. f \in Frame /\ f.no = count /\ count \in Nat
  BY <1>1, FramesAssumption DEF CInv, CaptureType, Frame
<1> HIDE DEF f
<1>3. BufferOK(pre) /\ BufferOK(out) /\ held \in [Reader -> [frame : Frame \cup {NoFrame}, slot : Slot]]
  BY DEF RInv, ReaderType
<1>4. ReaderType'
  BY <1>1, <1>2, <1>3, PutAppends DEF RInv, ReaderType
<1>5. HeldInv'
  <2>1. \A r \in Reader : Keeps(held[r], Ring(r)) => Keeps(held[r], Ring(r))'
    BY <1>1, <1>2, <1>3, PutKeeps DEF Ring, Keeps
  <2> QED BY <1>1, <2>1 DEF RInv, HeldInv
<1>6. OrderInv'
  <2> DEFINE s == Contents(out)  t == Contents(out')
  <2>1. s \in Seq(Frame) /\ Len(s) \in Nat /\ InOrder(s, last) /\ UpTo(s, last, count - 1)
    BY <1>1, OutFrames DEF RInv, OrderInv
  <2>2. t = s \/ t = Append(s, f)
    BY <1>1, <1>2, <1>3, PutAppends
  <2>3. (Contents(out))' = t /\ last' = last /\ (IF cap = "put" THEN count - 1 ELSE count)' = count
    BY <1>1 DEF Contents, Place
  <2> HIDE DEF s, t
  <2>4. \A g \in Frame : g.no \in Nat
    BY FramesAssumption DEF Frame
  <2>5. last # NoFrame => last.no \in Nat
    BY <2>4 DEF RInv, ReaderType
  <2>6. \A i \in 1..Len(s) : s[i].no \in Nat
    BY <2>1, <2>4, Lengths
  <2>7. InOrder(t, last) /\ UpTo(t, last, count)
    <3>1. CASE t = s
      <4>1. InOrder(t, last) /\ UpTo(s, last, count - 1)
        BY <2>1, <3>1
      <4>2. \A i \in 1..Len(s) : s[i].no <= count
        BY <1>2, <2>6, <4>1 DEF UpTo
      <4>3. last # NoFrame => last.no <= count
        BY <1>2, <2>5, <4>1 DEF UpTo
      <4> QED BY <3>1, <4>1, <4>2, <4>3 DEF UpTo
    <3>2. CASE t = Append(s, f)
      <4>1. /\ Len(t) = Len(s) + 1 /\ t[Len(s) + 1] = f /\ \A i \in 1..Len(s) : t[i] = s[i]
        BY <1>2, <2>1, <3>2, Lengths
      <4>2. \A i \in 1..Len(s) + 1 : i \in 1..Len(s) \/ i = Len(s) + 1
        BY <2>1
      <4>3. \A i \in 1..Len(s) : s[i].no < count
        BY <1>2, <2>1, <2>6 DEF UpTo
      <4>4. last # NoFrame => last.no < count
        BY <1>2, <2>1, <2>5 DEF UpTo
      <4>5. InOrder(t, last)
        BY <1>2, <2>1, <4>1, <4>2, <4>3, <4>4 DEF InOrder
      <4>6. UpTo(t, last, count)
        BY <1>2, <2>5, <2>6, <4>1, <4>2, <4>3, <4>4 DEF UpTo
      <4> QED BY <4>5, <4>6
    <3> QED BY <2>2, <3>1, <3>2
  <2> QED BY <2>3, <2>7 DEF OrderInv
<1> QED BY <1>4, <1>5, <1>6 DEF RInv

(* A step that leaves the rings and their readers, but may start one.      *)
LEMMA RStays ==
  ASSUME RInv, CInv, UNCHANGED <<rings, held, last, seen>>,
         attached' \in BOOLEAN, callback' \in BOOLEAN,
         at' \in [Reader -> {"off", "start", "idle", "copy", "queue", "encode"}],
         \A r \in Reader : at'[r] # at[r] => at[r] = "off",
         web' = "create" => at'["record"] = "off",
         count' \in Nat, count' >= count, cap' = "put" => cap = "put" \/ count' > count
  PROVE  RInv'
<1>1. UNCHANGED <<pre, out, held, last, seen>>
  BY DEF rings
<1>2. ReaderType' /\ HeldInv'
  <2>1. ReaderType'
    BY <1>1 DEF RInv, ReaderType, BufferOK, Place, Contents
  <2>2. \A r \in Reader : Keeps(held[r], Ring(r))' <=> Keeps(held[r], Ring(r))
    BY <1>1 DEF Keeps, Ring
  <2>3. HeldInv'
    BY <1>1, <2>2 DEF RInv, HeldInv
  <2> QED BY <2>1, <2>3
<1>3. OrderInv'
  <2> DEFINE s == Contents(out)
  <2>1. s \in Seq(Frame) /\ Len(s) \in Nat /\ InOrder(s, last)
        /\ UpTo(s, last, IF cap = "put" THEN count - 1 ELSE count)
    BY OutFrames DEF RInv, OrderInv
  <2>2. (Contents(out))' = s
    BY <1>1 DEF Contents, Place
  <2> HIDE DEF s
  <2>3. \A g \in Frame : g.no \in Nat
    BY FramesAssumption DEF Frame
  <2>4. (last # NoFrame => last.no \in Nat) /\ \A i \in 1..Len(s) : s[i].no \in Nat
    BY <2>1, <2>3, Lengths DEF RInv, ReaderType
  <2>5. count \in Nat
    BY FramesAssumption DEF CInv, CaptureType
  <2>6. (IF cap = "put" THEN count - 1 ELSE count) <= (IF cap' = "put" THEN count' - 1 ELSE count')
    <3> DEFINE n == count  m == count'
    <3>1. n \in Nat /\ m \in Nat /\ m >= n /\ (cap' = "put" => cap = "put" \/ m > n)
      BY <2>5
    <3> HIDE DEF n, m
    <3>2. (IF cap = "put" THEN n - 1 ELSE n) <= (IF cap' = "put" THEN m - 1 ELSE m)
      BY <3>1
    <3> QED BY <3>2 DEF n, m
  <2>7. UpTo(s, last, IF cap' = "put" THEN count' - 1 ELSE count')
    BY <2>1, <2>4, <2>5, <2>6 DEF UpTo
  <2> QED BY <1>1, <2>1, <2>2, <2>7 DEF OrderInv, InOrder
<1> QED BY <1>2, <1>3 DEF RInv

(* The readers' own steps: what they do to OrderInv.                       *)
LEMMA OrderStays ==
  ASSUME RInv, UNCHANGED <<out, last, cap, count>>
  PROVE  OrderInv'
  BY DEF RInv, OrderInv, InOrder, UpTo, Contents, Place

LEMMA RRecord ==
  ASSUME RInv, Record
  PROVE  RInv'
<1>1. UNCHANGED <<out, last, web, cap, count, attached, callback>>
  BY DEF Record, Render, CopyFrame, FrameQueued, KeepAllButReaders, capture, posting, rings
<1>2. OrderInv'
  BY <1>1, OrderStays
<1>3. ReaderType /\ HeldInv
  BY DEF RInv
<1>4. CASE Render
  <2> DEFINE then == IF callback THEN "copy" ELSE "idle"
  <2>1. /\ pre.size > 0 /\ pre' = Taken(pre) /\ at["record"] = "idle"
        /\ at' = [at EXCEPT !["record"] = then]
        /\ held' = [held EXCEPT !["record"] = IF then = "idle" THEN Nothing ELSE HandOut(pre)]
        /\ seen' = [seen EXCEPT !["record"] = GetFrameRef(pre).no]
    BY <1>4 DEF Render, Take
  <2>2. BufferOK(pre) /\ BufferOK(Taken(pre)) /\ GetFrameRef(pre) \in Frame
        /\ HandOut(pre) \in [frame : Frame, slot : Slot] /\ Keeps(HandOut(pre), Taken(pre))
    BY <1>3, <2>1, TakeRemoves, TakeKeeps DEF ReaderType
  <2>3. GetFrameRef(pre).no \in 0..MaxFrames /\ Nothing \in [frame : {NoFrame}, slot : Slot]
    BY <2>2, FramesAssumption, CacheAssumption DEF Frame, Nothing, Slot
  <2> HIDE DEF then
  <2>4. then \in {"copy", "idle"}
    BY DEF then
  <2>5. held' \in [Reader -> [frame : Frame \cup {NoFrame}, slot : Slot]]
    <3>1. (IF then = "idle" THEN Nothing ELSE HandOut(pre)) \in [frame : Frame \cup {NoFrame}, slot : Slot]
      BY <2>2, <2>3
    <3> QED BY <1>3, <2>1, <3>1 DEF ReaderType
  <2>6. ReaderType'
    <3>1. at' \in [Reader -> {"off", "start", "idle", "copy", "queue", "encode"}]
      BY <1>3, <2>1, <2>4 DEF ReaderType
    <3>2. seen' \in [Reader -> 0..MaxFrames]
      BY <1>3, <2>1, <2>3 DEF ReaderType
    <3>3. BufferOK(pre)' /\ BufferOK(out)'
      BY <1>1, <1>3, <2>1, <2>2 DEF ReaderType, BufferOK, Contents, Place
    <3> QED BY <1>1, <1>3, <2>5, <3>1, <3>2, <3>3 DEF ReaderType
  <2>7. HeldInv'
    <3>1. held'["record"].frame # NoFrame => at'["record"] = "copy" /\ Keeps(held["record"], Ring("record"))'
      <4>1. /\ held'["record"] = (IF then = "idle" THEN Nothing ELSE HandOut(pre))
            /\ at'["record"] = then
        BY <1>3, <2>1 DEF ReaderType, Reader
      <4>2. CASE then = "idle"
        BY <2>3, <4>1, <4>2
      <4>3. CASE then # "idle"
        BY <2>1, <2>2, <2>4, <4>1, <4>3 DEF Ring, Keeps
      <4> QED BY <4>2, <4>3
    <3>2. /\ held'["encoder"] = held["encoder"] /\ at'["encoder"] = at["encoder"]
          /\ Ring("encoder")' = Ring("encoder")
      BY <1>1, <1>3, <2>1 DEF ReaderType, Ring, Reader
    <3>3. Keeps(held["encoder"], Ring("encoder"))' <=> Keeps(held["encoder"], Ring("encoder"))
      BY <3>2 DEF Keeps
    <3> QED BY <1>1, <1>3, <2>1, <3>1, <3>2, <3>3 DEF HeldInv, Reader
  <2> QED BY <1>2, <2>6, <2>7 DEF RInv
<1>5. ASSUME NEW then \in {"queue", "idle"}, at["record"] # "off", Release("record", then),
             UNCHANGED <<pre, seen>>
      PROVE  RInv'
  <2>1. /\ at' = [at EXCEPT !["record"] = then] /\ held' = [held EXCEPT !["record"] = Nothing]
    BY <1>5 DEF Release
  <2>2. Nothing \in [frame : {NoFrame}, slot : Slot]
    BY CacheAssumption DEF Nothing, Slot
  <2>3. ReaderType'
    <3>1. BufferOK(pre)' /\ BufferOK(out)'
      BY <1>1, <1>3, <1>5 DEF ReaderType, BufferOK, Contents, Place
    <3> QED BY <1>1, <1>3, <1>5, <2>1, <2>2, <3>1 DEF ReaderType
  <2>4. HeldInv'
    <3>1. Ring("encoder")' = Ring("encoder")
      BY <1>1 DEF Ring
    <3>2. held'["encoder"] = held["encoder"] /\ at'["encoder"] = at["encoder"]
      BY <1>3, <2>1 DEF ReaderType, Reader
    <3>3. held'["record"].frame = NoFrame
      BY <1>3, <2>1, <2>2 DEF ReaderType, Reader
    <3>4. Keeps(held["encoder"], Ring("encoder"))' <=> Keeps(held["encoder"], Ring("encoder"))
      BY <3>1, <3>2 DEF Keeps
    <3> QED BY <1>1, <1>3, <1>5, <3>2, <3>3, <3>4 DEF HeldInv, Reader
  <2> QED BY <1>2, <2>3, <2>4 DEF RInv
<1>6. CASE CopyFrame
  BY <1>5, <1>6 DEF CopyFrame, rings
<1>7. CASE FrameQueued
  BY <1>5, <1>7 DEF FrameQueued, rings
<1> QED BY <1>4, <1>6, <1>7 DEF Record

(* The encoder takes the oldest frame; l is what it remembers of it.       *)
LEMMA OrderTakes ==
  ASSUME RInv, out.size > 0, UNCHANGED <<cap, count>>, out' = Taken(out),
         last' \in {last, GetFrameRef(out)}
  PROVE  OrderInv' /\ (last # NoFrame => last.no < GetFrameRef(out).no)
<1> DEFINE s == Contents(out)  t == Contents(out')  f == GetFrameRef(out)
           n == IF cap = "put" THEN count - 1 ELSE count
<1>1. s \in Seq(Frame) /\ Len(s) \in Nat /\ Len(s) > 0 /\ InOrder(s, last) /\ UpTo(s, last, n)
  BY OutFrames DEF RInv, OrderInv
<1>2. t = Tail(s) /\ f = s[1]
  BY TakeRemoves DEF RInv, ReaderType
<1>3. (Contents(out))' = t /\ (IF cap = "put" THEN count - 1 ELSE count)' = n
  BY DEF Contents, Place
<1> HIDE DEF s, t, f, n
<1>4. Len(t) = Len(s) - 1 /\ \A i \in 1..Len(t) : t[i] = s[i + 1] /\ i + 1 \in 1..Len(s)
  <2>1. Len(t) = Len(s) - 1 /\ \A i \in 1..Len(s) - 1 : t[i] = s[i + 1]
    BY <1>1, <1>2, Lengths
  <2>2. \A i \in 1..Len(s) - 1 : i + 1 \in 1..Len(s)
    BY <1>1
  <2> QED BY <2>1, <2>2
<1>5. 1 \in 1..Len(s) /\ \A i \in 1..Len(t) : 1 < i + 1
  BY <1>1, <1>4
<1>6. last # NoFrame => last.no < f.no
  BY <1>1, <1>2, <1>5 DEF InOrder
<1>7. f.no <= n /\ \A i \in 1..Len(t) : f.no < t[i].no /\ t[i].no <= n
  BY <1>1, <1>2, <1>4, <1>5 DEF InOrder, UpTo
<1>8. \A i, j \in 1..Len(t) : i < j => t[i].no < t[j].no
  <2> SUFFICES ASSUME NEW i \in 1..Len(t), NEW j \in 1..Len(t), i < j PROVE t[i].no < t[j].no
    OBVIOUS
  <2>1. i + 1 \in 1..Len(s) /\ j + 1 \in 1..Len(s) /\ i + 1 < j + 1
    BY <1>1, <1>4
  <2>2. s[i + 1].no < s[j + 1].no
    BY <1>1, <2>1 DEF InOrder
  <2> QED BY <1>4, <2>2
<1>9. last' # NoFrame => last'.no <= n /\ \A i \in 1..Len(t) : last'.no < t[i].no
  <2>1. CASE last' = last
    BY <1>1, <1>4, <2>1 DEF InOrder, UpTo
  <2>2. CASE last' = f
    BY <1>7, <2>2
  <2> QED BY <2>1, <2>2 DEF f
<1>10. InOrder(t, last') /\ UpTo(t, last', n)
  BY <1>7, <1>8, <1>9 DEF InOrder, UpTo
<1> QED BY <1>3, <1>6, <1>10 DEF OrderInv, f

LEMMA REncoder ==
  ASSUME RInv, Encoder
  PROVE  RInv'
<1>1. UNCHANGED <<pre, web, cap, count, attached, callback>>
  BY DEF Encoder, EncoderStart, EncoderTake, EncoderSkip, Encode, KeepAllButReaders, capture,
         posting, rings
<1>2. ReaderType /\ HeldInv
  BY DEF RInv
<1>3. Ring("record")' = Ring("record") /\ BufferOK(pre)'
  BY <1>1, <1>2 DEF Ring, ReaderType, BufferOK, Contents, Place
<1>4. Nothing \in [frame : {NoFrame}, slot : Slot]
  BY CacheAssumption DEF Nothing, Slot
(* It is enough to look at the encoder's own reference.                    *)
<1>5. ASSUME NEW h \in [frame : Frame \cup {NoFrame}, slot : Slot],
             NEW a \in {"idle", "encode"},
             held' = [held EXCEPT !["encoder"] = h], at' = [at EXCEPT !["encoder"] = a],
             h.frame # NoFrame => a = "encode" /\ Keeps(h, out')
      PROVE  HeldInv'
  <2>1. held'["record"] = held["record"] /\ at'["record"] = at["record"]
    BY <1>2, <1>5 DEF ReaderType, Reader
  <2>2. held'["encoder"] = h /\ at'["encoder"] = a
    BY <1>2, <1>5 DEF ReaderType, Reader
  <2>3. Keeps(held["record"], Ring("record"))' <=> Keeps(held["record"], Ring("record"))
    BY <1>3, <2>1 DEF Keeps
  <2>4. held'["encoder"].frame # NoFrame => at'["encoder"] = "encode" /\ Keeps(held["encoder"], Ring("encoder"))'
    BY <1>5, <2>2 DEF Keeps, Ring
  <2> QED BY <1>1, <1>2, <2>1, <2>3, <2>4 DEF HeldInv, Reader
<1>6. CASE EncoderStart
  <2>1. /\ at["encoder"] = "start" /\ at' = [at EXCEPT !["encoder"] = "idle"]
        /\ out' = ResetIndex(out) /\ UNCHANGED <<held, last, seen>>
    BY <1>6 DEF EncoderStart
  <2>2. BufferOK(out') /\ out'.size = 0
    BY <1>2, <2>1, ResetOK DEF ReaderType
  <2>3. Contents(out') \in Seq(Frame) /\ Len(Contents(out')) = 0
    BY <2>2, Waiting DEF BufferOK, RingType
  <2>4. OrderInv'
    <3>1. (Contents(out))' = Contents(out') /\ UNCHANGED <<last, cap, count>>
      BY <1>1, <2>1 DEF Contents, Place
    <3>2. UpTo(Contents(out'), last, IF cap = "put" THEN count - 1 ELSE count)
      BY <2>3 DEF RInv, OrderInv, UpTo
    <3> QED BY <2>3, <3>1, <3>2 DEF OrderInv, InOrder
  <2>5. ReaderType'
    BY <1>1, <1>2, <1>3, <2>1, <2>2 DEF ReaderType, BufferOK, Contents, Place
  <2>6. HeldInv'
    <3>1. held["encoder"].frame = NoFrame
      BY <1>2, <2>1 DEF HeldInv, Reader
    <3>2. held["encoder"] \in [frame : Frame \cup {NoFrame}, slot : Slot] /\ held' = [held EXCEPT !["encoder"] = held["encoder"]]
      BY <1>2, <2>1 DEF ReaderType, Reader
    <3> QED BY <1>5, <2>1, <3>1, <3>2
  <2> QED BY <2>4, <2>5, <2>6 DEF RInv
<1>7. ASSUME NEW then \in {"idle", "encode"}, Take("encoder", out, then), out' = Taken(out),
             last' \in {last, GetFrameRef(out)}
      PROVE  RInv'
  <2> DEFINE h == IF then = "idle" THEN Nothing ELSE HandOut(out)
  <2>1. /\ out.size > 0 /\ at' = [at EXCEPT !["encoder"] = then]
        /\ held' = [held EXCEPT !["encoder"] = h]
        /\ seen' = [seen EXCEPT !["encoder"] = GetFrameRef(out).no]
    BY <1>7 DEF Take
  <2>2. BufferOK(Taken(out)) /\ GetFrameRef(out) \in Frame
        /\ HandOut(out) \in [frame : Frame, slot : Slot] /\ Keeps(HandOut(out), Taken(out))
    BY <1>2, <2>1, TakeRemoves, TakeKeeps DEF ReaderType
  <2>3. h \in [frame : Frame \cup {NoFrame}, slot : Slot]
    BY <1>4, <2>2
  <2>4. h.frame # NoFrame => then = "encode" /\ Keeps(h, out')
    BY <1>4, <1>7, <2>2
  <2> HIDE DEF h
  <2>5. HeldInv'
    BY <1>5, <2>1, <2>3, <2>4
  <2>6. OrderInv'
    BY <1>1, <1>7, <2>1, OrderTakes
  <2>7. ReaderType'
    <3>1. at' \in [Reader -> {"off", "start", "idle", "copy", "queue", "encode"}]
      BY <1>2, <2>1 DEF ReaderType
    <3>2. held' \in [Reader -> [frame : Frame \cup {NoFrame}, slot : Slot]]
      BY <1>2, <2>1, <2>3 DEF ReaderType
    <3>3. seen' \in [Reader -> 0..MaxFrames]
      <4>1. GetFrameRef(out).no \in 0..MaxFrames
        BY <2>2, FramesAssumption DEF Frame
      <4> QED BY <1>2, <2>1, <4>1 DEF ReaderType
    <3>4. BufferOK(out)'
      BY <1>7, <2>2 DEF BufferOK, Contents, Place
    <3>5. last' \in Frame \cup {NoFrame}
      BY <1>2, <1>7, <2>2 DEF ReaderType
    <3> QED BY <1>1, <1>2, <1>3, <3>1, <3>2, <3>3, <3>4, <3>5 DEF ReaderType
  <2> QED BY <2>5, <2>6, <2>7 DEF RInv
<1>8. CASE EncoderTake
  BY <1>7, <1>8 DEF EncoderTake
<1>9. CASE EncoderSkip
  BY <1>7, <1>9 DEF EncoderSkip
<1>10. CASE Encode
  <2>1. /\ at' = [at EXCEPT !["encoder"] = "idle"] /\ held' = [held EXCEPT !["encoder"] = Nothing]
        /\ UNCHANGED <<out, last, seen>>
    BY <1>10 DEF Encode, Release, rings
  <2>2. OrderInv'
    BY <1>1, <2>1, OrderStays
  <2>3. ReaderType'
    BY <1>1, <1>2, <1>3, <1>4, <2>1 DEF ReaderType, BufferOK, Contents, Place
  <2>4. HeldInv'
    BY <1>4, <1>5, <2>1
  <2> QED BY <2>2, <2>3, <2>4 DEF RInv
<1> QED BY <1>6, <1>8, <1>9, <1>10 DEF Encoder

LEMMA RStep ==
  ASSUME CInv, RInv, [Next]_vars
  PROVE  RInv'
<1>1. /\ attached \in BOOLEAN /\ callback \in BOOLEAN
      /\ at \in [Reader -> {"off", "start", "idle", "copy", "queue", "encode"}]
      /\ count \in Nat /\ (web = "create" => at["record"] = "off")
  BY FramesAssumption DEF RInv, ReaderType, HeldInv, CInv, CaptureType
<1>2. CASE \E o \in BOOLEAN : Create(o)
  <2>1. /\ web = "create" /\ web' = "post" /\ at' = [at EXCEPT !["record"] = "idle"]
        /\ cap' # "put" /\ UNCHANGED <<rings, held, last, seen, attached, callback, count>>
    BY <1>2 DEF Create
  <2>2. \A r \in Reader : at'[r] # at[r] => at[r] = "off"
    BY <1>1, <2>1 DEF Reader
  <2>3. at' \in [Reader -> {"off", "start", "idle", "copy", "queue", "encode"}]
    BY <1>1, <2>1
  <2> QED BY <1>1, <2>1, <2>2, <2>3, RStays
<1>3. CASE Publish
  <2>1. /\ at["encoder"] = "off" /\ at' = [at EXCEPT !["encoder"] = "start"]
        /\ UNCHANGED <<web, cap, rings, held, last, seen, attached, callback, count>>
    BY <1>3 DEF Publish, posting, capture
  <2>2. \A r \in Reader : at'[r] # at[r] => at[r] = "off"
    BY <1>1, <2>1 DEF Reader
  <2>3. at' \in [Reader -> {"off", "start", "idle", "copy", "queue", "encode"}]
    BY <1>1, <2>1
  <2>4. at'["record"] = at["record"]
    BY <1>1, <2>1 DEF Reader
  <2> QED BY <1>1, <2>1, <2>2, <2>3, <2>4, RStays
(* Everything else leaves the readers where they are.                      *)
<1>4. ASSUME UNCHANGED <<rings, at, held, last, seen>>, attached' \in {attached, TRUE},
             callback' \in {callback, TRUE}, web' = "create" => web = "create",
             \/ UNCHANGED <<cap, count>>
             \/ cap' # "put" /\ count' = count
             \/ count' = count + 1
      PROVE  RInv'
  <2>1. /\ attached' \in BOOLEAN /\ callback' \in BOOLEAN
        /\ at' \in [Reader -> {"off", "start", "idle", "copy", "queue", "encode"}]
        /\ \A r \in Reader : at'[r] # at[r] => at[r] = "off"
        /\ (web' = "create" => at'["record"] = "off")
    BY <1>1, <1>4
  <2>2. count' \in Nat /\ count' >= count /\ (cap' = "put" => cap = "put" \/ count' > count)
    BY <1>1, <1>4
  <2> QED BY <1>4, <2>1, <2>2, RStays
<1>5. CASE PostLost \/ Post \/ Push \/ Check \/ Signal
  BY <1>4, <1>5 DEF PostLost, Post, Push, Check, Signal, Posted, KeepAllButQueue, capture, readers
<1>6. CASE SetCallback
  BY <1>4, <1>6 DEF SetCallback, capture
<1>7. CASE StartLoop \/ Wait \/ SpuriousWakeup \/ Wake \/ Drain
  BY <1>4, <1>7 DEF StartLoop, Wait, SpuriousWakeup, Wake, Drain, KeepAllButLoop, posting, capture,
     readers
<1>8. CASE DrainTorn \/ Exit \/ UNCHANGED vars
  BY <1>4, <1>8 DEF DrainTorn, Exit, vars, posting, capture, readers
<1>9. CASE StartVideoCapture
  BY <1>4, <1>9 DEF StartVideoCapture, posting
<1>10. CASE Connect \/ ConnectFails
  BY <1>4, <1>10 DEF Connect, ConnectFails, posting, capture, readers
<1>11. CASE Stamp
  BY <1>4, <1>11 DEF Stamp, KeepAllButCapture, posting, readers
<1> QED BY <1>2, <1>3, <1>5, <1>6, <1>7, <1>8, <1>9, <1>10, <1>11, RPut, RRecord, REncoder
        DEF Next, Web, Handle

-----------------------------------------------------------------------------
(* The theorems.                                                           *)

LEMMA Invariance == Spec => [](MInv /\ CInv /\ RInv)
<1>1. Init => MInv /\ CInv /\ RInv
  BY MInit, CInit, RInit
<1>2. MInv /\ CInv /\ RInv /\ [Next]_vars => (MInv /\ CInv /\ RInv)'
  BY MStep, CStep, RStep
<1> QED BY <1>1, <1>2, PTL DEF Spec

(* The five threads keep the types of what they share, and the rings'      *)
(* indexes in step, however long the rings.                                *)
THEOREM TypeCorrect == Spec => []TypeOK
<1>1. MInv /\ CInv /\ RInv => TypeOK
  BY DEF MInv, MessageType, CInv, CaptureType, RInv, ReaderType, TypeOK
<1> QED BY Invariance, <1>1, PTL

(* A frame a reader works on is not overwritten before the writer has      *)
(* filled the ring again.                                                  *)
THEOREM HeldCorrect == Spec => []HeldIntact
<1>1. RInv => HeldIntact
  BY DEF RInv, HeldInv, Keeps, HeldIntact
<1> QED BY Invariance, <1>1, PTL

(* The only wakeups lost come between the message thread's last look at    *)
(* the list and m_waitState.                                               *)
THEOREM WakeupCorrect == Spec => []NoLostWakeup
<1>1. MInv => NoLostWakeup
  <2>1. MInv => Len(messages) \in Nat /\ (Len(messages) = 0 <=> messages = <<>>)
    BY Lengths DEF MInv, MessageType
  <2> QED BY <2>1 DEF MInv, WakeupInv, NoLostWakeup
<1> QED BY Invariance, <1>1, PTL

(* The preview ring is a lossy first-in first-out queue.                   *)
THEOREM PreviewRefines == Spec => PreviewIsFifo
<1>1. Init => PreFifo!Init
  BY EmptyOK DEF Init, PreFifo!Init
<1>2. ASSUME CInv, RInv, [Next]_vars PROVE [PreFifo!Next]_(Contents(pre))
  <2>1. BufferOK(pre)
    BY <1>2 DEF RInv, ReaderType
  <2>2. CASE PutBuffers
    <3> DEFINE f == [no |-> count, pts |-> pts]
    <3>1. pre' = PutFrame(pre, f) /\ cap = "put"
      BY <2>2 DEF PutBuffers
    <3>2. f \in Frame
      BY <1>2, <3>1, FramesAssumption DEF CInv, CaptureType, Frame
    <3> HIDE DEF f
    <3>3. Contents(pre') = IF Len(Contents(pre)) < Cache THEN Append(Contents(pre), f) ELSE Contents(pre)
      BY <2>1, <3>1, <3>2, PutAppends
    <3>4. Contents(pre)' = Contents(pre')
      BY DEF Contents, Place
    <3> QED BY <3>2, <3>3, <3>4 DEF PreFifo!Next, PreFifo!Put
  <2>3. CASE Render
    <3>1. pre' = Taken(pre) /\ pre.size > 0
      BY <2>3 DEF Render, Take
    <3>2. Contents(pre) # <<>> /\ Contents(pre') = Tail(Contents(pre))
      BY <2>1, <3>1, TakeRemoves
    <3>3. Contents(pre)' = Contents(pre')
      BY DEF Contents, Place
    <3> QED BY <3>2, <3>3 DEF PreFifo!Next, PreFifo!Get
  <2>4. CASE UNCHANGED pre
    BY <2>4 DEF Contents, Place
  <2>5. PutBuffers \/ Render \/ UNCHANGED pre
    BY <1>2 DEF Next, vars, rings, Web, PostLost, Post, Push, Check, Signal, SetCallback, Create,
       KeepAllButQueue, Handle, StartLoop, Wait, Wake, Drain, SpuriousWakeup, KeepAllButLoop,
       StartVideoCapture, Publish, Connect, ConnectFails, DrainTorn, Stamp, Exit, Record,
       CopyFrame, FrameQueued, Encoder, EncoderStart, EncoderTake, EncoderSkip, Encode
  <2> QED BY <2>2, <2>3, <2>4, <2>5
<1> QED BY <1>1, <1>2, Invariance, PTL DEF Spec, PreviewIsFifo, PreFifo!Spec

(* The encoder passes over a frame only if an earlier one was stamped from *)
(* a base that the push moved on since.                                    *)
THEOREM SkipsCorrect == Spec => SkipsOnlyRestamped
<1> DEFINE Skips ==
      \A f \in Frame : seen'["encoder"] = f.no /\ seen["encoder"] # f.no /\ out.size > 0
        /\ f = GetFrameRef(out) /\ last' = last => last.no - last.pts < f.no - f.pts
<1>1. ASSUME RInv, [Next]_vars PROVE Skips \/ UNCHANGED vars
  <2> SUFFICES ASSUME NEW f \in Frame, seen'["encoder"] # seen["encoder"], out.size > 0,
                      f = GetFrameRef(out), last' = last
               PROVE  last.no - last.pts < f.no - f.pts
    BY DEF Skips
  <2>1. seen \in [Reader -> 0..MaxFrames]
    BY <1>1 DEF RInv, ReaderType
  <2>2. EncoderTake \/ EncoderSkip
    <3>1. ~Render
      BY <2>1 DEF Render, Take, Reader
    <3> QED BY <1>1, <2>1, <3>1
      DEF Next, vars, readers, Web, PostLost, Post, Push, Check, Signal, SetCallback, Create,
       KeepAllButQueue, Handle, StartLoop, Wait, Wake, Drain, SpuriousWakeup, KeepAllButLoop,
       StartVideoCapture, Publish, Connect, ConnectFails, DrainTorn, Stamp, PutBuffers, Exit,
       KeepAllButCapture, Record, CopyFrame, FrameQueued, Encoder, EncoderStart, Encode
  <2>3. last # NoFrame => last.no < f.no
    BY <1>1, <2>2, OrderTakes DEF EncoderTake, EncoderSkip, KeepAllButReaders, capture
  <2>4. /\ f # NoFrame /\ last \in Frame \cup {NoFrame}
        /\ \A g \in Frame : g.no \in Nat /\ g.pts \in Nat
    BY <1>1, NoFrameAssumption, FramesAssumption DEF RInv, ReaderType, Frame
  <2>5. CASE EncoderTake
    BY <2>3, <2>4, <2>5 DEF EncoderTake
  <2>6. CASE EncoderSkip
    <3>1. last # NoFrame /\ f.pts <= last.pts
      BY <2>6 DEF EncoderSkip, Stale
    <3> QED BY <2>3, <2>4, <3>1
  <2> QED BY <2>2, <2>5, <2>6
<1> HIDE DEF Skips
<1>2. RInv /\ [Next]_vars => [Skips]_vars
  BY <1>1
<1>3. Spec => [][Skips]_vars
  BY <1>2, Invariance, PTL DEF Spec
<1> QED BY <1>3 DEF SkipsOnlyRestamped, Skips

-----------------------------------------------------------------------------
(* Both readers go forward only.  What waits in a reader's ring was taken  *)
(* after what it has seen, in rising order, and not after the last frame   *)
(* the capture thread put; an index that is reset forgets frames, but      *)
(* brings none of those still in the slots back.                           *)

Newest == IF cap = "put" THEN count - 1 ELSE count

Rising(s, n, m) ==
  /\ n <= m
  /\ \A i \in 1..Len(s) : n < s[i].no /\ s[i].no <= m
  /\ \A i, j \in 1..Len(s) : i < j => s[i].no < s[j].no

Ahead == \A r \in Reader : Rising(Contents(Ring(r)), seen[r], Newest)

Forward == \A r \in Reader : seen'[r] # seen[r] => seen'[r] > seen[r]

LEMMA RisingFacts ==
  ASSUME NEW s \in Seq(Frame), NEW n \in Nat, NEW m \in Int, Rising(s, n, m)
  PROVE  /\ \A k \in Int : m <= k => Rising(s, n, k)
         /\ \A f \in Frame : f.no = m + 1 => Rising(Append(s, f), n, m + 1)
         /\ Len(s) > 0 => n < s[1].no /\ Rising(Tail(s), s[1].no, m)
<1>1. Len(s) \in Nat /\ \A i \in 1..Len(s) : s[i] \in Frame /\ s[i].no \in Nat
  <2>1. Len(s) \in Nat /\ \A i \in 1..Len(s) : s[i] \in Frame
    BY Lengths
  <2>2. \A f \in Frame : f.no \in Nat
    BY FramesAssumption DEF Frame
  <2> QED BY <2>1, <2>2
<1>2. ASSUME NEW k \in Int, m <= k PROVE Rising(s, n, k)
  BY <1>1, <1>2 DEF Rising
<1>3. ASSUME NEW f \in Frame, f.no = m + 1 PROVE Rising(Append(s, f), n, m + 1)
  <2> DEFINE t == Append(s, f)
  <2>1. /\ Len(t) = Len(s) + 1 /\ t[Len(s) + 1] = f /\ \A i \in 1..Len(s) : t[i] = s[i]
    BY Lengths
  <2>2. \A i \in 1..Len(s) + 1 : i \in 1..Len(s) \/ i = Len(s) + 1
    BY <1>1
  <2> HIDE DEF t
  <2>3. \A i \in 1..Len(t) : n < t[i].no /\ t[i].no <= m + 1
    BY <1>1, <1>3, <2>1, <2>2 DEF Rising
  <2>4. \A i, j \in 1..Len(t) : i < j => t[i].no < t[j].no
    <3> SUFFICES ASSUME NEW i \in 1..Len(t), NEW j \in 1..Len(t), i < j PROVE t[i].no < t[j].no
      OBVIOUS
    <3>1. i \in 1..Len(s)
      BY <1>1, <2>1
    <3>2. CASE j \in 1..Len(s)
      BY <2>1, <3>1, <3>2 DEF Rising
    <3>3. CASE j = Len(s) + 1
      BY <1>1, <1>3, <2>1, <3>1, <3>3 DEF Rising
    <3> QED BY <2>1, <2>2, <3>2, <3>3
  <2>5. n <= m + 1
    BY DEF Rising
  <2> QED BY <2>3, <2>4, <2>5 DEF Rising, t
<1>4. ASSUME Len(s) > 0 PROVE n < s[1].no /\ Rising(Tail(s), s[1].no, m)
  <2> DEFINE t == Tail(s)
  <2>1. Len(t) = Len(s) - 1 /\ \A i \in 1..Len(s) - 1 : t[i] = s[i + 1]
    BY <1>4, Lengths
  <2>2. \A i \in 1..Len(s) - 1 : i + 1 \in 1..Len(s) /\ 1 < i + 1
    BY <1>1
  <2>3. 1 \in 1..Len(s)
    BY <1>1, <1>4
  <2> HIDE DEF t
  <2>4. \A i \in 1..Len(t) : s[1].no < t[i].no /\ t[i].no <= m
    BY <2>1, <2>2, <2>3 DEF Rising
  <2>5. \A i, j \in 1..Len(t) : i < j => t[i].no < t[j].no
    <3> SUFFICES ASSUME NEW i \in 1..Len(t), NEW j \in 1..Len(t), i < j PROVE t[i].no < t[j].no
      OBVIOUS
    <3>1. i + 1 \in 1..Len(s) /\ j + 1 \in 1..Len(s) /\ i + 1 < j + 1
      BY <1>1, <2>1
    <3>2. s[i + 1].no < s[j + 1].no
      BY <3>1 DEF Rising
    <3> QED BY <2>1, <3>2
  <2> QED BY <2>3, <2>4, <2>5 DEF Rising, t
<1> QED BY <1>2, <1>3, <1>4

(* The ring of a reader, as a sequence.                                    *)
LEMMA RingFrames ==
  ASSUME RInv, NEW r \in Reader
  PROVE  /\ BufferOK(Ring(r)) /\ Contents(Ring(r)) \in Seq(Frame)
         /\ Len(Contents(Ring(r))) = Ring(r).size /\ seen[r] \in Nat
<1>1. BufferOK(Ring(r)) /\ seen[r] \in Nat
  BY FramesAssumption DEF RInv, ReaderType, Ring
<1>2. Ring(r) \in RingType /\ \A i \in 1..Ring(r).size : Contents(Ring(r))[i] \in Frame
  BY <1>1 DEF BufferOK, RingType
<1> QED BY <1>1, <1>2, Waiting

LEMMA AInit == Init => Ahead
<1> SUFFICES ASSUME Init, NEW r \in Reader PROVE Rising(Contents(Ring(r)), seen[r], Newest)
  BY DEF Ahead
<1>1. Ring(r) = EmptyBuffer /\ seen[r] = 0 /\ Newest = 0
  BY DEF Init, Ring, Newest
<1>2. Contents(Ring(r)) = <<>> /\ Len(<<>>) = 0
  BY <1>1, EmptyOK, EmptySeq
<1> QED BY <1>1, <1>2 DEF Rising

LEMMA AStep ==
  ASSUME CInv, RInv, Ahead, [Next]_vars
  PROVE  Ahead' /\ Forward
<1>1. count \in Nat /\ Newest \in Int
  BY FramesAssumption DEF CInv, CaptureType, Newest
<1>2. \A r \in Reader : Contents(Ring(r))' = Contents(Ring(r)')
  BY DEF Contents, Place
<1>3. ASSUME UNCHANGED <<pre, out, seen>>, Newest' \in Int, Newest <= Newest'
      PROVE  Ahead' /\ Forward
  <2>1. \A r \in Reader : Ring(r)' = Ring(r)
    BY <1>3 DEF Ring
  <2>2. ASSUME NEW r \in Reader PROVE Rising(Contents(Ring(r)), seen[r], Newest)'
    <3>1. Rising(Contents(Ring(r)), seen[r], Newest')
      BY <1>1, <1>3, RingFrames, RisingFacts DEF Ahead
    <3>2. Contents(Ring(r))' = Contents(Ring(r)) /\ seen'[r] = seen[r]
      BY <1>2, <1>3, <2>1
    <3> QED BY <3>1, <3>2 DEF Rising
  <2> QED BY <1>3, <2>2 DEF Ahead, Forward
<1>4. CASE PutBuffers
  <2> DEFINE f == [no |-> count, pts |-> pts]
  <2>1. /\ cap = "put" /\ cap' = "select" /\ pre' = PutFrame(pre, f) /\ UNCHANGED <<count, seen>>
        /\ out' = (IF isCapture THEN PutFrame(out, f) ELSE out)
    BY <1>4 DEF PutBuffers, KeepAllButCapture, readers
  <2>2. f \in Frame /\ f.no = count
    BY <2>1, FramesAssumption DEF CInv, CaptureType, Frame
  <2> HIDE DEF f
  <2>3. Newest = count - 1 /\ Newest' = count
    BY <2>1 DEF Newest
  <2>4. ASSUME NEW r \in Reader PROVE Rising(Contents(Ring(r)), seen[r], Newest)'
    <3> DEFINE s == Contents(Ring(r))  t == Contents(Ring(r)')
    <3>1. t = s \/ t = Append(s, f)
      <4>1. Ring(r)' = Ring(r) \/ Ring(r)' = PutFrame(Ring(r), f)
        BY <2>1 DEF Ring
      <4> QED BY <2>2, <4>1, RingFrames, PutAppends
    <3>2. s \in Seq(Frame) /\ seen[r] \in Nat /\ Rising(s, seen[r], count - 1)
      BY <2>3, RingFrames DEF Ahead
    <3> HIDE DEF s, t
    <3>3. Rising(s, seen[r], count)
      BY <1>1, <3>2, RisingFacts
    <3>4. Rising(Append(s, f), seen[r], count)
      <4>1. count - 1 \in Int /\ (count - 1) + 1 = count
        BY <1>1
      <4> QED BY <2>2, <3>2, <4>1, RisingFacts
    <3>5. Rising(t, seen[r], count)
      BY <3>1, <3>3, <3>4
    <3>6. Contents(Ring(r))' = t /\ seen'[r] = seen[r]
      BY <1>2, <2>1 DEF t
    <3> QED BY <2>3, <3>5, <3>6 DEF Rising
  <2> QED BY <2>1, <2>4 DEF Ahead, Forward
<1>5. ASSUME NEW r \in Reader, Ring(r).size > 0, Ring(r)' = Taken(Ring(r)),
             seen' = [seen EXCEPT ![r] = GetFrameRef(Ring(r)).no],
             \A q \in Reader \ {r} : Ring(q)' = Ring(q), UNCHANGED <<cap, count>>
      PROVE  Ahead' /\ Forward
  <2>1. Newest' = Newest
    BY <1>5 DEF Newest
  <2> DEFINE s == Contents(Ring(r))
  <2>2. Contents(Ring(r))' = Tail(s) /\ GetFrameRef(Ring(r)) = s[1]
    BY <1>2, <1>5, RingFrames, TakeRemoves
  <2>3. seen'[r] = s[1].no /\ \A q \in Reader \ {r} : seen'[q] = seen[q]
    BY <1>5, <2>2 DEF RInv, ReaderType
  <2>4. seen[r] < s[1].no /\ Rising(Tail(s), s[1].no, Newest)
    BY <1>1, <1>5, RingFrames, RisingFacts DEF Ahead
  <2> HIDE DEF s
  <2>5. Rising(Contents(Ring(r)), seen[r], Newest)'
    BY <2>1, <2>2, <2>3, <2>4 DEF Rising
  <2>6. ASSUME NEW q \in Reader \ {r} PROVE Rising(Contents(Ring(q)), seen[q], Newest)'
    <3>1. Contents(Ring(q))' = Contents(Ring(q)) /\ seen'[q] = seen[q]
      BY <1>2, <1>5, <2>3
    <3> QED BY <2>1, <3>1 DEF Ahead, Rising
  <2>7. Forward
    <3>1. seen[r] \in Nat /\ s[1].no > seen[r]
      BY <2>4, RingFrames
    <3> QED BY <2>3, <3>1 DEF Forward
  <2> QED BY <2>5, <2>6, <2>7 DEF Ahead
<1>6. CASE Render
  <2>1. /\ Ring("record")' = Taken(Ring("record")) /\ Ring("encoder")' = Ring("encoder")
        /\ Ring("record").size > 0 /\ UNCHANGED <<cap, count>>
        /\ seen' = [seen EXCEPT !["record"] = GetFrameRef(Ring("record")).no]
    BY <1>6 DEF Render, Take, Ring, KeepAllButReaders, capture
  <2> QED BY <1>5, <2>1 DEF Reader
<1>7. CASE EncoderTake \/ EncoderSkip
  <2>1. /\ Ring("encoder")' = Taken(Ring("encoder")) /\ Ring("record")' = Ring("record")
        /\ Ring("encoder").size > 0 /\ UNCHANGED <<cap, count>>
        /\ seen' = [seen EXCEPT !["encoder"] = GetFrameRef(Ring("encoder")).no]
    BY <1>7 DEF EncoderTake, EncoderSkip, Take, Ring, KeepAllButReaders, capture
  <2> QED BY <1>5, <2>1 DEF Reader
<1>8. CASE EncoderStart
  <2>1. out' = ResetIndex(out) /\ UNCHANGED <<pre, seen, cap, count>>
    BY <1>8 DEF EncoderStart, KeepAllButReaders, capture
  <2>2. Newest' = Newest
    BY <2>1 DEF Newest
  <2>3. BufferOK(out') /\ out'.size = 0
    BY <2>1, ResetOK DEF RInv, ReaderType
  <2>4. Len(Contents(out')) = 0
    BY <2>3, Waiting DEF BufferOK, RingType
  <2>5. ASSUME NEW r \in Reader PROVE Rising(Contents(Ring(r)), seen[r], Newest)'
    <3>1. seen'[r] = seen[r] /\ Rising(Contents(Ring(r)), seen[r], Newest)
      BY <2>1 DEF Ahead
    <3>2. CASE r = "record"
      BY <1>2, <2>1, <2>2, <3>1, <3>2 DEF Ring, Rising
    <3>3. CASE r = "encoder"
      <4>1. Contents(Ring(r))' = Contents(out')
        BY <1>2, <3>3 DEF Ring
      <4> QED BY <2>2, <2>4, <3>1, <4>1 DEF Rising
    <3> QED BY <3>2, <3>3 DEF Reader
  <2> QED BY <2>1, <2>5 DEF Ahead, Forward
<1>9. CASE Stamp
  <2>1. cap = "select" /\ cap' = "put" /\ count' = count + 1 /\ UNCHANGED <<pre, out, seen>>
    BY <1>9 DEF Stamp, KeepAllButCapture, readers, rings
  <2>2. Newest = count /\ Newest' = count
    BY <1>1, <2>1 DEF Newest
  <2> QED BY <1>1, <1>3, <2>1, <2>2
(* Every other step leaves the rings, and the capture thread before a put. *)
<1>10. ASSUME UNCHANGED <<pre, out, seen, count>>, cap' = cap \/ cap' # "put"
       PROVE  Ahead' /\ Forward
  <2>1. Newest' \in Int /\ Newest <= Newest'
    BY <1>1, <1>10 DEF Newest
  <2> QED BY <1>3, <1>10, <2>1
<1>11. CASE Web
  BY <1>10, <1>11 DEF Web, PostLost, Post, Push, Check, Signal, SetCallback, Create, Posted,
     KeepAllButQueue, capture, readers, rings
<1>12. CASE Handle \/ SpuriousWakeup
  BY <1>10, <1>12 DEF Handle, StartLoop, Wait, Wake, Drain, StartVideoCapture, Publish, Connect,
     ConnectFails, SpuriousWakeup, KeepAllButLoop, capture, readers, rings
<1>13. CASE DrainTorn \/ Exit \/ UNCHANGED vars
  BY <1>10, <1>13 DEF DrainTorn, Exit, vars, capture, readers, rings
<1>14. CASE CopyFrame \/ FrameQueued \/ Encode
  BY <1>10, <1>14 DEF CopyFrame, FrameQueued, Encode, KeepAllButReaders, capture, rings
<1> QED BY <1>4, <1>6, <1>7, <1>8, <1>9, <1>11, <1>12, <1>13, <1>14
        DEF Next, Record, Encoder

(* The record thread and the encoder each get the camera's frames in the   *)
(* order they were taken and none twice, however full the rings, whatever  *)
(* the encoder passes over and although resetIndex leaves old frames in    *)
(* the slots.                                                              *)
THEOREM ReadersGoForward == Spec => [][Forward]_vars
<1>1. CInv /\ RInv /\ Ahead /\ [Next]_vars => Ahead' /\ [Forward]_vars
  BY AStep
<1> QED BY AInit, <1>1, Invariance, PTL DEF Spec
=============================================================================
