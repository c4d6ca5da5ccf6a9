------------------------------ MODULE PushRtc -------------------------------
(***************************************************************************)
(* The video side of the WebRTC push: vls_webrtc_push.c starts it,         *)
(* recordpushrtc.cpp and yangrecordthread.cpp drive it, libmetartc6 does   *)
(* the work.  Five threads: the webrtc thread posts two messages and       *)
(* spins; the message thread (YangSysMessageHandle) handles them; the      *)
(* capture thread stamps each frame and puts it into the preview ring and, *)
(* once the push is up, into the encoder's; the record thread hands the    *)
(* preview to on_video_yuv_frame, which feeds the RTSP side; the encoder   *)
(* thread feeds the push.                                                  *)
(*                                                                         *)
(* Frame n is taken n - 1 ticks after the first; a frame carries its       *)
(* number, which the code does not have, and its pts.  Sound, payloads and *)
(* what becomes of encoded frames are left out; the sleeps before the two  *)
(* posts are no step, since nothing waits for what they wait for.          *)
(***************************************************************************)
EXTENDS MediaBuffer, Integers

CONSTANT MaxFrames   \* frames the camera delivers (bound)

ASSUME FramesAssumption == MaxFrames \in Nat

Message == {"camera", "connect"}
Frame == [no : 1..MaxFrames, pts : 0..MaxFrames]
Reader == {"record", "encoder"}

ASSUME NoFrameAssumption == NoFrame \notin Frame

VARIABLES
  exited,      \* the process is gone
  web, msg,    \* where the webrtc thread is, and the message it is about to post
  loop,        \* where the message thread is
  waitState,   \* m_waitState
  messages,    \* m_sysMessages
  handled,     \* history: messages handled
  missed,      \* history: messages whose wakeup came too early to be one
  camera,      \* none, failed, open
  cap,         \* the capture thread: off, bad, select, put
  count,       \* frames captured; curstamp is count - 1
  base, pts,   \* basesatmp, and the stamp of the frame in hand
  isCapture,   \* m_isCapture
  pre, out,    \* m_pre_videoBuffer and m_out_videoBuffer
  attached,    \* the record thread's m_videoBuffer is set
  callback,    \* m_videoCallback is set
  at,          \* where each reader is
  held,        \* the frame and the slot each reader has a pointer to
  last,        \* the encoder's last frame; its pts is t_preTimestamp
  seen         \* history: number of the last frame each reader took

posting == <<web, msg>>
queue == <<loop, waitState, messages, handled, missed>>
capture == <<camera, cap, count, base, pts, isCapture>>
rings == <<pre, out>>
readers == <<attached, callback, at, held, last, seen>>
vars == <<exited, posting, queue, capture, rings, readers>>

Nothing == [frame |-> NoFrame, slot |-> 0]
Curstamp == IF count = 0 THEN 0 ELSE count - 1

Init ==
  /\ exited = FALSE
  /\ web = "create" /\ msg = "camera"
  /\ loop = "new" /\ waitState = FALSE /\ messages = <<>> /\ handled = {} /\ missed = {}
  /\ camera = "none" /\ cap = "off" /\ count = 0 /\ base = 0 /\ pts = 0 /\ isCapture = FALSE
  /\ pre = EmptyBuffer /\ out = EmptyBuffer
  /\ attached = FALSE /\ callback = FALSE
  /\ at = [r \in Reader |-> "off"]
  /\ held = [r \in Reader |-> Nothing]
  /\ last = NoFrame /\ seen = [r \in Reader |-> 0]

-----------------------------------------------------------------------------
(* The webrtc thread.                                                      *)

\* createPushMessageHandle opens the camera and starts the capture thread; then
\* the message thread and the record thread start.
Create(opens) ==
  /\ web = "create" /\ web' = "post"
  /\ camera' = IF opens THEN "open" ELSE "failed"
  /\ cap' = IF opens THEN "select" ELSE "off"
  /\ at' = [at EXCEPT !["record"] = "idle"]
  /\ UNCHANGED <<exited, msg, queue, count, base, pts, isCapture, rings,
                 attached, callback, held, last, seen>>

Posted == web' = IF msg = "camera" THEN "callback" ELSE "spin"
KeepAllButQueue == UNCHANGED <<exited, capture, rings, readers>>

\* m_loop is not set yet: the message is dropped and nobody is told.
PostLost ==
  /\ web = "post" /\ loop = "new"
  /\ Posted
  /\ UNCHANGED <<msg, queue>> /\ KeepAllButQueue

\* push_back under m_mutex begins, and ends.
Post ==
  /\ web = "post" /\ loop # "new"
  /\ web' = "pushing"
  /\ UNCHANGED <<msg, queue>> /\ KeepAllButQueue

Push ==
  /\ web = "pushing" /\ web' = "check"
  /\ messages' = Append(messages, msg)
  /\ UNCHANGED <<msg, loop, waitState, handled, missed>> /\ KeepAllButQueue

\* m_waitState is read under no lock.
Check ==
  /\ web = "check"
  /\ IF waitState THEN web' = "signal" ELSE Posted
  /\ missed' = IF loop = "top" THEN missed \cup {msg} ELSE missed
  /\ UNCHANGED <<msg, loop, waitState, messages, handled>> /\ KeepAllButQueue

\* m_lock is held by the message thread except while it waits.
Signal ==
  /\ web = "signal" /\ loop \in {"wait", "woken"}
  /\ loop' = "woken" /\ Posted
  /\ UNCHANGED <<msg, waitState, messages, handled, missed>> /\ KeepAllButQueue

SetCallback ==
  /\ web = "callback" /\ web' = "post" /\ msg' = "connect"
  /\ callback' = TRUE
  /\ UNCHANGED <<exited, queue, capture, rings, attached, at, held, last, seen>>

Web == PostLost \/ Post \/ Push \/ Check \/ Signal \/ SetCallback \/ \E o \in BOOLEAN : Create(o)

-----------------------------------------------------------------------------
(* The message thread.                                                     *)

KeepAllButLoop == UNCHANGED <<exited, posting, capture, rings, readers>>

StartLoop ==
  /\ loop = "new" /\ web # "create"
  /\ loop' = "top"
  /\ UNCHANGED <<waitState, messages, handled, missed>> /\ KeepAllButLoop

Wait ==
  /\ loop = "top"
  /\ loop' = "wait" /\ waitState' = TRUE
  /\ UNCHANGED <<messages, handled, missed>> /\ KeepAllButLoop

\* pthread_cond_wait may return without a signal.
SpuriousWakeup ==
  /\ loop = "wait" /\ loop' = "woken"
  /\ UNCHANGED <<waitState, messages, handled, missed>> /\ KeepAllButLoop

Wake ==
  /\ loop = "woken"
  /\ loop' = "drain" /\ waitState' = FALSE
  /\ UNCHANGED <<messages, handled, missed>> /\ KeepAllButLoop

\* mutant: one message for one wakeup
DrainOnce ==
  /\ loop = "drain"
  /\ loop' = IF messages = <<>> \/ handled # {} THEN "top" ELSE Head(messages)
  /\ UNCHANGED <<waitState, messages, handled, missed>> /\ KeepAllButLoop
\* The list is read under no lock.
Drain ==
  /\ loop = "drain"
  /\ loop' = IF messages = <<>> THEN "top" ELSE Head(messages)
  /\ UNCHANGED <<waitState, messages, handled, missed>> /\ KeepAllButLoop

\* Read while push_back moves it, the list may have any size and any front.
DrainTorn ==
  /\ loop = "drain" /\ web = "pushing"
  /\ exited' = TRUE
  /\ UNCHANGED <<posting, queue, capture, rings, readers>>

\* The message is deleted, and erased under m_mutex.
Finish(m) ==
  /\ loop' = "drain" /\ messages' = Tail(messages)
  /\ handled' = handled \cup {m}
  /\ UNCHANGED <<waitState, missed>>

\* changeSrc starts the camera again, which does nothing once it runs.  After a
\* failed start m_videoCapture is there, so its init is skipped and a capture
\* thread starts on the device that is not open.  receiveSysMessage then gives
\* the record thread its buffer.
StartVideoCapture ==
  /\ loop = "camera" /\ web # "pushing"
  /\ cap' = IF camera = "failed" THEN "bad" ELSE cap
  /\ attached' = TRUE
  /\ Finish("camera")
  /\ UNCHANGED <<exited, posting, camera, count, base, pts, isCapture, rings,
                 callback, at, held, last, seen>>

\* publish starts the encoder thread.
Publish ==
  /\ loop = "connect" /\ at["encoder"] = "off"
  /\ at' = [at EXCEPT !["encoder"] = "start"]
  /\ UNCHANGED <<exited, posting, queue, capture, rings, attached, callback, held, last, seen>>

\* The answer of the WHIP server came: frames go to the encoder, stamped from now
\* on.
Connect ==
  /\ loop = "connect" /\ at["encoder"] # "off" /\ web # "pushing"
  /\ base' = Curstamp /\ isCapture' = TRUE
  /\ Finish("connect")
  /\ UNCHANGED <<exited, posting, camera, cap, count, pts, rings, readers>>

\* It did not come: publish returns, and nothing tries again.
ConnectFails ==
  /\ loop = "connect" /\ at["encoder"] # "off" /\ web # "pushing"
  /\ Finish("connect")
  /\ UNCHANGED <<exited, posting, capture, rings, readers>>

Handle == StartLoop \/ Wait \/ Wake \/ Drain \/ StartVideoCapture \/ Publish \/ Connect \/ ConnectFails

-----------------------------------------------------------------------------
(* The capture thread.                                                     *)

KeepAllButCapture == UNCHANGED <<exited, posting, queue, readers>>

Stamp ==
  /\ cap = "select" /\ count < MaxFrames
  /\ cap' = "put" /\ count' = count + 1
  /\ base' = IF base = 0 THEN count ELSE base
  /\ pts' = count - base'
  /\ UNCHANGED <<camera, isCapture, rings>> /\ KeepAllButCapture

\* putBuffers, after the conversion of the picture.
PutBuffers ==
  /\ cap = "put" /\ cap' = "select"
  /\ LET f == [no |-> count, pts |-> pts] IN
     /\ pre' = PutFrame(pre, f)
     /\ out' = IF isCapture THEN PutFrame(out, f) ELSE out
  /\ UNCHANGED <<camera, count, base, pts, isCapture>> /\ KeepAllButCapture

\* select fails, or nothing comes for two seconds: exit().  A camera that falls
\* silent does so after MaxFrames frames.
Exit ==
  /\ cap = "bad" \/ (cap = "select" /\ count = MaxFrames)
  /\ exited' = TRUE
  /\ UNCHANGED <<posting, queue, capture, rings, readers>>

-----------------------------------------------------------------------------
(* The readers.                                                            *)

HandOut(b) == [frame |-> GetFrameRef(b), slot |-> b.get]

\* A thread takes the reference of the oldest frame of its ring b.
Take(r, b, then) ==
  /\ at[r] = "idle" /\ b.size > 0
  /\ seen' = [seen EXCEPT ![r] = GetFrameRef(b).no]
  /\ at' = [at EXCEPT ![r] = then]
  /\ held' = [held EXCEPT ![r] = IF then = "idle" THEN Nothing ELSE HandOut(b)]
Release(r, then) ==
  /\ at' = [at EXCEPT ![r] = then]
  /\ held' = [held EXCEPT ![r] = Nothing]
KeepAllButReaders == UNCHANGED <<exited, posting, queue, capture>>

\* mutant: the preview waits for the push
RenderPushed ==
  /\ attached /\ isCapture
  /\ Take("record", pre, IF callback THEN "copy" ELSE "idle")
  /\ pre' = Taken(pre)
  /\ UNCHANGED <<out, attached, callback, last>> /\ KeepAllButReaders
\* render: without a callback the frame is gone.
Render ==
  /\ attached
  /\ Take("record", pre, IF callback THEN "copy" ELSE "idle")
  /\ pre' = Taken(pre)
  /\ UNCHANGED <<out, attached, callback, last>> /\ KeepAllButReaders

\* on_video_yuv_frame copies the picture, then encodes and enqueues it.
CopyFrame ==
  /\ at["record"] = "copy" /\ Release("record", "queue")
  /\ UNCHANGED <<rings, attached, callback, last, seen>> /\ KeepAllButReaders

FrameQueued ==
  /\ at["record"] = "queue" /\ Release("record", "idle")
  /\ UNCHANGED <<rings, attached, callback, last, seen>> /\ KeepAllButReaders

EncoderStart ==
  /\ at["encoder"] = "start"
  /\ at' = [at EXCEPT !["encoder"] = "idle"]
  /\ out' = ResetIndex(out)
  /\ UNCHANGED <<pre, attached, callback, held, last, seen>> /\ KeepAllButReaders

\* mutant: the stamp that follows is taken for an old one
StaleEarly(f) == last # NoFrame /\ last.pts # 0 /\ f.pts <= last.pts + 1
\* t_preTimestamp is 0 before the first frame.
Stale(f) == last # NoFrame /\ last.pts # 0 /\ f.pts <= last.pts

EncoderTake ==
  /\ Take("encoder", out, "encode") /\ ~Stale(GetFrameRef(out))
  /\ out' = Taken(out)
  /\ last' = GetFrameRef(out)
  /\ UNCHANGED <<pre, attached, callback>> /\ KeepAllButReaders

EncoderSkip ==
  /\ Take("encoder", out, "idle") /\ Stale(GetFrameRef(out))
  /\ out' = Taken(out)
  /\ UNCHANGED <<pre, attached, callback, last>> /\ KeepAllButReaders

Encode ==
  /\ at["encoder"] = "encode" /\ Release("encoder", "idle")
  /\ UNCHANGED <<rings, attached, callback, last, seen>> /\ KeepAllButReaders

Record == Render \/ CopyFrame \/ FrameQueued
Encoder == EncoderStart \/ EncoderTake \/ EncoderSkip \/ Encode

Next ==
  /\ ~exited
  /\ \/ Web \/ Handle \/ SpuriousWakeup \/ DrainTorn
     \/ Stamp \/ PutBuffers \/ Exit
     \/ Record \/ Encoder

Spec == Init /\ [][Next]_vars

\* The threads run; nothing makes the camera deliver.
FairSpec ==
  /\ Spec
  /\ WF_vars(~exited /\ Web) /\ WF_vars(~exited /\ Handle) /\ WF_vars(~exited /\ PutBuffers)
  /\ WF_vars(~exited /\ Record) /\ WF_vars(~exited /\ Encoder)

-----------------------------------------------------------------------------
(* Properties.                                                             *)

BufferOK(b) ==
  /\ b \in [frames : [Slot -> Frame \cup {NoFrame}], put : Slot, get : Slot, size : 0..Cache]
  /\ b.put = Place(b, b.size)
  /\ \A i \in 1..b.size : Contents(b)[i] \in Frame

\* Types, the rings' indexes in step, and stamps never before the base.
TypeOK ==
  /\ exited \in BOOLEAN /\ msg \in Message
  /\ web \in {"create", "post", "pushing", "check", "signal", "callback", "spin"}
  /\ loop \in {"new", "top", "wait", "woken", "drain"} \cup Message
  /\ waitState \in BOOLEAN /\ messages \in Seq(Message) /\ handled \subseteq Message /\ missed \subseteq Message
  /\ camera \in {"none", "failed", "open"} /\ cap \in {"off", "bad", "select", "put"}
  /\ count \in 0..MaxFrames /\ base \in 0..MaxFrames /\ pts \in 0..MaxFrames /\ isCapture \in BOOLEAN
  /\ BufferOK(pre) /\ BufferOK(out)
  /\ attached \in BOOLEAN /\ callback \in BOOLEAN
  /\ at \in [Reader -> {"off", "start", "idle", "copy", "queue", "encode"}]
  /\ held \in [Reader -> [frame : Frame \cup {NoFrame}, slot : Slot]]
  /\ last \in Frame \cup {NoFrame} /\ seen \in [Reader -> 0..MaxFrames]

Ring(r) == IF r = "record" THEN pre ELSE out

\* The frame a reader works on stays what it was, although its slot counts as
\* free, until the writer has filled the whole ring again behind it.
HeldIntact ==
  \A r \in Reader : held[r].frame # NoFrame /\ Ring(r).size < Cache
    => Ring(r).frames[held[r].slot] = held[r].frame

\* The preview ring is a lossy first-in first-out queue to its two threads.
PreFifo == INSTANCE LossyFifo WITH Capacity <- Cache, waiting <- Contents(pre)
PreviewIsFifo == PreFifo!Spec

\* The message thread sleeps on a message only while its poster is about to
\* wake it, or after a wakeup that came between its last look at the list and
\* m_waitState.
NoLostWakeup ==
  loop \in {"top", "wait"} /\ messages # <<>>
    => web = "check" \/ (web = "signal" /\ loop = "wait") \/ missed \ handled # {}

\* Once the record thread has its ring, a full ring does not stay full: nothing
\* about the push, its network or its encoder holds up the RTSP side.
PreviewMoves == (attached /\ pre.size = Cache) ~> (pre.size < Cache \/ exited)

\* The encoder passes over a frame only if an earlier one had been stamped
\* before the push began and put after it; its stamps are compared with that
\* frame's until they catch up.
SkipsOnlyRestamped ==
  [][\A f \in Frame : seen'["encoder"] = f.no /\ seen["encoder"] # f.no /\ out.size > 0
       /\ f = GetFrameRef(out) /\ last' = last
       => last.no - last.pts < f.no - f.pts]_vars
=============================================================================
