# Verification of the camera server

This directory specifies the program `main/server` of `src/firmware/Camera` in
TLA+. TLC checks the specifications on small instances; TLAPS proves theorems
about all ten components for every value of their constants. Paths below are
relative to `src/firmware/Camera`.

## 1. The system

`main()` (main/server.c) creates four threads (RTSP, HTTP, upload, WebRTC) and
watches the first two. A frame
of the camera travels through the program like this:

    capture thread -> preview ring -> record thread -> on_video_yuv_frame (x264)
            -> frame queue -> RTSP thread -> packet ring -> RTSP clients
    capture thread -> encoder ring -> encoder thread -> publish thread
            -> RTP packets -> WebRTC server, which asks for lost ones again

Beside it run an HTTP server for the web page and camera control and an upload
server for files. The program's four threads share the frame queue, the flag
that SIGINT clears, and the tick and `quited` fields that the watchdog reads;
nothing else. The WebRTC thread starts more of its own (message, capture,
record, encoder, publish, socket), which share a message list, two rings of
frames and the packet buffers. Each of the three servers is a single thread with
its own event loop, so inside it the hard behaviour is not preemption but the order of events within a turn:
what was noted before a handler ran and is used after it.

| Part | State | Operations | Works with | What is hard | Correct when |
|---|---|---|---|---|---|
| Frame queue, main/c_queue_frame.c | ring of frames, front, rear, count, mutex, two condition variables | `init_queue`, `enqueue`, `dequeue` | called by the record thread and the RTSP thread | interleaving, lost and spurious wakeups, full and empty ring | a bounded FIFO: nothing lost, doubled, reordered or torn, and callers get through |
| Video stream, librtsp/rtsp_demo.c, stream_queue.c | packet ring, its head and tail, one read index per playing connection | `rtsp_tx_video`, `rtsp_tx_video_packet`, SETUP, PLAY, PAUSE, TEARDOWN, loss of a connection | fed by the RTSP thread with dequeued frames | slow readers overtaken by the ring, wrap-around, a frame that fails half-way | each reader gets the packets once, in order, losing only what the ring dropped |
| RTP packetisation, librtsp/rtp_enc.c | the packets reserved for one frame | `rtp_enc_h264`, `rtp_enc_h265` and the loop around them | called within `rtsp_tx_video` | limits of a packet and of a fragment, the guess of how many packets a frame takes | every unit can be put together again, and the packets suffice |
| Connection output, librtsp/rtsp_demo.c | the rest of a send the socket did not take | `rtsp_send_msg`, `rtsp_send_interlaced_frame` | requests and the stream write to one socket | partial sends at any byte | the client's byte stream is whole units, one after another |
| Connections and requests, librtsp/rtsp_demo.c | list of connections, their state, session and transport | accept, one pass of `rtsp_do_event`, every request | transports are the stream's readers | deletion while the list is walked, values noted before requests and used after | no freed connection or transport is used, none is left behind |
| Process, main/server.c, vls_*.c, libpthread/thread.c | threads, ticks, the run flag | create, turn, watch, SIGINT | frame queue, RTSP thread, HTTP thread | waiting on each other, false and missed alarms | a working program is not ended, a broken one is, nobody waits for ever |
| HTTP server, libhttpserver | clients, what they sent and are sent, message queue to itself | select, receive, parse, answer, send, messages, accept | the web page; the search posts a message to the same thread | requests in pieces, partial sends, a message to a client that has left | each request is answered once and to its end |
| Upload server, libupload/src | request table, poll set, open files | one call of `server_thread` per turn | clients, files | answers of poll used after the table changed, slots taken over after a timeout | poll watches what is in use, nothing open is forgotten |
| WebRTC push and capture, libwebrtc/webrtc/src, libmetartc6 | message list, preview and encoder rings, stamps | `putMessage`, the loops of five threads, `putFrame`, `getFrameRef`, `initstamp`, publish over WHIP | the record thread calls `on_video_yuv_frame` | a message put while its handler goes to sleep, payloads used after their slot was given back, stamps moved under a frame | messages are handled, both consumers get frames in order and untorn, the push never holds up RTSP |
| WebRTC sending, libmetartccore6 | ring of packet buffers, the queue for resending that points into it | cut a frame, note, encrypt in place, write; look up, encrypt and write again | encoder, WebRTC server | NACKs between any two steps of the sender, a slot read while it is stored to, a buffer made anew while its packet is resent, a write that fails in a frame | what goes out is the packet meant, encrypted once by its sender, and frames go whole |

PROJECT.json lists the remaining parts, which the program does not use or which
come from elsewhere, and the hazards of each part at the line where they bite.

## 2. Modules

Each module names the code's variables and functions where TLA+ allows, and one
action is one handler or the stretch of a handler between two points where
something else can happen.

* **FrameFifo** is what the queue promises: a bounded channel that accepts a
  frame when there is room and delivers the oldest.
* **FrameQueue** is the code: a thread in `enqueue` or `dequeue` is at `lock`,
  `check`, `sleep`, `advance`, `signal` or `unlock`, and between any two of them
  every other thread may run. `pthread_cond_wait` releases the mutex and sleeps
  in one step, may wake for no reason, and takes the mutex again. `FifoSpec`
  maps the ring to FrameFifo: a frame is accepted when `count` is incremented
  and delivered when it is decremented.
* **StreamLog** is what the stream promises: a log of packets with a window, and
  subscribers that are sent it from where they joined, in order: each delivery is
  exactly the next packet, or the oldest of the window if that one has left it.
* **StreamQueue** has the index arithmetic of stream_queue.c. **RtspStream** has
  `rtsp_tx_video` in its steps (reserve and pop, move slow readers, encode,
  push, send) and the requests that move readers. One packet is sent per step
  (`TxSend` after a push, `Resend` when a socket becomes writable), so a socket
  may take any number of them; encoding may fail after any number. `last`, the
  number of the packet a reader was sent last, is a history variable.
* **RtpEnc** is one call of `rtsp_tx_video` seen from inside: the guess, and the
  loop that cuts each NAL unit into packets. A frame is the offsets of its
  units. H.264 and H.265 differ by the length of a unit's header.
* **RtspOut** is one connection's socket: a byte is the number of its unit and
  its place in it, so a mix-up of units shows.
* **RtspServer** is the list and a pass over it. Connections and transports are
  the blocks of memory they live in, so a freed one can come back as another.
  Using a freed transport is undefined: the step may crash, or go on.
* **Camera** composes the process: it instantiates FrameFifo for the queue, and
  adds creation, the RTSP thread's turn, the HTTP thread's turn, SIGINT, the
  clients' requests and the watchdog.
* **HttpServer** is a turn of `c_do_server_handler`. A request is a number of
  bytes received, in lines that end at `Ends`; a client may send more behind it,
  up to `Total`. A response is a number of pieces left. Where the code passes a
  pointer through a field narrower than it, following it may crash. A request is
  `spoiled` once a rest of it was copied out of freed memory (a part of a line had
  been kept, a line was finished in this call, and a rest remains); it may then be
  found complete or not. Any request may be refused with an error page.
* **LossyFifo** is what the library's frame rings promise: frames come out in
  order, and one is lost only by being turned away from a full ring.
  **MediaBuffer** has `putFrame`, `getFrameRef` and `resetIndex` of
  YangMediaBuffer, each one critical section of its mutex.
* **PushRtc** runs five threads on two such rings. The webrtc thread posts the
  messages that open the camera and connect the push and then spins; the message
  thread handles them, with `putMessage` and `startLoop` cut at every point where
  the other may look at `m_waitState` or the list; the capture thread stamps a
  frame and puts it; the record thread hands the preview to the RTSP side; the
  encoder thread feeds the push. Opening the camera, the connection and the list's
  consistency at `Drain` may each fail.
* **RtcSend** is the publish thread that makes, notes, encrypts and writes a
  packet, and the socket thread that finds, encrypts and writes it again. Neither
  waits for the other: the fields of a slot of the queue are stored and read one
  by one, and the next buffer is taken even while its old packet is resent. A
  NACK may name any packet a sequence can name. A packet is its number; its
  payload is the number of key streams that lie over it, because `srtp_protect`
  of the same packet applies the same one again, or `Spoiled` when only a part was
  encrypted. A write may fail, which ends the frame where it is.
* **UploadServer** is a call of `server_thread`: poll, at most one accept, one
  visit to each slot. The answers of poll are kept in `fds` until they are used. A
  request that has filled `packet` makes the next `recv` one of no bytes, whose 0
  the code takes for the end of the stream.

* **FrameQueue_proofs**, **RtspStream_proofs**, **RtpEnc_proofs**,
  **UploadServer_proofs**, **PushRtc_proofs** and **RtcSend_proofs** extend the
  module of that name with its lemmas and theorems. **RtspServer_proofs** is about
  RtspServer and RtspOut, **Process_proofs** about Camera and HttpServer; the names
  of RtspOut's and HttpServer's state begin with `Out` and `Http` because these
  modules are read together with another there. See 7.

The `MC_` modules extend these for TLC and add symmetry or the frames to try;
UploadServer, HttpServer, PushRtc and RtcSend need neither and are run as they
are. An operator whose comment says *mutant* or *mutation* is not part of the
model: it is a definition with a plausible mistake, kept next to the right one
so that each property can be shown to notice it. PROJECT.json pairs them.

## 3. Runs

| Run | Checks | Shows | States |
|---|---|---|---|
| MC_FrameQueue | TypeOK, RingInv, NoLostWakeup, FifoFairSpec | with the program's two threads the ring implements the channel and its progress: nothing is torn, no wakeup lost, and the callback is not held for ever | 58,006 |
| MC_RtspStream | TypeOK, RingSound, LogSpec | no packet a reader may be sent is overwritten; the stream implements StreamLog: each reader is sent the next packet, none left out that the ring still had | 402,386 |
| MC_RtpEnc | TypeOK, Fits, Reassembly, EnoughForFive | units are cut so that they can be put together; the guess is enough for five units | 149,120 |
| MC_RtpEncSlices | EnoughForFrame (violated) | a frame of six units can lose its last, see 6 | up to the violation |
| MC_RtspOut | OutTypeOK, Framing | framing survives every pattern of partial sends | 3,630 |
| MC_RtspServer | TypeOK, PassInv, ConnectionsAgree | what a pass holds on to is there when it is used, but for transports freed by the very requests of the visit; states, sessions and transports agree after any requests | 78,050 |
| MC_Camera | TypeOK, NoFalseAlarm, SigintStops, EndedIsNoticed, NobodyWaits | the threads do not wait for each other for ever; the watchdog is right when it acts and acts when it must | 19,006 |
| MC_HttpServer | HttpTypeOK, OneAnswer, DroppedForMethod, AnswersComplete | each request is answered once and to the end, however it is cut; a client is dropped for its method only, but for a first piece of exactly `POST` | 545,315 |
| MC_HttpServerSearch | SearchAnswered (violated) | a search's client never gets the result, see 6 | up to the violation |
| MC_UploadServer | TypeOK, TableInv, RecvReady, ClosedWhenServed | poll watches exactly the slots in use; recv is called when there is something to read; sockets and files are closed when they should be (a request too long for `packet` is one reason), and forgotten only where a slot is taken over | 1,882,628 |
| MC_PushRtc | TypeOK, HeldIntact, NoLostWakeup, PreviewIsFifo, SkipsOnlyRestamped, PreviewMoves | a frame in hand is not overwritten before its ring has come round; the preview ring implements LossyFifo and does not stay full, whatever the push does; a message is slept over only after a wakeup that came too early | 205,697 |
| MC_RtcSend | TypeOK, SendsOwn, ResendIsAsked, WholeFrame | whatever NACKs come between two steps, the sender writes its own packet encrypted once and a resend is the packet asked for, as long as no ring comes round in between; a frame goes whole or stops behind a whole fragment | 1,904,475 |

Some properties say where the code falls short, as a clause of the property:

* `PassInv` allows a stale transport after a SETUP or TEARDOWN in the same visit.
* `DroppedForMethod` allows the four bytes `POST`.
* `AnswersComplete` allows the answer of a directory that never ends, a request
  that is `spoiled`, and a client a late message wrote a second answer for.
* `TableInv` allows the descriptors of a slot taken over after a timeout, and
  `ClosedWhenServed` the connection of such a slot.
* PushRtc's `NoLostWakeup` allows the wakeup that came before `m_waitState`. It says
  nothing of a message that was dropped before `m_loop`.
* `SendsOwn` and `ResendIsAsked` allow the race on the queue: the slot was found to
  be the packet's and is read again a whole lap later, or a NACK names a packet a
  lap back and is answered while the ring comes round to its buffer.
* `WholeFrame` allows the frame whose fragments would all be full, and one that a
  failed write ended.

These clauses are narrow on purpose: without any of them the property fails, and
everything else it says is checked. The case a clause allows is not checked by
it.

## 4. Bounds

* **Frame queue.** Capacity 3 instead of 100: the ring is empty, part full, full
  and wraps, which is all that the code distinguishes. One producer and one
  consumer, as in the program; the proofs cover any number of each.
  `MaxSpurious` bounds wakeups without a signal, so that they are finitely many.
* **RtspStream.** Four slots, up to three reserved per frame, seven packets: the
  ring wraps nearly twice and a frame can drop packets of two earlier ones.
  `MaxPackets` bounds the numbering. Two connections are independent but for the
  ring, so a fast and a slow one show all there is.
* **RtpEnc.** A packet of 40 bytes carries 28, a fragment 26 or 25. Lengths 1,
  26, 28, 29 and 54 lie at and next to each limit, up to a unit of three
  fragments; five units per frame are those the code's comment counts. With 12
  packets in all the largest frames run out.
* **RtspOut.** Header 2, packets of 1 or 2 and responses of 1 or 3 bytes, buffer
  4: a send can stop before, inside and behind each part; five units reach every
  pair of successive kinds with a remainder between.
* **RtspServer.** Three connections: the one visited, the one before and the one
  after. Three transport blocks let a freed one come back.
* **Camera.** One kind of frame, queue of two. Time passes in units longer than
  any turn that does not block; the watchdog gives up after `Threshold` = 2 units
  where the code counts 60 * 100 ticks of 10 ms. What matters is that a turn is
  shorter than the threshold and that starving is longer.
* **HttpServer.** A request of 8 bytes in lines that end at 6 and 8, and a byte
  behind it. Sends end at 3, 4, 7 and 9: within the method, behind it, inside the
  blank line, and behind the request. A first piece of 3 or 4 and a second that
  ends at 7 is the request whose rest is copied from freed memory. Two connections at a time meet in the
  message queue only, or one after the other in the same block of memory, freed
  and used again while a message names it. A file of up to one buffer beside the
  header's, and answers of two pieces, end at a buffer's end and before it.
* **UploadServer.** `MaxRequests` 3 gives two usable slots and the limit behind
  them; one client that gets, one that uploads and one that says nothing make one
  more than fit. A file is empty or two pieces long. Clients send and leave only
  once they are accepted: the server looks at none of it before.
* **PushRtc.** Rings of two frames instead of the library's, which are empty, part
  full, full and wrap; four frames fill a ring twice. `MaxFrames` is the bound
  on what the camera delivers; the proofs cover any ring and any number.
* **RtcSend.** A ring of three buffers, a queue of two slots and sequences that
  wrap at 8; 10 packets wrap all three, so that a slot and a buffer can be
  overtaken at every point of a resend, and a sequence can be one of a round ago.
  The proofs cover any lengths, the queue longer than the ring as well. Frames of
  2, 4 and 5 bytes at 2 per packet are one packet, fragments with a rest, and the
  size whose fragments would all be full. A NACK asks for any of the last 7 packets.

`CHECK_DEADLOCK FALSE` appears where the system may stop: the process may be
gone or crashed, the clients of the model may all have finished, one call of the
encoder ends, the bound on frames, packets or units is reached.

## 5. Fairness

* **FrameQueue**: every thread that can step does (weak fairness of each
  thread's steps), a consumer calls `dequeue` again as the RTSP thread's loop
  does; nobody is forced to call `enqueue`. The mutex is only weakly fair: with
  one producer and one consumer, as in the program, that is enough.
* **Camera**: weak fairness of main, of the RTSP and HTTP threads, of a frame
  that can be queued and of time. None for the arrival of frames, requests or
  SIGINT: the camera may be silent for ever. One that was open and falls silent
  for two seconds makes the capture thread end the process (`CaptureExit`); one
  that never opened, or whose message was lost, just gives no frames, and
  `SigintStops` and `NobodyWaits` hold then because the watchdog ends the process.
* **PushRtc**: the threads run; nothing makes the camera deliver, so
  `PreviewMoves` follows from the record thread alone.
* **HttpServer**: the thread goes on; and a client that stays reads, which is
  strong fairness of select finding it writable, since a slow client's socket
  can be full again and again.

The other specifications are about safety only.

## 6. Where the code and its comments disagree

* `EnoughForFrame`: the comment at librtsp/rtsp_demo.c:1845 guesses the number of
  packets "for this frame". Six or more short units, as an encoder that cuts
  pictures into slices makes them, can take one packet more than were reserved;
  the loop stops, the last units are not sent and the call reports success. For
  five units it always suffices, which is proved.
* `SearchAnswered`: the comment at libhttpserver/server.c:1326 says the search's
  result is sent to the client. The block it heads is disabled, and line 1330 makes
  the same call for the same purpose. The result arrives by message a turn after the same
  client was answered with an empty page and its socket shut down.

Two more have no run:

* librtsp/rtsp_demo.c:1861 says that slow connections are moved to the queue's
  tail, line 1867 moves them to its head. The head is right: it is the oldest
  packet there is, and a reader moved to it loses only what was dropped.
* srtp.h:339-342 (libwebrtc/webrtc/thirdparty/user_include/srtp2) warns that
  packets of the same sequence must be sent again with the same payload, or
  "a severe security weakness is introduced". A resend encrypts the cipher text
  that lies in the buffer (YangPush.c:31), so its payload is another one, the plain
  text. Each resend turns it over, and a receiver that takes the first resend
  for authentic drops the second as a replay. That follows from `Layered` alone,
  so no run states it.

What else modelling showed, without a line of the repository that says otherwise:

* YangPushH264.c:151: `x ? 0 : 1 + n` is read by C as `x ? 0 : (1 + n)`, so a frame
  whose fragments would all be full has none and is not sent, without an error.
* YangPushStream.c:80: the sound's ring has 100 buffers and its queue 128 slots, so
  the queue's oldest 28 slots name buffers that hold later packets. The sequence
  is compared with the slot's, not with the packet's.
* YangPushStream.c:81 and 103: the slot is looked at and then read again without a
  lock, and nothing keeps the publish thread from making the next packets in
  between. A NACK for a packet about 1023 back, followed by new packets, can
  resend the packet 1024 later, or one buffer's bytes in another's length. It can
  also encrypt the publish thread's new packet before or while that thread does,
  which is then sent as plain text or unreadable.
* YangPushH264.c:184: a write that fails returns from the middle of a frame; the
  packets behind it are not made, and nothing marks the frame as cut.
* YangSysMessageHandle.cpp:74: a message posted before the message thread has set
  `m_loop` is dropped; `PostLost` is that step, and no property speaks of it. One
  posted between the thread's last look at the list and `m_waitState` wakes nobody,
  which is the clause of `NoLostWakeup`. The program sleeps 300 ms before each
  post, which makes the first unlikely, and posts nothing after the second
  message, so that a missed wakeup is not made good.
* YangPushHandleImpl.cpp:161: a WHIP connection that fails is not tried again.
* YangSRtp.c:85: `rtpLock` stays locked when `srtp_protect` fails. A NACK for
  sequence 0 of the sound, whose queue was never fed, gets there: the empty slot
  has that sequence and names a packet of no bytes.
* main/c_rtsp_server.c:96: the copy `enqueue` made of a frame is not freed.
* main/server.c:55: the upload thread's end is not looked at; the check is
  commented out.
* libupload/src/server.c:507: a request whose header or body fills `packet` makes
  `recv` one of no bytes; its 0 is taken for the peer's end and the client, still
  connected and not answered, is closed.
* libhttpserver/http.c:245-258: the part of a line kept from the call before is
  freed when the line is finished, and the rest of the bytes, which lie in the same
  memory, is copied after that.
* libhttpserver/server.c:1053: a client whose send fails with anything but EAGAIN
  is kept, and select reports it every turn.

## 7. Proofs

**FrameQueue_proofs**, for every capacity, any sets of producers and consumers
and any frames, from the module's named assumptions (a positive capacity,
disjoint threads, marks that are neither frame nor thread):

* `TypeCorrect`, `MutualExclusion`, `RingCorrect`, `CopiesCorrect`. The inductive
  invariant is `TypeOK /\ MutexInv /\ RingConsistent /\ CopiesInv`; none of the
  last three is inductive alone. That `count` stays within the capacity needs
  that nobody else was inside the mutex between the check and the increment;
  that a copy is still the front frame needs the same and the arithmetic of the
  ring. The lemmas `Wrap`, `NextSlot`, `RearIsFree` and `PosAfterFront` carry
  that arithmetic.
* `Refinement`: the ring implements FrameFifo. Each step maps to one of its
  steps or to none.
* `WakeupCorrect`, for finitely many threads (`FiniteAssumption`): `Covered` counts,
  for the free slots while a producer sleeps and the queued frames while a consumer
  does, the threads that are on their way to use them or about to signal.
* `AwakeCorrect`: from it, that with a producer and a consumer the threads never
  all sleep in `pthread_cond_wait` at once.

**RtpEnc_proofs**, for every size of a packet above its headers, any number of
packets and every frame made of units behind start codes
(`PacketAssumption`, `FramesAssumption`):

* `TypeCorrect`, `FitsCorrect`, `ReassemblyCorrect`. The strengthening `Stands`
  relates the last packet to the encoder's place: between units it completes the
  unit before, inside one it ends where the encoder stands, and it has its end
  bit exactly when that is the unit's end.
* `EnoughCorrect`. `Count` says that the packets filled, less one for each unit
  begun, carry a full share of the frame's bytes each, so they number less than
  the shares in the guess; the four spare packets pay for the units before the
  fifth. `Shares` and `FewerShares` are the division.

**RtspStream_proofs**, for every ring, every set of connections and every number
of packets reserved per frame below the ring's length:

* `TypeCorrect`, `RingCorrect`, `DeliveryCorrect`. The inductive invariant is
  `TypeOK /\ RingSound /\ MadeInv /\ Delivery`; `MadeInv` says that what the encoder
  made and has not pushed lies behind tail in order. The arithmetic of indexes is
  in the lemmas about `Distance`.
* `Refinement`: the stream implements StreamLog, so that what is sent to a reader
  is each time the packet due: `RingSound` and `Delivery` put the number in the
  reader's slot one behind the last it was sent, or at the oldest of the ring.

**RtspServer_proofs**, for any connections and blocks of memory: `TypeCorrect`,
`PassCorrect`, `ConnectionsCorrect`. The inductive invariant adds `NotedInv` to
what they state: from the beginning of a visit to its end the transport noted is
the connection's, or has been freed in it. For the output of a connection, with
units of any length and any buffer: `OutTypeCorrect` and `FramingCorrect`.
`Framing` with the types is inductive; the lemma `Cut` says that a send that takes
part of a sequence leaves the rest of it.

**Process_proofs**, for every threshold and any length of the frame queue
(`ThresholdAssumption`, `QueueAssumption`):

* `TypeCorrect` and `AlarmCorrect`. `AgeInv` says why a thread that runs is not given
  up: the RTSP thread ticks before it waits for a frame, so its tick is never
  older than its last frame, and while it handles one the time it waited is in
  `gap`; the HTTP thread's tick is at most one unit old. To be inductive it needs
  `CreateInv`, that main creates each thread once, since a thread that were started
  again would come with an old tick.
* `AlarmInTime` is the converse: while main watches, time passes only when no
  watched thread is over the threshold. It is what can be proved of
  `EndedIsNoticed` and `SigintStops`.

and for any clients, blocks, requests cut anywhere, files and messages
(`RequestAssumption`):

* `HttpTypeCorrect`, `OneAnswerCorrect`, `DroppedCorrect`. The inductive invariant
  `HttpIInv` says what a client is (`Served`), where the turn stands (`Turns`) and
  that what select found still holds (`Found`). A client is answered once because one
  whose request is still expected has no answer (`Answered`), which a result
  written into its block by a late message does not change; one that has not left
  is not taken for one that has because only its own visit takes its bytes.
* `FoundCorrect`: what select found is still so when it is used, although clients
  are removed and blocks used again in between.
* `FinishedCorrect`: a connection is shut down only behind its whole answer. It is
  the part of `AnswersComplete` that is not liveness.

**UploadServer_proofs**, for any clients and any table: `TypeCorrect`,
`TableCorrect`, `RecvCorrect`, `ClosedCorrect`. The inductive invariant says of
every slot what `TableInv` says of the table (`Watched`, `Held`, `Descriptors`),
what poll's answers are still worth in the middle of a pass (`Ready`) and that a
slot that waits to send more has more to send (`Pieces`). `ClosedCorrect` covers the
request that is too long for `packet`.

**PushRtc_proofs**, for rings of any length and any number of frames:
`TypeCorrect`, `HeldCorrect`, `WakeupCorrect`, `PreviewRefines`, `SkipsCorrect`,
`ReadersGoForward`. Three inductive invariants, one for the list and its two
threads, one for the stamps, one for the rings: a reference in use is to the slot
behind the oldest frame, which the writer reaches only with the frame that fills
the ring. `ReadersGoForward` needs a fourth, `Ahead`: what waits in a reader's ring
is later than what it has seen and rises. It says of both rings what
`PreviewRefines` says of one, and that a reset of the encoder's ring brings no
frame back.

**RtcSend_proofs**, for every modulus, ring, queue and payload, and any frames,
with no assumption on how fast a NACK is answered: `TypeCorrect`,
`SendsOwnCorrect`, `ResendCorrect`, `WholeFrameCorrect`. The inductive invariant
`IInv` says what the ring holds (`RingKept`), what the slots name while they are
stored to field by field (`SlotsNamed`), what of that the socket thread has read
(`AskedInv`) and how many layers lie over the newest packet (`LayersInv`). The
argument of `ResendCorrect` (lemma `ReadIs`) is that a field read at any time after
the look is the asked packet's or that of one a lap later, and that an equal
sequence at the look means that the slot was still the packet's or was being
stored to then; that of `SendsOwnCorrect`, that a NACK gets at the newest buffer
only when its packet is a lap back. That two encryptions cancel is how libsrtp's
counter mode works, not code of this repository.

Only model-checked: liveness (the progress in `FifoFairSpec`, `SigintStops`,
`EndedIsNoticed`, `NobodyWaits`, `AnswersComplete`, `PreviewMoves`). Temporal
properties under fairness are outside what the prover can do, and so is computing
by recursion over data. Every invariant and every action property of the passing
runs is proved. The invariants `HttpIInv`, `AgeInv`, `CreateInv` and `Ahead` were
checked with TLC on the instances of 4 before they were proved; the theorems about
them have no run of their own.

## 8. Not modelled

* The text of RTSP, SDP and HTTP messages, digests and RTCP: the models start
  from what a message asks and end with its length.
* Sound: the calls that would feed it are commented out.
* x264 and the reopening of the encoder when the picture's size changes: one
  step that yields a frame.
* Framing of requests in the RTSP receive buffer: RtspServer takes whole requests.
* Of the push: sound, the screen and outside sources, disconnecting, RTCP other
  than NACK, the bandwidth estimate, STUN, DTLS, and what becomes of encoded
  frames between the encoder thread and RtcSend's publish thread.
* A failure of `srtp_protect` and the lock it would leave taken: RtcSend is the
  video's stream, whose slots are stored to before they can be asked for. The
  sound's, never fed, is where it can happen, see 6.
* Start-up failures inside the HTTP server, memory running out, the size limits
  of descriptor sets, speed: see the notes of the hazards.
* Parts that are not in the program (record thread, event loop of libaenet,
  option and dictionary files, background jobs) and vendored libraries. The
  latter are most of the repository's lines: headers of ffmpeg, mbedTLS, OpenSSL
  and libyuv, and codecs, whose source is not there.

## 9. Plan

Done: the frame queue, the stream, packetisation, output and connections of RTSP,
the process, the upload and the HTTP server, the push's threads and its sender,
and the proofs of 7, which leave no safety property of a run unproved. What is left, most useful first:

1. RtspRecv: framing of requests in the receive buffer (`rtsp_recv_msg`,
   `rtsp_msg_frame_size`), joined with RtspServer's visit.
2. The step from RtspStream to RtspOut: a reader's index moves when its packet is
   taken by the socket or kept as a remainder.
3. The encoder ring's other end: EncoderTake's frames as RtcSend's, with the
   publish thread's own queue between.
