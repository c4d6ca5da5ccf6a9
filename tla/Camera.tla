------------------------------- MODULE Camera -------------------------------
(***************************************************************************)
(* The process: main() creates its threads and then watches two of them;   *)
(* the capture callback of the WebRTC thread fills the frame queue; the    *)
(* RTSP thread empties it, one frame per turn, and serves RTSP requests    *)
(* between two frames; the HTTP server thread turns at least once a        *)
(* second; SIGINT asks the RTSP thread to stop.                            *)
(*                                                                         *)
(* The frame queue is its abstract specification, FrameFifo, which         *)
(* FrameQueue implements.                                                  *)
(*                                                                         *)
(* Time passes in units much longer than any turn of a thread that does    *)
(* not block and than main's half-second sleep, and a watched thread is    *)
(* given up after Threshold units: 60 * 100 ticks of 10 ms in the code.    *)
(***************************************************************************)
EXTENDS Naturals, Sequences

CONSTANTS
  Frame, NoFrame,
  Capacity,    \* of the frame queue
  Threshold    \* alive_threshold, in units of time

ASSUME ThresholdAssumption == Threshold \in Nat \ {0}
ASSUME QueueAssumption == Capacity \in Nat \ {0} /\ NoFrame \notin Frame

VARIABLES
  items, offered, taken,  \* the frame queue
  main,       \* "create_rtsp" .. "create_webrtc", "watch", "left", "killed" or "exited"
  rtsp,       \* RTSP thread: "none", "init", "loop", "dequeue", "events", "ended"
  server,     \* HTTP server thread: "none", "init", "loop", "ended"
  run,        \* flag_run
  rtspAge,    \* units since g_rtsp_thread_context.tick was set
  serverAge,  \* units since g_server_thread_context.tick was set
  polled,     \* main has looked at the threads in this unit
  asked,      \* an RTSP request is waiting in a socket
  unfed,      \* history: units since the RTSP thread got a frame, or started
  gap         \* history: unfed when it got that frame

queue == <<items, offered, taken>>
history == <<unfed, gap>>
watch == <<main, polled, rtspAge, serverAge, history>>
vars == <<queue, watch, rtsp, server, run, asked>>

Capture == "capture"
Rtsp == "rtsp"

Queue == INSTANCE FrameFifo WITH Producers <- {Capture}, Consumers <- {Rtsp}

Init ==
  /\ Queue!Init
  /\ main = "create_rtsp"
  /\ rtsp = "none" /\ server = "none"
  /\ run = TRUE
  /\ rtspAge = 0 /\ serverAge = 0 /\ unfed = 0 /\ gap = 0
  /\ polled = FALSE
  /\ asked = FALSE

Gone == main \in {"left", "killed", "exited"}

-----------------------------------------------------------------------------
(* main: creates the threads one after the other, then watches.            *)

CreateRtsp ==
  /\ main = "create_rtsp"
  /\ main' = "create_server"
  /\ rtsp' = "init"
  /\ UNCHANGED <<queue, server, run, rtspAge, serverAge, polled, asked, history>>

CreateServer ==
  /\ main = "create_server"
  /\ main' = "create_upload"
  /\ server' = "init"
  /\ UNCHANGED <<queue, rtsp, run, rtspAge, serverAge, polled, asked, history>>

CreateUpload ==
  /\ main = "create_upload"
  /\ main' = "create_webrtc"
  /\ UNCHANGED <<queue, rtsp, server, run, rtspAge, serverAge, polled, asked, history>>

CreateWebrtc ==
  /\ main = "create_webrtc"
  /\ main' = "watch"
  /\ UNCHANGED <<queue, rtsp, server, run, rtspAge, serverAge, polled, asked, history>>

(* pthread_create failed: goto quit.                                       *)
CreateFails ==
  /\ main \in {"create_rtsp", "create_server", "create_upload", "create_webrtc"}
  /\ main' = "left"
  /\ UNCHANGED <<queue, rtsp, server, run, rtspAge, serverAge, polled, asked, history>>

(* Mutation of Alive: gives up one unit early.                             *)
AliveShort(age) == age < Threshold

(* is_thread_alive of the two threads main watches.                        *)
Alive(age) == age <= Threshold

(* Mutation of Poll: the HTTP server thread is not watched.                *)
PollRtspOnly ==
  /\ main = "watch"
  /\ main' = IF Alive(rtspAge) THEN "watch" ELSE "left"
  /\ polled' = TRUE
  /\ UNCHANGED <<queue, rtsp, server, run, rtspAge, serverAge, asked, history>>

(* Mutation of Poll: the RTSP thread is not watched.                       *)
PollServerOnly ==
  /\ main = "watch"
  /\ main' = IF Alive(serverAge) THEN "watch" ELSE "left"
  /\ polled' = TRUE
  /\ UNCHANGED <<queue, rtsp, server, run, rtspAge, serverAge, asked, history>>

Poll ==
  /\ main = "watch"
  /\ main' = IF Alive(rtspAge) /\ Alive(serverAge) THEN "watch" ELSE "left"
  /\ polled' = TRUE
  /\ UNCHANGED <<queue, rtsp, server, run, rtspAge, serverAge, asked, history>>

-----------------------------------------------------------------------------
(* The capture callback on_video_yuv_frame: encodes and calls enqueue,     *)
(* which holds it until the queue takes the frame.                         *)

CaptureFrame(f) ==
  /\ main = "watch"
  /\ Queue!Offer(Capture, f)
  /\ UNCHANGED <<watch, rtsp, server, run, asked>>

FrameQueued ==
  /\ ~Gone
  /\ Queue!Accept(Capture)
  /\ UNCHANGED <<watch, rtsp, server, run, asked>>

-----------------------------------------------------------------------------
(* rtsp_thread_function.                                                   *)

RtspInit(ok) ==
  /\ ~Gone
  /\ rtsp = "init"
  /\ rtsp' = IF ok THEN "loop" ELSE "ended"
  /\ UNCHANGED <<queue, watch, server, run, asked>>

(* Mutation of RtspTurn: flag_run is not looked at.                        *)
RtspTurnAlways ==
  /\ ~Gone
  /\ rtsp = "loop"
  /\ rtspAge' = 0
  /\ rtsp' = "dequeue"
  /\ UNCHANGED <<queue, main, polled, serverAge, history, server, run, asked>>

(* The turn begins with the tick; c_do_rtsp_handler returns 0 at once when *)
(* flag_run is cleared.                                                    *)
RtspTurn ==
  /\ ~Gone
  /\ rtsp = "loop"
  /\ rtspAge' = 0
  /\ rtsp' = IF run THEN "dequeue" ELSE "ended"
  /\ UNCHANGED <<queue, main, polled, serverAge, history, server, run, asked>>

RtspDequeue ==
  /\ ~Gone
  /\ rtsp = "dequeue"
  /\ Queue!Deliver(Rtsp)
  /\ rtsp' = "events"
  /\ unfed' = 0
  /\ gap' = unfed
  /\ UNCHANGED <<main, polled, rtspAge, serverAge, server, run, asked>>

(* rtsp_tx_video, then passes of rtsp_do_event until 40 ms are over.       *)
RtspEvents ==
  /\ ~Gone
  /\ rtsp = "events"
  /\ Queue!Consume(Rtsp)
  /\ rtsp' = "loop"
  /\ asked' = FALSE
  /\ UNCHANGED <<watch, server, run>>

(* Mutation of RtspEventsFail: the frame is kept for the next turn.        *)
RtspEventsRetry ==
  /\ ~Gone
  /\ rtsp = "events"
  /\ ~run
  /\ rtsp' = "loop"
  /\ UNCHANGED <<queue, watch, server, run, asked>>

(* A signal interrupts select: rtsp_do_event returns -1.                   *)
RtspEventsFail ==
  /\ ~Gone
  /\ rtsp = "events"
  /\ ~run
  /\ Queue!Consume(Rtsp)
  /\ rtsp' = "loop"
  /\ UNCHANGED <<watch, server, run, asked>>

-----------------------------------------------------------------------------
(* server_thread_function.                                                 *)

ServerInit(ok) ==
  /\ ~Gone
  /\ server = "init"
  /\ server' = IF ok THEN "loop" ELSE "ended"
  /\ UNCHANGED <<queue, watch, rtsp, run, asked>>

ServerTurn ==
  /\ ~Gone
  /\ server = "loop"
  /\ serverAge' = 0
  /\ UNCHANGED <<queue, main, polled, rtspAge, history, rtsp, server, run, asked>>

-----------------------------------------------------------------------------
(* The environment.                                                        *)

(* c_init_rtsp installs the handler; until then SIGINT kills the process.  *)
Sigint ==
  /\ ~Gone
  /\ IF rtsp \in {"none", "init"}
     THEN main' = "killed" /\ UNCHANGED run
     ELSE run' = FALSE /\ UNCHANGED main
  /\ UNCHANGED <<queue, polled, rtspAge, serverAge, history, rtsp, server, asked>>

(* The capture thread calls exit() when the camera is silent for two       *)
(* seconds.  One that did not open, or whose start was lost, just gives no *)
(* frame: PushRtc.                                                         *)
CaptureExit ==
  /\ main = "watch"
  /\ main' = "exited"
  /\ UNCHANGED <<queue, polled, rtspAge, serverAge, history, rtsp, server, run, asked>>

Request ==
  /\ rtsp \notin {"none", "init", "ended"}
  /\ ~Gone
  /\ asked' = TRUE
  /\ UNCHANGED <<queue, watch, rtsp, server, run>>

Older(age) == IF age > Threshold THEN age ELSE age + 1

(* A unit passes: every thread that is not blocked has begun a turn in it. *)
Starved == rtsp = "dequeue" /\ items = <<>> /\ offered[Capture] = NoFrame

Tick ==
  /\ main = "watch" /\ polled
  /\ rtspAge = 0 \/ Starved \/ rtsp = "ended"
  /\ serverAge = 0 \/ server = "ended"
  /\ rtspAge' = Older(rtspAge)
  /\ serverAge' = Older(serverAge)
  /\ unfed' = Older(unfed)
  /\ polled' = FALSE
  /\ UNCHANGED <<queue, main, gap, rtsp, server, run, asked>>

-----------------------------------------------------------------------------
MainStep ==
  CreateRtsp \/ CreateServer \/ CreateUpload \/ CreateWebrtc \/ CreateFails \/ Poll
RtspStep ==
  \/ \E ok \in BOOLEAN : RtspInit(ok)
  \/ RtspTurn \/ RtspDequeue \/ RtspEvents \/ RtspEventsFail
ServerStep == ServerTurn \/ \E ok \in BOOLEAN : ServerInit(ok)

Next ==
  \/ MainStep \/ FrameQueued \/ RtspStep \/ ServerStep
  \/ \E f \in Frame : CaptureFrame(f)
  \/ Sigint \/ CaptureExit \/ Request \/ Tick

Spec == Init /\ [][Next]_vars

(* Threads that can run do run and time passes.  Nothing makes the camera  *)
(* deliver frames.                                                         *)
FairSpec ==
  /\ Spec
  /\ WF_vars(MainStep) /\ WF_vars(FrameQueued)
  /\ WF_vars(RtspStep) /\ WF_vars(ServerStep)
  /\ WF_vars(Tick)

-----------------------------------------------------------------------------
(* Types; and the RTSP thread holds a frame exactly while it handles one.  *)
TypeOK ==
  /\ items \in Seq(Frame) /\ Len(items) <= Capacity
  /\ offered \in [{Capture} -> Frame \cup {NoFrame}]
  /\ taken \in [{Rtsp} -> Frame \cup {NoFrame}]
  /\ main \in {"create_rtsp", "create_server", "create_upload", "create_webrtc",
               "watch", "left", "killed", "exited"}
  /\ rtsp \in {"none", "init", "loop", "dequeue", "events", "ended"}
  /\ server \in {"none", "init", "loop", "ended"}
  /\ run \in BOOLEAN /\ polled \in BOOLEAN /\ asked \in BOOLEAN
  /\ taken[Rtsp] # NoFrame <=> rtsp = "events"
  /\ rtspAge \in 0 .. Threshold + 1
  /\ serverAge \in 0 .. Threshold + 1
  /\ unfed \in 0 .. Threshold + 1 /\ gap \in 0 .. Threshold + 1

(* The watchdog does not end a working camera: once main watches, the      *)
(* process leaves only when the RTSP thread got no frame for longer than   *)
(* the threshold (and at most just got the first one after that), or when  *)
(* one of the two watched threads has ended.                               *)
NoFalseAlarm ==
  [][main = "watch" /\ main' = "left" =>
       \/ unfed > Threshold
       \/ rtsp \in {"events", "loop"} /\ gap > Threshold
       \/ rtsp = "ended" /\ rtspAge > Threshold
       \/ server = "ended" /\ serverAge > Threshold]_vars

(* SIGINT ends the process in the end, also when no frame ever comes again *)
(* and the RTSP thread stays blocked in dequeue.                           *)
SigintStops == ~run ~> Gone

(* A watched thread that ended, because its port was taken for instance,   *)
(* takes the process down with it.                                         *)
EndedIsNoticed == rtsp = "ended" \/ server = "ended" ~> Gone

(* Nobody waits for ever unless the process ends: the capture callback for *)
(* the RTSP thread to make room in a full queue, or a client's request for *)
(* the RTSP thread, which looks at its sockets only when it got a frame.   *)
NobodyWaits ==
  /\ offered[Capture] # NoFrame ~> offered[Capture] = NoFrame \/ Gone
  /\ asked ~> ~asked \/ Gone
=============================================================================
