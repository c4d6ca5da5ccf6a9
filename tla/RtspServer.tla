----------------------------- MODULE RtspServer -----------------------------
(***************************************************************************)
(* librtsp/rtsp_demo.c: the list of client connections and one pass of     *)
(* rtsp_do_event over it.  A pass takes one connection at a time: it notes *)
(* the next list element, the connection's session and its transport       *)
(* (vrtp), then handles every request that has arrived, then uses the      *)
(* session and the transport it noted.  Requests bind the session, create, *)
(* replace and free the transport, or delete the connection.               *)
(*                                                                         *)
(* A transport is the block of memory it lives in, so that a freed one may *)
(* come back as another.  Requests the code answers with an error before   *)
(* it changes anything are stutters.  There is one session, the program's  *)
(* "/live/video", without authentication; the audio transport stays NULL.  *)
(***************************************************************************)
EXTENDS Naturals, Sequences, SequencesExt

CONSTANTS
  Conn,      \* blocks a client connection can live in
  Mem,       \* blocks a transport can live in
  Null       \* no connection, no transport

ASSUME NullAssumption == Null \notin Conn \cup Mem

VARIABLES
  conns,     \* d->connections_qhead, oldest first
  state,     \* cc->state, "NONE" when the block holds no connection
  bound,     \* cc->session # NULL: the connection is in the session's list
  vrtp,      \* cc->vrtp
  pc,        \* where rtsp_do_event is
  rfds,      \* connections select found readable
  cur,       \* cc1
  following, \* cc: the list element after cc1
  noted,     \* the local vrtp
  noteds,    \* the local s # NULL
  stale      \* history: the transport noted was freed since

table == <<conns, state, bound, vrtp>>
pass == <<pc, rfds, cur, following, noted, noteds, stale>>
vars == <<table, pass>>

Init ==
  /\ conns = <<>>
  /\ state = [c \in Conn |-> "NONE"]
  /\ bound = [c \in Conn |-> FALSE]
  /\ vrtp = [c \in Conn |-> Null]
  /\ pc = "outside"
  /\ rfds = {}
  /\ cur = Null /\ following = Null
  /\ noted = Null /\ noteds = FALSE /\ stale = FALSE

Listed == ToSet(conns)
First(s) == IF s = <<>> THEN Null ELSE Head(s)
Successor(c) ==
  LET later == {i \in DOMAIN conns : i > 1 /\ conns[i - 1] = c}
  IN  IF later = {} THEN Null ELSE conns[CHOOSE i \in later : TRUE]

-----------------------------------------------------------------------------
(* The frame of a pass.                                                    *)

Select(ready) ==
  /\ pc = "outside"
  /\ pc' = "accept"
  /\ rfds' = ready
  /\ UNCHANGED <<table, cur, following, noted, noteds, stale>>

NoClient ==
  /\ pc = "accept"
  /\ pc' = "next"
  /\ following' = First(conns)
  /\ UNCHANGED <<table, rfds, cur, noted, noteds, stale>>

(* Mutation of NewClient: a failed allocation is not noticed.              *)
NewClientUnchecked(c) ==
  /\ pc = "accept"
  /\ state[c] = "NONE"
  /\ conns' = Append(conns, Null)
  /\ pc' = "next"
  /\ following' = First(conns')
  /\ UNCHANGED <<state, bound, vrtp, rfds, cur, noted, noteds, stale>>

(* rtsp_new_client_connection                                              *)
NewClient(c) ==
  /\ pc = "accept"
  /\ state[c] = "NONE"
  /\ conns' = Append(conns, c)
  /\ state' = [state EXCEPT ![c] = "INIT"]
  /\ pc' = "next"
  /\ following' = First(conns')
  /\ UNCHANGED <<bound, vrtp, rfds, cur, noted, noteds, stale>>

(* Mutation of Visit: the next element is looked up after the requests.    *)
VisitKeepsPlace ==
  /\ pc = "next"
  /\ following # Null
  /\ cur' = following
  /\ following' = following
  /\ noted' = vrtp[following]
  /\ noteds' = bound[following]
  /\ stale' = FALSE
  /\ pc' = IF following \in rfds THEN "requests" ELSE "serve"
  /\ UNCHANGED <<table, rfds>>

Visit ==
  /\ pc = "next"
  /\ following # Null
  /\ cur' = following
  /\ following' = Successor(following)
  /\ noted' = vrtp[following]
  /\ noteds' = bound[following]
  /\ stale' = FALSE
  /\ pc' = IF following \in rfds THEN "requests" ELSE "serve"
  /\ UNCHANGED <<table, rfds>>

EndPass ==
  /\ pc = "next"
  /\ following = Null
  /\ pc' = "outside"
  /\ UNCHANGED <<table, rfds, cur, following, noted, noteds, stale>>

-----------------------------------------------------------------------------
(* Requests of the connection visited: rtsp_recv_msg has a whole one.      *)

Requested == pc = "requests"

(* rtsp_recv_msg has no more whole requests.                               *)
NoMoreRequests ==
  /\ Requested
  /\ pc' = "serve"
  /\ UNCHANGED <<table, rfds, cur, following, noted, noteds, stale>>

(* rtsp_process_request past the session check: it binds the session       *)
(* (__client_connection_bind_session) whatever the handler does next.      *)
Bind == bound' = [bound EXCEPT ![cur] = TRUE]

(* DESCRIBE, and every other request but OPTIONS that its handler refuses. *)
Describe ==
  /\ Requested
  /\ Bind
  /\ UNCHANGED <<conns, state, vrtp, pass>>

(* rtsp_del_rtp_connection: the transport noted may be the one freed.      *)
Free == stale' = (stale \/ vrtp[cur] # Null)

Setup(a) ==
  /\ Requested
  /\ \A c \in Conn \ {cur} : vrtp[c] # a
  /\ Bind
  /\ Free
  /\ vrtp' = [vrtp EXCEPT ![cur] = a]
  /\ state' = [state EXCEPT ![cur] = IF @ = "INIT" THEN "READY" ELSE @]
  /\ UNCHANGED <<conns, pc, rfds, cur, following, noted, noteds>>

(* No memory or no UDP port for the new transport, the old one is gone.    *)
SetupFails ==
  /\ Requested
  /\ Bind
  /\ Free
  /\ vrtp' = [vrtp EXCEPT ![cur] = Null]
  /\ UNCHANGED <<conns, state, pc, rfds, cur, following, noted, noteds>>

Play ==
  /\ Requested
  /\ state[cur] \in {"READY", "PLAYING"}
  /\ Bind
  /\ state' = [state EXCEPT ![cur] = "PLAYING"]
  /\ UNCHANGED <<conns, vrtp, pass>>

Pause ==
  /\ Requested
  /\ state[cur] \in {"READY", "PLAYING"}
  /\ Bind
  /\ state' = [state EXCEPT ![cur] = "READY"]
  /\ UNCHANGED <<conns, vrtp, pass>>

(* Mutation of Teardown: the connection is reset, its transport is not.    *)
TeardownKeepsTransport ==
  /\ Requested
  /\ Bind
  /\ state' = [state EXCEPT ![cur] = "INIT"]
  /\ UNCHANGED <<conns, vrtp, pass>>

(* TEARDOWN of the video track or of the whole session.                    *)
Teardown ==
  /\ Requested
  /\ Bind
  /\ Free
  /\ vrtp' = [vrtp EXCEPT ![cur] = Null]
  /\ state' = [state EXCEPT ![cur] = "INIT"]
  /\ UNCHANGED <<conns, pc, rfds, cur, following, noted, noteds>>

(* TEARDOWN of the audio track, which nobody has set up.                   *)
TeardownAudio ==
  /\ Requested
  /\ Bind
  /\ state' = IF vrtp[cur] = Null THEN [state EXCEPT ![cur] = "INIT"] ELSE state
  /\ UNCHANGED <<conns, vrtp, pass>>

(* The peer closed, the socket failed or the request does not parse:       *)
(* rtsp_del_client_connection.                                             *)
Delete ==
  /\ Requested
  /\ conns' = RemoveAt(conns, CHOOSE i \in DOMAIN conns : conns[i] = cur)
  /\ state' = [state EXCEPT ![cur] = "NONE"]
  /\ bound' = [bound EXCEPT ![cur] = FALSE]
  /\ vrtp' = [vrtp EXCEPT ![cur] = Null]
  /\ pc' = "next"
  /\ UNCHANGED <<rfds, cur, following, noted, noteds, stale>>

-----------------------------------------------------------------------------
(* The rest of the visit: resending packets and reading the UDP sockets of *)
(* the transport noted.  It is used when the connection is playing now.    *)

Uses == pc = "serve" /\ state[cur] = "PLAYING" /\ noted # Null

Serve ==
  /\ pc = "serve"
  /\ pc' = "next"
  /\ UNCHANGED <<table, rfds, cur, following, noted, noteds, stale>>

(* Reading a freed block, or calling rtsp_tx_video_packet with a vrtp that *)
(* is NULL by now, may as well end the program.                            *)
Crash ==
  /\ Uses
  /\ stale \/ vrtp[cur] = Null \/ ~noteds
  /\ pc' = "crashed"
  /\ UNCHANGED <<table, rfds, cur, following, noted, noteds, stale>>

Next ==
  \/ \E ready \in SUBSET Listed : Select(ready)
  \/ NoClient
  \/ \E c \in Conn : NewClient(c)
  \/ Visit \/ EndPass
  \/ NoMoreRequests \/ Describe \/ SetupFails \/ Play \/ Pause
  \/ \E a \in Mem : Setup(a)
  \/ Teardown \/ TeardownAudio \/ Delete
  \/ Serve \/ Crash

Spec == Init /\ [][Next]_vars

-----------------------------------------------------------------------------
TypeOK ==
  /\ conns \in Seq(Conn)
  /\ state \in [Conn -> {"NONE", "INIT", "READY", "PLAYING"}]
  /\ bound \in [Conn -> BOOLEAN]
  /\ vrtp \in [Conn -> Mem \cup {Null}]
  /\ pc \in {"outside", "accept", "next", "requests", "serve", "crashed"}
  /\ rfds \subseteq Conn
  /\ cur \in Conn \cup {Null}
  /\ following \in Conn \cup {Null}
  /\ noted \in Mem \cup {Null}
  /\ noteds \in BOOLEAN
  /\ stale \in BOOLEAN

(* The element a pass will go on with is in the list, and so is the one it *)
(* is visiting: deleting connections on the way never leaves the pass on a *)
(* freed one.                                                              *)
PassStaysOnList ==
  /\ pc \in {"next", "requests", "serve"} => following \in Listed \cup {Null}
  /\ pc \in {"requests", "serve"} => cur \in Listed /\ cur # following

(* Transports follow their connection: an unlisted one or one back in INIT *)
(* owns none (no UDP ports left behind), and no two share a block.         *)
TransportsOwned ==
  /\ IsInjective(conns)
  /\ \A c \in Conn : c \in Listed <=> state[c] # "NONE"
  /\ \A c \in Conn : state[c] \in {"NONE", "INIT"} => vrtp[c] = Null
  /\ \A c, d \in Conn : vrtp[c] # Null /\ vrtp[c] = vrtp[d] => c = d

(* Wherever the code follows cc->session it is bound: a connection with a  *)
(* transport or past INIT has one.                                         *)
SessionBound ==
  \A c \in Conn :
    /\ state[c] \in {"READY", "PLAYING"} \/ vrtp[c] # Null => bound[c]
    /\ state[c] = "NONE" => ~bound[c]

(* The end of a visit works on the session and the transport it noted      *)
(* although requests came in between: the session is there, and the        *)
(* transport is still the connection's own, unless a SETUP or TEARDOWN     *)
(* among these very requests freed it.                                     *)
NotedInUse == Uses => noteds /\ (stale \/ noted = vrtp[cur])

(* What a pass carries from one step to the next (the element it visits,   *)
(* the one after it, the session and the transport noted) stands whatever  *)
(* the requests of the connections before did.                             *)
PassInv == PassStaysOnList /\ NotedInUse

(* After any requests in any order the connections' states, sessions and   *)
(* transports agree with each other and with the list.                     *)
ConnectionsAgree == TransportsOwned /\ SessionBound
=============================================================================
