----------------------------- MODULE BBoxSession -----------------------------
(***************************************************************************)
(* The connections of the TCP server and the threads a connection starts   *)
(* to push bounding boxes to its client.                                   *)
(*                                                                         *)
(* One handle_client thread per accepted connection reads requests and     *)
(* answers them.  Request 31 starts a thread that runs parse_metadata and  *)
(* a thread that pushes boxes every bbox_send_interval_ms; request 32      *)
(* stops both; the end of the connection runs cleanup_client_connection.   *)
(* bbox_push_enabled and the two std::thread objects are locals of         *)
(* handle_client; parser_running and bbox_buffer are globals that all      *)
(* connections share.  A step is one access to shared state, with the      *)
(* local work around it.                                                   *)
(***************************************************************************)
EXTENDS DelayLine

CONSTANTS
  Conns,       \* connections, each accepted once
  Answers      \* how many responses a request can have: 0, 1 or 2 in the code

MaxReplies == 2   \* a detection request is answered with two responses

ASSUME AnswersAssumption == Answers \subseteq 0..MaxReplies

VARIABLES
  server,            \* "up", or how std::terminate was reached
  handler,           \* where the handle_client thread of a connection is
  replies,           \* responses the current request still has to send
  bbox_push_enabled,
  push_thread,       \* "none": not joinable; otherwise where the thread is
  metadata_thread,   \* likewise
  parser_running,
  wire               \* what the client has of the stream of messages

\* The locals of handle_client that its threads use, and the globals.
threads == <<bbox_push_enabled, push_thread, metadata_thread>>
globals == <<parser_running, bbox_buffer>>

vars == <<server, handler, replies, threads, wire, globals>>

HandlerStates ==
  {"accept", "recv", "reply", "reply_body",
   "start_meta", "start_push",
   "stop_push", "stop_flag", "stop_meta", "stop_clear",
   "close_push", "close_meta", "close_free", "closed"}

PushAlive == {"loop", "pop", "prefix", "body"}

MetaAlive == {"entry", "loop", "scan", "packet"}

Init ==
  /\ server = "up"
  /\ handler = [c \in Conns |-> "accept"]
  /\ replies = [c \in Conns |-> 0]
  /\ bbox_push_enabled = [c \in Conns |-> FALSE]
  /\ push_thread = [c \in Conns |-> "none"]
  /\ metadata_thread = [c \in Conns |-> "none"]
  /\ parser_running = FALSE
  /\ wire = [c \in Conns |-> "whole"]
  /\ DelayInit

At(c, here) == handler[c] = here

Goto(c, there) == handler' = [handler EXCEPT ![c] = there]

-----------------------------------------------------------------------------
(* What a client sees on its connection.  A message is a length prefix and *)
(* a body, each one sendAll call; sendAll takes no lock.  wire[c] is       *)
(* "whole" between messages, the writer of the prefix inside a message,    *)
(* "torn" once a chunk did not continue the message the client was         *)
(* reading, and "gone" when the client has left.                           *)

WritePrefix(c, writer) ==
  wire' = [wire EXCEPT ![c] = CASE @ = "whole" -> writer
                                [] @ = "gone" -> "gone"
                                [] OTHER -> "torn"]

\* Mutant: the body is not sent.
BodyNotSent(c, writer) == wire' = wire

WriteBody(c, writer) ==
  wire' = [wire EXCEPT ![c] = CASE @ = writer -> "whole"
                                [] @ = "gone" -> "gone"
                                [] OTHER -> "torn"]

\* The client closes its end, at any time.
PeerLeaves(c) ==
  /\ handler[c] \notin {"accept", "closed"}
  /\ wire[c] # "gone"
  /\ wire' = [wire EXCEPT ![c] = "gone"]
  /\ UNCHANGED <<server, handler, replies, threads, globals>>

-----------------------------------------------------------------------------
(* handle_client: set-up and the receive loop.                             *)

\* accept, the TLS handshake and the creation of the tables; a failed
\* handshake closes the socket and nothing has been started.
Accept(c) ==
  /\ At(c, "accept")
  /\ \E there \in {"recv", "closed"} : Goto(c, there)
  /\ UNCHANGED <<server, replies, threads, wire, globals>>

\* A request that starts or stops nothing, with n responses: most have one, a
\* detection request two.  There is none to an unknown id, an empty login, a
\* camera answer that does not parse (caught in handle_client), a Start while
\* pushing is enabled or a Stop while it is not.
Request(c) ==
  /\ At(c, "recv")
  /\ \E n \in Answers :
       /\ replies' = [replies EXCEPT ![c] = n]
       /\ Goto(c, IF n = 0 THEN "recv" ELSE "reply")
  /\ UNCHANGED <<server, threads, wire, globals>>

ReplyPrefix(c) ==
  /\ At(c, "reply")
  /\ WritePrefix(c, "handler")
  /\ Goto(c, "reply_body")
  /\ UNCHANGED <<server, replies, threads, globals>>

ReplyBody(c) ==
  /\ At(c, "reply_body")
  /\ WriteBody(c, "handler")
  /\ replies' = [replies EXCEPT ![c] = @ - 1]
  /\ Goto(c, IF replies[c] = 1 THEN "recv" ELSE "reply")
  /\ UNCHANGED <<server, threads, globals>>

\* An exception that handle_client does not catch: any from
\* receive_json_message, which is outside the try, and any but
\* json::parse_error from route_request.
Uncaught(c) ==
  /\ At(c, "recv")
  /\ server' = "uncaught"
  /\ UNCHANGED <<handler, replies, threads, wire, globals>>

-----------------------------------------------------------------------------
(* Request 31, handle_bbox_start_request.  Assigning to a std::thread that *)
(* is still joinable calls std::terminate.                                 *)

StartRequest(c) ==
  /\ At(c, "recv")
  /\ ~bbox_push_enabled[c]
  /\ parser_running' = TRUE
  /\ Goto(c, "start_meta")
  /\ UNCHANGED <<server, replies, threads, wire, bbox_buffer>>

StartMetadata(c) ==
  /\ At(c, "start_meta")
  /\ \/ /\ metadata_thread[c] = "none"
        /\ metadata_thread' = [metadata_thread EXCEPT ![c] = "entry"]
        /\ Goto(c, "start_push")
        /\ UNCHANGED server
     \/ /\ metadata_thread[c] # "none"
        /\ server' = "bad_thread"
        /\ UNCHANGED <<metadata_thread, handler>>
  /\ UNCHANGED <<replies, bbox_push_enabled, push_thread, wire, globals>>

StartPush(c) ==
  /\ At(c, "start_push")
  /\ bbox_push_enabled' = [bbox_push_enabled EXCEPT ![c] = TRUE]
  /\ \/ /\ push_thread[c] = "none"
        /\ push_thread' = [push_thread EXCEPT ![c] = "loop"]
        /\ Goto(c, "recv")
        /\ UNCHANGED server
     \/ /\ push_thread[c] # "none"
        /\ server' = "bad_thread"
        /\ UNCHANGED <<push_thread, handler>>
  /\ UNCHANGED <<replies, metadata_thread, wire, globals>>

-----------------------------------------------------------------------------
(* Request 32, handle_bbox_stop_request.                                   *)

\* Mutant: the handler goes on without joining the push thread.
StopWithoutJoin(c) ==
  /\ At(c, "recv")
  /\ bbox_push_enabled[c]
  /\ bbox_push_enabled' = [bbox_push_enabled EXCEPT ![c] = FALSE]
  /\ Goto(c, "stop_flag")
  /\ UNCHANGED <<server, replies, push_thread, metadata_thread, wire, globals>>

StopRequest(c) ==
  /\ At(c, "recv")
  /\ bbox_push_enabled[c]
  /\ bbox_push_enabled' = [bbox_push_enabled EXCEPT ![c] = FALSE]
  /\ Goto(c, "stop_push")
  /\ UNCHANGED <<server, replies, push_thread, metadata_thread, wire, globals>>

\* join() on a thread returns when it has finished and leaves its object
\* not joinable; joinable() guards it.
JoinPush(c, here, there) ==
  /\ At(c, here)
  /\ push_thread[c] \in {"none", "done"}
  /\ push_thread' = [push_thread EXCEPT ![c] = "none"]
  /\ Goto(c, there)
  /\ UNCHANGED <<server, replies, bbox_push_enabled, metadata_thread, wire, globals>>

JoinMetadata(c, here, there) ==
  /\ At(c, here)
  /\ metadata_thread[c] \in {"none", "done"}
  /\ metadata_thread' = [metadata_thread EXCEPT ![c] = "none"]
  /\ Goto(c, there)
  /\ UNCHANGED <<server, replies, bbox_push_enabled, push_thread, wire, globals>>

StopJoinPush(c) == JoinPush(c, "stop_push", "stop_flag")

\* Mutant: stop_metadata_parser is not called.
StopWithoutFlag(c) ==
  /\ At(c, "stop_flag")
  /\ Goto(c, "stop_meta")
  /\ UNCHANGED <<server, replies, threads, wire, globals>>

StopFlag(c) ==
  /\ At(c, "stop_flag")
  /\ parser_running' = FALSE
  /\ Goto(c, "stop_meta")
  /\ UNCHANGED <<server, replies, threads, wire, bbox_buffer>>

StopJoinMetadata(c) == JoinMetadata(c, "stop_meta", "stop_clear")

\* Mutant: the buffer keeps what the session left in it.
StopKeepsBuffer(c) ==
  /\ At(c, "stop_clear")
  /\ Goto(c, "recv")
  /\ UNCHANGED <<server, replies, threads, wire, globals>>

StopClear(c) ==
  /\ At(c, "stop_clear")
  /\ Clear
  /\ Goto(c, "recv")
  /\ UNCHANGED <<server, replies, threads, wire, parser_running>>

-----------------------------------------------------------------------------
(* The end of a connection: cleanup_client_connection.                     *)

\* Mutant: bbox_push_enabled is left as it is.
ReceiveFailsEnabled(c) ==
  /\ At(c, "recv")
  /\ Goto(c, "close_push")
  /\ UNCHANGED <<server, replies, threads, wire, globals>>

\* recvAll fails or the length is 0; the loop ends and cleanup begins.
ReceiveFails(c) ==
  /\ At(c, "recv")
  /\ bbox_push_enabled' = [bbox_push_enabled EXCEPT ![c] = FALSE]
  /\ Goto(c, "close_push")
  /\ UNCHANGED <<server, replies, push_thread, metadata_thread, wire, globals>>

\* Mutant: cleanup does not wait for the push thread.
CloseWithoutJoin(c) ==
  /\ At(c, "close_push")
  /\ Goto(c, "close_meta")
  /\ UNCHANGED <<server, replies, threads, wire, globals>>

CloseJoinPush(c) == JoinPush(c, "close_push", "close_meta")

CloseJoinMetadata(c) == JoinMetadata(c, "close_meta", "close_free")

\* SSL_free, close and the return from handle_client, which destroys its
\* locals; destroying a std::thread that is joinable calls std::terminate.
CloseFree(c) ==
  /\ At(c, "close_free")
  /\ Goto(c, "closed")
  /\ server' = IF push_thread[c] = "none" /\ metadata_thread[c] = "none"
               THEN server ELSE "bad_thread"
  /\ UNCHANGED <<replies, threads, wire, globals>>

-----------------------------------------------------------------------------
(* The push thread: while (bbox_push_enabled) send_bboxes_to_client.       *)

PushGoto(c, there) == push_thread' = [push_thread EXCEPT ![c] = there]

PushLoop(c) ==
  /\ push_thread[c] = "loop"
  /\ PushGoto(c, IF bbox_push_enabled[c] THEN "pop" ELSE "done")
  /\ UNCHANGED <<server, handler, replies, bbox_push_enabled, metadata_thread,
                 wire, globals>>

\* The oldest box set is not there or not old enough; or it is taken, and is
\* sent unless it holds no box.
PushPop(c) ==
  /\ push_thread[c] = "pop"
  /\ \/ PushGoto(c, "loop") /\ UNCHANGED bbox_buffer
     \/ Take /\ PushGoto(c, "loop")
     \/ Take /\ PushGoto(c, "prefix")
  /\ UNCHANGED <<server, handler, replies, bbox_push_enabled, metadata_thread,
                 wire, parser_running>>

PushPrefix(c) ==
  /\ push_thread[c] = "prefix"
  /\ WritePrefix(c, "push")
  /\ PushGoto(c, "body")
  /\ UNCHANGED <<server, handler, replies, bbox_push_enabled, metadata_thread,
                 globals>>

PushBody(c) ==
  /\ push_thread[c] = "body"
  /\ WriteBody(c, "push")
  /\ PushGoto(c, "loop")
  /\ UNCHANGED <<server, handler, replies, bbox_push_enabled, metadata_thread,
                 globals>>

\* Mutant: the push thread disables pushing when it gives up.
PushFailsDisabling(c) ==
  /\ push_thread[c] \in {"prefix", "body"}
  /\ wire[c] = "gone"
  /\ PushGoto(c, "done")
  /\ bbox_push_enabled' = [bbox_push_enabled EXCEPT ![c] = FALSE]
  /\ UNCHANGED <<server, handler, replies, metadata_thread, wire, globals>>

\* sendAll fails: the thread leaves its loop, bbox_push_enabled stays set.
PushFails(c) ==
  /\ push_thread[c] \in {"prefix", "body"}
  /\ wire[c] = "gone"
  /\ PushGoto(c, "done")
  /\ UNCHANGED <<server, handler, replies, bbox_push_enabled, metadata_thread,
                 wire, globals>>

-----------------------------------------------------------------------------
(* The parser thread: parse_metadata.                                      *)

MetaGoto(c, there) == metadata_thread' = [metadata_thread EXCEPT ![c] = there]

\* parser_running is tested, the configuration loaded, ffmpeg started.
MetaEntry(c) ==
  /\ metadata_thread[c] = "entry"
  /\ \/ parser_running /\ MetaGoto(c, "loop")
     \/ MetaGoto(c, "done")   \* not running, or configuration or popen failed
  /\ UNCHANGED <<server, handler, replies, bbox_push_enabled, push_thread,
                 wire, globals>>

\* The outer loop ends when parser_running is off or ffmpeg's output has
\* ended; otherwise fread brings more of it.
MetaLoop(c) ==
  /\ metadata_thread[c] = "loop"
  /\ \/ parser_running /\ MetaGoto(c, "scan")
     \/ MetaGoto(c, "done")
  /\ UNCHANGED <<server, handler, replies, bbox_push_enabled, push_thread,
                 wire, globals>>

\* The inner loop: a complete packet is cut off the text and parsed, as long
\* as parser_running is on and there is one.
MetaScan(c) ==
  /\ metadata_thread[c] = "scan"
  /\ \/ parser_running /\ MetaGoto(c, "packet")
     \/ MetaGoto(c, "loop")
  /\ UNCHANGED <<server, handler, replies, bbox_push_enabled, push_thread,
                 wire, globals>>

\* The boxes of the packet, marked with the connection whose parser found
\* them, go into the shared buffer.
MetaUpdate(c) ==
  /\ metadata_thread[c] = "packet"
  /\ Put(c)
  /\ MetaGoto(c, "scan")
  /\ UNCHANGED <<server, handler, replies, bbox_push_enabled, push_thread,
                 wire, parser_running>>

\* A number of the packet that stoi or stof cannot represent: the exception
\* leaves parse_metadata and its thread.
MetaThrows(c) ==
  /\ metadata_thread[c] = "packet"
  /\ server' = "uncaught"
  /\ UNCHANGED <<handler, replies, threads, wire, globals>>

-----------------------------------------------------------------------------

HandlerStep(c) ==
  \/ ReplyPrefix(c) \/ ReplyBody(c)
  \/ StartMetadata(c) \/ StartPush(c)
  \/ StopJoinPush(c) \/ StopFlag(c) \/ StopJoinMetadata(c) \/ StopClear(c)
  \/ CloseJoinPush(c) \/ CloseJoinMetadata(c) \/ CloseFree(c)

Receive(c) ==
  \/ Request(c) \/ Uncaught(c) \/ StartRequest(c) \/ StopRequest(c) \/ ReceiveFails(c)

PushStep(c) ==
  PushLoop(c) \/ PushPop(c) \/ PushPrefix(c) \/ PushBody(c) \/ PushFails(c)

MetaStep(c) ==
  MetaEntry(c) \/ MetaLoop(c) \/ MetaScan(c) \/ MetaUpdate(c) \/ MetaThrows(c)

Next ==
  /\ server = "up"
  /\ \E c \in Conns : \/ Accept(c) \/ PeerLeaves(c) \/ Receive(c)
                      \/ HandlerStep(c) \/ PushStep(c) \/ MetaStep(c)

Spec == Init /\ [][Next]_vars

\* The operating system runs every thread that is not blocked; a blocking
\* write returns because the client reads or leaves, and fread because the
\* camera keeps sending.  Nothing obliges a client to send a request, a
\* parser to find the end of its stream, or a connection to come.
Running(step) == server = "up" /\ step

Fairness ==
  \A c \in Conns : /\ WF_vars(Running(HandlerStep(c)))
                   /\ WF_vars(Running(PushStep(c)))
                   /\ WF_vars(Running(MetaStep(c)))

FairSpec == Spec /\ Fairness

-----------------------------------------------------------------------------
(* Properties.                                                             *)

\* Every variable has its type, and update_bbox_buffer keeps the shared queue
\* within its limit whichever parser threads run it.
TypeOK ==
  /\ server \in {"up", "uncaught", "bad_thread"}
  /\ handler \in [Conns -> HandlerStates]
  /\ replies \in [Conns -> 0..MaxReplies]
  /\ bbox_push_enabled \in [Conns -> BOOLEAN]
  /\ push_thread \in [Conns -> PushAlive \cup {"none", "done"}]
  /\ metadata_thread \in [Conns -> MetaAlive \cup {"none", "done"}]
  /\ parser_running \in BOOLEAN
  /\ wire \in [Conns -> {"whole", "handler", "push", "torn", "gone"}]
  /\ bbox_buffer \in Seq(Conns)
  /\ Len(bbox_buffer) <= MaxBuffer

\* No legal sequence of Start, Stop, failed sends, ends of stream and
\* disconnections makes handle_client assign to, or destroy, a std::thread
\* that is joinable, which would end the whole server.
ThreadObjectsSafe == server # "bad_thread"

\* The push thread uses the SSL object and the bbox_push_enabled flag of its
\* handle_client frame: it never runs once cleanup has freed them.
PushThreadWithinConnection ==
  \A c \in Conns : push_thread[c] \in PushAlive => handler[c] \notin {"accept", "closed"}

\* When handle_bbox_stop_request has returned, its connection has no push
\* thread and no parser thread until the next Start.
StopEndsThreads ==
  \A c \in Conns : handler[c] = "recv" /\ ~bbox_push_enabled[c]
                     => push_thread[c] = "none" /\ metadata_thread[c] = "none"

\* When handle_bbox_stop_request has returned, nothing its parser found is
\* left in the shared buffer, whatever the other connections do: the next
\* session of this client begins with no box of the previous one.
StopLeavesNothing ==
  \A c \in Conns : handler[c] = "recv" /\ ~bbox_push_enabled[c]
                     => \A i \in 1..Len(bbox_buffer) : bbox_buffer[i] # c

\* A client's stream falls out of step only while the push thread of its
\* connection runs: outside a session the responses of send_json_response
\* are whole messages.  During a session they can mix with pushed ones, since
\* ssl_write_mutex, declared "for synchronisation when sending over SSL", is
\* never locked.
TearsOnlyWhilePushing ==
  [][\A c \in Conns : wire[c] # "torn" /\ wire'[c] = "torn"
                        => push_thread[c] \in PushAlive]_vars

\* A Stop request comes to an end, both joins return, unless another client
\* sends a Start before it does: that sets the shared parser_running again,
\* and the parser thread the Stop waits for may not have seen it off.
StopCompletes ==
  \A c \in Conns : handler[c] = "stop_push"
                     ~> \/ handler[c] = "recv"
                        \/ server # "up"
                        \/ \E d \in Conns \ {c} : handler[d] = "start_meta"

\* The cleanup of a connection whose parser thread is over, or was never
\* started, comes to an end.
CloseWithoutParserCompletes ==
  \A c \in Conns : (handler[c] = "close_push" /\ metadata_thread[c] \in {"none", "done"})
                     ~> (handler[c] = "closed" \/ server # "up")

\* cleanup_client_connection "cleans up the threads and resources when a
\* client's connection ends": every cleanup ends with the socket closed.
CloseCompletes ==
  \A c \in Conns : handler[c] = "close_push" ~> (handler[c] = "closed" \/ server # "up")

=============================================================================
