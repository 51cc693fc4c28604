-------------------------- MODULE BBoxSessionProofs --------------------------
(***************************************************************************)
(* Safety of BBoxSession for every set of connections and every positive   *)
(* buffer limit.  The inductive invariant Inv says, for each place a       *)
(* handler can be at, which of its two std::thread objects is not          *)
(* joinable; which connections can have boxes in the shared buffer; and    *)
(* which writer can be in the middle of a message.                         *)
(***************************************************************************)
EXTENDS BBoxSession, DelayLineProofs

\* Where no push thread, and where no parser thread, can be joinable.
NoPushAt == {"accept", "start_meta", "start_push", "stop_flag", "stop_meta",
             "stop_clear", "close_meta", "close_free", "closed"}

NoMetaAt == {"accept", "start_meta", "stop_clear", "close_free", "closed"}

Serving == {"recv", "reply", "reply_body"}

ThreadInv ==
  \A c \in Conns :
    /\ handler[c] \in NoPushAt => push_thread[c] = "none"
    /\ handler[c] \in NoMetaAt => metadata_thread[c] = "none"
    /\ handler[c] \in Serving /\ ~bbox_push_enabled[c]
         => push_thread[c] = "none" /\ metadata_thread[c] = "none"

Queued(c) == \E i \in 1..Len(bbox_buffer) : bbox_buffer[i] = c

BufferInv ==
  \A c \in Conns : Queued(c) => \/ metadata_thread[c] # "none"
                                \/ handler[c] \in {"stop_clear", "close_free", "closed"}

WireInv ==
  \A c \in Conns :
    /\ handler[c] \in {"reply", "reply_body"} => replies[c] \in 1..MaxReplies
    /\ handler[c] = "reply_body" => wire[c] \in {"handler", "torn", "gone"}
    /\ wire[c] = "handler" => handler[c] = "reply_body"
    /\ wire[c] = "push" => push_thread[c] = "body"

Inv == TypeOK /\ ThreadObjectsSafe /\ ThreadInv /\ BufferInv /\ WireInv

-----------------------------------------------------------------------------

\* What one update of a parser thread does to the shared buffer.
LEMMA UpdateLemma ==
  ASSUME bbox_buffer \in Seq(Conns), NEW c \in Conns, Put(c)
  PROVE  /\ bbox_buffer' \in Seq(Conns)
         /\ Len(bbox_buffer') <= MaxBuffer
         /\ \A i \in 1..Len(bbox_buffer') :
              bbox_buffer'[i] = c \/ \E j \in 1..Len(bbox_buffer) : bbox_buffer'[i] = bbox_buffer[j]
<1>1. PICK k \in 0..Len(bbox_buffer) : bbox_buffer' = Kept(Append(bbox_buffer, c), k)
  BY DEF Put
<1>2. QED
  BY <1>1, PutLemma

\* Every step preserves the invariant.
LEMMA InvStep == Inv /\ [Next]_vars => Inv'
<1> SUFFICES ASSUME Inv, [Next]_vars PROVE Inv'
  OBVIOUS
<1> USE DEF Inv, TypeOK, ThreadObjectsSafe, ThreadInv, BufferInv, WireInv, Queued,
            HandlerStates, PushAlive, MetaAlive, MaxReplies, NoPushAt, NoMetaAt, Serving,
            threads, globals, At, Goto
<1>1. ASSUME NEW c \in Conns, Accept(c) PROVE Inv'
  BY <1>1 DEF Accept
<1>2. ASSUME NEW c \in Conns, PeerLeaves(c) PROVE Inv'
  BY <1>2 DEF PeerLeaves
<1>3. ASSUME NEW c \in Conns, Request(c) PROVE Inv'
  BY <1>3, AnswersAssumption DEF Request
<1>4. ASSUME NEW c \in Conns, Uncaught(c) PROVE Inv'
  BY <1>4 DEF Uncaught
<1>5. ASSUME NEW c \in Conns, StartRequest(c) PROVE Inv'
  BY <1>5 DEF StartRequest
<1>6. ASSUME NEW c \in Conns, StopRequest(c) PROVE Inv'
  BY <1>6 DEF StopRequest
<1>7. ASSUME NEW c \in Conns, ReceiveFails(c) PROVE Inv'
  BY <1>7 DEF ReceiveFails
<1>8. ASSUME NEW c \in Conns, ReplyPrefix(c) PROVE Inv'
  BY <1>8 DEF ReplyPrefix, WritePrefix
<1>9. ASSUME NEW c \in Conns, ReplyBody(c) PROVE Inv'
  BY <1>9 DEF ReplyBody, WriteBody
<1>10. ASSUME NEW c \in Conns, StartMetadata(c) PROVE Inv'
  <2>1. /\ handler[c] = "start_meta" /\ handler' = [handler EXCEPT ![c] = "start_push"]
        /\ metadata_thread' = [metadata_thread EXCEPT ![c] = "entry"]
        /\ UNCHANGED <<server, replies, bbox_push_enabled, push_thread, wire, globals>>
    BY <1>10 DEF StartMetadata
  <2>2. TypeOK' /\ ThreadObjectsSafe'
    BY <2>1
  <2>3. ThreadInv'
    BY <2>1
  <2>4. BufferInv'
    BY <2>1
  <2>5. WireInv'
    BY <2>1
  <2>6. QED
    BY <2>2, <2>3, <2>4, <2>5
<1>11. ASSUME NEW c \in Conns, StartPush(c) PROVE Inv'
  <2>1. /\ handler[c] = "start_push" /\ handler' = [handler EXCEPT ![c] = "recv"]
        /\ bbox_push_enabled' = [bbox_push_enabled EXCEPT ![c] = TRUE]
        /\ push_thread[c] = "none" /\ push_thread' = [push_thread EXCEPT ![c] = "loop"]
        /\ UNCHANGED <<server, replies, metadata_thread, wire, globals>>
    BY <1>11 DEF StartPush
  <2>2. TypeOK' /\ ThreadObjectsSafe'
    BY <2>1
  <2>3. ThreadInv'
    BY <2>1
  <2>4. BufferInv'
    BY <2>1
  <2>5. WireInv'
    BY <2>1
  <2>6. QED
    BY <2>2, <2>3, <2>4, <2>5
<1>12. ASSUME NEW c \in Conns, StopJoinPush(c) PROVE Inv'
  BY <1>12 DEF StopJoinPush, JoinPush
<1>13. ASSUME NEW c \in Conns, StopFlag(c) PROVE Inv'
  <2>1. /\ handler[c] = "stop_flag" /\ handler' = [handler EXCEPT ![c] = "stop_meta"]
        /\ parser_running' = FALSE
        /\ UNCHANGED <<server, replies, threads, wire, bbox_buffer>>
    BY <1>13 DEF StopFlag
  <2>2. TypeOK' /\ ThreadObjectsSafe'
    BY <2>1
  <2>3. ThreadInv'
    BY <2>1
  <2>4. BufferInv'
    BY <2>1
  <2>5. WireInv'
    BY <2>1
  <2>6. QED
    BY <2>2, <2>3, <2>4, <2>5
<1>14. ASSUME NEW c \in Conns, StopJoinMetadata(c) PROVE Inv'
  BY <1>14 DEF StopJoinMetadata, JoinMetadata
<1>15. ASSUME NEW c \in Conns, CloseJoinPush(c) PROVE Inv'
  BY <1>15 DEF CloseJoinPush, JoinPush
<1>16. ASSUME NEW c \in Conns, CloseJoinMetadata(c) PROVE Inv'
  BY <1>16 DEF CloseJoinMetadata, JoinMetadata
<1>17. ASSUME NEW c \in Conns, CloseFree(c) PROVE Inv'
  BY <1>17 DEF CloseFree
<1>18. ASSUME NEW c \in Conns, PushLoop(c) PROVE Inv'
  BY <1>18 DEF PushLoop, PushGoto
<1>19. ASSUME NEW c \in Conns, PushPrefix(c) PROVE Inv'
  BY <1>19 DEF PushPrefix, WritePrefix, PushGoto
<1>20. ASSUME NEW c \in Conns, PushBody(c) PROVE Inv'
  BY <1>20 DEF PushBody, WriteBody, PushGoto
<1>21. ASSUME NEW c \in Conns, PushFails(c) PROVE Inv'
  BY <1>21 DEF PushFails, PushGoto
<1>22. ASSUME NEW c \in Conns, MetaEntry(c) PROVE Inv'
  BY <1>22 DEF MetaEntry, MetaGoto
<1>23. ASSUME NEW c \in Conns, MetaLoop(c) PROVE Inv'
  BY <1>23 DEF MetaLoop, MetaGoto
<1>24. ASSUME NEW c \in Conns, MetaScan(c) PROVE Inv'
  BY <1>24 DEF MetaScan, MetaGoto
<1>25. ASSUME NEW c \in Conns, StopClear(c) PROVE Inv'
  <2>1. /\ bbox_buffer' \in Seq(Conns)
        /\ Len(bbox_buffer') <= MaxBuffer
        /\ \A d \in Conns : ~Queued(d)'
    BY <1>25, MaxBufferAssumption DEF StopClear, Clear
  <2> HIDE DEF Queued
  <2>2. QED
    BY <1>25, <2>1 DEF StopClear
<1>26. ASSUME NEW c \in Conns, PushPop(c) PROVE Inv'
  <2>1. /\ bbox_buffer' \in Seq(Conns)
        /\ Len(bbox_buffer') <= MaxBuffer
        /\ \A d \in Conns : Queued(d)' => Queued(d)
    <3>1. CASE UNCHANGED bbox_buffer
      BY <3>1
    <3>2. CASE Take
      <4>1. /\ bbox_buffer' \in Seq(Conns)
            /\ Len(bbox_buffer') = Len(bbox_buffer) - 1
            /\ \A i \in 1..Len(bbox_buffer') : bbox_buffer'[i] = bbox_buffer[i + 1]
        BY <3>2 DEF Take
      <4>2. QED
        BY <4>1, MaxBufferAssumption
    <3>3. QED
      BY <1>26, <3>1, <3>2 DEF PushPop
  <2>2. \E there \in {"loop", "prefix"} : PushGoto(c, there)
    BY <1>26 DEF PushPop
  <2>3. UNCHANGED <<server, handler, replies, bbox_push_enabled, metadata_thread, wire,
                    parser_running>>
    BY <1>26 DEF PushPop
  <2> HIDE DEF Queued
  <2>4. QED
    BY <1>26, <2>1, <2>2, <2>3 DEF PushPop, PushGoto
<1>27. ASSUME NEW c \in Conns, MetaUpdate(c) PROVE Inv'
  <2>2. /\ bbox_buffer' \in Seq(Conns)
        /\ Len(bbox_buffer') <= MaxBuffer
        /\ \A i \in 1..Len(bbox_buffer') :
             bbox_buffer'[i] = c \/ \E j \in 1..Len(bbox_buffer) : bbox_buffer'[i] = bbox_buffer[j]
    BY <1>27, UpdateLemma DEF MetaUpdate
  <2>3. \A d \in Conns : Queued(d)' => d = c \/ Queued(d)
    BY <2>2
  <2>4. QED
    BY <1>27, <2>2, <2>3 DEF MetaUpdate, MetaGoto
<1>28. ASSUME NEW c \in Conns, MetaThrows(c) PROVE Inv'
  BY <1>28 DEF MetaThrows
<1>29. CASE UNCHANGED vars
  BY <1>29 DEF vars
<1>30. QED
  BY <1>1, <1>2, <1>3, <1>4, <1>5, <1>6, <1>7, <1>8, <1>9, <1>10, <1>11, <1>12,
     <1>13, <1>14, <1>15, <1>16, <1>17, <1>18, <1>19, <1>20, <1>21, <1>22, <1>23,
     <1>24, <1>25, <1>26, <1>27, <1>28, <1>29
     DEF Next, Receive, HandlerStep, PushStep, MetaStep

\* It holds initially.
LEMMA InvInit == Init => Inv
<1> SUFFICES ASSUME Init PROVE Inv
  OBVIOUS
<1> USE DEF Init, DelayInit
<1>1. TypeOK
  <2>1. bbox_buffer \in Seq(Conns) /\ Len(bbox_buffer) = 0
    OBVIOUS
  <2>2. Len(bbox_buffer) <= MaxBuffer
    BY <2>1, MaxBufferAssumption
  <2>3. bbox_push_enabled \in [Conns -> BOOLEAN] /\ parser_running \in BOOLEAN
    OBVIOUS
  <2>4. replies \in [Conns -> 0..MaxReplies]
    BY DEF MaxReplies
  <2>5. /\ server \in {"up", "uncaught", "bad_thread"}
        /\ handler \in [Conns -> HandlerStates]
        /\ push_thread \in [Conns -> PushAlive \cup {"none", "done"}]
        /\ metadata_thread \in [Conns -> MetaAlive \cup {"none", "done"}]
        /\ wire \in [Conns -> {"whole", "handler", "push", "torn", "gone"}]
    BY DEF HandlerStates
  <2>6. QED
    BY <2>1, <2>2, <2>3, <2>4, <2>5 DEF TypeOK
<1>2. BufferInv
  BY DEF BufferInv, Queued
<1>3. ThreadObjectsSafe /\ ThreadInv /\ WireInv
  BY DEF ThreadObjectsSafe, ThreadInv, WireInv, Serving
<1>4. QED
  BY <1>1, <1>2, <1>3 DEF Inv

\* It always holds.
LEMMA InvAlways == Spec => []Inv
  BY InvInit, InvStep, PTL DEF Spec

-----------------------------------------------------------------------------

\* Type correctness, with the limit update_bbox_buffer keeps on the queue.
THEOREM TypeCorrect == Spec => []TypeOK
  BY InvAlways, PTL DEF Inv

\* handle_client never assigns to or destroys a joinable std::thread.
THEOREM ThreadObjectsAlwaysSafe == Spec => []ThreadObjectsSafe
  BY InvAlways, PTL DEF Inv

\* No push thread outlives the SSL object and the frame it refers to.
THEOREM PushThreadAlwaysWithin == Spec => []PushThreadWithinConnection
<1>1. Inv => PushThreadWithinConnection
  BY DEF Inv, ThreadInv, NoPushAt, PushAlive, PushThreadWithinConnection
<1>2. QED
  BY <1>1, InvAlways, PTL

\* After Stop has returned its connection has neither of the two threads.
THEOREM StopAlwaysEndsThreads == Spec => []StopEndsThreads
<1>1. Inv => StopEndsThreads
  BY DEF Inv, ThreadInv, Serving, StopEndsThreads
<1>2. QED
  BY <1>1, InvAlways, PTL

\* After Stop has returned no box set of its parser is in the shared buffer.
THEOREM StopAlwaysLeavesNothing == Spec => []StopLeavesNothing
<1>1. Inv => StopLeavesNothing
  BY DEF Inv, TypeOK, ThreadInv, BufferInv, Queued, Serving, StopLeavesNothing
<1>2. QED
  BY <1>1, InvAlways, PTL

\* A client's stream is torn by no step but one taken while the connection's
\* push thread runs.
THEOREM TearsAlwaysWhilePushing == Spec => TearsOnlyWhilePushing
<1>1. ASSUME Inv, Next, NEW c \in Conns, wire[c] # "torn", wire'[c] = "torn"
      PROVE  push_thread[c] \in PushAlive
  <2> USE <1>1 DEF Inv, TypeOK, WireInv, PushAlive, At, Goto, threads, globals
  <2>1. ASSUME NEW d \in Conns, ReplyPrefix(d) PROVE push_thread[c] \in PushAlive
    BY <2>1 DEF ReplyPrefix, WritePrefix
  <2>2. ASSUME NEW d \in Conns, ReplyBody(d) PROVE push_thread[c] \in PushAlive
    BY <2>2 DEF ReplyBody, WriteBody
  <2>3. ASSUME NEW d \in Conns, PushPrefix(d) PROVE push_thread[c] \in PushAlive
    BY <2>3 DEF PushPrefix, WritePrefix
  <2>4. ASSUME NEW d \in Conns, PushBody(d) PROVE push_thread[c] \in PushAlive
    BY <2>4 DEF PushBody, WriteBody
  <2>5. ASSUME NEW d \in Conns, PeerLeaves(d) PROVE FALSE
    BY <2>5 DEF PeerLeaves
  <2>6. ASSUME NEW d \in Conns,
               \/ Accept(d) \/ Receive(d) \/ StartMetadata(d) \/ StartPush(d)
               \/ StopJoinPush(d) \/ StopFlag(d) \/ StopJoinMetadata(d) \/ StopClear(d)
               \/ CloseJoinPush(d) \/ CloseJoinMetadata(d) \/ CloseFree(d)
               \/ PushLoop(d) \/ PushPop(d) \/ PushFails(d) \/ MetaStep(d)
        PROVE  FALSE
    BY <2>6 DEF Accept, Receive, Request, Uncaught, StartRequest, StopRequest, ReceiveFails,
                StartMetadata, StartPush, StopJoinPush, StopFlag, StopJoinMetadata, StopClear,
                CloseJoinPush, CloseJoinMetadata, CloseFree, JoinPush, JoinMetadata,
                PushLoop, PushPop, PushFails, MetaStep, MetaEntry, MetaLoop, MetaScan, MetaUpdate,
                MetaThrows
  <2>7. QED
    BY <2>1, <2>2, <2>3, <2>4, <2>5, <2>6 DEF Next, HandlerStep, PushStep
<1>2. Inv /\ [Next]_vars
        => [\A c \in Conns : wire[c] # "torn" /\ wire'[c] = "torn"
                               => push_thread[c] \in PushAlive]_vars
  BY <1>1
<1>3. QED
  BY <1>2, InvAlways, PTL DEF Spec, TearsOnlyWhilePushing

=============================================================================
