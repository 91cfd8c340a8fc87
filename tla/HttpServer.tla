------------------------------ MODULE HttpServer ------------------------------
(***************************************************************************)
(* One client conversation of the HTTP server: http::ServerProtocol with   *)
(* its ServerConnection, its ServerRequests and the handlers that answer   *)
(* them.                                                                   *)
(*                                                                         *)
(* Everything runs in the thread of one event loop.  The calls nest and    *)
(* call back (a reply may close the connection, which wakes the handlers,  *)
(* which reply), so the state is one record and every function of the code *)
(* is an operator from records to records; an action is one event of the   *)
(* loop.  Requests are numbered in the order the client sends them, each   *)
(* in two pieces.  A request in Uploads is for a path with client          *)
(* streaming, whose handler (HttpServerImportData) is called for each      *)
(* piece and replies when it is told that the request closed; the others   *)
(* go to a handler (StreamRequest) that replies at once or later, in one   *)
(* piece or as a stream, and forgets the request when it is told.          *)
(***************************************************************************)
EXTENDS Integers, Sequences, FiniteSets, FiniteSetsExt

CONSTANTS NumRequests,     \* bound: requests the client sends
          Uploads,         \* the requests with is_client_streaming_
          BadUploads,      \* whether an upload may be malformed in the middle
          Pipelining,      \* whether the client sends before it has the last reply
          MaxConcurrent,   \* max_concurrent_requests_per_connection_
          MaxReply,        \* max_reply_buffer_size_, in replies and chunks
          Policy           \* reply_full_buffer_policy_

ASSUME HttpServerAssumption ==
    /\ NumRequests \in Nat /\ Uploads \subseteq 1..NumRequests
    /\ BadUploads \in BOOLEAN /\ Pipelining \in BOOLEAN
    /\ MaxConcurrent \in Nat /\ MaxReply \in Nat
    /\ Policy \in {"close", "drop_old", "drop_new"}

VARIABLES p,       \* the protocol and its requests, see TypeOK
          wire,    \* pieces sent by the client and not yet read
          inbuf,   \* connection_->inbuf()
          peer     \* the piece the client sends next

vars == <<p, wire, inbuf, peer>>

Stray == 0                       \* a request made of bytes that belong to no request
Requests == 0..NumRequests
None == -1
kRequestTimeout == "request"
kWriteTimeout == "write"
Delete(r) == [do |-> "delete", req |-> r]
DeleteProtocol == [do |-> "delete_protocol", req |-> None]
CloseAll == [do |-> "close_all", req |-> None]
Pieces == [req : 1..NumRequests, part : {"head", "tail", "bad"}]

TypeOK ==
    /\ p.conn \in {"open", "flushing", "gone"}           \* connection_ and its TCP state
    /\ p.closed \in BOOLEAN                              \* closed_
    /\ p.recv \in Requests \cup {None}                   \* crt_recv_
    /\ p.send \in Requests \cup {None}                   \* crt_send_
    /\ p.active \subseteq Requests                       \* active_requests_
    /\ p.timeouts \subseteq {kRequestTimeout, kWriteTimeout}
    /\ p.out \in 0..MaxReply + 2                         \* connection_->outbuf()
    /\ p.obj \in [Requests -> {"none", "live", "doomed", "freed"}]
    /\ p.wants \subseteq Requests                        \* with a Keep-Alive header
    /\ p.keep \subseteq Requests                         \* is_keep_alive_
    /\ p.streaming \subseteq Requests                    \* is_server_streaming_
    /\ p.orphans \subseteq Requests                      \* is_orphaned_
    /\ p.closers \subseteq Requests                      \* closed_callback_ is set
    /\ p.ready \subseteq Requests                        \* ready_callback_ is set
    /\ p.app \subseteq Requests                          \* the requests handlers hold
    /\ \A i \in DOMAIN p.posted :                        \* queued in the event loop
          p.posted[i] \in [do : {"delete", "delete_protocol", "close_all"},
                           req : Requests \cup {None}]
    /\ p.proto \in {"live", "freed"}
    /\ p.failed \in {"none", "crt_send_", "is_server_streaming_", "destructor",
                     "deleted_twice", "used_after_delete"}
    /\ wire \in Seq(Pieces) /\ inbuf \in Seq(Pieces)
    /\ peer \in [req : 1..NumRequests + 1, part : {"head", "tail"}]

\* AcceptorAcceptHandler and set_connection.
Init ==
    /\ p = [conn |-> "open", closed |-> FALSE, recv |-> None, send |-> None, active |-> {},
            timeouts |-> {kRequestTimeout}, out |-> 0,
            obj |-> [r \in Requests |-> "none"], wants |-> {}, keep |-> {},
            streaming |-> {}, orphans |-> {}, closers |-> {}, ready |-> {}, app |-> {},
            posted |-> <<>>, proto |-> "live", failed |-> "none"]
    /\ wire = <<>> /\ inbuf = <<>>
    /\ peer = [req |-> 1, part |-> "head"]

Check(s, ok, what) == IF ok \/ s.failed # "none" THEN s ELSE [s EXCEPT !.failed = what]
Post(s, task) == [s EXCEPT !.posted = Append(@, task)]

-----------------------------------------------------------------------------
\* The end of a connection

ConnectionGone(s, task) ==
    Post([s EXCEPT !.conn = "gone", !.closed = TRUE, !.timeouts = {}, !.out = 0], task)

\* Mutant: the protocol waits for requests that do not exist.
DeletionWaits(s) == ConnectionGone(s, CloseAll)

\* NotifyConnectionDeletion
NotifyConnectionDeletion(s) ==
    ConnectionGone(s, IF s.active = {} THEN DeleteProtocol ELSE CloseAll)

\* ForceClose runs the close handler before it returns.
ForceClose(s) == IF s.conn = "gone" THEN s ELSE NotifyConnectionDeletion(s)

FlushAndClose(s) == IF s.conn = "open" THEN [s EXCEPT !.conn = "flushing"] ELSE s

-----------------------------------------------------------------------------
\* Replies

\* What is appended to the output, or not, by the full buffer policy.
Append1(s, r) ==
    IF s.out <= MaxReply THEN [s EXCEPT !.out = @ + 1]
    ELSE CASE Policy = "close" -> [s EXCEPT !.keep = @ \ {r}]
           [] Policy = "drop_old" -> [s EXCEPT !.out = 1]
           [] Policy = "drop_new" -> s

\* PrepareResponse works on crt_send_, the request itself or the one being sent.
PrepareResponse(s, r) ==
    LET q == [s EXCEPT !.send = IF @ = None THEN r ELSE @]
    IN IF s.conn = "gone" THEN q
       ELSE Append1([q EXCEPT !.keep = IF q.send \in q.wants THEN @ \cup {q.send}
                                       ELSE @ \ {q.send}], q.send)

\* EndRequestProcessing up to the signal to the handler...
EndBefore(s, r, eos) ==
    LET q == Check(s, s.send = r, "crt_send_")
    IN [q EXCEPT !.send = IF eos THEN None ELSE @,
                 !.timeouts = IF s.conn # "gone" /\ s.out > 0 THEN @ \cup {kWriteTimeout} ELSE @]

\* ... and after it.  The request and, when it was the last one of a dead
\* connection, the protocol are deleted by the loop.
EndAfter(s, r, eos, close) ==
    LET gone == [s EXCEPT !.active = @ \ {r}, !.recv = IF @ = r THEN None ELSE @,
                          !.obj[r] = "doomed", !.closers = @ \ {r}, !.ready = @ \ {r},
                          !.posted = Append(@, Delete(r))]
        q == IF ~eos THEN s
             ELSE IF gone.active = {} /\ gone.conn = "gone" THEN Post(gone, DeleteProtocol)
             ELSE gone
    IN IF close THEN FlushAndClose([q EXCEPT !.closed = TRUE])
       ELSE IF eos /\ q.conn # "gone" THEN [q EXCEPT !.timeouts = @ \cup {kRequestTimeout}]
       ELSE IF ~eos /\ r \notin q.orphans /\ q.out = 0 THEN [q EXCEPT !.ready = @ \ {r}]
       ELSE q

ShouldClose(s, r, eos) == eos /\ (r \notin s.keep \/ r \in s.orphans)

\* ReplyWithStatus and ReplyForRequest; Signal is what SignalClosed does.
Reply(s, r, Signal(_, _)) ==
    LET c == Check(s, r \notin s.streaming, "is_server_streaming_")
        q == [c EXCEPT !.send = r]
        w == IF s.conn = "gone" THEN [q EXCEPT !.orphans = @ \cup {r}] ELSE PrepareResponse(q, r)
    IN IF s.send # None
       THEN [c EXCEPT !.send = IF @ = r THEN None ELSE @, !.obj[r] = "doomed",
                      !.posted = Append(@, Delete(r))]
       ELSE EndAfter(Signal(EndBefore(w, r, TRUE), r), r, TRUE, ShouldClose(w, r, TRUE))

NoSignal(s, r) == s

\* Mutant: HttpRequestClosedCallback leaves http_request_ as it is.
SignalNotHeeded(s, r) == [s EXCEPT !.closers = @ \ {r}]

\* SignalClosed: the callback of an upload replies to the request, the one of a
\* stream forgets it.
SignalClosed(s, r) ==
    LET u == Check(s, s.obj[r] # "freed", "used_after_delete")
        q == [u EXCEPT !.closers = @ \ {r}, !.app = @ \ {r}]
    IN IF r \notin s.closers THEN u
       ELSE IF r \in Uploads THEN Reply(q, r, NoSignal) ELSE q

ReplyWithStatus(s, r) == Reply(s, r, SignalClosed)

\* EndRequestProcessing
EndRequestProcessing(s, r, eos) ==
    LET b == EndBefore(s, r, eos)
    IN EndAfter(IF eos \/ r \in s.orphans THEN SignalClosed(b, r) ELSE b, r, eos,
                ShouldClose(s, r, eos))

\* BeginStreamingData
BeginStreamingData(s, r) ==
    PrepareResponse([s EXCEPT !.streaming = @ \cup {r}, !.closers = @ \cup {r}], r)

\* StreamData; a full buffer may end the stream.
StreamData(s, r, data, eos) ==
    LET c == Check(s, s.send = r, "crt_send_")
        full == data /\ s.out > MaxReply /\ Policy = "close"
        w == IF data THEN Append1(c, r) ELSE c
        e == IF eos \/ full THEN [w EXCEPT !.out = IF @ <= MaxReply + 1 THEN @ + 1 ELSE @] ELSE w
    IN IF c.failed # "none" THEN c
       ELSE IF s.conn = "gone"
       THEN EndRequestProcessing([c EXCEPT !.orphans = @ \cup {r}], r, eos)
       ELSE EndRequestProcessing(e, r, eos \/ full)

-----------------------------------------------------------------------------
\* Requests

\* What a handler does with a request it is given: it keeps it for later, replies
\* to it or begins to stream.
Handle(s, r, what) ==
    LET h == [s EXCEPT !.app = @ \cup {r},
                       !.closers = IF r \in Uploads THEN @ \cup {r} ELSE @]
    IN CASE what = "hold" -> h
         [] what = "reply" -> ReplyWithStatus([h EXCEPT !.app = @ \ {r}, !.closers = @ \ {r}], r)
         [] what = "begin" -> IF r \in Uploads THEN h ELSE BeginStreamingData(h, r)

\* Server::ProcessRequest.  Too many requests at a time get an error reply.
ProcessRequest(s, r, what) ==
    Handle(s, r, IF Cardinality(s.active) > MaxConcurrent /\ r \notin s.app THEN "reply" ELSE what)

\* The header of a request: the object is made, and the handler of an upload is
\* called.  When that one replied already the connection is closed.
HeaderRead(s, r, wantsKeepAlive, what) ==
    LET q == [s EXCEPT !.recv = r, !.obj[r] = "live",
                       !.wants = IF wantsKeepAlive THEN @ \cup {r} ELSE @]
        h == Handle([q EXCEPT !.active = @ \cup {r}], r, what)
    IN IF r \notin Uploads THEN q
       ELSE IF h.recv = None THEN ForceClose([h EXCEPT !.closed = TRUE])
       ELSE [h EXCEPT !.timeouts = @ \ {kRequestTimeout}]

\* The last piece of a request.
RequestRead(s, r, what) ==
    LET q == [s EXCEPT !.timeouts = @ \ {kRequestTimeout}, !.active = @ \cup {r}]
    IN [ProcessRequest(q, r, what) EXCEPT !.recv = None]

\* PrepareErrorRequest
ErrorRead(s, r) ==
    [ReplyWithStatus([s EXCEPT !.recv = r, !.timeouts = @ \ {kRequestTimeout},
                               !.obj[r] = IF @ = "none" THEN "live" ELSE @], r)
        EXCEPT !.closed = TRUE]

\* ProcessMoreData parses one request at most; closed_ makes it deaf.
ProcessMoreData(s, buf, wantsKeepAlive, first, last) ==
    LET head == buf[1]
        r == IF s.recv # None THEN s.recv ELSE head.req
        started == IF s.recv # None THEN s ELSE HeaderRead(s, r, wantsKeepAlive, first)
        i == IF s.recv # None THEN 1 ELSE 2       \* the piece after the header
    IN IF s.closed THEN [state |-> s, rest |-> <<>>]
       ELSE IF s.recv = None /\ head.part # "head"
       THEN [state |-> ErrorRead(s, IF head.part = "bad" /\ s.obj[r] = "none" THEN r ELSE Stray),
             rest |-> Tail(buf)]
       ELSE IF started.conn = "gone" \/ started.recv = None \/ Len(buf) < i
       THEN [state |-> started, rest |-> SubSeq(buf, i, Len(buf))]
       ELSE [state |-> IF buf[i].part = "tail" THEN RequestRead(started, r, last)
                       ELSE ErrorRead(started, r),
             rest |-> SubSeq(buf, i + 1, Len(buf))]

-----------------------------------------------------------------------------
\* Events

Running == p.failed = "none" /\ p.proto = "live"
HandlerChoices == {"hold", "reply", "begin"}

\* ConnectionReadHandler
ConnectionRead ==
    /\ Running /\ p.conn # "gone" /\ wire # <<>>
    /\ \E n \in 1..Len(wire), k \in BOOLEAN, first \in {"hold", "reply"}, last \in HandlerChoices :
          LET m == ProcessMoreData(p, inbuf \o SubSeq(wire, 1, n), k, first, last)
          IN /\ p' = m.state
             /\ inbuf' = IF m.state.conn = "gone" THEN <<>> ELSE m.rest
             /\ wire' = IF m.state.conn = "gone" THEN <<>> ELSE SubSeq(wire, n + 1, Len(wire))
    /\ UNCHANGED peer

\* Bytes are written: the handlers in "told" hear of it when the buffer is
\* empty, and the timers in "stopped" are off.
Written(told, stopped) ==
    /\ Running /\ p.conn = "open" /\ p.out > 0
    /\ \E left \in 0..p.out - 1 :
          p' = [p EXCEPT !.out = left,
                         !.ready = IF left = 0 THEN @ \ told ELSE @,
                         !.timeouts = IF left = 0 THEN @ \ stopped
                                      ELSE @ \cup {kWriteTimeout}]
    /\ UNCHANGED <<wire, inbuf, peer>>

\* Mutant: the handler is not told.
WriteNotSignalled == Written({}, {kWriteTimeout})
\* Mutant: every timeout is unset.
WriteUnsetsAll == Written({p.send}, {kRequestTimeout, kWriteTimeout})

\* NotifyConnectionWrite; a connection that is flushed does not report writes.
NotifyConnectionWrite == Written({p.send}, {kWriteTimeout})

Silence == inbuf' = <<>> /\ wire' = <<>> /\ UNCHANGED peer

\* The close handler: the peer is done sending, or the connection is no more.
ConnectionClose ==
    /\ Running /\ p.conn # "gone"
    /\ \/ p' = FlushAndClose(p) /\ p' # p
       \/ p' = NotifyConnectionDeletion(p)
    /\ Silence

\* HandleTimeout
HandleTimeout ==
    /\ Running /\ p.timeouts # {}
    /\ p' = ForceClose(p)
    /\ Silence

\* The loop deletes objects and runs CloseAllActiveRequests.
RunPosted ==
    /\ p.failed = "none" /\ p.posted # <<>>
    /\ LET task == Head(p.posted)
           q == [p EXCEPT !.posted = Tail(@)]
           wake(r, s) == SignalClosed(s, r)
       IN p' = CASE task.do = "delete" ->
                      Check([q EXCEPT !.obj[task.req] = "freed"],
                            p.obj[task.req] # "freed", "deleted_twice")
                 [] task.do = "delete_protocol" ->
                      LET c == Check(q, q.active = {} /\ q.conn = "gone" /\ q.send = None,
                                     "destructor")
                          d == Check(c, c.recv # None => c.obj[c.recv] = "live", "deleted_twice")
                      IN [Check(d, q.proto = "live", "deleted_twice") EXCEPT !.proto = "freed"]
                 [] task.do = "close_all" ->
                      FoldSet(wake, Check(q, q.proto = "live", "used_after_delete"), q.active)
    /\ UNCHANGED <<wire, inbuf, peer>>

\* Handlers act on the requests they hold, whatever became of the connection.
HandlerReplies(r) ==
    /\ Running /\ r \in p.app /\ r \notin p.streaming
    /\ p' = ReplyWithStatus([p EXCEPT !.app = @ \ {r}, !.closers = @ \ {r}], r)
    /\ UNCHANGED <<wire, inbuf, peer>>

HandlerBegins(r) ==
    /\ Running /\ r \in p.app \ (p.streaming \cup Uploads)
    /\ p' = BeginStreamingData(p, r)
    /\ UNCHANGED <<wire, inbuf, peer>>

HandlerContinues(r) ==
    /\ Running /\ r \in p.app \cap p.streaming
    /\ \E data \in BOOLEAN : p' = StreamData(p, r, data, FALSE)
    /\ UNCHANGED <<wire, inbuf, peer>>

HandlerEnds(r) ==
    /\ Running /\ r \in p.app \cap p.streaming
    /\ p' = StreamData([p EXCEPT !.app = @ \ {r}], r, FALSE, TRUE)
    /\ UNCHANGED <<wire, inbuf, peer>>

\* set_ready_callback, when too much of the stream is still in the buffer.
HandlerWaits(r) ==
    /\ Running /\ r \in p.app \cap p.streaming /\ p.out > 0
    /\ p' = [p EXCEPT !.ready = @ \cup {r}] /\ p' # p
    /\ UNCHANGED <<wire, inbuf, peer>>

\* The client sends a request in two pieces, the second of which may be bad.
ClientSends ==
    /\ Running /\ p.conn = "open" /\ peer.req <= NumRequests
    /\ peer.part = "head" /\ ~Pipelining /\ peer.req > 1 =>
          p.obj[peer.req - 1] \in {"doomed", "freed"} /\ p.out = 0
    /\ \/ /\ peer.part = "head"
          /\ wire' = Append(wire, [req |-> peer.req, part |-> "head"])
          /\ peer' = [peer EXCEPT !.part = "tail"]
       \/ /\ peer.part = "tail"
          /\ \E bad \in {"tail", "bad"} :
               /\ bad = "bad" => BadUploads \/ peer.req \notin Uploads
               /\ wire' = Append(wire, [req |-> peer.req, part |-> bad])
          /\ peer' = [req |-> peer.req + 1, part |-> "head"]
    /\ UNCHANGED <<p, inbuf>>

Next ==
    \/ ConnectionRead
    \/ NotifyConnectionWrite
    \/ HandleTimeout
    \/ ConnectionClose
    \/ RunPosted
    \/ \E r \in Requests : \/ HandlerReplies(r)
                           \/ HandlerBegins(r)
                           \/ HandlerContinues(r)
                           \/ HandlerEnds(r)
                           \/ HandlerWaits(r)
    \/ ClientSends

\* The event loop runs what is posted and the timeouts that are due; TCP ends a
\* flushed connection after shutdown_linger_timeout_ms_.
Fairness ==
    /\ WF_vars(RunPosted)
    /\ WF_vars(HandleTimeout)
    /\ WF_vars(p.conn = "flushing" /\ ConnectionClose)

Spec == Init /\ [][Next]_vars /\ Fairness

-----------------------------------------------------------------------------
\* The CHECKs of the protocol hold and no object is used after it is deleted or
\* deleted twice, however replies, streams, closes and timeouts interleave: what
\* the protocol, the handlers and the loop point to exists, deletions are left to
\* the event loop, and each comes once.
NothingDangles ==
    /\ p.failed = "none"
    /\ \A r \in (p.active \cup p.app \cup p.ready \cup p.closers
                 \cup {p.recv, p.send}) \ {None} : p.obj[r] = "live"
    /\ p.proto = "freed" => p.active = {} /\ p.app = {}
    /\ \A i, j \in DOMAIN p.posted :
          i # j => p.posted[i] # p.posted[j]

\* An open connection on which no handler has anything to say is on a timer, so
\* that a silent client cannot hold it: the timer of the next request or the
\* timer of the bytes still to be written.
IdleIsTimed == p.conn = "open" /\ p.app = {} => p.timeouts # {}

\* A handler that asked to be told about free space in the output buffer will
\* be: there is still something to be written when it waits.
ReadyComes == p.conn = "open" => \A r \in p.ready : p.send = r /\ p.out > 0

\* Once the connection is gone and no request is left the protocol is deleted.
ProtocolDeleted == (p.conn = "gone" /\ p.active = {}) ~> (p.proto = "freed" \/ p.failed # "none")
=============================================================================
