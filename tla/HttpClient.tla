------------------------------ MODULE HttpClient ------------------------------
(***************************************************************************)
(* The HTTP client that sends whole requests over one connection           *)
(* (http::ClientProtocol on http::BaseClientProtocol and                   *)
(* http::BaseClientConnection) with its timeouts (net::Timeouter).         *)
(*                                                                         *)
(* Everything here runs in the thread of one event loop, so an action is   *)
(* one event the loop hands to the client, with all the calls it makes: a  *)
(* call of the application, the connection's connect, read, write and close*)
(* handlers, a timeout.  The server and the network are the environment.   *)
(* A reply travels in two pieces, its header and its body, and a read event*)
(* finds any number of the pieces that arrived.                            *)
(***************************************************************************)
EXTENDS Integers, Sequences, FiniteSets, FiniteSetsExt

CONSTANTS Requests,        \* the ClientRequest objects of the application
          Untimed,         \* those without a timeout: request_timeout_ms() and the default are 0
          MaxConcurrent,   \* params_->max_concurrent_requests_
          WaitingLimits,   \* the values of params_->max_waiting_requests_
          MaxSends         \* bound: calls of SendRequest

ASSUME HttpClientAssumption ==
    /\ Untimed \subseteq Requests
    /\ MaxConcurrent \in Nat \ {0}
    /\ WaitingLimits \subseteq Nat
    /\ MaxSends \in Nat

VARIABLES
    maxWaiting,  \* params_->max_waiting_requests_
    conn,        \* connection_->state(), "closed" when connection_ is NULL
    connError,   \* conn_error_
    crtId,       \* crt_id_
    id,          \* request_id() of each request, 0 when it was never sent
    waiting,     \* waiting_requests_
    active,      \* the requests in active_requests_, each under its id
    callbacks,   \* the requests with an entry in callback_map_
    reading,     \* reading_request_ and how far its reply is read
    timeouts,    \* the timeouts that timeouter_ has set
    posted,      \* callbacks handed to RunInSelectLoop
    outbuf,      \* requests written and not yet taken by the server
    atServer,    \* requests the server has not answered
    wire,        \* pieces of replies on their way
    inbuf,       \* pieces read from the connection and not yet parsed
    error,       \* error() of each request
    answer,      \* the request whose reply was parsed into this one
    sent, ran,   \* how often each request was sent, its callback was run
    failed       \* the CHECK that stopped the process

state == <<maxWaiting, conn, connError, crtId, id, waiting, active, callbacks, reading, timeouts,
           posted, error, answer, sent, ran, failed>>
net == <<outbuf, atServer, wire, inbuf>>
vars == <<state, net>>

Nobody == "nobody"
Fresh == "fresh"      \* the ClientRequest that NotifyConnectionRead allocates
NotReading == [req |-> Nobody, head |-> FALSE]
kConnectTimeout == 1
kWriteTimeout == 2
kRequestTimeout == 4  \* + request_id()
TimeoutIds == {kConnectTimeout, kWriteTimeout} \cup {kRequestTimeout + i : i \in 1..MaxSends}
Parts == {"head", "tail", "bad"}
Sent == [req : Requests, id : 1..MaxSends]

TypeOK ==
    /\ maxWaiting \in WaitingLimits
    /\ conn \in {"disconnected", "resolving", "connecting", "connected", "closed"}
    /\ connError \in {"incomplete", "ok", "closed", "timeout", "dependency"}
    /\ crtId \in 1..MaxSends + 1
    /\ id \in [Requests -> 0..MaxSends]
    /\ waiting \in Seq(Requests)
    /\ active \subseteq Requests
    /\ callbacks \subseteq Requests
    /\ reading \in [req : Requests \cup {Nobody, Fresh}, head : BOOLEAN]
    /\ timeouts \subseteq TimeoutIds
    /\ posted \in Seq(Requests)
    /\ outbuf \in Seq(Sent) /\ atServer \in Seq(Sent)
    /\ wire \in Seq([req : Requests, id : 1..MaxSends, part : Parts])
    /\ inbuf \in Seq([req : Requests, id : 1..MaxSends, part : Parts])
    /\ error \in [Requests -> {"none", "ok", "closed", "timeout", "dependency",
                               "too many", "parsing"}]
    /\ answer \in [Requests -> Requests \cup {Nobody}]
    /\ sent \in [Requests -> 0..MaxSends] /\ ran \in [Requests -> 0..MaxSends]
    /\ failed \in {"none", "active_requests_.erase", "conn_error_", "registered_selector"}

Init ==
    /\ maxWaiting \in WaitingLimits
    /\ conn = "disconnected" /\ connError = "incomplete" /\ crtId = 1
    /\ id = [r \in Requests |-> 0]
    /\ waiting = <<>> /\ active = {} /\ callbacks = {}
    /\ reading = NotReading /\ timeouts = {} /\ posted = <<>>
    /\ outbuf = <<>> /\ atServer = <<>> /\ wire = <<>> /\ inbuf = <<>>
    /\ error = [r \in Requests |-> "none"] /\ answer = [r \in Requests |-> Nobody]
    /\ sent = [r \in Requests |-> 0] /\ ran = [r \in Requests |-> 0]
    /\ failed = "none"

Posted(r) == \E i \in DOMAIN posted : posted[i] = r
Outstanding(r) == sent[r] > ran[r]
Sends == MapThenSumSet(LAMBDA r : sent[r], Requests)   \* for the bound only

-----------------------------------------------------------------------------
\* Completing requests

\* closure->Run() of the requests in S.
RunCallbacks(S) == ran' = [r \in Requests |-> IF r \in S THEN ran[r] + 1 ELSE ran[r]]

\* NotifyConnectionDeletion: connection_ becomes NULL, every timeout is unset,
\* and ResolveAllRequestsWithError gives active requests conn_error_, waiting
\* ones CONN_DEPENDENCY_FAILURE.  alsoRan has already been completed by the
\* event that closes the connection, with alsoErr.
Closed(err, w, a, alsoRan, alsoErr) ==
    LET e == IF err \in {"incomplete", "ok"} THEN "closed" ELSE err
        waits == {w[i] : i \in DOMAIN w}
    IN /\ conn' = "closed" /\ connError' = e
       /\ waiting' = <<>> /\ active' = {} /\ callbacks' = {} /\ timeouts' = {}
       /\ reading' = NotReading
       /\ error' = [r \in Requests |-> IF r \in alsoRan THEN alsoErr
                                       ELSE IF r \in a THEN e
                                       ELSE IF r \in waits THEN "dependency" ELSE error[r]]
       /\ RunCallbacks(alsoRan \cup a \cup waits)
       /\ outbuf' = <<>> /\ atServer' = <<>> /\ wire' = <<>> /\ inbuf' = <<>>

\* The first waiting requests become active, as many as may be, each written
\* out under the write timeout and, when armed, a request timeout of its own.
\* Without one there is only the write timeout, until all is written.
WriteOut(w, a, t, armed) ==
    LET room == MaxConcurrent - Cardinality(a)
        n == IF Len(w) < room THEN Len(w) ELSE room
        out == [i \in 1..n |-> [req |-> w[i], id |-> id'[w[i]]]]
    IN /\ waiting' = SubSeq(w, n + 1, Len(w))
       /\ active' = a \cup {w[i] : i \in 1..n}
       /\ outbuf' = outbuf \o out
       /\ timeouts' = t \cup {kRequestTimeout + out[i].id : i \in {j \in 1..n : out[j].req \in armed}}
                        \cup (IF n > 0 THEN {kWriteTimeout} ELSE {})

\* Mutant: no timeout is armed for the request.
WriteRequestsNoTimeout(w, a, t) == WriteOut(w, a, t, {})

\* WriteRequestsToServer, with SendRequestToServer for each request.
WriteRequestsToServer(w, a, t) == WriteOut(w, a, t, Requests \ Untimed)

-----------------------------------------------------------------------------
\* Calls of the application

\* SendRequest: refused on a dead connection and, later, on a full queue;
\* else queued, and the first one starts the connection, which may fail at once
\* or have the name of the server resolved first.
MaySend(r) == failed = "none" /\ ~Outstanding(r) /\ ~Posted(r) /\ Sends < MaxSends

SendRequest(r) ==
    /\ MaySend(r) /\ (conn = "resolving" => Len(waiting) >= maxWaiting)
    /\ sent' = [sent EXCEPT ![r] = @ + 1]
    /\ answer' = [answer EXCEPT ![r] = Nobody]
    /\ \/ /\ conn = "closed"
          /\ error' = [error EXCEPT ![r] = "closed"] /\ RunCallbacks({r})
          /\ UNCHANGED <<conn, connError, crtId, id, waiting, active, callbacks, timeouts, reading,
                         posted, net>>
       \/ /\ conn # "closed"
          /\ id' = [id EXCEPT ![r] = crtId] /\ crtId' = crtId + 1
          /\ \/ /\ Len(waiting) >= maxWaiting
                /\ error' = [error EXCEPT ![r] = "too many"]
                /\ posted' = Append(posted, r)
                /\ UNCHANGED <<conn, connError, waiting, active, callbacks, timeouts, reading,
                               ran, net>>
             \/ /\ Len(waiting) < maxWaiting
                /\ UNCHANGED posted
                /\ \/ /\ conn = "disconnected"
                      /\ \/ /\ conn' \in {"resolving", "connecting"} /\ timeouts' = timeouts \cup {kConnectTimeout}
                            /\ waiting' = Append(waiting, r)
                            /\ callbacks' = callbacks \cup {r}
                            /\ error' = [error EXCEPT ![r] = "none"]
                            /\ UNCHANGED <<connError, active, reading, ran, net>>
                         \/ Closed(connError, Append(waiting, r), active, {}, "none")
                   \/ /\ conn # "disconnected"
                      /\ WriteRequestsToServer(Append(waiting, r), active, timeouts)
                      /\ callbacks' = callbacks \cup {r}
                      /\ error' = [error EXCEPT ![r] = "none"]
                      /\ UNCHANGED <<conn, connError, reading, ran, atServer, wire, inbuf>>
    /\ UNCHANGED <<maxWaiting, failed>>

\* While the name is being resolved a second request is written at once, and
\* NotifyWrite asks for write events of a connection that no selector knows:
\* the CHECK of Selector::UpdateDesire fails.
SendWhileResolving(r) ==
    /\ MaySend(r) /\ conn = "resolving" /\ Len(waiting) < maxWaiting
    /\ failed' = "registered_selector"
    /\ UNCHANGED <<maxWaiting, conn, connError, crtId, id, waiting, active, callbacks, reading, timeouts,
                   posted, error, answer, sent, ran, net>>

\* A callback that SendRequest left to the event loop.
RunPosted ==
    /\ failed = "none" /\ posted # <<>>
    /\ RunCallbacks({Head(posted)}) /\ posted' = Tail(posted)
    /\ UNCHANGED <<maxWaiting, conn, connError, crtId, id, waiting, active, callbacks, reading, timeouts,
                   error, answer, sent, failed, net>>

\* Clear: ForceClose runs the close handler before it returns.
Clear ==
    /\ failed = "none" /\ conn # "closed"
    /\ Closed(connError, waiting, active, {}, "none")
    /\ UNCHANGED <<maxWaiting, crtId, id, posted, answer, sent, failed>>

\* ResolveAllRequestsWithError followed by delete, the way FailSafeClient ends
\* a client: the CHECK wants to know why the active requests fail.
Abandon ==
    /\ failed = "none" /\ conn # "closed"
    /\ IF active # {} /\ connError = "incomplete"
       THEN /\ failed' = "conn_error_"
            /\ UNCHANGED <<conn, connError, waiting, active, callbacks, reading, timeouts,
                           error, ran, net>>
       ELSE /\ Closed(connError, waiting, active, {}, "none")
            /\ UNCHANGED failed
    /\ UNCHANGED <<maxWaiting, crtId, id, posted, answer, sent>>

-----------------------------------------------------------------------------
\* Events of the connection

\* HandleDnsResult of the connection: the server has an address to connect to.
HandleDnsResult ==
    /\ failed = "none" /\ conn = "resolving"
    /\ conn' = "connecting"
    /\ UNCHANGED <<maxWaiting, connError, crtId, id, waiting, active, callbacks, reading, timeouts, posted,
                   error, answer, sent, ran, failed, net>>

\* NotifyConnected
NotifyConnected ==
    /\ failed = "none" /\ conn = "connecting"
    /\ conn' = "connected" /\ connError' = "ok"
    /\ UNCHANGED id
    /\ WriteRequestsToServer(waiting, active, timeouts \ {kConnectTimeout})
    /\ UNCHANGED <<maxWaiting, crtId, callbacks, reading, posted, error, answer, sent, ran,
                   failed, atServer, wire, inbuf>>

\* NotifyConnectionWrite: the kernel takes what is buffered, part of it or all.
NotifyConnectionWrite ==
    /\ failed = "none" /\ conn = "connected" /\ outbuf # <<>>
    /\ \E n \in 1..Len(outbuf) :
          /\ outbuf' = SubSeq(outbuf, n + 1, Len(outbuf))
          /\ atServer' = atServer \o SubSeq(outbuf, 1, n)
    /\ timeouts' = IF outbuf' = <<>> THEN timeouts \ {kWriteTimeout}
                 ELSE timeouts \cup {kWriteTimeout}
    /\ UNCHANGED <<maxWaiting, conn, connError, crtId, id, waiting, active, callbacks, reading, posted,
                   error, answer, sent, ran, failed, wire, inbuf>>

\* The close handler for both directions; the read half alone is first flushed.
\* It also runs when the name of the server cannot be resolved.
ConnectionCloseHandler ==
    /\ failed = "none" /\ conn \in {"resolving", "connecting", "connected"}
    /\ Closed(connError, waiting, active, {}, "none")
    /\ UNCHANGED <<maxWaiting, crtId, id, posted, answer, sent, failed>>

\* Mutant: the reply goes to the oldest active request, whatever its id.
IdentifyFirst(piece) ==
    IF active # {} THEN CHOOSE r \in active : \A s \in active : id[r] <= id[s]
    ELSE Nobody

\* The active request a fresh reply belongs to, by its X-Request-Id header:
\* Nobody when no active request has that id (an orphaned response).
IdentifyReadingRequest(piece) ==
    IF \E r \in active : id[r] = piece.id THEN CHOOSE r \in active : id[r] = piece.id
    ELSE Nobody

\* The request that the next reply is read into: with one request at a time the
\* active one, else a fresh one that its header is to identify.
StartReading ==
    IF reading.req # Nobody THEN reading
    ELSE [req |-> IF MaxConcurrent = 1 /\ active # {} THEN CHOOSE r \in active : TRUE
                  ELSE Fresh,
          head |-> FALSE]

\* One reply, at most, is parsed by a read event: from the header to the last
\* piece that is in the buffer.
Parse(buf) ==
    LET start == StartReading
        hasHead == start.head \/ buf[1].part = "head"
        last == IF start.head \/ buf[1].part = "bad" THEN 1
                ELSE IF Len(buf) > 1 THEN 2 ELSE 1
        req == IF start.req = Fresh /\ ~start.head THEN IdentifyReadingRequest(buf[1])
               ELSE start.req
    IN [req |-> req, head |-> hasHead, rest |-> SubSeq(buf, last + 1, Len(buf)),
        part |-> buf[last].part, from |-> buf[last].req]

\* NotifyConnectionRead.
NotifyConnectionRead ==
    /\ failed = "none" /\ conn = "connected" /\ wire # <<>>
    /\ \E n \in 1..Len(wire) :
       LET p == Parse(inbuf \o SubSeq(wire, 1, n))
           r == p.req
           isRequest == r \in Requests
           isOrphan == ~isRequest
           mine == IF isRequest THEN {r} ELSE {}
           w == waiting
           a == active \ mine
       IN /\ \/ /\ p.part = "head"                     \* more data is needed
                /\ reading' = [req |-> IF isOrphan THEN Fresh ELSE r, head |-> TRUE]
                /\ wire' = SubSeq(wire, n + 1, Len(wire)) /\ inbuf' = p.rest
                /\ UNCHANGED <<conn, connError, waiting, active, callbacks, timeouts, error,
                               answer, ran, failed, outbuf, atServer>>
             \/ /\ p.part # "head" /\ isRequest /\ r \notin active
                /\ failed' = "active_requests_.erase"
                /\ UNCHANGED <<conn, connError, waiting, active, callbacks, reading, timeouts,
                               error, answer, ran, net>>
             \/ /\ p.part = "tail" /\ (isRequest => r \in active)
                /\ reading' = NotReading
                /\ error' = [q \in Requests |-> IF q \in mine THEN "ok" ELSE error[q]]
                /\ answer' = [q \in Requests |-> IF q \in mine THEN p.from ELSE answer[q]]
                /\ RunCallbacks(mine)
                /\ callbacks' = callbacks \ mine
                /\ UNCHANGED id
                /\ WriteRequestsToServer(w, a, timeouts \ {kRequestTimeout + id[q] : q \in mine})
                /\ wire' = SubSeq(wire, n + 1, Len(wire)) /\ inbuf' = p.rest
                /\ UNCHANGED <<conn, connError, failed, atServer>>
             \/ /\ p.part = "bad" /\ (isRequest => r \in active)
                /\ Closed("dependency", w, a, mine, "parsing")
                /\ UNCHANGED <<answer, failed>>
    /\ UNCHANGED <<maxWaiting, crtId, id, posted, sent>>

\* A request's own timeout completes it and leaves the connection open; the
\* connect and write timeouts close it.  kept stays in callback_map_.
TimeoutFires(t, kept) ==
    /\ failed = "none" /\ t \in timeouts
    /\ \/ /\ t < kRequestTimeout
          /\ Closed("timeout", waiting, active, {}, "none")
       \/ /\ t >= kRequestTimeout
          /\ LET mine == {r \in active : kRequestTimeout + id[r] = t}
             IN /\ active' = active \ mine /\ callbacks' = callbacks \ (mine \ kept)
                /\ error' = [r \in Requests |-> IF r \in mine THEN "timeout" ELSE error[r]]
                /\ RunCallbacks(mine)
          /\ timeouts' = timeouts \ {t}
          /\ UNCHANGED <<conn, connError, waiting, reading, net>>
    /\ UNCHANGED <<maxWaiting, crtId, id, posted, answer, sent, failed>>

\* Mutant: the entry of callback_map_ is forgotten.
TimeoutKeepsCallback(t) == TimeoutFires(t, Requests)

\* HandleTimeoutEvent
HandleTimeout(t) == TimeoutFires(t, {})

-----------------------------------------------------------------------------
\* The server answers in any order, with a whole reply or with one that
\* does not parse.
ServerReplies ==
    /\ failed = "none" /\ conn = "connected"
    /\ \E i \in DOMAIN atServer, bad \in BOOLEAN :
          /\ atServer' = SubSeq(atServer, 1, i - 1) \o SubSeq(atServer, i + 1, Len(atServer))
          /\ wire' = wire \o
               LET piece(p) == [req |-> atServer[i].req, id |-> atServer[i].id, part |-> p]
               IN IF bad THEN <<piece("bad")>> ELSE <<piece("head"), piece("tail")>>
    /\ UNCHANGED <<state, outbuf, inbuf>>

Next ==
    \/ \E r \in Requests : SendRequest(r) \/ SendWhileResolving(r)
    \/ RunPosted
    \/ Clear
    \/ Abandon
    \/ HandleDnsResult
    \/ NotifyConnected
    \/ NotifyConnectionWrite
    \/ NotifyConnectionRead
    \/ ConnectionCloseHandler
    \/ \E t \in TimeoutIds : HandleTimeout(t)
    \/ ServerReplies

\* The event loop runs what was posted to it and every alarm that is due.
Fairness ==
    /\ WF_vars(RunPosted)
    /\ \A t \in TimeoutIds : WF_vars(HandleTimeout(t))

Spec == Init /\ [][Next]_vars /\ Fairness

-----------------------------------------------------------------------------
\* "we start this request and call once the done callback when the request is
\* done" (http_client_protocol.h): a request is in exactly one of
\* waiting_requests_, active_requests_ and the loop's queue as long as its
\* callback has not run, which it does once per SendRequest; callback_map_
\* holds the callbacks of the first two; an active request that has a timeout has
\* it set and a dead connection holds nothing.
CallbackOnce ==
    failed = "none" =>
      /\ callbacks = active \cup {waiting[i] : i \in DOMAIN waiting}
      /\ \A r \in Requests :
           LET places == (IF r \in active THEN 1 ELSE 0)
                         + Cardinality({i \in DOMAIN waiting : waiting[i] = r})
                         + Cardinality({i \in DOMAIN posted : posted[i] = r})
           IN sent[r] = ran[r] + places /\ places <= 1
      /\ \A r \in active \ Untimed : kRequestTimeout + id[r] \in timeouts
      /\ conn = "closed" => callbacks = {} /\ timeouts = {}

\* "Finds which active request is currently in reading process (based on the
\* request_id header" (http_client_protocol.h): a request that ends with
\* CONN_OK was given the reply to itself, whatever timed out before and however
\* late the replies come.
OwnReply == \A r \in Requests : answer[r] \in {Nobody, r}

\* A request on the line that has a timeout ends: by its reply, its timeout or
\* the connection's end, whatever the requests around it wait for.
ActiveEnds == \A r \in Requests \ Untimed : (r \in active) ~> (r \notin active \/ failed # "none")
=============================================================================
