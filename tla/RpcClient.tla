------------------------------ MODULE RpcClient ------------------------------
(***************************************************************************)
(* The client side of RPC over TCP: rpc::IClientConnection (queries, their *)
(* callbacks and timeouts, irpc_client_connection.cc) and its transport    *)
(* rpc::ClientConnectionTCP (open, handshake, send queue, shutdown,        *)
(* rpc_client_connection_tcp.cc).                                          *)
(*                                                                         *)
(* Any thread makes and cancels queries; the selector thread sends, reads, *)
(* times out and runs the callbacks.  The two sides meet in response_map_, *)
(* under the mutex sync_response_map_, and in the closures posted to the   *)
(* selector.  A turn of the selector is one step, but for what it does     *)
(* under the mutex and for the callbacks it runs, which are steps of their *)
(* own ("running").                                                        *)
(*                                                                         *)
(* The server and the network are external: a connection is made or        *)
(* refused, shakes hands well or badly, answers what was sent in any order *)
(* or never, and may break at any time.                                    *)
(***************************************************************************)
EXTENDS Naturals, Sequences, FiniteSets

CONSTANTS Threads,
          Callers,              \* the threads that make queries and cancel them
          Closers,              \* the ones that cancel all queries and shut down
          MaxQueries,           \* bound on the queries made, which xids number
          max_paralel_queries,
          None,                 \* nobody has the mutex
          CancelAllRaces,       \* may CancelAllQueries meet queries that complete or are waited for?
          LateHandshake,        \* may the server shake hands after the open timeout?
          ShutsWhileOpening     \* is it shut down or deleted while a connection is being made?

ASSUME RpcAssumption ==
    /\ MaxQueries \in Nat \ {0} /\ max_paralel_queries \in Nat \ {0}
    /\ None \notin Threads /\ Callers \cup Closers \subseteq Threads
    /\ {CancelAllRaces, LateHandshake, ShutsWhileOpening} \subseteq BOOLEAN

VARIABLES
    pc,        \* thread -> where it is, and with which query
    query,     \* xid -> what became of it
    response_map,
    mutex,     \* who holds sync_response_map_ from one step to the next
    timers,    \* the xids in timeouter_
    posted,    \* closures posted to the selector
    running,   \* what the selector's turn has yet to do
    conn,      \* ClientConnectionTCP
    failed     \* a CHECK failed

vars == <<pc, query, response_map, mutex, timers, posted, running, conn, failed>>
threadVars == <<pc, query>>

Xids == 1..MaxQueries

PCs == {"idle", "send", "wait", "pop", "sync", "clear", "lock", "locked", "shutdown"}

Query == [owner     : Threads \cup {None},   \* None: not made yet
          runs      : Nat,                   \* how many times its callback was run
          deleted   : BOOLEAN,               \* its callback was deleted without
          cancelled : BOOLEAN]               \* CancelQuery has returned

Conn == [net      : {"DISCONNECTED", "CONNECTING", "CONNECTED"},
         hand     : {"NOT_INITIALIZED", "WAITING_RESPONSE", "CONNECTED", "FAILURE"},
         opening  : BOOLEAN,        \* is_opening_, and the timeout of the open
         callback : BOOLEAN,        \* open_callback_ is set
         queries  : SUBSET Xids,    \* queries_
         sent     : SUBSET Xids,    \* what the server has to answer
         deleted  : BOOLEAN]

\* Closures by the function they call, and what it is called with; the jobs of
\* a turn likewise.
Closures == {<<"StartOpen">>, <<"ClearTimeouts">>}
            \cup ({"AddTimeout", "ClearTimeout", "SendPacket"} \X Xids)
            \cup ({"signal", "Shutdown"} \X Threads)
Jobs == {<<"CompleteAllQueries">>} \cup ({"CompleteQuery", "run"} \X Xids)
        \cup ({"signal"} \X Threads)

TypeOK ==
    /\ pc \in [Threads -> [at : PCs, x : Xids \cup {0}, sync : BOOLEAN]]
    /\ query \in [Xids -> Query]
    /\ response_map \subseteq Xids
    /\ mutex \in Threads \cup {None}
    /\ timers \subseteq Xids
    /\ posted \in Seq(Closures)
    /\ running \in Seq(Jobs)
    /\ conn \in Conn
    /\ failed \in BOOLEAN

IdlePC == [at |-> "idle", x |-> 0, sync |-> FALSE]

\* The connection is new; Open is called with a callback, or the first query
\* will open it.
Init ==
    /\ pc = [t \in Threads |-> IdlePC]
    /\ query = [x \in Xids |->
                  [owner |-> None, runs |-> 0, deleted |-> FALSE, cancelled |-> FALSE]]
    /\ response_map = {}
    /\ mutex = None
    /\ timers = {}
    /\ running = <<>>
    /\ \E opens \in BOOLEAN :
         /\ posted = IF opens THEN <<<<"StartOpen">>>> ELSE <<>>
         /\ conn = [net |-> "DISCONNECTED", hand |-> "NOT_INITIALIZED", opening |-> FALSE,
                    callback |-> opens, queries |-> {}, sent |-> {}, deleted |-> FALSE]
    /\ failed = FALSE

Post(closure) == posted' = Append(posted, closure)
GoTo(t, where) == pc' = [pc EXCEPT ![t].at = where]
Return(t) == pc' = [pc EXCEPT ![t] = IdlePC]
At(t, where) == ~failed /\ pc[t].at = where
MutexFree == mutex = None

-----------------------------------------------------------------------------
(* IClientConnection, any thread *)

NextXid == Cardinality({x \in Xids : query[x].owner # None}) + 1

\* AsyncQuery and Query: the callback goes into the map and the timeout is asked
\* for in one critical section ...
AsyncQuery(t, sync) ==
    /\ At(t, "idle") /\ MutexFree /\ NextXid \in Xids
    /\ sync => CancelAllRaces \/ \A u \in Threads : pc[u].at \notin {"clear", "lock", "locked"}
    /\ LET x == NextXid
       IN /\ query' = [query EXCEPT ![x].owner = t]
          /\ response_map' = response_map \cup {x}
          /\ Post(<<"AddTimeout", x>>)
          /\ pc' = [pc EXCEPT ![t] = [at |-> "send", x |-> x, sync |-> sync]]
    /\ UNCHANGED <<mutex, timers, running, conn, failed>>

\* ... and the packet is posted outside of it.
Send(t) ==
    /\ At(t, "send")
    /\ Post(<<"SendPacket", pc[t].x>>)
    /\ IF pc[t].sync THEN GoTo(t, "wait") ELSE Return(t)
    /\ UNCHANGED <<query, response_map, mutex, timers, running, conn, failed>>

\* Query returns when its callback was run.
QueryReturns(t) ==
    /\ At(t, "wait") /\ query[pc[t].x].runs > 0
    /\ Return(t)
    /\ UNCHANGED <<query, response_map, mutex, timers, posted, running, conn, failed>>

\* CancelQuery of a query the thread made: ClearTimeout ...
CancelQuery(t, x) ==
    /\ At(t, "idle") /\ query[x].owner = t /\ ~query[x].cancelled
    /\ pc' = [pc EXCEPT ![t] = [at |-> "pop", x |-> x, sync |-> FALSE]]
    /\ Post(<<"ClearTimeout", x>>)
    /\ UNCHANGED <<query, response_map, mutex, timers, running, conn, failed>>

\* Mutant of CancelPop: a callback that is not in the map is taken to be done.
CancelPopNoWait(t) ==
    /\ At(t, "pop") /\ MutexFree
    /\ LET x == pc[t].x
       IN /\ query' = [query EXCEPT ![x].deleted = x \in response_map, ![x].cancelled = TRUE]
          /\ response_map' = response_map \ {x}
    /\ Return(t)
    /\ UNCHANGED <<mutex, timers, posted, running, conn, failed>>

\* ... PopResponseCallbackSync; when the callback is not there the selector may
\* be about to run it, and is waited for.
CancelPop(t) ==
    /\ At(t, "pop") /\ MutexFree
    /\ LET x == pc[t].x
       IN \/ /\ x \in response_map
             /\ query' = [query EXCEPT ![x].deleted = TRUE, ![x].cancelled = TRUE]
             /\ response_map' = response_map \ {x}
             /\ Return(t)
             /\ UNCHANGED posted
          \/ /\ x \notin response_map
             /\ Post(<<"signal", t>>)
             /\ GoTo(t, "sync")
             /\ UNCHANGED <<query, response_map>>
    /\ UNCHANGED <<mutex, timers, running, conn, failed>>

\* CancelAllQueries: ClearTimeouts is waited for, the map is emptied, and the
\* selector is waited for with the map still locked.
CancelAllQueries(t) ==
    /\ At(t, "idle")
    /\ CancelAllRaces \/ \A u \in Threads : ~pc[u].sync
    /\ GoTo(t, "clear")
    /\ Post(<<"ClearTimeouts">>)
    /\ UNCHANGED <<query, response_map, mutex, timers, running, conn, failed>>

\* "Timeout waiting for ClearTimeouts()", and on it goes.
ClearTimeoutsTimeout(t) ==
    /\ At(t, "clear")
    /\ GoTo(t, "lock")
    /\ UNCHANGED <<query, response_map, mutex, timers, posted, running, conn, failed>>

\* Nothing is about to need the mutex in the selector thread.
QuietForCancelAll ==
    /\ running = <<>>
    /\ \A i \in DOMAIN posted : posted[i][1] \notin {"SendPacket", "Shutdown"}

CancelAllLocked(t) ==
    /\ At(t, "lock") /\ MutexFree
    /\ CancelAllRaces \/ QuietForCancelAll
    /\ mutex' = t
    /\ query' = [x \in Xids |-> [query[x] EXCEPT !.deleted = @ \/ x \in response_map]]
    /\ response_map' = {}
    /\ Post(<<"signal", t>>)
    /\ GoTo(t, "locked")
    /\ UNCHANGED <<timers, running, conn, failed>>

\* Shutdown, from a thread: posted, and waited for.
Shutdown(t) ==
    /\ At(t, "idle")
    /\ ShutsWhileOpening \/ (~conn.opening /\ posted = <<>> /\ \A u \in Threads : pc[u].at = "idle")
    /\ Post(<<"Shutdown", t>>)
    /\ GoTo(t, "shutdown")
    /\ UNCHANGED <<query, response_map, mutex, timers, running, conn, failed>>

-----------------------------------------------------------------------------
(* IClientConnection, the selector thread *)

SelectorFree == ~failed /\ running = <<>>
Runs(closure) == SelectorFree /\ posted # <<>> /\ Head(posted)[1] = closure

\* A turn that goes on to complete one query, or all of them and then "last".
Completes(jobs) == (CancelAllRaces \/ MutexFree) /\ running' = jobs

Ordered(xids) ==
    CHOOSE s \in [1..Cardinality(xids) -> xids] :
       \A i, j \in DOMAIN s : i < j => s[i] < s[j]

\* CompleteQuery and NotifySendFailed: the callback is taken from the map, to be
\* run outside of the mutex; a query that is not there any more is left alone.
CompleteQuery ==
    /\ ~failed /\ running # <<>> /\ Head(running)[1] = "CompleteQuery"
    /\ MutexFree
    /\ LET x == Head(running)[2]
       IN /\ timers' = timers \ {x}
          /\ response_map' = response_map \ {x}
          /\ running' = (IF x \in response_map THEN <<<<"run", x>>>> ELSE <<>>) \o Tail(running)
    /\ UNCHANGED <<threadVars, mutex, posted, conn, failed>>

CompleteAllQueries ==
    /\ ~failed /\ running # <<>> /\ Head(running)[1] = "CompleteAllQueries"
    /\ MutexFree
    /\ timers' = {}
    /\ response_map' = {}
    /\ LET xids == Ordered(response_map)
       IN running' = [i \in DOMAIN xids |-> <<"run", xids[i]>>] \o Tail(running)
    /\ UNCHANGED <<threadVars, mutex, posted, conn, failed>>

RunCallback ==
    /\ ~failed /\ running # <<>> /\ Head(running)[1] = "run"
    /\ query' = [query EXCEPT ![Head(running)[2]].runs = @ + 1]
    /\ running' = Tail(running)
    /\ UNCHANGED <<pc, response_map, mutex, timers, posted, conn, failed>>

\* The event the caller of Shutdown waits for, if it is called from a thread.
SignalDone ==
    /\ ~failed /\ running # <<>> /\ Head(running)[1] = "signal"
    /\ Return(Head(running)[2])
    /\ running' = Tail(running)
    /\ UNCHANGED <<query, response_map, mutex, timers, posted, conn, failed>>

\* AddTimeout and ClearTimeout in the selector thread.
SetTimeouts ==
    /\ Runs("AddTimeout") \/ Runs("ClearTimeout")
    /\ LET x == Head(posted)[2]
       IN timers' = IF Head(posted)[1] = "AddTimeout" THEN timers \cup {x} ELSE timers \ {x}
    /\ posted' = Tail(posted)
    /\ UNCHANGED <<threadVars, response_map, mutex, running, conn, failed>>

\* Mutant of NotifyTimeout: the packet is dropped, the query is not completed.
NotifyTimeoutDrops(x) ==
    /\ SelectorFree /\ x \in timers
    /\ timers' = timers \ {x}
    /\ conn' = [conn EXCEPT !.queries = @ \ {x}]
    /\ UNCHANGED <<threadVars, mutex, response_map, running, posted, failed>>

NotifyTimeout(x) ==
    /\ SelectorFree /\ x \in timers
    /\ Completes(<<<<"CompleteQuery", x>>>>)
    /\ timers' = timers \ {x}
    /\ conn' = [conn EXCEPT !.queries = @ \ {x}]
    /\ UNCHANGED <<threadVars, response_map, mutex, posted, failed>>

\* ClearTimeouts in the selector thread wakes up all who wait for it.
ClearTimeouts ==
    /\ Runs("ClearTimeouts")
    /\ timers' = {}
    /\ pc' = [t \in Threads |-> IF pc[t].at = "clear" THEN [pc[t] EXCEPT !.at = "lock"] ELSE pc[t]]
    /\ posted' = Tail(posted)
    /\ UNCHANGED <<query, response_map, mutex, running, conn, failed>>

\* WaitForSelectorThread: the one who waits goes on, and lets go of the mutex.
Signal ==
    /\ Runs("signal")
    /\ LET t == Head(posted)[2]
           x == pc[t].x
       IN /\ Return(t)
          /\ mutex' = IF mutex = t THEN None ELSE mutex
          /\ query' = IF pc[t].at = "sync" THEN [query EXCEPT ![x].cancelled = TRUE] ELSE query
    /\ posted' = Tail(posted)
    /\ UNCHANGED <<response_map, timers, running, conn, failed>>

-----------------------------------------------------------------------------
(* ClientConnectionTCP, the selector thread *)

IsOpen(c) == c.net = "CONNECTED" /\ c.hand = "CONNECTED"

\* EndOpen: the open callback is run.
EndOpen(c) == [c EXCEPT !.opening = FALSE, !.callback = FALSE]

\* StartOpen and StartConnect, which may fail at once.
StartOpen(c) ==
    {[c EXCEPT !.opening = TRUE, !.net = "CONNECTING"], EndOpen([c EXCEPT !.opening = TRUE])}

\* The part of Shutdown after ForceClose: an open that is under way is ended
\* and nothing more is done, not even to the queue, which the destructor CHECKs;
\* else nothing is left and every query completes.
ShutdownNow(c, signals) ==
    LET closed == [c EXCEPT !.net = "DISCONNECTED", !.hand = "NOT_INITIALIZED", !.sent = {}]
    IN IF c.opening
       THEN /\ conn' = EndOpen(closed)
            /\ failed' = (c.deleted /\ (c.queries # {} \/ response_map # {}))
            /\ UNCHANGED running
       ELSE /\ conn' = [closed EXCEPT !.queries = {}]
            /\ failed' = c.callback
            /\ Completes(<<<<"CompleteAllQueries">>>> \o signals)

OpenPosted ==
    /\ Runs("StartOpen")
    /\ conn' \in StartOpen(conn)
    /\ failed' = (conn.net # "DISCONNECTED")
    /\ posted' = Tail(posted)
    /\ UNCHANGED <<threadVars, response_map, mutex, timers, running>>

\* A query over the limit fails; one that finds no connection opens it.
SendPacket ==
    /\ Runs("SendPacket")
    /\ LET x == Head(posted)[2]
           queued == [conn EXCEPT !.queries = @ \cup {x}]
       IN \/ /\ Cardinality(conn.queries) >= max_paralel_queries
             /\ Completes(<<<<"CompleteQuery", x>>>>)
             /\ UNCHANGED conn
          \/ /\ Cardinality(conn.queries) < max_paralel_queries
             /\ conn' \in (IF conn.net = "DISCONNECTED" THEN StartOpen(queued) ELSE {queued})
             /\ UNCHANGED running
    /\ posted' = Tail(posted)
    /\ UNCHANGED <<threadVars, response_map, mutex, timers, failed>>

\* ConnectionConnectHandler, EndConnect, StartHandshake: the first packet.
ConnectionConnect ==
    /\ SelectorFree /\ conn.net = "CONNECTING"
    /\ conn' = [conn EXCEPT !.net = "CONNECTED", !.hand = "WAITING_RESPONSE"]
    /\ failed' = (conn.hand # "NOT_INITIALIZED")
    /\ UNCHANGED <<threadVars, response_map, mutex, timers, posted, running>>

\* Mutant of HandshakeRead: nobody is told that the open is over.
HandshakeReadSilent(good) ==
    /\ SelectorFree /\ conn.net = "CONNECTED" /\ conn.hand = "WAITING_RESPONSE"
    /\ good /\ conn.opening
    /\ conn' = [conn EXCEPT !.hand = "CONNECTED", !.opening = FALSE]
    /\ UNCHANGED <<threadVars, response_map, mutex, timers, posted, running, failed>>

\* The server's part of the handshake, good or bad: EndHandshake and EndOpen;
\* after a bad one the connection is closed.
HandshakeRead(good) ==
    /\ SelectorFree /\ conn.net = "CONNECTED" /\ conn.hand = "WAITING_RESPONSE"
    /\ LateHandshake \/ conn.opening
    /\ \/ /\ good \/ ~conn.opening
          /\ conn' = EndOpen([conn EXCEPT !.hand = "CONNECTED"])
          /\ failed' = ~conn.opening
          /\ UNCHANGED running
       \/ /\ ~good /\ conn.opening
          /\ ShutdownNow(EndOpen(conn), <<>>)
    /\ UNCHANGED <<threadVars, response_map, mutex, timers, posted>>

\* ConnectionWriteHandler: everything queued goes out.
ConnectionWrite ==
    /\ SelectorFree /\ IsOpen(conn) /\ conn.queries # {}
    /\ conn' = [conn EXCEPT !.queries = {}, !.sent = @ \cup conn.queries]
    /\ UNCHANGED <<threadVars, response_map, mutex, timers, posted, running, failed>>

\* ConnectionReadHandler and HandleResponse: an answer to something that was sent.
ConnectionRead(x) ==
    /\ SelectorFree /\ IsOpen(conn) /\ x \in conn.sent
    /\ Completes(<<<<"CompleteQuery", x>>>>)
    /\ conn' = [conn EXCEPT !.sent = @ \ {x}]
    /\ UNCHANGED <<threadVars, response_map, mutex, timers, posted, failed>>

\* ConnectionCloseHandler: the connection broke, could not be made, or sent
\* something that cannot be decoded.
ConnectionClose ==
    /\ SelectorFree /\ conn.net # "DISCONNECTED"
    /\ ShutdownNow(conn, <<>>)
    /\ UNCHANGED <<threadVars, response_map, mutex, timers, posted>>

\* TimeoutHandler: the connection is left as it is.
OpenTimeout ==
    /\ SelectorFree /\ conn.opening
    /\ conn' = EndOpen(conn)
    /\ UNCHANGED <<threadVars, response_map, mutex, timers, posted, running, failed>>

ShutdownPosted ==
    /\ Runs("Shutdown")
    /\ ShutdownNow(conn, <<<<"signal", Head(posted)[2]>>>>)
    /\ posted' = Tail(posted)
    /\ UNCHANGED <<threadVars, response_map, mutex, timers>>

\* ~ClientConnectionTCP and ~IClientConnection, in the selector thread, when
\* nobody calls the connection and no closure has its address.
Destroy ==
    /\ SelectorFree /\ posted = <<>> /\ ~conn.deleted
    /\ \A t \in Threads : pc[t].at = "idle"
    /\ ShutsWhileOpening \/ ~conn.opening
    /\ ShutdownNow([conn EXCEPT !.deleted = TRUE], <<>>)
    /\ timers' = {}
    /\ UNCHANGED <<threadVars, response_map, mutex, posted>>

-----------------------------------------------------------------------------
ThreadStep(t) ==
    \/ Send(t) \/ QueryReturns(t) \/ CancelPop(t)
    \/ ClearTimeoutsTimeout(t) \/ CancelAllLocked(t)

Calls(t) ==
    /\ ~conn.deleted
    /\ \/ t \in Callers /\ \E sync \in BOOLEAN : AsyncQuery(t, sync)
       \/ t \in Callers /\ \E x \in Xids : CancelQuery(t, x)
       \/ t \in Closers /\ (CancelAllQueries(t) \/ Shutdown(t))

TurnGoesOn == CompleteQuery \/ CompleteAllQueries \/ RunCallback \/ SignalDone

ClosuresRun ==
    SetTimeouts \/ ClearTimeouts \/ Signal \/ OpenPosted \/ SendPacket \/ ShutdownPosted

Network ==
    \/ ConnectionConnect \/ ConnectionWrite \/ ConnectionClose
    \/ \E good \in BOOLEAN : HandshakeRead(good)
    \/ \E x \in Xids : ConnectionRead(x)

Next ==
    \/ \E t \in Threads : Calls(t) \/ ThreadStep(t)
    \/ TurnGoesOn \/ ClosuresRun \/ Network \/ OpenTimeout \/ Destroy
    \/ \E x \in Xids : NotifyTimeout(x)

\* Threads go on, the selector runs what it has and fires its timeouts.  The
\* mutex is not kept from one who waits for it by those who come and go.
Fairness ==
    /\ \A t \in Threads : WF_vars(ThreadStep(t)) /\ SF_vars(CancelPop(t))
    /\ WF_vars(TurnGoesOn) /\ WF_vars(ClosuresRun) /\ WF_vars(OpenTimeout)
    /\ \A x \in Xids : WF_vars(NotifyTimeout(x))

Spec == Init /\ [][Next]_vars /\ Fairness

-----------------------------------------------------------------------------
\* Whatever answers, times out, breaks or is cancelled first, the callback of a
\* query is run at most once, never if it was deleted, and not after CancelQuery
\* has returned ("The ResultCallback is NOT called, but just deleted"; the wait
\* for the selector thread is what makes the last part true).
CallbackOnce ==
    \A x \in Xids :
       LET left == Cardinality({i \in DOMAIN running : running[i] = <<"run", x>>})
       IN /\ query[x].runs + left + (IF query[x].deleted THEN 1 ELSE 0)
                + (IF x \in response_map THEN 1 ELSE 0) <= 1
          /\ query[x].cancelled => left = 0

\* The CHECKs of the connection: an open ends once, with its callback, before
\* the connection can be shut down; a handshake starts afresh; a connection that
\* is deleted leaves no packet in its queue and no query without an end.
NoCheckFails == ~failed

\* Every call of a thread returns, and every query ends, by an answer, a
\* failure, the timeout or the cancellation, and the open callback is called;
\* though the server may never answer and the connection never be made.
EveryCallEnds ==
    /\ \A t \in Threads : pc[t].at # "idle" ~> pc[t].at = "idle"
    /\ \A x \in Xids : x \in response_map ~> x \notin response_map
    /\ conn.callback ~> ~conn.callback
=============================================================================
