----------------------------- MODULE DnsResolver -----------------------------
(***************************************************************************)
(* DnsResolver (net/base/dns_resolver.cc): one solver thread, fed through  *)
(* a limited queue; event loops that ask and cancel.  mutex_ guards        *)
(* query_map_ and cache_, and is held while Resolve() waits for a place in *)
(* the queue.  Blocking in the queue is a disabled action here (see        *)
(* ProducerConsumerQueue); RunInSelectLoop is the FIFO that Selector       *)
(* provides.  A Query is named by the number of its allocation.            *)
(***************************************************************************)
EXTENDS Naturals, Sequences, FiniteSets

CONSTANTS
    Loops,               \* event loop threads
    Handlers,            \* result handlers, one per connection
    LoopOf,              \* handler -> the loop of its connection
    Hosts,
    None,
    kQueryQueueMaxSize,
    MaxCalls,            \* bound: calls of Resolve
    ReusesEarly          \* does a handler ask again while an answer to its
                         \* former query is still posted?

ASSUME DnsAssumption ==
    /\ LoopOf \in [Handlers -> Loops]
    /\ None \notin Loops \cup Handlers \cup Hosts
    /\ kQueryQueueMaxSize \in Nat \ {0}
    /\ MaxCalls \in Nat
    /\ ReusesEarly \in BOOLEAN

VARIABLES
    query_queue_,   \* Seq of queries; 0 is the NULL query, the exit signal
    query_map_,     \* handler -> query
    query,          \* query -> [handler, host]; handler None when cancelled
    live,           \* queries allocated and not deleted
    corrupted,      \* has a Cancel written into a deleted query?
    calls,          \* number of calls of Resolve
    cache_,         \* hosts with a result in the cache
    mutex_,         \* None, or the loop that holds it inside Resolve
    in,             \* loop -> where it is inside Resolve
    solver,         \* where the solver thread is
    cur,            \* the query it works on
    thread_,        \* is thread_ set?
    to_run,         \* loop -> answers posted and not yet run
    asked           \* handler -> waits for a result (connection RESOLVING)

dataVars   == <<query_queue_, query_map_, query, live, corrupted, cache_, mutex_>>
solverVars == <<solver, cur>>
clientVars == <<calls, in, asked>>
vars == <<dataVars, solverVars, clientVars, thread_, to_run>>

Queries == 1..MaxCalls
Outside == [at |-> "out", handler |-> None, host |-> None, query |-> 0]

TypeOK ==
    /\ query_queue_ \in Seq(0..MaxCalls)
    /\ Len(query_queue_) <= kQueryQueueMaxSize
    /\ DOMAIN query_map_ \subseteq Handlers
    /\ \A h \in DOMAIN query_map_ : query_map_[h] \in Queries
    /\ query \in [Queries -> [handler : Handlers \cup {None}, host : Hosts \cup {None}]]
    /\ live \subseteq Queries
    /\ corrupted \in BOOLEAN
    /\ calls \in 0..MaxCalls
    /\ cache_ \subseteq Hosts
    /\ mutex_ \in Loops \cup {None}
    /\ in \in [Loops -> [at : {"out", "lock", "put", "map"}, handler : Handlers \cup {None},
                         host : Hosts \cup {None}, query : 0..MaxCalls]]
    /\ solver \in {"get", "check", "resolve", "deliver", "stopped"}
    /\ cur \in 0..MaxCalls
    /\ thread_ \in BOOLEAN
    /\ to_run \in [Loops -> Seq(Handlers)]
    /\ asked \in [Handlers -> BOOLEAN]

\* DnsInit: the resolver is started before anything is resolved.
Init ==
    /\ query_queue_ = <<>>
    /\ query_map_ = [h \in {} |-> 0]
    /\ query = [q \in Queries |-> [handler |-> None, host |-> None]]
    /\ live = {}
    /\ corrupted = FALSE
    /\ calls = 0
    /\ cache_ = {}
    /\ mutex_ = None
    /\ in = [l \in Loops |-> Outside]
    /\ solver = "get"
    /\ cur = 0
    /\ thread_ = TRUE
    /\ to_run = [l \in Loops |-> <<>>]
    /\ asked = [h \in Handlers |-> FALSE]

Idle(l) == in[l] = Outside
IsFull == Len(query_queue_) >= kQueryQueueMaxSize

\* Answers that wait for handler h.
Posted(h) == Cardinality({k \in 1..Len(to_run[LoopOf[h]]) : to_run[LoopOf[h]][k] = h})

\* Return: the answer goes to the handler's selector.
Return(h) == to_run' = [to_run EXCEPT ![LoopOf[h]] = Append(@, h)]

-----------------------------------------------------------------------------
(* Resolve *)

\* The queue is looked at before the mutex is taken.
Resolve(h, host) ==
    /\ thread_
    /\ Idle(LoopOf[h])
    /\ ~asked[h]
    /\ ReusesEarly \/ Posted(h) = 0
    /\ calls < MaxCalls
    /\ calls' = calls + 1
    /\ asked' = [asked EXCEPT ![h] = TRUE]
    /\ IF IsFull
         THEN Return(h) /\ UNCHANGED in
         ELSE /\ in' = [in EXCEPT ![LoopOf[h]] =
                          [at |-> "lock", handler |-> h, host |-> host, query |-> calls + 1]]
              /\ UNCHANGED to_run
    /\ UNCHANGED <<dataVars, solverVars, thread_>>

CacheHit(l) ==
    /\ in[l].at = "lock"
    /\ mutex_ = None
    /\ in[l].host \in cache_
    /\ Return(in[l].handler)
    /\ in' = [in EXCEPT ![l] = Outside]
    /\ UNCHANGED <<dataVars, solverVars, thread_, calls, asked>>

CacheMiss(l) ==
    LET q == in[l].query
    IN  /\ in[l].at = "lock"
        /\ mutex_ = None
        /\ in[l].host \notin cache_
        /\ mutex_' = l
        /\ query' = [query EXCEPT ![q] = [handler |-> in[l].handler, host |-> in[l].host]]
        /\ live' = live \cup {q}
        /\ in' = [in EXCEPT ![l].at = "put"]
        /\ UNCHANGED <<query_queue_, query_map_, corrupted, cache_, solverVars, thread_, calls,
                       asked, to_run>>

PutQuery(l) ==
    /\ in[l].at = "put"
    /\ ~IsFull
    /\ query_queue_' = Append(query_queue_, in[l].query)
    /\ in' = [in EXCEPT ![l].at = "map"]
    /\ UNCHANGED <<query_map_, query, live, corrupted, cache_, mutex_, solverVars, thread_, calls,
                   asked, to_run>>

MapQuery(l) ==
    /\ in[l].at = "map"
    /\ query_map_' = [h \in DOMAIN query_map_ \cup {in[l].handler} |->
                        IF h = in[l].handler THEN in[l].query ELSE query_map_[h]]
    /\ mutex_' = None
    /\ in' = [in EXCEPT ![l] = Outside]
    /\ UNCHANGED <<query_queue_, query, live, corrupted, cache_, solverVars, thread_, calls, asked,
                   to_run>>

-----------------------------------------------------------------------------
(* Cancel *)

\* Mutant of Cancel: the query is deleted at once.
CancelDeletes(h) ==
    /\ Idle(LoopOf[h])
    /\ mutex_ = None
    /\ asked[h]
    /\ asked' = [asked EXCEPT ![h] = FALSE]
    /\ live' = live \ {query_map_[g] : g \in DOMAIN query_map_ \cap {h}}
    /\ UNCHANGED <<query_queue_, query_map_, query, corrupted, cache_, mutex_, solverVars, thread_,
                   calls, in, to_run>>

\* The entry of h leads to a deleted query: the solver found the query cancelled
\* and deleted it, and nothing took the entry out.
StaleEntry(h) == h \in DOMAIN query_map_ /\ query_map_[h] \notin live

\* The query is marked, and its entry stays.  Through a stale entry the mark is
\* written into freed memory: into no query, or into one that was allocated
\* there (any, whatever its age).  TcpConnection::InternalClose always calls
\* Cancel, so a connection closed again after a cancelled query gets there.
Cancel(h) ==
    /\ Idle(LoopOf[h])
    /\ mutex_ = None
    /\ asked' = [asked EXCEPT ![h] = FALSE]
    /\ \/ /\ h \notin DOMAIN query_map_
          /\ UNCHANGED <<query, corrupted>>
       \/ /\ h \in DOMAIN query_map_ /\ ~StaleEntry(h)
          /\ query' = [query EXCEPT ![query_map_[h]].handler = None]
          /\ UNCHANGED corrupted
       \/ /\ StaleEntry(h)
          /\ corrupted' = TRUE
          /\ \/ UNCHANGED query
             \/ \E q \in live : query' = [query EXCEPT ![q].handler = None]
    /\ UNCHANGED <<query_queue_, query_map_, live, cache_, mutex_, solverVars, thread_, calls,
                   in, to_run>>

\* The loop runs a posted answer: handler->Run(info).
RunAnswer(l) ==
    /\ Idle(l)
    /\ to_run[l] # <<>>
    /\ asked' = [asked EXCEPT ![Head(to_run[l])] = FALSE]
    /\ to_run' = [to_run EXCEPT ![l] = Tail(@)]
    /\ UNCHANGED <<dataVars, solverVars, thread_, calls, in>>

-----------------------------------------------------------------------------
(* The solver thread: Run *)

SolverGet ==
    /\ solver = "get"
    /\ query_queue_ # <<>>
    /\ cur' = Head(query_queue_)
    /\ query_queue_' = Tail(query_queue_)
    /\ solver' = IF cur' = 0 THEN "stopped" ELSE "check"
    /\ UNCHANGED <<query_map_, query, live, corrupted, cache_, mutex_, clientVars, thread_, to_run>>

\* result_handler_ is read without the mutex.
SolverCheck ==
    /\ solver = "check"
    /\ IF query[cur].handler = None
         THEN live' = live \ {cur} /\ solver' = "get"
         ELSE solver' = "resolve" /\ UNCHANGED live
    /\ UNCHANGED <<cur, query_queue_, query_map_, query, corrupted, cache_, mutex_, clientVars,
                   thread_, to_run>>

\* DnsBlockingResolve returns.
Resolved ==
    /\ solver = "resolve"
    /\ solver' = "deliver"
    /\ UNCHANGED <<cur, dataVars, clientVars, thread_, to_run>>

\* Mutant of SolverDeliver: result_handler_ is not looked at again.
SolverDeliverUnchecked(found) ==
    /\ solver = "deliver"
    /\ mutex_ = None
    /\ \E h \in Handlers :
         /\ query[cur].handler \in {h, None}
         /\ query_map_' = [g \in DOMAIN query_map_ \ {h} |-> query_map_[g]]
         /\ Return(h)
    /\ live' = live \ {cur}
    /\ solver' = "get"
    /\ UNCHANGED <<cur, cache_, query_queue_, query, corrupted, mutex_, clientVars, thread_>>

\* Mutant of SolverDeliver: a host that is not found is not answered.
SolverDeliverIfFound(found) ==
    /\ solver = "deliver"
    /\ mutex_ = None
    /\ IF found /\ query[cur].handler # None
         THEN /\ query_map_' = [h \in DOMAIN query_map_ \ {query[cur].handler} |-> query_map_[h]]
              /\ Return(query[cur].handler)
         ELSE UNCHANGED <<query_map_, to_run>>
    /\ live' = live \ {cur}
    /\ solver' = "get"
    /\ UNCHANGED <<cur, cache_, query_queue_, query, corrupted, mutex_, clientVars, thread_>>

\* The result goes to the cache (a NULL one is a later miss) and, unless the
\* query was cancelled meanwhile, to its handler.
SolverDeliver(found) ==
    /\ solver = "deliver"
    /\ mutex_ = None
    /\ cache_' = IF found THEN cache_ \cup {query[cur].host} ELSE cache_ \ {query[cur].host}
    /\ IF query[cur].handler # None
         THEN /\ query_map_' = [h \in DOMAIN query_map_ \ {query[cur].handler} |-> query_map_[h]]
              /\ Return(query[cur].handler)
         ELSE UNCHANGED <<query_map_, to_run>>
    /\ live' = live \ {cur}
    /\ solver' = "get"
    /\ UNCHANGED <<cur, query_queue_, query, corrupted, mutex_, clientVars, thread_>>

-----------------------------------------------------------------------------

\* An entry leaves the cache: it expired or others pushed it out.
Expire(host) ==
    /\ mutex_ = None
    /\ host \in cache_
    /\ cache_' = cache_ \ {host}
    /\ UNCHANGED <<query_queue_, query_map_, query, live, corrupted, mutex_, solverVars, clientVars,
                   thread_, to_run>>

\* Stop, at the end of the process: no loop is inside Resolve any more.
Stop ==
    /\ thread_
    /\ \A l \in Loops : Idle(l)
    /\ ~IsFull
    /\ query_queue_' = Append(query_queue_, 0)
    /\ thread_' = FALSE
    /\ UNCHANGED <<query_map_, query, live, corrupted, cache_, mutex_, solverVars, clientVars, to_run>>

LoopStep(l) == CacheHit(l) \/ CacheMiss(l) \/ PutQuery(l) \/ MapQuery(l) \/ RunAnswer(l)

SolverStep ==
    \/ SolverGet
    \/ SolverCheck
    \/ Resolved
    \/ \E found \in BOOLEAN : SolverDeliver(found)

Next ==
    \/ \E h \in Handlers, host \in Hosts : Resolve(h, host)
    \/ \E h \in Handlers : Cancel(h)
    \/ \E l \in Loops : LoopStep(l)
    \/ SolverStep
    \/ \E host \in Hosts : Expire(host)
    \/ Stop

\* The threads are scheduled, and a blocking resolve returns (it has its own
\* timeout).
Fairness == WF_vars(SolverStep) /\ \A l \in Loops : WF_vars(LoopStep(l))

Spec == Init /\ [][Next]_vars
FairSpec == Spec /\ Fairness

-----------------------------------------------------------------------------
(* Properties *)

\* Queries handed to the solver that it has not finished with.
Queued == {q \in live : \A l \in Loops : in[l].at = "put" => in[l].query # q}

\* Until its result is posted, a query that was not cancelled can be found by
\* Cancel: query_map_ leads from its handler to it, or Resolve is about to
\* enter it and still has the mutex (dns_resolver.cc:126-127, 165).
CancelFinds(q) ==
    LET h == query[q].handler
    IN  h # None =>
          \/ h \in DOMAIN query_map_ /\ query_map_[h] = q
          \/ \E l \in Loops : in[l].at = "map" /\ in[l].query = q /\ mutex_ = l

\* The solver never works on a deleted query, two queries of the queue are never
\* the same object, Cancel finds each one that may still be delivered, and Stop
\* leaves none behind.  An entry of query_map_ may outlive its query only when
\* the query was cancelled, so that it takes a second Cancel (and there is one in
\* every InternalClose) to write into a deleted query at dns_resolver.cc:135.
QueriesAlive ==
    /\ \A q \in Queued : CancelFinds(q)
    /\ solver \in {"check", "resolve", "deliver"} => cur \in live
    /\ \A i \in 1..Len(query_queue_) :
         /\ query_queue_[i] \in live \cup {0}
         /\ \A j \in 1..Len(query_queue_) : query_queue_[i] = query_queue_[j] => i = j
    /\ solver = "stopped" => query_queue_ = <<>> /\ live = {}
    /\ \A h \in Handlers : StaleEntry(h) => query[query_map_[h]].handler = None

-----------------------------------------------------------------------------
(* The resolver implements DnsService, up to two faults of the code: a write   *)
(* into a deleted query may cancel somebody else's (corrupted), and a loop     *)
(* that waits for a place in the queue keeps the mutex that the solver needs   *)
(* before it takes the next query (Deadlocked).                               *)

Pending(h) ==
    \/ \E q \in live : query[q].handler = h
    \/ \E l \in Loops : in[l].handler = h

\* A handler that asked and did not cancel has its answer on the way
\* (dns_resolver.h:49 "DnsResolve(..) // start a DNS query either: - your result
\* callback is called with the resolved query - Or you call DnsCancel(..)"), as
\* long as no Cancel has written into a deleted query.
NobodyForgotten ==
    corrupted \/ \A h \in Handlers : asked[h] => Pending(h) \/ Posted(h) > 0

\* dns_resolver.cc:126: Put waits with mutex_ held, dns_resolver.cc:159: the
\* solver waits for mutex_, and nobody else takes a query.
Deadlocked ==
    /\ solver = "deliver"
    /\ IsFull
    /\ \E l \in Loops : in[l].at = "put" /\ mutex_ = l

Service == INSTANCE DnsService WITH
    pending <- [h \in Handlers |-> Pending(h)],
    posted  <- [h \in Handlers |-> Posted(h)]

\* Every step of the resolver is a step of the service, and but for the deadlock
\* it is as live: a query that is not cancelled is answered, once, and the answer
\* is run.  The service does not say who cancels: a query cancelled through the
\* stale entry of another handler is what NobodyForgotten looks at.
ImplementsService ==
    /\ Service!Init
    /\ [][Service!Next]_(Service!serviceVars)
    /\ \A h \in Handlers : <>[]Deadlocked \/ Service!FairTo(h)
=============================================================================
