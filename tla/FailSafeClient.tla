---------------------------- MODULE FailSafeClient ----------------------------
(***************************************************************************)
(* http::FailSafeClient: requests spread over several servers, retried     *)
(* when they fail and queued while no server can be reached.               *)
(*                                                                         *)
(* Everything runs in the thread of one event loop.  The callbacks nest:   *)
(* a client that fails completes its requests one after the other, each    *)
(* completion may start its request on another client, which may fail at   *)
(* once and complete it again.  "work" is the stack of what is left to do  *)
(* before the event is over, innermost call first; no event starts while   *)
(* it is not empty.  The clients are http::ClientProtocol (module          *)
(* HttpClient) seen through what they promise: a request that is sent is   *)
(* completed once, by a reply, by its timeout, or because the connection   *)
(* ends; a request sent to a client that still connects is put on the line *)
(* at once.  There is room on the line for every request, and the servers  *)
(* are given by their addresses.                                           *)
(***************************************************************************)
EXTENDS Integers, Sequences, FiniteSets

CONSTANTS Fetches,      \* the requests of the application
          NumServers,   \* servers_.size()
          NumRetries,   \* num_retries_
          Timeout,      \* request_timeout_ms_, in ticks of the clock
          Interval,     \* reopen_connection_interval_ms_, in ticks of the clock
          MaxQueue      \* bound: requests in pending_requests_, for the loop that never ends

ASSUME FailSafeAssumption ==
    /\ NumServers \in Nat \ {0} /\ NumRetries \in Nat
    /\ Timeout \in Nat /\ Interval \in Nat /\ MaxQueue \in Nat

Servers == 1..NumServers

VARIABLES
    link,      \* the connection of each client: fresh, connecting, early (connecting, with
               \* requests put on the line), open, or gone (connection_ is NULL)
    held,      \* the requests each client has not completed
    since,     \* selector_->now() - death_time_[i], counted up to Interval + 1
    age,       \* selector_->now() - start_time_, counted up to Timeout + 1
    retries,   \* retries_left_
    pending,   \* pending_requests_
    old,       \* old_queue, while RequeuePending runs
    work,      \* the calls to be made before the event is over
    started,   \* the requests given to StartRequest
    done,      \* how often completion_closure_ ran
    alarm,     \* requeue_pending_callback_ is registered
    deleted,   \* the destructor has run
    stopped     \* its CHECK_NE stopped the process

failSafeVars == <<link, held, since, age, retries, pending, old, work, started, done, alarm, deleted,
          stopped>>

Tasks == [do : {"complete"}, reqs : SUBSET Fetches]
         \cup [do : {"requeue", "loop", "move"}]

FailSafeTypeOK ==
    /\ link \in [Servers -> {"fresh", "connecting", "early", "open", "gone"}]
    /\ held \in [Servers -> SUBSET Fetches]
    /\ since \in [Servers -> 0..Interval + 1]
    /\ age \in [Fetches -> 0..Timeout + 1]
    /\ retries \in [Fetches -> 0..NumRetries]
    /\ pending \in Seq(Fetches) /\ old \in Seq(Fetches)
    /\ work \in Seq(Tasks)
    /\ started \subseteq Fetches
    /\ done \in [Fetches -> Nat]
    /\ alarm \in BOOLEAN /\ deleted \in BOOLEAN /\ stopped \in BOOLEAN

\* The constructor: death_time_ is 0, long ago.
FailSafeInit ==
    /\ link = [i \in Servers |-> "fresh"] /\ held = [i \in Servers |-> {}]
    /\ since = [i \in Servers |-> Interval + 1]
    /\ age = [r \in Fetches |-> 0] /\ retries = [r \in Fetches |-> NumRetries]
    /\ pending = <<>> /\ old = <<>> /\ work = <<>>
    /\ started = {} /\ done = [r \in Fetches |-> 0]
    /\ alarm = TRUE /\ deleted = FALSE /\ stopped = FALSE

Idle == work = <<>> /\ ~deleted /\ ~stopped
Complete(r) == [do |-> "complete", reqs |-> {r}]
Requeue == [do |-> "requeue"]
Loop == [do |-> "loop"]
MoveAround == [do |-> "move"]

-----------------------------------------------------------------------------
\* InternalStartRequest

\* A request that waited too long or has no retry left is completed.
GiveUp(r, onTrue) ==
    /\ age[r] > Timeout \/ retries[r] <= 0
    /\ done' = [done EXCEPT ![r] = @ + 1]
    /\ work' = onTrue
    /\ UNCHANGED <<link, held, since, retries, pending>>

Live == {i \in Servers : link[i] # "gone"}
\* Clients that died are made anew on the way; this pass does not use them.
Reopened == {i \in Servers : link[i] = "gone" /\ since[i] > Interval}

\* The live client with the fewest requests, the first of these.
LeastLoaded ==
    CHOOSE i \in Live : \A j \in Live :
        \/ Cardinality(held[i]) < Cardinality(held[j])
        \/ Cardinality(held[i]) = Cardinality(held[j]) /\ i <= j

\* No client is alive: the request is queued, and the call returns false.
QueueIt(r, onFalse) ==
    /\ age[r] <= Timeout /\ retries[r] > 0 /\ Live = {}
    /\ pending' = Append(pending, r)
    /\ link' = [i \in Servers |-> IF i \in Reopened THEN "fresh" ELSE link[i]]
    /\ since' = [i \in Servers |-> IF i \in Reopened THEN 0 ELSE since[i]]
    /\ work' = onFalse
    /\ UNCHANGED <<held, retries, done>>

\* The request goes to a client.  The first one a client gets makes it connect,
\* and the completion comes from inside this call when that fails.
SendIt(r, onTrue) ==
    /\ age[r] <= Timeout /\ retries[r] > 0 /\ Live # {}
    /\ retries' = [retries EXCEPT ![r] = @ - 1]
    /\ since' = [i \in Servers |-> IF i \in Reopened THEN 0 ELSE since[i]]
    /\ LET c == LeastLoaded
           now == [i \in Servers |-> IF i \in Reopened THEN "fresh" ELSE link[i]]
       IN \/ /\ held' = [held EXCEPT ![c] = @ \cup {r}]
             /\ link' = [now EXCEPT ![c] = CASE @ = "fresh" -> "connecting"
                                             [] @ = "connecting" -> "early"
                                             [] OTHER -> @]
             /\ work' = onTrue
          \/ /\ link[c] = "fresh"
             /\ link' = [now EXCEPT ![c] = "gone"]
             /\ work' = <<Complete(r)>> \o onTrue
             /\ UNCHANGED held
    /\ UNCHANGED <<pending, done>>

\* InternalStartRequest, with what the caller does next by the value returned.
InternalStartRequest(r, onTrue, onFalse) ==
    \/ GiveUp(r, onTrue)
    \/ QueueIt(r, onFalse)
    \/ SendIt(r, onTrue)

-----------------------------------------------------------------------------
\* Calls and events

\* StartRequest
StartRequest(r) ==
    /\ Idle /\ r \notin started
    /\ started' = started \cup {r}
    /\ InternalStartRequest(r, <<Requeue>>, <<>>)
    /\ UNCHANGED <<age, old, alarm, deleted, stopped>>

\* CompletionCallback with an error: the request is started again.
CompletionCallback ==
    /\ work # <<>> /\ Head(work).do = "complete"
    /\ \E r \in Head(work).reqs :
          LET others == Head(work).reqs \ {r}
              rest == (IF others = {} THEN <<>> ELSE <<[do |-> "complete", reqs |-> others]>>)
                      \o Tail(work)
          IN InternalStartRequest(r, rest, rest)
    /\ UNCHANGED <<age, old, started, alarm, deleted, stopped>>

\* RequeuePending: the queue is taken aside.
RequeuePending ==
    /\ work # <<>> /\ Head(work).do = "requeue"
    /\ old' = pending /\ pending' = <<>>
    /\ work' = (IF pending = <<>> THEN <<>> ELSE <<Loop>>) \o Tail(work)
    /\ UNCHANGED <<link, held, since, age, retries, started, done, alarm, deleted, stopped>>

\* Each request of the old queue is started; when one is queued again the others
\* are to be moved to the new queue.
RequeueLoop ==
    /\ work # <<>> /\ Head(work).do = "loop"
    /\ \/ /\ old = <<>> /\ work' = Tail(work)
          /\ UNCHANGED <<link, held, since, retries, pending, old, done>>
       \/ /\ old # <<>> /\ old' = Tail(old)
          /\ InternalStartRequest(Head(old), work, <<MoveAround>> \o Tail(work))
    /\ UNCHANGED <<age, started, alarm, deleted, stopped>>

\* The inner loop of RequeuePending looks at the front of the old queue and does
\* not pop it: the request is completed and deleted, or pushed on the new queue,
\* and the next round finds it again.  The fields of a deleted one may hold
\* anything, so either branch may take it.  The clock stands still meanwhile.
MoveOthers ==
    /\ work # <<>> /\ Head(work).do = "move"
    /\ \/ /\ old = <<>> /\ work' = Tail(work)
          /\ UNCHANGED <<pending, done>>
       \/ /\ old # <<>> /\ (age[Head(old)] > Timeout \/ done[Head(old)] > 0)
          /\ done[Head(old)] < 2
          /\ done' = [done EXCEPT ![Head(old)] = @ + 1]
          /\ UNCHANGED <<pending, work>>
       \/ /\ old # <<>> /\ (age[Head(old)] <= Timeout \/ done[Head(old)] > 0)
          /\ Len(pending) < MaxQueue
          /\ pending' = Append(pending, Head(old))
          /\ UNCHANGED <<done, work>>
    /\ UNCHANGED <<link, held, since, age, retries, old, started, alarm, deleted, stopped>>

\* Mutant: the alarm is not registered again.
RequeueAlarmOnce ==
    /\ Idle /\ alarm
    /\ alarm' = FALSE /\ work' = <<Requeue>>
    /\ UNCHANGED <<link, held, since, age, retries, pending, old, started, done, deleted, stopped>>

\* RequeuePendingAlarm registers its alarm again.
RequeuePendingAlarm ==
    /\ Idle /\ alarm
    /\ alarm' = TRUE /\ work' = <<Requeue>>
    /\ UNCHANGED <<link, held, since, age, retries, pending, old, started, done, deleted, stopped>>

\* A reply completes a request with CONN_OK.
ClientReplies(i, r) ==
    /\ Idle /\ r \in held[i] /\ link[i] = "open"
    /\ held' = [held EXCEPT ![i] = @ \ {r}]
    /\ done' = [done EXCEPT ![r] = @ + 1]
    /\ UNCHANGED <<link, since, age, retries, pending, old, work, started, alarm, deleted, stopped>>

\* The connection of a client is made; the request that waited for it is written.
ClientConnects(i) ==
    /\ Idle /\ link[i] \in {"connecting", "early"}
    /\ link' = [link EXCEPT ![i] = "open"]
    /\ UNCHANGED <<held, since, age, retries, pending, old, work, started, done, alarm, deleted,
                   stopped>>

\* A request of a client times out, on the line and not before; the connection stays.
ClientTimesOut(i, r) ==
    /\ Idle /\ r \in held[i] /\ link[i] # "connecting"
    /\ held' = [held EXCEPT ![i] = @ \ {r}]
    /\ work' = <<Complete(r)>>
    /\ UNCHANGED <<link, since, age, retries, pending, old, started, done, alarm, deleted, stopped>>

\* The connection of a client ends, with all the requests on it.
ClientCloses(i) ==
    /\ Idle /\ link[i] \in {"connecting", "early", "open"}
    /\ link' = [link EXCEPT ![i] = "gone"]
    /\ held' = [held EXCEPT ![i] = {}]
    /\ work' = IF held[i] = {} THEN <<>> ELSE <<[do |-> "complete", reqs |-> held[i]]>>
    /\ UNCHANGED <<since, age, retries, pending, old, started, done, alarm, deleted, stopped>>

\* The clients' requests, then the queued ones, are completed.
Destroyed(alsoPending) ==
    /\ Idle /\ \A i \in Servers : link[i] = "early" => held[i] = {}
    /\ done' = [r \in Fetches |->
                  IF \/ \E i \in Servers : r \in held[i]
                     \/ alsoPending /\ \E k \in DOMAIN pending : pending[k] = r
                  THEN done[r] + 1 ELSE done[r]]
    /\ held' = [i \in Servers |-> {}] /\ link' = [i \in Servers |-> "gone"]
    /\ pending' = <<>> /\ alarm' = FALSE /\ deleted' = TRUE
    /\ UNCHANGED <<since, age, retries, old, work, started, stopped>>

\* Mutant: the queue is deleted with what is in it.
DestroyForgetsPending == Destroyed(FALSE)

\* ~FailSafeClient
Destroy == Destroyed(TRUE)

\* ResolveAllRequestsWithError wants to know why the requests on the line fail, and
\* a client that still connects has no error yet: the CHECK_NE fails.
DestroyFails ==
    /\ Idle /\ \E i \in Servers : link[i] = "early" /\ held[i] # {}
    /\ stopped' = TRUE
    /\ UNCHANGED <<link, held, since, age, retries, pending, old, work, started, done, alarm, deleted>>

\* selector_->now() moves between two events.
Tick ==
    /\ Idle
    /\ age' = [r \in Fetches |-> IF r \in started /\ done[r] = 0 /\ age[r] <= Timeout
                                  THEN age[r] + 1 ELSE age[r]]
    /\ since' = [i \in Servers |-> IF since[i] <= Interval THEN since[i] + 1 ELSE since[i]]
    /\ <<age, since>>' # <<age, since>>
    /\ UNCHANGED <<link, held, retries, pending, old, work, started, done, alarm, deleted, stopped>>

Run == CompletionCallback \/ RequeuePending \/ RequeueLoop \/ MoveOthers

FailSafeNext ==
    \/ \E r \in Fetches : StartRequest(r)
    \/ CompletionCallback
    \/ RequeuePending
    \/ RequeueLoop
    \/ MoveOthers
    \/ RequeuePendingAlarm
    \/ \E i \in Servers, r \in Fetches : ClientReplies(i, r) \/ ClientTimesOut(i, r)
    \/ \E i \in Servers : ClientConnects(i) \/ ClientCloses(i)
    \/ Destroy
    \/ DestroyFails
    \/ Tick

\* A connection is made or given up, by the connect timeout of its client.
ConnectEnds ==
    \E i \in Servers : ClientConnects(i) \/ (link[i] \in {"connecting", "early"} /\ ClientCloses(i))

\* A request on the line ends, by its timeout at the latest (HttpClient!ActiveEnds).
RequestEnds == \E i \in Servers, r \in Fetches : ClientReplies(i, r) \/ ClientTimesOut(i, r)

\* An event runs to its end, time passes, the alarm fires, and the clients'
\* timeouts do.  No event keeps the loop from the others for ever, though each
\* is off while one runs.
FailSafeFairness ==
    /\ WF_failSafeVars(Run)
    /\ SF_failSafeVars(Tick)
    /\ SF_failSafeVars(RequeuePendingAlarm)
    /\ SF_failSafeVars(ConnectEnds)
    /\ SF_failSafeVars(RequestEnds)

FailSafeSpec == FailSafeInit /\ [][FailSafeNext]_failSafeVars /\ FailSafeFairness

-----------------------------------------------------------------------------
Places(r) ==
    Cardinality({i \in Servers : r \in held[i]})
    + Cardinality({k \in DOMAIN pending : pending[k] = r})
    + Cardinality({k \in DOMAIN old : old[k] = r})
    + Cardinality({k \in DOMAIN work : work[k].do = "complete" /\ r \in work[k].reqs})

\* RequeuePending goes round for ever: the old queue is not empty and is not popped.
Spinning == work # <<>> /\ Head(work).do = "move" /\ old # <<>>

\* A request given to StartRequest is in one place until its completion closure
\* has run, and never after: one client, a queue, or a callback about to run.
\* The closure runs once, and the destructor leaves no request behind.  The one
\* that RequeuePending goes round with for ever is the exception.
OnePlace ==
    /\ \A r \in Fetches : \/ done[r] + Places(r) = (IF r \in started THEN 1 ELSE 0)
                          \/ Spinning /\ r = Head(old)
    /\ deleted => \A r \in started : done[r] = 1

\* "In case of a failure the request is tried w/ another server until successful
\* fetch is performed [...] or until the retry count goes to zero"
\* (failsafe_http_client.h): every request ends, at its timeout at the latest,
\* whatever the servers do and however the queue is gone through, unless
\* RequeuePending goes round for ever or the destructor's CHECK fails.
EveryRequestEnds ==
    \A r \in Fetches : (r \in started) ~> (done[r] = 1 \/ Spinning \/ stopped)

\* "This means that it ended in queueing .. just move around .."
\* (failsafe_http_client.cc): requests that cannot be sent are moved to the new
\* queue and the event loop goes on.
RequeueReturns == ~Spinning
=============================================================================
