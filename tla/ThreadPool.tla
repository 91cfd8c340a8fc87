----------------------------- MODULE ThreadPool -----------------------------
(***************************************************************************)
(* thread::ThreadPool (common/sync/thread_pool.cc) on top of its           *)
(* ProducerConsumerQueue jobs_.  Workers run ThreadRun; one thread, the    *)
(* owner, calls Start() and Stop(); producers put jobs through jobs().     *)
(* NULL is the job that tells a worker to end: it is put back for the next *)
(* one.                                                                    *)
(***************************************************************************)
EXTENDS ProducerConsumerQueue

CONSTANTS
    Workers,
    Producers,
    Owner,
    PutsDuringStop   \* do producers put jobs while Stop() is at work?

ASSUME PoolAssumption ==
    /\ Threads = Workers \cup Producers \cup {Owner}
    /\ Owner \notin Workers \cup Producers
    /\ Workers \cap Producers = {}
    /\ Workers # {}
    /\ max_size_ > Cardinality(Workers)
    /\ PutsDuringStop \in BOOLEAN

VARIABLES
    pc,       \* worker or owner -> where it is
    cancel,   \* history: has some Stop been asked to cancel?
    hand,     \* producer -> the job it is putting
    given,    \* history: jobs handed to jobs()
    run,      \* history: job -> how many times it was run
    deleted   \* history: jobs Stop(true) took out and deleted

vars == <<queueVars, pc, cancel, hand, given, run, deleted>>
history == <<hand, given, run, deleted>>

WorkerPCs == {"unborn", "loop", "get", "reput", "exited"}
OwnerPCs  == {"new", "started", "cancelling", "put_null", "joining", "last_job", "is_empty",
              "stopped", "aborted"}

PoolTypeOK ==
    /\ QueueTypeOK
    /\ pc \in [Workers \cup {Owner} -> WorkerPCs \cup OwnerPCs]
    /\ \A w \in Workers : pc[w] \in WorkerPCs
    /\ pc[Owner] \in OwnerPCs
    /\ cancel \in BOOLEAN
    /\ hand \in [Producers -> Items \cup {None}]
    /\ given \subseteq Items
    /\ run \in [Items -> Nat]
    /\ deleted \subseteq Items

Init ==
    /\ QueueInit
    /\ pc = [t \in Workers \cup {Owner} |-> IF t = Owner THEN "new" ELSE "unborn"]
    /\ cancel = FALSE
    /\ hand = [p \in Producers |-> None]
    /\ given = {}
    /\ run = [j \in Items |-> 0]
    /\ deleted = {}

GoTo(t, where) == pc' = [pc EXCEPT ![t] = where]

Stopping == pc[Owner] \in {"cancelling", "put_null", "joining", "last_job", "is_empty"}

\* Producers keep to the time between Start and Stop, unless PutsDuringStop.
MayPut == pc[Owner] \in {"new", "started"} \/ (Stopping /\ PutsDuringStop)

-----------------------------------------------------------------------------
(* Producers: jobs()->Put(job).  A job whose timed Put failed stays with the
   producer, who may try again. *)

PutJob(p, j, w) ==
    /\ MayPut
    /\ hand[p] = None
    /\ j \notin given
    /\ Call(p, PutCall(j, w))
    /\ hand' = [hand EXCEPT ![p] = j]
    /\ given' = given \cup {j}
    /\ UNCHANGED <<pc, cancel, run, deleted>>

PutReturned(p) ==
    /\ hand[p] # None
    /\ Idle(p)
    /\ hand' = [hand EXCEPT ![p] = None]
    /\ given' = IF ret[p] THEN given ELSE given \ {hand[p]}
    /\ UNCHANGED <<queueVars, pc, cancel, run, deleted>>

-----------------------------------------------------------------------------
(* ThreadRun *)

GetJob(w) ==
    /\ pc[w] = "loop"
    /\ Call(w, GetCall("forever"))
    /\ GoTo(w, "get")
    /\ UNCHANGED <<cancel, history>>

\* callback->Run()
RunJob(w) ==
    /\ pc[w] = "get"
    /\ Idle(w)
    /\ ret[w] \in Items
    /\ run' = [run EXCEPT ![ret[w]] = @ + 1]
    /\ GoTo(w, "loop")
    /\ UNCHANGED <<queueVars, cancel, hand, given, deleted>>

\* Mutant of PutNullBack: the worker keeps the NULL job.
KeepNull(w) ==
    /\ pc[w] = "get"
    /\ Idle(w)
    /\ ret[w] = NULL
    /\ GoTo(w, "exited")
    /\ UNCHANGED <<queueVars, cancel, history>>

\* The NULL job: put it back for the next worker and end.
PutNullBack(w) ==
    /\ pc[w] = "get"
    /\ Idle(w)
    /\ ret[w] = NULL
    /\ Call(w, PutCall(NULL, "forever"))
    /\ GoTo(w, "reput")
    /\ UNCHANGED <<cancel, history>>

ThreadEnds(w) ==
    /\ pc[w] = "reput"
    /\ Idle(w)
    /\ GoTo(w, "exited")
    /\ UNCHANGED <<queueVars, cancel, history>>

-----------------------------------------------------------------------------
(* Start, Stop *)

\* CHECK(threads_[0] == NULL): a pool that was stopped may be started again.
Start ==
    /\ pc[Owner] \in {"new", "stopped"}
    /\ pc' = [t \in Workers \cup {Owner} |-> IF t = Owner THEN "started" ELSE "loop"]
    /\ UNCHANGED <<queueVars, cancel, history>>

\* The queue of a pool that is stopped at once is drained first when pending
\* jobs are to be cancelled; producers are done, unless PutsDuringStop.
Stop(cancel_pending) ==
    /\ pc[Owner] = "started"
    /\ PutsDuringStop \/ \A p \in Producers : hand[p] = None
    /\ cancel' = (cancel \/ cancel_pending)
    /\ IF cancel_pending
         THEN Call(Owner, GetCall("no")) /\ GoTo(Owner, "cancelling")
         ELSE Call(Owner, PutCall(NULL, "forever")) /\ GoTo(Owner, "put_null")
    /\ UNCHANGED history

\* while ( true ) { jobs_.Get(0) ... delete callback }
CancelNext ==
    /\ pc[Owner] = "cancelling"
    /\ Idle(Owner)
    /\ IF ret[Owner] = NULL
         THEN /\ Call(Owner, PutCall(NULL, "forever"))
              /\ GoTo(Owner, "put_null")
              /\ UNCHANGED history
         ELSE /\ Call(Owner, GetCall("no"))
              /\ deleted' = deleted \cup {ret[Owner]}
              /\ UNCHANGED <<pc, hand, given, run>>
    /\ UNCHANGED cancel

NullPut ==
    /\ pc[Owner] = "put_null"
    /\ Idle(Owner)
    /\ GoTo(Owner, "joining")
    /\ UNCHANGED <<queueVars, cancel, history>>

\* Mutant of JoinAll: the last job is looked at before the workers ended.
NoJoin ==
    /\ pc[Owner] = "joining"
    /\ Call(Owner, GetCall("no"))
    /\ GoTo(Owner, "last_job")
    /\ UNCHANGED <<cancel, history>>

JoinAll ==
    /\ pc[Owner] = "joining"
    /\ \A w \in Workers : pc[w] = "exited"
    /\ Call(Owner, GetCall("no"))
    /\ GoTo(Owner, "last_job")
    /\ UNCHANGED <<cancel, history>>

\* CHECK_NULL(last_job)
CheckLastJob ==
    /\ pc[Owner] = "last_job"
    /\ Idle(Owner)
    /\ GoTo(Owner, IF ret[Owner] = NULL THEN "is_empty" ELSE "aborted")
    /\ UNCHANGED <<queueVars, cancel, history>>

\* CHECK(jobs_.IsEmpty())
CheckEmpty ==
    /\ pc[Owner] = "is_empty"
    /\ GoTo(Owner, IF IsEmpty THEN "stopped" ELSE "aborted")
    /\ UNCHANGED <<queueVars, cancel, history>>

-----------------------------------------------------------------------------

QueueStep(t) == (Turn(t) \/ Timeout(t)) /\ UNCHANGED <<pc, cancel, history>>

\* A sleeper wakes up although nobody signalled it: the while loops around Wait.
SpuriousWakeUp(t) == WakeUp(t) /\ UNCHANGED <<pc, cancel, history>>

WorkerStep(w) == GetJob(w) \/ RunJob(w) \/ PutNullBack(w) \/ ThreadEnds(w)

OwnerStep == CancelNext \/ NullPut \/ JoinAll \/ CheckLastJob \/ CheckEmpty

Next ==
    \/ Start
    \/ \E c \in BOOLEAN : Stop(c)
    \/ \E p \in Producers, j \in Items, w \in Waits : PutJob(p, j, w)
    \/ \E p \in Producers : PutReturned(p)
    \/ \E w \in Workers : WorkerStep(w)
    \/ OwnerStep
    \/ \E t \in Threads : QueueStep(t)
    \/ \E t \in Threads : SpuriousWakeUp(t)

\* Threads are scheduled and get the mutex; jobs return; timeouts elapse.
\* Nobody counts on a spurious wake-up.
Fairness ==
    /\ \A t \in Threads : WF_vars(QueueStep(t))
    /\ \A w \in Workers : WF_vars(WorkerStep(w))
    /\ WF_vars(OwnerStep)

Spec == Init /\ [][Next]_vars
FairSpec == Spec /\ Fairness

-----------------------------------------------------------------------------
(* Properties *)

\* A job handed over is run at most once, and not both run and deleted; when
\* Stop has returned each was run, or deleted if some Stop was asked to cancel,
\* and nothing is left: CHECK_NULL(last_job) and CHECK(jobs_.IsEmpty()) at its end
\* hold, because the one NULL job went through every worker.
RunOrDeletedOnce ==
    /\ pc[Owner] # "aborted"
    /\ \A j \in Items : run[j] + (IF j \in deleted THEN 1 ELSE 0) <= 1
    /\ pc[Owner] = "stopped" =>
         \A j \in given : run[j] = 1 \/ (cancel /\ j \in deleted)

\* thread_pool.h:46 "Stops all threads (as soon as they are idle)": Stop
\* returns.
StopReturns == Stopping ~> pc[Owner] = "stopped"
=============================================================================
