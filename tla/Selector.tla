------------------------------ MODULE Selector ------------------------------
(***************************************************************************)
(* net::Selector (whisperlib/net/base/selector.cc): the event loop every   *)
(* networking part of the server runs in.  The module has the closure      *)
(* queue to_run_ with its wake-up descriptor, the alarms with their two    *)
(* indexes, the cached time now_ and the shutdown of Loop().  The          *)
(* registered descriptors are modelled in SelectorBase.                    *)
(*                                                                         *)
(* Threads: the loop thread (program counter pc) and a set of Posters that *)
(* call RunInSelectLoop from outside.  The program's callbacks run inside  *)
(* the loop thread; while pc is in UserCode they make any calls of the     *)
(* class's interface, in any order, before they return.                    *)
(***************************************************************************)
EXTENDS Integers, Sequences

CONSTANTS
    Posters,          \* threads other than the loop's
    Closures,         \* closures; each may be handed over again once it was taken
    NoClosure,        \* a poster that is not inside RunInSelectLoop
    Alarms,           \* closures used as alarms
    Timeouts,         \* timeout_in_ms arguments of RegisterAlarm
    WakeUpTime,       \* kStandardWakeUpTimeMs
    NumClosures,      \* FLAGS_selector_num_closures_per_event
    HighPrecision,    \* FLAGS_selector_high_alarm_precission
    PostsDuringExit,  \* do other threads post while Loop() is shutting down?
    MaxTime,          \* bound: the last instant of the model
    MaxHistory        \* bound: how many of the closures run last are remembered

ASSUME SelectorAssumption ==
    /\ NoClosure \notin Closures
    /\ Timeouts \subseteq Int
    /\ WakeUpTime \in Nat
    /\ NumClosures \in Nat \ {0}
    /\ HighPrecision \in BOOLEAN
    /\ PostsDuringExit \in BOOLEAN
    /\ MaxTime \in Nat
    /\ MaxHistory \in Nat \ {0}

VARIABLES
    pc,              \* where the loop thread is
    exiting,         \* Loop() has left its while: the rest is shutdown
    should_end_,
    to_run_,
    wake,            \* event_fd_ is readable
    posting,         \* poster -> closure pushed but not yet signalled
    n,               \* run_count of RunClosures
    run_count,       \* run_count of Loop
    now_,
    clock,           \* timer::TicksMsec()
    wakeup,          \* when the current LoopStep times out
    alarms_,         \* set of <<time, alarm>>
    reverse_alarms_, \* alarm -> time
    ran,             \* history: the closures run last, in order
    posted           \* history: those and all pushed since, in the order of the pushes

loopVars  == <<pc, exiting, n, run_count>>
timeVars  == <<now_, clock, wakeup>>
alarmVars == <<alarms_, reverse_alarms_>>
queueVars == <<to_run_, wake, posting, posted, ran>>
vars == <<loopVars, should_end_, timeVars, alarmVars, queueVars>>

\* A LoopStep that got a negative timeout: epoll_wait and poll never time out.
Forever == MaxTime + 1

\* Where callbacks of the program run: the Handle*Event calls, a closure, an
\* alarm, the Close() of every registered object at shutdown, call_on_close_.
UserCode == {"events", "closure", "alarm", "closing", "on_close"}

PCs == {"new", "top", "poll", "drain", "pop", "alarms", "check", "leak",
        "ended", "aborted"} \cup UserCode

Queued == {to_run_[i] : i \in 1..Len(to_run_)}

TypeOK ==
    /\ pc \in PCs
    /\ exiting \in BOOLEAN
    /\ should_end_ \in BOOLEAN
    /\ to_run_ \in Seq(Closures)
    /\ wake \in BOOLEAN
    /\ posting \in [Posters -> Closures \cup {NoClosure}]
    /\ n \in 0..NumClosures
    /\ run_count \in Nat
    /\ now_ \in 0..MaxTime
    /\ clock \in 0..MaxTime
    /\ wakeup \in 0..Forever
    /\ alarms_ \subseteq Int \X Alarms
    /\ DOMAIN reverse_alarms_ \subseteq Alarms
    /\ \A a \in DOMAIN reverse_alarms_ : reverse_alarms_[a] \in Int
    /\ posted \in Seq(Closures)
    /\ ran \in Seq(Closures)

Init ==
    /\ pc = "new"
    /\ exiting = FALSE
    /\ should_end_ = FALSE
    /\ to_run_ = <<>>
    /\ wake = FALSE
    /\ posting = [p \in Posters |-> NoClosure]
    /\ n = 0
    /\ run_count = 0
    /\ now_ = 0
    /\ clock = 0
    /\ wakeup = 0
    /\ alarms_ = {}
    /\ reverse_alarms_ = [a \in {} |-> 0]
    /\ posted = <<>>
    /\ ran = <<>>

-----------------------------------------------------------------------------
(* The interface of the class. *)

\* Mutant of Push: push_front.
PushFront(c) ==
    /\ c \in Closures \ Queued
    /\ \A p \in Posters : posting[p] # c
    /\ to_run_' = <<c>> \o to_run_
    /\ posted' = Append(posted, c)

\* mutex_ held: the closure enters to_run_.  (A closure is in the queue once at
\* a time: the bound on the length of the queue.)
Push(c) ==
    /\ c \in Closures \ Queued
    /\ \A p \in Posters : posting[p] # c
    /\ to_run_' = Append(to_run_, c)
    /\ posted' = Append(posted, c)

\* RunInSelectLoop from another thread, in two steps: the push under mutex_,
\* and after the unlock the write on event_fd_.
RunInSelectLoop(p, c) ==
    /\ posting[p] = NoClosure
    /\ PostsDuringExit \/ (~exiting /\ ~should_end_)
    /\ Push(c)
    /\ posting' = [posting EXCEPT ![p] = c]
    /\ UNCHANGED <<loopVars, should_end_, timeVars, alarmVars, wake, ran>>

SendWakeSignal(p) ==
    /\ posting[p] # NoClosure
    /\ posting' = [posting EXCEPT ![p] = NoClosure]
    /\ wake' = TRUE
    /\ UNCHANGED <<loopVars, should_end_, timeVars, alarmVars, to_run_, posted, ran>>

\* RunInSelectLoop from a callback: no wake-up is written.  What
\* call_on_close_ posts comes too late, like the posts of other threads.
RunInSelectLoopLocal(c) ==
    /\ pc \in UserCode
    /\ pc = "on_close" => PostsDuringExit
    /\ Push(c)
    /\ UNCHANGED <<loopVars, should_end_, timeVars, alarmVars, wake, posting, ran>>

\* Mutant of RegisterAlarm: the replaced entry stays in alarms_.
RegisterAlarmKeepsOld(a, timeout_in_ms) ==
    /\ pc \in UserCode \cup {"new"}
    /\ now_ + timeout_in_ms <= MaxTime
    /\ alarms_' = alarms_ \cup {<<now_ + timeout_in_ms, a>>}
    /\ reverse_alarms_' =
         [b \in DOMAIN reverse_alarms_ \cup {a} |->
            IF b = a THEN now_ + timeout_in_ms ELSE reverse_alarms_[b]]
    /\ UNCHANGED <<loopVars, should_end_, timeVars, queueVars>>

\* In the loop thread, or before Loop() is called.
RegisterAlarm(a, timeout_in_ms) ==
    LET wake_up_time == now_ + timeout_in_ms
    IN  /\ pc \in UserCode \cup {"new"}
        /\ wake_up_time <= MaxTime
        /\ alarms_' =
             (IF a \in DOMAIN reverse_alarms_
                THEN alarms_ \ {<<reverse_alarms_[a], a>>}
                ELSE alarms_) \cup {<<wake_up_time, a>>}
        /\ reverse_alarms_' =
             [b \in DOMAIN reverse_alarms_ \cup {a} |->
                IF b = a THEN wake_up_time ELSE reverse_alarms_[b]]
        /\ UNCHANGED <<loopVars, should_end_, timeVars, queueVars>>

\* Nothing happens when the alarm is not registered; CHECK_EQ(count, 1).
UnregisterAlarm(a) ==
    /\ pc \in UserCode
    /\ a \in DOMAIN reverse_alarms_
    /\ alarms_' = alarms_ \ {<<reverse_alarms_[a], a>>}
    /\ reverse_alarms_' =
         [b \in DOMAIN reverse_alarms_ \ {a} |-> reverse_alarms_[b]]
    /\ pc' = IF <<reverse_alarms_[a], a>> \in alarms_ THEN pc ELSE "aborted"
    /\ UNCHANGED <<exiting, n, run_count, should_end_, timeVars, queueVars>>

MakeLoopExit ==
    /\ pc \in UserCode
    /\ should_end_' = TRUE
    /\ UNCHANGED <<loopVars, timeVars, alarmVars, queueVars>>

-----------------------------------------------------------------------------
(* Loop() *)

LoopStart ==
    /\ pc = "new"
    /\ should_end_' = FALSE
    /\ pc' = "top"
    /\ UNCHANGED <<exiting, n, run_count, timeVars, alarmVars, queueVars>>

\* alarms_.begin(); alarms of one instant are ordered by address, so any of
\* them may be the first.
IsFirst(x) == x \in alarms_ /\ \A y \in alarms_ : x[1] <= y[1]

\* now_ as a point that refreshes it only under HighPrecision leaves it.
Refreshed == IF HighPrecision THEN clock ELSE now_

\* Mutant of MaySeeEmpty: the loop does not look at to_run_ before it sleeps.
NeverLooks == TRUE

\* to_run_ is read without mutex_: the read may miss a push whose thread has
\* not yet made its system call.
MaySeeEmpty ==
    \A i \in 1..Len(to_run_) : \E p \in Posters : posting[p] = to_run_[i]

\* to_sleep_ms before the look at to_run_, t being the value of now_.
AlarmSleep(t) ==
    {x[1] - t : x \in {y \in alarms_ : IsFirst(y) /\ y[1] < t + WakeUpTime}}
      \cup {s \in {WakeUpTime} : \A y \in alarms_ : y[1] >= t + WakeUpTime}

\* When a LoopStep entered now with this timeout gives up.
TimeoutAt(to_sleep_ms) ==
    IF to_sleep_ms < 0 THEN Forever
    ELSE IF clock + to_sleep_ms <= MaxTime THEN clock + to_sleep_ms ELSE MaxTime

\* The head of the while: how long to sleep, then into base_->LoopStep.
ChooseSleep ==
    /\ pc = "top"
    /\ ~should_end_
    /\ now_' = Refreshed
    /\ \/ MaySeeEmpty /\ \E s \in AlarmSleep(Refreshed) : wakeup' = TimeoutAt(s)
       \/ to_run_ # <<>> /\ wakeup' = TimeoutAt(0)
    /\ pc' = "poll"
    /\ UNCHANGED <<exiting, n, run_count, should_end_, clock, alarmVars, queueVars>>

LoopStepReturns ==
    /\ pc = "poll"
    /\ now_' = clock
    /\ pc' = "events"
    /\ UNCHANGED <<exiting, n, run_count, should_end_, clock, wakeup, alarmVars, queueVars>>

\* LoopStep returns because of the wake-up descriptor or its timeout.
LoopStep == (wake \/ clock >= wakeup) /\ LoopStepReturns

\* LoopStep returns because of another descriptor or a signal (EINTR).
LoopStepOnEvent == LoopStepReturns

\* LoopStep fails, or MakeLoopExit was called: the while is left.
LoopStepError ==
    /\ pc = "poll"
    /\ pc' = "closing"
    /\ exiting' = TRUE
    /\ UNCHANGED <<n, run_count, should_end_, timeVars, alarmVars, queueVars>>

LeaveLoop ==
    /\ pc = "top"
    /\ should_end_
    /\ pc' = "closing"
    /\ exiting' = TRUE
    /\ UNCHANGED <<n, run_count, should_end_, timeVars, alarmVars, queueVars>>

\* The last event of the batch was handled.
EventsDone ==
    /\ pc = "events"
    /\ now_' = Refreshed
    /\ run_count' = 0
    /\ pc' = "drain"
    /\ UNCHANGED <<exiting, n, should_end_, clock, wakeup, alarmVars, queueVars>>

\* Mutant of CloseAllDone: no closures are run after the loop.
CloseAllWithoutDrain ==
    /\ pc = "closing"
    /\ now_' = clock
    /\ run_count' = 0
    /\ pc' = "check"
    /\ UNCHANGED <<exiting, n, should_end_, clock, wakeup, alarmVars, queueVars>>

\* CleanAndCloseAll returned, registered_ is empty.
CloseAllDone ==
    /\ pc = "closing"
    /\ now_' = clock
    /\ run_count' = 0
    /\ pc' = "drain"
    /\ UNCHANGED <<exiting, n, should_end_, clock, wakeup, alarmVars, queueVars>>

\* RunClosures: first read everything from event_fd_ ...
DrainWakeSignal ==
    /\ pc = "drain"
    /\ wake' = FALSE
    /\ n' = 0
    /\ pc' = "pop"
    /\ UNCHANGED <<exiting, run_count, should_end_, timeVars, alarmVars, to_run_, posting, posted, ran>>

\* ... then pop and run, at most NumClosures.
RunClosure ==
    /\ pc = "pop"
    /\ n < NumClosures
    /\ to_run_ # <<>>
    /\ to_run_' = Tail(to_run_)
    /\ IF Len(ran) < MaxHistory
         THEN /\ ran' = Append(ran, Head(to_run_))
              /\ UNCHANGED posted
         ELSE /\ ran' = Append(Tail(ran), Head(to_run_))
              /\ posted' = Tail(posted)
    /\ pc' = "closure"
    /\ UNCHANGED <<exiting, n, run_count, should_end_, timeVars, alarmVars, wake, posting>>

ClosureDone ==
    /\ pc = "closure"
    /\ n' = n + 1
    /\ pc' = "pop"
    /\ UNCHANGED <<exiting, run_count, should_end_, timeVars, alarmVars, queueVars>>

\* Mutant of RunClosuresReturns: Loop goes on until nothing is left to run.
RunClosuresUntilEmpty ==
    /\ pc = "pop"
    /\ n = NumClosures \/ to_run_ = <<>>
    /\ UNCHANGED run_count
    /\ IF n # 0 THEN pc' = "drain" /\ UNCHANGED now_
       ELSE IF exiting THEN pc' = "check" /\ UNCHANGED now_
       ELSE pc' = "alarms" /\ now_' = Refreshed
    /\ UNCHANGED <<exiting, n, should_end_, clock, wakeup, alarmVars, queueVars>>

\* RunClosures returned n: Loop calls it again, or goes on.  What is counted
\* during the shutdown is only logged.
RunClosuresReturns ==
    /\ pc = "pop"
    /\ n = NumClosures \/ to_run_ = <<>>
    /\ run_count' = IF exiting THEN run_count ELSE run_count + n
    /\ IF exiting
         THEN /\ pc' = IF n = 0 THEN "check" ELSE "drain"
              /\ UNCHANGED now_
         ELSE IF n = 0 \/ run_count + n >= NumClosures
         THEN /\ pc' = "alarms"
              /\ now_' = Refreshed
         ELSE /\ pc' = "drain"
              /\ UNCHANGED now_
    /\ UNCHANGED <<exiting, n, should_end_, clock, wakeup, alarmVars, queueVars>>

\* The first alarm, when it is due, leaves both indexes and runs;
\* CHECK(erased).
RunAlarm(x) ==
    /\ pc = "alarms"
    /\ IsFirst(x)
    /\ x[1] <= now_
    /\ alarms_' = alarms_ \ {x}
    /\ reverse_alarms_' =
         [b \in DOMAIN reverse_alarms_ \ {x[2]} |-> reverse_alarms_[b]]
    /\ pc' = IF x[2] \in DOMAIN reverse_alarms_ THEN "alarm" ELSE "aborted"
    /\ UNCHANGED <<exiting, n, run_count, should_end_, timeVars, queueVars>>

AlarmDone ==
    /\ pc = "alarm"
    /\ pc' = "alarms"
    /\ UNCHANGED <<exiting, n, run_count, should_end_, timeVars, alarmVars, queueVars>>

AlarmsDone ==
    /\ pc = "alarms"
    /\ \A x \in alarms_ : x[1] > now_
    /\ pc' = "top"
    /\ UNCHANGED <<exiting, n, run_count, should_end_, timeVars, alarmVars, queueVars>>

\* CHECK(to_run_.empty()), read without mutex_.
CheckDrained ==
    /\ pc = "check"
    /\ pc' = IF to_run_ = <<>> THEN "leak" ELSE "aborted"
    /\ UNCHANGED <<exiting, n, run_count, should_end_, timeVars, alarmVars, queueVars>>

\* "Run remaining alarms": the due ones are erased, the others only logged.
\* Then base_ is deleted and call_on_close_ runs.
DropAlarms ==
    LET due == {x \in alarms_ : x[1] <= clock}
    IN  /\ pc = "leak"
        /\ now_' = clock
        /\ alarms_' = alarms_ \ due
        /\ reverse_alarms_' =
             [b \in {a \in DOMAIN reverse_alarms_ : <<reverse_alarms_[a], a>> \notin due}
                |-> reverse_alarms_[b]]
        /\ pc' = "on_close"
        /\ UNCHANGED <<exiting, n, run_count, should_end_, clock, wakeup, queueVars>>

\* Loop() resets tid_ and returns.
LoopReturns ==
    /\ pc = "on_close"
    /\ pc' = "ended"
    /\ UNCHANGED <<exiting, n, run_count, should_end_, timeVars, alarmVars, queueVars>>

Tick ==
    /\ clock < MaxTime
    /\ clock' = clock + 1
    /\ UNCHANGED <<loopVars, should_end_, now_, wakeup, alarmVars, queueVars>>

-----------------------------------------------------------------------------

Callback ==
    \/ \E c \in Closures : RunInSelectLoopLocal(c)
    \/ \E a \in Alarms : \E t \in Timeouts : RegisterAlarm(a, t)
    \/ \E a \in Alarms : UnregisterAlarm(a)
    \/ MakeLoopExit

LoopThread ==
    \/ LoopStart
    \/ ChooseSleep
    \/ LoopStep
    \/ LeaveLoop
    \/ EventsDone
    \/ CloseAllDone
    \/ DrainWakeSignal
    \/ RunClosure
    \/ ClosureDone
    \/ RunClosuresReturns
    \/ \E x \in alarms_ : RunAlarm(x)
    \/ AlarmDone
    \/ AlarmsDone
    \/ CheckDrained
    \/ DropAlarms
    \/ LoopReturns

Environment ==
    \/ LoopStepOnEvent
    \/ LoopStepError
    \/ \E p \in Posters : \E c \in Closures : RunInSelectLoop(p, c)

Next ==
    \/ Callback
    \/ LoopThread
    \/ Environment
    \/ \E p \in Posters : SendWakeSignal(p)
    \/ Tick

\* The loop thread is scheduled, callbacks return, a thread that pushed a
\* closure gets to its write, and time passes.  Nothing else is promised: no
\* descriptor need ever become ready.
Fairness ==
    /\ WF_vars(LoopThread)
    /\ \A p \in Posters : WF_vars(SendWakeSignal(p))
    /\ WF_vars(Tick)

Spec == Init /\ [][Next]_vars
FairSpec == Spec /\ Fairness

-----------------------------------------------------------------------------
(* Properties *)

\* The loop never sleeps on work: when it is blocked in LoopStep and a closure
\* waits in to_run_, event_fd_ is readable, or the thread that pushed is on its
\* way to SendWakeSignal (the unlocked read of to_run_ at selector.cc:125, the
\* drain of event_fd_ before the pops at selector.cc:350).
NoLostWakeup ==
    pc = "poll" /\ clock < wakeup /\ to_run_ # <<>>
        => wake \/ \E p \in Posters : posting[p] # NoClosure

\* Closures run once for each push and in the order RunInSelectLoop accepted
\* them, whichever thread they came from, through the batches of RunClosures and
\* the drain at shutdown.
RunInPostOrder == posted = ran \o to_run_

\* alarms_ and reverse_alarms_ describe the same alarms, so that a replaced,
\* cancelled or fired alarm is in neither (the CHECKs at selector.cc:201, 320).
AlarmIndexesAgree ==
    alarms_ = {<<reverse_alarms_[a], a>> : a \in DOMAIN reverse_alarms_}

\* No CHECK of Loop, RegisterAlarm or UnregisterAlarm fails.
NoCheckFails == pc # "aborted"

\* Events and alarms wait for less than two batches of closures, however many
\* the callbacks add: RunClosures is only called while fewer than a batch have
\* run in this iteration, and runs at most a batch (selector.cc:182, 354).
ClosuresPerIteration ==
    /\ ~exiting /\ pc \in {"drain", "pop", "closure"}
         => run_count < NumClosures
    /\ pc = "closure" => n < NumClosures

\* No loop phase is mixed with the shutdown, and once RunClosures found the
\* queue empty nothing refills it, provided other threads have stopped posting:
\* what makes CHECK(to_run_.empty()) at selector.cc:244 hold.
ShutdownOrder ==
    /\ pc \in {"new", "top", "poll", "events", "alarms", "alarm"} => ~exiting
    /\ pc \in {"closing", "check", "leak", "on_close", "ended"} => exiting
    /\ ~PostsDuringExit /\ pc \in {"check", "leak", "on_close", "ended"} => to_run_ = <<>>

\* The loop stays in its while over the alarms for good (selector.cc:195).
AlarmsHoldLoop == <>[](pc \in {"alarms", "alarm"})

\* The callback of an alarm registers an alarm that is due at once.
DueAtOnce == pc = "alarm" /\ \E a \in Alarms : \E t \in Timeouts : t <= 0 /\ RegisterAlarm(a, t)

\* A closure handed over is run, also when Loop() is shutting down, and although
\* closures that are handed over again and again keep the queue from ever being
\* empty; unless alarms hold the loop.
EveryClosureRuns ==
    AlarmsHoldLoop \/
    \A c \in Closures : c \in Queued ~> (ran # <<>> /\ ran[Len(ran)] = c)

\* An alarm that stays registered is run, unless the loop ends: neither closures
\* that post themselves again for ever (the run_count of selector.cc:182), nor the
\* computed sleep, nor alarms that come before it and are registered again hold
\* it up.  The one thing that does is a callback of an alarm that, time and
\* again, registers an alarm due at once: the loop does not leave
\* selector.cc:195 then, and nothing else keeps it there.
EveryAlarmFires ==
    /\ \/ AlarmsHoldLoop
       \/ \A a \in Alarms : a \in DOMAIN reverse_alarms_
                               ~> (a \notin DOMAIN reverse_alarms_ \/ exiting)
    /\ AlarmsHoldLoop => []<><<DueAtOnce>>_vars

=============================================================================
