--------------------------- MODULE SelectorProof ---------------------------
(***************************************************************************)
(* Safety of net::Selector for any number of threads, closures and alarms, *)
(* any flag values and any bound on time; then of its descriptor table     *)
(* (SelectorBase) and the dispatch of a batch, for any objects, descriptor *)
(* numbers and table size.  The dispatch is right for any number of closes *)
(* between two polls, also when the table is not: it needs of the table     *)
(* whom an entry belongs to.                                               *)
(***************************************************************************)
EXTENDS Selector, SelectorBase, SequenceTheorems, TLAPS

Inv ==
    /\ TypeOK
    /\ NoLostWakeup
    /\ RunInPostOrder
    /\ AlarmIndexesAgree
    /\ ClosuresPerIteration
    /\ ShutdownOrder

\* Appending behind a concatenation: the push of RunInSelectLoop.
LEMMA AppendConcat ==
    ASSUME NEW S, NEW s \in Seq(S), NEW t \in Seq(S), NEW e \in S
    PROVE  s \o Append(t, e) = Append(s \o t, e)
  OBVIOUS

\* Moving the head of the queue to the history: the pop of RunClosures.
LEMMA HeadTailConcat ==
    ASSUME NEW S, NEW s \in Seq(S), NEW t \in Seq(S), t # <<>>
    PROVE  Append(s, Head(t)) \o Tail(t) = s \o t
  OBVIOUS

\* Forgetting the oldest run of the history.
LEMMA TailConcat ==
    ASSUME NEW S, NEW s \in Seq(S), NEW t \in Seq(S), NEW e \in S, s # <<>>
    PROVE  Tail(s \o t) = Tail(s) \o t /\ Append(Tail(s), e) = Tail(Append(s, e))
  OBVIOUS

\* The inductive invariant holds when the object has been constructed.
LEMMA InitInv == Init => Inv
  <1> SUFFICES ASSUME Init PROVE Inv
    OBVIOUS
  <1>1. TypeOK
    <2>1. 0 \in 0..MaxTime /\ 0 \in 0..Forever /\ 0 \in 0..NumClosures
      BY SelectorAssumption DEF Forever
    <2>2. pc \in PCs /\ exiting \in BOOLEAN /\ should_end_ \in BOOLEAN /\ wake \in BOOLEAN
      BY DEF Init, PCs
    <2>3. posting \in [Posters -> Closures \cup {NoClosure}]
      BY DEF Init
    <2>4. DOMAIN reverse_alarms_ = {}
      BY DEF Init
    <2> QED
      BY <2>1, <2>2, <2>3, <2>4 DEF Init, TypeOK
  <1>2. RunInPostOrder /\ AlarmIndexesAgree
    BY ConcatEmptySeq DEF Init, RunInPostOrder, AlarmIndexesAgree, TypeOK
  <1> QED
    BY <1>1, <1>2, SelectorAssumption
    DEF Init, Inv, NoLostWakeup, ClosuresPerIteration, ShutdownOrder

\* A push appends to the queue and to the history alike.
LEMMA PushInv ==
    ASSUME Inv, NEW c, Push(c)
    PROVE  /\ to_run_' \in Seq(Closures)
           /\ posted' \in Seq(Closures)
           /\ posted' = ran \o to_run_'
  <1>1. c \in Closures /\ to_run_ \in Seq(Closures) /\ ran \in Seq(Closures)
    BY DEF Inv, TypeOK, Push
  <1>2. posted = ran \o to_run_
    BY DEF Inv, RunInPostOrder
  <1> QED
    <2>1. ran \o Append(to_run_, c) = Append(ran \o to_run_, c)
      BY <1>1, AppendConcat
    <2>2. posted \in Seq(Closures)
      BY DEF Inv, TypeOK
    <2> QED
      BY <1>1, <1>2, <2>1, <2>2 DEF Push

\* The calls other threads make.
LEMMA PosterInv ==
    ASSUME Inv, NEW p \in Posters,
           SendWakeSignal(p) \/ \E c \in Closures : RunInSelectLoop(p, c)
    PROVE  Inv'
  <1>1. CASE SendWakeSignal(p)
    BY <1>1 DEF SendWakeSignal, Inv, TypeOK, NoLostWakeup, RunInPostOrder, AlarmIndexesAgree,
      ClosuresPerIteration, ShutdownOrder, loopVars, timeVars, alarmVars
  <1>2. ASSUME NEW c \in Closures, RunInSelectLoop(p, c)
        PROVE  Inv'
    <2>1. /\ to_run_' \in Seq(Closures)
          /\ posted' \in Seq(Closures)
          /\ posted' = ran \o to_run_'
      BY <1>2, PushInv DEF RunInSelectLoop
    <2>2. c # NoClosure
      BY SelectorAssumption
    <2> QED
      BY <1>2, <2>1, <2>2 DEF RunInSelectLoop, Inv, TypeOK, NoLostWakeup, RunInPostOrder,
        AlarmIndexesAgree, ClosuresPerIteration, ShutdownOrder, loopVars, timeVars, alarmVars
  <1> QED
    BY <1>1, <1>2

\* The calls the program's callbacks make.
LEMMA CallbackInv ==
    ASSUME Inv, Callback
    PROVE  Inv'
  <1>1. ASSUME NEW c \in Closures, RunInSelectLoopLocal(c)
        PROVE  Inv'
    <2>1. /\ to_run_' \in Seq(Closures)
          /\ posted' \in Seq(Closures)
          /\ posted' = ran \o to_run_'
      BY <1>1, PushInv DEF RunInSelectLoopLocal
    <2> QED
      BY <1>1, <2>1 DEF RunInSelectLoopLocal, UserCode, Inv, TypeOK, NoLostWakeup,
        RunInPostOrder, AlarmIndexesAgree, ClosuresPerIteration, ShutdownOrder,
        loopVars, timeVars, alarmVars
  <1>2. ASSUME NEW a \in Alarms, NEW t \in Timeouts, RegisterAlarm(a, t)
        PROVE  Inv'
    <2>1. now_ + t \in Int
      BY SelectorAssumption DEF Inv, TypeOK
    <2>2. AlarmIndexesAgree'
      BY <1>2 DEF RegisterAlarm, Inv, AlarmIndexesAgree
    <2>3. TypeOK'
      BY <1>2, <2>1 DEF RegisterAlarm, Inv, TypeOK, loopVars, timeVars, queueVars
    <2> QED
      BY <1>2, <2>2, <2>3 DEF RegisterAlarm, Inv, NoLostWakeup, RunInPostOrder,
        ClosuresPerIteration, ShutdownOrder, loopVars, timeVars, queueVars
  <1>3. ASSUME NEW a \in Alarms, UnregisterAlarm(a)
        PROVE  Inv'
    <2>1. pc' = pc
      BY <1>3 DEF UnregisterAlarm, Inv, AlarmIndexesAgree
    <2>2. AlarmIndexesAgree'
      BY <1>3 DEF UnregisterAlarm, Inv, AlarmIndexesAgree
    <2>3. TypeOK'
      BY <1>3, <2>1 DEF UnregisterAlarm, Inv, TypeOK, timeVars, queueVars
    <2> QED
      BY <1>3, <2>1, <2>2, <2>3 DEF UnregisterAlarm, Inv, NoLostWakeup, RunInPostOrder,
        ClosuresPerIteration, ShutdownOrder, timeVars, queueVars
  <1>4. CASE MakeLoopExit
    BY <1>4 DEF MakeLoopExit, Inv, TypeOK, NoLostWakeup, RunInPostOrder, AlarmIndexesAgree,
      ClosuresPerIteration, ShutdownOrder, loopVars, timeVars, alarmVars, queueVars
  <1> QED
    BY <1>1, <1>2, <1>3, <1>4 DEF Callback

\* The steps of Loop() and of RunClosures.
LEMMA LoopInv ==
    ASSUME Inv, LoopThread \/ LoopStepOnEvent \/ LoopStepError \/ Tick
    PROVE  Inv'
  <1> USE SelectorAssumption
  <1>1. CASE LoopStart
    BY <1>1 DEF LoopStart, Inv, TypeOK, NoLostWakeup, RunInPostOrder, AlarmIndexesAgree,
      ClosuresPerIteration, ShutdownOrder, PCs, UserCode, timeVars, alarmVars, queueVars
  <1>2. CASE ChooseSleep
    <2>1. now_' \in 0..MaxTime
      BY <1>2 DEF ChooseSleep, Refreshed, Inv, TypeOK
    <2>2. ASSUME NEW s \in Int PROVE TimeoutAt(s) \in 0..Forever
      BY DEF TimeoutAt, Forever, Inv, TypeOK
    <2>3. AlarmSleep(Refreshed) \subseteq Int
      BY DEF AlarmSleep, IsFirst, Refreshed, Inv, TypeOK
    <2>4. wakeup' \in 0..Forever
      BY <1>2, <2>2, <2>3 DEF ChooseSleep
    <2>5. TypeOK'
      BY <1>2, <2>1, <2>4 DEF ChooseSleep, Inv, TypeOK, PCs, alarmVars, queueVars
    <2>6. NoLostWakeup'
      <3>1. CASE MaySeeEmpty
        <4>1. SUFFICES ASSUME to_run_ # <<>>
                       PROVE  \E p \in Posters : posting[p] # NoClosure
          BY <1>2, <4>1 DEF ChooseSleep, NoLostWakeup, queueVars
        <4>2. 1 \in 1..Len(to_run_) /\ to_run_[1] \in Closures
          BY <4>1 DEF Inv, TypeOK
        <4> QED
          BY <3>1, <4>2 DEF MaySeeEmpty
      <3>2. CASE to_run_ # <<>> /\ wakeup' = TimeoutAt(0)
        <4>1. wakeup' = clock /\ clock' = clock
          BY <1>2, <3>2 DEF TimeoutAt, ChooseSleep, Inv, TypeOK
        <4> QED
          BY <4>1 DEF NoLostWakeup, Inv, TypeOK
      <3> QED
        BY <1>2, <3>1, <3>2 DEF ChooseSleep
    <2> QED
      BY <1>2, <2>5, <2>6 DEF ChooseSleep, Inv, RunInPostOrder, AlarmIndexesAgree,
        ClosuresPerIteration, ShutdownOrder, alarmVars, queueVars
  <1>3. CASE LoopStep \/ LoopStepOnEvent
    <2>1. TypeOK'
      BY <1>3 DEF LoopStep, LoopStepOnEvent, LoopStepReturns, Inv, TypeOK, PCs, UserCode, alarmVars, queueVars
    <2>2. UNCHANGED <<to_run_, alarms_, reverse_alarms_, posted, ran>>
      BY <1>3 DEF LoopStep, LoopStepOnEvent, LoopStepReturns, alarmVars, queueVars
    <2> QED
      BY <1>3, <2>1, <2>2 DEF LoopStep, LoopStepOnEvent, LoopStepReturns, Inv, TypeOK, NoLostWakeup, RunInPostOrder,
        AlarmIndexesAgree, ClosuresPerIteration, ShutdownOrder
  <1>4. CASE LoopStepError \/ LeaveLoop
    BY <1>4 DEF LoopStepError, LeaveLoop, Inv, TypeOK, NoLostWakeup, RunInPostOrder,
      AlarmIndexesAgree, ClosuresPerIteration, ShutdownOrder, PCs, UserCode, timeVars,
      alarmVars, queueVars
  <1>5. CASE EventsDone \/ CloseAllDone
    <2>1. TypeOK'
      BY <1>5 DEF EventsDone, CloseAllDone, Refreshed, Inv, TypeOK, PCs, UserCode, alarmVars, queueVars
    <2>2. UNCHANGED <<to_run_, alarms_, reverse_alarms_, posted, ran>>
      BY <1>5 DEF EventsDone, CloseAllDone, alarmVars, queueVars
    <2>3. ClosuresPerIteration'
      <3>1. run_count' = 0 /\ pc' = "drain" /\ n' \in 0..NumClosures
        BY <1>5, <2>1 DEF EventsDone, CloseAllDone, TypeOK
      <3> QED
        BY <3>1, SelectorAssumption DEF ClosuresPerIteration
    <2> QED
      BY <1>5, <2>1, <2>2, <2>3 DEF EventsDone, CloseAllDone, Inv, NoLostWakeup,
        RunInPostOrder, AlarmIndexesAgree, ShutdownOrder
  <1>6. CASE DrainWakeSignal
    <2>1. TypeOK'
      <3>1. n' = 0 /\ pc' = "pop" /\ wake' = FALSE
        BY <1>6 DEF DrainWakeSignal
      <3>2. 0 \in 0..NumClosures
        BY SelectorAssumption
      <3> QED
        BY <1>6, <3>1, <3>2 DEF DrainWakeSignal, Inv, TypeOK, PCs, timeVars, alarmVars
    <2>2. UNCHANGED <<to_run_, alarms_, reverse_alarms_, posted, ran>>
      BY <1>6 DEF DrainWakeSignal, timeVars, alarmVars
    <2> QED
      BY <1>6, <2>1, <2>2 DEF DrainWakeSignal, Inv, TypeOK, NoLostWakeup, RunInPostOrder,
        AlarmIndexesAgree, ClosuresPerIteration, ShutdownOrder
  <1>7. CASE RunClosure
    <2> DEFINE c == Head(to_run_)
    <2>1. /\ to_run_ # <<>> /\ to_run_' = Tail(to_run_) /\ posted = ran \o to_run_
          /\ to_run_ \in Seq(Closures) /\ ran \in Seq(Closures) /\ posted \in Seq(Closures)
          /\ c \in Closures /\ Tail(to_run_) \in Seq(Closures)
      BY <1>7 DEF RunClosure, Inv, TypeOK, RunInPostOrder
    <2>2. Append(ran, c) \o Tail(to_run_) = posted /\ Append(ran, c) \in Seq(Closures) /\ Append(ran, c) # <<>>
      BY <2>1, HeadTailConcat
    <2>3. ASSUME Len(ran) < MaxHistory
          PROVE  posted' = ran' \o to_run_' /\ posted' \in Seq(Closures) /\ ran' \in Seq(Closures)
      <3>1. ran' = Append(ran, c) /\ posted' = posted
        BY <1>7, <2>3 DEF RunClosure
      <3> QED
        BY <2>1, <2>2, <3>1
    <2>4. ASSUME ~(Len(ran) < MaxHistory)
          PROVE  posted' = ran' \o to_run_' /\ posted' \in Seq(Closures) /\ ran' \in Seq(Closures)
      <3>1. ran' = Append(Tail(ran), c) /\ posted' = Tail(posted)
        BY <1>7, <2>4 DEF RunClosure
      <3>2. ran # <<>>
        BY <2>4, SelectorAssumption
      <3>3. ran' = Tail(Append(ran, c))
        BY <2>1, <3>1, <3>2, TailConcat
      <3>4. Tail(posted) = Tail(Append(ran, c)) \o Tail(to_run_)
        BY <2>1, <2>2, TailConcat
      <3>5. posted # <<>> /\ Append(ran, c) # <<>>
        BY <2>1, <2>2
      <3>6. Tail(posted) \in Seq(Closures) /\ Tail(Append(ran, c)) \in Seq(Closures)
        BY <2>1, <2>2, <3>5
      <3> QED
        BY <2>1, <3>1, <3>3, <3>4, <3>6
    <2>5. posted' = ran' \o to_run_' /\ posted' \in Seq(Closures)
      BY <2>3, <2>4
    <2>6. to_run_' \in Seq(Closures) /\ ran' \in Seq(Closures)
      BY <2>1, <2>3, <2>4
    <2> QED
      BY <1>7, <2>5, <2>6 DEF RunClosure, Inv, TypeOK, NoLostWakeup, RunInPostOrder,
        AlarmIndexesAgree, ClosuresPerIteration, ShutdownOrder, PCs, UserCode, timeVars,
        alarmVars
  <1>8. CASE ClosureDone
    <2>1. n < NumClosures
      BY <1>8 DEF ClosureDone, Inv, ClosuresPerIteration
    <2> QED
      BY <1>8, <2>1 DEF ClosureDone, Inv, TypeOK, NoLostWakeup, RunInPostOrder,
        AlarmIndexesAgree, ClosuresPerIteration, ShutdownOrder, PCs, UserCode, timeVars,
        alarmVars, queueVars
  <1>9. CASE RunClosuresReturns
    BY <1>9 DEF RunClosuresReturns, Refreshed, Inv, TypeOK, NoLostWakeup, RunInPostOrder,
      AlarmIndexesAgree, ClosuresPerIteration, ShutdownOrder, PCs, UserCode, alarmVars,
      queueVars
  <1>10. ASSUME NEW x \in alarms_, RunAlarm(x)
         PROVE  Inv'
    <2>1. PICK a \in DOMAIN reverse_alarms_ : x = <<reverse_alarms_[a], a>>
      BY DEF Inv, AlarmIndexesAgree
    <2>2. pc' = "alarm"
      BY <1>10, <2>1 DEF RunAlarm
    <2>3. AlarmIndexesAgree'
      BY <1>10, <2>1 DEF RunAlarm, Inv, AlarmIndexesAgree
    <2>4. TypeOK'
      BY <1>10, <2>1, <2>2 DEF RunAlarm, Inv, TypeOK, PCs, UserCode, timeVars, queueVars
    <2> QED
      BY <1>10, <2>2, <2>3, <2>4 DEF RunAlarm, Inv, NoLostWakeup, RunInPostOrder,
        ClosuresPerIteration, ShutdownOrder, timeVars, queueVars
  <1>11. CASE AlarmDone \/ AlarmsDone \/ LoopReturns
    <2>1. TypeOK'
      BY <1>11 DEF AlarmDone, AlarmsDone, LoopReturns, Inv, TypeOK, PCs, UserCode, timeVars, alarmVars, queueVars
    <2>2. UNCHANGED <<to_run_, alarms_, reverse_alarms_, posted, ran>>
      BY <1>11 DEF AlarmDone, AlarmsDone, LoopReturns, timeVars, alarmVars, queueVars
    <2> QED
      BY <1>11, <2>1, <2>2 DEF AlarmDone, AlarmsDone, LoopReturns, Inv, TypeOK, NoLostWakeup, RunInPostOrder,
        AlarmIndexesAgree, ClosuresPerIteration, ShutdownOrder
  <1>12. CASE CheckDrained
    BY <1>12 DEF CheckDrained, Inv, TypeOK, NoLostWakeup, RunInPostOrder,
      AlarmIndexesAgree, ClosuresPerIteration, ShutdownOrder, PCs, UserCode, timeVars,
      alarmVars, queueVars
  <1>13. CASE DropAlarms
    <2>1. AlarmIndexesAgree'
      BY <1>13 DEF DropAlarms, Inv, AlarmIndexesAgree
    <2>2. TypeOK'
      BY <1>13 DEF DropAlarms, Inv, TypeOK, PCs, UserCode, queueVars
    <2> QED
      BY <1>13, <2>1, <2>2 DEF DropAlarms, Inv, NoLostWakeup, RunInPostOrder,
        ClosuresPerIteration, ShutdownOrder, queueVars
  <1>14. CASE Tick
    BY <1>14 DEF Tick, Inv, TypeOK, NoLostWakeup, RunInPostOrder, AlarmIndexesAgree,
      ClosuresPerIteration, ShutdownOrder, loopVars, alarmVars, queueVars
  <1> QED
    BY <1>1, <1>2, <1>3, <1>4, <1>5, <1>6, <1>7, <1>8, <1>9, <1>10, <1>11, <1>12, <1>13,
       <1>14
    DEF LoopThread

\* Every step preserves the inductive invariant.
LEMMA NextInv == Inv /\ [Next]_vars => Inv'
  <1> SUFFICES ASSUME Inv, [Next]_vars PROVE Inv'
    OBVIOUS
  <1>1. CASE UNCHANGED vars
    BY <1>1 DEF vars, loopVars, timeVars, alarmVars, queueVars, Inv, TypeOK, NoLostWakeup,
      RunInPostOrder, AlarmIndexesAgree, ClosuresPerIteration, ShutdownOrder
  <1>2. CASE Next
    BY <1>2, PosterInv, CallbackInv, LoopInv DEF Next, Environment
  <1> QED
    BY <1>1, <1>2

LEMMA SpecInv == Spec => []Inv
  BY InitInv, NextInv, PTL DEF Spec

\* Type correctness of the Selector's state.
THEOREM TypeCorrect == Spec => []TypeOK
  BY SpecInv, PTL DEF Inv

\* Whatever the number of threads that post, the loop never sleeps on a closure
\* without a wake-up written or about to be written (RunInSelectLoop against
\* the unlocked read in Loop).
THEOREM NeverLosesAWakeup == Spec => []NoLostWakeup
  BY SpecInv, PTL DEF Inv

\* Closures run exactly once and in the order they were accepted.
THEOREM ClosuresInOrder == Spec => []RunInPostOrder
  BY SpecInv, PTL DEF Inv

\* The two alarm indexes never disagree, whatever callbacks register, replace
\* and cancel.
THEOREM AlarmIndexes == Spec => []AlarmIndexesAgree
  BY SpecInv, PTL DEF Inv

\* One iteration of the loop runs fewer than two batches of closures.
THEOREM BoundedBatches == Spec => []ClosuresPerIteration
  BY SpecInv, PTL DEF Inv

\* Only three steps hold a CHECK; the indexes and ShutdownOrder make it pass.
LEMMA ChecksPass ==
    ASSUME Inv, [Next]_vars, NoCheckFails, ~PostsDuringExit
    PROVE  NoCheckFails'
  <1>1. ASSUME NEW a \in Alarms, UnregisterAlarm(a) PROVE NoCheckFails'
    BY <1>1 DEF UnregisterAlarm, Inv, AlarmIndexesAgree, NoCheckFails
  <1>2. ASSUME NEW x \in alarms_, RunAlarm(x) PROVE NoCheckFails'
    <2>1. x[2] \in DOMAIN reverse_alarms_
      BY DEF Inv, AlarmIndexesAgree
    <2> QED
      BY <1>2, <2>1 DEF RunAlarm, NoCheckFails
  <1>3. CASE CheckDrained
    BY <1>3 DEF CheckDrained, Inv, ShutdownOrder, NoCheckFails
  <1>4. CASE UNCHANGED vars
    BY <1>4 DEF vars, loopVars, NoCheckFails
  <1>5. CASE Next /\ ~CheckDrained /\ ~(\E a \in Alarms : UnregisterAlarm(a))
                  /\ ~(\E x \in alarms_ : RunAlarm(x))
    BY <1>5 DEF Next, Callback, LoopThread, Environment, RunInSelectLoopLocal, RegisterAlarm,
      MakeLoopExit, LoopStart, ChooseSleep, LoopStep, LoopStepOnEvent, LoopStepReturns,
      LoopStepError, LeaveLoop, EventsDone, CloseAllDone, DrainWakeSignal, RunClosure,
      ClosureDone, RunClosuresReturns, AlarmDone, AlarmsDone, DropAlarms, LoopReturns,
      RunInSelectLoop,
      SendWakeSignal, Tick, loopVars, NoCheckFails
  <1> QED
    BY <1>1, <1>2, <1>3, <1>4, <1>5

\* When no other thread posts during the shutdown, no CHECK of the loop or of
\* the alarm interface ever fails, CHECK(to_run_.empty()) included.
THEOREM NoAbort == Spec => [](~PostsDuringExit => NoCheckFails)
  <1>1. Init => (~PostsDuringExit => NoCheckFails)
    BY DEF Init, NoCheckFails
  <1>2. Inv /\ [Next]_vars /\ (~PostsDuringExit => NoCheckFails)
          => (~PostsDuringExit => NoCheckFails)'
    BY ChecksPass
  <1> QED
    BY <1>1, <1>2, SpecInv, PTL DEF Spec

-----------------------------------------------------------------------------
(* Whom entries and events belong to *)

Entry(I) == [index : I, data : Selectables \cup {Pipe}]

\* The types that hold whatever Compact does to the table.
OwnerTypes ==
    /\ fds_size_ \in Int
    /\ indices_to_compact_ \in Seq(Int)
    /\ DOMAIN fd_data_ \subseteq Fds \cup {PipeFd}
    /\ \A f \in DOMAIN fd_data_ : fd_data_[f] \in Entry(Int)
    /\ fd \in [Selectables -> Fds \cup {-1}]
    /\ registered_ \subseteq Selectables
    /\ closed \subseteq Selectables

\* An object with a descriptor is registered, no two have the same, and an entry
\* of the table is that of the object that has the descriptor.
Owned ==
    /\ \A s \in Selectables : s \in registered_ <=> fd[s] # -1
    /\ \A r, s \in registered_ : fd[r] = fd[s] => r = s
    /\ PipeFd \in DOMAIN fd_data_ => fd_data_[PipeFd].data = Pipe
    /\ \A f \in DOMAIN fd_data_ \ {PipeFd} :
          fd_data_[f].data \in registered_ /\ fd[fd_data_[f].data] = f

\* An event of the batch is the wake-up's, of an object that has been closed
\* since, or of one that has the descriptor that was polled.
Batch ==
    /\ \A s \in closed : s \notin registered_
    /\ \A e \in events :
          \/ e[1] = Pipe
          \/ e[1] \in closed
          \/ e[1] \in registered_ /\ fd[e[1]] = e[2]
    /\ phase # "events" => events = {}

OwnerInv == OwnerTypes /\ Owned /\ (~ReopenInBatch => Batch)

\* -1 is no descriptor.
LEMMA NotAFd == -1 \notin Fds /\ PipeFd \notin Fds /\ PipeFd # -1 /\ Fds \subseteq Nat
  BY BaseAssumption

\* A new selector has the wake-up descriptor and no objects.
LEMMA InitOwner == BaseInit => OwnerInv
  <1> SUFFICES ASSUME BaseInit PROVE OwnerInv
    OBVIOUS
  <1> DEFINE none == <<>>
  <1>1. indices_to_compact_ = none /\ none \in Seq(Int)
    BY DEF BaseInit
  <1> HIDE DEF none
  <1>2. OwnerTypes
    BY <1>1 DEF BaseInit, OwnerTypes, Entry
  <1>3. Owned
    BY NotAFd DEF BaseInit, Owned
  <1>4. Batch
    BY DEF BaseInit, Batch
  <1> QED
    BY <1>2, <1>3, <1>4 DEF OwnerInv

\* Register: the number was free, so no entry had it.
LEMMA OwnerRegister ==
    ASSUME OwnerInv, NEW s \in Selectables, NEW f \in Fds, Register(s, f)
    PROVE  OwnerInv'
  <1>1. /\ phase = "events" /\ s \notin registered_ /\ (s \in closed => ReopenInBatch)
        /\ \A r \in Selectables : fd[r] # f
        /\ fd' = [fd EXCEPT ![s] = f] /\ registered_' = registered_ \cup {s}
        /\ Add(f, s, FALSE)
        /\ UNCHANGED <<phase, events, handled, closed>>
    BY DEF Register, batchVars
  <1>2. OwnerTypes /\ Owned
    BY DEF OwnerInv
  <1>3. fd' \in [Selectables -> Fds \cup {-1}] /\ fd'[s] = f /\ \A r \in Selectables \ {s} : fd'[r] = fd[r]
    BY <1>1, <1>2 DEF OwnerTypes
  <1>4. \A g \in DOMAIN fd_data_ \ {PipeFd} :
           /\ fd_data_[g].data \in registered_' /\ fd'[fd_data_[g].data] = g
    BY <1>1, <1>2, <1>3 DEF OwnerTypes, Owned
  <1>5. \A q, r \in registered_' : fd'[q] = fd'[r] => q = r
    BY <1>1, <1>2, <1>3 DEF OwnerTypes, Owned
  <1>6. OwnerTypes' /\ Owned'
    <2>1. CASE UNCHANGED tableVars
      BY <1>5, <1>1, <1>2, <1>3, <1>4, <2>1, NotAFd DEF tableVars, OwnerTypes, Owned
    <2>2. CASE /\ fd_data_' = [g \in DOMAIN fd_data_ \cup {f} |->
                           IF g = f THEN [index |-> fds_size_, data |-> s] ELSE fd_data_[g]]
               /\ fds_size_' = fds_size_ + 1
               /\ UNCHANGED indices_to_compact_
      <3>1. /\ DOMAIN fd_data_' = DOMAIN fd_data_ \cup {f} /\ fd_data_'[f] = [index |-> fds_size_, data |-> s]
            /\ \A g \in DOMAIN fd_data_ \ {f} : fd_data_'[g] = fd_data_[g]
        BY <2>2
      <3>2. OwnerTypes'
        BY <1>1, <1>2, <1>3, <2>2, <3>1 DEF OwnerTypes, Entry
      <3>3. fd_data_'[f].data = s
        BY <3>1
      <3>4. Owned'
        BY <1>5, <1>1, <1>2, <1>3, <1>4, <3>1, <3>3, NotAFd DEF Owned
      <3> QED
        BY <3>2, <3>4
    <2> QED
      BY <1>1, <2>1, <2>2 DEF Add
  <1>7. ASSUME ~ReopenInBatch PROVE Batch'
    <2>1. Batch /\ s \notin closed
      BY <1>1, <1>7 DEF OwnerInv
    <2>2. ASSUME NEW e \in events PROVE e[1] = Pipe \/ e[1] \in closed \/ (e[1] \in registered_' /\ fd'[e[1]] = e[2])
      BY <1>1, <1>2, <1>3, <2>1, <2>2 DEF Batch, OwnerTypes
    <2> QED
      BY <1>1, <2>1, <2>2 DEF Batch
  <1> QED
    BY <1>6, <1>7 DEF OwnerInv

\* Unregister: the entry of the descriptor goes, and the object is closed.
LEMMA OwnerUnregister ==
    ASSUME OwnerInv, NEW s \in Selectables, Unregister(s)
    PROVE  OwnerInv'
  <1>1. /\ phase = "events" /\ s \in registered_ /\ Delete(fd[s])
        /\ fd' = [fd EXCEPT ![s] = -1] /\ registered_' = registered_ \ {s} /\ closed' = closed \cup {s}
        /\ UNCHANGED <<phase, events, handled>>
    BY DEF Unregister, batchVars
  <1>2. OwnerTypes /\ Owned
    BY DEF OwnerInv
  <1>3. fd' \in [Selectables -> Fds \cup {-1}] /\ fd'[s] = -1 /\ \A r \in Selectables \ {s} : fd'[r] = fd[r]
    BY <1>1, <1>2 DEF OwnerTypes
  <1>4. \A g \in DOMAIN fd_data_ \ {PipeFd, fd[s]} :
           /\ fd_data_[g].data \in registered_' /\ fd'[fd_data_[g].data] = g
    BY <1>1, <1>2, <1>3 DEF OwnerTypes, Owned
  <1>5. OwnerTypes' /\ Owned'
    <2>1. CASE fd[s] \notin DOMAIN fd_data_ /\ UNCHANGED tableVars
      BY <1>1, <1>2, <1>3, <1>4, <2>1 DEF tableVars, OwnerTypes, Owned
    <2>2. CASE /\ fd[s] \in DOMAIN fd_data_
               /\ indices_to_compact_' = Append(indices_to_compact_, fd_data_[fd[s]].index)
               /\ fd_data_' = [g \in DOMAIN fd_data_ \ {fd[s]} |-> fd_data_[g]]
               /\ UNCHANGED fds_size_
      <3>1. fd_data_[fd[s]].index \in Int
        BY <1>2, <2>2 DEF OwnerTypes, Entry
      <3>2. indices_to_compact_' \in Seq(Int)
        BY <1>2, <2>2, <3>1 DEF OwnerTypes
      <3>3. /\ DOMAIN fd_data_' = DOMAIN fd_data_ \ {fd[s]}
            /\ \A g \in DOMAIN fd_data_' : fd_data_'[g] = fd_data_[g]
        BY <2>2
      <3>4. OwnerTypes'
        BY <1>1, <1>2, <1>3, <2>2, <3>2, <3>3 DEF OwnerTypes
      <3>5. Owned'
        BY <1>1, <1>2, <1>3, <1>4, <3>3 DEF Owned
      <3> QED
        BY <3>4, <3>5
    <2> QED
      BY <1>1, <2>1, <2>2 DEF Delete
  <1>6. ASSUME ~ReopenInBatch PROVE Batch'
    <2>1. Batch
      BY <1>6 DEF OwnerInv
    <2> QED
      BY <1>1, <1>2, <1>3, <2>1 DEF Batch, OwnerTypes
  <1> QED
    BY <1>5, <1>6 DEF OwnerInv

\* Compact moves entries, not whom they belong to.
LEMMA OwnerCompactOne == ASSUME OwnerInv, CompactOne PROVE OwnerInv'
  <1> DEFINE index == Head(indices_to_compact_)
             moved == fds_[fds_size_ - 1].fd
  <1>1. /\ phase = "compact" /\ indices_to_compact_ # <<>>
        /\ fds_size_' = fds_size_ - 1 /\ indices_to_compact_' = Tail(indices_to_compact_)
        /\ phase' \in {"compact", "aborted"}
        /\ UNCHANGED <<fd, registered_, events, closed>>
    BY DEF CompactOne, objectVars, batchVars
  <1>2. \/ UNCHANGED fd_data_
        \/ moved \in DOMAIN fd_data_ /\ fd_data_' = [fd_data_ EXCEPT ![moved].index = index]
    BY DEF CompactOne
  <1>3. OwnerTypes /\ Owned /\ index \in Int /\ indices_to_compact_' \in Seq(Int)
    BY <1>1 DEF OwnerInv, OwnerTypes
  <1> HIDE DEF index, moved
  <1>4. /\ DOMAIN fd_data_' = DOMAIN fd_data_
        /\ \A f \in DOMAIN fd_data_ : fd_data_'[f] \in Entry(Int) /\ fd_data_'[f].data = fd_data_[f].data
    BY <1>2, <1>3 DEF OwnerTypes, Entry
  <1>5. OwnerTypes'
    BY <1>1, <1>3, <1>4 DEF OwnerTypes
  <1>6. Owned'
    BY <1>1, <1>3, <1>4 DEF Owned
  <1>7. (~ReopenInBatch => Batch)'
    BY <1>1 DEF OwnerInv, Batch
  <1> QED
    BY <1>5, <1>6, <1>7 DEF OwnerInv

\* Poll: an event is that of the entry, so of the object with the descriptor.
LEMMA OwnerPoll == ASSUME OwnerInv, Poll PROVE OwnerInv'
  <1>1. /\ phase = "compact" /\ closed' = {}
        /\ UNCHANGED <<fds_size_, fd_data_, indices_to_compact_, fd, registered_>>
    BY DEF Poll, tableVars, objectVars
  <1>2. OwnerTypes' /\ Owned'
    BY <1>1 DEF OwnerInv, OwnerTypes, Owned
  <1>3. ASSUME ~ReopenInBatch PROVE Batch'
    <2>1. Batch /\ events = {}
      BY <1>1, <1>3 DEF OwnerInv, Batch
    <2>2. PICK ready : IF ready \subseteq DOMAIN fd_data_
                          THEN events' = {<<fd_data_[f].data, f>> : f \in ready} /\ phase' = "events"
                          ELSE phase' = "aborted" /\ UNCHANGED events
      BY DEF Poll
    <2>3. ASSUME ready \subseteq DOMAIN fd_data_, NEW e \in events'
          PROVE  e[1] = Pipe \/ (e[1] \in registered_' /\ fd'[e[1]] = e[2])
      <3>1. PICK f \in ready : e = <<fd_data_[f].data, f>>
        BY <2>2, <2>3
      <3>2. e[1] = fd_data_[f].data /\ e[2] = f /\ f \in DOMAIN fd_data_
        BY <2>3, <3>1
      <3> QED
        BY <1>1, <3>2 DEF OwnerInv, Owned
    <2>4. CASE ready \subseteq DOMAIN fd_data_
      BY <1>1, <2>2, <2>3, <2>4 DEF Batch
    <2>5. CASE ~(ready \subseteq DOMAIN fd_data_)
      BY <1>1, <2>1, <2>2, <2>5 DEF Batch
    <2> QED
      BY <2>4, <2>5
  <1> QED
    BY <1>2, <1>3 DEF OwnerInv

\* Every step keeps entries and events with their owners.
LEMMA NextOwner == OwnerInv /\ [BaseNext]_baseVars => OwnerInv'
  <1> SUFFICES ASSUME OwnerInv, [BaseNext]_baseVars PROVE OwnerInv'
    OBVIOUS
  <1>1. CASE UNCHANGED baseVars
    BY <1>1 DEF baseVars, tableVars, objectVars, batchVars, OwnerInv, OwnerTypes, Owned, Batch
  <1>2. CASE \E s \in Selectables, b \in BOOLEAN : UpdateDesire(s, b)
    <2>1. UNCHANGED <<phase, fds_size_, fd_data_, indices_to_compact_, fd, registered_, events, closed>>
      BY <1>2 DEF UpdateDesire, Update, tableVars, batchVars
    <2> QED
      BY <2>1 DEF OwnerInv, OwnerTypes, Owned, Batch
  <1>3. CASE \E e \in events : DispatchEvent(e)
    <2>1. /\ phase = "events" /\ events' \subseteq events
          /\ UNCHANGED <<phase, fds_size_, fd_data_, indices_to_compact_, fd, registered_, closed>>
      BY <1>3 DEF DispatchEvent, tableVars, objectVars
    <2> QED
      BY <2>1 DEF OwnerInv, OwnerTypes, Owned, Batch
  <1>4. CASE EnterLoopStep
    <2>1. /\ events = {}
          /\ UNCHANGED <<fds_size_, fd_data_, indices_to_compact_, fd, registered_, events, closed>>
      BY <1>4 DEF EnterLoopStep, tableVars, objectVars, batchVars
    <2> QED
      BY <2>1 DEF OwnerInv, OwnerTypes, Owned, Batch
  <1> QED
    BY <1>1, <1>2, <1>3, <1>4, OwnerRegister, OwnerUnregister, OwnerCompactOne, OwnerPoll DEF BaseNext

\* A handler is called for an object that still has the descriptor the event was
\* polled for, however many objects are opened and closed by the handlers before
\* it and whatever numbers the kernel gives out again (selector.cc, Loop).
THEOREM EventsReachTheirDescriptor ==
    ASSUME ~ReopenInBatch
    PROVE  BaseSpec => EventReachesItsDescriptor
  <1>1. OwnerInv /\ [BaseNext]_baseVars =>
          [handled' # handled /\ handled' # NoEvent => fd[handled'[1]] = handled'[2]]_baseVars
    <2> SUFFICES ASSUME OwnerInv, BaseNext, handled' # handled, handled' # NoEvent
                 PROVE  fd[handled'[1]] = handled'[2]
      OBVIOUS
    <2>1. PICK e \in events : DispatchEvent(e)
      BY DEF BaseNext, Register, Unregister, UpdateDesire, EnterLoopStep, CompactOne, Poll, batchVars
    <2>2. handled' = e /\ e[1] # Pipe /\ e[1] \in registered_
      BY <2>1 DEF DispatchEvent
    <2>3. e[1] \notin closed
      BY <2>2 DEF OwnerInv, Batch
    <2> QED
      BY <2>2, <2>3 DEF OwnerInv, Batch
  <1> QED
    BY <1>1, InitOwner, NextOwner, PTL DEF BaseSpec, EventReachesItsDescriptor


-----------------------------------------------------------------------------
(* The layout of the table, for any number of closes between two polls *)

InUse == 0..(fds_size_ - 1)

TableTypes ==
    /\ fds_ \in [Indices -> Slot]
    /\ fds_size_ \in 0..kMaxFds
    /\ indices_to_compact_ \in Seq(Indices)
    /\ \A f \in DOMAIN fd_data_ : fd_data_[f] \in Entry(Indices)
    /\ desire_ \in [Selectables -> BOOLEAN]

\* Entries and live slots lead to each other.
Linked ==
    /\ \A f \in DOMAIN fd_data_ : fd_data_[f].index \in InUse /\ fds_[fd_data_[f].index].fd = f
    /\ \A i \in InUse : fds_[i].fd # -1 =>
          fds_[i].fd \in DOMAIN fd_data_ /\ fd_data_[fds_[i].fd].index = i

\* The dead slots are those waiting for Compact, each of which waits once; the
\* wake-up's slot is never one of them.
Holes ==
    /\ \A j, k \in 1..Len(indices_to_compact_) :
          indices_to_compact_[j] = indices_to_compact_[k] => j = k
    /\ \A i \in InUse :
          fds_[i].fd = -1 <=> \E k \in 1..Len(indices_to_compact_) : indices_to_compact_[k] = i
    /\ \A k \in 1..Len(indices_to_compact_) : indices_to_compact_[k] \in InUse
    /\ fds_size_ > 0 /\ fds_[0].fd = PipeFd

\* A slot asks for what its object wants.
Desires ==
    \A f \in DOMAIN fd_data_ \ {PipeFd} : fds_[fd_data_[f].index].write = desire_[fd_data_[f].data]

\* A process that aborts leaves the table as it was in the middle of Compact.
TableInv ==
    /\ TableTypes
    /\ IF phase = "aborted" THEN LastSlotClosed ELSE Linked /\ Holes /\ Desires


\* The slots in use are slots of the table.
LEMMA Ranges ==
    ASSUME NEW m \in 0..kMaxFds
    PROVE  /\ m \in Nat /\ 0..(m - 1) \subseteq Indices /\ m \notin 0..(m - 1)
           /\ 0..(m + 1 - 1) = 0..(m - 1) \cup {m}
  BY BaseAssumption DEF Indices

\* A new table has the slot of the wake-up descriptor.
LEMMA InitTable == BaseInit => TableInv
  <1> SUFFICES ASSUME BaseInit PROVE TableInv
    OBVIOUS
  <1> DEFINE none == <<>>
  <1>1. indices_to_compact_ = none /\ none \in Seq(Indices) /\ Len(none) = 0
    BY DEF BaseInit
  <1> HIDE DEF none
  <1>2. /\ fds_ = [i \in Indices |-> [fd |-> IF i = 0 THEN PipeFd ELSE -1, write |-> FALSE]]
        /\ fds_size_ = 1 /\ fd_data_ = [f \in {PipeFd} |-> [index |-> 0, data |-> Pipe]]
        /\ desire_ = [s \in Selectables |-> FALSE] /\ phase = "events"
    BY DEF BaseInit
  <1>3. 0 \in Indices /\ fds_size_ \in 0..kMaxFds /\ InUse = {0}
    BY <1>2, BaseAssumption DEF Indices, InUse
  <1>4. /\ DOMAIN fd_data_ = {PipeFd} /\ fd_data_[PipeFd] = [index |-> 0, data |-> Pipe]
        /\ fds_[0].fd = PipeFd /\ fd_data_[PipeFd].index = 0
    BY <1>2, <1>3
  <1>5. TableTypes
    <2>1. fds_ \in [Indices -> Slot]
      BY <1>2 DEF Slot
    <2> QED
      BY <1>1, <1>2, <1>3, <1>4, <2>1 DEF TableTypes, Entry
  <1>6. Linked
    BY <1>3, <1>4 DEF Linked
  <1>7. Holes
    BY <1>1, <1>2, <1>3, <1>4, NotAFd DEF Holes
  <1>8. Desires
    BY <1>4 DEF Desires
  <1> QED
    BY <1>2, <1>5, <1>6, <1>7, <1>8 DEF TableInv

\* Add: the new slot is the first that is not in use.
LEMMA TableRegister ==
    ASSUME OwnerInv, TableInv, NEW s \in Selectables, NEW f \in Fds, Register(s, f)
    PROVE  TableInv'
  <1>1. /\ s \notin registered_ /\ \A r \in Selectables : fd[r] # f
        /\ desire_' = [desire_ EXCEPT ![s] = FALSE] /\ Add(f, s, FALSE) /\ phase = "events" /\ phase' = phase
    BY DEF Register
  <1>2. /\ TableTypes /\ Linked /\ Holes /\ Desires /\ Owned /\ OwnerTypes
    BY <1>1 DEF TableInv, OwnerInv
  <1>3. /\ desire_' \in [Selectables -> BOOLEAN] /\ desire_'[s] = FALSE
        /\ \A r \in Selectables \ {s} : desire_'[r] = desire_[r]
    BY <1>1, <1>2 DEF TableTypes
  <1>4. f \notin DOMAIN fd_data_
    BY <1>1, <1>2, NotAFd DEF Owned, OwnerTypes
  <1>5. \A g \in DOMAIN fd_data_ \ {PipeFd} : fd_data_[g].data \in Selectables \ {s}
    BY <1>1, <1>2 DEF Owned, OwnerTypes
  <1>6. CASE UNCHANGED tableVars
    <2>1. TableTypes' /\ Linked' /\ Holes'
      BY <1>2, <1>3, <1>6 DEF tableVars, TableTypes, Linked, Holes, InUse
    <2>2. Desires'
      BY <1>2, <1>3, <1>5, <1>6 DEF tableVars, Desires
    <2> QED
      BY <1>1, <2>1, <2>2 DEF TableInv
  <1>7. CASE ~(fds_size_ >= kMaxFds)
    <2>1. /\ fds_' = [fds_ EXCEPT ![fds_size_] = [fd |-> f, write |-> FALSE]]
          /\ fd_data_' = [g \in DOMAIN fd_data_ \cup {f} |->
                           IF g = f THEN [index |-> fds_size_, data |-> s] ELSE fd_data_[g]]
          /\ fds_size_' = fds_size_ + 1
          /\ indices_to_compact_' = indices_to_compact_
      BY <1>1, <1>7 DEF Add
    <2>2. fds_size_ \in Indices /\ fds_size_' \in 0..kMaxFds /\ fds_size_ \in Nat
      BY <1>2, <1>7, <2>1, BaseAssumption DEF TableTypes, Indices
    <2>3. /\ fds_' \in [Indices -> Slot] /\ fds_'[fds_size_].fd = f /\ fds_'[fds_size_].write = FALSE
          /\ \A i \in Indices \ {fds_size_} : fds_'[i] = fds_[i]
      <3> DEFINE slot == [fd |-> f, write |-> FALSE]
      <3>1. slot \in Slot /\ slot.fd = f /\ slot.write = FALSE
        BY DEF Slot
      <3>2. fds_' = [fds_ EXCEPT ![fds_size_] = slot]
        BY <2>1
      <3> HIDE DEF slot
      <3> QED
        BY <1>2, <2>2, <3>1, <3>2 DEF TableTypes
    <2>4. /\ DOMAIN fd_data_' = DOMAIN fd_data_ \cup {f}
          /\ fd_data_'[f] \in Entry(Indices) /\ fd_data_'[f].index = fds_size_ /\ fd_data_'[f].data = s
          /\ \A g \in DOMAIN fd_data_ : fd_data_'[g] = fd_data_[g]
      BY <1>4, <2>1, <2>2 DEF Entry
    <2>5. InUse' = InUse \cup {fds_size_} /\ fds_size_ \notin InUse /\ InUse \subseteq Indices
      BY <1>2, <2>1, Ranges DEF InUse, TableTypes
    <2>6. TableTypes'
      BY <1>2, <1>3, <2>1, <2>2, <2>3, <2>4 DEF TableTypes
    <2>7. Linked'
      <3>1. ASSUME NEW g \in DOMAIN fd_data_' PROVE fd_data_'[g].index \in InUse' /\ fds_'[fd_data_'[g].index].fd = g
        BY <1>2, <2>3, <2>4, <2>5 DEF Linked
      <3>2. ASSUME NEW i \in InUse', fds_'[i].fd # -1
            PROVE  fds_'[i].fd \in DOMAIN fd_data_' /\ fd_data_'[fds_'[i].fd].index = i
        BY <1>2, <2>3, <2>4, <2>5, <3>2 DEF Linked
      <3> QED
        BY <3>1, <3>2 DEF Linked
    <2>8. Holes'
      <3>1. \A k \in 1..Len(indices_to_compact_) : indices_to_compact_[k] # fds_size_
        BY <1>2, <2>5 DEF Holes
      <3>2. ASSUME NEW i \in InUse'
            PROVE  fds_'[i].fd = -1 <=> \E k \in 1..Len(indices_to_compact_) : indices_to_compact_[k] = i
        BY <1>2, <2>3, <2>5, <3>1, NotAFd DEF Holes
      <3>3. fds_size_' > 0 /\ fds_'[0].fd = PipeFd
        BY <1>2, <2>1, <2>2, <2>3 DEF Holes, Indices
      <3> QED
        BY <1>2, <2>1, <2>5, <3>2, <3>3 DEF Holes
    <2>9. Desires'
      <3>1. ASSUME NEW g \in DOMAIN fd_data_' \ {PipeFd}
            PROVE  fds_'[fd_data_'[g].index].write = desire_'[fd_data_'[g].data]
        <4>1. CASE g = f
          BY <1>3, <2>3, <2>4, <4>1
        <4>2. CASE g # f
          <5>1. g \in DOMAIN fd_data_ /\ fd_data_'[g] = fd_data_[g] /\ fd_data_[g].index \in InUse
            BY <1>2, <2>4, <4>2 DEF Linked
          <5>2. fds_'[fd_data_[g].index] = fds_[fd_data_[g].index]
            BY <2>3, <2>5, <5>1
          <5> QED
            BY <1>2, <1>3, <1>5, <5>1, <5>2 DEF Desires
        <4> QED
          BY <4>1, <4>2
      <3> QED
        BY <3>1 DEF Desires
    <2> QED
      BY <1>1, <2>6, <2>7, <2>8, <2>9 DEF TableInv
  <1> QED
    BY <1>1, <1>6, <1>7 DEF Add

\* Update: the slot is that of the object.
LEMMA TableUpdateDesire ==
    ASSUME OwnerInv, TableInv, NEW s \in Selectables, NEW b \in BOOLEAN, UpdateDesire(s, b)
    PROVE  TableInv'
  <1>1. /\ s \in registered_ /\ desire_' = [desire_ EXCEPT ![s] = b] /\ Update(fd[s], b)
        /\ phase = "events" /\ phase' = phase
    BY DEF UpdateDesire
  <1>2. /\ TableTypes /\ Linked /\ Holes /\ Desires /\ Owned /\ OwnerTypes
    BY <1>1 DEF TableInv, OwnerInv
  <1>3. /\ desire_' \in [Selectables -> BOOLEAN] /\ desire_'[s] = b
        /\ \A r \in Selectables \ {s} : desire_'[r] = desire_[r]
    BY <1>1, <1>2 DEF TableTypes
  <1>4. ASSUME NEW g \in DOMAIN fd_data_ \ {PipeFd}
        PROVE  fd_data_[g].data \in Selectables /\ (fd_data_[g].data = s <=> g = fd[s])
    BY <1>1, <1>2 DEF Owned, OwnerTypes
  <1>5. CASE fd[s] \notin DOMAIN fd_data_ /\ UNCHANGED tableVars
    <2>1. TableTypes' /\ Linked' /\ Holes'
      BY <1>2, <1>3, <1>5 DEF tableVars, TableTypes, Linked, Holes, InUse
    <2>2. Desires'
      BY <1>2, <1>3, <1>4, <1>5 DEF tableVars, Desires
    <2> QED
      BY <1>1, <2>1, <2>2 DEF TableInv
  <1>6. CASE fd[s] \in DOMAIN fd_data_
    <2> DEFINE at == fd_data_[fd[s]].index
    <2>1. /\ fds_' = [fds_ EXCEPT ![at].write = b]
          /\ UNCHANGED <<fds_size_, fd_data_, indices_to_compact_>>
      BY <1>1, <1>6 DEF Update
    <2>2. at \in Indices /\ at \in InUse
      BY <1>2, <1>6 DEF TableTypes, Entry, Linked
    <2> HIDE DEF at
    <2>3. /\ fds_' \in [Indices -> Slot] /\ fds_'[at].write = b
          /\ \A i \in Indices : fds_'[i].fd = fds_[i].fd
          /\ \A i \in Indices \ {at} : fds_'[i] = fds_[i]
      BY <1>2, <2>1, <2>2 DEF TableTypes, Slot
    <2>4. InUse \subseteq Indices /\ InUse' = InUse
      BY <1>2, <2>1, Ranges DEF InUse, TableTypes
    <2>5. TableTypes'
      BY <1>2, <1>3, <2>1, <2>3 DEF TableTypes
    <2>6. Linked'
      BY <1>2, <2>1, <2>3, <2>4 DEF Linked
    <2>7. Holes'
      <3>1. 0 \in InUse
        BY <1>2 DEF Holes, InUse, TableTypes
      <3> QED
        BY <1>2, <2>1, <2>3, <2>4, <3>1 DEF Holes
    <2>8. Desires'
      <3>1. ASSUME NEW g \in DOMAIN fd_data_ \ {PipeFd}
            PROVE  fds_'[fd_data_[g].index].write = desire_'[fd_data_[g].data]
        <4>1. CASE g = fd[s]
          <5>1. fd_data_[g].index = at /\ fd_data_[g].data = s
            BY <1>4, <4>1 DEF at
          <5> QED
            BY <1>3, <2>3, <5>1
        <4>2. CASE g # fd[s]
          <5>1. fd_data_[g].index \in InUse /\ fds_[fd_data_[g].index].fd = g
            BY <1>2 DEF Linked
          <5>2. fds_[at].fd = fd[s]
            BY <1>2, <1>6 DEF Linked, at
          <5>3. fds_'[fd_data_[g].index] = fds_[fd_data_[g].index]
            BY <2>3, <2>4, <4>2, <5>1, <5>2
          <5> QED
            BY <1>2, <1>3, <1>4, <4>2, <5>3 DEF Desires
        <4> QED
          BY <4>1, <4>2
      <3> QED
        BY <2>1, <3>1 DEF Desires
    <2> QED
      BY <1>1, <2>5, <2>6, <2>7, <2>8 DEF TableInv
  <1> QED
    BY <1>1, <1>5, <1>6 DEF Update


\* Delete: the slot becomes a hole.
LEMMA TableUnregister ==
    ASSUME OwnerInv, TableInv, NEW s \in Selectables, Unregister(s)
    PROVE  TableInv'
  <1>1. /\ s \in registered_ /\ Delete(fd[s])
        /\ phase = "events" /\ phase' = phase /\ desire_' = desire_
    BY DEF Unregister
  <1>2. /\ TableTypes /\ Linked /\ Holes /\ Desires /\ Owned /\ OwnerTypes
    BY <1>1 DEF TableInv, OwnerInv
  <1>3. /\ indices_to_compact_ \in Seq(Indices) /\ Len(indices_to_compact_) \in Nat
        /\ \A k \in 1..Len(indices_to_compact_) : fds_[indices_to_compact_[k]].fd = -1
    BY <1>2 DEF TableTypes, Holes
  <1>4. CASE UNCHANGED tableVars
    BY <1>1, <1>2, <1>4 DEF tableVars, TableInv, TableTypes, Linked, Holes, Desires, InUse
  <1>5. CASE fd[s] \in DOMAIN fd_data_
    <2> DEFINE f == fd[s]
               at == fd_data_[fd[s]].index
    <2>1. /\ fds_' = [fds_ EXCEPT ![at].fd = -1]
          /\ fd_data_' = [g \in DOMAIN fd_data_ \ {f} |-> fd_data_[g]]
          /\ indices_to_compact_' = Append(indices_to_compact_, at)
          /\ fds_size_' = fds_size_
      BY <1>1, <1>5 DEF Delete
    <2>2. at \in Indices /\ at \in InUse /\ fds_[at].fd = f /\ at # 0
      <3>1. f # PipeFd
        BY <1>1, <1>2, NotAFd DEF Owned, OwnerTypes
      <3> QED
        BY <1>2, <1>5, <3>1 DEF TableTypes, Entry, Linked, Holes
    <2>3. /\ DOMAIN fd_data_' = DOMAIN fd_data_ \ {f}
          /\ \A g \in DOMAIN fd_data_' : fd_data_'[g] = fd_data_[g]
      BY <2>1
    <2> HIDE DEF at, f
    <2>4. /\ fds_' \in [Indices -> Slot] /\ fds_'[at].fd = -1
          /\ \A i \in Indices \ {at} : fds_'[i] = fds_[i]
      BY <1>2, <2>1, <2>2 DEF TableTypes, Slot
    <2>5. InUse \subseteq Indices /\ InUse' = InUse
      BY <1>2, <2>1, Ranges DEF InUse, TableTypes
    <2>6. /\ indices_to_compact_' \in Seq(Indices)
          /\ 1..Len(indices_to_compact_') = 1..Len(indices_to_compact_) \cup {Len(indices_to_compact_) + 1}
          /\ indices_to_compact_'[Len(indices_to_compact_) + 1] = at
          /\ \A k \in 1..Len(indices_to_compact_) :
                indices_to_compact_'[k] = indices_to_compact_[k] /\ indices_to_compact_[k] # at
      BY <1>1, <1>2, <1>3, <2>1, <2>2, NotAFd DEF OwnerTypes, Owned, f
    <2>7. TableTypes'
      BY <1>1, <1>2, <2>1, <2>3, <2>4, <2>6 DEF TableTypes
    <2>8. \A g \in DOMAIN fd_data_' : fd_data_[g].index \in InUse /\ fd_data_[g].index # at
      BY <1>2, <2>2, <2>3 DEF Linked
    <2>9. Linked'
      <3>1. ASSUME NEW g \in DOMAIN fd_data_' PROVE fd_data_'[g].index \in InUse' /\ fds_'[fd_data_'[g].index].fd = g
        BY <1>2, <2>3, <2>4, <2>5, <2>8 DEF Linked
      <3>2. ASSUME NEW i \in InUse', fds_'[i].fd # -1
            PROVE  fds_'[i].fd \in DOMAIN fd_data_' /\ fd_data_'[fds_'[i].fd].index = i
        <4>1. i # at /\ i \in InUse /\ fds_'[i] = fds_[i]
          BY <2>4, <2>5, <3>2
        <4>2. fds_[i].fd \in DOMAIN fd_data_ /\ fd_data_[fds_[i].fd].index = i
          BY <1>2, <3>2, <4>1 DEF Linked
        <4>3. fds_[i].fd # f
          BY <4>1, <4>2 DEF at, f
        <4> QED
          BY <2>3, <4>1, <4>2, <4>3
      <3> QED
        BY <3>1, <3>2 DEF Linked
    <2>10. Holes'
      <3>1. ASSUME NEW i \in InUse'
            PROVE  fds_'[i].fd = -1 <=> \E k \in 1..Len(indices_to_compact_') : indices_to_compact_'[k] = i
        <4>1. CASE i = at
          BY <2>4, <2>6, <4>1
        <4>2. CASE i # at
          <5>1. i \in InUse /\ fds_'[i] = fds_[i]
            BY <2>4, <2>5, <4>2
          <5>2. (\E k \in 1..Len(indices_to_compact_') : indices_to_compact_'[k] = i)
                  <=> \E k \in 1..Len(indices_to_compact_) : indices_to_compact_[k] = i
            BY <2>6, <4>2
          <5> QED
            BY <1>2, <5>1, <5>2 DEF Holes
        <4> QED
          BY <4>1, <4>2
      <3>2. fds_size_' > 0 /\ fds_'[0].fd = PipeFd
        <4>1. 0 \in InUse
          BY <1>2 DEF Holes, InUse, TableTypes
        <4> QED
          BY <1>2, <2>1, <2>2, <2>4, <2>5, <4>1 DEF Holes
      <3>3. \A k \in 1..Len(indices_to_compact_') : indices_to_compact_'[k] \in InUse'
        BY <1>2, <2>2, <2>5, <2>6 DEF Holes
      <3>4. \A j, k \in 1..Len(indices_to_compact_') :
               indices_to_compact_'[j] = indices_to_compact_'[k] => j = k
        BY <1>2, <2>6 DEF Holes
      <3> QED
        BY <3>1, <3>2, <3>3, <3>4 DEF Holes
    <2>11. Desires'
      BY <1>1, <1>2, <2>3, <2>4, <2>5, <2>8 DEF Desires
    <2> QED
      BY <1>1, <2>7, <2>9, <2>10, <2>11 DEF TableInv
  <1> QED
    BY <1>1, <1>4, <1>5 DEF Delete

\* Compact: the last slot is the hole itself, or it is live and moves into the
\* hole, or it is a later hole and the process aborts.
LEMMA TableCompactOne == ASSUME OwnerInv, TableInv, CompactOne PROVE TableInv'
  <1> DEFINE index == Head(indices_to_compact_)
             last  == fds_size_ - 1
             moved == fds_[last].fd
  <1>1. /\ phase = "compact" /\ indices_to_compact_ # <<>> /\ desire_' = desire_
        /\ fds_size_' = last /\ indices_to_compact_' = Tail(indices_to_compact_)
    BY DEF CompactOne, objectVars
  <1>2. /\ TableTypes /\ Linked /\ Holes /\ Desires /\ Owned /\ OwnerTypes
    BY <1>1 DEF TableInv, OwnerInv
  <1>3. /\ 1 \in 1..Len(indices_to_compact_) /\ index = indices_to_compact_[1]
        /\ indices_to_compact_' \in Seq(Indices) /\ Len(indices_to_compact_') = Len(indices_to_compact_) - 1
        /\ \A k \in 1..Len(indices_to_compact_') :
              k + 1 \in 1..Len(indices_to_compact_) /\ indices_to_compact_'[k] = indices_to_compact_[k + 1]
        /\ \A k \in 1..Len(indices_to_compact_) :
              k = 1 \/ (k - 1 \in 1..Len(indices_to_compact_') /\ indices_to_compact_'[k - 1] = indices_to_compact_[k])
    BY <1>1, <1>2 DEF TableTypes
  <1>4. /\ index \in InUse /\ fds_[index].fd = -1
        /\ \A k \in 1..Len(indices_to_compact_') : indices_to_compact_'[k] # index /\ indices_to_compact_'[k] \in InUse
        /\ \A i \in InUse : fds_[i].fd = -1 <=>
              i = index \/ \E k \in 1..Len(indices_to_compact_') : indices_to_compact_'[k] = i
        /\ \A j, k \in 1..Len(indices_to_compact_') : indices_to_compact_'[j] = indices_to_compact_'[k] => j = k
    <2>1. index \in InUse /\ fds_[index].fd = -1
      BY <1>2, <1>3 DEF Holes
    <2>2. \A k \in 1..Len(indices_to_compact_') : indices_to_compact_'[k] # index /\ indices_to_compact_'[k] \in InUse
      BY <1>2, <1>3 DEF Holes
    <2>3. ASSUME NEW i \in InUse
          PROVE  fds_[i].fd = -1 <=> i = index \/ \E k \in 1..Len(indices_to_compact_') : indices_to_compact_'[k] = i
      <3>1. fds_[i].fd = -1 <=> \E k \in 1..Len(indices_to_compact_) : indices_to_compact_[k] = i
        BY <1>2 DEF Holes
      <3>2. ASSUME NEW k \in 1..Len(indices_to_compact_), indices_to_compact_[k] = i
            PROVE  i = index \/ \E l \in 1..Len(indices_to_compact_') : indices_to_compact_'[l] = i
        <4>1. CASE k = 1
          BY <1>3, <3>2, <4>1
        <4>2. CASE k # 1
          <5>1. k - 1 \in 1..Len(indices_to_compact_') /\ indices_to_compact_'[k - 1] = i
            BY <1>3, <3>2, <4>2
          <5> QED
            BY <5>1
        <4> QED
          BY <4>1, <4>2
      <3>3. ASSUME i = index \/ \E k \in 1..Len(indices_to_compact_') : indices_to_compact_'[k] = i
            PROVE  \E k \in 1..Len(indices_to_compact_) : indices_to_compact_[k] = i
        <4>1. CASE i = index
          BY <1>3, <4>1
        <4>2. ASSUME NEW k \in 1..Len(indices_to_compact_'), indices_to_compact_'[k] = i
              PROVE  \E l \in 1..Len(indices_to_compact_) : indices_to_compact_[l] = i
          <5>1. k + 1 \in 1..Len(indices_to_compact_) /\ indices_to_compact_[k + 1] = i
            BY <1>3, <4>2
          <5> QED
            BY <5>1
        <4> QED
          BY <3>3, <4>1, <4>2
      <3> QED
        BY <3>1, <3>2, <3>3
    <2>4. \A j, k \in 1..Len(indices_to_compact_') : indices_to_compact_'[j] = indices_to_compact_'[k] => j = k
      BY <1>2, <1>3 DEF Holes
    <2> QED
      BY <2>1, <2>2, <2>3, <2>4
  <1>5. /\ InUse' = InUse \ {last} /\ last \in InUse /\ last > 0 /\ last \in 0..kMaxFds /\ InUse \subseteq Indices
    <2>1. index # 0
      BY <1>2, <1>4, NotAFd DEF Holes
    <2>2. last \in Nat /\ last > 0
      BY <1>2, <1>4, <2>1 DEF TableTypes, InUse
    <2>3. InUse' = InUse \ {last} /\ last \in InUse
      BY <1>1, <1>2, <2>2 DEF InUse, TableTypes
    <2> QED
      BY <1>2, <2>2, <2>3, Ranges DEF TableTypes, InUse
  <1>6. 0 \in InUse /\ index # 0
    BY <1>2, <1>4, <1>5, NotAFd DEF Holes, InUse
  <1>7. CASE index = last
    <2>1. UNCHANGED <<phase, fds_, fd_data_>>
      BY <1>7 DEF CompactOne
    <2>2. \A f \in DOMAIN fd_data_ : fd_data_[f].index # last
      BY <1>2, <1>4, <1>7, NotAFd DEF Linked, OwnerTypes
    <2>3. TableTypes' /\ Linked' /\ Desires'
      BY <1>1, <1>2, <1>3, <1>5, <2>1, <2>2 DEF TableTypes, Linked, Desires
    <2>4. Holes'
      <3>1. \A k \in 1..Len(indices_to_compact_') : indices_to_compact_'[k] \in InUse'
        BY <1>4, <1>5, <1>7
      <3>2. fds_size_' > 0 /\ fds_'[0].fd = PipeFd
        BY <1>1, <1>2, <1>5, <2>1 DEF Holes
      <3>3. \A i \in InUse' : fds_'[i].fd = -1 <=> \E k \in 1..Len(indices_to_compact_') : indices_to_compact_'[k] = i
        BY <1>4, <1>5, <1>7, <2>1
      <3> QED
        BY <1>4, <3>1, <3>2, <3>3 DEF Holes
    <2> QED
      BY <1>1, <2>1, <2>3, <2>4 DEF TableInv
  <1>8. CASE index # last /\ fds_[last].fd = -1
    <2>1. moved \notin DOMAIN fd_data_
      BY <1>2, <1>8, NotAFd DEF OwnerTypes
    <2>2. phase' = "aborted" /\ UNCHANGED <<fds_, fd_data_>>
      BY <1>5, <1>8, <2>1 DEF CompactOne
    <2>3. LastSlotClosed'
      BY <1>1, <1>4, <1>5, <1>8 DEF LastSlotClosed
    <2>4. TableTypes'
      BY <1>1, <1>2, <1>3, <1>5, <2>2 DEF TableTypes
    <2> QED
      BY <2>2, <2>3, <2>4 DEF TableInv
  <1>9. CASE index # last /\ fds_[last].fd # -1
    <2>1. moved # -1 /\ moved \in DOMAIN fd_data_ /\ fd_data_[moved].index = last
      BY <1>2, <1>4, <1>5, <1>9 DEF Linked
    <2>2. /\ fd_data_' = [fd_data_ EXCEPT ![moved].index = index]
          /\ fds_' = [fds_ EXCEPT ![index] = fds_[last]]
          /\ phase' = phase
      BY <1>5, <1>9, <2>1 DEF CompactOne
    <2>3. index \in Indices /\ last \in Indices /\ fds_[last] \in Slot
      BY <1>2, <1>4, <1>5 DEF TableTypes
    <2>4. fds_' \in [Indices -> Slot] /\ fds_'[index] = fds_[last] /\ \A i \in Indices \ {index} : fds_'[i] = fds_[i]
      BY <1>2, <2>2, <2>3 DEF TableTypes
    <2> HIDE DEF index, moved, last
    <2>5. /\ DOMAIN fd_data_' = DOMAIN fd_data_
          /\ fd_data_'[moved] \in Entry(Indices) /\ fd_data_'[moved].index = index
          /\ fd_data_'[moved].data = fd_data_[moved].data
          /\ \A g \in DOMAIN fd_data_ \ {moved} : fd_data_'[g] = fd_data_[g]
      BY <1>2, <2>1, <2>2, <2>3 DEF TableTypes, Entry
    <2>6. TableTypes'
      BY <1>1, <1>2, <1>3, <1>5, <2>4, <2>5 DEF TableTypes
    <2>7. ASSUME NEW g \in DOMAIN fd_data_ \ {moved}
          PROVE  fd_data_[g].index \in InUse \ {last, index}
      <3>1. fd_data_[g].index \in InUse /\ fds_[fd_data_[g].index].fd = g
        BY <1>2 DEF Linked
      <3>2. g # -1
        BY <1>2, NotAFd DEF OwnerTypes
      <3> QED
        BY <1>4, <3>1, <3>2 DEF moved
    <2>8. Linked'
      <3>1. ASSUME NEW g \in DOMAIN fd_data_' PROVE fd_data_'[g].index \in InUse' /\ fds_'[fd_data_'[g].index].fd = g
        <4>1. CASE g = moved
          BY <1>4, <1>5, <1>9, <2>4, <2>5, <4>1 DEF moved
        <4>2. CASE g # moved
          <5>1. fd_data_'[g] = fd_data_[g] /\ fd_data_[g].index \in InUse \ {last, index}
            BY <2>5, <2>7, <4>2
          <5>2. fds_'[fd_data_[g].index] = fds_[fd_data_[g].index]
            BY <1>5, <2>4, <5>1
          <5> QED
            BY <1>2, <1>5, <2>5, <5>1, <5>2 DEF Linked
        <4> QED
          BY <4>1, <4>2
      <3>2. ASSUME NEW i \in InUse', fds_'[i].fd # -1
            PROVE  fds_'[i].fd \in DOMAIN fd_data_' /\ fd_data_'[fds_'[i].fd].index = i
        <4>1. CASE i = index
          BY <2>1, <2>4, <2>5, <4>1 DEF moved
        <4>2. CASE i # index
          <5>1. fds_'[i] = fds_[i] /\ i \in InUse /\ i # last
            BY <1>5, <2>4, <4>2
          <5>2. fds_[i].fd \in DOMAIN fd_data_ /\ fd_data_[fds_[i].fd].index = i
            BY <1>2, <3>2, <5>1 DEF Linked
          <5>3. fds_[i].fd # moved
            BY <2>1, <5>1, <5>2
          <5> QED
            BY <2>5, <5>1, <5>2, <5>3
        <4> QED
          BY <4>1, <4>2
      <3> QED
        BY <3>1, <3>2 DEF Linked
    <2>9. Holes'
      <3>1. \A k \in 1..Len(indices_to_compact_') :
               indices_to_compact_'[k] \in InUse \ {index, last}
        BY <1>4, <2>1 DEF moved
      <3>2. ASSUME NEW i \in InUse'
            PROVE  fds_'[i].fd = -1 <=> \E k \in 1..Len(indices_to_compact_') : indices_to_compact_'[k] = i
        <4>1. CASE i = index
          BY <2>1, <2>4, <3>1, <4>1 DEF moved
        <4>2. CASE i # index
          BY <1>4, <1>5, <2>4, <4>2
        <4> QED
          BY <4>1, <4>2
      <3>3. fds_size_' > 0 /\ fds_'[0].fd = PipeFd
        BY <1>1, <1>2, <1>5, <1>6, <2>4 DEF Holes
      <3> QED
        BY <1>4, <1>5, <3>1, <3>2, <3>3 DEF Holes
    <2>10. Desires'
      <3>1. ASSUME NEW g \in DOMAIN fd_data_' \ {PipeFd}
            PROVE  fds_'[fd_data_'[g].index].write = desire_[fd_data_'[g].data]
        <4>1. CASE g = moved
          BY <1>2, <2>1, <2>4, <2>5, <4>1 DEF Desires
        <4>2. CASE g # moved
          <5>1. fd_data_'[g] = fd_data_[g] /\ fd_data_[g].index \in InUse \ {last, index}
            BY <2>5, <2>7, <4>2
          <5>2. fds_'[fd_data_[g].index] = fds_[fd_data_[g].index]
            BY <1>5, <2>4, <5>1
          <5> QED
            BY <1>2, <1>5, <2>5, <5>1, <5>2 DEF Desires
        <4> QED
          BY <4>1, <4>2
      <3> QED
        BY <1>1, <3>1 DEF Desires
    <2> QED
      BY <1>1, <2>2, <2>6, <2>8, <2>9, <2>10 DEF TableInv
  <1> QED
    BY <1>7, <1>8, <1>9

\* Poll finds the entry of every descriptor it reports.
LEMMA TablePoll == ASSUME TableInv, Poll PROVE TableInv'
  <1>1. UNCHANGED <<fds_, fds_size_, fd_data_, indices_to_compact_, desire_>>
    BY DEF Poll, tableVars, objectVars
  <1>2. PICK ready \in SUBSET ({fds_[i].fd : i \in 0..(fds_size_ - 1)} \ {-1}) :
           ~(ready \subseteq DOMAIN fd_data_) \/ phase' = "events"
    BY DEF Poll
  <1>3. phase = "compact" /\ ready \subseteq DOMAIN fd_data_
    BY <1>2 DEF Poll, TableInv, Linked, InUse
  <1> QED
    BY <1>1, <1>2, <1>3 DEF TableInv, TableTypes, Linked, Holes, Desires, InUse

\* Every step keeps the table in order.
LEMMA NextTable == OwnerInv /\ TableInv /\ [BaseNext]_baseVars => TableInv'
  <1> SUFFICES ASSUME OwnerInv, TableInv, [BaseNext]_baseVars PROVE TableInv'
    OBVIOUS
  <1>1. CASE UNCHANGED baseVars
    BY <1>1 DEF baseVars, tableVars, objectVars, TableInv, TableTypes, Linked, Holes, Desires, InUse,
      LastSlotClosed
  <1>2. CASE EnterLoopStep \/ \E e \in events : DispatchEvent(e)
    <2>1. /\ UNCHANGED <<fds_, fds_size_, fd_data_, indices_to_compact_, desire_>>
          /\ phase # "aborted" /\ phase' # "aborted"
      BY <1>2 DEF EnterLoopStep, DispatchEvent, tableVars, objectVars
    <2> QED
      BY <2>1 DEF TableInv, TableTypes, Linked, Holes, Desires, InUse
  <1> QED
    BY <1>1, <1>2, TableRegister, TableUnregister, TableUpdateDesire, TableCompactOne, TablePoll DEF BaseNext

\* Entries and slots lead to each other, only slots that wait for Compact are dead,
\* and every slot asks for what its object wants, for any number of objects, any
\* size of the table and any number of objects closed between two polls, across
\* reuse of numbers, a full table and an object opened again within a batch.
\* LoopStep's CHECK never fails; Compact's fails only when the slot it would
\* move was itself closed in the same batch, after the hole it is to fill.
THEOREM TableStaysConsistent == BaseSpec => []TableConsistent
  <1>1. OwnerInv /\ TableInv => TableConsistent
    <2> SUFFICES ASSUME OwnerInv, TableInv PROVE TableConsistent
      OBVIOUS
    <2>1. ASSUME phase = "events", NEW f \in DOMAIN fd_data_
          PROVE  fd_data_[f].index < fds_size_ /\ fds_[fd_data_[f].index].fd = f
      BY <2>1 DEF TableInv, Linked, InUse, TableTypes
    <2>2. ASSUME phase = "events", NEW f \in DOMAIN fd_data_ \ {PipeFd}
          PROVE  /\ fd_data_[f].data \in registered_ /\ fd[fd_data_[f].data] = f
                 /\ fds_[fd_data_[f].index].write = desire_[fd_data_[f].data]
      BY <2>2 DEF OwnerInv, Owned, TableInv, Desires
    <2> QED
      BY <2>1, <2>2 DEF TableConsistent, TableInv, Holes, InUse
  <1>2. OwnerInv /\ TableInv /\ [BaseNext]_baseVars => (OwnerInv /\ TableInv)'
    BY NextOwner, NextTable
  <1>3. BaseInit => OwnerInv /\ TableInv
    BY InitOwner, InitTable
  <1> QED
    BY <1>1, <1>2, <1>3, PTL DEF BaseSpec


\* The state has its type throughout; in particular the table does not overflow.
THEOREM BaseTypeCorrect == BaseSpec => []BaseTypeOK
  <1> DEFINE Events == (Selectables \cup {Pipe}) \X (Fds \cup {PipeFd})
             BatchTypes == phase \in {"events", "compact", "aborted"} /\ events \subseteq Events /\ handled \in Events
  <1>1. BaseInit => BatchTypes
    BY DEF BaseInit, NoEvent
  <1>2. OwnerInv /\ BatchTypes /\ [BaseNext]_baseVars => BatchTypes'
    <2> SUFFICES ASSUME OwnerInv, BatchTypes, [BaseNext]_baseVars PROVE BatchTypes'
      OBVIOUS
    <2>1. NoEvent \in Events
      BY DEF NoEvent
    <2>2. CASE \E e \in events : DispatchEvent(e)
      BY <2>1, <2>2 DEF DispatchEvent
    <2>3. CASE Poll
      <3>1. PICK ready : \/ /\ ready \subseteq DOMAIN fd_data_
                            /\ events' = {<<fd_data_[f].data, f>> : f \in ready} /\ phase' = "events"
                         \/ phase' = "aborted" /\ UNCHANGED events
        BY <2>3 DEF Poll
      <3>2. \A f \in DOMAIN fd_data_ : f \in Fds \cup {PipeFd} /\ fd_data_[f].data \in Selectables \cup {Pipe}
        BY DEF OwnerInv, OwnerTypes, Entry
      <3>3. handled' \in Events
        BY <2>1, <2>3 DEF Poll
      <3> QED
        BY <3>1, <3>2, <3>3
    <2>4. CASE \/ UNCHANGED baseVars
               \/ \E s \in Selectables, f \in Fds : Register(s, f)
               \/ \E s \in Selectables : Unregister(s)
               \/ \E s \in Selectables, b \in BOOLEAN : UpdateDesire(s, b)
               \/ EnterLoopStep
               \/ CompactOne
      <3>1. UNCHANGED <<events, handled>> /\ phase' \in {phase, "compact", "aborted"}
        BY <2>4 DEF baseVars, batchVars, Register, Unregister, UpdateDesire, EnterLoopStep, CompactOne
      <3> QED
        BY <3>1
    <2> QED
      BY <2>2, <2>3, <2>4 DEF BaseNext
  <1>3. OwnerInv /\ TableInv /\ BatchTypes => BaseTypeOK
    BY DEF OwnerInv, OwnerTypes, TableInv, TableTypes, Entry, BaseTypeOK
  <1>4. OwnerInv /\ TableInv /\ BatchTypes /\ [BaseNext]_baseVars => (OwnerInv /\ TableInv /\ BatchTypes)'
    BY <1>2, NextOwner, NextTable
  <1>5. BaseInit => OwnerInv /\ TableInv /\ BatchTypes
    BY <1>1, InitOwner, InitTable
  <1> HIDE DEF BatchTypes
  <1> QED
    BY <1>3, <1>4, <1>5, PTL DEF BaseSpec
=============================================================================
