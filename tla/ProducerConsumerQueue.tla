------------------------ MODULE ProducerConsumerQueue ------------------------
(***************************************************************************)
(* synch::ProducerConsumerQueue (common/sync/producer_consumer_queue.h):   *)
(* the bounded queue between the server's threads.  Every operation is a   *)
(* critical section of mutex_; only pthread_cond_wait gives the mutex up   *)
(* in the middle.  A call is therefore an invocation (Call), one or more   *)
(* turns inside the mutex (Turn), and the value left in ret.  GetAll and   *)
(* Clear, which no code calls, are left out.                               *)
(***************************************************************************)
EXTENDS Naturals, Sequences, FiniteSets

CONSTANTS
    Threads,
    Items,
    NULL,        \* what a timed Get returns when there is nothing
    None,        \* no call, no result
    max_size_

ASSUME QueueAssumption ==
    /\ NULL \notin Items
    /\ None \notin Items \cup {NULL, TRUE, FALSE}
    /\ max_size_ \in Nat \ {0}
    /\ IsFiniteSet(Threads)

VARIABLES
    data_,
    cond_full_,   \* threads that sleep until there is some element
    cond_empty_,  \* threads that sleep until there is some free space
    call,         \* thread -> the call it is in
    ret           \* thread -> what its last call returned

queueVars == <<data_, cond_full_, cond_empty_, call, ret>>

\* How long a call may wait: Put(p) and Get(), a timeout, a timeout of 0.
Waits == {"forever", "timed", "no"}

PutCalls == [op : {"Put"}, item : Items \cup {NULL}, wait : Waits, waited : BOOLEAN]
GetCalls == [op : {"Get"}, wait : Waits, waited : BOOLEAN]
Calls == PutCalls \cup GetCalls

ASSUME CallAssumption == None \notin Calls

PutCall(v, w) == [op |-> "Put", item |-> v, wait |-> w, waited |-> FALSE]
GetCall(w)    == [op |-> "Get", wait |-> w, waited |-> FALSE]

IsFull == Len(data_) >= max_size_
IsEmpty == Len(data_) = 0
Sleeping(t) == t \in cond_full_ \cup cond_empty_
Idle(t) == call[t] = None

QueueInit ==
    /\ data_ = <<>>
    /\ cond_full_ = {}
    /\ cond_empty_ = {}
    /\ call = [t \in Threads |-> None]
    /\ ret = [t \in Threads |-> None]

Call(t, c) ==
    /\ Idle(t)
    /\ call' = [call EXCEPT ![t] = c]
    /\ ret' = [ret EXCEPT ![t] = None]
    /\ UNCHANGED <<data_, cond_full_, cond_empty_>>

Return(t, value) ==
    /\ call' = [call EXCEPT ![t] = None]
    /\ ret' = [ret EXCEPT ![t] = value]

\* pthread_cond_signal: one sleeper, any of them, goes back for the mutex.
Signalled(cond, left) ==
    IF cond = {} THEN left = {} ELSE \E t \in cond : left = cond \ {t}

\* Sleep at all?  Put(p) and Get() loop; the timed calls wait once.
MayWait(t) == call[t].wait = "forever" \/ (call[t].wait = "timed" /\ ~call[t].waited)

Sleep(t) == call' = [call EXCEPT ![t].waited = TRUE]

\* Mutant of PutTurn: the signal is missing.
PutTurnSilent(t) ==
    /\ ~Idle(t) /\ ~Sleeping(t) /\ call[t].op = "Put"
    /\ ~IsFull
    /\ data_' = Append(data_, call[t].item)
    /\ Return(t, TRUE)
    /\ UNCHANGED <<cond_full_, cond_empty_>>

PutTurn(t) ==
    /\ ~Idle(t) /\ ~Sleeping(t) /\ call[t].op = "Put"
    /\ \/ /\ IsFull /\ MayWait(t)
          /\ cond_empty_' = cond_empty_ \cup {t}
          /\ Sleep(t)
          /\ UNCHANGED <<data_, cond_full_, ret>>
       \/ /\ IsFull /\ ~MayWait(t)
          /\ Return(t, FALSE)
          /\ UNCHANGED <<data_, cond_full_, cond_empty_>>
       \/ /\ ~IsFull
          /\ data_' = Append(data_, call[t].item)
          /\ Signalled(cond_full_, cond_full_')
          /\ Return(t, TRUE)
          /\ UNCHANGED cond_empty_

\* A timed Get signals cond_empty_ even when it found nothing.
GetTurn(t) ==
    /\ ~Idle(t) /\ ~Sleeping(t) /\ call[t].op = "Get"
    /\ \/ /\ IsEmpty /\ MayWait(t)
          /\ cond_full_' = cond_full_ \cup {t}
          /\ Sleep(t)
          /\ UNCHANGED <<data_, cond_empty_, ret>>
       \/ /\ IsEmpty /\ ~MayWait(t)
          /\ Signalled(cond_empty_, cond_empty_')
          /\ Return(t, NULL)
          /\ UNCHANGED <<data_, cond_full_>>
       \/ /\ ~IsEmpty
          /\ data_' = Tail(data_)
          /\ Signalled(cond_empty_, cond_empty_')
          /\ Return(t, Head(data_))
          /\ UNCHANGED cond_full_

\* A timed sleeper's timeout, or a spurious wake-up of any sleeper.
WakeUp(t) ==
    /\ Sleeping(t)
    /\ cond_full_' = cond_full_ \ {t}
    /\ cond_empty_' = cond_empty_ \ {t}
    /\ UNCHANGED <<data_, call, ret>>

Timeout(t) == ~Idle(t) /\ call[t].wait = "timed" /\ WakeUp(t)

Turn(t) == PutTurn(t) \/ GetTurn(t)

-----------------------------------------------------------------------------
(* Properties of the queue, whoever its clients are. *)

\* A call sleeps on the condition it waits for and on no other, and every
\* thread on a condition is inside the matching call.
QueueTypeOK ==
    /\ data_ \in Seq(Items \cup {NULL})
    /\ call \in [Threads -> Calls \cup {None}]
    /\ ret \in [Threads -> Items \cup {NULL, None, TRUE, FALSE}]
    /\ \A t \in cond_full_ :
         t \in Threads /\ ~Idle(t) /\ call[t].op = "Get" /\ call[t].wait # "no" /\ call[t].waited
    /\ \A t \in cond_empty_ :
         t \in Threads /\ ~Idle(t) /\ call[t].op = "Put" /\ call[t].wait # "no" /\ call[t].waited

\* Threads inside an operation that are not asleep.
Awake(o) == {t \in Threads : ~Idle(t) /\ call[t].op = o /\ ~Sleeping(t)}

\* While a thread sleeps in Get each element of the queue has a thread coming for
\* it, and while one sleeps in Put each free place has (the signals of Put and
\* Get; producer_consumer_queue.h:157: cond_empty_ is "triggered when is some
\* free space in queue").
NobodySleepsInVain ==
    /\ cond_full_ # {} => Len(data_) <= Cardinality(Awake("Get"))
    /\ cond_empty_ # {} => max_size_ - Len(data_) <= Cardinality(Awake("Put"))
=============================================================================
