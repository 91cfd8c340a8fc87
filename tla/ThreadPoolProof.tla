--------------------------- MODULE ThreadPoolProof ---------------------------
(***************************************************************************)
(* Safety of the queue and of the thread pool for any finite set of        *)
(* threads, any jobs and any queue size.  As in the run, producers are     *)
(* done when Stop() is called, and the pool is not fed while it stops.     *)
(***************************************************************************)
EXTENDS ThreadPool, FiniteSetTheorems, SequenceTheorems, TLAPS

-----------------------------------------------------------------------------
(* Which call a thread is in *)

Gets(t, w) == ~Idle(t) /\ call[t].op = "Get" /\ call[t].wait = w
PutsNull(t) == ~Idle(t) /\ call[t].op = "Put" /\ call[t].item = NULL /\ call[t].wait = "forever"
PutsJob(t, j) == ~Idle(t) /\ call[t].op = "Put" /\ call[t].item = j

CallsMatch ==
    /\ \A w \in Workers :
          /\ pc[w] = "get" => Idle(w) \/ Gets(w, "forever")
          /\ pc[w] = "reput" => Idle(w) \/ PutsNull(w)
          /\ pc[w] \notin {"get", "reput"} => Idle(w)
          /\ pc[w] = "get" /\ Idle(w) => ret[w] \in Items \cup {NULL}
    /\ pc[Owner] \in {"cancelling", "last_job"} => Idle(Owner) \/ Gets(Owner, "no")
    /\ pc[Owner] = "put_null" => Idle(Owner) \/ PutsNull(Owner)
    /\ pc[Owner] \notin {"cancelling", "last_job", "put_null"} => Idle(Owner)
    /\ pc[Owner] \in {"cancelling", "last_job"} /\ Idle(Owner) => ret[Owner] \in Items \cup {NULL}
    /\ \A p \in Producers :
          /\ hand[p] = None => Idle(p)
          /\ hand[p] # None => Idle(p) \/ PutsJob(p, hand[p])
          /\ hand[p] # None /\ Idle(p) => ret[p] \in BOOLEAN

-----------------------------------------------------------------------------
(* Where a job is *)

InData(j) == \E i \in DOMAIN data_ : data_[i] = j

\* A worker about to run j, or the owner about to delete it.
Has(t, j) ==
    /\ Idle(t) /\ ret[t] = j
    /\ \/ t \in Workers /\ pc[t] = "get"
       \/ t = Owner /\ pc[t] \in {"cancelling", "last_job"}

Fresh(j) ==
    /\ ~InData(j) /\ run[j] = 0 /\ j \notin deleted
    /\ \A t \in Workers \cup {Owner} : ~Has(t, j)

\* The producer that still has j: Put has not returned, or returned false.
StillWith(p, j) == hand[p] = j /\ (~Idle(p) \/ ret[p] = FALSE)

JobsOnce ==
    \A j \in Items :
       /\ j \notin given => Fresh(j) /\ \A p \in Producers : hand[p] # j
       /\ \A p \in Producers : hand[p] = j => \A r \in Producers : hand[r] = j => p = r
       /\ \A p \in Producers : StillWith(p, j) => Fresh(j)
       /\ \A i, k \in DOMAIN data_ : data_[i] = j /\ data_[k] = j => i = k
       /\ InData(j) => run[j] = 0 /\ j \notin deleted /\ \A t \in Workers \cup {Owner} : ~Has(t, j)
       /\ \A t \in Workers \cup {Owner} : Has(t, j) =>
             /\ run[j] = 0 /\ j \notin deleted
             /\ \A u \in Workers \cup {Owner} : Has(u, j) => t = u
       /\ run[j] \in {0, 1}
       /\ run[j] = 1 => j \notin deleted

JobsKept ==
    \A j \in given :
       \/ \E p \in Producers : StillWith(p, j)
       \/ InData(j)
       \/ \E t \in Workers \cup {Owner} : Has(t, j)
       \/ run[j] = 1
       \/ cancel /\ j \in deleted

CancelSaid == pc[Owner] = "cancelling" => cancel

-----------------------------------------------------------------------------
(* Where the NULL job is *)

NullPutDone == pc[Owner] = "joining" \/ (pc[Owner] = "put_null" /\ Idle(Owner))
HasNull(w) == (pc[w] = "get" /\ Idle(w) /\ ret[w] = NULL) \/ (pc[w] = "reput" /\ ~Idle(w))
OwnerGetsNull == pc[Owner] = "last_job" /\ ~Idle(Owner)

NullOnce ==
    /\ \A i \in DOMAIN data_ : data_[i] = NULL =>
          i = Len(data_) /\ (NullPutDone \/ OwnerGetsNull) /\ \A w \in Workers : ~HasNull(w)
    /\ \A w \in Workers : HasNull(w) =>
          data_ = <<>> /\ NullPutDone /\ \A v \in Workers : HasNull(v) => v = w
    /\ NullPutDone \/ OwnerGetsNull => InData(NULL) \/ \E w \in Workers : HasNull(w)
    /\ \A w \in Workers : pc[w] \in {"reput", "exited"} =>
          /\ \A i \in DOMAIN data_ : data_[i] = NULL
          /\ NullPutDone \/ pc[Owner] \in {"last_job", "is_empty", "stopped"}
    /\ pc[Owner] \in {"last_job", "is_empty", "stopped"} => \A w \in Workers : pc[w] = "exited"
    /\ pc[Owner] = "last_job" /\ Idle(Owner) => data_ = <<>> /\ ret[Owner] = NULL
    /\ pc[Owner] \in {"is_empty", "stopped"} => data_ = <<>>
    /\ pc[Owner] = "new" => \A w \in Workers : pc[w] = "unborn"
    /\ pc[Owner] # "new" => \A w \in Workers : pc[w] # "unborn"
    /\ pc[Owner] # "aborted"
    /\ pc[Owner] \notin {"new", "started"} => \A p \in Producers : hand[p] = None

PoolInv == PoolTypeOK /\ CallsMatch /\ JobsOnce /\ JobsKept /\ CancelSaid /\ NullOnce
SleepInv == QueueTypeOK /\ NobodySleepsInVain

-----------------------------------------------------------------------------
(* The queue *)

\* The five ways a turn inside the mutex ends.
Sleeps(t) ==
    /\ call'[t] # None /\ call'[t].op = call[t].op /\ call'[t].wait = call[t].wait
    /\ call[t].op = "Put" => call'[t].item = call[t].item
    /\ UNCHANGED <<data_, ret>>

PutFails(t) ==
    /\ call[t].op = "Put" /\ call[t].wait # "forever"
    /\ call'[t] = None /\ ret'[t] = FALSE /\ UNCHANGED data_

PutDone(t) ==
    /\ call[t].op = "Put" /\ data_' = Append(data_, call[t].item)
    /\ call'[t] = None /\ ret'[t] = TRUE

GetNothing(t) ==
    /\ call[t].op = "Get" /\ call[t].wait # "forever" /\ data_ = <<>>
    /\ call'[t] = None /\ ret'[t] = NULL /\ UNCHANGED data_

GetDone(t) ==
    /\ call[t].op = "Get" /\ data_ # <<>> /\ data_' = Tail(data_)
    /\ call'[t] = None /\ ret'[t] = Head(data_)

\* Calls by what they ask for.
LEMMA CallTypes ==
    /\ \A v \in Items \cup {NULL}, w \in Waits : PutCall(v, w) \in Calls
    /\ \A w \in Waits : GetCall(w) \in Calls
    /\ \A v, w : PutCall(v, w).op = "Put" /\ PutCall(v, w).item = v /\ PutCall(v, w).wait = w
    /\ \A w : GetCall(w).op = "Get" /\ GetCall(w).wait = w
    /\ \A c \in Calls : /\ c # None /\ c.op \in {"Put", "Get"} /\ c.wait \in Waits
                        /\ c.op = "Put" => c.item \in Items \cup {NULL}
                        /\ c.op = "Put" => c \in PutCalls
                        /\ c.op = "Get" => c \in GetCalls
  BY CallAssumption DEF Calls, PutCalls, GetCalls, PutCall, GetCall

\* A call begins: nothing is done to the queue yet.
LEMMA CallEffect ==
    ASSUME QueueTypeOK, NEW t \in Threads, NEW c \in Calls, Call(t, c)
    PROVE  /\ QueueTypeOK'
           /\ call[t] = None /\ call'[t] = c /\ call'[t] # None
           /\ \A u \in Threads : u # t => call'[u] = call[u] /\ ret'[u] = ret[u]
           /\ UNCHANGED <<data_, cond_full_, cond_empty_>>
  <1>1. /\ call[t] = None /\ call' = [call EXCEPT ![t] = c] /\ ret' = [ret EXCEPT ![t] = None]
        /\ UNCHANGED <<data_, cond_full_, cond_empty_>>
    BY DEF Call, Idle
  <1>2. /\ call' \in [Threads -> Calls \cup {None}] /\ call'[t] = c
        /\ ret' \in [Threads -> Items \cup {NULL, None, TRUE, FALSE}]
        /\ \A u \in Threads : u # t => call'[u] = call[u] /\ ret'[u] = ret[u]
    BY <1>1 DEF QueueTypeOK
  <1>3. t \notin cond_full_ /\ t \notin cond_empty_
    BY <1>1 DEF QueueTypeOK, Idle
  <1>4. QueueTypeOK'
    BY <1>1, <1>2, <1>3 DEF QueueTypeOK, Idle
  <1> QED
    BY <1>1, <1>2, <1>4, CallTypes

\* A sleeper is woken up.
LEMMA SignalledEffect ==
    ASSUME NEW cond, NEW left, Signalled(cond, left)
    PROVE  /\ left \subseteq cond
           /\ left # {} => \E u \in cond : left = cond \ {u}
  BY DEF Signalled

\* What a turn does, and that it leaves the queue well typed.
LEMMA TurnEffect ==
    ASSUME QueueTypeOK, NEW t \in Threads, Turn(t)
    PROVE  /\ QueueTypeOK' /\ call[t] # None
           /\ \A u \in Threads : u # t => call'[u] = call[u] /\ ret'[u] = ret[u]
           /\ Sleeps(t) \/ PutFails(t) \/ PutDone(t) \/ GetNothing(t) \/ GetDone(t)
  <1>1. /\ call[t] # None /\ t \notin cond_full_ /\ t \notin cond_empty_ /\ call[t] \in Calls
        /\ call \in [Threads -> Calls \cup {None}]
        /\ ret \in [Threads -> Items \cup {NULL, None, TRUE, FALSE}]
        /\ data_ \in Seq(Items \cup {NULL})
    BY DEF Turn, PutTurn, GetTurn, Idle, Sleeping, QueueTypeOK
  <1>2. /\ call[t].op = "Put" => call[t].item \in Items \cup {NULL}
        /\ call[t].wait \in Waits
    BY <1>1, CallTypes
  \* returns
  <1>3. ASSUME NEW v \in Items \cup {NULL, TRUE, FALSE}, Return(t, v),
               data_' \in Seq(Items \cup {NULL}),
               cond_full_' \subseteq cond_full_, cond_empty_' \subseteq cond_empty_
        PROVE  /\ QueueTypeOK' /\ call'[t] = None /\ ret'[t] = v
               /\ \A u \in Threads : u # t => call'[u] = call[u] /\ ret'[u] = ret[u]
    <2>1. /\ call' \in [Threads -> Calls \cup {None}] /\ call'[t] = None
          /\ ret' \in [Threads -> Items \cup {NULL, None, TRUE, FALSE}] /\ ret'[t] = v
          /\ \A u \in Threads : u # t => call'[u] = call[u] /\ ret'[u] = ret[u]
      BY <1>1, <1>3 DEF Return
    <2>2. \A u \in cond_full_' : /\ u \in Threads /\ ~(call'[u] = None) /\ call'[u].op = "Get"
                                 /\ call'[u].wait # "no" /\ call'[u].waited
      BY <1>1, <1>3, <2>1 DEF QueueTypeOK, Idle
    <2>3. \A u \in cond_empty_' : /\ u \in Threads /\ ~(call'[u] = None) /\ call'[u].op = "Put"
                                  /\ call'[u].wait # "no" /\ call'[u].waited
      BY <1>1, <1>3, <2>1 DEF QueueTypeOK, Idle
    <2> QED
      BY <1>3, <2>1, <2>2, <2>3 DEF QueueTypeOK, Idle
  \* goes to sleep
  <1>4. ASSUME Sleep(t), MayWait(t), UNCHANGED <<data_, ret>>,
               \/ call[t].op = "Get" /\ cond_full_' = cond_full_ \cup {t} /\ UNCHANGED cond_empty_
               \/ call[t].op = "Put" /\ cond_empty_' = cond_empty_ \cup {t} /\ UNCHANGED cond_full_
        PROVE  /\ QueueTypeOK' /\ Sleeps(t)
               /\ \A u \in Threads : u # t => call'[u] = call[u] /\ ret'[u] = ret[u]
    <2> DEFINE c == [call[t] EXCEPT !.waited = TRUE]
    <2>1. /\ c \in Calls /\ c.op = call[t].op /\ c.wait = call[t].wait /\ c.waited
          /\ call[t].op = "Put" => c.item = call[t].item
      <3>1. CASE call[t].op = "Put"
        <4>1. call[t] \in PutCalls
          BY <1>1, <3>1, CallTypes
        <4> QED
          BY <3>1, <4>1 DEF PutCalls, Calls
      <3>2. CASE call[t].op = "Get"
        <4>1. call[t] \in GetCalls
          BY <1>1, <3>2, CallTypes
        <4> QED
          BY <3>2, <4>1 DEF GetCalls, Calls
      <3> QED
        BY <1>1, <3>1, <3>2, CallTypes
    <2>2. call' = [call EXCEPT ![t] = c]
      BY <1>4 DEF Sleep
    <2> HIDE DEF c
    <2>3. /\ call' \in [Threads -> Calls \cup {None}] /\ call'[t] = c /\ c # None
          /\ \A u \in Threads : u # t => call'[u] = call[u]
      BY <1>1, <2>1, <2>2, CallTypes
    <2>4. c.wait # "no"
      BY <1>4, <2>1 DEF MayWait
    <2>5. \A u \in cond_full_' : /\ u \in Threads /\ ~(call'[u] = None) /\ call'[u].op = "Get"
                                 /\ call'[u].wait # "no" /\ call'[u].waited
      BY <1>1, <1>4, <2>1, <2>3, <2>4 DEF QueueTypeOK, Idle
    <2>6. \A u \in cond_empty_' : /\ u \in Threads /\ ~(call'[u] = None) /\ call'[u].op = "Put"
                                  /\ call'[u].wait # "no" /\ call'[u].waited
      BY <1>1, <1>4, <2>1, <2>3, <2>4 DEF QueueTypeOK, Idle
    <2>7. QueueTypeOK'
      BY <1>1, <1>4, <2>3, <2>5, <2>6 DEF QueueTypeOK, Idle
    <2> QED
      BY <1>4, <2>1, <2>3, <2>7 DEF Sleeps
  <1>5. CASE PutTurn(t)
    <2>1. call[t].op = "Put"
      BY <1>5 DEF PutTurn
    <2>2. CASE /\ IsFull /\ MayWait(t) /\ cond_empty_' = cond_empty_ \cup {t} /\ Sleep(t)
               /\ UNCHANGED <<data_, cond_full_, ret>>
      BY <1>1, <1>4, <2>1, <2>2
    <2>3. CASE ~MayWait(t) /\ Return(t, FALSE) /\ UNCHANGED <<data_, cond_full_, cond_empty_>>
      <3>1. call[t].wait # "forever"
        BY <2>3 DEF MayWait
      <3> QED
        BY <1>1, <1>3, <2>1, <2>3, <3>1 DEF PutFails
    <2>4. CASE /\ data_' = Append(data_, call[t].item) /\ Signalled(cond_full_, cond_full_')
               /\ Return(t, TRUE) /\ UNCHANGED cond_empty_
      <3>1. data_' \in Seq(Items \cup {NULL})
        BY <1>1, <1>2, <2>1, <2>4, AppendProperties
      <3> QED
        BY <1>1, <1>3, <2>1, <2>4, <3>1, SignalledEffect DEF PutDone
    <2> QED
      BY <1>5, <2>2, <2>3, <2>4 DEF PutTurn
  <1>6. CASE GetTurn(t)
    <2>1. call[t].op = "Get"
      BY <1>6 DEF GetTurn
    <2>2. CASE /\ IsEmpty /\ MayWait(t) /\ cond_full_' = cond_full_ \cup {t} /\ Sleep(t)
               /\ UNCHANGED <<data_, cond_empty_, ret>>
      BY <1>1, <1>4, <2>1, <2>2
    <2>3. CASE /\ IsEmpty /\ ~MayWait(t) /\ Signalled(cond_empty_, cond_empty_')
               /\ Return(t, NULL) /\ UNCHANGED <<data_, cond_full_>>
      <3>1. call[t].wait # "forever" /\ data_ = <<>>
        BY <1>1, <2>3, EmptySeq DEF MayWait, IsEmpty
      <3> QED
        BY <1>1, <1>3, <2>1, <2>3, <3>1, SignalledEffect DEF GetNothing
    <2>4. CASE /\ ~IsEmpty /\ data_' = Tail(data_) /\ Signalled(cond_empty_, cond_empty_')
               /\ Return(t, Head(data_)) /\ UNCHANGED cond_full_
      <3>1. data_ # <<>>
        BY <2>4 DEF IsEmpty
      <3>2. data_' \in Seq(Items \cup {NULL}) /\ Head(data_) \in Items \cup {NULL}
        BY <1>1, <2>4, <3>1, HeadTailProperties
      <3> QED
        BY <1>1, <1>3, <2>1, <2>4, <3>1, <3>2, SignalledEffect DEF GetDone
    <2> QED
      BY <1>6, <2>2, <2>3, <2>4 DEF GetTurn
  <1> QED
    BY <1>5, <1>6 DEF Turn


-----------------------------------------------------------------------------
(* Nobody sleeps in vain *)

\* Counting awake threads: the sets are finite, so one more is one more.
LEMMA AwakeCount ==
    ASSUME NEW A, NEW B, A \subseteq Threads, B \subseteq Threads
    PROVE  /\ Cardinality(A) \in Nat /\ Cardinality(B) \in Nat
           /\ A \subseteq B => Cardinality(A) <= Cardinality(B)
           /\ \A u : u \notin A /\ A \cup {u} \subseteq B => Cardinality(A) + 1 <= Cardinality(B)
           /\ \A u \in A : A \ {u} \subseteq B => Cardinality(A) - 1 <= Cardinality(B)
  <1>1. IsFiniteSet(A) /\ IsFiniteSet(B)
    BY QueueAssumption, FS_Subset
  <1>2. Cardinality(A) \in Nat /\ Cardinality(B) \in Nat
    BY <1>1, FS_CardinalityType
  <1>3. \A S \in SUBSET B : Cardinality(S) <= Cardinality(B)
    BY <1>1, FS_Subset
  <1>4. ASSUME NEW u, u \notin A, A \cup {u} \subseteq B
        PROVE  Cardinality(A) + 1 <= Cardinality(B)
    <2>1. Cardinality(A \cup {u}) = Cardinality(A) + 1
      BY <1>1, <1>4, FS_AddElement
    <2> QED
      BY <1>3, <1>4, <2>1
  <1>5. ASSUME NEW u \in A, A \ {u} \subseteq B
        PROVE  Cardinality(A) - 1 <= Cardinality(B)
    <2>1. Cardinality(A \ {u}) = Cardinality(A) - 1
      BY <1>1, FS_RemoveElement
    <2> QED
      BY <1>3, <1>5, <2>1
  <1> QED
    BY <1>2, <1>3, <1>4, <1>5

\* More awake threads, the same queue: nobody new sleeps.
LEMMA MoreAwake ==
    ASSUME SleepInv, UNCHANGED data_, QueueTypeOK',
           cond_full_' \subseteq cond_full_, cond_empty_' \subseteq cond_empty_,
           \A o \in {"Get", "Put"} : Awake(o) \subseteq Awake(o)'
    PROVE  SleepInv'
  <1> DEFINE g == Awake("Get")
             p == Awake("Put")
  <1>1. /\ g \subseteq Threads /\ g' \subseteq Threads /\ p \subseteq Threads /\ p' \subseteq Threads
        /\ g \subseteq g' /\ p \subseteq p'
    BY DEF Awake
  <1>2. /\ cond_full_ # {} => Len(data_) <= Cardinality(g)
        /\ cond_empty_ # {} => max_size_ - Len(data_) <= Cardinality(p)
        /\ Len(data_) \in Nat /\ max_size_ \in Nat
    BY QueueAssumption DEF SleepInv, NobodySleepsInVain, QueueTypeOK
  <1>3. (NobodySleepsInVain)' <=>
           /\ cond_full_' # {} => Len(data_') <= Cardinality(g')
           /\ cond_empty_' # {} => max_size_ - Len(data_') <= Cardinality(p')
    BY DEF NobodySleepsInVain
  <1> HIDE DEF g, p
  <1>4. /\ Cardinality(g) \in Nat /\ Cardinality(g') \in Nat
        /\ Cardinality(p) \in Nat /\ Cardinality(p') \in Nat
        /\ Cardinality(g) <= Cardinality(g') /\ Cardinality(p) <= Cardinality(p')
    BY <1>1, AwakeCount
  <1>5. /\ cond_full_' # {} => Len(data_') <= Cardinality(g')
        /\ cond_empty_' # {} => max_size_ - Len(data_') <= Cardinality(p')
    BY <1>2, <1>4
  <1> QED
    BY <1>3, <1>5 DEF SleepInv


\* A call begins: its thread is awake.
LEMMA SleepCall ==
    ASSUME SleepInv, NEW t \in Threads, NEW c \in Calls, Call(t, c)
    PROVE  SleepInv'
  <1>1. QueueTypeOK
    BY DEF SleepInv
  <1>2. /\ QueueTypeOK' /\ call[t] = None
        /\ \A u \in Threads : u # t => call'[u] = call[u]
        /\ UNCHANGED <<data_, cond_full_, cond_empty_>>
    BY <1>1, CallEffect
  <1>3. \A o \in {"Get", "Put"} : Awake(o) \subseteq Awake(o)'
    BY <1>2 DEF Awake, Idle, Sleeping
  <1> QED
    BY <1>2, <1>3, MoreAwake

\* A sleeper wakes up by itself: its timeout, or for no reason.
LEMMA WakeUpEffect ==
    ASSUME QueueTypeOK, NEW t \in Threads, WakeUp(t)
    PROVE  /\ QueueTypeOK' /\ call[t] # None /\ UNCHANGED <<data_, call, ret>>
           /\ cond_full_' = cond_full_ \ {t} /\ cond_empty_' = cond_empty_ \ {t}
  <1>1. /\ call[t] # None /\ UNCHANGED <<data_, call, ret>>
        /\ cond_full_' = cond_full_ \ {t} /\ cond_empty_' = cond_empty_ \ {t}
    BY DEF WakeUp, QueueTypeOK, Sleeping, Idle
  <1> QED
    BY <1>1 DEF QueueTypeOK, Idle

\* With a wake-up one more thread is awake.
LEMMA SleepWakeUp ==
    ASSUME SleepInv, NEW t \in Threads, WakeUp(t)
    PROVE  SleepInv'
  <1>1. /\ QueueTypeOK' /\ UNCHANGED <<data_, call, ret>>
        /\ cond_full_' = cond_full_ \ {t} /\ cond_empty_' = cond_empty_ \ {t}
    BY WakeUpEffect DEF SleepInv
  <1>2. \A o \in {"Get", "Put"} : Awake(o) \subseteq Awake(o)'
    BY <1>1 DEF Awake, Idle, Sleeping
  <1> QED
    BY <1>1, <1>2, MoreAwake

\* Put and Get: who returns leaves, who is signalled comes.
LEMMA SleepTurn ==
    ASSUME SleepInv, NEW t \in Threads, Turn(t)
    PROVE  SleepInv'
  <1> DEFINE g == Awake("Get")
             p == Awake("Put")
             l == Len(data_)
             GoodEnd == /\ cond_full_' # {} => Len(data_') <= Cardinality(g')
                        /\ cond_empty_' # {} => max_size_ - Len(data_') <= Cardinality(p')
  <1>1. /\ QueueTypeOK /\ QueueTypeOK' /\ call[t] # None
        /\ \A u \in Threads : u # t => call'[u] = call[u]
    BY TurnEffect DEF SleepInv
  <1>2. /\ g \subseteq Threads /\ g' \subseteq Threads /\ p \subseteq Threads /\ p' \subseteq Threads
    BY DEF Awake
  <1>3. /\ Cardinality(g) \in Nat /\ Cardinality(g') \in Nat
        /\ Cardinality(p) \in Nat /\ Cardinality(p') \in Nat
        /\ l \in Nat /\ max_size_ \in Nat
    <2> HIDE DEF g, p
    <2>1. l \in Nat /\ max_size_ \in Nat
      BY <1>1, QueueAssumption DEF QueueTypeOK
    <2> QED
      BY <1>2, <2>1, AwakeCount
  <1>4. /\ cond_full_ # {} => l <= Cardinality(g)
        /\ cond_empty_ # {} => max_size_ - l <= Cardinality(p)
    BY DEF SleepInv, NobodySleepsInVain
  <1>5. GoodEnd => SleepInv'
    BY <1>1 DEF SleepInv, NobodySleepsInVain
  \* who is where
  <1>6. /\ t \notin cond_full_ /\ t \notin cond_empty_
        /\ \A u \in cond_full_ : u \in Threads /\ call[u] # None /\ call[u].op = "Get"
        /\ \A u \in cond_empty_ : u \in Threads /\ call[u] # None /\ call[u].op = "Put"
        /\ cond_full_ \cap cond_empty_ = {}
    BY <1>1 DEF QueueTypeOK, Idle, Turn, PutTurn, GetTurn, Sleeping
  <1>7. CASE PutTurn(t)
    <2>1. call[t].op = "Put" /\ t \in p /\ t \notin g
      BY <1>7 DEF PutTurn, Awake, Idle
    <2>2. CASE IsFull /\ UNCHANGED <<data_, cond_full_>> /\ cond_empty_ \subseteq cond_empty_'
               /\ cond_empty_' \subseteq cond_empty_ \cup {t}
      <3>1. g \subseteq g'
        BY <1>1, <1>6, <2>1, <2>2 DEF Awake, Idle, Sleeping
      <3>2. max_size_ - l <= 0 /\ Len(data_') = l
        BY <1>3, <2>2 DEF IsFull
      <3> HIDE DEF g, p
      <3>3. Cardinality(g) <= Cardinality(g')
        BY <1>2, <3>1, AwakeCount
      <3>4. GoodEnd
        <4> HIDE DEF l
        <4> QED
          BY <1>3, <1>4, <2>2, <3>2, <3>3
      <3> QED
        BY <1>5, <3>4
    <2>3. CASE /\ ~IsFull /\ data_' = Append(data_, call[t].item)
               /\ Signalled(cond_full_, cond_full_') /\ Return(t, TRUE) /\ UNCHANGED cond_empty_
      <3>1. Len(data_') = l + 1
        BY <1>1, <2>1, <2>3, AppendProperties, CallTypes DEF QueueTypeOK
      <3>2. p \ {t} \subseteq p'
        BY <1>1, <1>6, <2>3, SignalledEffect DEF Awake, Idle, Sleeping
      <3>3. Cardinality(p) - 1 <= Cardinality(p')
        <4> HIDE DEF g, p
        <4> QED
          BY <1>2, <2>1, <3>2, AwakeCount
      <3>4. CASE cond_full_' = {}
        <4> HIDE DEF g, p, l
        <4>1. GoodEnd
          BY <1>3, <1>4, <2>3, <3>1, <3>3, <3>4
        <4> QED
          BY <1>5, <4>1
      <3>5. CASE cond_full_' # {}
        <4>1. PICK u \in cond_full_ : cond_full_' = cond_full_ \ {u}
          BY <2>3, <3>5, SignalledEffect
        <4>2. u \notin g /\ g \cup {u} \subseteq g'
          BY <1>1, <1>6, <2>1, <2>3, <4>1 DEF Awake, Idle, Sleeping
        <4> HIDE DEF g, p, l
        <4>3. Cardinality(g) + 1 <= Cardinality(g')
          BY <1>2, <4>2, AwakeCount
        <4>4. l <= Cardinality(g)
          BY <1>4, <4>1
        <4>5. GoodEnd
          BY <1>3, <1>4, <2>3, <3>1, <3>3, <4>3, <4>4
        <4> QED
          BY <1>5, <4>5
      <3> QED
        BY <3>4, <3>5
    <2> QED
      BY <1>7, <2>2, <2>3 DEF PutTurn
  <1>8. CASE GetTurn(t)
    <2>1. call[t].op = "Get" /\ t \in g /\ t \notin p
      BY <1>8 DEF GetTurn, Awake, Idle
    <2>2. CASE IsEmpty /\ UNCHANGED data_ /\ cond_empty_' \subseteq cond_empty_
      <3>1. p \subseteq p'
        BY <1>1, <1>6, <1>8, <2>1, <2>2 DEF Awake, Idle, Sleeping, GetTurn
      <3>2. l = 0 /\ Len(data_') = l
        BY <1>3, <2>2 DEF IsEmpty
      <3> HIDE DEF g, p
      <3>3. Cardinality(p) <= Cardinality(p')
        BY <1>2, <3>1, AwakeCount
      <3>4. GoodEnd
        <4> HIDE DEF l
        <4> QED
          BY <1>3, <1>4, <2>2, <3>2, <3>3
      <3> QED
        BY <1>5, <3>4
    <2>3. CASE /\ ~IsEmpty /\ data_' = Tail(data_) /\ Signalled(cond_empty_, cond_empty_')
               /\ Return(t, Head(data_)) /\ UNCHANGED cond_full_
      <3>1. Len(data_') = l - 1
        <4>1. data_ # <<>>
          BY <2>3 DEF IsEmpty
        <4> QED
          BY <1>1, <2>3, <4>1, HeadTailProperties DEF QueueTypeOK
      <3>2. g \ {t} \subseteq g'
        BY <1>1, <1>6, <2>3, SignalledEffect DEF Awake, Idle, Sleeping
      <3>3. Cardinality(g) - 1 <= Cardinality(g')
        <4> HIDE DEF g, p
        <4> QED
          BY <1>2, <2>1, <3>2, AwakeCount
      <3>4. CASE cond_empty_' = {}
        <4> HIDE DEF g, p, l
        <4>1. GoodEnd
          BY <1>3, <1>4, <2>3, <3>1, <3>3, <3>4
        <4> QED
          BY <1>5, <4>1
      <3>5. CASE cond_empty_' # {}
        <4>1. PICK u \in cond_empty_ : cond_empty_' = cond_empty_ \ {u}
          BY <2>3, <3>5, SignalledEffect
        <4>2. u \notin p /\ p \cup {u} \subseteq p'
          BY <1>1, <1>6, <2>1, <2>3, <4>1 DEF Awake, Idle, Sleeping
        <4> HIDE DEF g, p, l
        <4>3. Cardinality(p) + 1 <= Cardinality(p')
          BY <1>2, <4>2, AwakeCount
        <4>4. max_size_ - l <= Cardinality(p)
          BY <1>4, <4>1
        <4>5. GoodEnd
          BY <1>3, <1>4, <2>3, <3>1, <3>3, <4>3, <4>4
        <4> QED
          BY <1>5, <4>5
      <3> QED
        BY <3>4, <3>5
    <2> QED
      BY <1>8, <2>2, <2>3, SignalledEffect DEF GetTurn
  <1> QED
    BY <1>7, <1>8 DEF Turn


\* What the pool's threads may do to the queue: start a call, take a turn, wake up.
LEMMA QueueStepKinds ==
    ASSUME Next
    PROVE  \/ UNCHANGED queueVars
           \/ \E t \in Threads : \E c \in Calls : Call(t, c)
           \/ \E t \in Threads : Turn(t) \/ WakeUp(t)
  <1>1. /\ Owner \in Threads /\ Workers \subseteq Threads /\ Producers \subseteq Threads
        /\ GetCall("no") \in Calls /\ GetCall("forever") \in Calls
        /\ PutCall(NULL, "forever") \in Calls
        /\ \A j \in Items, w \in Waits : PutCall(j, w) \in Calls
    BY PoolAssumption, CallTypes DEF Waits
  <1>2. CASE Start \/ NullPut \/ CheckLastJob \/ CheckEmpty
    BY <1>2 DEF Start, NullPut, CheckLastJob, CheckEmpty
  <1>3. ASSUME NEW c \in BOOLEAN, Stop(c) PROVE \E t \in Threads : \E d \in Calls : Call(t, d)
    BY <1>1, <1>3 DEF Stop
  <1>4. ASSUME NEW p \in Producers, NEW j \in Items, NEW w \in Waits, PutJob(p, j, w)
        PROVE  \E t \in Threads : \E d \in Calls : Call(t, d)
    BY <1>1, <1>4 DEF PutJob
  <1>5. ASSUME NEW p \in Producers, PutReturned(p) PROVE UNCHANGED queueVars
    BY <1>5 DEF PutReturned
  <1>6. ASSUME NEW w \in Workers, GetJob(w) \/ PutNullBack(w)
        PROVE  \E t \in Threads : \E d \in Calls : Call(t, d)
    BY <1>1, <1>6 DEF GetJob, PutNullBack
  <1>7. ASSUME NEW w \in Workers, RunJob(w) \/ ThreadEnds(w) PROVE UNCHANGED queueVars
    BY <1>7 DEF RunJob, ThreadEnds
  <1>8. CASE CancelNext \/ JoinAll
    BY <1>1, <1>8 DEF CancelNext, JoinAll
  <1>9. ASSUME NEW t \in Threads, QueueStep(t) \/ SpuriousWakeUp(t) PROVE Turn(t) \/ WakeUp(t)
    BY <1>9 DEF QueueStep, SpuriousWakeUp, Timeout
  <1> QED
    BY <1>2, <1>3, <1>4, <1>5, <1>6, <1>7, <1>8, <1>9 DEF Next, WorkerStep, OwnerStep

\* The queue starts empty, and everyone is outside it.
LEMMA InitSleep == Init => SleepInv
  <1> SUFFICES ASSUME Init PROVE SleepInv
    OBVIOUS
  <1>1. QueueTypeOK
    BY DEF Init, QueueInit, QueueTypeOK
  <1> QED
    BY <1>1 DEF Init, QueueInit, SleepInv, NobodySleepsInVain

\* No step leaves somebody asleep for good.
LEMMA NextSleep == SleepInv /\ [Next]_vars => SleepInv'
  <1> SUFFICES ASSUME SleepInv, [Next]_vars PROVE SleepInv'
    OBVIOUS
  <1>1. CASE UNCHANGED queueVars
    BY <1>1 DEF queueVars, SleepInv, NobodySleepsInVain, QueueTypeOK, Awake, Idle, Sleeping
  <1>2. CASE UNCHANGED vars
    BY <1>1, <1>2 DEF vars
  <1>3. ASSUME NEW t \in Threads, NEW c \in Calls, Call(t, c) PROVE SleepInv'
    BY <1>3, SleepCall
  <1>4. ASSUME NEW t \in Threads, Turn(t) PROVE SleepInv'
    BY <1>4, SleepTurn
  <1>5. ASSUME NEW t \in Threads, WakeUp(t) PROVE SleepInv'
    BY <1>5, SleepWakeUp
  <1> QED
    BY <1>1, <1>2, <1>3, <1>4, <1>5, QueueStepKinds

\* While a thread sleeps in Get every element of the queue has a thread coming for
\* it, and while one sleeps in Put every free place has: one signal per Put and Get
\* is enough for any number of threads and any queue size, whatever sleepers
\* wake up by timeout or spuriously (the loops around Wait, PutTurn and GetTurn).
THEOREM SleepersAreWoken == Spec => []NobodySleepsInVain
  <1>1. SleepInv => NobodySleepsInVain
    BY DEF SleepInv
  <1> QED
    BY InitSleep, NextSleep, <1>1, PTL DEF Spec


-----------------------------------------------------------------------------
(* The pool: jobs and the NULL job *)

\* The kinds of threads are different threads.
LEMMA Kinds ==
    /\ Owner \in Threads /\ Owner \notin Workers /\ Owner \notin Producers
    /\ \A w \in Workers : w \in Threads /\ w # Owner /\ w \notin Producers
    /\ \A p \in Producers : p \in Threads /\ p # Owner /\ p \notin Workers
    /\ \A t \in Threads : t \in Workers \/ t \in Producers \/ t = Owner
    /\ \A j \in Items : j # NULL /\ j # None
    /\ None # NULL
  BY PoolAssumption, QueueAssumption

\* Nothing changes but who sleeps.
LEMMA SameView ==
    ASSUME PoolInv, QueueTypeOK',
           UNCHANGED <<data_, ret, pc, cancel, hand, given, run, deleted>>,
           \A u \in Threads :
              /\ call'[u] = None <=> call[u] = None
              /\ call[u] # None => /\ call'[u].op = call[u].op /\ call'[u].wait = call[u].wait
                                   /\ call[u].op = "Put" => call'[u].item = call[u].item
    PROVE  PoolInv'
  <1>1. \A u \in Threads :
           /\ Idle(u)' <=> Idle(u)
           /\ \A w : Gets(u, w)' <=> Gets(u, w)
           /\ PutsNull(u)' <=> PutsNull(u)
           /\ \A j : PutsJob(u, j)' <=> PutsJob(u, j)
    BY DEF Idle, Gets, PutsNull, PutsJob
  <1>2. /\ \A j : InData(j)' <=> InData(j)
        /\ \A t \in Workers \cup {Owner} : \A j : Has(t, j)' <=> Has(t, j)
        /\ \A j \in Items : Fresh(j)' <=> Fresh(j)
        /\ \A p \in Producers : \A j \in Items : StillWith(p, j)' <=> StillWith(p, j)
        /\ \A w \in Workers : HasNull(w)' <=> HasNull(w)
        /\ NullPutDone' <=> NullPutDone
        /\ OwnerGetsNull' <=> OwnerGetsNull
    BY <1>1, Kinds DEF InData, Has, Fresh, StillWith, HasNull, NullPutDone, OwnerGetsNull
  <1>3. PoolTypeOK' /\ CancelSaid'
    BY DEF PoolInv, PoolTypeOK, CancelSaid
  <1>4. CallsMatch'
    BY <1>1, Kinds DEF PoolInv, CallsMatch
  <1>5. JobsOnce'
    BY <1>2 DEF PoolInv, JobsOnce
  <1>6. JobsKept'
    BY <1>2, Kinds DEF PoolInv, JobsKept, PoolTypeOK
  <1>7. NullOnce'
    BY <1>1, <1>2, Kinds DEF PoolInv, NullOnce
  <1> QED
    BY <1>3, <1>4, <1>5, <1>6, <1>7 DEF PoolInv


\* Start: the workers begin their loops; nobody has a job yet.
LEMMA StepStart == ASSUME PoolInv, Start PROVE PoolInv'
  <1>1. /\ pc[Owner] \in {"new", "stopped"} /\ pc'[Owner] = "started"
        /\ \A w \in Workers : pc[w] \in {"unborn", "exited"} /\ pc'[w] = "loop"
        /\ pc' \in [Workers \cup {Owner} -> WorkerPCs \cup OwnerPCs]
        /\ UNCHANGED <<data_, cond_full_, cond_empty_, call, ret, cancel, hand, given, run, deleted>>
    BY Kinds DEF Start, queueVars, history, PoolInv, NullOnce, PoolTypeOK, WorkerPCs, OwnerPCs
  <1>2. /\ \A u \in Threads : Idle(u)' <=> Idle(u)
        /\ \A j : InData(j)' <=> InData(j)
        /\ \A t \in Workers \cup {Owner} : \A j : ~Has(t, j) /\ ~Has(t, j)'
        /\ \A w \in Workers : ~HasNull(w) /\ ~HasNull(w)'
        /\ ~NullPutDone' /\ ~OwnerGetsNull' /\ ~NullPutDone /\ ~OwnerGetsNull
    BY <1>1, Kinds DEF Idle, InData, Has, HasNull, NullPutDone, OwnerGetsNull
  <1>3. PoolTypeOK' /\ CancelSaid'
    BY <1>1 DEF PoolInv, PoolTypeOK, QueueTypeOK, Idle, WorkerPCs, OwnerPCs, CancelSaid
  <1>4. CallsMatch'
    BY <1>1, <1>2, Kinds DEF PoolInv, CallsMatch, Idle, PutsJob
  <1>5. JobsOnce'
    BY <1>1, <1>2, Kinds DEF PoolInv, JobsOnce, Fresh, StillWith
  <1>6. JobsKept'
    BY <1>1, <1>2, Kinds DEF PoolInv, JobsKept, StillWith
  <1>7. NullOnce'
    BY <1>1, <1>2, Kinds DEF PoolInv, NullOnce
  <1> QED
    BY <1>3, <1>4, <1>5, <1>6, <1>7 DEF PoolInv

\* Stop's NULL job is in the queue: Stop waits for the workers.
LEMMA StepNullPut == ASSUME PoolInv, NullPut PROVE PoolInv'
  <1>1. /\ pc[Owner] = "put_null" /\ pc'[Owner] = "joining" /\ Idle(Owner)
        /\ \A w \in Workers : pc'[w] = pc[w]
        /\ pc' \in [Workers \cup {Owner} -> WorkerPCs \cup OwnerPCs]
        /\ UNCHANGED <<data_, cond_full_, cond_empty_, call, ret, cancel, hand, given, run, deleted>>
    BY Kinds DEF NullPut, GoTo, queueVars, history, PoolInv, PoolTypeOK, WorkerPCs, OwnerPCs
  <1>2. /\ \A u \in Threads : Idle(u)' <=> Idle(u)
        /\ \A j : InData(j)' <=> InData(j)
        /\ \A t \in Workers \cup {Owner} : \A j : Has(t, j)' <=> Has(t, j)
        /\ \A w \in Workers : HasNull(w)' <=> HasNull(w)
        /\ NullPutDone' /\ ~OwnerGetsNull' /\ NullPutDone /\ ~OwnerGetsNull
    BY <1>1, Kinds DEF Idle, InData, Has, HasNull, NullPutDone, OwnerGetsNull
  <1>3. PoolTypeOK' /\ CancelSaid'
    BY <1>1 DEF PoolInv, PoolTypeOK, QueueTypeOK, Idle, WorkerPCs, OwnerPCs, CancelSaid
  <1>4. CallsMatch'
    BY <1>1, <1>2, Kinds DEF PoolInv, CallsMatch, Idle, PutsJob, Gets, PutsNull
  <1>5. JobsOnce'
    BY <1>1, <1>2, Kinds DEF PoolInv, JobsOnce, Fresh, StillWith
  <1>6. JobsKept'
    BY <1>1, <1>2, Kinds DEF PoolInv, JobsKept, StillWith
  <1>7. NullOnce'
    BY <1>1, <1>2, Kinds DEF PoolInv, NullOnce
  <1> QED
    BY <1>3, <1>4, <1>5, <1>6, <1>7 DEF PoolInv

\* CHECK_NULL(last_job): the job Stop took last is the NULL job.
LEMMA StepCheckLastJob == ASSUME PoolInv, CheckLastJob PROVE PoolInv'
  <1>1. /\ pc[Owner] = "last_job" /\ pc'[Owner] = "is_empty" /\ Idle(Owner)
        /\ ret[Owner] = NULL /\ data_ = <<>>
        /\ \A w \in Workers : pc'[w] = pc[w]
        /\ pc' \in [Workers \cup {Owner} -> WorkerPCs \cup OwnerPCs]
        /\ UNCHANGED <<data_, cond_full_, cond_empty_, call, ret, cancel, hand, given, run, deleted>>
    BY Kinds DEF CheckLastJob, GoTo, queueVars, history, PoolInv, PoolTypeOK, NullOnce, WorkerPCs, OwnerPCs
  <1>2. /\ \A u \in Threads : Idle(u)' <=> Idle(u)
        /\ \A j : InData(j)' <=> InData(j)
        /\ \A t \in Workers \cup {Owner} : \A j \in Items : Has(t, j)' <=> Has(t, j)
        /\ \A w \in Workers : HasNull(w)' <=> HasNull(w)
        /\ ~NullPutDone' /\ ~OwnerGetsNull' /\ ~NullPutDone /\ ~OwnerGetsNull
    BY <1>1, Kinds DEF Idle, InData, Has, HasNull, NullPutDone, OwnerGetsNull
  <1>3. PoolTypeOK' /\ CancelSaid'
    BY <1>1 DEF PoolInv, PoolTypeOK, QueueTypeOK, Idle, WorkerPCs, OwnerPCs, CancelSaid
  <1>4. CallsMatch'
    BY <1>1, <1>2, Kinds DEF PoolInv, CallsMatch, Idle, PutsJob, Gets, PutsNull
  <1>5. JobsOnce'
    BY <1>1, <1>2, Kinds DEF PoolInv, JobsOnce, Fresh, StillWith
  <1>6. JobsKept'
    BY <1>1, <1>2, Kinds DEF PoolInv, JobsKept, StillWith, PoolTypeOK
  <1>7. NullOnce'
    BY <1>1, <1>2, Kinds DEF PoolInv, NullOnce
  <1> QED
    BY <1>3, <1>4, <1>5, <1>6, <1>7 DEF PoolInv

\* CHECK(jobs_.IsEmpty()): nothing was left behind the NULL job.
LEMMA StepCheckEmpty == ASSUME PoolInv, CheckEmpty PROVE PoolInv'
  <1>1. /\ pc[Owner] = "is_empty" /\ data_ = <<>>
        /\ UNCHANGED <<data_, cond_full_, cond_empty_, call, ret, cancel, hand, given, run, deleted>>
    BY DEF CheckEmpty, queueVars, history, PoolInv, NullOnce
  <1>2. IsEmpty
    BY <1>1, EmptySeq DEF IsEmpty
  <1>3. /\ pc'[Owner] = "stopped"
        /\ \A w \in Workers : pc'[w] = pc[w]
        /\ pc' \in [Workers \cup {Owner} -> WorkerPCs \cup OwnerPCs]
    BY <1>1, <1>2, Kinds DEF CheckEmpty, GoTo, PoolInv, PoolTypeOK, WorkerPCs, OwnerPCs
  <1>4. /\ \A u \in Threads : Idle(u)' <=> Idle(u)
        /\ \A j : InData(j)' <=> InData(j)
        /\ \A t \in Workers \cup {Owner} : \A j \in Items : Has(t, j)' <=> Has(t, j)
        /\ \A w \in Workers : HasNull(w)' <=> HasNull(w)
        /\ ~NullPutDone' /\ ~OwnerGetsNull' /\ ~NullPutDone /\ ~OwnerGetsNull
    BY <1>1, <1>3, Kinds DEF Idle, InData, Has, HasNull, NullPutDone, OwnerGetsNull
  <1>5. PoolTypeOK' /\ CancelSaid'
    BY <1>1, <1>3 DEF PoolInv, PoolTypeOK, QueueTypeOK, Idle, WorkerPCs, OwnerPCs, CancelSaid
  <1>6. CallsMatch'
    BY <1>1, <1>3, <1>4, Kinds DEF PoolInv, CallsMatch, Idle, PutsJob, Gets, PutsNull
  <1>7. JobsOnce'
    BY <1>1, <1>3, <1>4, Kinds DEF PoolInv, JobsOnce, Fresh, StillWith
  <1>8. JobsKept'
    BY <1>1, <1>3, <1>4, Kinds DEF PoolInv, JobsKept, StillWith, PoolTypeOK
  <1>9. NullOnce'
    BY <1>1, <1>3, <1>4, Kinds DEF PoolInv, NullOnce
  <1> QED
    BY <1>5, <1>6, <1>7, <1>8, <1>9 DEF PoolInv


\* A producer's Put returned: a job that was refused is his again.
LEMMA StepPutReturned ==
    ASSUME PoolInv, NEW p \in Producers, PutReturned(p)
    PROVE  PoolInv'
  <1> DEFINE j == hand[p]
  <1>1. /\ j \in Items /\ Idle(p) /\ ret[p] \in BOOLEAN /\ hand'[p] = None
        /\ \A q \in Producers : q # p => hand'[q] = hand[q]
        /\ hand' \in [Producers -> Items \cup {None}]
        /\ given' = IF ret[p] THEN given ELSE given \ {j}
        /\ UNCHANGED <<data_, cond_full_, cond_empty_, call, ret, pc, cancel, run, deleted>>
    BY Kinds DEF PutReturned, queueVars, PoolInv, PoolTypeOK, CallsMatch
  <1>2. \A q \in Producers : q # p => hand[q] # j
    BY <1>1 DEF PoolInv, JobsOnce
  <1>3. ~ret[p] => StillWith(p, j) /\ Fresh(j)
    BY <1>1 DEF StillWith, PoolInv, JobsOnce
  <1>4. /\ \A u \in Threads : Idle(u)' <=> Idle(u)
        /\ \A k : InData(k)' <=> InData(k)
        /\ \A t \in Workers \cup {Owner} : \A k : Has(t, k)' <=> Has(t, k)
        /\ \A k \in Items : Fresh(k)' <=> Fresh(k)
        /\ \A q \in Producers, k \in Items : StillWith(q, k)' <=> StillWith(q, k) /\ q # p
        /\ \A w \in Workers : HasNull(w)' <=> HasNull(w)
        /\ NullPutDone' <=> NullPutDone
        /\ OwnerGetsNull' <=> OwnerGetsNull
    BY <1>1, Kinds DEF Idle, InData, Has, Fresh, StillWith, HasNull, NullPutDone, OwnerGetsNull
  <1>5. \A k \in Items : StillWith(p, k) => k = j /\ ~ret[p]
    BY <1>1 DEF StillWith
  <1> HIDE DEF j
  <1>6. PoolTypeOK' /\ CancelSaid'
    BY <1>1 DEF PoolInv, PoolTypeOK, QueueTypeOK, Idle, CancelSaid
  <1>7. CallsMatch'
    BY <1>1, <1>4, Kinds DEF PoolInv, CallsMatch, Idle, PutsJob, Gets, PutsNull
  <1>8. JobsOnce'
    BY <1>1, <1>2, <1>3, <1>4, Kinds DEF PoolInv, JobsOnce
  <1>9. JobsKept'
    BY <1>1, <1>4, <1>5, Kinds DEF PoolInv, JobsKept, PoolTypeOK
  <1>10. NullOnce'
    BY <1>1, <1>4, Kinds DEF PoolInv, NullOnce
  <1> QED
    BY <1>6, <1>7, <1>8, <1>9, <1>10 DEF PoolInv

\* callback->Run(): the job this worker took is run, for the first time.
LEMMA StepRunJob ==
    ASSUME PoolInv, NEW w \in Workers, RunJob(w)
    PROVE  PoolInv'
  <1> DEFINE j == ret[w]
  <1>1. /\ pc[w] = "get" /\ pc'[w] = "loop" /\ j \in Items /\ Idle(w)
        /\ pc'[Owner] = pc[Owner]
        /\ \A v \in Workers : v # w => pc'[v] = pc[v]
        /\ pc' \in [Workers \cup {Owner} -> WorkerPCs \cup OwnerPCs]
        /\ UNCHANGED <<data_, cond_full_, cond_empty_, call, ret, cancel, hand, given, deleted>>
        /\ run' \in [Items -> Nat] /\ run'[j] = run[j] + 1
        /\ \A k \in Items : k # j => run'[k] = run[k]
    BY Kinds DEF RunJob, GoTo, queueVars, PoolInv, PoolTypeOK, WorkerPCs
  <1>2. Has(w, j)
    BY <1>1 DEF Has
  <1>3. /\ run[j] = 0 /\ j \notin deleted /\ ~InData(j) /\ j \in given
        /\ \A p \in Producers : ~StillWith(p, j)
        /\ \A t \in Workers \cup {Owner} : Has(t, j) => t = w
    BY <1>1, <1>2 DEF PoolInv, JobsOnce, Fresh
  <1>4. /\ \A u \in Threads : Idle(u)' <=> Idle(u)
        /\ \A k : InData(k)' <=> InData(k)
        /\ \A t \in Workers \cup {Owner} : \A k : Has(t, k)' <=> Has(t, k) /\ t # w
        /\ \A k : Has(w, k) => k = j
        /\ \A q \in Producers, k \in Items : StillWith(q, k)' <=> StillWith(q, k)
        /\ \A v \in Workers : HasNull(v)' <=> HasNull(v)
        /\ NullPutDone' <=> NullPutDone
        /\ OwnerGetsNull' <=> OwnerGetsNull
    BY <1>1, Kinds DEF Idle, InData, Has, StillWith, HasNull, NullPutDone, OwnerGetsNull
  <1> HIDE DEF j
  <1>5. PoolTypeOK' /\ CancelSaid'
    BY <1>1 DEF PoolInv, PoolTypeOK, QueueTypeOK, Idle, CancelSaid, WorkerPCs, OwnerPCs
  <1>6. CallsMatch'
    BY <1>1, <1>4, Kinds DEF PoolInv, CallsMatch, Idle, PutsJob, Gets, PutsNull
  <1>7. JobsOnce'
    <2>1. ASSUME NEW k \in Items, k # j PROVE Fresh(k) => Fresh(k)'
      BY <1>1, <1>4, <2>1 DEF Fresh
    <2>2. run'[j] = 1 /\ \A t \in Workers \cup {Owner} : \A k : k = j => ~Has(t, k)'
      BY <1>1, <1>3, <1>4
    <2> QED
      BY <1>1, <1>3, <1>4, <2>1, <2>2 DEF PoolInv, JobsOnce
  <1>8. JobsKept'
    BY <1>1, <1>3, <1>4, Kinds DEF PoolInv, JobsKept, PoolTypeOK
  <1>9. NullOnce'
    BY <1>1, <1>4, Kinds DEF PoolInv, NullOnce
  <1> QED
    BY <1>5, <1>6, <1>7, <1>8, <1>9 DEF PoolInv

\* ThreadRun returns: the NULL job is back in the queue.
LEMMA StepThreadEnds ==
    ASSUME PoolInv, NEW w \in Workers, ThreadEnds(w)
    PROVE  PoolInv'
  <1>1. /\ pc[w] = "reput" /\ pc'[w] = "exited" /\ Idle(w)
        /\ pc'[Owner] = pc[Owner]
        /\ \A v \in Workers : v # w => pc'[v] = pc[v]
        /\ pc' \in [Workers \cup {Owner} -> WorkerPCs \cup OwnerPCs]
        /\ UNCHANGED <<data_, cond_full_, cond_empty_, call, ret, cancel, hand, given, run, deleted>>
    BY Kinds DEF ThreadEnds, GoTo, queueVars, history, PoolInv, PoolTypeOK, WorkerPCs
  <1>2. /\ \A u \in Threads : Idle(u)' <=> Idle(u)
        /\ \A k : InData(k)' <=> InData(k)
        /\ \A t \in Workers \cup {Owner} : \A k : Has(t, k)' <=> Has(t, k)
        /\ \A q \in Producers, k \in Items : StillWith(q, k)' <=> StillWith(q, k)
        /\ \A v \in Workers : HasNull(v)' <=> HasNull(v)
        /\ NullPutDone' <=> NullPutDone
        /\ OwnerGetsNull' <=> OwnerGetsNull
    BY <1>1, Kinds DEF Idle, InData, Has, StillWith, HasNull, NullPutDone, OwnerGetsNull
  <1>3. PoolTypeOK' /\ CancelSaid'
    BY <1>1 DEF PoolInv, PoolTypeOK, QueueTypeOK, Idle, CancelSaid, WorkerPCs, OwnerPCs
  <1>4. CallsMatch'
    BY <1>1, <1>2, Kinds DEF PoolInv, CallsMatch, Idle, PutsJob, Gets, PutsNull
  <1>5. JobsOnce'
    BY <1>1, <1>2 DEF PoolInv, JobsOnce, Fresh
  <1>6. JobsKept'
    BY <1>1, <1>2, Kinds DEF PoolInv, JobsKept, PoolTypeOK
  <1>7. NullOnce'
    BY <1>1, <1>2, Kinds DEF PoolInv, NullOnce
  <1> QED
    BY <1>3, <1>4, <1>5, <1>6, <1>7 DEF PoolInv

\* jobs_.Get() of ThreadRun begins.
LEMMA StepGetJob ==
    ASSUME PoolInv, NEW w \in Workers, GetJob(w)
    PROVE  PoolInv'
  <1> DEFINE c == GetCall("forever")
  <1>1. c \in Calls /\ c # None /\ c.op = "Get" /\ c.wait = "forever"
    BY CallTypes DEF Waits
  <1>2. Call(w, c) /\ QueueTypeOK
    BY DEF GetJob, PoolInv, PoolTypeOK
  <1> HIDE DEF c
  <1>3. /\ pc[w] = "loop" /\ pc'[w] = "get" /\ pc'[Owner] = pc[Owner]
        /\ \A v \in Workers : v # w => pc'[v] = pc[v]
        /\ pc' \in [Workers \cup {Owner} -> WorkerPCs \cup OwnerPCs]
        /\ UNCHANGED <<cancel, hand, given, run, deleted>>
    BY Kinds DEF GetJob, GoTo, history, PoolInv, PoolTypeOK, WorkerPCs
  <1>4. /\ QueueTypeOK' /\ call[w] = None /\ call'[w] = c
        /\ \A u \in Threads : u # w => call'[u] = call[u] /\ ret'[u] = ret[u]
        /\ UNCHANGED data_
    BY <1>1, <1>2, CallEffect, Kinds
  <1>5. /\ \A u \in Threads : u # w => (Idle(u)' <=> Idle(u))
        /\ ~Idle(w)' /\ Idle(w)
        /\ \A k : InData(k)' <=> InData(k)
        /\ \A t \in Workers \cup {Owner} : \A k : Has(t, k)' <=> Has(t, k)
        /\ \A q \in Producers, k \in Items : StillWith(q, k)' <=> StillWith(q, k)
        /\ \A v \in Workers : HasNull(v)' <=> HasNull(v)
        /\ NullPutDone' <=> NullPutDone
        /\ OwnerGetsNull' <=> OwnerGetsNull
    BY <1>1, <1>3, <1>4, Kinds DEF Idle, InData, Has, StillWith, HasNull, NullPutDone, OwnerGetsNull
  <1>6. PoolTypeOK' /\ CancelSaid'
    BY <1>3, <1>4 DEF PoolInv, PoolTypeOK, CancelSaid, WorkerPCs, OwnerPCs
  <1>7. CallsMatch'
    BY <1>1, <1>3, <1>4, <1>5, Kinds DEF PoolInv, CallsMatch, PutsJob, Gets, PutsNull
  <1>8. JobsOnce'
    BY <1>3, <1>4, <1>5 DEF PoolInv, JobsOnce, Fresh
  <1>9. JobsKept'
    BY <1>3, <1>4, <1>5, Kinds DEF PoolInv, JobsKept, PoolTypeOK
  <1>10. NullOnce'
    BY <1>3, <1>4, <1>5, Kinds DEF PoolInv, NullOnce
  <1> QED
    BY <1>6, <1>7, <1>8, <1>9, <1>10 DEF PoolInv

\* The worker that took the NULL job starts to put it back: the queue is empty.
LEMMA StepPutNullBack ==
    ASSUME PoolInv, NEW w \in Workers, PutNullBack(w)
    PROVE  PoolInv'
  <1> DEFINE c == PutCall(NULL, "forever")
  <1>1. c \in Calls /\ c # None /\ c.op = "Put" /\ c.wait = "forever" /\ c.item = NULL
    BY CallTypes DEF Waits
  <1>2. Call(w, c) /\ QueueTypeOK
    BY DEF PutNullBack, PoolInv, PoolTypeOK
  <1> HIDE DEF c
  <1>3. /\ pc[w] = "get" /\ pc'[w] = "reput" /\ pc'[Owner] = pc[Owner] /\ ret[w] = NULL
        /\ \A v \in Workers : v # w => pc'[v] = pc[v]
        /\ pc' \in [Workers \cup {Owner} -> WorkerPCs \cup OwnerPCs]
        /\ UNCHANGED <<cancel, hand, given, run, deleted>>
    BY Kinds DEF PutNullBack, GoTo, history, PoolInv, PoolTypeOK, WorkerPCs
  <1>4. /\ QueueTypeOK' /\ call[w] = None /\ call'[w] = c
        /\ \A u \in Threads : u # w => call'[u] = call[u] /\ ret'[u] = ret[u]
        /\ UNCHANGED data_
    BY <1>1, <1>2, CallEffect, Kinds
  <1>5. /\ \A u \in Threads : u # w => (Idle(u)' <=> Idle(u))
        /\ ~Idle(w)' /\ Idle(w)
        /\ \A k : InData(k)' <=> InData(k)
        /\ \A t \in Workers \cup {Owner} : \A k \in Items : Has(t, k)' <=> Has(t, k)
        /\ \A q \in Producers, k \in Items : StillWith(q, k)' <=> StillWith(q, k)
        /\ \A v \in Workers : HasNull(v)' <=> HasNull(v)
        /\ HasNull(w)
        /\ NullPutDone' <=> NullPutDone
        /\ OwnerGetsNull' <=> OwnerGetsNull
    BY <1>1, <1>3, <1>4, Kinds DEF Idle, InData, Has, StillWith, HasNull, NullPutDone, OwnerGetsNull
  <1>6. PoolTypeOK' /\ CancelSaid'
    BY <1>3, <1>4 DEF PoolInv, PoolTypeOK, CancelSaid, WorkerPCs, OwnerPCs
  <1>7. CallsMatch'
    BY <1>1, <1>3, <1>4, <1>5, Kinds DEF PoolInv, CallsMatch, PutsJob, Gets, PutsNull
  <1>8. JobsOnce'
    BY <1>3, <1>4, <1>5 DEF PoolInv, JobsOnce, Fresh
  <1>9. JobsKept'
    BY <1>3, <1>4, <1>5, Kinds DEF PoolInv, JobsKept, PoolTypeOK
  <1>10. data_ = <<>> /\ NullPutDone
    BY <1>5 DEF PoolInv, NullOnce
  <1>11. NullOnce'
    BY <1>3, <1>4, <1>5, <1>10, Kinds DEF PoolInv, NullOnce
  <1> QED
    BY <1>6, <1>7, <1>8, <1>9, <1>11 DEF PoolInv


\* jobs()->Put(job) begins: a new job, and it is nowhere else.
LEMMA StepPutJob ==
    ASSUME PoolInv, ~PutsDuringStop, NEW p \in Producers, NEW j \in Items, NEW x \in Waits,
           PutJob(p, j, x)
    PROVE  PoolInv'
  <1> DEFINE c == PutCall(j, x)
  <1>1. c \in Calls /\ c # None /\ c.op = "Put" /\ c.item = j
    BY CallTypes
  <1>2. Call(p, c) /\ QueueTypeOK
    BY DEF PutJob, PoolInv, PoolTypeOK
  <1> HIDE DEF c
  <1>3. /\ pc[Owner] \in {"new", "started"} /\ hand[p] = None /\ j \notin given
        /\ hand' \in [Producers -> Items \cup {None}] /\ hand'[p] = j
        /\ \A q \in Producers : q # p => hand'[q] = hand[q]
        /\ given' = given \cup {j}
        /\ UNCHANGED <<pc, cancel, run, deleted>>
    BY DEF PutJob, MayPut, PoolInv, PoolTypeOK
  <1>4. /\ QueueTypeOK' /\ call[p] = None /\ call'[p] = c
        /\ \A u \in Threads : u # p => call'[u] = call[u] /\ ret'[u] = ret[u]
        /\ UNCHANGED data_
    BY <1>1, <1>2, CallEffect, Kinds
  <1>5. /\ \A u \in Threads : u # p => (Idle(u)' <=> Idle(u))
        /\ ~Idle(p)' /\ Idle(p)
        /\ \A k : InData(k)' <=> InData(k)
        /\ \A t \in Workers \cup {Owner} : \A k : Has(t, k)' <=> Has(t, k)
        /\ \A q \in Producers, k \in Items : q # p => (StillWith(q, k)' <=> StillWith(q, k))
        /\ \A k \in Items : ~StillWith(p, k) /\ (StillWith(p, k)' <=> k = j)
        /\ \A v \in Workers : HasNull(v)' <=> HasNull(v)
        /\ NullPutDone' <=> NullPutDone
        /\ OwnerGetsNull' <=> OwnerGetsNull
    BY <1>1, <1>3, <1>4, Kinds DEF Idle, InData, Has, StillWith, HasNull, NullPutDone, OwnerGetsNull
  <1>6. PoolTypeOK' /\ CancelSaid'
    BY <1>3, <1>4 DEF PoolInv, PoolTypeOK, CancelSaid
  <1>7. CallsMatch'
    <2>1. \A q \in Producers : q # p =>
             /\ (Idle(q)' <=> Idle(q)) /\ ret'[q] = ret[q] /\ hand'[q] = hand[q]
             /\ \A k : PutsJob(q, k)' <=> PutsJob(q, k)
      BY <1>3, <1>4, <1>5, Kinds DEF PutsJob
    <2>2. hand'[p] = j /\ \A k : k = j => PutsJob(p, k)'
      BY <1>1, <1>3, <1>4, <1>5 DEF PutsJob
    <2>3. \A t \in Workers \cup {Owner} :
             /\ (Idle(t)' <=> Idle(t)) /\ ret'[t] = ret[t]
             /\ \A k : Gets(t, k)' <=> Gets(t, k)
             /\ PutsNull(t)' <=> PutsNull(t)
      BY <1>4, <1>5, Kinds DEF Gets, PutsNull
    <2> QED
      BY <1>3, <1>5, <2>1, <2>2, <2>3, Kinds DEF PoolInv, CallsMatch, PutsJob
  <1>8. JobsOnce'
    <2>1. /\ \A k \in Items : Fresh(k)' <=> Fresh(k)
          /\ Fresh(j) /\ \A q \in Producers : hand[q] # j
      BY <1>3, <1>4, <1>5 DEF PoolInv, JobsOnce, Fresh
    <2> QED
      BY <1>3, <1>4, <1>5, <2>1, Kinds DEF PoolInv, JobsOnce
  <1>9. JobsKept'
    BY <1>3, <1>4, <1>5, Kinds DEF PoolInv, JobsKept, PoolTypeOK
  <1>10. NullOnce'
    BY <1>3, <1>4, <1>5, Kinds DEF PoolInv, NullOnce
  <1> QED
    BY <1>6, <1>7, <1>8, <1>9, <1>10 DEF PoolInv

\* Stop begins: no producer is at work, and the queue has no NULL job.
LEMMA StepStop ==
    ASSUME PoolInv, ~PutsDuringStop, NEW b \in BOOLEAN, Stop(b)
    PROVE  PoolInv'
  <1> DEFINE c == IF b THEN GetCall("no") ELSE PutCall(NULL, "forever")
             where == IF b THEN "cancelling" ELSE "put_null"
  <1>1. /\ c \in Calls /\ c # None
        /\ b => c.op = "Get" /\ c.wait = "no"
        /\ ~b => c.op = "Put" /\ c.wait = "forever" /\ c.item = NULL
    BY CallTypes DEF Waits
  <1>2. Call(Owner, c) /\ QueueTypeOK
    BY DEF Stop, PoolInv, PoolTypeOK
  <1> HIDE DEF c
  <1>3. /\ pc[Owner] = "started" /\ pc'[Owner] = where
        /\ \A w \in Workers : pc'[w] = pc[w]
        /\ pc' \in [Workers \cup {Owner} -> WorkerPCs \cup OwnerPCs]
        /\ cancel' \in BOOLEAN /\ (cancel \/ b => cancel')
        /\ \A p \in Producers : hand[p] = None
        /\ UNCHANGED <<hand, given, run, deleted>>
    BY Kinds DEF Stop, GoTo, history, PoolInv, PoolTypeOK, OwnerPCs
  <1>4. /\ QueueTypeOK' /\ call[Owner] = None /\ call'[Owner] = c
        /\ \A u \in Threads : u # Owner => call'[u] = call[u] /\ ret'[u] = ret[u]
        /\ UNCHANGED data_
    BY <1>1, <1>2, CallEffect, Kinds
  <1>5. /\ \A u \in Threads : u # Owner => (Idle(u)' <=> Idle(u))
        /\ ~Idle(Owner)' /\ Idle(Owner)
        /\ \A k : InData(k)' <=> InData(k)
        /\ \A t \in Workers \cup {Owner} : \A k : Has(t, k)' <=> Has(t, k)
        /\ \A q \in Producers, k \in Items : StillWith(q, k)' <=> StillWith(q, k)
        /\ \A v \in Workers : HasNull(v)' <=> HasNull(v)
        /\ ~NullPutDone' /\ ~NullPutDone /\ ~OwnerGetsNull /\ ~OwnerGetsNull'
    BY <1>1, <1>3, <1>4, Kinds DEF Idle, InData, Has, StillWith, HasNull, NullPutDone, OwnerGetsNull
  <1>6. PoolTypeOK' /\ CancelSaid'
    BY <1>3, <1>4 DEF PoolInv, PoolTypeOK, CancelSaid, WorkerPCs, OwnerPCs
  <1>7. CallsMatch'
    <2>1. \A t \in Workers \cup Producers :
             /\ (Idle(t)' <=> Idle(t)) /\ ret'[t] = ret[t]
             /\ \A k : Gets(t, k)' <=> Gets(t, k)
             /\ PutsNull(t)' <=> PutsNull(t)
             /\ \A k : PutsJob(t, k)' <=> PutsJob(t, k)
      BY <1>4, <1>5, Kinds DEF Gets, PutsNull, PutsJob
    <2>2. IF b THEN Gets(Owner, "no")' ELSE PutsNull(Owner)'
      BY <1>1, <1>4, <1>5 DEF Gets, PutsNull
    <2> QED
      BY <1>3, <1>5, <2>1, <2>2, Kinds DEF PoolInv, CallsMatch
  <1>8. JobsOnce'
    BY <1>3, <1>4, <1>5, Kinds DEF PoolInv, JobsOnce, Fresh
  <1>9. JobsKept'
    BY <1>3, <1>4, <1>5, Kinds DEF PoolInv, JobsKept, PoolTypeOK
  <1>10. NullOnce'
    BY <1>3, <1>4, <1>5, Kinds DEF PoolInv, NullOnce
  <1> QED
    BY <1>6, <1>7, <1>8, <1>9, <1>10 DEF PoolInv

\* The workers have ended: Stop looks at the last job.
LEMMA StepJoinAll == ASSUME PoolInv, JoinAll PROVE PoolInv'
  <1> DEFINE c == GetCall("no")
  <1>1. c \in Calls /\ c # None /\ c.op = "Get" /\ c.wait = "no"
    BY CallTypes DEF Waits
  <1>2. Call(Owner, c) /\ QueueTypeOK
    BY DEF JoinAll, PoolInv, PoolTypeOK
  <1> HIDE DEF c
  <1>3. /\ pc[Owner] = "joining" /\ pc'[Owner] = "last_job"
        /\ \A w \in Workers : pc[w] = "exited" /\ pc'[w] = "exited"
        /\ pc' \in [Workers \cup {Owner} -> WorkerPCs \cup OwnerPCs]
        /\ UNCHANGED <<cancel, hand, given, run, deleted>>
    BY Kinds DEF JoinAll, GoTo, history, PoolInv, PoolTypeOK, OwnerPCs
  <1>4. /\ QueueTypeOK' /\ call[Owner] = None /\ call'[Owner] = c
        /\ \A u \in Threads : u # Owner => call'[u] = call[u] /\ ret'[u] = ret[u]
        /\ UNCHANGED data_
    BY <1>1, <1>2, CallEffect, Kinds
  <1>5. /\ \A u \in Threads : u # Owner => (Idle(u)' <=> Idle(u))
        /\ ~Idle(Owner)' /\ Idle(Owner)
        /\ \A k : InData(k)' <=> InData(k)
        /\ \A t \in Workers \cup {Owner} : \A k : Has(t, k)' <=> Has(t, k)
        /\ \A q \in Producers, k \in Items : StillWith(q, k)' <=> StillWith(q, k)
        /\ \A v \in Workers : HasNull(v)' <=> HasNull(v)
        /\ ~NullPutDone' /\ NullPutDone /\ ~OwnerGetsNull /\ OwnerGetsNull'
        /\ \A v \in Workers : ~HasNull(v)
    BY <1>1, <1>3, <1>4, Kinds DEF Idle, InData, Has, StillWith, HasNull, NullPutDone, OwnerGetsNull
  <1>6. PoolTypeOK' /\ CancelSaid'
    BY <1>3, <1>4 DEF PoolInv, PoolTypeOK, CancelSaid, WorkerPCs, OwnerPCs
  <1>7. CallsMatch'
    <2>1. \A t \in Workers \cup Producers :
             /\ (Idle(t)' <=> Idle(t)) /\ ret'[t] = ret[t]
             /\ \A k : PutsJob(t, k)' <=> PutsJob(t, k)
      BY <1>4, <1>5, Kinds DEF PutsJob
    <2>2. Gets(Owner, "no")'
      BY <1>1, <1>4, <1>5 DEF Gets
    <2> QED
      BY <1>3, <1>5, <2>1, <2>2, Kinds DEF PoolInv, CallsMatch
  <1>8. JobsOnce'
    BY <1>3, <1>4, <1>5, Kinds DEF PoolInv, JobsOnce, Fresh
  <1>9. JobsKept'
    BY <1>3, <1>4, <1>5, Kinds DEF PoolInv, JobsKept, PoolTypeOK
  <1>10. NullOnce'
    BY <1>3, <1>4, <1>5, Kinds DEF PoolInv, NullOnce
  <1> QED
    BY <1>6, <1>7, <1>8, <1>9, <1>10 DEF PoolInv


\* The loop of Stop(true): what Get(0) returned is deleted, or the queue is empty
\* and the NULL job follows.
LEMMA StepCancelNext == ASSUME PoolInv, CancelNext PROVE PoolInv'
  <1> DEFINE more == ret[Owner] # NULL
             c == IF more THEN GetCall("no") ELSE PutCall(NULL, "forever")
  <1>1. /\ c \in Calls /\ c # None
        /\ more => c.op = "Get" /\ c.wait = "no"
        /\ ~more => c.op = "Put" /\ c.wait = "forever" /\ c.item = NULL
    BY CallTypes DEF Waits
  <1>2. Call(Owner, c) /\ QueueTypeOK
    BY DEF CancelNext, PoolInv, PoolTypeOK
  <1>3. /\ pc[Owner] = "cancelling" /\ Idle(Owner) /\ ret[Owner] \in Items \cup {NULL}
        /\ pc'[Owner] = IF more THEN "cancelling" ELSE "put_null"
        /\ \A w \in Workers : pc'[w] = pc[w]
        /\ pc' \in [Workers \cup {Owner} -> WorkerPCs \cup OwnerPCs]
        /\ deleted' = IF more THEN deleted \cup {ret[Owner]} ELSE deleted
        /\ UNCHANGED <<cancel, hand, given, run>>
    BY Kinds DEF CancelNext, GoTo, history, PoolInv, PoolTypeOK, OwnerPCs, CallsMatch
  <1> DEFINE j == ret[Owner]
  <1> HIDE DEF c
  <1>4. /\ QueueTypeOK' /\ call[Owner] = None /\ call'[Owner] = c
        /\ \A u \in Threads : u # Owner => call'[u] = call[u] /\ ret'[u] = ret[u]
        /\ UNCHANGED data_
    BY <1>1, <1>2, CallEffect, Kinds
  <1>5. more => /\ Has(Owner, j) /\ j \in Items /\ run[j] = 0 /\ j \notin deleted /\ ~InData(j)
                /\ \A p \in Producers : ~StillWith(p, j)
                /\ \A t \in Workers \cup {Owner} : Has(t, j) => t = Owner
                /\ j \in given
    BY <1>3 DEF Has, PoolInv, JobsOnce, Fresh
  <1>6. /\ \A u \in Threads : u # Owner => (Idle(u)' <=> Idle(u))
        /\ ~Idle(Owner)'
        /\ \A k : InData(k)' <=> InData(k)
        /\ \A t \in Workers : \A k : Has(t, k)' <=> Has(t, k)
        /\ \A k : ~Has(Owner, k)' /\ (Has(Owner, k) => k = j)
        /\ \A q \in Producers, k \in Items : StillWith(q, k)' <=> StillWith(q, k)
        /\ \A v \in Workers : HasNull(v)' <=> HasNull(v)
        /\ ~NullPutDone' /\ ~NullPutDone /\ ~OwnerGetsNull /\ ~OwnerGetsNull'
    BY <1>1, <1>3, <1>4, Kinds DEF Idle, InData, Has, StillWith, HasNull, NullPutDone, OwnerGetsNull
  <1>7. PoolTypeOK' /\ CancelSaid'
    BY <1>3, <1>4 DEF PoolInv, PoolTypeOK, CancelSaid, WorkerPCs, OwnerPCs
  <1>8. CallsMatch'
    <2>1. \A t \in Workers \cup Producers :
             /\ (Idle(t)' <=> Idle(t)) /\ ret'[t] = ret[t]
             /\ \A k : Gets(t, k)' <=> Gets(t, k)
             /\ PutsNull(t)' <=> PutsNull(t)
             /\ \A k : PutsJob(t, k)' <=> PutsJob(t, k)
      BY <1>4, <1>6, Kinds DEF Gets, PutsNull, PutsJob
    <2>2. IF more THEN Gets(Owner, "no")' ELSE PutsNull(Owner)'
      BY <1>1, <1>4, <1>6 DEF Gets, PutsNull
    <2> QED
      BY <1>3, <1>6, <2>1, <2>2, Kinds DEF PoolInv, CallsMatch
  <1>9. JobsOnce'
    <2>1. ASSUME NEW k \in Items, more => k # j PROVE Fresh(k) => Fresh(k)'
      BY <1>3, <1>4, <1>6, <2>1, Kinds DEF Fresh
    <2>2. ASSUME NEW k \in Items, more, k = j PROVE ~Fresh(k) /\ \A p \in Producers : ~StillWith(p, k)
      BY <1>5, <2>2 DEF Fresh
    <2> HIDE DEF more, j
    <2> QED
      BY <1>3, <1>4, <1>5, <1>6, <2>1, <2>2, Kinds DEF PoolInv, JobsOnce, j
  <1>10. JobsKept'
    BY <1>3, <1>4, <1>5, <1>6, Kinds DEF PoolInv, JobsKept, PoolTypeOK, CancelSaid
  <1>11. NullOnce'
    BY <1>3, <1>4, <1>6, Kinds DEF PoolInv, NullOnce
  <1> QED
    BY <1>7, <1>8, <1>9, <1>10, <1>11 DEF PoolInv


\* A sequence with one more element.
LEMMA AppendAt ==
    ASSUME NEW S, NEW s \in Seq(S), NEW e \in S, NEW t, t = Append(s, e)
    PROVE  /\ t \in Seq(S) /\ Len(s) \in Nat /\ Len(t) = Len(s) + 1
           /\ DOMAIN s = 1..Len(s) /\ DOMAIN t = 1..(Len(s) + 1)
           /\ \A i \in DOMAIN s : i \in DOMAIN t /\ t[i] = s[i]
           /\ t[Len(s) + 1] = e
  <1>1. /\ t \in Seq(S) /\ Len(t) = Len(s) + 1
        /\ \A i \in 1..Len(s) : t[i] = s[i]
        /\ t[Len(s) + 1] = e
    BY AppendProperties
  <1>2. DOMAIN s = 1..Len(s) /\ Len(s) \in Nat /\ DOMAIN t = 1..Len(t)
    BY <1>1, LenProperties
  <1> QED
    BY <1>1, <1>2

\* A sequence without its head.
LEMMA TailAt ==
    ASSUME NEW S, NEW s \in Seq(S), s # <<>>, NEW t, t = Tail(s)
    PROVE  /\ t \in Seq(S) /\ Len(s) \in Nat \ {0} /\ Len(t) = Len(s) - 1
           /\ DOMAIN s = 1..Len(s) /\ DOMAIN t = 1..(Len(s) - 1)
           /\ \A i \in DOMAIN t : i + 1 \in DOMAIN s /\ t[i] = s[i + 1]
           /\ \A i \in DOMAIN s : i # 1 => i - 1 \in DOMAIN t /\ s[i] = t[i - 1]
           /\ 1 \in DOMAIN s /\ Head(s) = s[1] /\ s[1] \in S
  <1>1. /\ Len(s) \in Nat \ {0} /\ DOMAIN s = 1..Len(s)
    BY EmptySeq, LenProperties
  <1>2. Head(s) = s[1] /\ s[1] \in S
    BY <1>1, ElementOfSeq
  <1>3. /\ t \in Seq(S) /\ Len(t) = Len(s) - 1
        /\ \A i \in 1..Len(t) : t[i] = s[i + 1]
    BY <1>1, HeadTailProperties
  <1>4. DOMAIN t = 1..(Len(s) - 1)
    BY <1>3, LenProperties
  <1>5. \A i \in DOMAIN s : i # 1 => i - 1 \in 1..(Len(s) - 1) /\ s[i] = t[i - 1]
    <2> SUFFICES ASSUME NEW i \in 1..Len(s), i # 1
                 PROVE  i - 1 \in 1..(Len(s) - 1) /\ s[i] = t[i - 1]
      BY <1>1
    <2>1. i - 1 \in 1..(Len(s) - 1) /\ (i - 1) + 1 = i
      BY <1>1
    <2>2. t[i - 1] = s[(i - 1) + 1]
      BY <1>1, <1>3, <2>1
    <2> QED
      BY <2>1, <2>2
  <1> QED
    BY <1>1, <1>2, <1>3, <1>4, <1>5


\* What a turn leaves alone besides the queue, and the other threads' part of it.
Others(t) ==
    /\ QueueTypeOK' /\ call[t] # None
    /\ \A u \in Threads : u # t => call'[u] = call[u] /\ ret'[u] = ret[u]
    /\ UNCHANGED <<pc, cancel, hand, given, run, deleted>>

\* A turn that returns: t alone is not in its call any more.
LEMMA Returned ==
    ASSUME PoolInv, NEW t \in Threads, Others(t), call'[t] = None,
           /\ t \in Producers => ret'[t] \in BOOLEAN
           /\ t \notin Producers /\ call[t].op = "Get" => ret'[t] \in Items \cup {NULL}
    PROVE  /\ \A u \in Threads : u # t => (Idle(u)' <=> Idle(u))
           /\ Idle(t)' /\ ~Idle(t)
           /\ PoolTypeOK' /\ CancelSaid' /\ CallsMatch'
           /\ t \in Workers => \/ pc[t] = "get" /\ Gets(t, "forever")
                               \/ pc[t] = "reput" /\ PutsNull(t)
           /\ t = Owner => \/ pc[t] \in {"cancelling", "last_job"} /\ Gets(t, "no")
                           \/ pc[t] = "put_null" /\ PutsNull(t)
           /\ t \in Producers => hand[t] \in Items /\ PutsJob(t, hand[t]) /\ pc[Owner] \in {"new", "started"}
  <1>1. /\ \A u \in Threads : u # t => (Idle(u)' <=> Idle(u))
        /\ Idle(t)' /\ ~Idle(t)
    BY DEF Others, Idle
  <1>2. PoolTypeOK' /\ CancelSaid'
    BY DEF Others, PoolInv, PoolTypeOK, CancelSaid
  <1>3. /\ t \in Workers => \/ pc[t] = "get" /\ Gets(t, "forever")
                            \/ pc[t] = "reput" /\ PutsNull(t)
        /\ t = Owner => \/ pc[t] \in {"cancelling", "last_job"} /\ Gets(t, "no")
                        \/ pc[t] = "put_null" /\ PutsNull(t)
    BY <1>1 DEF PoolInv, CallsMatch
  <1>4. t \in Producers => hand[t] \in Items /\ PutsJob(t, hand[t])
    BY <1>1 DEF PoolInv, CallsMatch, PoolTypeOK
  <1>5. t \in Producers => pc[Owner] \in {"new", "started"}
    BY <1>4, Kinds DEF PoolInv, NullOnce
  <1>6. CallsMatch'
    <2>1. \A u \in Threads : u # t =>
             /\ ret'[u] = ret[u]
             /\ \A k : Gets(u, k)' <=> Gets(u, k)
             /\ PutsNull(u)' <=> PutsNull(u)
             /\ \A k : PutsJob(u, k)' <=> PutsJob(u, k)
      BY <1>1 DEF Others, Gets, PutsNull, PutsJob
    <2>2. t \notin Producers /\ pc[t] \in {"get", "cancelling", "last_job"} => ret'[t] \in Items \cup {NULL}
      <3>1. t \notin Producers /\ pc[t] \in {"get", "cancelling", "last_job"} => call[t].op = "Get"
        BY <1>3, Kinds DEF Gets
      <3> QED
        BY <3>1
    <2>3. UNCHANGED <<pc, hand>>
      BY DEF Others
    <2>4. \A w \in Workers :
             /\ pc'[w] = "get" => Idle(w)' \/ Gets(w, "forever")'
             /\ pc'[w] = "reput" => Idle(w)' \/ PutsNull(w)'
             /\ pc'[w] \notin {"get", "reput"} => Idle(w)'
             /\ pc'[w] = "get" /\ Idle(w)' => ret'[w] \in Items \cup {NULL}
      BY <1>1, <2>1, <2>2, <2>3, Kinds DEF PoolInv, CallsMatch
    <2>5. /\ pc'[Owner] \in {"cancelling", "last_job"} => Idle(Owner)' \/ Gets(Owner, "no")'
          /\ pc'[Owner] = "put_null" => Idle(Owner)' \/ PutsNull(Owner)'
          /\ pc'[Owner] \notin {"cancelling", "last_job", "put_null"} => Idle(Owner)'
          /\ pc'[Owner] \in {"cancelling", "last_job"} /\ Idle(Owner)' => ret'[Owner] \in Items \cup {NULL}
      BY <1>1, <2>1, <2>2, <2>3, Kinds DEF PoolInv, CallsMatch
    <2>6. \A p \in Producers :
             /\ hand'[p] = None => Idle(p)'
             /\ hand'[p] # None => Idle(p)' \/ PutsJob(p, hand[p])'
             /\ hand'[p] # None /\ Idle(p)' => ret'[p] \in BOOLEAN
      <3>1. \A p \in Producers : PutsJob(p, hand[p])' <=> (~Idle(p)' /\ call'[p].op = "Put" /\ call'[p].item = hand'[p])
        BY DEF PutsJob
      <3>2. \A p \in Producers : PutsJob(p, hand[p]) <=> (~Idle(p) /\ call[p].op = "Put" /\ call[p].item = hand[p])
        BY DEF PutsJob
      <3>3. \A p \in Producers : p # t => call'[p] = call[p] /\ ret'[p] = ret[p]
        BY Kinds DEF Others
      <3> QED
        BY <1>1, <2>3, <3>1, <3>2, <3>3, Kinds DEF PoolInv, CallsMatch
    <2> QED
      BY <2>4, <2>5, <2>6 DEF CallsMatch
  <1> QED
    BY <1>1, <1>2, <1>3, <1>4, <1>5, <1>6

\* A timed Put found the queue full: the job stays with its producer.
LEMMA StepPutFails ==
    ASSUME PoolInv, NEW t \in Threads, Others(t), PutFails(t)
    PROVE  PoolInv'
  <1>1. t \in Producers
    BY Kinds DEF PutFails, PoolInv, CallsMatch, Idle, Gets, PutsNull, Others
  <1>2. /\ \A u \in Threads : u # t => (Idle(u)' <=> Idle(u))
        /\ Idle(t)' /\ ~Idle(t) /\ ret'[t] = FALSE
        /\ PoolTypeOK' /\ CancelSaid' /\ CallsMatch'
        /\ UNCHANGED <<data_, pc, cancel, hand, given, run, deleted>>
    BY <1>1, Returned DEF PutFails, Others
  <1>3. /\ \A k : InData(k)' <=> InData(k)
        /\ \A u \in Workers \cup {Owner} : \A k : Has(u, k)' <=> Has(u, k)
        /\ \A q \in Producers, k \in Items : StillWith(q, k)' <=> StillWith(q, k)
        /\ \A v \in Workers : HasNull(v)' <=> HasNull(v)
        /\ NullPutDone' <=> NullPutDone
        /\ OwnerGetsNull' <=> OwnerGetsNull
    BY <1>1, <1>2, Kinds DEF InData, Has, StillWith, HasNull, NullPutDone, OwnerGetsNull, Others
  <1>4. JobsOnce'
    BY <1>2, <1>3, Kinds DEF PoolInv, JobsOnce, Fresh
  <1>5. JobsKept'
    BY <1>2, <1>3, Kinds DEF PoolInv, JobsKept, PoolTypeOK
  <1>6. ret'[Owner] = ret[Owner] /\ (Idle(Owner)' <=> Idle(Owner))
    BY <1>1, <1>2, Kinds DEF Others
  <1>7. NullOnce'
    BY <1>2, <1>3, <1>6, Kinds DEF PoolInv, NullOnce
  <1> QED
    BY <1>2, <1>4, <1>5, <1>7 DEF PoolInv


\* Put's element is in the queue: a producer's job, or the NULL job of Stop or of a
\* worker that ends.  Behind the NULL job nothing is ever put.
LEMMA StepPutDone ==
    ASSUME PoolInv, NEW t \in Threads, Others(t), PutDone(t)
    PROVE  PoolInv'
  <1> DEFINE v == call[t].item
             n == Len(data_)
  <1>1. call[t] \in Calls /\ data_ \in Seq(Items \cup {NULL})
    BY DEF PoolInv, PoolTypeOK, QueueTypeOK, Others
  <1>2. /\ v \in Items \cup {NULL} /\ data_' = Append(data_, v) /\ call'[t] = None /\ ret'[t] = TRUE
    BY <1>1, CallTypes DEF PutDone
  <1> HIDE DEF v
  <1>3. /\ Len(data_) \in Nat /\ DOMAIN data_ = 1..n /\ DOMAIN data_' = 1..(n + 1) /\ Len(data_') = n + 1
        /\ n \in Nat /\ \A i \in DOMAIN data_ : i \in DOMAIN data_' /\ data_'[i] = data_[i]
        /\ data_'[n + 1] = v
    BY <1>1, <1>2, AppendAt
  <1> HIDE DEF n
  <1>4. /\ \A u \in Threads : u # t => (Idle(u)' <=> Idle(u))
        /\ Idle(t)' /\ ~Idle(t)
        /\ PoolTypeOK' /\ CancelSaid' /\ CallsMatch'
        /\ t \in Workers => pc[t] = "reput" /\ v = NULL
        /\ t = Owner => pc[t] = "put_null" /\ v = NULL
        /\ t \in Producers => hand[t] = v /\ v \in Items /\ pc[Owner] \in {"new", "started"}
    BY <1>2, Returned, Kinds DEF PutDone, Gets, PutsNull, PutsJob, v
  <1>5. \A k : InData(k)' <=> InData(k) \/ k = v
    BY <1>3 DEF InData
  <1>6. /\ UNCHANGED <<pc, cancel, hand, given, run, deleted>>
        /\ \A u \in Threads : u # t => ret'[u] = ret[u]
    BY DEF Others
  <1>7. \A u \in Workers \cup {Owner} : \A k \in Items : Has(u, k)' <=> Has(u, k)
    BY <1>2, <1>4, <1>6, Kinds DEF Has
  <1>8. CASE t \in Producers
    <2>1. /\ StillWith(t, v) /\ Fresh(v) /\ v \in Items /\ v # NULL
          /\ \A q \in Producers : q # t => hand[q] # v
      BY <1>4, <1>8, Kinds DEF StillWith, PoolInv, JobsOnce
    <2>2. /\ \A q \in Producers, k \in Items : StillWith(q, k)' <=> StillWith(q, k) /\ q # t
          /\ \A k \in Items : StillWith(t, k) => k = v
      BY <1>2, <1>4, <1>6, <1>8, Kinds DEF StillWith
    <2>3. /\ ~NullPutDone /\ ~NullPutDone' /\ ~OwnerGetsNull /\ ~OwnerGetsNull'
          /\ \A w \in Workers : HasNull(w)' <=> HasNull(w)
      BY <1>4, <1>6, <1>8, Kinds DEF NullPutDone, OwnerGetsNull, HasNull
    <2>4. JobsOnce'
      <3>1. ASSUME NEW k \in Items, k # v PROVE Fresh(k) => Fresh(k)'
        BY <1>5, <1>6, <1>7, <3>1 DEF Fresh
      <3>2. \A k \in Items : k # v => (InData(k)' <=> InData(k))
        BY <1>5
      <3>3. /\ ~InData(v) /\ run[v] = 0 /\ v \notin deleted /\ v \in given
            /\ \A u \in Workers \cup {Owner} : ~Has(u, v)
            /\ \A q \in Producers : \A k \in Items : k = v => ~StillWith(q, k)'
        <4>1. v \in given
          BY <1>4, <1>8, <2>1 DEF PoolInv, JobsOnce
        <4> QED
          BY <2>1, <2>2, <4>1 DEF Fresh, StillWith
      <3>4. \A k \in Items : \A i, l \in DOMAIN data_' : data_'[i] = k /\ data_'[l] = k => i = l
        <4>1. \A i \in DOMAIN data_ : data_[i] # v
          BY <3>3 DEF InData
        <4>2. \A i \in DOMAIN data_' : i \in DOMAIN data_ \/ i = n + 1
          BY <1>3
        <4>3. \A k \in Items : \A i, l \in DOMAIN data_ : data_[i] = k /\ data_[l] = k => i = l
          BY DEF PoolInv, JobsOnce
        <4> QED
          BY <1>3, <4>1, <4>2, <4>3
      <3>5. ASSUME NEW k \in Items
            PROVE  /\ k \notin given' => Fresh(k)' /\ \A p \in Producers : hand'[p] # k
                   /\ \A p \in Producers : hand'[p] = k => \A r \in Producers : hand'[r] = k => p = r
                   /\ \A p \in Producers : StillWith(p, k)' => Fresh(k)'
                   /\ InData(k)' => run'[k] = 0 /\ k \notin deleted' /\ \A u \in Workers \cup {Owner} : ~Has(u, k)'
                   /\ \A u \in Workers \cup {Owner} : Has(u, k)' =>
                         /\ run'[k] = 0 /\ k \notin deleted'
                         /\ \A x \in Workers \cup {Owner} : Has(x, k)' => u = x
                   /\ run'[k] \in {0, 1}
                   /\ run'[k] = 1 => k \notin deleted'
        BY <1>6, <1>7, <2>1, <2>2, <3>1, <3>2, <3>3, <3>5 DEF PoolInv, JobsOnce
      <3> QED
        BY <3>4, <3>5 DEF JobsOnce
    <2>5. JobsKept'
      BY <1>5, <1>6, <1>7, <2>2, Kinds DEF PoolInv, JobsKept, PoolTypeOK
    <2>6. \A i \in DOMAIN data_' : data_'[i] # NULL
      BY <1>3, <2>1, <2>3 DEF PoolInv, NullOnce
    <2>7. \A w \in Workers : pc[w] \notin {"reput", "exited"} /\ ~HasNull(w)
      BY <1>4, <1>8, <2>3 DEF PoolInv, NullOnce
    <2>8. NullOnce'
      BY <1>4, <1>6, <1>8, <2>3, <2>6, <2>7, Kinds DEF PoolInv, NullOnce
    <2> QED
      BY <1>4, <2>4, <2>5, <2>8 DEF PoolInv
  <1>9. CASE t \in Workers \/ t = Owner
    <2>1. v = NULL /\ \A k \in Items : InData(k)' <=> InData(k)
      BY <1>4, <1>5, <1>9, Kinds
    <2>2. /\ \A q \in Producers, k \in Items : StillWith(q, k)' <=> StillWith(q, k)
          /\ \A k \in Items : Fresh(k)' <=> Fresh(k)
      BY <1>4, <1>6, <1>7, <1>9, <2>1, Kinds DEF StillWith, Fresh
    <2>3. JobsOnce'
      <3>1. \A k \in Items : \A i, l \in DOMAIN data_' : data_'[i] = k /\ data_'[l] = k => i = l
        <4>1. \A i \in DOMAIN data_' : i \in DOMAIN data_ \/ i = n + 1
          BY <1>3
        <4>2. \A k \in Items : \A i, l \in DOMAIN data_ : data_[i] = k /\ data_[l] = k => i = l
          BY DEF PoolInv, JobsOnce
        <4> QED
          BY <1>3, <2>1, <4>1, <4>2, Kinds
      <3> QED
        BY <1>6, <1>7, <2>1, <2>2, <3>1 DEF PoolInv, JobsOnce
    <2>4. JobsKept'
      BY <1>6, <1>7, <2>1, <2>2 DEF PoolInv, JobsKept, PoolTypeOK
    <2>5. /\ \A i \in DOMAIN data_ : data_[i] # NULL
          /\ \A w \in Workers : ~HasNull(w)'
          /\ NullPutDone' /\ ~OwnerGetsNull' /\ InData(NULL)'
      <3>1. CASE t = Owner
        <4>1. ~NullPutDone /\ ~OwnerGetsNull
          BY <1>4, <3>1 DEF NullPutDone, OwnerGetsNull
        <4>2. \A w \in Workers : ~HasNull(w)
          BY <4>1 DEF PoolInv, NullOnce
        <4>3. \A w \in Workers : HasNull(w)' <=> HasNull(w)
          BY <1>4, <1>6, <3>1, Kinds DEF HasNull
        <4>4. NullPutDone' /\ ~OwnerGetsNull'
          BY <1>4, <1>6, <3>1 DEF NullPutDone, OwnerGetsNull
        <4>5. \A i \in DOMAIN data_ : data_[i] # NULL
          BY <4>1 DEF PoolInv, NullOnce
        <4> QED
          BY <1>5, <2>1, <4>2, <4>3, <4>4, <4>5
      <3>2. CASE t \in Workers
        <4>1. HasNull(t) /\ ~HasNull(t)'
          BY <1>4, <1>6, <3>2 DEF HasNull
        <4>2. data_ = <<>> /\ NullPutDone /\ \A w \in Workers : HasNull(w) => w = t
          BY <3>2, <4>1 DEF PoolInv, NullOnce
        <4>3. \A w \in Workers : w # t => (HasNull(w)' <=> HasNull(w))
          BY <1>4, <1>6, Kinds DEF HasNull
        <4>4. NullPutDone' /\ ~OwnerGetsNull'
          BY <1>4, <1>6, <3>2, <4>2, Kinds DEF NullPutDone, OwnerGetsNull
        <4>5. \A i \in DOMAIN data_ : data_[i] # NULL
          BY <4>2
        <4> QED
          BY <1>5, <2>1, <4>1, <4>2, <4>3, <4>4, <4>5
      <3> QED
        BY <1>9, <3>1, <3>2
    <2>6. \A w \in Workers : pc[w] \in {"reput", "exited"} => \A i \in DOMAIN data_ : data_[i] = NULL
      BY DEF PoolInv, NullOnce
    <2>7. \A i \in DOMAIN data_' : (data_'[i] = NULL <=> i = n + 1) /\ (i \in DOMAIN data_ \/ i = n + 1)
      BY <1>3, <2>1, <2>5
    <2>8. pc[Owner] \in {"put_null", "joining"}
      BY <1>6, <2>5 DEF NullPutDone
    <2>9. NullOnce'
      BY <1>3, <1>4, <1>6, <2>5, <2>6, <2>7, <2>8, Kinds DEF PoolInv, NullOnce
    <2> QED
      BY <1>4, <2>3, <2>4, <2>9 DEF PoolInv
  <1> QED
    BY <1>8, <1>9, Kinds


\* A timed Get found nothing: the loop of Stop(true) has drained the queue.  The Get
\* at the end of Stop cannot fail: the NULL job is there.
LEMMA StepGetNothing ==
    ASSUME PoolInv, NEW t \in Threads, Others(t), GetNothing(t)
    PROVE  PoolInv'
  <1>1. t = Owner
    BY Kinds DEF GetNothing, PoolInv, CallsMatch, Idle, Gets, PutsNull, PutsJob, Others
  <1>2. /\ \A u \in Threads : u # t => (Idle(u)' <=> Idle(u))
        /\ Idle(t)' /\ ~Idle(t) /\ ret'[t] = NULL /\ data_ = <<>>
        /\ PoolTypeOK' /\ CancelSaid' /\ CallsMatch'
        /\ pc[t] \in {"cancelling", "last_job"}
        /\ UNCHANGED <<data_, pc, cancel, hand, given, run, deleted>>
        /\ \A u \in Threads : u # t => ret'[u] = ret[u]
    BY <1>1, Returned, Kinds DEF GetNothing, Others, PutsNull
  <1>3. pc[t] = "cancelling"
    <2> SUFFICES ASSUME pc[t] = "last_job" PROVE FALSE
      BY <1>2
    <2>1. OwnerGetsNull
      BY <1>1, <1>2 DEF OwnerGetsNull
    <2>2. \A w \in Workers : ~HasNull(w)
      BY <1>1, <1>2 DEF HasNull, PoolInv, NullOnce
    <2>3. InData(NULL)
      BY <2>1, <2>2 DEF PoolInv, NullOnce
    <2> QED
      BY <1>2, <2>3 DEF InData
  <1>4. /\ \A k : InData(k)' <=> InData(k)
        /\ \A u \in Workers \cup {Owner} : \A k \in Items : Has(u, k)' <=> Has(u, k)
        /\ \A q \in Producers, k \in Items : StillWith(q, k)' <=> StillWith(q, k)
        /\ \A v \in Workers : HasNull(v)' <=> HasNull(v)
        /\ ~NullPutDone' /\ ~NullPutDone /\ ~OwnerGetsNull' /\ ~OwnerGetsNull
    BY <1>1, <1>2, <1>3, Kinds DEF InData, Has, StillWith, HasNull, NullPutDone, OwnerGetsNull
  <1>5. JobsOnce'
    BY <1>2, <1>4, Kinds DEF PoolInv, JobsOnce, Fresh
  <1>6. JobsKept'
    BY <1>2, <1>4, Kinds DEF PoolInv, JobsKept, PoolTypeOK
  <1>7. NullOnce'
    BY <1>1, <1>2, <1>3, <1>4, Kinds DEF PoolInv, NullOnce
  <1> QED
    BY <1>2, <1>5, <1>6, <1>7 DEF PoolInv

\* Get's element is out of the queue: a job, or the NULL job, which was the last.
LEMMA StepGetDone ==
    ASSUME PoolInv, NEW t \in Threads, Others(t), GetDone(t)
    PROVE  PoolInv'
  <1> DEFINE v == Head(data_)
             n == Len(data_)
  <1>1. data_ \in Seq(Items \cup {NULL}) /\ data_ # <<>> /\ data_' = Tail(data_)
    BY DEF PoolInv, PoolTypeOK, QueueTypeOK, GetDone
  <1>2. /\ n \in Nat \ {0} /\ DOMAIN data_ = 1..n /\ DOMAIN data_' = 1..(n - 1) /\ Len(data_') = n - 1
        /\ data_' \in Seq(Items \cup {NULL})
        /\ \A i \in DOMAIN data_' : i + 1 \in DOMAIN data_ /\ data_'[i] = data_[i + 1]
        /\ \A i \in DOMAIN data_ : i # 1 => i - 1 \in DOMAIN data_' /\ data_[i] = data_'[i - 1]
        /\ 1 \in DOMAIN data_ /\ v = data_[1] /\ v \in Items \cup {NULL}
    BY <1>1, TailAt
  <1> HIDE DEF v, n
  <1>3. call'[t] = None /\ ret'[t] = v /\ call[t].op = "Get"
    BY DEF GetDone, v
  <1>4. t \in Workers \/ t = Owner
    BY <1>3, Kinds DEF PoolInv, CallsMatch, Idle, PutsJob, Others
  <1>5. /\ \A u \in Threads : u # t => (Idle(u)' <=> Idle(u))
        /\ Idle(t)' /\ ~Idle(t)
        /\ PoolTypeOK' /\ CancelSaid' /\ CallsMatch'
        /\ t \in Workers => pc[t] = "get"
        /\ t = Owner => pc[t] \in {"cancelling", "last_job"}
    BY <1>2, <1>3, <1>4, Returned, Kinds DEF PutsNull
  <1>6. /\ UNCHANGED <<pc, cancel, hand, given, run, deleted>>
        /\ \A u \in Threads : u # t => ret'[u] = ret[u]
    BY DEF Others
  <1>7. /\ \A u \in Workers \cup {Owner} : \A k : u # t => (Has(u, k)' <=> Has(u, k))
        /\ \A k : ~Has(t, k) /\ (Has(t, k)' <=> k = v)
    BY <1>3, <1>4, <1>5, <1>6, Kinds DEF Has
  <1>8. /\ InData(v)
        /\ \A k : k # v => (InData(k)' <=> InData(k))
        /\ \A k : InData(k)' => InData(k)
    BY <1>2, ZenonT(60) DEF InData
  <1>9. \A k \in Items : k = v => ~InData(k)'
    <2> SUFFICES ASSUME v \in Items, NEW i \in DOMAIN data_', data_'[i] = v PROVE FALSE
      BY DEF InData
    <2>1. i + 1 \in DOMAIN data_ /\ data_[i + 1] = v /\ i + 1 # 1
      BY <1>2
    <2> QED
      BY <1>2, <2>1 DEF PoolInv, JobsOnce
  <1>10. \A q \in Producers, k \in Items : StillWith(q, k)' <=> StillWith(q, k)
    BY <1>4, <1>5, <1>6, Kinds DEF StillWith
  <1>11. JobsOnce'
    <2>1. ASSUME NEW k \in Items, k # v PROVE Fresh(k) => Fresh(k)'
      BY <1>4, <1>6, <1>7, <1>8, <2>1 DEF Fresh
    <2>2. ASSUME NEW k \in Items, k = v
          PROVE  /\ ~Fresh(k) /\ run[k] = 0 /\ k \notin deleted
                 /\ \A u \in Workers \cup {Owner} : ~Has(u, k)
      BY <1>8, <2>2 DEF Fresh, PoolInv, JobsOnce
    <2>3. \A k \in Items : \A i, l \in DOMAIN data_' : data_'[i] = k /\ data_'[l] = k => i = l
      <3> SUFFICES ASSUME NEW k \in Items, NEW i \in DOMAIN data_', NEW l \in DOMAIN data_',
                          data_'[i] = k, data_'[l] = k
                   PROVE  i = l
        OBVIOUS
      <3>1. i + 1 = l + 1
        BY <1>2 DEF PoolInv, JobsOnce
      <3> QED
        BY <1>2, <3>1
    <2>4. ASSUME NEW k \in Items
          PROVE  /\ k \notin given' => Fresh(k)' /\ \A p \in Producers : hand'[p] # k
                 /\ \A p \in Producers : hand'[p] = k => \A r \in Producers : hand'[r] = k => p = r
                 /\ \A p \in Producers : StillWith(p, k)' => Fresh(k)'
      BY <1>6, <1>10, <2>1, <2>2 DEF PoolInv, JobsOnce
    <2>5. ASSUME NEW k \in Items
          PROVE  /\ InData(k)' => run'[k] = 0 /\ k \notin deleted' /\ \A u \in Workers \cup {Owner} : ~Has(u, k)'
                 /\ \A u \in Workers \cup {Owner} : Has(u, k)' =>
                       /\ run'[k] = 0 /\ k \notin deleted'
                       /\ \A x \in Workers \cup {Owner} : Has(x, k)' => u = x
                 /\ run'[k] \in {0, 1}
                 /\ run'[k] = 1 => k \notin deleted'
      BY <1>6, <1>7, <1>8, <1>9, <2>2 DEF PoolInv, JobsOnce
    <2> QED
      BY <2>3, <2>4, <2>5 DEF JobsOnce
  <1>12. JobsKept'
    <2>1. \A k \in given : InData(k) => InData(k)' \/ \E u \in Workers \cup {Owner} : Has(u, k)'
      BY <1>4, <1>7, <1>8
    <2>2. \A k : \A u \in Workers \cup {Owner} : Has(u, k) => Has(u, k)'
      BY <1>7
    <2> QED
      BY <1>6, <1>10, <2>1, <2>2 DEF PoolInv, JobsKept, PoolTypeOK
  <1>13. v = NULL => n = 1 /\ data_' = <<>> /\ (NullPutDone \/ OwnerGetsNull) /\ \A w \in Workers : ~HasNull(w)
    <2> SUFFICES ASSUME v = NULL
                 PROVE  n = 1 /\ data_' = <<>> /\ (NullPutDone \/ OwnerGetsNull) /\ \A w \in Workers : ~HasNull(w)
      OBVIOUS
    <2>1. 1 = n /\ (NullPutDone \/ OwnerGetsNull) /\ \A w \in Workers : ~HasNull(w)
      BY <1>2 DEF PoolInv, NullOnce, n
    <2>2. data_' = <<>>
      BY <1>2, <2>1, EmptySeq
    <2> QED
      BY <2>1, <2>2
  <1>14. /\ NullPutDone' <=> NullPutDone
         /\ \A w \in Workers : w # t => (HasNull(w)' <=> HasNull(w))
         /\ t \in Workers => ~HasNull(t) /\ (HasNull(t)' <=> v = NULL)
    <2>1. NullPutDone' <=> NullPutDone
      BY <1>4, <1>5, <1>6, Kinds DEF NullPutDone
    <2> QED
      BY <1>3, <1>4, <1>5, <1>6, <2>1, Kinds DEF HasNull
  <1>15. NullOnce'
    <2>1. CASE t \in Workers
      <3>1. /\ pc[Owner] \notin {"last_job", "is_empty", "stopped", "new"}
            /\ ~OwnerGetsNull /\ ~OwnerGetsNull'
        BY <1>5, <1>6, <2>1, Kinds DEF PoolInv, NullOnce, OwnerGetsNull
      <3>2. CASE v = NULL
        <4>1. \A k : ~InData(k)'
          BY <1>13, <3>2 DEF InData
        <4>2. NullPutDone' /\ data_' = <<>> /\ HasNull(t)' /\ \A w \in Workers : HasNull(w)' => w = t
          BY <1>13, <1>14, <2>1, <3>1, <3>2
        <4> QED
          BY <1>6, <2>1, <3>1, <4>1, <4>2 DEF PoolInv, NullOnce
      <3>3. CASE v # NULL
        <4>1. \A w \in Workers : HasNull(w)' <=> HasNull(w)
          BY <1>14, <2>1, <3>3
        <4>2. \A w \in Workers : ~HasNull(w) /\ pc[w] \notin {"reput", "exited"}
          BY <1>1, <1>2, <3>3 DEF PoolInv, NullOnce
        <4>3. \A i \in DOMAIN data_' : data_'[i] = NULL => i = Len(data_') /\ NullPutDone
          <5> SUFFICES ASSUME NEW i \in DOMAIN data_', data_'[i] = NULL PROVE i = Len(data_') /\ NullPutDone
            OBVIOUS
          <5>1. i + 1 = n /\ NullPutDone
            BY <1>2, <3>1 DEF PoolInv, NullOnce, n
          <5> QED
            BY <1>2, <5>1
        <4>4. InData(NULL)' <=> InData(NULL)
          BY <1>8, <3>3
        <4> QED
          BY <1>6, <1>14, <3>1, <4>1, <4>2, <4>3, <4>4 DEF PoolInv, NullOnce
      <3> QED
        BY <3>2, <3>3
    <2>2. CASE t = Owner /\ pc[t] = "cancelling"
      <3>1. ~NullPutDone /\ ~OwnerGetsNull /\ ~OwnerGetsNull' /\ ~NullPutDone'
        BY <1>6, <1>14, <2>2 DEF NullPutDone, OwnerGetsNull
      <3>2. \A w \in Workers : ~HasNull(w) /\ ~HasNull(w)' /\ pc[w] \notin {"reput", "exited"}
        BY <1>14, <2>2, <3>1, Kinds DEF PoolInv, NullOnce
      <3>3. \A i \in DOMAIN data_' : data_'[i] # NULL
        BY <1>2, <3>1 DEF PoolInv, NullOnce
      <3> QED
        BY <1>6, <2>2, <3>1, <3>2, <3>3 DEF PoolInv, NullOnce
    <2>3. CASE t = Owner /\ pc[t] = "last_job"
      <3>1. PICK w \in Workers : TRUE
        BY PoolAssumption
      <3>2. \A u \in Workers : pc[u] = "exited" /\ ~HasNull(u) /\ ~HasNull(u)'
        BY <1>6, <2>3 DEF PoolInv, NullOnce, HasNull
      <3>3. v = NULL
        BY <1>2, <3>1, <3>2 DEF PoolInv, NullOnce
      <3>4. data_' = <<>> /\ ret'[Owner] = NULL /\ Idle(Owner)' /\ ~NullPutDone' /\ ~OwnerGetsNull'
        BY <1>3, <1>5, <1>6, <1>13, <2>3, <3>3 DEF NullPutDone, OwnerGetsNull
      <3> QED
        BY <1>6, <2>3, <3>2, <3>4 DEF PoolInv, NullOnce
    <2> QED
      BY <1>4, <1>5, <2>1, <2>2, <2>3
  <1> QED
    BY <1>5, <1>11, <1>12, <1>15 DEF PoolInv


\* A turn of any thread inside the queue, or its waking up.
LEMMA StepQueue ==
    ASSUME PoolInv, NEW t \in Threads, QueueStep(t) \/ SpuriousWakeUp(t)
    PROVE  PoolInv'
  <1>1. QueueTypeOK /\ UNCHANGED <<pc, cancel, hand, given, run, deleted>>
    BY DEF PoolInv, PoolTypeOK, QueueStep, SpuriousWakeUp, history
  <1>2. CASE WakeUp(t)
    <2>1. QueueTypeOK' /\ UNCHANGED <<data_, call, ret>>
      BY <1>1, <1>2, WakeUpEffect
    <2> QED
      BY <1>1, <2>1, SameView
  <1>3. CASE Turn(t)
    <2>1. /\ Others(t)
          /\ Sleeps(t) \/ PutFails(t) \/ PutDone(t) \/ GetNothing(t) \/ GetDone(t)
      BY <1>1, <1>3, TurnEffect DEF Others
    <2>2. CASE Sleeps(t)
      <3>1. UNCHANGED <<data_, ret>> /\ QueueTypeOK' /\ call[t] # None
        BY <2>1, <2>2 DEF Sleeps, Others
      <3>2. \A u \in Threads :
              /\ call'[u] = None <=> call[u] = None
              /\ call[u] # None => /\ call'[u].op = call[u].op /\ call'[u].wait = call[u].wait
                                   /\ call[u].op = "Put" => call'[u].item = call[u].item
        BY <2>1, <2>2 DEF Sleeps, Others
      <3> QED
        BY <1>1, <3>1, <3>2, SameView
    <2> QED
      BY <2>1, <2>2, StepPutFails, StepPutDone, StepGetNothing, StepGetDone
  <1> QED
    BY <1>2, <1>3 DEF QueueStep, SpuriousWakeUp, Timeout

\* The pool starts with an empty queue and no job given.
LEMMA InitPool == Init => PoolInv
  <1> SUFFICES ASSUME Init PROVE PoolInv
    OBVIOUS
  <1>1. /\ data_ = <<>> /\ pc[Owner] = "new" /\ cancel = FALSE /\ given = {} /\ deleted = {}
        /\ \A w \in Workers : pc[w] = "unborn"
        /\ \A t \in Threads : Idle(t) /\ ret[t] = None
        /\ \A p \in Producers : hand[p] = None
        /\ \A j \in Items : run[j] = 0
    BY Kinds DEF Init, QueueInit, Idle
  <1>2. PoolTypeOK
    BY <1>1, InitSleep, Kinds DEF SleepInv, Init, PoolTypeOK, WorkerPCs, OwnerPCs
  <1>3. /\ \A j : ~InData(j) /\ \A t \in Workers \cup {Owner} : ~Has(t, j)
        /\ \A w \in Workers : ~HasNull(w)
        /\ ~NullPutDone /\ ~OwnerGetsNull
    BY <1>1, Kinds DEF InData, Has, HasNull, NullPutDone, OwnerGetsNull
  <1>4. CallsMatch /\ CancelSaid
    BY <1>1, Kinds DEF CallsMatch, CancelSaid
  <1>5. JobsOnce /\ JobsKept
    BY <1>1, <1>3, Kinds DEF JobsOnce, JobsKept, Fresh, StillWith
  <1>6. NullOnce
    BY <1>1, <1>3 DEF NullOnce
  <1> QED
    BY <1>2, <1>4, <1>5, <1>6 DEF PoolInv

\* Every step keeps the jobs and the NULL job in their places.
LEMMA NextPool ==
    ASSUME ~PutsDuringStop
    PROVE  PoolInv /\ [Next]_vars => PoolInv'
  <1> SUFFICES ASSUME PoolInv, [Next]_vars PROVE PoolInv'
    OBVIOUS
  <1>1. CASE UNCHANGED vars
    <2>1. QueueTypeOK' /\ UNCHANGED <<data_, call, ret, pc, cancel, hand, given, run, deleted>>
      BY <1>1 DEF vars, queueVars, PoolInv, PoolTypeOK, QueueTypeOK, Idle
    <2> QED
      BY <2>1, SameView
  <1>2. CASE Start
    BY <1>2, StepStart
  <1>3. ASSUME NEW c \in BOOLEAN, Stop(c) PROVE PoolInv'
    BY <1>3, StepStop
  <1>4. ASSUME NEW p \in Producers, NEW j \in Items, NEW w \in Waits, PutJob(p, j, w) PROVE PoolInv'
    BY <1>4, StepPutJob
  <1>5. ASSUME NEW p \in Producers, PutReturned(p) PROVE PoolInv'
    BY <1>5, StepPutReturned
  <1>6. ASSUME NEW w \in Workers, WorkerStep(w) PROVE PoolInv'
    BY <1>6, StepGetJob, StepRunJob, StepPutNullBack, StepThreadEnds DEF WorkerStep
  <1>7. CASE OwnerStep
    BY <1>7, StepCancelNext, StepNullPut, StepJoinAll, StepCheckLastJob, StepCheckEmpty DEF OwnerStep
  <1>8. ASSUME NEW t \in Threads, QueueStep(t) \/ SpuriousWakeUp(t) PROVE PoolInv'
    BY <1>8, StepQueue
  <1> QED
    BY <1>1, <1>2, <1>3, <1>4, <1>5, <1>6, <1>7, <1>8 DEF Next

\* A job is run at most once and not both run and deleted; when Stop has returned
\* each was run, or deleted by a Stop asked to cancel, and both CHECKs at the end
\* of Stop held, for any number of workers, producers, jobs, Starts and Stops.
THEOREM JobsRunOrDeletedOnce ==
    ASSUME ~PutsDuringStop
    PROVE  Spec => []RunOrDeletedOnce
  <1>1. PoolInv => RunOrDeletedOnce
    <2> SUFFICES ASSUME PoolInv PROVE RunOrDeletedOnce
      OBVIOUS
    <2>1. pc[Owner] # "aborted"
      BY DEF PoolInv, NullOnce
    <2>2. \A j \in Items : run[j] + (IF j \in deleted THEN 1 ELSE 0) <= 1
      BY DEF PoolInv, JobsOnce
    <2>3. ASSUME pc[Owner] = "stopped", NEW j \in given PROVE run[j] = 1 \/ (cancel /\ j \in deleted)
      <3>1. /\ data_ = <<>> /\ \A w \in Workers : pc[w] = "exited"
            /\ \A p \in Producers : hand[p] = None /\ j \in Items
        BY <2>3 DEF PoolInv, NullOnce, PoolTypeOK
      <3>2. /\ ~InData(j) /\ \A t \in Workers \cup {Owner} : ~Has(t, j)
            /\ \A p \in Producers : ~StillWith(p, j)
        BY <2>3, <3>1, Kinds DEF InData, Has, StillWith, PoolInv, PoolTypeOK
      <3> QED
        BY <2>3, <3>2 DEF PoolInv, JobsKept
    <2> QED
      BY <2>1, <2>2, <2>3 DEF RunOrDeletedOnce
  <1> QED
    BY InitPool, NextPool, <1>1, PTL DEF Spec

\* The pool and its queue stay well typed; a sleeper is inside the call whose
\* condition it sleeps on.
THEOREM TypeCorrect ==
    ASSUME ~PutsDuringStop
    PROVE  Spec => []PoolTypeOK
  <1>1. PoolInv => PoolTypeOK
    BY DEF PoolInv
  <1> QED
    BY InitPool, NextPool, <1>1, PTL DEF Spec
=============================================================================
