--------------------------- MODULE RpcClientProof ---------------------------
(***************************************************************************)
(* Safety of the RPC client for any threads, number of queries and limit   *)
(* of parallel ones, whatever the races of CancelAllQueries and Shutdown.  *)
(***************************************************************************)
EXTENDS RpcClient, FiniteSetTheorems, SequenceTheorems, TLAPS

\* xids are given out in order.
Made == {x \in Xids : query[x].owner # None}
XidsInOrder == \E n \in 0..MaxQueries : Made = 1..n

\* A query that was not made has left no trace.
Fresh(x) ==
    /\ query[x].runs = 0 /\ ~query[x].deleted /\ ~query[x].cancelled
    /\ x \notin response_map
    /\ \A i \in DOMAIN running : running[i] # <<"run", x>>

NotMadeIsFresh == \A x \in Xids : query[x].owner = None => Fresh(x)

\* Where the callback of a query is: in the map, on its way to be run, run, or
\* deleted; in one of them at most.
OnePlace ==
    \A x \in Xids :
       /\ query[x].runs \in {0, 1}
       /\ x \in response_map => query[x].runs = 0 /\ ~query[x].deleted
       /\ query[x].deleted => query[x].runs = 0
       /\ \A i \in DOMAIN running : running[i] = <<"run", x>> =>
             /\ x \notin response_map /\ query[x].runs = 0
             /\ ~query[x].deleted /\ ~query[x].cancelled
             /\ \A j \in DOMAIN running : running[j] = <<"run", x>> => i = j
       /\ query[x].cancelled => x \notin response_map

\* Who works on a query has made it, and who waits for the selector has not
\* found its callback in the map.
CancelsOwn ==
    \A t \in Threads :
       /\ pc[t].at \in {"send", "wait", "pop", "sync"} => pc[t].x \in Made
       /\ pc[t].at = "sync" => pc[t].x \notin response_map

\* The open that the constructor's user asked for is the first thing done; its
\* callback is there until it ends; a handshake begins with the connection.
OpenInOrder ==
    /\ \A i \in DOMAIN posted : posted[i] = <<"StartOpen">> =>
          i = 1 /\ conn.net = "DISCONNECTED" /\ ~conn.opening
    /\ conn.callback /\ ~conn.opening => posted # <<>> /\ posted[1] = <<"StartOpen">>
    /\ conn.net # "CONNECTED" => conn.hand = "NOT_INITIALIZED"

\* A connection that is deleted is closed, and nobody calls it or will.
Gone ==
    conn.deleted =>
       /\ conn.net = "DISCONNECTED" /\ ~conn.opening /\ posted = <<>>
       /\ \A t \in Threads : pc[t].at = "idle"

\* But for a late handshake, only the destructor fails, during an open.
OnlyDestroyFails == ~LateHandshake => (failed => conn.deleted /\ ShutsWhileOpening)

QueriesInv == TypeOK /\ XidsInOrder /\ NotMadeIsFresh /\ OnePlace /\ CancelsOwn
OpenInv == OpenInOrder /\ Gone /\ OnlyDestroyFails

-----------------------------------------------------------------------------
(* Lemmas *)

\* A set without two different members has one member at most.
LEMMA AtMostOne ==
    ASSUME NEW S, IsFiniteSet(S), \A a, b \in S : a = b
    PROVE  /\ Cardinality(S) \in {0, 1}
           /\ Cardinality(S) = 0 <=> S = {}
  <1>1. CASE S = {}
    BY <1>1, FS_EmptySet
  <1>2. CASE S # {}
    <2>1. PICK a \in S : TRUE
      BY <1>2
    <2>2. S = {a}
      BY <2>1
    <2> QED
      BY <1>2, <2>2, FS_Singleton, FS_EmptySet
  <1> QED
    BY <1>1, <1>2

\* The invariant says of the places of a callback what CallbackOnce says.
LEMMA OnePlaceIsOnce == QueriesInv => CallbackOnce
  <1> SUFFICES ASSUME QueriesInv, NEW x \in Xids
               PROVE  LET left == Cardinality({i \in DOMAIN running : running[i] = <<"run", x>>})
                      IN /\ query[x].runs + left + (IF query[x].deleted THEN 1 ELSE 0)
                               + (IF x \in response_map THEN 1 ELSE 0) <= 1
                         /\ query[x].cancelled => left = 0
    BY DEF CallbackOnce
  <1> DEFINE S == {i \in DOMAIN running : running[i] = <<"run", x>>}
  <1>1. running \in Seq(Jobs) /\ query[x] \in Query
    BY DEF QueriesInv, TypeOK
  <1>2. IsFiniteSet(S)
    <2>1. DOMAIN running = 1..Len(running) /\ Len(running) \in Nat
      BY <1>1, LenProperties
    <2>2. IsFiniteSet(1..Len(running))
      BY <2>1, FS_Interval
    <2> QED
      BY <2>1, <2>2, FS_Subset
  <1>3. \A a, b \in S : a = b
    BY DEF QueriesInv, OnePlace
  <1>4. Cardinality(S) \in {0, 1} /\ (Cardinality(S) = 0 <=> S = {})
    BY <1>2, <1>3, AtMostOne
  <1>5. S # {} => /\ x \notin response_map /\ query[x].runs = 0
                  /\ ~query[x].deleted /\ ~query[x].cancelled
    BY DEF QueriesInv, OnePlace
  <1>6. /\ query[x].runs \in {0, 1}
        /\ x \in response_map => query[x].runs = 0 /\ ~query[x].deleted
        /\ query[x].deleted => query[x].runs = 0
    BY DEF QueriesInv, OnePlace
  <1> HIDE DEF S
  <1>7. /\ query[x].runs + Cardinality(S) + (IF query[x].deleted THEN 1 ELSE 0)
              + (IF x \in response_map THEN 1 ELSE 0) <= 1
        /\ query[x].cancelled => Cardinality(S) = 0
    BY <1>4, <1>5, <1>6
  <1> QED
    BY <1>7 DEF S

\* A sequence of one element, or of none.
LEMMA ShortSeq ==
    ASSUME NEW S, NEW s, s = <<>> \/ \E e \in S : s = <<e>>
    PROVE  s \in Seq(S)
  <1>1. CASE s = <<>>
    BY <1>1
  <1>2. ASSUME NEW e \in S, s = <<e>> PROVE s \in Seq(S)
    BY <1>2
  <1> QED
    BY <1>1, <1>2

\* The xid of the next query has not been used.
LEMMA NextXidIsFresh ==
    ASSUME QueriesInv, NextXid \in Xids
    PROVE  query[NextXid].owner = None /\ Made \cup {NextXid} = 1..NextXid
  <1>1. PICK n \in 0..MaxQueries : Made = 1..n
    BY DEF QueriesInv, XidsInOrder
  <1>2. NextXid = n + 1
    <2>1. n \in Nat
      BY <1>1, RpcAssumption
    <2>2. Cardinality(Made) = n
      BY <1>1, <2>1, FS_Interval
    <2> QED
      BY <2>2 DEF NextXid, Made
  <1>3. n + 1 \notin 1..n /\ 1..n \cup {n + 1} = 1..(n + 1)
    BY <1>1, RpcAssumption
  <1> QED
    BY <1>1, <1>2, <1>3 DEF Made

\* Jobs that run no callback change nothing for the callbacks.
LEMMA OtherJobs ==
    ASSUME QueriesInv, TypeOK', CancelsOwn', query' = query, response_map' = response_map,
           \/ running' = running
           \/ \A i \in DOMAIN running', x \in Xids : running'[i] # <<"run", x>>
    PROVE  QueriesInv'
  BY DEF QueriesInv, XidsInOrder, Made, NotMadeIsFresh, Fresh, OnePlace

-----------------------------------------------------------------------------
(* Any thread *)

\* What a thread posts is a closure.
LEMMA PostType ==
    ASSUME TypeOK, NEW c \in Closures, Post(c)
    PROVE  posted' \in Seq(Closures)
  BY AppendProperties DEF TypeOK, Post

\* A thread that goes on keeps its query, and the others are where they were.
LEMMA GoToEffect ==
    ASSUME TypeOK, NEW t \in Threads, NEW where \in PCs, GoTo(t, where)
    PROVE  /\ pc' \in [Threads -> [at : PCs, x : Xids \cup {0}, sync : BOOLEAN]]
           /\ pc'[t].at = where /\ pc'[t].x = pc[t].x
           /\ \A u \in Threads : u # t => pc'[u] = pc[u]
  BY DEF TypeOK, GoTo

\* A thread that returns is idle, and the others are where they were.
LEMMA ReturnEffect ==
    ASSUME TypeOK, NEW t \in Threads, Return(t)
    PROVE  /\ pc' \in [Threads -> [at : PCs, x : Xids \cup {0}, sync : BOOLEAN]]
           /\ pc'[t].at = "idle"
           /\ \A u \in Threads : u # t => pc'[u] = pc[u]
  BY DEF TypeOK, Return, IdlePC, PCs

\* A new query takes a fresh xid.
LEMMA AsyncQueryInv ==
    ASSUME QueriesInv, NEW t \in Threads, NEW sync \in BOOLEAN, AsyncQuery(t, sync)
    PROVE  QueriesInv'
  <1> DEFINE y == NextXid
  <1>1. y \in Xids /\ query[y].owner = None /\ Made \cup {y} = 1..y /\ Fresh(y)
    BY NextXidIsFresh DEF AsyncQuery, QueriesInv, NotMadeIsFresh
  <1>2. /\ query' = [query EXCEPT ![y].owner = t]
        /\ response_map' = response_map \cup {y}
        /\ Post(<<"AddTimeout", y>>)
        /\ pc' = [pc EXCEPT ![t] = [at |-> "send", x |-> y, sync |-> sync]]
        /\ UNCHANGED <<mutex, timers, running, conn, failed>>
    BY DEF AsyncQuery
  <1>3. TypeOK /\ t # None /\ posted' \in Seq(Closures)
    <2>1. <<"AddTimeout", y>> \in Closures
      BY <1>1 DEF Closures
    <2> QED
      BY <1>2, <2>1, PostType, RpcAssumption DEF QueriesInv
  <1> HIDE DEF y
  <1>4. TypeOK'
    BY <1>1, <1>2, <1>3, ZenonT(60) DEF TypeOK, Query, PCs
  <1>5. /\ query'[y].owner # None /\ query'[y].runs = 0 /\ ~query'[y].deleted /\ ~query'[y].cancelled
        /\ \A x \in Xids : x # y => query'[x] = query[x]
    BY <1>1, <1>2, <1>3 DEF TypeOK, Query, Fresh
  <1>6. Made' = Made \cup {y}
    BY <1>1, <1>5 DEF Made
  <1>7. XidsInOrder'
    BY <1>1, <1>6, RpcAssumption DEF XidsInOrder, Xids
  <1>8. NotMadeIsFresh'
    BY <1>1, <1>2, <1>5 DEF QueriesInv, NotMadeIsFresh, Fresh
  <1>9. OnePlace'
    BY <1>1, <1>2, <1>5 DEF QueriesInv, OnePlace, Fresh
  <1>10. CancelsOwn'
    <2> SUFFICES ASSUME NEW u \in Threads
                 PROVE  /\ pc'[u].at \in {"send", "wait", "pop", "sync"} => pc'[u].x \in Made'
                        /\ pc'[u].at = "sync" => pc'[u].x \notin response_map'
      BY DEF CancelsOwn
    <2>1. CASE u = t
      BY <1>2, <1>3, <1>6, <2>1 DEF TypeOK
    <2>2. CASE u # t
      <3>1. pc'[u] = pc[u] /\ y \notin Made
        BY <1>1, <1>2, <1>3, <2>2 DEF TypeOK, Made
      <3> QED
        BY <1>2, <1>6, <3>1 DEF QueriesInv, CancelsOwn
    <2> QED
      BY <2>1, <2>2
  <1> QED
    BY <1>4, <1>7, <1>8, <1>9, <1>10 DEF QueriesInv

\* Steps of a thread that leave the callbacks where they are.
LEMMA ThreadInv ==
    ASSUME QueriesInv, NEW t \in Threads,
           \/ Send(t) \/ QueryReturns(t) \/ \E x \in Xids : CancelQuery(t, x)
           \/ CancelAllQueries(t) \/ ClearTimeoutsTimeout(t) \/ Shutdown(t)
    PROVE  QueriesInv'
  <1>1. TypeOK /\ CancelsOwn
    BY DEF QueriesInv
  <1>2. CASE Send(t)
    <2>1. pc[t].x \in Xids /\ pc[t].x \in Made
      BY <1>1, <1>2 DEF Send, At, CancelsOwn, Made
    <2>2. posted' \in Seq(Closures)
      <3>1. <<"SendPacket", pc[t].x>> \in Closures
        BY <2>1 DEF Closures
      <3> QED
        BY <1>1, <1>2, <3>1, PostType DEF Send
    <2>3. /\ pc' \in [Threads -> [at : PCs, x : Xids \cup {0}, sync : BOOLEAN]]
          /\ pc'[t].at = "idle" \/ (pc'[t].at = "wait" /\ pc'[t].x = pc[t].x)
          /\ \A u \in Threads : u # t => pc'[u] = pc[u]
      <3>1. "wait" \in PCs
        BY DEF PCs
      <3>2. CASE GoTo(t, "wait")
        BY <1>1, <3>1, <3>2, GoToEffect
      <3>3. CASE Return(t)
        BY <1>1, <3>3, ReturnEffect
      <3> QED
        BY <1>2, <3>2, <3>3 DEF Send
    <2>4. TypeOK' /\ CancelsOwn'
      BY <1>1, <1>2, <2>1, <2>2, <2>3 DEF TypeOK, Send, CancelsOwn, Made
    <2> QED
      BY <1>2, <2>4, OtherJobs DEF Send
  <1>3. CASE QueryReturns(t)
    <2>1. TypeOK' /\ CancelsOwn'
      BY <1>1, <1>3 DEF TypeOK, QueryReturns, Return, IdlePC, PCs, CancelsOwn, Made
    <2> QED
      BY <1>3, <2>1, OtherJobs DEF QueryReturns
  <1>4. ASSUME NEW x \in Xids, CancelQuery(t, x)
        PROVE  QueriesInv'
    <2>1. x \in Made
      BY <1>4, RpcAssumption DEF CancelQuery, Made
    <2>2. posted' \in Seq(Closures)
      <3>1. <<"ClearTimeout", x>> \in Closures
        BY DEF Closures
      <3> QED
        BY <1>1, <1>4, <3>1, PostType DEF CancelQuery
    <2>3. TypeOK'
      BY <1>1, <1>4, <2>2 DEF TypeOK, CancelQuery, PCs
    <2>4. CancelsOwn'
      BY <1>1, <1>4, <2>1 DEF CancelsOwn, CancelQuery, TypeOK, Made
    <2> QED
      BY <1>4, <2>3, <2>4, OtherJobs DEF CancelQuery
  <1>5. CASE CancelAllQueries(t) \/ Shutdown(t)
    <2>1. posted' \in Seq(Closures)
      <3>1. <<"ClearTimeouts">> \in Closures /\ <<"Shutdown", t>> \in Closures
        BY DEF Closures
      <3> QED
        BY <1>1, <1>5, <3>1, PostType DEF CancelAllQueries, Shutdown
    <2>2. /\ pc' \in [Threads -> [at : PCs, x : Xids \cup {0}, sync : BOOLEAN]]
          /\ pc'[t].at \in {"clear", "shutdown"}
          /\ \A u \in Threads : u # t => pc'[u] = pc[u]
      <3>1. "clear" \in PCs /\ "shutdown" \in PCs
        BY DEF PCs
      <3> QED
        BY <1>1, <1>5, <3>1, GoToEffect DEF CancelAllQueries, Shutdown
    <2>3. TypeOK' /\ CancelsOwn'
      BY <1>1, <1>5, <2>1, <2>2 DEF TypeOK, CancelAllQueries, Shutdown, CancelsOwn, Made
    <2> QED
      BY <1>5, <2>3, OtherJobs DEF CancelAllQueries, Shutdown
  <1>6. CASE ClearTimeoutsTimeout(t)
    <2>1. TypeOK' /\ CancelsOwn'
      BY <1>1, <1>6 DEF TypeOK, ClearTimeoutsTimeout, GoTo, PCs, CancelsOwn, Made
    <2> QED
      BY <1>6, <2>1, OtherJobs DEF ClearTimeoutsTimeout
  <1> QED
    BY <1>2, <1>3, <1>4, <1>5, <1>6

\* CancelQuery deletes what is in the map, or goes on to wait for the selector.
LEMMA CancelPopInv ==
    ASSUME QueriesInv, NEW t \in Threads, CancelPop(t)
    PROVE  QueriesInv'
  <1> DEFINE y == pc[t].x
  <1>1. TypeOK /\ CancelsOwn /\ OnePlace /\ NotMadeIsFresh /\ XidsInOrder
    BY DEF QueriesInv
  <1>2. y \in Xids /\ y \in Made
    BY <1>1 DEF CancelPop, At, CancelsOwn, Made
  <1>3. CASE /\ y \in response_map
             /\ query' = [query EXCEPT ![y].deleted = TRUE, ![y].cancelled = TRUE]
             /\ response_map' = response_map \ {y}
             /\ Return(t)
             /\ UNCHANGED posted
    <2>1. UNCHANGED <<mutex, timers, running, conn, failed>>
      BY DEF CancelPop
    <2>2. /\ pc' \in [Threads -> [at : PCs, x : Xids \cup {0}, sync : BOOLEAN]]
          /\ pc'[t].at = "idle"
          /\ \A u \in Threads : u # t => pc'[u] = pc[u]
      BY <1>1, <1>3, ReturnEffect
    <2> HIDE DEF y
    <2>3. /\ query'[y].owner = query[y].owner /\ query'[y].runs = query[y].runs
          /\ query'[y].deleted /\ query'[y].cancelled
          /\ \A x \in Xids : x # y => query'[x] = query[x]
          /\ query' \in [Xids -> Query]
      BY <1>1, <1>2, <1>3, ZenonT(60) DEF TypeOK, Query
    <2>4. TypeOK'
      BY <1>1, <1>3, <2>1, <2>2, <2>3 DEF TypeOK
    <2>5. Made' = Made
      BY <1>2, <2>3 DEF Made
    <2>6. XidsInOrder' /\ NotMadeIsFresh'
      BY <1>1, <1>2, <1>3, <2>1, <2>3, <2>5 DEF XidsInOrder, NotMadeIsFresh, Fresh, Made
    <2>7. OnePlace'
      BY <1>1, <1>2, <1>3, <2>1, <2>3 DEF OnePlace
    <2>8. CancelsOwn'
      BY <1>1, <1>3, <2>2, <2>5 DEF CancelsOwn
    <2> QED
      BY <2>4, <2>6, <2>7, <2>8 DEF QueriesInv
  <1>4. CASE /\ y \notin response_map
             /\ Post(<<"signal", t>>)
             /\ GoTo(t, "sync")
             /\ UNCHANGED <<query, response_map>>
    <2>1. UNCHANGED <<mutex, timers, running, conn, failed>>
      BY DEF CancelPop
    <2>2. posted' \in Seq(Closures)
      <3>1. <<"signal", t>> \in Closures
        BY DEF Closures
      <3> QED
        BY <1>1, <1>4, <3>1, PostType
    <2>3. /\ pc' \in [Threads -> [at : PCs, x : Xids \cup {0}, sync : BOOLEAN]]
          /\ pc'[t].at = "sync" /\ pc'[t].x = y
          /\ \A u \in Threads : u # t => pc'[u] = pc[u]
      <3>1. "sync" \in PCs
        BY DEF PCs
      <3> QED
        BY <1>1, <1>4, <3>1, GoToEffect
    <2> HIDE DEF y
    <2>4. TypeOK' /\ CancelsOwn'
      BY <1>1, <1>2, <1>4, <2>1, <2>2, <2>3 DEF TypeOK, CancelsOwn, Made
    <2> QED
      BY <1>4, <2>1, <2>4, OtherJobs
  <1> QED
    BY <1>3, <1>4 DEF CancelPop

\* CancelAllQueries deletes all that is in the map.
LEMMA CancelAllLockedInv ==
    ASSUME QueriesInv, NEW t \in Threads, CancelAllLocked(t)
    PROVE  QueriesInv'
  <1>1. TypeOK /\ CancelsOwn /\ OnePlace /\ NotMadeIsFresh /\ XidsInOrder
    BY DEF QueriesInv
  <1>2. /\ mutex' = t
        /\ query' = [x \in Xids |-> [query[x] EXCEPT !.deleted = @ \/ x \in response_map]]
        /\ response_map' = {}
        /\ Post(<<"signal", t>>)
        /\ GoTo(t, "locked")
        /\ UNCHANGED <<timers, running, conn, failed>>
    BY DEF CancelAllLocked
  <1>3. posted' \in Seq(Closures)
    <2>1. <<"signal", t>> \in Closures
      BY DEF Closures
    <2> QED
      BY <1>1, <1>2, <2>1, PostType
  <1>4. /\ pc' \in [Threads -> [at : PCs, x : Xids \cup {0}, sync : BOOLEAN]]
        /\ pc'[t].at = "locked"
        /\ \A u \in Threads : u # t => pc'[u] = pc[u]
    <2>1. "locked" \in PCs
      BY DEF PCs
    <2> QED
      BY <1>1, <1>2, <2>1, GoToEffect
  <1>5. /\ query' \in [Xids -> Query]
        /\ \A x \in Xids : /\ query'[x].owner = query[x].owner /\ query'[x].runs = query[x].runs
                           /\ query'[x].cancelled = query[x].cancelled
                           /\ query'[x].deleted = (query[x].deleted \/ x \in response_map)
    BY <1>1, <1>2 DEF TypeOK, Query
  <1>6. TypeOK'
    BY <1>1, <1>2, <1>3, <1>4, <1>5 DEF TypeOK
  <1>7. Made' = Made
    BY <1>5 DEF Made
  <1>8. XidsInOrder' /\ NotMadeIsFresh'
    BY <1>1, <1>2, <1>5, <1>7 DEF XidsInOrder, NotMadeIsFresh, Fresh
  <1>9. OnePlace'
    BY <1>1, <1>2, <1>5 DEF OnePlace
  <1>10. CancelsOwn'
    BY <1>1, <1>2, <1>4, <1>7 DEF CancelsOwn
  <1> QED
    BY <1>6, <1>8, <1>9, <1>10 DEF QueriesInv

-----------------------------------------------------------------------------
(* The selector thread *)

\* There is an enumeration of the callbacks in the order of their xids: a xid is
\* at the place that the number of smaller ones gives it.
LEMMA OrderedEnumerates ==
    ASSUME NEW S \in SUBSET Xids
    PROVE  /\ Ordered(S) \in [1..Cardinality(S) -> S] /\ Cardinality(S) \in Nat
           /\ \A i, j \in 1..Cardinality(S) : i # j => Ordered(S)[i] # Ordered(S)[j]
  <1> DEFINE N == Cardinality(S)
             Below(x) == {y \in S : y < x}
             rank == [x \in S |-> Cardinality(Below(x)) + 1]
  <1>1. IsFiniteSet(S) /\ N \in Nat /\ \A x \in S : x \in Nat
    <2>1. IsFiniteSet(Xids)
      BY FS_Interval, RpcAssumption DEF Xids
    <2>2. IsFiniteSet(S) /\ N \in Nat
      BY <2>1, FS_Subset, FS_CardinalityType
    <2>3. \A x \in S : x \in Nat
      BY RpcAssumption DEF Xids
    <2> QED
      BY <2>2, <2>3
  <1>2. ASSUME NEW x \in S
        PROVE  IsFiniteSet(Below(x)) /\ Cardinality(Below(x)) \in Nat /\ rank[x] \in 1..N
    <2>1. IsFiniteSet(Below(x)) /\ Cardinality(Below(x)) \in Nat
      BY <1>1, FS_Subset, FS_CardinalityType
    <2>2. x \notin Below(x)
      BY <1>1
    <2>3. Cardinality(Below(x) \cup {x}) = Cardinality(Below(x)) + 1
      BY <2>1, <2>2, FS_AddElement
    <2>4. Cardinality(Below(x) \cup {x}) <= N
      BY <1>1, FS_Subset
    <2> HIDE DEF Below
    <2> QED
      BY <1>1, <2>1, <2>3, <2>4
  <1>3. ASSUME NEW x \in S, NEW y \in S, x < y
        PROVE  rank[x] < rank[y]
    <2>1. x \notin Below(x) /\ Below(x) \cup {x} \subseteq Below(y)
      <3>1. x \notin Below(x)
        BY <1>1
      <3>2. ASSUME NEW z \in Below(x) \cup {x}
            PROVE  z \in Below(y)
        <4>1. z \in S /\ z \in Nat /\ x \in Nat /\ y \in Nat /\ (z < x \/ z = x)
          BY <1>1
        <4> QED
          BY <1>3, <4>1
      <3> QED
        BY <3>1, <3>2
    <2>2. Cardinality(Below(x) \cup {x}) = Cardinality(Below(x)) + 1
      BY <1>2, <2>1, FS_AddElement
    <2>3. Cardinality(Below(x) \cup {x}) <= Cardinality(Below(y))
      BY <1>2, <2>1, FS_Subset
    <2>4. Cardinality(Below(x)) \in Nat /\ Cardinality(Below(y)) \in Nat
      BY <1>2
    <2> HIDE DEF Below
    <2> QED
      BY <2>2, <2>3, <2>4
  <1>4. rank \in Injection(S, 1..N)
    <2>1. rank \in [S -> 1..N]
      BY <1>2
    <2>2. ASSUME NEW x \in S, NEW y \in S, rank[x] = rank[y]
          PROVE  x = y
      <3> HIDE DEF rank, N
      <3>1. rank[x] \in 1..N /\ rank[y] \in 1..N
        BY <1>2
      <3> QED
        BY <1>1, <1>3, <2>2, <3>1
    <2> HIDE DEF rank
    <2> QED
      BY <2>1, <2>2 DEF Injection, IsInjective
  <1>5. rank \in Surjection(S, 1..N)
    <2>1. IsFiniteSet(1..N) /\ Cardinality(1..N) = N
      BY <1>1, FS_Interval
    <2> HIDE DEF rank
    <2> QED
      BY <1>4, <2>1, FS_Injection
  <1> DEFINE s == [i \in 1..N |-> CHOOSE x \in S : rank[x] = i]
  <1>6. \A i \in 1..N : s[i] \in S /\ rank[s[i]] = i
    <2> HIDE DEF rank
    <2>1. \A i \in 1..N : \E x \in S : rank[x] = i
      BY <1>5 DEF Surjection
    <2> QED
      BY <2>1
  <1>7. s \in [1..N -> S] /\ \A i, j \in DOMAIN s : i < j => s[i] < s[j]
    <2>1. s \in [1..N -> S] /\ DOMAIN s = 1..N
      BY <1>6
    <2>2. ASSUME NEW i \in 1..N, NEW j \in 1..N, i < j
          PROVE  s[i] < s[j]
      <3>1. s[i] \in S /\ s[j] \in S /\ rank[s[i]] = i /\ rank[s[j]] = j
        BY <1>6
      <3>2. ~(s[j] < s[i]) /\ s[i] # s[j]
        <4> HIDE DEF s, rank
        <4> QED
          BY <1>3, <2>2, <3>1
      <3>3. s[i] \in Nat /\ s[j] \in Nat
        BY <1>1, <3>1
      <3> HIDE DEF s
      <3> QED
        BY <3>2, <3>3
    <2> QED
      BY <2>1, <2>2
  <1>8. /\ Ordered(S) \in [1..N -> S]
        /\ \A i, j \in DOMAIN Ordered(S) : i < j => Ordered(S)[i] < Ordered(S)[j]
    <2> HIDE DEF s, N
    <2>1. \E f \in [1..N -> S] : \A i, j \in DOMAIN f : i < j => f[i] < f[j]
      BY <1>7
    <2> QED
      BY <2>1 DEF Ordered, N
  <1>9. ASSUME NEW i \in 1..N, NEW j \in 1..N, i # j
        PROVE  Ordered(S)[i] # Ordered(S)[j]
    <2>1. DOMAIN Ordered(S) = 1..N /\ Ordered(S)[i] \in Nat /\ Ordered(S)[j] \in Nat
      BY <1>1, <1>8
    <2>2. i < j \/ j < i
      BY <1>1, <1>9
    <2> HIDE DEF N
    <2> QED
      BY <1>8, <2>1, <2>2
  <1> QED
    BY <1>1, <1>8, <1>9

\* The first job of a turn, and the ones behind it.
LEMMA HeadJob ==
    ASSUME TypeOK, running # <<>>
    PROVE  /\ Len(running) \in Nat \ {0} /\ DOMAIN running = 1..Len(running)
           /\ Head(running) = running[1] /\ running[1] \in Jobs
           /\ Tail(running) \in Seq(Jobs) /\ Len(Tail(running)) = Len(running) - 1
           /\ DOMAIN Tail(running) = 1..Len(running) - 1
           /\ \A i \in 1..Len(running) - 1 : Tail(running)[i] = running[i + 1]
           /\ Head(running)[1] \in {"CompleteQuery", "run"} =>
                 /\ Head(running)[2] \in Xids
                 /\ running[1] = <<Head(running)[1], Head(running)[2]>>
           /\ Head(running)[1] = "signal" => Head(running)[2] \in Threads
  <1>1. running \in Seq(Jobs) /\ Len(running) \in Nat \ {0} /\ DOMAIN running = 1..Len(running)
    BY EmptySeq, LenProperties DEF TypeOK
  <1>2. Head(running) = running[1] /\ running[1] \in Jobs
    BY <1>1, ElementOfSeq
  <1>3. /\ Tail(running) \in Seq(Jobs) /\ Len(Tail(running)) = Len(running) - 1
        /\ \A i \in 1..Len(running) - 1 : Tail(running)[i] = running[i + 1]
    BY <1>1, HeadTailProperties
  <1>4. DOMAIN Tail(running) = 1..Len(running) - 1
    BY <1>3, LenProperties
  <1>5. /\ Head(running)[1] \in {"CompleteQuery", "run"} =>
              /\ Head(running)[2] \in Xids
              /\ running[1] = <<Head(running)[1], Head(running)[2]>>
        /\ Head(running)[1] = "signal" => Head(running)[2] \in Threads
    BY <1>2 DEF Jobs
  <1> QED
    BY <1>1, <1>2, <1>3, <1>4, <1>5

\* Jobs put before others.
LEMMA ConcatAt ==
    ASSUME NEW S, NEW s \in Seq(S), NEW t \in Seq(S), NEW r, r = s \o t
    PROVE  /\ r \in Seq(S) /\ DOMAIN r = 1..(Len(s) + Len(t))
           /\ \A i \in DOMAIN r :
                 \/ i \in DOMAIN s /\ r[i] = s[i]
                 \/ i > Len(s) /\ i - Len(s) \in DOMAIN t /\ r[i] = t[i - Len(s)]
  <1>1. /\ r \in Seq(S) /\ Len(r) = Len(s) + Len(t)
        /\ \A i \in 1..Len(s) + Len(t) : r[i] = IF i <= Len(s) THEN s[i] ELSE t[i - Len(s)]
    BY ConcatProperties
  <1>2. /\ DOMAIN r = 1..Len(r) /\ DOMAIN s = 1..Len(s) /\ DOMAIN t = 1..Len(t)
        /\ Len(s) \in Nat /\ Len(t) \in Nat
    BY <1>1, LenProperties
  <1> QED
    BY <1>1, <1>2

\* CompleteQuery takes the callback from the map to the turn.
LEMMA CompleteQueryInv ==
    ASSUME QueriesInv, CompleteQuery
    PROVE  QueriesInv'
  <1> DEFINE y == Head(running)[2]
  <1>1. TypeOK /\ CancelsOwn /\ OnePlace /\ NotMadeIsFresh /\ XidsInOrder
    BY DEF QueriesInv
  <1>2. /\ running # <<>> /\ Head(running)[1] = "CompleteQuery"
        /\ timers' = timers \ {y}
        /\ response_map' = response_map \ {y}
        /\ running' = (IF y \in response_map THEN <<<<"run", y>>>> ELSE <<>>) \o Tail(running)
        /\ UNCHANGED <<pc, query, mutex, posted, conn, failed>>
    BY DEF CompleteQuery, threadVars
  <1>3. y \in Xids /\ running[1] = <<"CompleteQuery", y>>
    BY <1>1, <1>2, HeadJob
  <1>4. /\ running' \in Seq(Jobs)
        /\ \A i \in DOMAIN running' :
              \/ i = 1 /\ running'[i] = <<"run", y>> /\ y \in response_map
              \/ y \in response_map /\ i \in DOMAIN running /\ running'[i] = running[i]
              \/ y \notin response_map /\ i + 1 \in DOMAIN running /\ running'[i] = running[i + 1]
    <2> DEFINE tail == Tail(running)
    <2> HIDE DEF y
    <2>1. /\ tail \in Seq(Jobs) /\ Len(tail) = Len(running) - 1 /\ Len(running) \in Nat \ {0}
          /\ DOMAIN running = 1..Len(running) /\ DOMAIN tail = 1..Len(running) - 1
          /\ \A i \in 1..Len(running) - 1 : tail[i] = running[i + 1]
      BY <1>1, <1>2, HeadJob
    <2> HIDE DEF tail
    <2>2. CASE y \in response_map
      <3> DEFINE one == <<<<"run", y>>>>
      <3>1. one \in Seq(Jobs) /\ Len(one) = 1 /\ one[1] = <<"run", y>>
        BY <1>3 DEF Jobs
      <3>2. one \in Seq(Jobs) /\ tail \in Seq(Jobs) /\ running' = one \o tail
        BY <1>2, <2>1, <2>2, <3>1 DEF tail
      <3> HIDE DEF one
      <3>3. /\ running' \in Seq(Jobs) /\ DOMAIN running' = 1..(Len(one) + Len(tail))
            /\ \A i \in DOMAIN running' :
                  \/ i \in DOMAIN one /\ running'[i] = one[i]
                  \/ i > Len(one) /\ i - Len(one) \in DOMAIN tail /\ running'[i] = tail[i - Len(one)]
        BY <3>2, ConcatAt
      <3>4. DOMAIN one = 1..1
        BY <3>1, LenProperties
      <3> QED
        BY <2>1, <2>2, <3>1, <3>3, <3>4
    <2>3. CASE y \notin response_map
      <3>1. running' = tail
        BY <1>2, <2>1, <2>3, ConcatEmptySeq DEF tail
      <3> QED
        BY <2>1, <2>3, <3>1
    <2> QED
      BY <2>2, <2>3
  <1> HIDE DEF y
  <1>5. TypeOK'
    BY <1>1, <1>2, <1>4 DEF TypeOK
  <1>6. XidsInOrder' /\ CancelsOwn'
    BY <1>1, <1>2 DEF XidsInOrder, CancelsOwn, Made
  <1>7. ASSUME NEW x \in Xids, NEW i \in DOMAIN running', running'[i] = <<"run", x>>
        PROVE  \/ /\ x = y /\ i = 1 /\ y \in response_map
               \/ /\ x # y /\ y \in response_map /\ i \in DOMAIN running /\ running[i] = <<"run", x>>
               \/ /\ y \notin response_map /\ i + 1 \in DOMAIN running /\ running[i + 1] = <<"run", x>>
    <2>1. y \in response_map => \A j \in DOMAIN running : running[j] # <<"run", y>>
      BY <1>1, <1>3 DEF OnePlace
    <2>2. <<"run", x>> = <<"run", y>> => x = y
      OBVIOUS
    <2> QED
      BY <1>4, <1>7, <2>1, <2>2
  <1>8. NotMadeIsFresh'
    BY <1>1, <1>2, <1>7 DEF NotMadeIsFresh, Fresh
  <1>9. OnePlace'
    <2> SUFFICES ASSUME NEW x \in Xids
                 PROVE  /\ query[x].runs \in {0, 1}
                        /\ x \in response_map' => query[x].runs = 0 /\ ~query[x].deleted
                        /\ query[x].deleted => query[x].runs = 0
                        /\ \A i \in DOMAIN running' : running'[i] = <<"run", x>> =>
                              /\ x \notin response_map' /\ query[x].runs = 0
                              /\ ~query[x].deleted /\ ~query[x].cancelled
                              /\ \A j \in DOMAIN running' : running'[j] = <<"run", x>> => i = j
                        /\ query[x].cancelled => x \notin response_map'
      BY <1>2 DEF OnePlace
    <2>1. /\ query[x].runs \in {0, 1}
          /\ x \in response_map' => query[x].runs = 0 /\ ~query[x].deleted
          /\ query[x].deleted => query[x].runs = 0
          /\ query[x].cancelled => x \notin response_map'
      BY <1>1, <1>2 DEF OnePlace
    <2>2. ASSUME NEW i \in DOMAIN running', running'[i] = <<"run", x>>
          PROVE  /\ x \notin response_map' /\ query[x].runs = 0
                 /\ ~query[x].deleted /\ ~query[x].cancelled
      BY <1>1, <1>2, <1>7, <2>2 DEF OnePlace
    <2>3. ASSUME NEW i \in DOMAIN running', running'[i] = <<"run", x>>,
                 NEW j \in DOMAIN running', running'[j] = <<"run", x>>
          PROVE  i = j
      <3>1. i \in Nat /\ j \in Nat
        BY <1>4, LenProperties
      <3> QED
        BY <1>1, <1>7, <2>3, <3>1 DEF OnePlace
    <2> QED
      BY <2>1, <2>2, <2>3
  <1> QED
    BY <1>5, <1>6, <1>8, <1>9 DEF QueriesInv

\* CompleteAllQueries takes all the callbacks, each once.
LEMMA CompleteAllQueriesInv ==
    ASSUME QueriesInv, CompleteAllQueries
    PROVE  QueriesInv'
  <1> DEFINE xids == Ordered(response_map)
             n == Cardinality(response_map)
             all == [i \in DOMAIN xids |-> <<"run", xids[i]>>]
             tail == Tail(running)
  <1>1. TypeOK /\ CancelsOwn /\ OnePlace /\ NotMadeIsFresh /\ XidsInOrder
    BY DEF QueriesInv
  <1>2. /\ running # <<>>
        /\ timers' = {} /\ response_map' = {} /\ running' = all \o tail
        /\ UNCHANGED <<pc, query, mutex, posted, conn, failed>>
    BY DEF CompleteAllQueries, threadVars
  <1>3. /\ xids \in [1..n -> response_map] /\ n \in Nat
        /\ \A i, j \in 1..n : i # j => xids[i] # xids[j]
    BY <1>1, OrderedEnumerates DEF TypeOK
  <1> HIDE DEF xids, n
  <1>4. /\ all \in Seq(Jobs) /\ Len(all) = n /\ DOMAIN all = 1..n
        /\ \A i \in 1..n : all[i] = <<"run", xids[i]>> /\ xids[i] \in response_map
    <2>1. \A i \in 1..n : <<"run", xids[i]>> \in Jobs /\ xids[i] \in response_map
      BY <1>1, <1>3 DEF TypeOK, Jobs
    <2>2. all \in [1..n -> Jobs]
      BY <1>3, <2>1
    <2> QED
      BY <1>3, <2>1, <2>2
  <1> HIDE DEF all
  <1>5. /\ tail \in Seq(Jobs) /\ Len(running) \in Nat \ {0}
        /\ DOMAIN running = 1..Len(running) /\ DOMAIN tail = 1..Len(running) - 1
        /\ \A i \in 1..Len(running) - 1 : tail[i] = running[i + 1]
    BY <1>1, <1>2, HeadJob
  <1> HIDE DEF tail
  <1>6. /\ running' \in Seq(Jobs) /\ DOMAIN running' = 1..(Len(all) + Len(tail))
        /\ \A i \in DOMAIN running' :
              \/ i \in DOMAIN all /\ running'[i] = all[i]
              \/ i > Len(all) /\ i - Len(all) \in DOMAIN tail /\ running'[i] = tail[i - Len(all)]
    BY <1>2, <1>4, <1>5, ConcatAt
  <1>7. ASSUME NEW x \in Xids, NEW i \in DOMAIN running', running'[i] = <<"run", x>>
        PROVE  \/ /\ i \in 1..n /\ x = xids[i] /\ x \in response_map
               \/ /\ i > n /\ i - n + 1 \in DOMAIN running /\ running[i - n + 1] = <<"run", x>>
                  /\ x \notin response_map
    <2>1. CASE i \in DOMAIN all /\ running'[i] = all[i]
      BY <1>4, <1>7, <2>1
    <2>2. CASE i > Len(all) /\ i - Len(all) \in DOMAIN tail /\ running'[i] = tail[i - Len(all)]
      <3>1. i \in Nat /\ i > n /\ i - n \in 1..Len(running) - 1 /\ tail[i - n] = <<"run", x>>
        BY <1>4, <1>5, <1>6, <1>7, <2>2, LenProperties
      <3>2. tail[i - n] = running[i - n + 1] /\ i - n + 1 \in DOMAIN running
        BY <1>3, <1>5, <3>1
      <3>3. \A k \in DOMAIN running : running[k] = <<"run", x>> => x \notin response_map
        BY <1>1 DEF OnePlace
      <3> QED
        BY <3>1, <3>2, <3>3
    <2> QED
      BY <1>6, <2>1, <2>2
  <1>8. TypeOK'
    BY <1>1, <1>2, <1>6 DEF TypeOK
  <1>9. XidsInOrder' /\ CancelsOwn'
    BY <1>1, <1>2 DEF XidsInOrder, CancelsOwn, Made
  <1>10. NotMadeIsFresh'
    BY <1>1, <1>2, <1>7 DEF NotMadeIsFresh, Fresh
  <1>11. OnePlace'
    <2> SUFFICES ASSUME NEW x \in Xids
                 PROVE  /\ query[x].runs \in {0, 1}
                        /\ query[x].deleted => query[x].runs = 0
                        /\ \A i \in DOMAIN running' : running'[i] = <<"run", x>> =>
                              /\ query[x].runs = 0
                              /\ ~query[x].deleted /\ ~query[x].cancelled
                              /\ \A j \in DOMAIN running' : running'[j] = <<"run", x>> => i = j
      BY <1>2 DEF OnePlace
    <2>1. query[x].runs \in {0, 1} /\ (query[x].deleted => query[x].runs = 0)
      BY <1>1 DEF OnePlace
    <2>2. ASSUME NEW i \in DOMAIN running', running'[i] = <<"run", x>>
          PROVE  query[x].runs = 0 /\ ~query[x].deleted /\ ~query[x].cancelled
      BY <1>1, <1>7, <2>2 DEF OnePlace
    <2>3. ASSUME NEW i \in DOMAIN running', running'[i] = <<"run", x>>,
                 NEW j \in DOMAIN running', running'[j] = <<"run", x>>
          PROVE  i = j
      <3>1. i \in Nat /\ j \in Nat
        BY <1>6, LenProperties
      <3>2. CASE x \in response_map
        <4>1. i \in 1..n /\ j \in 1..n /\ xids[i] = xids[j]
          BY <1>7, <2>3, <3>2
        <4> QED
          BY <1>3, <4>1
      <3>3. CASE x \notin response_map
        <4>1. /\ i - n + 1 \in DOMAIN running /\ running[i - n + 1] = <<"run", x>>
              /\ j - n + 1 \in DOMAIN running /\ running[j - n + 1] = <<"run", x>>
          BY <1>7, <2>3, <3>3
        <4>2. i - n + 1 = j - n + 1
          BY <1>1, <4>1 DEF OnePlace
        <4> QED
          BY <1>3, <3>1, <4>2
      <3> QED
        BY <3>2, <3>3
    <2> QED
      BY <2>1, <2>2, <2>3
  <1> QED
    BY <1>8, <1>9, <1>10, <1>11 DEF QueriesInv

\* A callback that is run is done with.
LEMMA RunCallbackInv ==
    ASSUME QueriesInv, RunCallback
    PROVE  QueriesInv'
  <1> DEFINE y == Head(running)[2]
  <1>1. TypeOK /\ CancelsOwn /\ OnePlace /\ NotMadeIsFresh /\ XidsInOrder
    BY DEF QueriesInv
  <1>2. /\ running # <<>> /\ Head(running)[1] = "run"
        /\ query' = [query EXCEPT ![y].runs = @ + 1]
        /\ running' = Tail(running)
        /\ UNCHANGED <<pc, response_map, mutex, timers, posted, conn, failed>>
    BY DEF RunCallback
  <1>3. y \in Xids /\ running[1] = <<"run", y>>
    BY <1>1, <1>2, HeadJob
  <1> HIDE DEF y
  <1>4. /\ running' \in Seq(Jobs) /\ Len(running) \in Nat \ {0} /\ DOMAIN running = 1..Len(running)
        /\ DOMAIN running' = 1..Len(running) - 1
        /\ \A i \in 1..Len(running) - 1 : running'[i] = running[i + 1]
    BY <1>1, <1>2, HeadJob
  <1>5. ASSUME NEW x \in Xids, NEW i \in DOMAIN running', running'[i] = <<"run", x>>
        PROVE  i + 1 \in DOMAIN running /\ running[i + 1] = <<"run", x>> /\ x # y /\ i \in Nat
    <2>1. i + 1 \in DOMAIN running /\ running[i + 1] = <<"run", x>> /\ i \in Nat /\ i + 1 # 1
      BY <1>4, <1>5
    <2>2. 1 \in DOMAIN running
      BY <1>4
    <2> QED
      BY <1>1, <1>3, <2>1, <2>2 DEF OnePlace
  <1>6. /\ \A x \in Xids : x # y => query'[x] = query[x]
        /\ query'[y].runs = 1 /\ query[y].runs = 0 /\ ~query[y].deleted /\ ~query[y].cancelled
        /\ query'[y].owner = query[y].owner /\ query[y].owner # None
        /\ ~query'[y].deleted /\ ~query'[y].cancelled /\ y \notin response_map
        /\ query' \in [Xids -> Query]
    <2>1. 1 \in DOMAIN running
      BY <1>4
    <2>2. /\ query[y].runs = 0 /\ ~query[y].deleted /\ ~query[y].cancelled
          /\ y \notin response_map /\ query[y].owner # None
      BY <1>1, <1>3, <2>1 DEF OnePlace, NotMadeIsFresh, Fresh
    <2>3. /\ query \in [Xids -> Query] /\ query[y] \in Query
          /\ query'[y] = [query[y] EXCEPT !.runs = 1]
          /\ \A x \in Xids : x # y => query'[x] = query[x]
      BY <1>1, <1>2, <1>3, <2>2 DEF TypeOK
    <2>4. query'[y] \in Query
      BY <2>3 DEF Query
    <2>5. query' = [query EXCEPT ![y] = query'[y]]
      BY <1>2, <2>3
    <2>6. query' \in [Xids -> Query]
      BY <1>3, <2>3, <2>4, <2>5
    <2> QED
      BY <1>3, <2>2, <2>3, <2>6 DEF Query
  <1>7. TypeOK'
    BY <1>1, <1>2, <1>4, <1>6 DEF TypeOK
  <1>8. Made' = Made
    BY <1>3, <1>6 DEF Made
  <1>9. XidsInOrder' /\ CancelsOwn'
    BY <1>1, <1>2, <1>8 DEF XidsInOrder, CancelsOwn
  <1>10. NotMadeIsFresh'
    BY <1>1, <1>2, <1>3, <1>5, <1>6 DEF NotMadeIsFresh, Fresh
  <1>11. OnePlace'
    <2> SUFFICES ASSUME NEW x \in Xids
                 PROVE  /\ query'[x].runs \in {0, 1}
                        /\ x \in response_map => query'[x].runs = 0 /\ ~query'[x].deleted
                        /\ query'[x].deleted => query'[x].runs = 0
                        /\ \A i \in DOMAIN running' : running'[i] = <<"run", x>> =>
                              /\ x \notin response_map /\ query'[x].runs = 0
                              /\ ~query'[x].deleted /\ ~query'[x].cancelled
                              /\ \A j \in DOMAIN running' : running'[j] = <<"run", x>> => i = j
                        /\ query'[x].cancelled => x \notin response_map
      BY <1>2 DEF OnePlace
    <2>1. /\ query'[x].runs \in {0, 1}
          /\ x \in response_map => query'[x].runs = 0 /\ ~query'[x].deleted
          /\ query'[x].deleted => query'[x].runs = 0
          /\ query'[x].cancelled => x \notin response_map
      BY <1>1, <1>6 DEF OnePlace
    <2>2. ASSUME NEW i \in DOMAIN running', running'[i] = <<"run", x>>
          PROVE  /\ x \notin response_map /\ query'[x].runs = 0
                 /\ ~query'[x].deleted /\ ~query'[x].cancelled
      BY <1>1, <1>5, <1>6, <2>2 DEF OnePlace
    <2>3. ASSUME NEW i \in DOMAIN running', running'[i] = <<"run", x>>,
                 NEW j \in DOMAIN running', running'[j] = <<"run", x>>
          PROVE  i = j
      <3>1. i \in Nat /\ j \in Nat /\ i + 1 = j + 1
        BY <1>1, <1>5, <2>3 DEF OnePlace
      <3> QED
        BY <3>1
    <2> QED
      BY <2>1, <2>2, <2>3
  <1> QED
    BY <1>7, <1>9, <1>10, <1>11 DEF QueriesInv

\* The closure at the head of the queue, and the queue without it.
LEMMA HeadClosure ==
    ASSUME TypeOK, posted # <<>>
    PROVE  /\ Head(posted) = posted[1] /\ 1 \in DOMAIN posted /\ Tail(posted) \in Seq(Closures)
           /\ Head(posted)[1] \in {"AddTimeout", "ClearTimeout", "SendPacket"} =>
                 Head(posted)[2] \in Xids
           /\ Head(posted)[1] \in {"signal", "Shutdown"} => Head(posted)[2] \in Threads
           /\ Head(posted)[1] = "StartOpen" => posted[1] = <<"StartOpen">>
           /\ \A i \in DOMAIN Tail(posted) :
                 i + 1 \in DOMAIN posted /\ i + 1 > 1 /\ Tail(posted)[i] = posted[i + 1]
  <1>1. posted \in Seq(Closures) /\ Len(posted) \in Nat \ {0} /\ DOMAIN posted = 1..Len(posted)
    BY EmptySeq, LenProperties DEF TypeOK
  <1>2. Head(posted) = posted[1] /\ posted[1] \in Closures /\ 1 \in DOMAIN posted
    BY <1>1, ElementOfSeq
  <1>3. /\ Tail(posted) \in Seq(Closures) /\ Len(Tail(posted)) = Len(posted) - 1
        /\ \A i \in 1..Len(Tail(posted)) : Tail(posted)[i] = posted[i + 1]
    BY <1>1, HeadTailProperties
  <1>4. DOMAIN Tail(posted) = 1..Len(posted) - 1
    BY <1>3, LenProperties
  <1>5. /\ Head(posted)[1] \in {"AddTimeout", "ClearTimeout", "SendPacket"} =>
              Head(posted)[2] \in Xids
        /\ Head(posted)[1] \in {"signal", "Shutdown"} => Head(posted)[2] \in Threads
        /\ Head(posted)[1] = "StartOpen" => posted[1] = <<"StartOpen">>
    BY <1>2 DEF Closures
  <1> QED
    BY <1>1, <1>2, <1>3, <1>4, <1>5

\* What wakes a thread up leaves the callbacks where they are.
LEMMA WakeInv ==
    ASSUME QueriesInv, SignalDone \/ SetTimeouts \/ ClearTimeouts
    PROVE  QueriesInv'
  <1>1. TypeOK /\ CancelsOwn /\ OnePlace /\ NotMadeIsFresh /\ XidsInOrder
    BY DEF QueriesInv
  <1>2. CASE SignalDone
    <2>1. /\ running # <<>> /\ Head(running)[1] = "signal" /\ running' = Tail(running)
          /\ Return(Head(running)[2])
          /\ UNCHANGED <<query, response_map, mutex, timers, posted, conn, failed>>
      BY <1>2 DEF SignalDone
    <2>2. /\ Head(running)[2] \in Threads
          /\ running' \in Seq(Jobs) /\ Len(running) \in Nat \ {0} /\ DOMAIN running = 1..Len(running)
          /\ DOMAIN running' = 1..Len(running) - 1
          /\ \A i \in 1..Len(running) - 1 : running'[i] = running[i + 1]
      BY <1>1, <2>1, HeadJob
    <2> DEFINE t == Head(running)[2]
    <2>3. /\ pc' \in [Threads -> [at : PCs, x : Xids \cup {0}, sync : BOOLEAN]]
          /\ pc'[t].at = "idle"
          /\ \A u \in Threads : u # t => pc'[u] = pc[u]
      BY <1>1, <2>1, <2>2, ReturnEffect
    <2> HIDE DEF t
    <2>4. TypeOK' /\ XidsInOrder' /\ CancelsOwn'
      BY <1>1, <2>1, <2>2, <2>3 DEF TypeOK, XidsInOrder, CancelsOwn, Made
    <2>5. \A i \in DOMAIN running' : i \in Nat /\ i + 1 \in DOMAIN running /\ running'[i] = running[i + 1]
      BY <2>2
    <2>6. NotMadeIsFresh'
      BY <1>1, <2>1, <2>5 DEF NotMadeIsFresh, Fresh
    <2>7. ASSUME NEW x \in Xids, NEW i \in DOMAIN running', running'[i] = <<"run", x>>,
                 NEW j \in DOMAIN running', running'[j] = <<"run", x>>
          PROVE  i = j
      <3>1. i + 1 = j + 1 /\ i \in Nat /\ j \in Nat
        BY <1>1, <2>5, <2>7 DEF OnePlace
      <3> QED
        BY <3>1
    <2>8. OnePlace'
      BY <1>1, <2>1, <2>5, <2>7 DEF OnePlace
    <2> QED
      BY <2>4, <2>6, <2>8 DEF QueriesInv
  <1>3. CASE SetTimeouts
    <2>1. Head(posted)[2] \in Xids /\ Tail(posted) \in Seq(Closures)
      BY <1>1, <1>3, HeadClosure DEF SetTimeouts, Runs
    <2>2. TypeOK' /\ CancelsOwn'
      BY <1>1, <1>3, <2>1 DEF SetTimeouts, threadVars, TypeOK, CancelsOwn, Made
    <2> QED
      BY <1>3, <2>2, OtherJobs DEF SetTimeouts, threadVars
  <1>4. CASE ClearTimeouts
    <2>1. Tail(posted) \in Seq(Closures)
      BY <1>1, <1>4, HeadClosure DEF ClearTimeouts, Runs
    <2>2. /\ pc' \in [Threads -> [at : PCs, x : Xids \cup {0}, sync : BOOLEAN]]
          /\ \A t \in Threads : pc'[t] = pc[t] \/ pc'[t].at = "lock"
      BY <1>1, <1>4 DEF ClearTimeouts, TypeOK, PCs
    <2>3. TypeOK' /\ CancelsOwn'
      BY <1>1, <1>4, <2>1, <2>2 DEF ClearTimeouts, TypeOK, CancelsOwn, Made
    <2> QED
      BY <1>4, <2>3, OtherJobs DEF ClearTimeouts
  <1> QED
    BY <1>2, <1>3, <1>4

\* CancelQuery returns when the selector has nothing left to run.
LEMMA SignalInv ==
    ASSUME QueriesInv, Signal
    PROVE  QueriesInv'
  <1> DEFINE t == Head(posted)[2]
             y == pc[t].x
  <1>1. TypeOK /\ CancelsOwn /\ OnePlace /\ NotMadeIsFresh /\ XidsInOrder
    BY DEF QueriesInv
  <1>2. /\ posted # <<>> /\ Head(posted)[1] = "signal" /\ running = <<>>
        /\ Return(t) /\ mutex' = (IF mutex = t THEN None ELSE mutex)
        /\ query' = (IF pc[t].at = "sync" THEN [query EXCEPT ![y].cancelled = TRUE] ELSE query)
        /\ posted' = Tail(posted)
        /\ UNCHANGED <<response_map, timers, running, conn, failed>>
    BY DEF Signal, Runs, SelectorFree
  <1>3. t \in Threads /\ posted' \in Seq(Closures)
    BY <1>1, <1>2, HeadClosure
  <1> HIDE DEF t
  <1>4. /\ pc' \in [Threads -> [at : PCs, x : Xids \cup {0}, sync : BOOLEAN]]
        /\ pc'[t].at = "idle"
        /\ \A u \in Threads : u # t => pc'[u] = pc[u]
    BY <1>1, <1>2, <1>3, ReturnEffect
  <1>5. CASE pc[t].at # "sync"
    <2>1. TypeOK' /\ CancelsOwn'
      BY <1>1, <1>2, <1>3, <1>4, <1>5 DEF TypeOK, CancelsOwn, Made
    <2> QED
      BY <1>2, <1>5, <2>1, OtherJobs
  <1>6. CASE pc[t].at = "sync"
    <2>1. y \in Xids /\ query[y].owner # None /\ y \notin response_map
      BY <1>1, <1>3, <1>6 DEF CancelsOwn, Made
    <2> HIDE DEF y
    <2>2. /\ query'[y].owner = query[y].owner /\ query'[y].runs = query[y].runs
          /\ query'[y].deleted = query[y].deleted
          /\ \A x \in Xids : x # y => query'[x] = query[x]
          /\ query' \in [Xids -> Query]
      BY <1>1, <1>2, <1>6, <2>1 DEF TypeOK, Query
    <2>3. TypeOK' /\ Made' = Made /\ DOMAIN running = {}
      BY <1>1, <1>2, <1>3, <1>4, <2>2 DEF TypeOK, Made
    <2>4. XidsInOrder' /\ NotMadeIsFresh' /\ CancelsOwn'
      BY <1>1, <1>2, <1>4, <2>1, <2>2, <2>3 DEF XidsInOrder, NotMadeIsFresh, Fresh, CancelsOwn
    <2>5. OnePlace'
      BY <1>1, <1>2, <2>1, <2>2, <2>3 DEF OnePlace
    <2> QED
      BY <2>3, <2>4, <2>5 DEF QueriesInv
  <1> QED
    BY <1>5, <1>6

\* Shutdown completes all queries, or ends an open and nothing more.
LEMMA ShutdownNowEffect ==
    ASSUME TypeOK, NEW c \in Conn, NEW signals,
           \/ signals = <<>>
           \/ \E t \in Threads : signals = <<<<"signal", t>>>>,
           ShutdownNow(c, signals)
    PROVE  /\ conn' \in Conn /\ failed' \in BOOLEAN /\ running' \in Seq(Jobs)
           /\ conn'.net = "DISCONNECTED" /\ conn'.hand = "NOT_INITIALIZED"
           /\ conn'.deleted = c.deleted
           /\ \/ /\ c.opening /\ ~conn'.opening /\ ~conn'.callback
                 /\ (failed' => c.deleted) /\ UNCHANGED running
              \/ /\ ~c.opening /\ ~conn'.opening /\ conn'.callback = c.callback
                 /\ failed' = c.callback
                 /\ \A i \in DOMAIN running', x \in Xids : running'[i] # <<"run", x>>
  <1> DEFINE nothing == {}
             closed == [c EXCEPT !.net = "DISCONNECTED", !.hand = "NOT_INITIALIZED", !.sent = nothing]
  <1>1. /\ closed \in Conn /\ closed.opening = c.opening /\ closed.callback = c.callback
        /\ closed.net = "DISCONNECTED" /\ closed.hand = "NOT_INITIALIZED"
        /\ closed.deleted = c.deleted
    BY DEF Conn
  <1>2. CASE c.opening
    <2>1. /\ conn' = EndOpen(closed) /\ UNCHANGED running
          /\ failed' = (c.deleted /\ (c.queries # nothing \/ response_map # nothing))
      BY <1>2 DEF ShutdownNow
    <2>2. failed' \in BOOLEAN /\ (failed' => c.deleted)
      BY <2>1
    <2> HIDE DEF closed, nothing
    <2> QED
      BY <1>1, <1>2, <2>1, <2>2 DEF EndOpen, Conn, TypeOK
  <1>3. CASE ~c.opening
    <2>1. /\ conn' = [closed EXCEPT !.queries = nothing]
          /\ failed' = c.callback /\ running' = <<<<"CompleteAllQueries">>>> \o signals
      BY <1>3 DEF ShutdownNow, Completes
    <2>2. /\ conn' \in Conn /\ conn'.net = "DISCONNECTED" /\ conn'.hand = "NOT_INITIALIZED"
          /\ ~conn'.opening /\ conn'.callback = c.callback /\ failed' \in BOOLEAN
          /\ conn'.deleted = c.deleted
      <3> HIDE DEF closed
      <3> QED
        BY <1>1, <1>3, <2>1 DEF Conn
    <2>3. running' \in Seq(Jobs) /\ \A i \in DOMAIN running', x \in Xids : running'[i] # <<"run", x>>
      <3> DEFINE first == <<<<"CompleteAllQueries">>>>
                 Quiet == {<<"CompleteAllQueries">>} \cup ({"signal"} \X Threads)
      <3>1. first \in Seq(Quiet) /\ signals \in Seq(Quiet)
        <4>1. /\ <<"CompleteAllQueries">> \in Quiet
              /\ \A t \in Threads : <<"signal", t>> \in Quiet
          OBVIOUS
        <4> HIDE DEF Quiet
        <4>2. signals = <<>> \/ \E e \in Quiet : signals = <<e>>
          BY <4>1, Zenon
        <4>3. \E e \in Quiet : first = <<e>>
          BY <4>1, Zenon
        <4> QED
          BY <4>2, <4>3, ShortSeq
      <3>2. running' \in Seq(Quiet)
        BY <2>1, <3>1, ConcatProperties
      <3>3. Quiet \subseteq Jobs /\ \A x \in Xids : <<"run", x>> \notin Quiet
        BY DEF Jobs
      <3> HIDE DEF Quiet
      <3>4. \A i \in DOMAIN running' : running'[i] \in Quiet
        BY <3>2, LenProperties, ElementOfSeq
      <3> QED
        BY <3>2, <3>3, <3>4, SeqMonotonic
    <2> QED
      BY <1>3, <2>1, <2>2, <2>3
  <1> QED
    BY <1>2, <1>3 DEF Conn

\* One query to be completed.
LEMMA CompletesOne ==
    ASSUME NEW x \in Xids, Completes(<<<<"CompleteQuery", x>>>>)
    PROVE  running' \in Seq(Jobs) /\ \A i \in DOMAIN running', y \in Xids : running'[i] # <<"run", y>>
  <1>1. running' = <<<<"CompleteQuery", x>>>> /\ <<"CompleteQuery", x>> \in Jobs
    BY DEF Completes, Jobs
  <1>2. running' \in Seq({<<"CompleteQuery", x>>}) /\ running' \in Seq(Jobs)
    BY <1>1
  <1>3. \A i \in DOMAIN running' : running'[i] = <<"CompleteQuery", x>>
    BY <1>2, LenProperties, ElementOfSeq
  <1> QED
    BY <1>2, <1>3

\* An open starts, or fails at once.
LEMMA StartOpenEffect ==
    ASSUME NEW c \in Conn, NEW d \in StartOpen(c)
    PROVE  /\ d \in Conn /\ d.hand = c.hand
           /\ \/ d.net = "CONNECTING" /\ d.opening
              \/ d.net = c.net /\ ~d.opening /\ ~d.callback
  BY DEF StartOpen, EndOpen, Conn

\* The connection's own steps, and the turns they begin.
LEMMA ConnectionInv ==
    ASSUME QueriesInv,
           \/ OpenPosted \/ SendPacket \/ ShutdownPosted \/ Network \/ OpenTimeout
           \/ Destroy \/ \E x \in Xids : NotifyTimeout(x)
    PROVE  QueriesInv'
  <1> USE DEF threadVars
  <1>1. TypeOK /\ CancelsOwn
    BY DEF QueriesInv
  <1>2. conn \in Conn /\ failed \in BOOLEAN /\ running \in Seq(Jobs) /\ posted \in Seq(Closures)
    BY <1>1 DEF TypeOK
  <1> DEFINE Quiet == /\ UNCHANGED <<pc, query, response_map, mutex>> /\ timers' \subseteq Xids
                      /\ posted' \in Seq(Closures) /\ running' \in Seq(Jobs)
                      /\ conn' \in Conn /\ failed' \in BOOLEAN
                      /\ \/ running' = running
                         \/ \A i \in DOMAIN running', x \in Xids : running'[i] # <<"run", x>>
  <1>3. Quiet
    <2>1. CASE OpenPosted
      BY <1>1, <1>2, <2>1, HeadClosure, StartOpenEffect DEF OpenPosted, Runs, TypeOK
    <2>2. CASE SendPacket
      <3> DEFINE x == Head(posted)[2]
                 queued == [conn EXCEPT !.queries = @ \cup {x}]
      <3>1. x \in Xids /\ Tail(posted) \in Seq(Closures)
        BY <1>1, <2>2, HeadClosure DEF SendPacket, Runs
      <3>2. /\ posted' = Tail(posted) /\ UNCHANGED <<pc, query, response_map, mutex, timers, failed>>
            /\ \/ Completes(<<<<"CompleteQuery", x>>>>) /\ UNCHANGED conn
               \/ conn' \in StartOpen(queued) \cup {queued} /\ UNCHANGED running
        BY <2>2 DEF SendPacket
      <3>3. queued \in Conn
        <4> HIDE DEF x
        <4> QED
          BY <1>2, <3>1 DEF Conn
      <3> HIDE DEF x, queued
      <3>4. CASE Completes(<<<<"CompleteQuery", x>>>>) /\ UNCHANGED conn
        BY <1>1, <3>1, <3>2, <3>4, CompletesOne DEF TypeOK
      <3>5. CASE conn' \in StartOpen(queued) \cup {queued} /\ UNCHANGED running
        BY <1>1, <1>2, <3>1, <3>2, <3>3, <3>5, StartOpenEffect DEF TypeOK
      <3> QED
        BY <3>2, <3>4, <3>5
    <2>3. CASE ShutdownPosted
      <3>1. Head(posted)[2] \in Threads /\ Tail(posted) \in Seq(Closures)
        BY <1>1, <2>3, HeadClosure DEF ShutdownPosted, Runs
      <3> QED
        BY <1>1, <1>2, <2>3, <3>1, ShutdownNowEffect DEF ShutdownPosted, TypeOK
    <2>4. CASE ConnectionConnect \/ ConnectionWrite \/ OpenTimeout
      <3>1. conn' \in Conn
        BY <1>2, <2>4 DEF ConnectionConnect, ConnectionWrite, OpenTimeout, EndOpen, Conn
      <3> QED
        BY <1>1, <1>2, <2>4, <3>1 DEF ConnectionConnect, ConnectionWrite, OpenTimeout, TypeOK
    <2>5. CASE ConnectionClose
      BY <1>1, <1>2, <2>5, ShutdownNowEffect DEF ConnectionClose, TypeOK
    <2>6. ASSUME NEW good \in BOOLEAN, HandshakeRead(good)
          PROVE  Quiet
      <3>1. EndOpen([conn EXCEPT !.hand = "CONNECTED"]) \in Conn /\ EndOpen(conn) \in Conn
        BY <1>2 DEF EndOpen, Conn
      <3>2. UNCHANGED <<pc, query, response_map, mutex, timers, posted>>
        BY <2>6 DEF HandshakeRead
      <3>3. CASE /\ conn' = EndOpen([conn EXCEPT !.hand = "CONNECTED"])
                 /\ failed' = ~conn.opening /\ UNCHANGED running
        BY <1>1, <1>2, <3>1, <3>2, <3>3 DEF TypeOK
      <3>4. CASE ShutdownNow(EndOpen(conn), <<>>)
        BY <1>1, <1>2, <3>1, <3>2, <3>4, ShutdownNowEffect DEF TypeOK
      <3> QED
        BY <2>6, <3>3, <3>4 DEF HandshakeRead
    <2>7. ASSUME NEW x \in Xids, ConnectionRead(x) \/ NotifyTimeout(x)
          PROVE  Quiet
      <3>1. conn' \in Conn
        BY <1>2, <2>7 DEF ConnectionRead, NotifyTimeout, Conn
      <3>2. running' \in Seq(Jobs) /\ \A i \in DOMAIN running', y \in Xids : running'[i] # <<"run", y>>
        BY <2>7, CompletesOne DEF ConnectionRead, NotifyTimeout
      <3> QED
        BY <1>1, <1>2, <2>7, <3>1, <3>2 DEF ConnectionRead, NotifyTimeout, TypeOK
    <2>8. CASE Destroy
      <3>1. [conn EXCEPT !.deleted = TRUE] \in Conn
        BY <1>2 DEF Conn
      <3>2. /\ ShutdownNow([conn EXCEPT !.deleted = TRUE], <<>>) /\ timers' = {}
            /\ UNCHANGED <<pc, query, response_map, mutex, posted>>
        BY <2>8 DEF Destroy
      <3>3. /\ conn' \in Conn /\ failed' \in BOOLEAN /\ running' \in Seq(Jobs)
            /\ \/ running' = running
               \/ \A i \in DOMAIN running', x \in Xids : running'[i] # <<"run", x>>
        BY <1>1, <3>1, <3>2, ShutdownNowEffect
      <3> QED
        BY <1>2, <3>2, <3>3
    <2> QED
      BY <2>1, <2>2, <2>3, <2>4, <2>5, <2>6, <2>7, <2>8 DEF Network
  <1>4. TypeOK' /\ CancelsOwn'
    BY <1>1, <1>3 DEF TypeOK, CancelsOwn, Made
  <1> QED
    BY <1>3, <1>4, OtherJobs


-----------------------------------------------------------------------------
(* The callbacks of the queries *)

\* Nothing has been asked for yet.
LEMMA InitQueries == Init => QueriesInv
  <1> SUFFICES ASSUME Init PROVE QueriesInv
    OBVIOUS
  <1> DEFINE fresh == [owner |-> None, runs |-> 0, deleted |-> FALSE, cancelled |-> FALSE]
             nothing == <<>>
  <1>1. /\ pc = [t \in Threads |-> IdlePC] /\ query = [x \in Xids |-> fresh]
        /\ response_map = {} /\ mutex = None /\ timers = {} /\ running = nothing /\ failed = FALSE
    BY DEF Init
  <1>2. fresh \in Query /\ fresh.owner = None /\ fresh.runs = 0 /\ ~fresh.deleted /\ ~fresh.cancelled
    BY DEF Query
  <1>3. posted \in Seq(Closures)
    <2>1. <<"StartOpen">> \in Closures
      BY DEF Closures
    <2>2. posted = <<<<"StartOpen">>>> \/ posted = <<>>
      BY DEF Init
    <2>3. posted = <<>> \/ \E c \in Closures : posted = <<c>>
      BY <2>1, <2>2, Zenon
    <2> QED
      BY <2>3, ShortSeq
  <1>4. conn \in Conn
    <2> DEFINE none == {}
    <2>1. PICK opens \in BOOLEAN :
             conn = [net |-> "DISCONNECTED", hand |-> "NOT_INITIALIZED", opening |-> FALSE,
                     callback |-> opens, queries |-> none, sent |-> none, deleted |-> FALSE]
      BY DEF Init
    <2>2. none \in SUBSET Xids
      OBVIOUS
    <2> HIDE DEF none
    <2> QED
      BY <2>1, <2>2 DEF Conn
  <1>5. nothing \in Seq(Jobs) /\ DOMAIN nothing = {}
    OBVIOUS
  <1> HIDE DEF fresh, nothing
  <1>6. pc \in [Threads -> [at : PCs, x : Xids \cup {0}, sync : BOOLEAN]]
        /\ \A t \in Threads : pc[t].at = "idle"
    BY <1>1 DEF IdlePC, PCs
  <1>7. TypeOK
    BY <1>1, <1>2, <1>3, <1>4, <1>5, <1>6 DEF TypeOK
  <1>8. XidsInOrder
    <2>1. Made = {} /\ 1..0 = {} /\ 0 \in 0..MaxQueries
      BY <1>1, <1>2, RpcAssumption DEF Made
    <2> QED
      BY <2>1 DEF XidsInOrder
  <1>9. NotMadeIsFresh /\ OnePlace /\ CancelsOwn
    BY <1>1, <1>2, <1>5, <1>6 DEF NotMadeIsFresh, Fresh, OnePlace, CancelsOwn
  <1> QED
    BY <1>7, <1>8, <1>9 DEF QueriesInv

\* Every step keeps a callback in one place.
LEMMA NextQueries == QueriesInv /\ [Next]_vars => QueriesInv'
  <1> SUFFICES ASSUME QueriesInv, [Next]_vars PROVE QueriesInv'
    OBVIOUS
  <1>1. ASSUME NEW t \in Threads, Calls(t) PROVE QueriesInv'
    BY <1>1, AsyncQueryInv, ThreadInv DEF Calls
  <1>2. ASSUME NEW t \in Threads, ThreadStep(t) PROVE QueriesInv'
    BY <1>2, ThreadInv, CancelPopInv, CancelAllLockedInv DEF ThreadStep
  <1>3. CASE TurnGoesOn
    BY <1>3, CompleteQueryInv, CompleteAllQueriesInv, RunCallbackInv, WakeInv DEF TurnGoesOn
  <1>4. CASE ClosuresRun
    BY <1>4, WakeInv, SignalInv, ConnectionInv DEF ClosuresRun
  <1>5. CASE Network \/ OpenTimeout \/ Destroy \/ \E x \in Xids : NotifyTimeout(x)
    BY <1>5, ConnectionInv
  <1>6. CASE UNCHANGED vars
    BY <1>6 DEF vars, QueriesInv, TypeOK, XidsInOrder, Made, NotMadeIsFresh, Fresh, OnePlace,
                CancelsOwn
  <1> QED
    BY <1>1, <1>2, <1>3, <1>4, <1>5, <1>6 DEF Next

\* The callback of a query is run or deleted at most once, and never run after
\* CancelQuery has returned, whatever CancelAllQueries, Shutdown and a late
\* handshake race with (irpc_client_connection.cc, CompleteQuery and the
\* Cancel functions).
THEOREM CalledOnce == Spec => []CallbackOnce
  <1>1. Spec => []QueriesInv
    BY InitQueries, NextQueries, PTL DEF Spec
  <1> QED
    BY <1>1, OnePlaceIsOnce, PTL

\* The state of the client stays well typed.
THEOREM TypeCorrect == Spec => []TypeOK
  <1>1. QueriesInv => TypeOK
    BY DEF QueriesInv
  <1> QED
    BY <1>1, InitQueries, NextQueries, PTL DEF Spec

-----------------------------------------------------------------------------
(* The CHECKs of the connection *)

\* The first open is not waiting to be started, and its callback is not left
\* without an open.
Started ==
    /\ \A i \in DOMAIN posted : posted[i] # <<"StartOpen">>
    /\ conn.callback => conn.opening

\* An open is started by the first closure only.
LEMMA StartedByFirst ==
    ASSUME TypeOK, OpenInOrder, NEW c, Runs(c)
    PROVE  /\ posted' = Tail(posted) => \A i \in DOMAIN posted' : posted'[i] # <<"StartOpen">>
           /\ c # "StartOpen" => Started
  <1>1. posted # <<>> /\ Head(posted)[1] = c
    BY DEF Runs
  <1>2. /\ Head(posted) = posted[1] /\ 1 \in DOMAIN posted
        /\ \A i \in DOMAIN Tail(posted) :
              i + 1 \in DOMAIN posted /\ i + 1 > 1 /\ Tail(posted)[i] = posted[i + 1]
    BY <1>1, HeadClosure
  <1>3. \A i \in DOMAIN posted : posted[i] = <<"StartOpen">> => i = 1
    BY DEF OpenInOrder
  <1>4. \A i \in DOMAIN Tail(posted) : Tail(posted)[i] # <<"StartOpen">>
    <2> SUFFICES ASSUME NEW i \in DOMAIN Tail(posted), posted[i + 1] = <<"StartOpen">> PROVE FALSE
      BY <1>2, Zenon
    <2>1. i + 1 \in DOMAIN posted /\ i + 1 > 1
      BY <1>2, Zenon
    <2>2. i + 1 = 1
      BY <1>3, <2>1, Zenon
    <2> QED
      BY <2>1, <2>2
  <1>5. c # "StartOpen" => posted[1] # <<"StartOpen">>
    BY <1>1, <1>2
  <1> QED
    BY <1>3, <1>4, <1>5 DEF Started, OpenInOrder

\* Away from the network there is no open to wait for.
LEMMA StartedOnline ==
    ASSUME TypeOK, OpenInOrder, conn.opening \/ conn.net # "DISCONNECTED"
    PROVE  Started
  <1>1. \A i \in DOMAIN posted : posted[i] # <<"StartOpen">>
    BY DEF OpenInOrder
  <1>2. posted # <<>> => 1 \in DOMAIN posted
    BY HeadClosure
  <1> QED
    BY <1>1, <1>2 DEF Started, OpenInOrder

\* Once it was started the order is kept by what follows.
LEMMA StartedKeeps ==
    ASSUME Started', conn'.net # "CONNECTED" => conn'.hand = "NOT_INITIALIZED"
    PROVE  OpenInOrder'
  BY DEF Started, OpenInOrder

\* Closures are added behind the one that starts the open.
LEMMA PostKeepsOrder ==
    ASSUME TypeOK, OpenInOrder, UNCHANGED conn,
           \/ UNCHANGED posted
           \/ \E c \in Closures : c # <<"StartOpen">> /\ Post(c)
    PROVE  OpenInOrder'
  <1>1. CASE UNCHANGED posted
    BY <1>1 DEF OpenInOrder
  <1>2. ASSUME NEW c \in Closures, c # <<"StartOpen">>, Post(c)
        PROVE  OpenInOrder'
    <2>1. /\ posted \in Seq(Closures) /\ Len(posted) \in Nat /\ DOMAIN posted = 1..Len(posted)
          /\ posted # <<>> => Len(posted) # 0
      BY EmptySeq, LenProperties DEF TypeOK
    <2>2. /\ posted' \in Seq(Closures) /\ Len(posted') = Len(posted) + 1
          /\ DOMAIN posted' = 1..Len(posted')
          /\ \A i \in 1..Len(posted) : posted'[i] = posted[i]
          /\ posted'[Len(posted) + 1] = c
      <3>1. posted' = Append(posted, c)
        BY <1>2 DEF Post
      <3>2. /\ posted' \in Seq(Closures) /\ Len(posted') = Len(posted) + 1
            /\ \A i \in 1..Len(posted) : posted'[i] = posted[i]
            /\ posted'[Len(posted) + 1] = c
        <4>1. /\ Append(posted, c) \in Seq(Closures)
              /\ Len(Append(posted, c)) = Len(posted) + 1
              /\ \A i \in 1..Len(posted) : Append(posted, c)[i] = posted[i]
              /\ Append(posted, c)[Len(posted) + 1] = c
          BY <2>1, AppendProperties, SMTT(20)
        <4> QED
          BY <3>1, <4>1, Zenon
      <3> QED
        BY <3>2, LenProperties
    <2>3. \A i \in DOMAIN posted' : posted'[i] = <<"StartOpen">> =>
             i \in DOMAIN posted /\ posted[i] = <<"StartOpen">>
      <3> DEFINE start == <<"StartOpen">>
      <3>1. c # start
        BY <1>2
      <3> HIDE DEF start
      <3>2. \A i \in DOMAIN posted' : posted'[i] = start => i \in DOMAIN posted /\ posted[i] = start
        BY <2>1, <2>2, <3>1
      <3> QED
        BY <3>2 DEF start
    <2>4. posted # <<>> => posted' # <<>> /\ posted'[1] = posted[1]
      <3> SUFFICES ASSUME posted # <<>> PROVE posted' # <<>> /\ posted'[1] = posted[1]
        OBVIOUS
      <3>1. Len(posted') # 0 /\ 1 \in 1..Len(posted)
        BY <2>1, <2>2
      <3> QED
        BY <2>2, <3>1, EmptySeq
    <2> QED
      BY <2>3, <2>4 DEF OpenInOrder
  <1> QED
    BY <1>1, <1>2


\* Threads do not touch the connection.
LEMMA ThreadsKeepOrder ==
    ASSUME QueriesInv, OpenInOrder, NEW t \in Threads, Calls(t) \/ ThreadStep(t)
    PROVE  OpenInOrder' /\ UNCHANGED <<conn, failed>>
  <1>1. TypeOK /\ UNCHANGED <<conn, failed>>
    BY DEF QueriesInv, Calls, ThreadStep, AsyncQuery, Send, QueryReturns, CancelQuery, CancelPop,
           CancelAllQueries, ClearTimeoutsTimeout, CancelAllLocked, Shutdown
  <1> DEFINE own == {<<"signal", t>>, <<"Shutdown", t>>, <<"ClearTimeouts">>}
                    \cup ({"AddTimeout", "SendPacket", "ClearTimeout"} \X Xids)
  <1>2. own \subseteq Closures /\ <<"StartOpen">> \notin own
    BY DEF Closures
  <1>3. UNCHANGED posted \/ \E c \in own : Post(c)
    <2>1. CASE \E sync \in BOOLEAN : AsyncQuery(t, sync)
      <3>1. NextXid \in Xids /\ Post(<<"AddTimeout", NextXid>>)
        BY <2>1 DEF AsyncQuery
      <3> QED
        BY <3>1
    <2>2. CASE Send(t)
      <3>1. Post(<<"SendPacket", pc[t].x>>) /\ pc[t].x \in Xids
        BY <2>2 DEF Send, At, QueriesInv, CancelsOwn, Made
      <3> QED
        BY <3>1
    <2>3. ASSUME NEW x \in Xids, CancelQuery(t, x) PROVE \E c \in own : Post(c)
      BY <2>3 DEF CancelQuery
    <2>4. CASE CancelPop(t) \/ CancelAllLocked(t)
      <3>1. UNCHANGED posted \/ Post(<<"signal", t>>)
        BY <2>4 DEF CancelPop, CancelAllLocked
      <3> QED
        BY <3>1
    <2>5. CASE CancelAllQueries(t)
      <3>1. Post(<<"ClearTimeouts">>)
        BY <2>5 DEF CancelAllQueries
      <3> QED
        BY <3>1
    <2>6. CASE Shutdown(t)
      <3>1. Post(<<"Shutdown", t>>)
        BY <2>6 DEF Shutdown
      <3> QED
        BY <3>1
    <2>7. CASE QueryReturns(t) \/ ClearTimeoutsTimeout(t)
      BY <2>7 DEF QueryReturns, ClearTimeoutsTimeout
    <2> QED
      BY <2>1, <2>2, <2>3, <2>4, <2>5, <2>6, <2>7 DEF Calls, ThreadStep
  <1> HIDE DEF own
  <1>4. UNCHANGED posted \/ \E c \in Closures : c # <<"StartOpen">> /\ Post(c)
    BY <1>2, <1>3, Zenon
  <1> QED
    BY <1>1, <1>4, PostKeepsOrder

\* Closures that are not about the connection come after the one that is.
LEMMA ClosuresKeepOrder ==
    ASSUME TypeOK, OpenInOrder, TurnGoesOn \/ SetTimeouts \/ ClearTimeouts \/ Signal
    PROVE  OpenInOrder' /\ UNCHANGED <<conn, failed>>
  <1>1. UNCHANGED <<conn, failed>>
    BY DEF TurnGoesOn, CompleteQuery, CompleteAllQueries, RunCallback, SignalDone, SetTimeouts,
           ClearTimeouts, Signal
  <1>2. CASE TurnGoesOn
    <2>1. UNCHANGED posted
      BY <1>2 DEF TurnGoesOn, CompleteQuery, CompleteAllQueries, RunCallback, SignalDone
    <2> QED
      BY <1>1, <2>1, PostKeepsOrder
  <1>3. CASE SetTimeouts \/ ClearTimeouts \/ Signal
    <2>1. /\ posted' = Tail(posted)
          /\ \/ Runs("AddTimeout") \/ Runs("ClearTimeout") \/ Runs("ClearTimeouts")
             \/ Runs("signal")
      BY <1>3 DEF SetTimeouts, ClearTimeouts, Signal
    <2>2. Started /\ \A i \in DOMAIN posted' : posted'[i] # <<"StartOpen">>
      <3>1. PICK c \in {"AddTimeout", "ClearTimeout", "ClearTimeouts", "signal"} : Runs(c)
        BY <2>1
      <3>2. c # "StartOpen"
        BY <3>1
      <3> QED
        BY <2>1, <3>1, <3>2, StartedByFirst
    <2> QED
      BY <1>1, <2>2, StartedKeeps DEF Started, OpenInOrder
  <1> QED
    BY <1>2, <1>3

\* What the connection's own steps do to the order and to the CHECKs.
LEMMA ConnectionKeepsOrder ==
    ASSUME TypeOK, OpenInOrder, Gone,
           \/ OpenPosted \/ SendPacket \/ ShutdownPosted \/ Network \/ OpenTimeout
           \/ Destroy \/ \E x \in Xids : NotifyTimeout(x)
    PROVE  OpenInOrder' /\ OnlyDestroyFails'
  <1>1. conn \in Conn /\ failed \in BOOLEAN /\ ~failed
    BY DEF TypeOK, OpenPosted, SendPacket, ShutdownPosted, Network, OpenTimeout, NotifyTimeout,
           ConnectionConnect, ConnectionWrite, ConnectionClose, HandshakeRead, ConnectionRead,
           Destroy, Runs, SelectorFree
  <1>2. CASE OpenPosted
    <2>1. /\ Runs("StartOpen") /\ posted' = Tail(posted) /\ conn' \in StartOpen(conn)
          /\ failed' = (conn.net # "DISCONNECTED")
      BY <1>2 DEF OpenPosted
    <2>2. posted[1] = <<"StartOpen">> /\ 1 \in DOMAIN posted
      BY <2>1, HeadClosure DEF Runs
    <2>3. conn.net = "DISCONNECTED" /\ conn.hand = "NOT_INITIALIZED"
      BY <2>2 DEF OpenInOrder
    <2>4. conn'.hand = conn.hand /\ (conn'.callback => conn'.opening)
      BY <1>1, <2>1, StartOpenEffect
    <2>5. Started'
      BY <2>1, <2>4, StartedByFirst DEF Started
    <2> QED
      BY <2>1, <2>3, <2>4, <2>5, StartedKeeps DEF OnlyDestroyFails
  <1>3. CASE SendPacket
    <2> DEFINE x == Head(posted)[2]
               queued == [conn EXCEPT !.queries = @ \cup {x}]
    <2>1. /\ Runs("SendPacket") /\ posted' = Tail(posted) /\ UNCHANGED failed
          /\ \/ UNCHANGED conn
             \/ conn' = queued
             \/ conn.net = "DISCONNECTED" /\ conn' \in StartOpen(queued)
      BY <1>3 DEF SendPacket
    <2>2. Started /\ \A i \in DOMAIN posted' : posted'[i] # <<"StartOpen">>
      BY <2>1, StartedByFirst
    <2>3. /\ queued \in Conn /\ queued.net = conn.net /\ queued.hand = conn.hand
          /\ queued.opening = conn.opening /\ queued.callback = conn.callback
      <3>1. x \in Xids
        BY <2>1, HeadClosure DEF Runs
      <3> HIDE DEF x
      <3> QED
        BY <1>1, <3>1 DEF Conn
    <2> HIDE DEF queued
    <2>4. /\ conn'.callback => conn'.opening
          /\ conn'.net # "CONNECTED" => conn'.hand = "NOT_INITIALIZED"
      <3>1. CASE UNCHANGED conn \/ conn' = queued
        BY <2>2, <2>3, <3>1 DEF Started, OpenInOrder
      <3>2. CASE conn.net = "DISCONNECTED" /\ conn' \in StartOpen(queued)
        <4>1. conn.hand = "NOT_INITIALIZED"
          BY <3>2 DEF OpenInOrder
        <4>2. conn'.hand = queued.hand /\ (conn'.callback => conn'.opening)
          BY <2>3, <3>2, StartOpenEffect
        <4> QED
          BY <2>3, <4>1, <4>2
      <3> QED
        BY <2>1, <3>1, <3>2
    <2>5. Started'
      BY <2>2, <2>4 DEF Started
    <2> QED
      BY <1>1, <2>1, <2>4, <2>5, StartedKeeps DEF OnlyDestroyFails
  <1>4. CASE ShutdownPosted
    <2>1. /\ Runs("Shutdown") /\ posted' = Tail(posted)
          /\ ShutdownNow(conn, <<<<"signal", Head(posted)[2]>>>>)
      BY <1>4 DEF ShutdownPosted
    <2>2. Started /\ \A i \in DOMAIN posted' : posted'[i] # <<"StartOpen">>
      BY <2>1, StartedByFirst
    <2>3. Head(posted)[2] \in Threads
      BY <2>1, HeadClosure DEF Runs
    <2>4. /\ conn'.hand = "NOT_INITIALIZED"
          /\ \/ conn.opening /\ ~conn'.callback /\ (failed' => conn.deleted)
             \/ ~conn.opening /\ conn'.callback = conn.callback /\ failed' = conn.callback
      BY <1>1, <2>1, <2>3, ShutdownNowEffect
    <2>5. ~conn'.callback /\ ~failed'
      BY <1>1, <2>1, <2>2, <2>4 DEF Started, Gone, Runs, Conn
    <2>6. Started'
      BY <2>2, <2>5 DEF Started
    <2> QED
      BY <2>4, <2>5, <2>6, StartedKeeps DEF OnlyDestroyFails
  <1>5. CASE ConnectionClose
    <2>1. conn.net # "DISCONNECTED" /\ UNCHANGED posted /\ ShutdownNow(conn, <<>>)
      BY <1>5 DEF ConnectionClose
    <2>2. Started
      BY <2>1, StartedOnline
    <2>3. /\ conn'.hand = "NOT_INITIALIZED"
          /\ \/ conn.opening /\ ~conn'.callback /\ (failed' => conn.deleted)
             \/ ~conn.opening /\ conn'.callback = conn.callback /\ failed' = conn.callback
      BY <1>1, <2>1, ShutdownNowEffect
    <2>4. ~conn'.callback /\ ~failed'
      BY <1>1, <2>1, <2>2, <2>3 DEF Started, Gone, Conn
    <2>5. Started'
      BY <2>1, <2>2, <2>4 DEF Started
    <2> QED
      BY <2>3, <2>4, <2>5, StartedKeeps DEF OnlyDestroyFails
  <1>6. ASSUME NEW good \in BOOLEAN, HandshakeRead(good)
        PROVE  OpenInOrder' /\ OnlyDestroyFails'
    <2>1. conn.net = "CONNECTED" /\ UNCHANGED posted /\ (LateHandshake \/ conn.opening)
      BY <1>6 DEF HandshakeRead
    <2>2. Started
      BY <2>1, StartedOnline
    <2>3. CASE conn' = EndOpen([conn EXCEPT !.hand = "CONNECTED"]) /\ failed' = ~conn.opening
      <3>1. conn'.net = "CONNECTED" /\ ~conn'.callback
        BY <1>1, <2>1, <2>3 DEF EndOpen, Conn
      <3>2. Started'
        BY <2>1, <2>2, <3>1 DEF Started
      <3> QED
        BY <2>1, <2>3, <3>1, <3>2, StartedKeeps DEF OnlyDestroyFails
    <2>4. CASE ShutdownNow(EndOpen(conn), <<>>)
      <3>1. EndOpen(conn) \in Conn /\ ~EndOpen(conn).callback /\ ~EndOpen(conn).opening
        BY <1>1 DEF EndOpen, Conn
      <3>2. conn'.hand = "NOT_INITIALIZED" /\ ~conn'.callback /\ ~failed'
        BY <2>4, <3>1, ShutdownNowEffect
      <3>3. Started'
        BY <2>1, <2>2, <3>2 DEF Started
      <3> QED
        BY <3>2, <3>3, StartedKeeps DEF OnlyDestroyFails
    <2> QED
      BY <1>6, <2>3, <2>4 DEF HandshakeRead
  <1>7. CASE ConnectionConnect
    <2>1. /\ conn.net = "CONNECTING" /\ UNCHANGED posted
          /\ conn' = [conn EXCEPT !.net = "CONNECTED", !.hand = "WAITING_RESPONSE"]
          /\ failed' = (conn.hand # "NOT_INITIALIZED")
      BY <1>7 DEF ConnectionConnect
    <2>2. Started /\ conn.hand = "NOT_INITIALIZED"
      BY <2>1, StartedOnline DEF OpenInOrder
    <2>3. conn'.net = "CONNECTED" /\ conn'.callback = conn.callback /\ conn'.opening = conn.opening
      BY <1>1, <2>1 DEF Conn
    <2>4. Started'
      BY <2>1, <2>2, <2>3 DEF Started
    <2> QED
      BY <2>1, <2>2, <2>3, <2>4, StartedKeeps DEF OnlyDestroyFails
  <1>8. CASE OpenTimeout
    <2>1. conn.opening /\ UNCHANGED <<posted, failed>> /\ conn' = EndOpen(conn)
      BY <1>8 DEF OpenTimeout
    <2>2. Started
      BY <2>1, StartedOnline
    <2>3. conn'.net = conn.net /\ conn'.hand = conn.hand /\ ~conn'.callback
      BY <1>1, <2>1 DEF EndOpen, Conn
    <2>4. Started'
      BY <2>1, <2>2, <2>3 DEF Started
    <2> QED
      BY <1>1, <2>1, <2>3, <2>4, StartedKeeps DEF OpenInOrder, OnlyDestroyFails
  <1>9. CASE ConnectionWrite \/ \E x \in Xids : ConnectionRead(x) \/ NotifyTimeout(x)
    <2>1. /\ UNCHANGED <<posted, failed>>
          /\ conn'.net = conn.net /\ conn'.hand = conn.hand
          /\ conn'.callback = conn.callback /\ conn'.opening = conn.opening
      BY <1>1, <1>9 DEF ConnectionWrite, ConnectionRead, NotifyTimeout, Conn
    <2> QED
      BY <1>1, <2>1 DEF OpenInOrder, OnlyDestroyFails
  <1>10. CASE Destroy
    <2> DEFINE c == [conn EXCEPT !.deleted = TRUE]
    <2>1. posted = <<>> /\ UNCHANGED posted /\ ShutdownNow(c, <<>>)
          /\ (ShutsWhileOpening \/ ~conn.opening)
      BY <1>10 DEF Destroy
    <2>2. /\ c \in Conn /\ c.opening = conn.opening /\ c.callback = conn.callback
          /\ c.deleted
      BY <1>1 DEF Conn
    <2> HIDE DEF c
    <2>3. conn.callback => conn.opening
      BY <1>1, <2>1 DEF OpenInOrder, Conn
    <2>4. /\ conn'.hand = "NOT_INITIALIZED" /\ conn'.deleted
          /\ \/ conn.opening /\ ~conn'.callback
             \/ ~conn.opening /\ conn'.callback = conn.callback /\ failed' = conn.callback
      BY <2>1, <2>2, ShutdownNowEffect
    <2>5. ~conn'.callback /\ (failed' => conn.opening)
      BY <2>3, <2>4
    <2>6. \A i \in DOMAIN posted' : posted'[i] # <<"StartOpen">>
      BY <2>1
    <2> QED
      BY <2>1, <2>4, <2>5, <2>6 DEF OpenInOrder, OnlyDestroyFails
  <1> QED
    BY <1>2, <1>3, <1>4, <1>5, <1>6, <1>7, <1>8, <1>9, <1>10 DEF Network

\* The other steps leave the connection where it is.
LEMMA DeletedOnlyByDestroy ==
    ASSUME QueriesInv, [Next]_vars, ~Destroy
    PROVE  conn'.deleted = conn.deleted
  <1>1. TypeOK /\ conn \in Conn
    BY DEF QueriesInv, TypeOK
  <1>2. CASE UNCHANGED conn
    BY <1>2
  <1>3. ASSUME NEW t \in Threads, Calls(t) \/ ThreadStep(t) PROVE UNCHANGED conn
    BY <1>3 DEF Calls, ThreadStep, AsyncQuery, Send, QueryReturns, CancelQuery, CancelPop,
           CancelAllQueries, ClearTimeoutsTimeout, CancelAllLocked, Shutdown
  <1>4. CASE TurnGoesOn \/ SetTimeouts \/ ClearTimeouts \/ Signal
    BY <1>4 DEF TurnGoesOn, CompleteQuery, CompleteAllQueries, RunCallback, SignalDone,
           SetTimeouts, ClearTimeouts, Signal
  <1>5. CASE OpenPosted
    BY <1>1, <1>5 DEF OpenPosted, StartOpen, EndOpen, Conn
  <1>6. CASE SendPacket
    <2> DEFINE queued == [conn EXCEPT !.queries = @ \cup {Head(posted)[2]}]
    <2>1. conn' = conn \/ conn' = queued \/ conn' \in StartOpen(queued)
      BY <1>6 DEF SendPacket
    <2>2. queued \in Conn /\ queued.deleted = conn.deleted
      <3>1. Head(posted)[2] \in Xids
        BY <1>1, <1>6, HeadClosure DEF SendPacket, Runs
      <3> QED
        BY <1>1, <3>1 DEF Conn
    <2> HIDE DEF queued
    <2> QED
      BY <2>1, <2>2 DEF StartOpen, EndOpen, Conn
  <1>7. CASE ShutdownPosted \/ ConnectionClose
    <2>1. ASSUME NEW signals, ShutdownNow(conn, signals) PROVE conn'.deleted = conn.deleted
      BY <1>1, <2>1 DEF ShutdownNow, EndOpen, Conn
    <2> QED
      BY <1>7, <2>1 DEF ShutdownPosted, ConnectionClose
  <1>8. ASSUME NEW good \in BOOLEAN, HandshakeRead(good) PROVE conn'.deleted = conn.deleted
    <2>1. EndOpen(conn) \in Conn /\ EndOpen(conn).deleted = conn.deleted
      BY <1>1 DEF EndOpen, Conn
    <2>2. CASE ShutdownNow(EndOpen(conn), <<>>)
      BY <1>1, <2>1, <2>2, ShutdownNowEffect
    <2>3. CASE conn' = EndOpen([conn EXCEPT !.hand = "CONNECTED"])
      BY <1>1, <2>3 DEF EndOpen, Conn
    <2> QED
      BY <1>8, <2>2, <2>3 DEF HandshakeRead
  <1>9. CASE \/ ConnectionConnect \/ ConnectionWrite \/ OpenTimeout
             \/ \E x \in Xids : ConnectionRead(x) \/ NotifyTimeout(x)
    BY <1>1, <1>9 DEF ConnectionConnect, ConnectionWrite, OpenTimeout, ConnectionRead,
       NotifyTimeout, EndOpen, Conn
  <1>10. CASE UNCHANGED vars
    BY <1>10 DEF vars
  <1> QED
    BY <1>2, <1>3, <1>4, <1>5, <1>6, <1>7, <1>8, <1>9, <1>10 DEF Next, ClosuresRun, Network

\* Nobody comes back to a connection that is deleted.
LEMMA NextGone ==
    ASSUME QueriesInv, Gone, [Next]_vars
    PROVE  Gone'
  <1> USE DEF threadVars
  <1>1. conn \in Conn /\ pc \in [Threads -> [at : PCs, x : Xids \cup {0}, sync : BOOLEAN]]
    BY DEF QueriesInv, TypeOK
  <1>2. CASE Destroy
    <2> DEFINE c == [conn EXCEPT !.deleted = TRUE]
    <2>1. /\ posted = <<>> /\ UNCHANGED <<posted, pc>> /\ ShutdownNow(c, <<>>)
          /\ \A t \in Threads : pc[t].at = "idle"
      BY <1>2 DEF Destroy
    <2>2. c \in Conn
      BY <1>1 DEF Conn
    <2> HIDE DEF c
    <2>3. conn'.net = "DISCONNECTED" /\ ~conn'.opening
      BY <2>1, <2>2, ShutdownNowEffect DEF QueriesInv
    <2> QED
      BY <2>1, <2>3 DEF Gone
  <1>3. CASE conn.deleted
    <2>1. /\ conn.net = "DISCONNECTED" /\ ~conn.opening /\ posted = <<>>
          /\ \A t \in Threads : pc[t].at = "idle"
      BY <1>3 DEF Gone
    <2>2. /\ \A t \in Threads : ~Calls(t) /\ ~ThreadStep(t)
          /\ ~ClosuresRun /\ ~Network /\ ~OpenTimeout /\ ~Destroy
      BY <1>3, <2>1 DEF Calls, ThreadStep, Send, QueryReturns, CancelPop, ClearTimeoutsTimeout,
         CancelAllLocked, At, ClosuresRun, SetTimeouts, ClearTimeouts, Signal, OpenPosted,
         SendPacket, ShutdownPosted, Runs, Network, ConnectionConnect, ConnectionWrite, IsOpen,
         ConnectionClose, HandshakeRead, ConnectionRead, OpenTimeout, Destroy
    <2>3. CASE TurnGoesOn
      <3>1. UNCHANGED <<posted, conn>>
        BY <2>3 DEF TurnGoesOn, CompleteQuery, CompleteAllQueries, RunCallback, SignalDone
      <3>2. UNCHANGED pc \/ \E t : pc' = [pc EXCEPT ![t] = IdlePC]
        BY <2>3 DEF TurnGoesOn, CompleteQuery, CompleteAllQueries, RunCallback, SignalDone, Return
      <3>3. \A t \in Threads : pc'[t].at = "idle"
        BY <1>1, <2>1, <3>2 DEF IdlePC
      <3> QED
        BY <2>1, <3>1, <3>3 DEF Gone
    <2>4. CASE \E x \in Xids : NotifyTimeout(x)
      <3>1. UNCHANGED <<posted, pc>> /\ conn'.net = conn.net /\ conn'.opening = conn.opening
        BY <1>1, <2>4 DEF NotifyTimeout, Conn
      <3> QED
        BY <2>1, <3>1 DEF Gone
    <2>5. CASE UNCHANGED vars
      BY <2>1, <2>5 DEF vars, Gone
    <2> QED
      BY <2>2, <2>3, <2>4, <2>5 DEF Next
  <1>4. CASE ~conn.deleted /\ ~Destroy
    <2>1. conn'.deleted = conn.deleted
      BY <1>1, <1>4, DeletedOnlyByDestroy
    <2> QED
      BY <1>4, <2>1 DEF Gone
  <1> QED
    BY <1>2, <1>3, <1>4

\* No step breaks the order in which the connection is opened.
LEMMA NextOpen == QueriesInv /\ OpenInv /\ [Next]_vars => OpenInv'
  <1> SUFFICES ASSUME QueriesInv, OpenInv, [Next]_vars PROVE OpenInv'
    OBVIOUS
  <1>1. TypeOK /\ OpenInOrder /\ Gone /\ OnlyDestroyFails
    BY DEF QueriesInv, OpenInv
  <1>0. Gone'
    BY <1>1, NextGone
  <1>2. ASSUME NEW t \in Threads, Calls(t) \/ ThreadStep(t) PROVE OpenInv'
    BY <1>0, <1>1, <1>2, ThreadsKeepOrder DEF OpenInv, OnlyDestroyFails
  <1>3. CASE TurnGoesOn \/ SetTimeouts \/ ClearTimeouts \/ Signal
    BY <1>0, <1>1, <1>3, ClosuresKeepOrder DEF OpenInv, OnlyDestroyFails
  <1>4. CASE \/ OpenPosted \/ SendPacket \/ ShutdownPosted \/ Network \/ OpenTimeout
             \/ Destroy \/ \E x \in Xids : NotifyTimeout(x)
    BY <1>0, <1>1, <1>4, ConnectionKeepsOrder DEF OpenInv
  <1>5. CASE UNCHANGED vars
    BY <1>0, <1>1, <1>5 DEF vars, OpenInv, OpenInOrder, OnlyDestroyFails
  <1> QED
    BY <1>2, <1>3, <1>4, <1>5 DEF Next, ClosuresRun

\* A new connection has its open in front, if one was asked for.
LEMMA InitOpen == Init => OpenInv
  <1> SUFFICES ASSUME Init PROVE OpenInv
    OBVIOUS
  <1>1. PICK opens \in BOOLEAN :
           /\ posted = IF opens THEN <<<<"StartOpen">>>> ELSE <<>>
           /\ conn = [net |-> "DISCONNECTED", hand |-> "NOT_INITIALIZED", opening |-> FALSE,
                      callback |-> opens, queries |-> {}, sent |-> {}, deleted |-> FALSE]
    BY DEF Init
  <1>2. /\ conn.net = "DISCONNECTED" /\ conn.hand = "NOT_INITIALIZED" /\ ~conn.opening
        /\ conn.callback = opens /\ ~conn.deleted /\ ~failed
    BY <1>1 DEF Init
  <1>3. CASE opens
    <2>1. posted = <<<<"StartOpen">>>>
      BY <1>1, <1>3
    <2>2. DOMAIN posted = {1} /\ posted[1] = <<"StartOpen">> /\ posted # <<>>
      BY <2>1
    <2> QED
      BY <1>2, <2>2 DEF OpenInv, OpenInOrder, Gone, OnlyDestroyFails
  <1>4. CASE ~opens
    <2>1. DOMAIN posted = {}
      BY <1>1, <1>4
    <2> QED
      BY <1>2, <1>4, <2>1 DEF OpenInv, OpenInOrder, Gone, OnlyDestroyFails
  <1> QED
    BY <1>3, <1>4

\* When the server does not shake hands after the open timeout, no CHECK of the
\* connection fails but those of the destructor, and these only if it may run
\* while the connection is being made: an open is started from a closed
\* connection, ends once and with its callback, and a handshake starts afresh,
\* also when Shutdown is called or the connection breaks while it is being made
\* (rpc_client_connection_tcp.cc, StartOpen, EndOpen, StartHandshake, Shutdown,
\* ~ClientConnectionTCP).
THEOREM ChecksHold ==
    ASSUME ~LateHandshake
    PROVE  Spec => [](NoCheckFails \/ (ShutsWhileOpening /\ conn.deleted))
  <1>1. OpenInv => NoCheckFails \/ (ShutsWhileOpening /\ conn.deleted)
    BY DEF OpenInv, OnlyDestroyFails, NoCheckFails
  <1>2. Init => QueriesInv /\ OpenInv
    BY InitQueries, InitOpen
  <1>3. (QueriesInv /\ OpenInv) /\ [Next]_vars => (QueriesInv /\ OpenInv)'
    BY NextQueries, NextOpen
  <1>4. Spec => [](QueriesInv /\ OpenInv)
    BY <1>2, <1>3, PTL DEF Spec
  <1> QED
    BY <1>1, <1>4, PTL
=============================================================================
