----------------------------- MODULE AsyncProof -----------------------------
(***************************************************************************)
(* Safety of the two components whose work is done by other threads that   *)
(* answer by posting to the loop: the resolver and the file element.       *)
(*                                                                         *)
(* The resolver, for any loops, handlers, hosts and queue size, and the    *)
(* safety part of its refinement of DnsService.  As in the run, a handler   *)
(* does not ask again while an answer to its former query is posted.       *)
(***************************************************************************)
EXTENDS DnsResolver, AioFileElement, FiniteSetTheorems, SequenceTheorems, TLAPS

\* A query is for a host.
HasHost == \A q \in live : query[q].host \in Hosts

\* A loop inside Resolve works for a handler of its own, on a query of its own,
\* and has the mutex from the cache miss to the entry in query_map_.
InResolve ==
    \A l \in Loops :
       /\ in[l].at = "out" => in[l] = Outside
       /\ in[l].at # "out" =>
             /\ in[l].handler \in Handlers /\ LoopOf[in[l].handler] = l
             /\ in[l].host \in Hosts
             /\ in[l].query \in 1..calls /\ thread_
             /\ \A m \in Loops : in[m].query = in[l].query => m = l
       /\ in[l].at = "lock" => in[l].query \notin live
       /\ in[l].at \in {"put", "map"} =>
             in[l].query \in live /\ query[in[l].query].handler = in[l].handler
       /\ mutex_ = l <=> in[l].at \in {"put", "map"}

Working == solver \in {"check", "resolve", "deliver"}
InQueue(q) == \E i \in DOMAIN query_queue_ : query_queue_[i] = q

\* A query that is not deleted is in one place: with Resolve, in the queue, or
\* with the solver.  The exit signal is behind all of them.
Handed ==
    /\ live \subseteq 1..calls
    /\ \A i \in DOMAIN query_queue_ :
          /\ query_queue_[i] \in live \cup {0}
          /\ query_queue_[i] = 0 => i = Len(query_queue_) /\ ~thread_
          /\ \A j \in DOMAIN query_queue_ : query_queue_[i] = query_queue_[j] => i = j
    /\ Working => cur \in live /\ ~InQueue(cur)
    /\ \A l \in Loops : in[l].at = "put" =>
          ~InQueue(in[l].query) /\ ~(Working /\ cur = in[l].query)
    /\ \A q \in live : \/ InQueue(q)
                       \/ Working /\ cur = q
                       \/ \E l \in Loops : in[l].at = "put" /\ in[l].query = q
    /\ solver = "stopped" => query_queue_ = <<>> /\ ~thread_

\* query_map_ leads to a query of the handler, though perhaps to a deleted one.
Mapped ==
    \A h \in DOMAIN query_map_ :
       /\ query_map_[h] \in 1..calls
       /\ \A l \in Loops : in[l].at = "lock" => in[l].query # query_map_[h]
       /\ query_map_[h] \in live => query[query_map_[h]].handler \in {h, None}
       /\ query_map_[h] \notin live => query[query_map_[h]].handler = None

\* A handler has one query at a time.
OneQuery ==
    /\ \A q, r \in live : query[q].handler # None /\ query[q].handler = query[r].handler => q = r
    /\ \A l \in Loops, q \in live : in[l].at = "lock" => query[q].handler # in[l].handler

Found == \A q \in Queued : CancelFinds(q)

\* Answers go to the handler's own loop.
Posts(h) == \E k \in DOMAIN to_run[LoopOf[h]] : to_run[LoopOf[h]][k] = h
RunByOwn == \A l \in Loops : \A k \in DOMAIN to_run[l] : LoopOf[to_run[l][k]] = l

\* Who has a query has asked, and has no answer; who asked has one or the other,
\* as long as no Cancel has written into a deleted query.
Asked ==
    \A h \in Handlers :
       /\ Pending(h) => asked[h] /\ ~Posts(h)
       /\ corrupted \/ (asked[h] => Pending(h) \/ Posts(h))

Places == TypeOK /\ HasHost /\ InResolve /\ Handed
Answers == OneQuery /\ Found /\ RunByOwn /\ Asked
Inv == Places /\ Mapped /\ Answers

InResolveRecord == [at : {"out", "lock", "put", "map"}, handler : Handlers \cup {None},
                    host : Hosts \cup {None}, query : 0..MaxCalls]
QueryRecord == [handler : Handlers \cup {None}, host : Hosts \cup {None}]

-----------------------------------------------------------------------------
(* Sequences *)

\* A sequence with one more element.
LEMMA AppendAt ==
    ASSUME NEW S, NEW s \in Seq(S), NEW e \in S, NEW t, t = Append(s, e)
    PROVE  /\ t \in Seq(S) /\ Len(s) \in Nat /\ Len(t) = Len(s) + 1
           /\ DOMAIN s = 1..Len(s) /\ DOMAIN t = 1..(Len(s) + 1)
           /\ \A i \in DOMAIN s : i \in DOMAIN t /\ t[i] = s[i]
           /\ t[Len(s) + 1] = e
  <1>1. /\ t \in Seq(S) /\ Len(t) = Len(s) + 1
        /\ \A i \in 1..Len(s) : t[i] = s[i]
        /\ t[Len(s) + 1] = e
    BY AppendProperties
  <1>2. DOMAIN s = 1..Len(s) /\ Len(s) \in Nat /\ DOMAIN t = 1..Len(t)
    BY <1>1, LenProperties
  <1> QED
    BY <1>1, <1>2

\* A sequence without its head.
LEMMA TailAt ==
    ASSUME NEW S, NEW s \in Seq(S), s # <<>>, NEW t, t = Tail(s)
    PROVE  /\ t \in Seq(S) /\ Len(s) \in Nat \ {0} /\ Len(t) = Len(s) - 1
           /\ DOMAIN s = 1..Len(s) /\ DOMAIN t = 1..(Len(s) - 1)
           /\ \A i \in DOMAIN t : i + 1 \in DOMAIN s /\ t[i] = s[i + 1]
           /\ \A i \in DOMAIN s : i # 1 => i - 1 \in DOMAIN t /\ s[i] = t[i - 1]
           /\ 1 \in DOMAIN s /\ Head(s) = s[1] /\ s[1] \in S
  <1>1. /\ Len(s) \in Nat \ {0} /\ DOMAIN s = 1..Len(s)
    BY EmptySeq, LenProperties
  <1>2. Head(s) = s[1] /\ s[1] \in S
    BY <1>1, ElementOfSeq
  <1>3. /\ t \in Seq(S) /\ Len(t) = Len(s) - 1
        /\ \A i \in 1..Len(t) : t[i] = s[i + 1]
    BY <1>1, HeadTailProperties
  <1>4. DOMAIN t = 1..(Len(s) - 1)
    BY <1>3, LenProperties
  <1>5. \A i \in DOMAIN s : i # 1 => i - 1 \in 1..(Len(s) - 1) /\ s[i] = t[i - 1]
    <2> SUFFICES ASSUME NEW i \in 1..Len(s), i # 1
                 PROVE  i - 1 \in 1..(Len(s) - 1) /\ s[i] = t[i - 1]
      BY <1>1
    <2>1. i - 1 \in 1..(Len(s) - 1) /\ (i - 1) + 1 = i
      BY <1>1
    <2>2. t[i - 1] = s[(i - 1) + 1]
      BY <1>1, <1>3, <2>1
    <2> QED
      BY <2>1, <2>2
  <1> QED
    BY <1>1, <1>2, <1>3, <1>4, <1>5

\* How often a value is in a sequence ...
Times(s, h) == Cardinality({k \in 1..Len(s) : s[k] = h})

\* ... and whether it is.
LEMMA TimesPositive ==
    ASSUME NEW S, NEW s \in Seq(S), NEW h
    PROVE  /\ IsFiniteSet({k \in 1..Len(s) : s[k] = h})
           /\ Times(s, h) \in Nat
           /\ Times(s, h) > 0 <=> \E k \in DOMAIN s : s[k] = h
  <1> DEFINE K == {k \in 1..Len(s) : s[k] = h}
  <1>1. Len(s) \in Nat /\ DOMAIN s = 1..Len(s)
    BY LenProperties
  <1>2. IsFiniteSet(1..Len(s))
    BY <1>1, FS_Interval
  <1>3. IsFiniteSet(K)
    BY <1>2, FS_Subset
  <1>4. Cardinality(K) \in Nat /\ (Cardinality(K) = 0 <=> K = {})
    BY <1>3, FS_CardinalityType, FS_EmptySet
  <1>5. K # {} <=> \E k \in DOMAIN s : s[k] = h
    BY <1>1
  <1> QED
    BY <1>3, <1>4, <1>5 DEF Times

\* One more, or as often as before.
LEMMA TimesAppend ==
    ASSUME NEW S, NEW s \in Seq(S), NEW e \in S, NEW h
    PROVE  Times(Append(s, e), h) = IF e = h THEN Times(s, h) + 1 ELSE Times(s, h)
  <1> DEFINE t == Append(s, e)
             n == Len(s) + 1
             K == {k \in 1..Len(s) : s[k] = h}
             L == {k \in 1..Len(t) : t[k] = h}
  <1>1. /\ Len(s) \in Nat /\ Len(t) = n /\ DOMAIN s = 1..Len(s)
        /\ \A i \in DOMAIN s : t[i] = s[i]
        /\ t[n] = e
    BY AppendAt
  <1>2. IsFiniteSet(K) /\ n \notin K
    <2>1. n \notin K
      BY <1>1
    <2>2. IsFiniteSet(K)
      BY TimesPositive
    <2> QED
      BY <2>1, <2>2
  <1> HIDE DEF t
  <1>3. CASE e = h
    <2>1. L = K \cup {n}
      BY <1>1, <1>3
    <2>2. Cardinality(L) = Cardinality(K) + 1
      <3> HIDE DEF K, L, n
      <3> QED
        BY <1>2, <2>1, FS_AddElement
    <2> QED
      BY <1>3, <2>2 DEF Times, t
  <1>4. CASE e # h
    <2>1. L = K
      BY <1>1, <1>4
    <2> QED
      BY <1>4, <2>1 DEF Times, t
  <1> QED
    BY <1>3, <1>4

\* One less when the head goes, or as often as before.
LEMMA TimesTail ==
    ASSUME NEW S, NEW s \in Seq(S), s # <<>>, NEW h
    PROVE  Times(s, h) = IF Head(s) = h THEN Times(Tail(s), h) + 1 ELSE Times(Tail(s), h)
  <1> DEFINE t == Tail(s)
             K == {k \in 1..Len(s) : s[k] = h}
             L == {k \in 1..Len(t) : t[k] = h}
             M == K \ {1}
  <1>1. /\ t \in Seq(S) /\ Len(s) \in Nat \ {0} /\ Len(t) = Len(s) - 1
        /\ DOMAIN s = 1..Len(s) /\ DOMAIN t = 1..Len(t)
        /\ \A i \in DOMAIN t : i + 1 \in DOMAIN s /\ t[i] = s[i + 1]
        /\ \A i \in DOMAIN s : i # 1 => i - 1 \in DOMAIN t /\ s[i] = t[i - 1]
        /\ Head(s) = s[1]
    BY TailAt
  <1> HIDE DEF t
  <1>2. IsFiniteSet(K) /\ IsFiniteSet(L)
    BY <1>1, TimesPositive
  <1>3. Cardinality(L) = Cardinality(M)
    <2> DEFINE f == [k \in L |-> k + 1]
    <2>1. f \in Bijection(L, M)
      <3>1. f \in [L -> M]
        BY <1>1
      <3>2. \A a, b \in L : f[a] = f[b] => a = b
        BY <1>1
      <3>3. \A m \in M : \E k \in L : f[k] = m
        <4> SUFFICES ASSUME NEW m \in M PROVE \E k \in L : f[k] = m
          OBVIOUS
        <4>1. m - 1 \in L /\ (m - 1) + 1 = m
          BY <1>1, SMTT(30)
        <4> QED
          BY <4>1
      <3> HIDE DEF f, L, M
      <3> QED
        BY <3>1, <3>2, <3>3 DEF Bijection, Injection, Surjection, IsInjective
    <2>2. ExistsBijection(L, M)
      BY <2>1 DEF ExistsBijection
    <2> QED
      BY <1>2, <2>2, FS_Bijection
  <1>4. CASE Head(s) = h
    <2>1. 1 \in K
      BY <1>1, <1>4
    <2>2. Cardinality(M) = Cardinality(K) - 1 /\ Cardinality(K) \in Nat
      <3> HIDE DEF K
      <3> QED
        BY <1>2, <2>1, FS_RemoveElement, FS_CardinalityType
    <2>3. Times(s, h) = Cardinality(K) /\ Times(t, h) = Cardinality(L)
      BY DEF Times
    <2> HIDE DEF K, L, M
    <2> QED
      BY <1>3, <1>4, <2>2, <2>3 DEF t
  <1>5. CASE Head(s) # h
    <2>1. M = K
      BY <1>1, <1>5
    <2> QED
      BY <1>3, <1>5, <2>1 DEF Times, t
  <1> QED
    BY <1>4, <1>5


-----------------------------------------------------------------------------
(* What the steps change *)

\* A loop goes to another place of Resolve, and only this loop.
LEMMA InEffect ==
    ASSUME TypeOK, NEW l \in Loops, NEW r \in InResolveRecord, in' = [in EXCEPT ![l] = r]
    PROVE  /\ in' \in [Loops -> InResolveRecord]
           /\ in'[l] = r /\ \A m \in Loops : m # l => in'[m] = in[m]
  BY DEF TypeOK, InResolveRecord

\* A loop that is not in Resolve.
LEMMA OutsideType == Outside \in InResolveRecord /\ Outside.at = "out" /\ Outside.handler = None
                     /\ Outside.query = 0
  BY DnsAssumption DEF Outside, InResolveRecord

\* A loop goes on inside Resolve with what it has.
LEMMA GoOnEffect ==
    ASSUME TypeOK, NEW l \in Loops, NEW where \in {"put", "map"},
           in' = [in EXCEPT ![l].at = where]
    PROVE  /\ in' \in [Loops -> InResolveRecord]
           /\ in'[l].at = where /\ in'[l].handler = in[l].handler
           /\ in'[l].host = in[l].host /\ in'[l].query = in[l].query
           /\ \A m \in Loops : m # l => in'[m] = in[m]
  BY DEF TypeOK, InResolveRecord

\* An answer is posted to the handler's loop.
LEMMA ReturnEffect ==
    ASSUME TypeOK, NEW h \in Handlers, Return(h)
    PROVE  /\ to_run' \in [Loops -> Seq(Handlers)]
           /\ to_run'[LoopOf[h]] = Append(to_run[LoopOf[h]], h)
           /\ \A l \in Loops : l # LoopOf[h] => to_run'[l] = to_run[l]
  <1> DEFINE l == LoopOf[h]
             s == Append(to_run[l], h)
  <1>1. l \in Loops /\ to_run \in [Loops -> Seq(Handlers)]
    BY DnsAssumption DEF TypeOK
  <1>2. s \in Seq(Handlers)
    <2> HIDE DEF l
    <2> QED
      BY <1>1, AppendProperties
  <1>3. to_run' = [to_run EXCEPT ![l] = s]
    BY DEF Return
  <1> HIDE DEF l, s
  <1>4. /\ to_run' \in [Loops -> Seq(Handlers)] /\ to_run'[l] = s
        /\ \A m \in Loops : m # l => to_run'[m] = to_run[m]
    BY <1>1, <1>2, <1>3
  <1> QED
    BY <1>4 DEF l, s

\* The answers of the others stay what they are.
LEMMA ReturnPosts ==
    ASSUME TypeOK, NEW h \in Handlers, Return(h)
    PROVE  /\ RunByOwn => RunByOwn'
           /\ Posts(h)' /\ \A g \in Handlers : g # h => (Posts(g)' <=> Posts(g))
           /\ \A g \in Handlers :
                 Posted(g)' = IF g = h THEN Posted(g) + 1 ELSE Posted(g)
  <1> DEFINE l == LoopOf[h]
             s == to_run[l]
             t == to_run'[l]
  <1>1. l \in Loops /\ \A g \in Handlers : LoopOf[g] \in Loops
    BY DnsAssumption
  <1>2. /\ to_run' \in [Loops -> Seq(Handlers)]
        /\ t = Append(s, h)
        /\ \A m \in Loops : m # l => to_run'[m] = to_run[m]
    BY ReturnEffect
  <1>3. s \in Seq(Handlers)
    BY <1>1 DEF TypeOK
  <1>4. /\ DOMAIN s = 1..Len(s) /\ DOMAIN t = 1..(Len(s) + 1) /\ Len(s) \in Nat
        /\ \A i \in DOMAIN s : i \in DOMAIN t /\ t[i] = s[i]
        /\ t[Len(s) + 1] = h
    <2> HIDE DEF s, t, l
    <2> QED
      BY <1>2, <1>3, AppendAt
  <1>5. \A i \in DOMAIN t : i \in DOMAIN s \/ t[i] = h
    <2> HIDE DEF s, t, l
    <2> QED
      BY <1>4
  <1>6. RunByOwn => RunByOwn'
    <2> SUFFICES ASSUME RunByOwn, NEW m \in Loops, NEW k \in DOMAIN to_run'[m]
                 PROVE  LoopOf[to_run'[m][k]] = m
      BY DEF RunByOwn
    <2>1. CASE m # l
      BY <1>2, <2>1 DEF RunByOwn
    <2>2. CASE m = l
      BY <1>1, <1>4, <1>5, <2>2 DEF RunByOwn
    <2> QED
      BY <2>1, <2>2
  <1>7. Posts(h)' /\ \A g \in Handlers : g # h => (Posts(g)' <=> Posts(g))
    <2>1. Posts(h)'
      <3>1. Len(s) + 1 \in DOMAIN t /\ t[Len(s) + 1] = h
        <4> HIDE DEF s, t, l
        <4> QED
          BY <1>4
      <3> QED
        BY <3>1 DEF Posts
    <2>2. ASSUME NEW g \in Handlers, g # h PROVE Posts(g)' <=> Posts(g)
      <3>1. CASE LoopOf[g] # l
        BY <1>1, <1>2, <3>1 DEF Posts
      <3>2. CASE LoopOf[g] = l
        <4>1. (\E k \in DOMAIN t : t[k] = g) <=> (\E k \in DOMAIN s : s[k] = g)
          <5> HIDE DEF s, t, l
          <5> QED
            BY <1>4, <1>5, <2>2
        <4> QED
          BY <3>2, <4>1 DEF Posts
      <3> QED
        BY <3>1, <3>2
    <2> QED
      BY <2>1, <2>2
  <1>8. ASSUME NEW g \in Handlers
        PROVE  Posted(g)' = IF g = h THEN Posted(g) + 1 ELSE Posted(g)
    <2>1. CASE LoopOf[g] # l
      BY <1>1, <1>2, <2>1 DEF Posted
    <2>2. CASE LoopOf[g] = l
      <3>1. Times(t, g) = IF h = g THEN Times(s, g) + 1 ELSE Times(s, g)
        <4> HIDE DEF s, t, l
        <4> QED
          BY <1>2, <1>3, TimesAppend
      <3> QED
        BY <2>2, <3>1 DEF Posted, Times
    <2> QED
      BY <2>1, <2>2
  <1> QED
    BY <1>6, <1>7, <1>8

\* An answer is taken by the loop that runs it.
LEMMA RunPosts ==
    ASSUME TypeOK, RunByOwn, NEW l \in Loops, to_run[l] # <<>>,
           to_run' = [to_run EXCEPT ![l] = Tail(@)]
    PROVE  /\ to_run' \in [Loops -> Seq(Handlers)] /\ RunByOwn'
           /\ Head(to_run[l]) \in Handlers /\ Posts(Head(to_run[l]))
           /\ \A g \in Handlers : g # Head(to_run[l]) => (Posts(g)' <=> Posts(g))
           /\ \A g \in Handlers :
                 Posted(g) = IF g = Head(to_run[l]) THEN Posted(g)' + 1 ELSE Posted(g)'
  <1> DEFINE s == to_run[l]
             t == to_run'[l]
             h == Head(s)
  <1>1. \A g \in Handlers : LoopOf[g] \in Loops
    BY DnsAssumption
  <1>2. s \in Seq(Handlers) /\ s # <<>>
    BY DEF TypeOK
  <1>3. t = Tail(s) /\ \A m \in Loops : m # l => to_run'[m] = to_run[m]
    BY DEF TypeOK
  <1>4. /\ t \in Seq(Handlers) /\ 1 \in DOMAIN s /\ h = s[1] /\ h \in Handlers
        /\ \A i \in DOMAIN t : i + 1 \in DOMAIN s /\ t[i] = s[i + 1]
        /\ \A i \in DOMAIN s : i # 1 => i - 1 \in DOMAIN t /\ s[i] = t[i - 1]
    <2> HIDE DEF s, t
    <2> QED
      BY <1>2, <1>3, TailAt
  <1>5. to_run' \in [Loops -> Seq(Handlers)]
    BY <1>3, <1>4 DEF TypeOK
  <1>6. RunByOwn'
    <2> SUFFICES ASSUME NEW m \in Loops, NEW k \in DOMAIN to_run'[m]
                 PROVE  LoopOf[to_run'[m][k]] = m
      BY DEF RunByOwn
    <2>1. CASE m # l
      BY <1>3, <2>1 DEF RunByOwn
    <2>2. CASE m = l
      BY <1>4, <2>2 DEF RunByOwn
    <2> QED
      BY <2>1, <2>2
  <1>7. LoopOf[h] = l /\ Posts(h)
    BY <1>4 DEF RunByOwn, Posts
  <1>8. ASSUME NEW g \in Handlers, g # h PROVE Posts(g)' <=> Posts(g)
    <2>1. CASE LoopOf[g] # l
      BY <1>1, <1>3, <2>1 DEF Posts
    <2>2. CASE LoopOf[g] = l
      <3>1. (\E k \in DOMAIN t : t[k] = g) <=> (\E k \in DOMAIN s : s[k] = g)
        <4>1. ASSUME NEW k \in DOMAIN t, t[k] = g PROVE \E j \in DOMAIN s : s[j] = g
          BY <1>4, <4>1
        <4>2. ASSUME NEW k \in DOMAIN s, s[k] = g PROVE \E j \in DOMAIN t : t[j] = g
          <5>1. k # 1
            BY <1>4, <1>8, <4>2
          <5> QED
            BY <1>4, <4>2, <5>1
        <4> QED
          BY <4>1, <4>2
      <3> QED
        BY <2>2, <3>1 DEF Posts
    <2> QED
      BY <2>1, <2>2
  <1>9. ASSUME NEW g \in Handlers
        PROVE  Posted(g) = IF g = h THEN Posted(g)' + 1 ELSE Posted(g)'
    <2>1. CASE LoopOf[g] # l
      BY <1>1, <1>3, <1>7, <2>1 DEF Posted
    <2>2. CASE LoopOf[g] = l
      <3>1. Times(s, g) = IF h = g THEN Times(t, g) + 1 ELSE Times(t, g)
        <4> HIDE DEF s, t
        <4> QED
          BY <1>2, <1>3, TimesTail
      <3> QED
        BY <2>2, <3>1 DEF Posted, Times
    <2> QED
      BY <2>1, <2>2
  <1> QED
    BY <1>4, <1>5, <1>6, <1>7, <1>8, <1>9


\* Posted counts what Posts sees.
LEMMA PostedPositive ==
    ASSUME TypeOK, NEW h \in Handlers
    PROVE  Posted(h) \in Nat /\ (Posted(h) > 0 <=> Posts(h))
  <1> DEFINE s == to_run[LoopOf[h]]
  <1>1. s \in Seq(Handlers)
    BY DnsAssumption DEF TypeOK
  <1>2. Posted(h) = Times(s, h)
    BY DEF Posted, Times
  <1>3. Posts(h) <=> \E k \in DOMAIN s : s[k] = h
    BY DEF Posts
  <1> HIDE DEF s
  <1>4. Times(s, h) \in Nat /\ (Times(s, h) > 0 <=> \E k \in DOMAIN s : s[k] = h)
    BY <1>1, TimesPositive
  <1> QED
    BY <1>2, <1>3, <1>4

-----------------------------------------------------------------------------
(* Where the queries are *)

\* Nothing is allocated.
LEMMA InitPlaces == Init => Places
  <1> SUFFICES ASSUME Init PROVE Places
    OBVIOUS
  <1> DEFINE nothing == <<>>
             blank == [handler |-> None, host |-> None]
  <1>1. /\ query_queue_ = nothing /\ query_map_ = [h \in {} |-> 0]
        /\ query = [q \in Queries |-> blank] /\ live = {} /\ corrupted = FALSE /\ calls = 0 /\ cache_ = {}
        /\ mutex_ = None /\ in = [l \in Loops |-> Outside] /\ solver = "get" /\ cur = 0
        /\ thread_ = TRUE /\ to_run = [l \in Loops |-> nothing]
        /\ asked = [h \in Handlers |-> FALSE]
    BY DEF Init
  <1>2. /\ nothing \in Seq(0..MaxCalls) /\ nothing \in Seq(Handlers)
        /\ Len(nothing) = 0 /\ DOMAIN nothing = {}
    OBVIOUS
  <1>3. blank \in QueryRecord
    BY DnsAssumption DEF QueryRecord
  <1>4. 0 \in 0..MaxCalls /\ 0 <= kQueryQueueMaxSize
    BY DnsAssumption
  <1> HIDE DEF nothing, blank
  <1>5. query \in [Queries -> QueryRecord] /\ in \in [Loops -> InResolveRecord]
    BY <1>1, <1>3, OutsideType
  <1>6. TypeOK
    <2>1. DOMAIN query_map_ = {}
      BY <1>1
    <2>2. to_run \in [Loops -> Seq(Handlers)] /\ asked \in [Handlers -> BOOLEAN]
      BY <1>1, <1>2
    <2>3. Len(query_queue_) <= kQueryQueueMaxSize
      BY <1>1, <1>2, <1>4
    <2> QED
      BY <1>1, <1>2, <1>4, <1>5, <2>1, <2>2, <2>3 DEF TypeOK, QueryRecord, InResolveRecord
  <1>7. HasHost
    BY <1>1, <1>3 DEF HasHost
  <1>8. InResolve
    BY <1>1, OutsideType, DnsAssumption DEF InResolve
  <1>9. Handed
    BY <1>1, <1>2, OutsideType DEF Handed, InQueue, Working
  <1> QED
    BY <1>6, <1>7, <1>8, <1>9 DEF Places

\* A call of Resolve gets a new number.
LEMMA ResolvePlaces ==
    ASSUME Places, NEW h \in Handlers, NEW host \in Hosts, Resolve(h, host)
    PROVE  Places'
  <1> DEFINE l == LoopOf[h]
             r == [at |-> "lock", handler |-> h, host |-> host, query |-> calls + 1]
  <1>1. TypeOK /\ HasHost /\ InResolve /\ Handed /\ l \in Loops
    BY DnsAssumption DEF Places
  <1>2. /\ in[l] = Outside /\ calls' = calls + 1 /\ calls \in Nat /\ calls + 1 \in 0..MaxCalls
        /\ calls + 1 \in Queries /\ thread_ /\ asked' = [asked EXCEPT ![h] = TRUE]
        /\ UNCHANGED <<corrupted, query_queue_, query_map_, query, live, cache_, mutex_, solver, cur, thread_>>
    BY <1>1, DnsAssumption DEF Resolve, Idle, dataVars, solverVars, TypeOK, Queries
  <1>3. asked' \in [Handlers -> BOOLEAN] /\ 1..calls \subseteq 1..calls' /\ calls + 1 \notin 1..calls
    BY <1>1, <1>2 DEF TypeOK
  <1>4. CASE Return(h) /\ UNCHANGED in
    <2>1. to_run' \in [Loops -> Seq(Handlers)]
      BY <1>1, <1>4, ReturnEffect
    <2>2. TypeOK'
      BY <1>1, <1>2, <1>3, <1>4, <2>1 DEF TypeOK
    <2>3. HasHost' /\ InResolve' /\ Handed'
      BY <1>1, <1>2, <1>3, <1>4 DEF HasHost, InResolve, Handed, InQueue, Working
    <2> QED
      BY <2>2, <2>3 DEF Places
  <1>5. CASE in' = [in EXCEPT ![l] = r] /\ UNCHANGED to_run
    <2>1. r \in InResolveRecord /\ r.at = "lock" /\ r.handler = h /\ r.query = calls + 1 /\ r.host = host
      BY <1>2 DEF InResolveRecord
    <2> HIDE DEF r
    <2>2. in' \in [Loops -> InResolveRecord] /\ in'[l] = r /\ \A m \in Loops : m # l => in'[m] = in[m]
      <3> HIDE DEF l
      <3> QED
        BY <1>1, <1>5, <2>1, InEffect
    <2>3. TypeOK'
      BY <1>1, <1>2, <1>3, <1>5, <2>2 DEF TypeOK, InResolveRecord
    <2>4. HasHost'
      BY <1>1, <1>2 DEF HasHost
    <2>5. InResolve'
      <3>1. \A m \in Loops : in[m].query \in 0..calls
        BY <1>1, <1>2, OutsideType DEF InResolve
      <3>2. \A m, k \in Loops : m # l /\ k # l => (in'[m].query = in'[k].query <=> in[m].query = in[k].query)
        BY <2>2
      <3>3. calls + 1 \notin live /\ mutex_ # l
        BY <1>1, <1>2, <1>3, OutsideType DEF Handed, InResolve
      <3> SUFFICES ASSUME NEW m \in Loops
                   PROVE  /\ in'[m].at = "out" => in'[m] = Outside
                          /\ in'[m].at # "out" =>
                                /\ in'[m].handler \in Handlers /\ LoopOf[in'[m].handler] = m
                                /\ in'[m].host \in Hosts
                                /\ in'[m].query \in 1..calls' /\ thread_'
                                /\ \A k \in Loops : in'[k].query = in'[m].query => k = m
                          /\ in'[m].at = "lock" => in'[m].query \notin live'
                          /\ in'[m].at \in {"put", "map"} =>
                                /\ in'[m].query \in live'
                                /\ query'[in'[m].query].handler = in'[m].handler
                          /\ mutex_' = m <=> in'[m].at \in {"put", "map"}
        BY DEF InResolve
      <3>4. CASE m = l
        BY <1>2, <2>1, <2>2, <3>1, <3>3, <3>4
      <3>5. CASE m # l
        <4>1. in'[m] = in[m] /\ in'[l].query # in[m].query
          BY <1>2, <2>1, <2>2, <3>1, <3>5
        <4>2. in[m].at # "out" => \A k \in Loops : in'[k].query = in'[m].query => k = m
          BY <1>1, <2>2, <4>1 DEF InResolve
        <4> QED
          BY <1>1, <1>2, <1>3, <4>1, <4>2 DEF InResolve
      <3> QED
        BY <3>4, <3>5
    <2>6. Handed'
      <3>1. in[l].at = "out"
        BY <1>2, OutsideType
      <3>2. \A m \in Loops : in'[m].at = "put" => in'[m] = in[m]
        BY <2>1, <2>2
      <3>3. \A m \in Loops : in[m].at = "put" => in'[m] = in[m]
        BY <2>2, <3>1
      <3> QED
        BY <1>1, <1>2, <1>3, <3>2, <3>3 DEF Handed, InQueue, Working
    <2> QED
      BY <2>3, <2>4, <2>5, <2>6 DEF Places
  <1> QED
    BY <1>4, <1>5 DEF Resolve


\* A loop that leaves Resolve leaves no query of its own behind.
LEMMA LeavePlaces ==
    ASSUME Places, NEW l \in Loops, in' = [in EXCEPT ![l] = Outside],
           in[l].at \in {"lock", "map"},
           mutex_' = IF in[l].at = "map" THEN None ELSE mutex_,
           UNCHANGED <<corrupted, query_queue_, query, live, calls, cache_, solver, cur, thread_, asked>>,
           to_run' \in [Loops -> Seq(Handlers)],
           DOMAIN query_map_' \subseteq Handlers,
           \A h \in DOMAIN query_map_' : query_map_'[h] \in Queries
    PROVE  Places'
  <1>1. TypeOK /\ HasHost /\ InResolve /\ Handed
    BY DEF Places
  <1>2. /\ in' \in [Loops -> InResolveRecord] /\ in'[l] = Outside
        /\ \A m \in Loops : m # l => in'[m] = in[m]
    BY <1>1, InEffect, OutsideType
  <1>3. mutex_' \in Loops \cup {None} /\ mutex_' # l
    BY <1>1, DnsAssumption DEF TypeOK, InResolve
  <1>4. \A m \in Loops : m # l => (mutex_' = m <=> mutex_ = m)
    BY <1>1, DnsAssumption DEF TypeOK, InResolve
  <1>5. TypeOK'
    BY <1>1, <1>2, <1>3 DEF TypeOK, InResolveRecord
  <1>6. HasHost'
    BY <1>1 DEF HasHost
  <1>7. InResolve'
    <2> SUFFICES ASSUME NEW m \in Loops
                 PROVE  /\ in'[m].at = "out" => in'[m] = Outside
                        /\ in'[m].at # "out" =>
                              /\ in'[m].handler \in Handlers /\ LoopOf[in'[m].handler] = m
                              /\ in'[m].host \in Hosts
                              /\ in'[m].query \in 1..calls' /\ thread_'
                              /\ \A k \in Loops : in'[k].query = in'[m].query => k = m
                        /\ in'[m].at = "lock" => in'[m].query \notin live'
                        /\ in'[m].at \in {"put", "map"} =>
                              /\ in'[m].query \in live'
                              /\ query'[in'[m].query].handler = in'[m].handler
                        /\ mutex_' = m <=> in'[m].at \in {"put", "map"}
      BY DEF InResolve
    <2>1. CASE m = l
      BY <1>2, <1>3, <2>1, OutsideType
    <2>2. CASE m # l
      <3>1. in'[m] = in[m] /\ (mutex_' = m <=> mutex_ = m)
        BY <1>2, <1>4, <2>2
      <3>2. in[m].at # "out" => \A k \in Loops : in'[k].query = in'[m].query => k = m
        <4> SUFFICES ASSUME in[m].at # "out", NEW k \in Loops, in'[k].query = in[m].query
                     PROVE  k = m
          BY <3>1
        <4>1. in[m].query \in 1..calls /\ calls \in Nat
          BY <1>1 DEF InResolve, TypeOK
        <4>2. k # l
          BY <1>2, <4>1, OutsideType
        <4> QED
          BY <1>1, <1>2, <4>2 DEF InResolve
      <3> QED
        BY <1>1, <3>1, <3>2 DEF InResolve
    <2> QED
      BY <2>1, <2>2
  <1>8. Handed'
    <2>1. \A m \in Loops : in'[m].at = "put" => in'[m] = in[m]
      BY <1>2, OutsideType
    <2>2. \A m \in Loops : in[m].at = "put" => in'[m] = in[m]
      BY <1>2
    <2> QED
      BY <1>1, <2>1, <2>2 DEF Handed, InQueue, Working
  <1> QED
    BY <1>5, <1>6, <1>7, <1>8 DEF Places

\* CacheHit and MapQuery return from Resolve.
LEMMA ReturnsPlaces ==
    ASSUME Places, NEW l \in Loops, CacheHit(l) \/ MapQuery(l)
    PROVE  Places'
  <1>1. TypeOK /\ InResolve
    BY DEF Places
  <1>2. CASE CacheHit(l)
    <2>1. /\ in[l].at = "lock" /\ Return(in[l].handler) /\ in' = [in EXCEPT ![l] = Outside]
          /\ UNCHANGED <<corrupted, query_queue_, query_map_, query, live, cache_, mutex_, solver, cur, thread_,
                         calls, asked>>
      BY <1>2 DEF CacheHit, dataVars, solverVars
    <2>2. to_run' \in [Loops -> Seq(Handlers)]
      BY <1>1, <2>1, ReturnEffect DEF InResolve
    <2> QED
      BY <1>1, <2>1, <2>2, LeavePlaces DEF TypeOK
  <1>3. CASE MapQuery(l)
    <2>1. /\ in[l].at = "map" /\ in' = [in EXCEPT ![l] = Outside] /\ mutex_' = None
          /\ query_map_' = [h \in DOMAIN query_map_ \cup {in[l].handler} |->
                              IF h = in[l].handler THEN in[l].query ELSE query_map_[h]]
          /\ UNCHANGED <<corrupted, query_queue_, query, live, cache_, solver, cur, thread_, calls, asked, to_run>>
      BY <1>3 DEF MapQuery, solverVars
    <2>2. in[l].handler \in Handlers /\ in[l].query \in Queries
      BY <1>1, <2>1 DEF InResolve, TypeOK
    <2>3. DOMAIN query_map_' \subseteq Handlers /\ \A h \in DOMAIN query_map_' : query_map_'[h] \in Queries
      BY <1>1, <2>1, <2>2 DEF TypeOK
    <2> QED
      BY <1>1, <2>1, <2>3, LeavePlaces DEF TypeOK
  <1> QED
    BY <1>2, <1>3

\* The query is allocated where none was.
LEMMA CacheMissPlaces ==
    ASSUME Places, NEW l \in Loops, CacheMiss(l)
    PROVE  /\ Places'
           /\ \A r \in Queries : r # in[l].query => query'[r] = query[r]
           /\ query'[in[l].query].handler = in[l].handler
  <1> DEFINE q == in[l].query
             r == [handler |-> in[l].handler, host |-> in[l].host]
  <1>1. TypeOK /\ HasHost /\ InResolve /\ Handed
    BY DEF Places
  <1>3. /\ in[l].at = "lock" /\ mutex_ = None /\ mutex_' = l /\ query' = [query EXCEPT ![q] = r]
        /\ live' = live \cup {q} /\ in' = [in EXCEPT ![l].at = "put"]
        /\ UNCHANGED <<corrupted, query_queue_, query_map_, cache_, solver, cur, thread_, calls, asked, to_run>>
    BY DEF CacheMiss, solverVars
  <1>4. q \in Queries /\ q \in 1..calls /\ q \notin live /\ in[l].handler \in Handlers /\ q \in 0..MaxCalls
    BY <1>1, <1>3 DEF InResolve, TypeOK, Queries
  <1>5. r \in QueryRecord /\ r.handler = in[l].handler /\ r.host = in[l].host
    <2>1. in[l] \in InResolveRecord
      BY <1>1 DEF TypeOK, InResolveRecord
    <2> QED
      BY <1>4, <2>1 DEF QueryRecord, InResolveRecord
  <1> HIDE DEF r
  <1>6. /\ query' \in [Queries -> QueryRecord] /\ query'[q] = r
        /\ \A p \in Queries : p # q => query'[p] = query[p]
    <2>1. query \in [Queries -> QueryRecord]
      BY <1>1 DEF TypeOK, QueryRecord
    <2> HIDE DEF q
    <2> QED
      BY <1>3, <1>4, <1>5, <2>1
  <1>7. /\ in' \in [Loops -> InResolveRecord]
        /\ in'[l].at = "put" /\ in'[l].handler = in[l].handler /\ in'[l].query = q
        /\ in'[l].host = in[l].host
        /\ \A m \in Loops : m # l => in'[m] = in[m]
    BY <1>1, <1>3, GoOnEffect
  <1>8. TypeOK'
    BY <1>1, <1>3, <1>4, <1>6, <1>7 DEF TypeOK, InResolveRecord, QueryRecord
  <1> HIDE DEF q
  <1>9. HasHost'
    <2>1. in[l].host \in Hosts
      BY <1>1, <1>3 DEF InResolve
    <2> QED
      BY <1>1, <1>3, <1>5, <1>6, <2>1 DEF HasHost
  <1>10. InResolve'
    <2> SUFFICES ASSUME NEW m \in Loops
                 PROVE  /\ in'[m].at = "out" => in'[m] = Outside
                        /\ in'[m].at # "out" =>
                              /\ in'[m].handler \in Handlers /\ LoopOf[in'[m].handler] = m
                              /\ in'[m].host \in Hosts
                              /\ in'[m].query \in 1..calls' /\ thread_'
                              /\ \A k \in Loops : in'[k].query = in'[m].query => k = m
                        /\ in'[m].at = "lock" => in'[m].query \notin live'
                        /\ in'[m].at \in {"put", "map"} =>
                              /\ in'[m].query \in live'
                              /\ query'[in'[m].query].handler = in'[m].handler
                        /\ mutex_' = m <=> in'[m].at \in {"put", "map"}
      BY DEF InResolve
    <2>1. \A k \in Loops : in'[k].query = in[k].query
      BY <1>7 DEF q
    <2>2. CASE m = l
      BY <1>1, <1>3, <1>4, <1>5, <1>6, <1>7, <2>1, <2>2 DEF InResolve, q
    <2>3. CASE m # l
      <3>1. in'[m] = in[m] /\ in[m].at \notin {"put", "map"}
        BY <1>1, <1>3, <1>7, <2>3, DnsAssumption DEF InResolve
      <3>2. in[m].at # "out" => in[m].query # q
        BY <1>1, <2>3 DEF InResolve, q
      <3> QED
        BY <1>1, <1>3, <2>1, <2>3, <3>1, <3>2 DEF InResolve
    <2> QED
      BY <2>2, <2>3
  <1>11. Handed'
    <2>1. ~InQueue(q) /\ ~(Working /\ cur = q)
      <3>1. q # 0
        BY <1>1, <1>4 DEF TypeOK
      <3> QED
        BY <1>1, <1>4, <3>1 DEF Handed, InQueue
    <2>2. \A m \in Loops : in[m].at # "put"
      BY <1>1, <1>3, DnsAssumption DEF InResolve
    <2>3. \A m \in Loops : in'[m].at = "put" => m = l
      BY <1>7, <2>2
    <2>4. /\ live' \subseteq 1..calls'
          /\ \A i \in DOMAIN query_queue_ :
                /\ query_queue_[i] \in live' \cup {0}
                /\ query_queue_[i] = 0 => i = Len(query_queue_) /\ ~thread_
                /\ \A j \in DOMAIN query_queue_ : query_queue_[i] = query_queue_[j] => i = j
          /\ Working => cur \in live' /\ ~InQueue(cur)
      BY <1>1, <1>3, <1>4 DEF Handed
    <2>5. \A p \in live' : \/ InQueue(p)
                           \/ Working /\ cur = p
                           \/ \E m \in Loops : in'[m].at = "put" /\ in'[m].query = p
      BY <1>1, <1>3, <1>7, <2>2 DEF Handed
    <2>6. solver = "stopped" => query_queue_ = <<>> /\ ~thread_
      BY <1>1 DEF Handed
    <2> QED
      BY <1>3, <1>7, <2>1, <2>3, <2>4, <2>5, <2>6 DEF Handed, InQueue, Working
  <1> QED
    BY <1>5, <1>6, <1>8, <1>9, <1>10, <1>11 DEF Places, q


\* The queue has room for one more.
LEMMA QueueAppend ==
    ASSUME TypeOK, ~IsFull, NEW e \in 0..MaxCalls, query_queue_' = Append(query_queue_, e)
    PROVE  /\ query_queue_' \in Seq(0..MaxCalls) /\ Len(query_queue_') <= kQueryQueueMaxSize
           /\ Len(query_queue_) \in Nat /\ Len(query_queue_') = Len(query_queue_) + 1
           /\ DOMAIN query_queue_ = 1..Len(query_queue_) /\ DOMAIN query_queue_' = 1..Len(query_queue_')
           /\ \A i \in DOMAIN query_queue_ : query_queue_'[i] = query_queue_[i]
           /\ query_queue_'[Len(query_queue_')] = e
           /\ \A q : InQueue(q)' <=> InQueue(q) \/ q = e
  <1> DEFINE s == query_queue_
             t == query_queue_'
  <1>1. s \in Seq(0..MaxCalls) /\ ~(Len(s) >= kQueryQueueMaxSize)
    BY DEF TypeOK, IsFull
  <1>2. /\ t \in Seq(0..MaxCalls) /\ Len(s) \in Nat /\ Len(t) = Len(s) + 1
        /\ DOMAIN s = 1..Len(s) /\ DOMAIN t = 1..(Len(s) + 1)
        /\ \A i \in DOMAIN s : i \in DOMAIN t /\ t[i] = s[i]
        /\ t[Len(s) + 1] = e
    BY <1>1, AppendAt
  <1> HIDE DEF s, t
  <1>3. Len(t) <= kQueryQueueMaxSize /\ Len(s) + 1 \in DOMAIN t
        /\ \A i \in DOMAIN t : i \in DOMAIN s \/ i = Len(s) + 1
    BY <1>1, <1>2, DnsAssumption
  <1>4. \A q : (\E i \in DOMAIN t : t[i] = q) <=> ((\E i \in DOMAIN s : s[i] = q) \/ q = e)
    BY <1>2, <1>3
  <1> QED
    BY <1>2, <1>3, <1>4 DEF s, t, InQueue

\* The first of the queue is taken; it was there once.
LEMMA QueueTail ==
    ASSUME TypeOK, Handed, query_queue_ # <<>>, query_queue_' = Tail(query_queue_),
           NEW h, h = Head(query_queue_)
    PROVE  /\ query_queue_' \in Seq(0..MaxCalls) /\ Len(query_queue_') <= kQueryQueueMaxSize
           /\ Len(query_queue_) \in Nat /\ Len(query_queue_') = Len(query_queue_) - 1
           /\ h \in 0..MaxCalls /\ InQueue(h)
           /\ h \in live \cup {0}
           /\ ~InQueue(h)'
           /\ \A q : q # h => (InQueue(q)' <=> InQueue(q))
           /\ h = 0 => ~thread_ /\ Len(query_queue_) = 1 /\ query_queue_' = <<>>
           /\ \A i \in DOMAIN query_queue_' : i + 1 \in DOMAIN query_queue_
                                              /\ query_queue_'[i] = query_queue_[i + 1]
  <1> DEFINE s == query_queue_
             t == query_queue_'
  <1>1. s \in Seq(0..MaxCalls) /\ s # <<>> /\ Len(s) <= kQueryQueueMaxSize
    BY DEF TypeOK
  <1>2. /\ t \in Seq(0..MaxCalls) /\ Len(s) \in Nat \ {0} /\ Len(t) = Len(s) - 1
        /\ DOMAIN s = 1..Len(s) /\ DOMAIN t = 1..(Len(s) - 1)
        /\ \A i \in DOMAIN t : i + 1 \in DOMAIN s /\ t[i] = s[i + 1]
        /\ \A i \in DOMAIN s : i # 1 => i - 1 \in DOMAIN t /\ s[i] = t[i - 1]
        /\ 1 \in DOMAIN s /\ Head(s) = s[1] /\ s[1] \in 0..MaxCalls
    <2> HIDE DEF s
    <2> DEFINE S == 0..MaxCalls
    <2>1. t = Tail(s) /\ s \in Seq(S)
      BY <1>1 DEF s
    <2> HIDE DEF t, S
    <2>2. /\ t \in Seq(S) /\ Len(s) \in Nat \ {0} /\ Len(t) = Len(s) - 1
          /\ DOMAIN s = 1..Len(s) /\ DOMAIN t = 1..(Len(s) - 1)
          /\ \A i \in DOMAIN t : i + 1 \in DOMAIN s /\ t[i] = s[i + 1]
          /\ \A i \in DOMAIN s : i # 1 => i - 1 \in DOMAIN t /\ s[i] = t[i - 1]
          /\ 1 \in DOMAIN s /\ Head(s) = s[1] /\ s[1] \in S
      BY <1>1, <2>1, TailAt
    <2> QED
      BY <2>2 DEF S
  <1>3. /\ \A i, j \in DOMAIN s : s[i] = s[j] => i = j
        /\ \A i \in DOMAIN s : s[i] \in live \cup {0} /\ (s[i] = 0 => i = Len(s) /\ ~thread_)
    BY DEF Handed
  <1> HIDE DEF s, t
  <1>4. Len(t) <= kQueryQueueMaxSize
    BY <1>1, <1>2, DnsAssumption
  <1>5. ~ \E i \in DOMAIN t : t[i] = s[1]
    <2> SUFFICES ASSUME NEW i \in DOMAIN t, t[i] = s[1] PROVE FALSE
      OBVIOUS
    <2>1. i + 1 \in DOMAIN s /\ s[i + 1] = s[1] /\ i \in Nat /\ i > 0
      BY <1>2
    <2>2. i + 1 = 1
      BY <1>2, <1>3, <2>1
    <2> QED
      BY <2>1, <2>2
  <1>6. ASSUME NEW q, q # s[1] PROVE (\E i \in DOMAIN t : t[i] = q) <=> (\E i \in DOMAIN s : s[i] = q)
    <2>1. ASSUME NEW i \in DOMAIN s, s[i] = q PROVE \E j \in DOMAIN t : t[j] = q
      <3>1. i # 1
        BY <1>6, <2>1
      <3> QED
        BY <1>2, <2>1, <3>1
    <2> QED
      BY <1>2, <2>1
  <1>7. s[1] = 0 => ~thread_ /\ Len(s) = 1 /\ t = <<>>
    <2> SUFFICES ASSUME s[1] = 0 PROVE ~thread_ /\ Len(s) = 1 /\ t = <<>>
      OBVIOUS
    <2>1. ~thread_ /\ Len(s) = 1
      BY <1>2, <1>3
    <2>2. Len(t) = 0
      BY <1>2, <2>1
    <2> QED
      BY <1>2, <2>1, <2>2, EmptySeq
  <1>8. h = s[1]
    BY <1>2 DEF s
  <1>9. ~InQueue(h)' /\ InQueue(h) /\ \A q : q # h => (InQueue(q)' <=> InQueue(q))
    BY <1>2, <1>5, <1>6, <1>8 DEF s, t, InQueue
  <1> QED
    BY <1>2, <1>3, <1>4, <1>7, <1>8, <1>9 DEF s, t

\* The query is put at the end of the queue.
LEMMA PutQueryPlaces ==
    ASSUME Places, NEW l \in Loops, PutQuery(l)
    PROVE  Places'
  <1> DEFINE q == in[l].query
  <1>1. TypeOK /\ HasHost /\ InResolve /\ Handed
    BY DEF Places
  <1>2. /\ in[l].at = "put" /\ ~IsFull /\ query_queue_' = Append(query_queue_, q)
        /\ in' = [in EXCEPT ![l].at = "map"]
        /\ UNCHANGED <<corrupted, query_map_, query, live, cache_, mutex_, solver, cur, thread_, calls, asked, to_run>>
    BY DEF PutQuery, solverVars
  <1>3. q \in live /\ q \in 0..MaxCalls /\ q # 0 /\ thread_
    BY <1>1, <1>2 DEF InResolve, TypeOK, Queries
  <1>4. /\ in' \in [Loops -> InResolveRecord]
        /\ in'[l].at = "map" /\ in'[l].handler = in[l].handler /\ in'[l].query = q
        /\ in'[l].host = in[l].host
        /\ \A m \in Loops : m # l => in'[m] = in[m]
    BY <1>1, <1>2, GoOnEffect
  <1> HIDE DEF q
  <1>5. /\ query_queue_' \in Seq(0..MaxCalls) /\ Len(query_queue_') <= kQueryQueueMaxSize
        /\ Len(query_queue_) \in Nat /\ Len(query_queue_') = Len(query_queue_) + 1
        /\ DOMAIN query_queue_ = 1..Len(query_queue_) /\ DOMAIN query_queue_' = 1..Len(query_queue_')
        /\ \A i \in DOMAIN query_queue_ : query_queue_'[i] = query_queue_[i]
        /\ query_queue_'[Len(query_queue_')] = q
        /\ \A p : InQueue(p)' <=> InQueue(p) \/ p = q
    BY <1>1, <1>2, <1>3, QueueAppend
  <1>6. TypeOK'
    BY <1>1, <1>2, <1>4, <1>5 DEF TypeOK, InResolveRecord
  <1>7. HasHost'
    BY <1>1, <1>2 DEF HasHost
  <1>8. InResolve'
    BY <1>1, <1>2, <1>4 DEF InResolve, q
  <1>9. Handed'
    <2>1. ~InQueue(q) /\ ~(Working /\ cur = q)
      BY <1>1, <1>2 DEF Handed, q
    <2>2. ASSUME NEW i \in DOMAIN query_queue_'
          PROVE  /\ query_queue_'[i] \in live \cup {0}
                 /\ query_queue_'[i] = 0 => i = Len(query_queue_') /\ ~thread_
                 /\ \A j \in DOMAIN query_queue_' : query_queue_'[i] = query_queue_'[j] => i = j
      <3>1. \A j \in DOMAIN query_queue_' :
               j = Len(query_queue_') \/ (j \in DOMAIN query_queue_ /\ query_queue_'[j] = query_queue_[j])
        BY <1>5
      <3>2. \A j \in DOMAIN query_queue_ : query_queue_[j] # q /\ query_queue_[j] # 0
        BY <1>1, <1>3, <2>1 DEF Handed, InQueue
      <3>3. \A j, k \in DOMAIN query_queue_ : query_queue_[j] = query_queue_[k] => j = k
        BY <1>1 DEF Handed
      <3>4. \A j \in DOMAIN query_queue_ : query_queue_[j] \in live \cup {0}
        BY <1>1 DEF Handed
      <3> QED
        BY <1>3, <1>5, <3>1, <3>2, <3>3, <3>4
    <2>3. Working => cur \in live /\ ~InQueue(cur)'
      BY <1>1, <1>2, <1>5, <2>1 DEF Handed
    <2>4. \A m \in Loops : in'[m].at # "put"
      BY <1>1, <1>2, <1>4 DEF InResolve
    <2>5. \A p \in live : InQueue(p)' \/ (Working /\ cur = p)
      <3>1. \A m \in Loops : in[m].at = "put" => m = l
        BY <1>1, <1>2 DEF InResolve
      <3> QED
        BY <1>1, <1>5, <3>1 DEF Handed, q
    <2>6. solver # "stopped"
      BY <1>1, <1>3 DEF Handed
    <2> QED
      BY <1>1, <1>2, <2>2, <2>3, <2>4, <2>5, <2>6 DEF Handed, Working
  <1> QED
    BY <1>6, <1>7, <1>8, <1>9 DEF Places

\* The exit signal goes behind everything.
LEMMA StopPlaces ==
    ASSUME Places, Stop
    PROVE  Places'
  <1>1. TypeOK /\ HasHost /\ InResolve /\ Handed
    BY DEF Places
  <1>2. /\ thread_ /\ ~IsFull /\ query_queue_' = Append(query_queue_, 0) /\ thread_' = FALSE
        /\ \A l \in Loops : in[l].at = "out"
        /\ UNCHANGED <<corrupted, query_map_, query, live, cache_, mutex_, solver, cur, calls, in, asked, to_run>>
    BY OutsideType DEF Stop, Idle, solverVars, clientVars
  <1>3. 0 \in 0..MaxCalls /\ \A q \in live : q # 0
    BY <1>1, DnsAssumption DEF TypeOK, Queries
  <1>4. /\ query_queue_' \in Seq(0..MaxCalls) /\ Len(query_queue_') <= kQueryQueueMaxSize
        /\ Len(query_queue_) \in Nat /\ Len(query_queue_') = Len(query_queue_) + 1
        /\ DOMAIN query_queue_ = 1..Len(query_queue_) /\ DOMAIN query_queue_' = 1..Len(query_queue_')
        /\ \A i \in DOMAIN query_queue_ : query_queue_'[i] = query_queue_[i]
        /\ query_queue_'[Len(query_queue_')] = 0
        /\ \A p : InQueue(p)' <=> InQueue(p) \/ p = 0
    BY <1>1, <1>2, <1>3, QueueAppend
  <1>5. TypeOK'
    BY <1>1, <1>2, <1>4 DEF TypeOK
  <1>6. HasHost'
    BY <1>1, <1>2 DEF HasHost
  <1>7. InResolve'
    BY <1>1, <1>2 DEF InResolve
  <1>8. Handed'
    <2>1. ASSUME NEW i \in DOMAIN query_queue_'
          PROVE  /\ query_queue_'[i] \in live \cup {0}
                 /\ query_queue_'[i] = 0 => i = Len(query_queue_')
                 /\ \A j \in DOMAIN query_queue_' : query_queue_'[i] = query_queue_'[j] => i = j
      <3>1. \A j \in DOMAIN query_queue_' :
               j = Len(query_queue_') \/ (j \in DOMAIN query_queue_ /\ query_queue_'[j] = query_queue_[j])
        BY <1>4
      <3>2. \A j \in DOMAIN query_queue_ : query_queue_[j] # 0
        BY <1>1, <1>2 DEF Handed
      <3>3. \A j, k \in DOMAIN query_queue_ : query_queue_[j] = query_queue_[k] => j = k
        BY <1>1 DEF Handed
      <3>4. \A j \in DOMAIN query_queue_ : query_queue_[j] \in live \cup {0}
        BY <1>1 DEF Handed
      <3> QED
        BY <1>4, <3>1, <3>2, <3>3, <3>4
    <2>2. Working => cur \in live /\ ~InQueue(cur)'
      BY <1>1, <1>2, <1>3, <1>4 DEF Handed
    <2>3. \A p \in live : InQueue(p)' \/ (Working /\ cur = p)
      BY <1>1, <1>2, <1>4 DEF Handed
    <2>4. solver # "stopped"
      BY <1>1, <1>2 DEF Handed
    <2> QED
      BY <1>1, <1>2, <2>1, <2>2, <2>3, <2>4 DEF Handed, Working
  <1> QED
    BY <1>5, <1>6, <1>7, <1>8 DEF Places


\* Cancel marks the handler's own query, if it is alive.  Through a stale entry it
\* marks any query or none.
Marks(m) ==
    \A r \in Queries : /\ query'[r].host = query[r].host
                       /\ IF r = m THEN query'[r].handler = None ELSE query'[r] = query[r]

LEMMA CancelEffect ==
    ASSUME Places, NEW h \in Handlers, Cancel(h)
    PROVE  /\ mutex_ = None /\ in[LoopOf[h]] = Outside /\ asked' = [asked EXCEPT ![h] = FALSE]
           /\ UNCHANGED <<query_queue_, query_map_, live, cache_, mutex_, solver, cur, thread_,
                          calls, in, to_run>>
           /\ query' \in [Queries -> QueryRecord]
           /\ \E m \in live \cup {0} :
                 /\ Marks(m)
                 /\ \/ UNCHANGED corrupted /\ h \notin DOMAIN query_map_ /\ m = 0
                    \/ UNCHANGED corrupted /\ h \in DOMAIN query_map_ /\ m = query_map_[h]
                    \/ corrupted' = TRUE /\ StaleEntry(h)
  <1>1. TypeOK
    BY DEF Places
  <1>2. query \in [Queries -> QueryRecord] /\ live \subseteq Queries /\ 0 \notin Queries
    BY <1>1, DnsAssumption DEF TypeOK, QueryRecord, Queries
  <1>3. /\ mutex_ = None /\ in[LoopOf[h]] = Outside /\ asked' = [asked EXCEPT ![h] = FALSE]
        /\ UNCHANGED <<query_queue_, query_map_, live, cache_, mutex_, solver, cur, thread_,
                       calls, in, to_run>>
    BY DEF Cancel, Idle, solverVars
  <1>4. UNCHANGED query => query' \in [Queries -> QueryRecord] /\ Marks(0)
    BY <1>2 DEF Marks
  <1>5. ASSUME NEW m \in live, query' = [query EXCEPT ![m].handler = None]
        PROVE  query' \in [Queries -> QueryRecord] /\ Marks(m)
    <2>1. m \in Queries
      BY <1>2
    <2> QED
      BY <1>2, <1>5, <2>1 DEF Marks, QueryRecord
  <1>6. CASE h \notin DOMAIN query_map_
    BY <1>3, <1>4, <1>6 DEF Cancel, StaleEntry
  <1>7. CASE h \in DOMAIN query_map_ /\ ~StaleEntry(h)
    <2>1. query_map_[h] \in live /\ query' = [query EXCEPT ![query_map_[h]].handler = None]
          /\ UNCHANGED corrupted
      BY <1>7 DEF Cancel, StaleEntry
    <2> QED
      BY <1>3, <1>5, <1>7, <2>1
  <1>8. CASE StaleEntry(h)
    <2>1. corrupted' = TRUE
      BY <1>8 DEF Cancel, StaleEntry
    <2>2. CASE UNCHANGED query
      BY <1>3, <1>4, <1>8, <2>1, <2>2
    <2>3. ASSUME NEW m \in live, query' = [query EXCEPT ![m].handler = None]
          PROVE  /\ query' \in [Queries -> QueryRecord]
                 /\ \E k \in live \cup {0} : Marks(k) /\ corrupted' = TRUE /\ StaleEntry(h)
      BY <1>5, <1>8, <2>1, <2>3
    <2> QED
      BY <1>3, <1>8, <2>2, <2>3 DEF Cancel, StaleEntry
  <1> QED
    BY <1>6, <1>7, <1>8 DEF StaleEntry

\* Cancel leaves the queries where they are.
LEMMA CancelPlaces ==
    ASSUME Places, NEW h \in Handlers, Cancel(h)
    PROVE  Places'
  <1>1. TypeOK /\ HasHost /\ InResolve /\ Handed
    BY DEF Places
  <1>2. /\ mutex_ = None /\ asked' = [asked EXCEPT ![h] = FALSE]
        /\ UNCHANGED <<query_queue_, query_map_, live, cache_, mutex_, solver, cur, thread_,
                       calls, in, to_run>>
        /\ query' \in [Queries -> QueryRecord]
        /\ \A r \in Queries : query'[r].host = query[r].host
        /\ corrupted' \in {corrupted, TRUE}
    BY CancelEffect DEF Marks
  <1>3. asked' \in [Handlers -> BOOLEAN] /\ corrupted' \in BOOLEAN
    BY <1>1, <1>2 DEF TypeOK
  <1>4. TypeOK'
    BY <1>1, <1>2, <1>3 DEF TypeOK, QueryRecord
  <1>5. HasHost'
    BY <1>1, <1>2 DEF HasHost, TypeOK
  <1>6. InResolve'
    <2>1. \A l \in Loops : in[l].at \notin {"put", "map"}
      BY <1>1, <1>2, DnsAssumption DEF InResolve
    <2> QED
      BY <1>1, <1>2, <2>1 DEF InResolve
  <1>7. Handed'
    BY <1>1, <1>2 DEF Handed, InQueue, Working
  <1> QED
    BY <1>4, <1>5, <1>6, <1>7 DEF Places

\* What leaves the queries alone.
LEMMA OtherPlaces ==
    ASSUME Places, UNCHANGED <<corrupted, query_queue_, query_map_, query, live, calls, mutex_, in, cur, thread_>>,
           cache_' \subseteq Hosts, to_run' \in [Loops -> Seq(Handlers)],
           asked' \in [Handlers -> BOOLEAN],
           \/ UNCHANGED solver
           \/ solver \in {"check", "resolve"} /\ solver' \in {"resolve", "deliver"}
    PROVE  Places'
  <1>1. TypeOK /\ HasHost /\ InResolve /\ Handed
    BY DEF Places
  <1>2. TypeOK'
    BY <1>1 DEF TypeOK
  <1>3. HasHost' /\ InResolve'
    BY <1>1 DEF HasHost, InResolve
  <1>4. (Working' <=> Working) /\ (solver' = "stopped" <=> solver = "stopped")
    BY DEF Working
  <1>5. Handed'
    BY <1>1, <1>4 DEF Handed, InQueue
  <1> QED
    BY <1>2, <1>3, <1>5 DEF Places

\* The solver takes a query, or the exit signal, behind which there is nothing.
LEMMA SolverGetPlaces ==
    ASSUME Places, SolverGet
    PROVE  Places'
  <1> DEFINE h == Head(query_queue_)
  <1>1. TypeOK /\ HasHost /\ InResolve /\ Handed
    BY DEF Places
  <1>2. /\ solver = "get" /\ query_queue_ # <<>> /\ cur' = h /\ query_queue_' = Tail(query_queue_)
        /\ solver' = IF h = 0 THEN "stopped" ELSE "check"
        /\ UNCHANGED <<corrupted, query_map_, query, live, cache_, mutex_, calls, in, asked, thread_, to_run>>
    BY DEF SolverGet, clientVars
  <1>3. /\ query_queue_' \in Seq(0..MaxCalls) /\ Len(query_queue_') <= kQueryQueueMaxSize
        /\ Len(query_queue_) \in Nat /\ Len(query_queue_') = Len(query_queue_) - 1
        /\ h \in 0..MaxCalls /\ InQueue(h) /\ h \in live \cup {0}
        /\ \A q : q # h => (InQueue(q)' <=> InQueue(q))
        /\ h = 0 => ~thread_ /\ Len(query_queue_) = 1 /\ query_queue_' = <<>>
        /\ \A i \in DOMAIN query_queue_' : i + 1 \in DOMAIN query_queue_
                                           /\ query_queue_'[i] = query_queue_[i + 1]
    BY <1>1, <1>2, QueueTail
  <1>4. ~InQueue(cur)'
    <2>1. ASSUME NEW g, g = Head(query_queue_) PROVE ~InQueue(g)'
      BY <1>1, <1>2, <2>1, QueueTail
    <2> QED
      BY <1>2, <2>1 DEF InQueue
  <1> HIDE DEF h
  <1>5. TypeOK'
    BY <1>1, <1>2, <1>3 DEF TypeOK
  <1>6. HasHost' /\ InResolve'
    BY <1>1, <1>2 DEF HasHost, InResolve
  <1>7. Handed'
    <2>1. ASSUME NEW i \in DOMAIN query_queue_'
          PROVE  /\ query_queue_'[i] \in live \cup {0}
                 /\ query_queue_'[i] = 0 => i = Len(query_queue_') /\ ~thread_
                 /\ \A j \in DOMAIN query_queue_' : query_queue_'[i] = query_queue_'[j] => i = j
      <3>1. /\ i + 1 \in DOMAIN query_queue_ /\ query_queue_'[i] = query_queue_[i + 1] /\ i \in Nat
            /\ \A j \in DOMAIN query_queue_' : j \in Nat
        BY <1>3, LenProperties
      <3>2. query_queue_[i + 1] \in live \cup {0}
        BY <1>1, <3>1 DEF Handed
      <3>3. query_queue_[i + 1] = 0 => i + 1 = Len(query_queue_) /\ ~thread_
        BY <1>1, <3>1 DEF Handed
      <3>4. ASSUME NEW j \in DOMAIN query_queue_', query_queue_'[i] = query_queue_'[j] PROVE i = j
        <4>1. j + 1 \in DOMAIN query_queue_ /\ query_queue_[i + 1] = query_queue_[j + 1]
          BY <1>3, <3>1, <3>4
        <4>2. i + 1 = j + 1
          BY <1>1, <3>1, <4>1 DEF Handed
        <4> QED
          BY <3>1, <4>2
      <3> QED
        BY <1>3, <3>1, <3>2, <3>3, <3>4
    <2>2. Working' => cur' \in live' /\ ~InQueue(cur)'
      BY <1>2, <1>3, <1>4 DEF Working
    <2>3. \A l \in Loops : in[l].at = "put" => in[l].query # h /\ ~InQueue(in[l].query)'
      BY <1>1, <1>2, <1>3 DEF Handed
    <2>4. \A q \in live : \/ InQueue(q)'
                          \/ Working' /\ cur' = q
                          \/ \E l \in Loops : in[l].at = "put" /\ in[l].query = q
      <3>1. \A q \in live : \/ InQueue(q)
                            \/ \E l \in Loops : in[l].at = "put" /\ in[l].query = q
        BY <1>1, <1>2 DEF Handed, Working
      <3>2. \A q \in live : q = h => Working' /\ cur' = q
        <4>1. \A q \in live : q # 0
          BY <1>1 DEF TypeOK, Queries
        <4> QED
          BY <1>2, <4>1 DEF Working
      <3> QED
        BY <1>3, <3>1, <3>2
    <2>5. solver' = "stopped" => query_queue_' = <<>> /\ ~thread_
      BY <1>2, <1>3
    <2>6. live' \subseteq 1..calls'
      BY <1>1, <1>2 DEF Handed
    <2> QED
      BY <1>2, <2>1, <2>2, <2>3, <2>4, <2>5, <2>6 DEF Handed
  <1> QED
    BY <1>5, <1>6, <1>7 DEF Places

\* The solver deletes the query it works on.
LEMMA DeletePlaces ==
    ASSUME Places, Working, live' = live \ {cur}, solver' = "get",
           \A l \in Loops : in[l].at \in {"put", "map"} => in[l].query # cur,
           UNCHANGED <<corrupted, query_queue_, query, calls, mutex_, in, cur, thread_, asked>>,
           cache_' \subseteq Hosts, to_run' \in [Loops -> Seq(Handlers)],
           DOMAIN query_map_' \subseteq Handlers,
           \A h \in DOMAIN query_map_' : query_map_'[h] \in Queries
    PROVE  Places'
  <1>1. TypeOK /\ HasHost /\ InResolve /\ Handed
    BY DEF Places
  <1>2. TypeOK'
    BY <1>1 DEF TypeOK
  <1>3. HasHost' /\ InResolve'
    BY <1>1 DEF HasHost, InResolve
  <1>4. Handed'
    <2>1. ~Working'
      BY DEF Working
    <2>2. cur \in live /\ ~InQueue(cur)
      BY <1>1 DEF Handed
    <2>3. \A i \in DOMAIN query_queue_ :
             /\ query_queue_[i] \in live' \cup {0}
             /\ query_queue_[i] = 0 => i = Len(query_queue_) /\ ~thread_
             /\ \A j \in DOMAIN query_queue_ : query_queue_[i] = query_queue_[j] => i = j
      BY <1>1, <2>2 DEF Handed, InQueue
    <2>4. \A q \in live' : InQueue(q) \/ \E l \in Loops : in[l].at = "put" /\ in[l].query = q
      BY <1>1 DEF Handed
    <2>5. \A l \in Loops : in[l].at = "put" => ~InQueue(in[l].query)
      BY <1>1 DEF Handed
    <2>6. live' \subseteq 1..calls
      BY <1>1 DEF Handed
    <2> QED
      BY <2>1, <2>3, <2>4, <2>5, <2>6 DEF Handed, InQueue
  <1> QED
    BY <1>2, <1>3, <1>4 DEF Places

\* The steps of the solver with the query it took.
LEMMA SolverPlaces ==
    ASSUME Places, SolverCheck \/ Resolved \/ \E found \in BOOLEAN : SolverDeliver(found)
    PROVE  Places'
  <1>1. TypeOK /\ InResolve /\ Handed
    BY DEF Places
  <1>2. cur \in live /\ cur \in Queries /\ query[cur] \in QueryRecord /\ Working
    BY <1>1 DEF Handed, TypeOK, QueryRecord, Working, SolverCheck, Resolved, SolverDeliver
  <1>3. CASE SolverCheck
    <2>1. /\ UNCHANGED <<corrupted, query_queue_, query_map_, query, calls, cache_, mutex_, in, cur, thread_,
                         to_run, asked>>
          /\ solver = "check"
          /\ IF query[cur].handler = None
               THEN live' = live \ {cur} /\ solver' = "get"
               ELSE solver' = "resolve" /\ UNCHANGED live
      BY <1>3 DEF SolverCheck, clientVars
    <2>2. CASE query[cur].handler = None
      <3>1. \A l \in Loops : in[l].at \in {"put", "map"} => in[l].query # cur
        BY <1>1, <2>2, DnsAssumption DEF InResolve
      <3> QED
        BY <1>1, <1>2, <2>1, <2>2, <3>1, DeletePlaces DEF TypeOK
    <2>3. CASE query[cur].handler # None
      BY <1>1, <2>1, <2>3, OtherPlaces DEF TypeOK
    <2> QED
      BY <2>2, <2>3
  <1>4. CASE Resolved
    BY <1>1, <1>4, OtherPlaces DEF TypeOK, Resolved, dataVars, clientVars
  <1>5. ASSUME NEW found \in BOOLEAN, SolverDeliver(found) PROVE Places'
    <2>1. /\ mutex_ = None /\ live' = live \ {cur} /\ solver' = "get"
          /\ UNCHANGED <<corrupted, query_queue_, query, calls, mutex_, in, cur, thread_, asked>>
      BY <1>5 DEF SolverDeliver, clientVars
    <2>2. cache_' \subseteq Hosts
      <3>1. query[cur].host \in Hosts
        BY <1>2 DEF Places, HasHost
      <3> QED
        BY <1>1, <1>5, <3>1 DEF SolverDeliver, TypeOK
    <2>3. /\ to_run' \in [Loops -> Seq(Handlers)] /\ DOMAIN query_map_' \subseteq Handlers
          /\ \A h \in DOMAIN query_map_' : query_map_'[h] \in Queries
      <3>1. CASE query[cur].handler = None
        BY <1>1, <1>5, <3>1 DEF SolverDeliver, TypeOK
      <3>2. CASE query[cur].handler # None
        <4>1. query[cur].handler \in Handlers
          BY <1>2, <3>2 DEF QueryRecord
        <4>2. /\ query_map_' = [h \in DOMAIN query_map_ \ {query[cur].handler} |-> query_map_[h]]
              /\ Return(query[cur].handler)
          BY <1>5, <3>2 DEF SolverDeliver
        <4>3. to_run' \in [Loops -> Seq(Handlers)]
          BY <1>1, <4>1, <4>2, ReturnEffect
        <4> QED
          BY <1>1, <4>2, <4>3 DEF TypeOK
      <3> QED
        BY <3>1, <3>2
    <2>4. \A l \in Loops : in[l].at \in {"put", "map"} => in[l].query # cur
      BY <1>1, <2>1, DnsAssumption DEF InResolve
    <2> QED
      BY <1>2, <2>1, <2>2, <2>3, <2>4, DeletePlaces
  <1> QED
    BY <1>3, <1>4, <1>5


\* Every step keeps each query in its place.
LEMMA NextPlaces ==
    ASSUME Places, [Next]_vars
    PROVE  Places'
  <1>1. TypeOK
    BY DEF Places
  <1>2. ASSUME NEW h \in Handlers, NEW host \in Hosts, Resolve(h, host) PROVE Places'
    BY <1>2, ResolvePlaces
  <1>3. ASSUME NEW h \in Handlers, Cancel(h) PROVE Places'
    BY <1>3, CancelPlaces
  <1>4. ASSUME NEW l \in Loops, LoopStep(l) PROVE Places'
    <2>1. CASE CacheHit(l) \/ MapQuery(l)
      BY <2>1, ReturnsPlaces
    <2>2. CASE CacheMiss(l)
      BY <2>2, CacheMissPlaces
    <2>3. CASE PutQuery(l)
      BY <2>3, PutQueryPlaces
    <2>4. CASE RunAnswer(l)
      <3>1. Tail(to_run[l]) \in Seq(Handlers) /\ Head(to_run[l]) \in Handlers
        <4>1. to_run[l] \in Seq(Handlers) /\ to_run[l] # <<>>
          BY <1>1, <2>4 DEF TypeOK, RunAnswer
        <4> QED
          BY <4>1, HeadTailProperties
      <3>2. to_run' \in [Loops -> Seq(Handlers)] /\ asked' \in [Handlers -> BOOLEAN]
        BY <1>1, <2>4, <3>1 DEF TypeOK, RunAnswer
      <3> QED
        BY <1>1, <2>4, <3>2, OtherPlaces DEF TypeOK, RunAnswer, dataVars, solverVars
    <2> QED
      BY <1>4, <2>1, <2>2, <2>3, <2>4 DEF LoopStep
  <1>5. CASE SolverStep
    BY <1>5, SolverGetPlaces, SolverPlaces DEF SolverStep
  <1>6. ASSUME NEW host \in Hosts, Expire(host) PROVE Places'
    BY <1>1, <1>6, OtherPlaces DEF TypeOK, Expire, solverVars, clientVars
  <1>7. CASE Stop
    BY <1>7, StopPlaces
  <1>8. CASE UNCHANGED vars
    BY <1>1, <1>8, OtherPlaces DEF TypeOK, vars, dataVars, solverVars, clientVars
  <1> QED
    BY <1>2, <1>3, <1>4, <1>5, <1>6, <1>7, <1>8 DEF Next

\* What query_map_ says stays true.
LEMMA NextMapped ==
    ASSUME Places, Mapped, [Next]_vars
    PROVE  Mapped'
  <1>1. TypeOK /\ InResolve /\ Handed /\ calls \in Nat
    BY DEF Places, TypeOK
  <1>2. ASSUME NEW h \in Handlers, NEW host \in Hosts, Resolve(h, host) PROVE Mapped'
    <2> DEFINE l == LoopOf[h]
    <2>1. calls' = calls + 1 /\ UNCHANGED <<corrupted, query_map_, query, live>> /\ l \in Loops
      BY <1>2, DnsAssumption DEF Resolve, dataVars
    <2>2. \A m \in Loops : in'[m].at = "lock" =>
             in'[m].query = calls + 1 \/ (in[m].at = "lock" /\ in'[m].query = in[m].query)
      <3> DEFINE r == [at |-> "lock", handler |-> h, host |-> host, query |-> calls + 1]
      <3>1. UNCHANGED in \/ in' = [in EXCEPT ![l] = r]
        BY <1>2 DEF Resolve
      <3>2. r.query = calls + 1
        OBVIOUS
      <3> HIDE DEF r, l
      <3> QED
        BY <1>1, <2>1, <3>1, <3>2 DEF TypeOK
    <2>3. \A g \in DOMAIN query_map_ : query_map_[g] \in 1..(calls + 1) /\ query_map_[g] # calls + 1
      BY <1>1 DEF Mapped
    <2> QED
      BY <2>1, <2>2, <2>3 DEF Mapped
  <1>3. ASSUME NEW h \in Handlers, Cancel(h) PROVE Mapped'
    <2>1. /\ UNCHANGED <<query_map_, live, calls, in>>
          /\ \A r \in Queries : query'[r].handler = None \/ query'[r] = query[r]
      BY <1>3, CancelEffect DEF Marks
    <2>2. live \subseteq Queries /\ \A g \in DOMAIN query_map_ : query_map_[g] \in Queries
      BY <1>1 DEF TypeOK
    <2> QED
      BY <2>1, <2>2 DEF Mapped
  <1>4. ASSUME NEW l \in Loops, CacheHit(l) \/ PutQuery(l) PROVE Mapped'
    <2>1. UNCHANGED <<corrupted, query_map_, query, live, calls>>
      BY <1>4 DEF CacheHit, PutQuery, dataVars
    <2>2. \A m \in Loops : in'[m].at = "lock" => in[m].at = "lock" /\ in'[m].query = in[m].query
      BY <1>1, <1>4, OutsideType DEF CacheHit, PutQuery, TypeOK
    <2> QED
      BY <2>1, <2>2 DEF Mapped
  <1>5. ASSUME NEW l \in Loops, CacheMiss(l) PROVE Mapped'
    <2>1. /\ in[l].at = "lock" /\ live' = live \cup {in[l].query}
          /\ in' = [in EXCEPT ![l].at = "put"] /\ UNCHANGED <<corrupted, query_map_, calls>>
      BY <1>5 DEF CacheMiss
    <2>2. \A r \in Queries : r # in[l].query => query'[r] = query[r]
      BY <1>5, CacheMissPlaces
    <2>3. \A g \in DOMAIN query_map_ : query_map_[g] \in Queries /\ query_map_[g] # in[l].query
      BY <1>1, <2>1 DEF Mapped, TypeOK
    <2>4. \A m \in Loops : in'[m].at = "lock" => in[m].at = "lock" /\ in'[m].query = in[m].query
      BY <1>1, <2>1, GoOnEffect
    <2> QED
      BY <2>1, <2>2, <2>3, <2>4 DEF Mapped
  <1>6. ASSUME NEW l \in Loops, MapQuery(l) PROVE Mapped'
    <2> DEFINE h == in[l].handler
               q == in[l].query
    <2>1. /\ in[l].at = "map" /\ in' = [in EXCEPT ![l] = Outside]
          /\ query_map_' = [g \in DOMAIN query_map_ \cup {h} |-> IF g = h THEN q ELSE query_map_[g]]
          /\ UNCHANGED <<corrupted, query, live, calls>>
      BY <1>6 DEF MapQuery
    <2>2. /\ q \in 1..calls /\ q \in live /\ query[q].handler = h
          /\ \A m \in Loops : in[m].query = q => m = l
      BY <1>1, <2>1 DEF InResolve
    <2>3. \A m \in Loops : in'[m].at = "lock" => m # l /\ in'[m] = in[m]
      BY <1>1, <2>1, OutsideType DEF TypeOK
    <2> HIDE DEF h, q
    <2> QED
      BY <2>1, <2>2, <2>3 DEF Mapped
  <1>7. ASSUME NEW found \in BOOLEAN, SolverDeliver(found) PROVE Mapped'
    <2>1. /\ DOMAIN query_map_' \subseteq DOMAIN query_map_
          /\ \A g \in DOMAIN query_map_' :
                query_map_'[g] = query_map_[g] /\ (query[cur].handler # None => g # query[cur].handler)
          /\ live' = live \ {cur} /\ UNCHANGED <<corrupted, query, calls, in>>
      BY <1>7 DEF SolverDeliver, clientVars
    <2>2. \A g \in DOMAIN query_map_' : query_map_[g] = cur => query[cur].handler = None
      <3>1. cur \in live
        BY <1>1, <1>7 DEF SolverDeliver, Handed, Working
      <3> QED
        BY <2>1, <3>1 DEF Mapped
    <2> QED
      BY <2>1, <2>2 DEF Mapped
  <1>8. CASE \/ SolverGet \/ SolverCheck \/ Resolved \/ Stop \/ UNCHANGED vars
             \/ \E host \in Hosts : Expire(host)
             \/ \E l \in Loops : RunAnswer(l)
    <2>1. UNCHANGED <<corrupted, query_map_, query, calls, in>>
      BY <1>8 DEF SolverGet, SolverCheck, Resolved, Stop, Expire, RunAnswer, vars, dataVars,
                  solverVars, clientVars
    <2>2. \/ UNCHANGED live
          \/ live' = live \ {cur} /\ query[cur].handler = None
      BY <1>8 DEF SolverGet, SolverCheck, Resolved, Stop, Expire, RunAnswer, vars, dataVars,
                  solverVars, clientVars
    <2> QED
      BY <2>1, <2>2 DEF Mapped
  <1> QED
    BY <1>2, <1>3, <1>4, <1>5, <1>6, <1>7, <1>8 DEF Next, LoopStep, SolverStep

-----------------------------------------------------------------------------
(* Who has a query, and who has an answer *)

\* Nobody's query comes or goes; nobody's but that of h.
SamePending == \A g \in Handlers : Pending(g)' <=> Pending(g)
OthersPending(h) == \A g \in Handlers : g # h => (Pending(g)' <=> Pending(g))

\* Nobody has asked.
LEMMA InitAnswers == Init => Answers
  <1> SUFFICES ASSUME Init PROVE Answers
    OBVIOUS
  <1> DEFINE nothing == <<>>
  <1>1. /\ live = {} /\ in = [l \in Loops |-> Outside] /\ to_run = [l \in Loops |-> nothing]
        /\ asked = [h \in Handlers |-> FALSE]
    BY DEF Init
  <1>2. DOMAIN nothing = {}
    OBVIOUS
  <1> HIDE DEF nothing
  <1>3. \A h \in Handlers : ~Pending(h)
    BY <1>1, OutsideType, DnsAssumption DEF Pending
  <1> QED
    BY <1>1, <1>2, <1>3 DEF Answers, OneQuery, Found, Queued, RunByOwn, Asked

\* A handler asks: it is refused at once, or its query begins.
LEMMA ResolveAnswers ==
    ASSUME ~ReusesEarly, Inv, NEW h \in Handlers, NEW host \in Hosts, Resolve(h, host)
    PROVE  /\ Answers' /\ ~Pending(h) /\ OthersPending(h)
           /\ \/ Return(h) /\ ~Pending(h)'
              \/ UNCHANGED to_run /\ Pending(h)'
  <1> DEFINE l == LoopOf[h]
             r == [at |-> "lock", handler |-> h, host |-> host, query |-> calls + 1]
  <1>1. TypeOK /\ InResolve /\ OneQuery /\ Found /\ RunByOwn /\ Asked /\ l \in Loops
    BY DnsAssumption DEF Inv, Places, Answers
  <1>2. /\ in[l] = Outside /\ ~asked[h] /\ Posted(h) = 0 /\ asked' = [asked EXCEPT ![h] = TRUE]
        /\ UNCHANGED <<corrupted, query_map_, query, live, mutex_>>
    BY DEF Resolve, Idle, dataVars
  <1>3. ~Pending(h) /\ ~Posts(h)
    BY <1>1, <1>2, PostedPositive DEF Asked
  <1>4. asked'[h] /\ \A g \in Handlers : g # h => asked'[g] = asked[g]
    BY <1>1, <1>2 DEF TypeOK
  <1>5. CASE Return(h) /\ UNCHANGED in
    <2>1. RunByOwn' /\ Posts(h)' /\ \A g \in Handlers : g # h => (Posts(g)' <=> Posts(g))
      BY <1>1, <1>5, ReturnPosts
    <2>2. SamePending
      BY <1>2, <1>5 DEF SamePending, Pending
    <2>3. OneQuery' /\ Found'
      BY <1>1, <1>2, <1>5 DEF OneQuery, Found, Queued, CancelFinds
    <2>4. Asked'
      BY <1>1, <1>2, <1>3, <1>4, <2>1, <2>2 DEF Asked, SamePending
    <2> QED
      BY <1>3, <1>5, <2>1, <2>2, <2>3, <2>4 DEF Answers, SamePending, OthersPending
  <1>6. CASE in' = [in EXCEPT ![l] = r] /\ UNCHANGED to_run
    <2>1. r.at = "lock" /\ r.handler = h
      OBVIOUS
    <2> HIDE DEF r
    <2>2. in'[l] = r /\ \A m \in Loops : m # l => in'[m] = in[m]
      BY <1>1, <1>6 DEF TypeOK
    <2>3. Pending(h)' /\ OthersPending(h)
      <3>1. Pending(h)'
        BY <1>1, <2>1, <2>2 DEF Pending
      <3>2. ASSUME NEW g \in Handlers, g # h PROVE Pending(g)' <=> Pending(g)
        <4>1. in[l].handler # g /\ in'[l].handler # g
          BY <1>2, <2>1, <2>2, <3>2, OutsideType, DnsAssumption
        <4>2. (\E m \in Loops : in'[m].handler = g) <=> (\E m \in Loops : in[m].handler = g)
          BY <2>2, <4>1
        <4> QED
          BY <1>2, <4>2 DEF Pending
      <3> QED
        BY <3>1, <3>2 DEF OthersPending
    <2>4. OneQuery'
      <3>1. \A q \in live : query[q].handler # h
        BY <1>3 DEF Pending
      <3> QED
        BY <1>1, <1>2, <2>1, <2>2, <3>1 DEF OneQuery
    <2>5. Found'
      <3>1. \A m \in Loops : in[m].at \in {"put", "map"} => in'[m] = in[m]
        BY <1>2, <2>2, OutsideType
      <3>2. \A m \in Loops : in'[m].at \in {"put", "map"} => in'[m] = in[m]
        BY <2>1, <2>2
      <3>3. Queued' = Queued
        BY <1>2, <3>1, <3>2 DEF Queued
      <3> QED
        BY <1>1, <1>2, <3>1, <3>3 DEF Found, CancelFinds
    <2>6. RunByOwn' /\ \A g \in Handlers : Posts(g)' <=> Posts(g)
      BY <1>1, <1>6 DEF RunByOwn, Posts
    <2>7. Asked'
      BY <1>1, <1>2, <1>3, <1>4, <2>3, <2>6 DEF Asked, OthersPending
    <2> QED
      BY <1>3, <1>6, <2>3, <2>4, <2>5, <2>6, <2>7 DEF Answers
  <1> QED
    BY <1>5, <1>6 DEF Resolve

\* A query answered from the cache was the only one of its handler.
LEMMA CacheHitAnswers ==
    ASSUME Inv, NEW l \in Loops, CacheHit(l), NEW h, h = in[l].handler
    PROVE  /\ Answers' /\ h \in Handlers /\ Return(h)
           /\ Pending(h) /\ ~Pending(h)' /\ OthersPending(h)
  <1>1. TypeOK /\ InResolve /\ OneQuery /\ Found /\ RunByOwn /\ Asked
    BY DEF Inv, Places, Answers
  <1>2. /\ in[l].at = "lock" /\ in' = [in EXCEPT ![l] = Outside] /\ Return(h)
        /\ UNCHANGED <<corrupted, query_map_, query, live, mutex_, asked>>
    BY DEF CacheHit, dataVars
  <1>3. /\ h \in Handlers /\ \A m \in Loops : in[m].handler = h => m = l
        /\ \A q \in live : query[q].handler # h
    BY <1>1, <1>2, OutsideType, DnsAssumption DEF InResolve, OneQuery
  <1>4. in'[l] = Outside /\ \A m \in Loops : m # l => in'[m] = in[m]
    BY <1>1, <1>2 DEF TypeOK
  <1>5. Pending(h) /\ ~Pending(h)'
    BY <1>2, <1>3, <1>4, OutsideType, DnsAssumption DEF Pending
  <1>6. OthersPending(h)
    <2> SUFFICES ASSUME NEW g \in Handlers, g # h PROVE Pending(g)' <=> Pending(g)
      BY DEF OthersPending
    <2>1. in[l].handler # g /\ in'[l].handler # g
      BY <1>4, OutsideType, DnsAssumption
    <2>2. (\E m \in Loops : in'[m].handler = g) <=> (\E m \in Loops : in[m].handler = g)
      BY <1>4, <2>1
    <2> QED
      BY <1>2, <2>2 DEF Pending
  <1>7. OneQuery'
    BY <1>1, <1>2, <1>4, OutsideType DEF OneQuery
  <1>8. Found'
    <2>1. \A m \in Loops : in[m].at \in {"put", "map"} => in'[m] = in[m]
      BY <1>2, <1>4
    <2>2. \A m \in Loops : in'[m].at \in {"put", "map"} => in'[m] = in[m]
      BY <1>4, OutsideType
    <2>3. Queued' = Queued
      BY <1>2, <2>1, <2>2 DEF Queued
    <2> QED
      BY <1>1, <1>2, <2>1, <2>3 DEF Found, CancelFinds
  <1>9. RunByOwn' /\ Posts(h)' /\ \A g \in Handlers : g # h => (Posts(g)' <=> Posts(g))
    BY <1>1, <1>2, <1>3, ReturnPosts
  <1>10. Asked'
    BY <1>1, <1>2, <1>5, <1>6, <1>9 DEF Asked, OthersPending
  <1> QED
    BY <1>2, <1>3, <1>5, <1>6, <1>7, <1>8, <1>9, <1>10 DEF Answers


\* Inside Resolve a query goes from the loop to the solver.
LEMMA InsideAnswers ==
    ASSUME Inv, NEW l \in Loops, CacheMiss(l) \/ PutQuery(l) \/ MapQuery(l)
    PROVE  Answers' /\ SamePending /\ UNCHANGED to_run
  <1> DEFINE q == in[l].query
             h == in[l].handler
  <1>1. TypeOK /\ InResolve /\ OneQuery /\ Found /\ RunByOwn /\ Asked /\ Places
    BY DEF Inv, Places, Answers
  <1>2. in[l].at \in {"lock", "put", "map"} /\ UNCHANGED <<to_run, asked, corrupted>>
    BY DEF CacheMiss, PutQuery, MapQuery
  <1>3. /\ q \in Queries /\ h \in Handlers /\ LoopOf[h] = l
        /\ \A m \in Loops : in[m].query = q => m = l
        /\ \A m \in Loops : in[m].handler = h => m = l
    BY <1>1, <1>2, OutsideType, DnsAssumption DEF InResolve, TypeOK, Queries
  <1>4. live \subseteq Queries
    BY <1>1 DEF TypeOK
  <1>5. CASE CacheMiss(l)
    <2>1. /\ in[l].at = "lock" /\ mutex_ = None /\ mutex_' = l /\ live' = live \cup {q}
          /\ in' = [in EXCEPT ![l].at = "put"] /\ UNCHANGED query_map_
      BY <1>5 DEF CacheMiss
    <2>2. (\A r \in Queries : r # q => query'[r] = query[r]) /\ query'[q].handler = h
      BY <1>1, <1>5, CacheMissPlaces
    <2>3. /\ in'[l].at = "put" /\ in'[l].handler = h /\ in'[l].query = q
          /\ \A m \in Loops : m # l => in'[m] = in[m]
      BY <1>1, <2>1, GoOnEffect
    <2>4. /\ q \notin live /\ \A m \in Loops : in[m].at \notin {"put", "map"}
          /\ \A r \in live : query[r].handler # h
      BY <1>1, <2>1, DnsAssumption DEF InResolve, OneQuery
    <2> HIDE DEF q, h
    <2>5. SamePending
      <3> SUFFICES ASSUME NEW g \in Handlers PROVE Pending(g)' <=> Pending(g)
        BY DEF SamePending
      <3>1. (\E m \in Loops : in'[m].handler = g) <=> (\E m \in Loops : in[m].handler = g)
        BY <2>3 DEF h
      <3>2. g = h => Pending(g)' /\ Pending(g)
        BY <2>3 DEF Pending, h
      <3>3. g # h => ((\E r \in live' : query'[r].handler = g) <=> (\E r \in live : query[r].handler = g))
        BY <1>4, <2>1, <2>2, <2>4
      <3> QED
        BY <3>1, <3>2, <3>3 DEF Pending
    <2>6. OneQuery'
      <3>1. \A r, p \in live' : query'[r].handler # None /\ query'[r].handler = query'[p].handler => r = p
        BY <1>1, <1>4, <2>1, <2>2, <2>4 DEF OneQuery
      <3>2. \A m \in Loops, r \in live' : in'[m].at = "lock" => query'[r].handler # in'[m].handler
        <4> SUFFICES ASSUME NEW m \in Loops, NEW r \in live', in'[m].at = "lock"
                     PROVE  query'[r].handler # in'[m].handler
          OBVIOUS
        <4>1. m # l /\ in'[m] = in[m]
          BY <2>3
        <4>2. in[m].handler # h
          BY <1>3, <4>1 DEF h
        <4> QED
          BY <1>1, <1>4, <2>1, <2>2, <2>4, <4>1, <4>2 DEF OneQuery
      <3> QED
        BY <3>1, <3>2 DEF OneQuery
    <2>7. Found'
      <3> SUFFICES ASSUME NEW r \in Queued' PROVE CancelFinds(r)'
        BY DEF Found
      <3>1. r \in live /\ r # q /\ query'[r] = query[r]
        BY <1>4, <2>1, <2>2, <2>3 DEF Queued
      <3>2. r \in Queued
        BY <2>4, <3>1 DEF Queued
      <3>3. query[r].handler # None => query[r].handler \in DOMAIN query_map_ /\ query_map_[query[r].handler] = r
        BY <1>1, <2>4, <3>2 DEF Found, CancelFinds
      <3> QED
        BY <2>1, <3>1, <3>3 DEF CancelFinds
    <2>8. RunByOwn' /\ Asked'
      BY <1>1, <1>2, <2>5 DEF RunByOwn, Asked, Posts, SamePending
    <2> QED
      BY <1>2, <2>5, <2>6, <2>7, <2>8 DEF Answers
  <1>6. CASE PutQuery(l)
    <2>1. /\ in[l].at = "put" /\ in' = [in EXCEPT ![l].at = "map"]
          /\ UNCHANGED <<corrupted, query_map_, query, live, mutex_>>
      BY <1>6 DEF PutQuery
    <2>2. /\ in'[l].at = "map" /\ in'[l].handler = h /\ in'[l].query = q
          /\ \A m \in Loops : m # l => in'[m] = in[m]
      BY <1>1, <2>1, GoOnEffect
    <2>3. mutex_ = l /\ \A m \in Loops : mutex_ = m => in[m].at # "map"
      BY <1>1, <2>1 DEF InResolve
    <2>4. SamePending
      BY <2>1, <2>2 DEF SamePending, Pending
    <2>5. OneQuery'
      BY <1>1, <2>1, <2>2 DEF OneQuery
    <2>6. Found'
      <3> SUFFICES ASSUME NEW r \in Queued' PROVE CancelFinds(r)'
        BY DEF Found
      <3>1. CASE r = q
        BY <2>1, <2>2, <2>3, <3>1 DEF CancelFinds
      <3>2. CASE r # q
        <4>1. r \in Queued
          BY <2>1, <2>2, <3>2 DEF Queued
        <4> QED
          BY <1>1, <2>1, <2>3, <4>1 DEF Found, CancelFinds
      <3> QED
        BY <3>1, <3>2
    <2>7. RunByOwn' /\ Asked'
      BY <1>1, <1>2, <2>4 DEF RunByOwn, Asked, Posts, SamePending
    <2> QED
      BY <1>2, <2>4, <2>5, <2>6, <2>7 DEF Answers
  <1>7. CASE MapQuery(l)
    <2>1. /\ in[l].at = "map" /\ in' = [in EXCEPT ![l] = Outside]
          /\ query_map_' = [g \in DOMAIN query_map_ \cup {h} |-> IF g = h THEN q ELSE query_map_[g]]
          /\ UNCHANGED <<corrupted, query, live>>
      BY <1>7 DEF MapQuery
    <2>2. in'[l] = Outside /\ \A m \in Loops : m # l => in'[m] = in[m]
      BY <1>1, <2>1 DEF TypeOK
    <2>3. q \in live /\ query[q].handler = h /\ \A m \in Loops : in[m].at = "map" => m = l
      BY <1>1, <2>1 DEF InResolve
    <2>4. SamePending
      <3> SUFFICES ASSUME NEW g \in Handlers PROVE Pending(g)' <=> Pending(g)
        BY DEF SamePending
      <3>1. g = h => Pending(g)' /\ Pending(g)
        BY <2>1, <2>3 DEF Pending
      <3>2. g # h => ((\E m \in Loops : in'[m].handler = g) <=> (\E m \in Loops : in[m].handler = g))
        <4> SUFFICES ASSUME g # h
                     PROVE  (\E m \in Loops : in'[m].handler = g) <=> (\E m \in Loops : in[m].handler = g)
          OBVIOUS
        <4>1. in[l].handler # g /\ in'[l].handler # g
          BY <2>2, OutsideType, DnsAssumption
        <4> QED
          BY <2>2, <4>1
      <3> QED
        BY <2>1, <3>1, <3>2 DEF Pending
    <2>5. OneQuery'
      BY <1>1, <2>1, <2>2, OutsideType DEF OneQuery
    <2>6. Found'
      <3> SUFFICES ASSUME NEW r \in Queued' PROVE CancelFinds(r)'
        BY DEF Found
      <3>1. \A m \in Loops : in'[m].at = "put" <=> in[m].at = "put" /\ in'[m] = in[m]
        BY <2>1, <2>2, OutsideType
      <3>2. r \in Queued
        BY <2>1, <2>2, <3>1 DEF Queued
      <3>3. CASE r = q
        <4>1. h \in DOMAIN query_map_' /\ query_map_'[h] = q
          BY <2>1
        <4> QED
          BY <2>1, <2>3, <3>3, <4>1 DEF CancelFinds
      <3>4. CASE r # q
        <4>1. r \in live /\ query[r].handler # h
          BY <1>1, <1>3, <2>3, <3>2, <3>4, DnsAssumption DEF Queued, OneQuery
        <4>2. query[r].handler # None => query[r].handler \in DOMAIN query_map_ /\ query_map_[query[r].handler] = r
          BY <1>1, <2>3, <3>2, <3>4 DEF Found, CancelFinds
        <4>3. query[r].handler # None => query[r].handler \in DOMAIN query_map_' /\ query_map_'[query[r].handler] = r
          BY <2>1, <4>1, <4>2
        <4> QED
          BY <2>1, <4>3 DEF CancelFinds
      <3> QED
        BY <3>3, <3>4
    <2>7. RunByOwn' /\ Asked'
      BY <1>1, <1>2, <2>4 DEF RunByOwn, Asked, Posts, SamePending
    <2> QED
      BY <1>2, <2>4, <2>5, <2>6, <2>7 DEF Answers
  <1> QED
    BY <1>5, <1>6, <1>7

\* Cancel marks a query that can be found, of h or, through a stale entry, of
\* another handler, or marks none.
LEMMA CancelAnswers ==
    ASSUME Inv, NEW h \in Handlers, Cancel(h)
    PROVE  /\ Answers' /\ UNCHANGED to_run
           /\ SamePending \/ \E g \in Handlers : ~Pending(g)' /\ OthersPending(g)
  <1>1. TypeOK /\ InResolve /\ OneQuery /\ Found /\ RunByOwn /\ Asked /\ Places
    BY DEF Inv, Places, Answers
  <1>2. /\ mutex_ = None /\ in[LoopOf[h]] = Outside /\ asked' = [asked EXCEPT ![h] = FALSE]
        /\ UNCHANGED <<query_map_, live, mutex_, in, to_run>>
    BY <1>1, CancelEffect
  <1>3. PICK m \in live \cup {0} :
           /\ Marks(m)
           /\ \/ UNCHANGED corrupted /\ h \notin DOMAIN query_map_ /\ m = 0
              \/ UNCHANGED corrupted /\ h \in DOMAIN query_map_ /\ m = query_map_[h]
              \/ corrupted' = TRUE /\ StaleEntry(h)
    BY <1>1, CancelEffect
  <1>4. /\ live \subseteq Queries /\ ~asked'[h]
        /\ \A g \in Handlers : g # h => asked'[g] = asked[g]
    BY <1>1, <1>2 DEF TypeOK
  <1>5. \A k \in Loops : in[k].at \notin {"put", "map"} /\ in[k].handler # h
    BY <1>1, <1>2, OutsideType, DnsAssumption DEF InResolve
  <1>6. \A r \in live : query[r].handler # None =>
           query[r].handler \in DOMAIN query_map_ /\ query_map_[query[r].handler] = r
    BY <1>1, <1>5 DEF Found, Queued, CancelFinds
  <1>7. \A r \in live : IF r = m THEN query'[r].handler = None
                        ELSE query'[r].handler = query[r].handler
    BY <1>3, <1>4 DEF Marks
  <1>8. ~Pending(h)'
    <2>1. \A r \in live : query[r].handler = h => r = m
      BY <1>3, <1>6, DnsAssumption DEF StaleEntry
    <2> QED
      BY <1>2, <1>5, <1>7, <2>1, DnsAssumption DEF Pending
  <1>9. SamePending \/ \E g \in Handlers : ~Pending(g)' /\ OthersPending(g)
    <2>1. CASE m \notin live \/ query[m].handler = None
      <3>1. \A r \in live : query'[r].handler = query[r].handler
        BY <1>7, <2>1
      <3> QED
        BY <1>2, <3>1 DEF Pending, SamePending
    <2>2. CASE m \in live /\ query[m].handler # None
      <3>1. query[m] \in QueryRecord
        BY <1>1, <1>4, <2>2 DEF TypeOK, QueryRecord
      <3>2. PICK g \in Handlers : g = query[m].handler
        BY <2>2, <3>1 DEF QueryRecord
      <3>3. \A r \in live : query[r].handler = g => r = m
        BY <1>1, <2>2, <3>2 DEF OneQuery
      <3>4. \A k \in Loops : in[k].handler # g
        <4> SUFFICES ASSUME NEW k \in Loops, in[k].handler = g PROVE FALSE
          OBVIOUS
        <4>1. in[k].at # "out"
          BY <3>2, OutsideType, DnsAssumption, <1>1 DEF InResolve
        <4>2. in[k].at = "lock"
          BY <1>1, <1>5, <4>1 DEF TypeOK
        <4> QED
          BY <1>1, <2>2, <3>2, <4>2 DEF OneQuery
      <3>5. ~Pending(g)'
        BY <1>2, <1>7, <3>3, <3>4, DnsAssumption DEF Pending
      <3>6. OthersPending(g)
        BY <1>2, <1>7, <2>2, <3>2, DnsAssumption DEF OthersPending, Pending
      <3> QED
        BY <3>5, <3>6
    <2> QED
      BY <2>1, <2>2
  <1>10. OneQuery'
    <2>1. \A k \in Loops : in[k].at = "lock" => in[k].handler \in Handlers
      BY <1>1 DEF InResolve
    <2> QED
      BY <1>1, <1>2, <1>7, <2>1, DnsAssumption DEF OneQuery
  <1>11. Found'
    <2> SUFFICES ASSUME NEW r \in Queued' PROVE CancelFinds(r)'
      BY DEF Found
    <2>1. r \in live
      BY <1>2 DEF Queued
    <2> QED
      BY <1>2, <1>6, <1>7, <2>1 DEF CancelFinds
  <1>12. Asked'
    <2> SUFFICES ASSUME NEW g \in Handlers
                 PROVE  /\ Pending(g)' => asked'[g] /\ ~Posts(g)'
                        /\ corrupted' \/ (asked'[g] => Pending(g)' \/ Posts(g)')
      BY DEF Asked
    <2>1. Posts(g)' <=> Posts(g)
      BY <1>2 DEF Posts
    <2>2. Pending(g)' => Pending(g)
      BY <1>2, <1>7, DnsAssumption DEF Pending
    <2>3. CASE g = h
      BY <1>4, <1>8, <2>3
    <2>4. CASE g # h
      <3>1. corrupted' \/ (Pending(g) => Pending(g)')
        <4>1. CASE corrupted' = TRUE
          BY <4>1
        <4>2. CASE UNCHANGED corrupted /\ corrupted' # TRUE
          <5>1. m \in live => query[m].handler \in {h, None}
            <6>1. corrupted # TRUE /\ (m = 0 \/ (h \in DOMAIN query_map_ /\ m = query_map_[h]))
              BY <1>3, <4>2
            <6>2. corrupted \in BOOLEAN
              BY <1>1 DEF TypeOK
            <6>3. Mapped
              BY <6>1, <6>2 DEF Inv
            <6>4. 0 \notin live
              BY <1>4 DEF Queries
            <6> QED
              BY <6>1, <6>3, <6>4 DEF Mapped
          <5>2. \A r \in live : query[r].handler = g => query'[r].handler = g
            BY <1>7, <2>4, <5>1, DnsAssumption
          <5> QED
            BY <1>2, <5>2 DEF Pending
        <4> QED
          BY <1>3, <4>1, <4>2
      <3>2. corrupted => corrupted'
        BY <1>3
      <3> QED
        BY <1>1, <1>4, <2>1, <2>2, <2>4, <3>1, <3>2 DEF Asked
    <2> QED
      BY <2>3, <2>4
  <1>13. RunByOwn'
    BY <1>1, <1>2 DEF RunByOwn
  <1> QED
    BY <1>2, <1>9, <1>10, <1>11, <1>12, <1>13 DEF Answers


\* The solver lets go of a query, cancelled or answered.
LEMMA DeleteAnswers ==
    ASSUME Inv, Working, live' = live \ {cur}, UNCHANGED <<corrupted, query, mutex_, in, asked>>,
           \A l \in Loops : in[l].at \in {"put", "map"} => in[l].query # cur,
           NEW h, h = query[cur].handler,
           IF h = None
             THEN UNCHANGED <<corrupted, query_map_, to_run>>
             ELSE /\ query_map_' = [g \in DOMAIN query_map_ \ {h} |-> query_map_[g]]
                  /\ Return(h)
    PROVE  /\ Answers'
           /\ h = None => SamePending
           /\ h # None => h \in Handlers /\ Pending(h) /\ ~Pending(h)' /\ OthersPending(h)
  <1>1. TypeOK /\ InResolve /\ Handed /\ OneQuery /\ Found /\ RunByOwn /\ Asked
    BY DEF Inv, Places, Answers
  <1>2. cur \in live /\ h \in Handlers \cup {None}
    <2>1. cur \in live /\ cur \in Queries
      BY <1>1 DEF Handed, TypeOK
    <2>2. query \in [Queries -> QueryRecord]
      BY <1>1 DEF TypeOK, QueryRecord
    <2> QED
      BY <2>1, <2>2 DEF QueryRecord
  <1>3. OneQuery'
    BY <1>1 DEF OneQuery
  <1>4. h = None => SamePending
    BY DnsAssumption DEF SamePending, Pending
  <1>5. h # None => h \in Handlers /\ Pending(h) /\ ~Pending(h)' /\ OthersPending(h)
    <2> SUFFICES ASSUME h # None PROVE h \in Handlers /\ Pending(h) /\ ~Pending(h)' /\ OthersPending(h)
      OBVIOUS
    <2>1. h \in Handlers /\ Pending(h)
      BY <1>2 DEF Pending
    <2>2. \A m \in Loops : in[m].handler # h
      <3> SUFFICES ASSUME NEW m \in Loops, in[m].handler = h PROVE FALSE
        OBVIOUS
      <3>1. in[m].at # "out" /\ in[m].at # "lock"
        BY <1>1, <1>2, <2>1, OutsideType, DnsAssumption DEF InResolve, OneQuery
      <3>2. in[m].at \in {"put", "map"}
        BY <1>1, <3>1 DEF TypeOK
      <3>3. in[m].query \in live /\ query[in[m].query].handler = h
        BY <1>1, <3>2 DEF InResolve
      <3>4. in[m].query = cur
        BY <1>1, <1>2, <3>3 DEF OneQuery
      <3> QED
        BY <3>2, <3>4
    <2>3. \A r \in live' : query[r].handler # h
      BY <1>1, <1>2 DEF OneQuery
    <2>4. ~Pending(h)'
      BY <2>2, <2>3 DEF Pending
    <2>5. OthersPending(h)
      BY <1>2 DEF OthersPending, Pending
    <2> QED
      BY <2>1, <2>4, <2>5
  <1>6. Found'
    <2> SUFFICES ASSUME NEW r \in Queued' PROVE CancelFinds(r)'
      BY DEF Found
    <2>1. r \in live /\ r # cur /\ r \in Queued
      BY DEF Queued
    <2>2. CancelFinds(r)
      BY <1>1, <2>1 DEF Found
    <2>3. CASE h = None
      BY <2>2, <2>3 DEF CancelFinds
    <2>4. CASE h # None
      <3>1. query[r].handler # h
        BY <1>1, <1>2, <2>1, <2>4 DEF OneQuery
      <3>2. \A g \in DOMAIN query_map_ : g # h => g \in DOMAIN query_map_' /\ query_map_'[g] = query_map_[g]
        BY <2>4
      <3> QED
        BY <2>2, <3>1, <3>2 DEF CancelFinds
    <2> QED
      BY <2>3, <2>4
  <1>7. RunByOwn' /\ Asked'
    <2>1. CASE h = None
      BY <1>1, <1>4, <2>1 DEF RunByOwn, Asked, Posts, SamePending
    <2>2. CASE h # None
      <3>1. RunByOwn' /\ Posts(h)' /\ \A g \in Handlers : g # h => (Posts(g)' <=> Posts(g))
        BY <1>1, <1>5, <2>2, ReturnPosts
      <3> QED
        BY <1>1, <1>5, <2>2, <3>1 DEF Asked, OthersPending
    <2> QED
      BY <2>1, <2>2
  <1> QED
    BY <1>3, <1>4, <1>5, <1>6, <1>7 DEF Answers

\* What touches no query and no answer.
LEMMA OtherAnswers ==
    ASSUME Answers, UNCHANGED <<corrupted, query_map_, query, live, mutex_, in, to_run, asked>>
    PROVE  Answers' /\ SamePending
  BY DEF Answers, OneQuery, Found, Queued, CancelFinds, RunByOwn, Asked, Posts, Pending, SamePending

\* The answer that is run is the handler's last word.
LEMMA RunAnswers ==
    ASSUME Inv, NEW l \in Loops, RunAnswer(l)
    PROVE  Answers' /\ SamePending
  <1> DEFINE h == Head(to_run[l])
  <1>1. TypeOK /\ OneQuery /\ Found /\ RunByOwn /\ Asked
    BY DEF Inv, Places, Answers
  <1>2. /\ to_run[l] # <<>> /\ asked' = [asked EXCEPT ![h] = FALSE]
        /\ to_run' = [to_run EXCEPT ![l] = Tail(@)]
        /\ UNCHANGED <<corrupted, query_map_, query, live, mutex_, in>>
    BY DEF RunAnswer, dataVars
  <1>3. /\ RunByOwn' /\ h \in Handlers /\ Posts(h)
        /\ \A g \in Handlers : g # h => (Posts(g)' <=> Posts(g))
    BY <1>1, <1>2, RunPosts
  <1> HIDE DEF h
  <1>4. ~asked'[h] /\ \A g \in Handlers : g # h => asked'[g] = asked[g]
    BY <1>1, <1>2, <1>3 DEF TypeOK
  <1>5. SamePending /\ OneQuery' /\ Found'
    BY <1>1, <1>2 DEF SamePending, Pending, OneQuery, Found, Queued, CancelFinds
  <1>6. Asked'
    BY <1>1, <1>2, <1>3, <1>4, <1>5 DEF Asked, SamePending
  <1> QED
    BY <1>3, <1>5, <1>6 DEF Answers

\* The steps of the solver: the query it took is answered once or dropped.
LEMMA SolverAnswers ==
    ASSUME Inv, SolverStep
    PROVE  /\ Answers'
           /\ \/ SamePending /\ UNCHANGED to_run
              \/ \E h \in Handlers : Return(h) /\ Pending(h) /\ ~Pending(h)' /\ OthersPending(h)
  <1>1. TypeOK /\ InResolve /\ Answers
    BY DEF Inv, Places
  <1>2. CASE SolverGet \/ Resolved
    <2>1. UNCHANGED <<corrupted, query_map_, query, live, mutex_, in, to_run, asked>>
      BY <1>2 DEF SolverGet, Resolved, dataVars, clientVars
    <2> QED
      BY <1>1, <2>1, OtherAnswers
  <1>3. CASE SolverCheck
    <2>1. Working /\ UNCHANGED <<corrupted, query_map_, query, mutex_, in, to_run, asked>>
      BY <1>3 DEF SolverCheck, Working, clientVars
    <2>2. CASE query[cur].handler = None
      <3>1. live' = live \ {cur}
        BY <1>3, <2>2 DEF SolverCheck
      <3>2. \A l \in Loops : in[l].at \in {"put", "map"} => in[l].query # cur
        BY <1>1, <2>2, DnsAssumption DEF InResolve
      <3> QED
        BY <2>1, <2>2, <3>1, <3>2, DeleteAnswers
    <2>3. CASE query[cur].handler # None
      <3>1. UNCHANGED live
        BY <1>3, <2>3 DEF SolverCheck
      <3> QED
        BY <1>1, <2>1, <3>1, OtherAnswers
    <2> QED
      BY <2>2, <2>3
  <1>4. ASSUME NEW found \in BOOLEAN, SolverDeliver(found)
        PROVE  /\ Answers'
               /\ \/ SamePending /\ UNCHANGED to_run
                  \/ \E h \in Handlers : Return(h) /\ Pending(h) /\ ~Pending(h)' /\ OthersPending(h)
    <2>1. /\ Working /\ mutex_ = None /\ live' = live \ {cur} /\ UNCHANGED <<corrupted, query, mutex_, in, asked>>
          /\ IF query[cur].handler # None
               THEN /\ query_map_' = [g \in DOMAIN query_map_ \ {query[cur].handler} |-> query_map_[g]]
                    /\ Return(query[cur].handler)
               ELSE UNCHANGED <<corrupted, query_map_, to_run>>
      BY <1>4 DEF SolverDeliver, Working, clientVars
    <2>2. \A l \in Loops : in[l].at \in {"put", "map"} => in[l].query # cur
      BY <1>1, <2>1, DnsAssumption DEF InResolve
    <2>3. ASSUME NEW h, h = query[cur].handler
          PROVE  /\ Answers'
                 /\ \/ SamePending /\ UNCHANGED to_run
                    \/ \E g \in Handlers : Return(g) /\ Pending(g) /\ ~Pending(g)' /\ OthersPending(g)
      <3>1. /\ Answers' /\ (h = None => SamePending)
            /\ h # None => h \in Handlers /\ Pending(h) /\ ~Pending(h)' /\ OthersPending(h)
        BY <2>1, <2>2, <2>3, DeleteAnswers
      <3>2. IF h = None THEN UNCHANGED to_run ELSE Return(h)
        BY <2>1, <2>3
      <3> QED
        BY <3>1, <3>2
    <2> QED
      BY <2>3
  <1> QED
    BY <1>2, <1>3, <1>4 DEF SolverStep


\* Every step keeps the invariant.
LEMMA NextInv ==
    ASSUME ~ReusesEarly
    PROVE  Inv /\ [Next]_vars => Inv'
  <1> SUFFICES ASSUME Inv, [Next]_vars PROVE Inv'
    OBVIOUS
  <1>1. Places' /\ Mapped'
    BY NextPlaces, NextMapped DEF Inv
  <1>2. Answers'
    <2>1. ASSUME NEW h \in Handlers, NEW host \in Hosts, Resolve(h, host) PROVE Answers'
      BY <2>1, ResolveAnswers
    <2>2. ASSUME NEW h \in Handlers, Cancel(h) PROVE Answers'
      BY <2>2, CancelAnswers
    <2>3. ASSUME NEW l \in Loops, LoopStep(l) PROVE Answers'
      BY <2>3, CacheHitAnswers, InsideAnswers, RunAnswers DEF LoopStep
    <2>4. CASE SolverStep
      BY <2>4, SolverAnswers
    <2>5. CASE Stop \/ (\E host \in Hosts : Expire(host)) \/ UNCHANGED vars
      <3>1. UNCHANGED <<corrupted, query_map_, query, live, mutex_, in, to_run, asked>>
        BY <2>5 DEF Stop, Expire, vars, dataVars, clientVars
      <3> QED
        BY <3>1, OtherAnswers DEF Inv
    <2> QED
      BY <2>1, <2>2, <2>3, <2>4, <2>5 DEF Next
  <1> QED
    BY <1>1, <1>2 DEF Inv

\* The invariant holds when DnsInit has started the resolver.
LEMMA InitInv == Init => Inv
  <1>1. Init => Mapped
    BY DEF Init, Mapped
  <1> QED
    BY <1>1, InitPlaces, InitAnswers DEF Inv

\* The invariant says more than QueriesAlive and NobodyForgotten.
LEMMA InvImplies == Inv => QueriesAlive /\ NobodyForgotten
  <1> SUFFICES ASSUME Inv PROVE QueriesAlive /\ NobodyForgotten
    OBVIOUS
  <1>1. TypeOK /\ InResolve /\ Handed /\ Found /\ Asked
    BY DEF Inv, Places, Answers
  <1>2. DOMAIN query_queue_ = 1..Len(query_queue_)
    BY <1>1, LenProperties DEF TypeOK
  <1>3. solver = "stopped" => live = {}
    <2> SUFFICES ASSUME solver = "stopped", NEW q \in live PROVE FALSE
      OBVIOUS
    <2>1. query_queue_ = <<>> /\ ~thread_ /\ ~Working
      BY <1>1 DEF Handed, Working
    <2>2. \A l \in Loops : in[l].at # "put"
      BY <1>1, <2>1 DEF InResolve
    <2>3. ~InQueue(q)
      BY <2>1 DEF InQueue
    <2> QED
      BY <1>1, <2>1, <2>2, <2>3 DEF Handed
  <1>4. QueriesAlive
    BY <1>1, <1>2, <1>3 DEF QueriesAlive, Handed, Found, Working, StaleEntry, Inv, Mapped
  <1>5. NobodyForgotten
    BY <1>1, PostedPositive DEF NobodyForgotten, Asked
  <1> QED
    BY <1>4, <1>5

\* The solver never works on a deleted query, the queue holds no query twice,
\* Cancel finds each one that may still be delivered, an entry that outlives its
\* query is one of a cancelled query, and the exit signal leaves none behind
\* (dns_resolver.cc, Resolve, Cancel and Run), if no handler asks again while an
\* answer to its former query is posted.
THEOREM QueriesStayAlive ==
    ASSUME ~ReusesEarly
    PROVE  Spec => []QueriesAlive
  BY InitInv, NextInv, InvImplies, PTL DEF Spec

\* Until a Cancel has written into a deleted query (dns_resolver.cc:135), a handler
\* that asked and did not cancel has its answer on the way (dns_resolver.h,
\* DnsResolve), if none asks again while an answer to its former query is posted.
THEOREM NobodyIsForgotten ==
    ASSUME ~ReusesEarly
    PROVE  Spec => []NobodyForgotten
  BY InitInv, NextInv, InvImplies, PTL DEF Spec

-----------------------------------------------------------------------------
(* The resolver implements the service *)

\* The state of the service.
PendingMap == [h \in Handlers |-> Pending(h)]
PostedMap == [h \in Handlers |-> Posted(h)]

\* How the queries seen by the service change with the resolver's.
LEMMA PendingMaps ==
    /\ SamePending => PendingMap' = PendingMap
    /\ \A h \in Handlers : OthersPending(h) /\ Pending(h)' =>
          PendingMap' = [PendingMap EXCEPT ![h] = TRUE]
    /\ \A h \in Handlers : OthersPending(h) /\ ~Pending(h)' =>
          PendingMap' = [PendingMap EXCEPT ![h] = FALSE]
  <1>1. \A h \in Handlers : PendingMap[h] = Pending(h) /\ PendingMap'[h] = Pending(h)'
    BY DEF PendingMap
  <1>2. ASSUME SamePending PROVE PendingMap' = PendingMap
    <2>1. \A h \in Handlers : Pending(h)' = Pending(h)
      BY <1>2 DEF SamePending, Pending
    <2> QED
      BY <2>1 DEF PendingMap
  <1>3. ASSUME NEW h \in Handlers, OthersPending(h), Pending(h)'
        PROVE  PendingMap' = [PendingMap EXCEPT ![h] = TRUE]
    <2>1. \A g \in Handlers : Pending(g)' = IF g = h THEN TRUE ELSE Pending(g)
      BY <1>3 DEF OthersPending, Pending
    <2> QED
      BY <2>1 DEF PendingMap
  <1>4. ASSUME NEW h \in Handlers, OthersPending(h), ~Pending(h)'
        PROVE  PendingMap' = [PendingMap EXCEPT ![h] = FALSE]
    <2>1. \A g \in Handlers : Pending(g)' = IF g = h THEN FALSE ELSE Pending(g)
      BY <1>4 DEF OthersPending, Pending
    <2> QED
      BY <2>1 DEF PendingMap
  <1> QED
    BY <1>2, <1>3, <1>4

\* How the answers seen by the service change with the resolver's.
LEMMA PostedMaps ==
    ASSUME TypeOK
    PROVE  /\ UNCHANGED to_run => PostedMap' = PostedMap
           /\ \A h \in Handlers : Return(h) => PostedMap' = [PostedMap EXCEPT ![h] = @ + 1]
           /\ \A l \in Loops :
                 /\ RunByOwn /\ to_run[l] # <<>> /\ to_run' = [to_run EXCEPT ![l] = Tail(@)]
                 => /\ PostedMap[Head(to_run[l])] > 0
                    /\ PostedMap' = [PostedMap EXCEPT ![Head(to_run[l])] = @ - 1]
  <1>1. ASSUME UNCHANGED to_run PROVE PostedMap' = PostedMap
    BY <1>1 DEF PostedMap, Posted
  <1>2. ASSUME NEW h \in Handlers, Return(h)
        PROVE  PostedMap' = [PostedMap EXCEPT ![h] = @ + 1]
    <2>1. \A g \in Handlers : Posted(g)' = IF g = h THEN Posted(g) + 1 ELSE Posted(g)
      BY <1>2, ReturnPosts
    <2> QED
      BY <2>1 DEF PostedMap
  <1>3. ASSUME NEW l \in Loops, RunByOwn, to_run[l] # <<>>, to_run' = [to_run EXCEPT ![l] = Tail(@)]
        PROVE  /\ PostedMap[Head(to_run[l])] > 0
               /\ PostedMap' = [PostedMap EXCEPT ![Head(to_run[l])] = @ - 1]
    <2> DEFINE h == Head(to_run[l])
    <2>1. /\ h \in Handlers /\ Posts(h)
          /\ \A g \in Handlers : Posted(g) = IF g = h THEN Posted(g)' + 1 ELSE Posted(g)'
      BY <1>3, RunPosts
    <2> HIDE DEF h
    <2>2. Posted(h) > 0 /\ \A g \in Handlers : Posted(g) \in Nat
      BY <2>1, PostedPositive
    <2>3. ASSUME NEW g \in Handlers PROVE Posted(g)' \in Nat
      <3> DEFINE s == to_run'[LoopOf[g]]
      <3>1. s \in Seq(Handlers)
        BY <1>3, RunPosts, DnsAssumption
      <3>2. Posted(g)' = Times(s, g)
        BY DEF Posted, Times
      <3> HIDE DEF s
      <3> QED
        BY <3>1, <3>2, TimesPositive
    <2>4. \A g \in Handlers : Posted(g)' = IF g = h THEN Posted(g) - 1 ELSE Posted(g)
      BY <2>1, <2>2, <2>3
    <2> QED
      BY <2>1, <2>2, <2>4 DEF PostedMap, h
  <1> QED
    BY <1>1, <1>2, <1>3


\* Every step of the resolver is a step of the service, or none.
LEMMA ServiceStep ==
    ASSUME ~ReusesEarly
    PROVE  Inv /\ [Next]_vars => [Service!Next]_(Service!serviceVars)
  <1> SUFFICES ASSUME Inv, [Next]_vars PROVE [Service!Next]_(Service!serviceVars)
    OBVIOUS
  <1>1. TypeOK /\ RunByOwn
    BY DEF Inv, Places, Answers
  <1>2. /\ \A h \in Handlers : PendingMap[h] = Pending(h)
        /\ SamePending /\ UNCHANGED to_run => UNCHANGED <<PendingMap, PostedMap>>
    BY <1>1, PendingMaps, PostedMaps DEF PendingMap
  <1>3. ASSUME NEW h \in Handlers, Return(h), Pending(h), ~Pending(h)', OthersPending(h)
        PROVE  Service!Answer(h)
    <2>1. PendingMap[h] /\ PendingMap' = [PendingMap EXCEPT ![h] = FALSE]
      BY <1>2, <1>3, PendingMaps
    <2>2. PostedMap' = [PostedMap EXCEPT ![h] = @ + 1]
      BY <1>1, <1>3, PostedMaps
    <2> QED
      BY <2>1, <2>2 DEF Service!Answer, PendingMap, PostedMap
  <1>4. ASSUME NEW h \in Handlers, NEW host \in Hosts, Resolve(h, host)
        PROVE  Service!Ask(h) \/ Service!AnswerAtOnce(h)
    <2>1. /\ ~Pending(h) /\ OthersPending(h)
          /\ \/ Return(h) /\ ~Pending(h)'
             \/ UNCHANGED to_run /\ Pending(h)'
      BY <1>4, ResolveAnswers
    <2>2. CASE Return(h) /\ ~Pending(h)'
      <3>1. SamePending
        BY <2>1, <2>2 DEF OthersPending, SamePending
      <3>2. ~PendingMap[h] /\ PendingMap' = PendingMap
        BY <1>2, <2>1, <3>1, PendingMaps
      <3>3. PostedMap' = [PostedMap EXCEPT ![h] = @ + 1]
        BY <1>1, <2>2, PostedMaps
      <3> QED
        BY <3>2, <3>3 DEF Service!AnswerAtOnce, PendingMap, PostedMap
    <2>3. CASE UNCHANGED to_run /\ Pending(h)'
      <3>1. ~PendingMap[h] /\ PendingMap' = [PendingMap EXCEPT ![h] = TRUE]
        BY <1>2, <2>1, <2>3, PendingMaps
      <3>2. PostedMap' = PostedMap
        BY <1>1, <2>3, PostedMaps
      <3> QED
        BY <3>1, <3>2 DEF Service!Ask, PendingMap, PostedMap
    <2> QED
      BY <2>1, <2>2, <2>3
  <1>5. ASSUME NEW h \in Handlers, Cancel(h)
        PROVE  (\E g \in Handlers : Service!Cancel(g)) \/ UNCHANGED <<PendingMap, PostedMap>>
    <2>1. PostedMap' = PostedMap
      BY <1>1, <1>5, CancelAnswers, PostedMaps
    <2>2. ASSUME NEW g \in Handlers, ~Pending(g)', OthersPending(g) PROVE Service!Cancel(g)
      <3>1. PendingMap' = [PendingMap EXCEPT ![g] = FALSE]
        BY <2>2, PendingMaps
      <3> QED
        BY <2>1, <3>1 DEF Service!Cancel, PendingMap, PostedMap
    <2>3. SamePending => PendingMap' = PendingMap
      BY PendingMaps
    <2> QED
      BY <1>5, <2>1, <2>2, <2>3, CancelAnswers
  <1>6. ASSUME NEW l \in Loops, CacheHit(l) PROVE \E h \in Handlers : Service!Answer(h)
    <2>1. ASSUME NEW h, h = in[l].handler PROVE \E g \in Handlers : Service!Answer(g)
      BY <1>3, <1>6, <2>1, CacheHitAnswers
    <2> QED
      BY <2>1
  <1>7. ASSUME NEW l \in Loops, RunAnswer(l) PROVE \E h \in Handlers : Service!Deliver(h)
    <2> DEFINE h == Head(to_run[l])
    <2>1. to_run[l] # <<>> /\ to_run' = [to_run EXCEPT ![l] = Tail(@)]
      BY <1>7 DEF RunAnswer
    <2>2. h \in Handlers /\ PostedMap[h] > 0 /\ PostedMap' = [PostedMap EXCEPT ![h] = @ - 1]
      BY <1>1, <2>1, PostedMaps, RunPosts
    <2>3. PendingMap' = PendingMap
      BY <1>7, RunAnswers, PendingMaps
    <2> HIDE DEF h
    <2>4. Service!Deliver(h)
      BY <2>2, <2>3 DEF Service!Deliver, PendingMap, PostedMap
    <2> QED
      BY <2>2, <2>4
  <1>8. CASE \/ \E l \in Loops : CacheMiss(l) \/ PutQuery(l) \/ MapQuery(l)
             \/ Stop \/ (\E host \in Hosts : Expire(host)) \/ UNCHANGED vars
    <2>1. CASE \E l \in Loops : CacheMiss(l) \/ PutQuery(l) \/ MapQuery(l)
      BY <1>2, <2>1, InsideAnswers DEF Service!serviceVars, PendingMap, PostedMap
    <2>2. CASE Stop \/ (\E host \in Hosts : Expire(host)) \/ UNCHANGED vars
      <3>1. UNCHANGED <<corrupted, query_map_, query, live, mutex_, in, to_run, asked>>
        BY <2>2 DEF Stop, Expire, vars, dataVars, clientVars
      <3> QED
        BY <1>2, <3>1, OtherAnswers DEF Inv, Service!serviceVars, PendingMap, PostedMap
    <2> QED
      BY <1>8, <2>1, <2>2
  <1>9. CASE SolverStep
    <2>1. CASE SamePending /\ UNCHANGED to_run
      BY <1>2, <2>1 DEF Service!serviceVars, PendingMap, PostedMap
    <2>2. CASE \E h \in Handlers : Return(h) /\ Pending(h) /\ ~Pending(h)' /\ OthersPending(h)
      BY <1>3, <2>2 DEF Service!Next
    <2> QED
      BY <1>9, <2>1, <2>2, SolverAnswers
  <1> QED
    BY <1>4, <1>5, <1>6, <1>7, <1>8, <1>9
       DEF Next, LoopStep, Service!Next, Service!serviceVars, PendingMap, PostedMap

\* The safety part of the refinement: every behaviour of the resolver is one of
\* the service, if no handler asks again while an answer to its former query is
\* posted.  Each query is answered or cancelled, and answered once; an answer goes
\* to the handler that asked (dns_resolver.h, DnsResolve and DnsCancel).  A Cancel
\* through a stale entry may be the service's Cancel for another handler.
THEOREM ResolverRefinesService ==
    ASSUME ~ReusesEarly
    PROVE  Spec => Service!Spec
  <1>1. Init => Service!Init
    <2> SUFFICES ASSUME Init PROVE Service!Init
      OBVIOUS
    <2> DEFINE nothing == <<>>
    <2>1. live = {} /\ in = [l \in Loops |-> Outside] /\ to_run = [l \in Loops |-> nothing]
      BY DEF Init
    <2>2. \A h \in Handlers : Pending(h) = FALSE
      BY <2>1, OutsideType, DnsAssumption DEF Pending
    <2>3. \A h \in Handlers : Posted(h) = 0
      <3>1. \A h \in Handlers : to_run[LoopOf[h]] = nothing
        BY <2>1, DnsAssumption
      <3>2. nothing \in Seq({}) /\ Len(nothing) = 0 /\ 1..0 = {}
        OBVIOUS
      <3> HIDE DEF nothing
      <3>3. \A h \in Handlers : {k \in 1..Len(to_run[LoopOf[h]]) : to_run[LoopOf[h]][k] = h} = {}
        BY <3>1, <3>2
      <3> QED
        BY <3>3, FS_EmptySet DEF Posted
    <2> QED
      BY <2>2, <2>3 DEF Service!Init
  <1>2. Spec => []Inv
    BY InitInv, NextInv, PTL DEF Spec
  <1> QED
    BY <1>1, <1>2, ServiceStep, PTL DEF Spec, Service!Spec

\* The state of the resolver stays well typed, if no handler asks again while an
\* answer to its former query is posted.
THEOREM TypeCorrect ==
    ASSUME ~ReusesEarly
    PROVE  Spec => []TypeOK
  <1>1. Inv => TypeOK
    BY DEF Inv, Places
  <1> QED
    BY <1>1, InitInv, NextInv, PTL DEF Spec

-----------------------------------------------------------------------------
(***************************************************************************)
(* The file element with its buffers, for any readers, files and buffers.  *)
(* The invariant says who holds each buffer and who waits for one, that a  *)
(* reader has one call of its own to go on with, one operation under way   *)
(* or nothing, and that the only check that can fail is the one of         *)
(* AddRequest with every buffer in use.                                    *)
(***************************************************************************)
\* c is one of the calls or closures of s.
In(c, s) == \E i \in DOMAIN s : s[i] = c

\* No two of the calls of these kinds in s are for one reader.
Lone(s, kinds) ==
    \A i, j \in DOMAIN s : i # j /\ s[i][1] \in kinds /\ s[j][1] \in kinds => s[i][2] # s[j][2]

Kinds == {"started", "seek", "media", "ended", "eos"}
Frame == ({"op", "read", "data", "sent", "fired", "stop"} \X Readers)
           \cup ({"tag"} \X Readers \X Kinds \X Nat)
Closure == {<<"closed">>, <<"InternalClose">>} \cup ({"full"} \X Readers)
             \cup ({"aio"} \X Readers \X (0..MaxSize))

\* The calls that carry a reader on; the answers to a reader that waits.
Mains == {"op", "read", "data", "sent"}
ReadAnswers == {"aio", "full"}

-----------------------------------------------------------------------------
(* Sequences of calls *)

LEMMA InConcat ==
    ASSUME NEW X, NEW a \in Seq(X), NEW b \in Seq(X), NEW c
    PROVE  In(c, a \o b) <=> In(c, a) \/ In(c, b)
  <1>1. /\ DOMAIN a = 1..Len(a) /\ DOMAIN b = 1..Len(b) /\ Len(a) \in Nat /\ Len(b) \in Nat
        /\ a \o b \in Seq(X) /\ Len(a \o b) = Len(a) + Len(b)
        /\ DOMAIN (a \o b) = 1..(Len(a) + Len(b))
    BY ConcatProperties
  <1>2. \A i \in 1..Len(a) + Len(b) : (a \o b)[i] = IF i <= Len(a) THEN a[i] ELSE b[i - Len(a)]
    BY ConcatProperties
  <1>3. ASSUME In(c, a \o b) PROVE In(c, a) \/ In(c, b)
    <2>1. PICK i \in 1..Len(a) + Len(b) : (a \o b)[i] = c
      BY <1>1, <1>3 DEF In
    <2>2. CASE i <= Len(a)
      BY <1>1, <1>2, <2>1, <2>2 DEF In
    <2>3. CASE ~(i <= Len(a))
      <3>1. i - Len(a) \in 1..Len(b) /\ b[i - Len(a)] = c
        BY <1>1, <1>2, <2>1, <2>3
      <3> QED
        BY <1>1, <3>1 DEF In
    <2> QED
      BY <2>2, <2>3
  <1>4. ASSUME In(c, a) PROVE In(c, a \o b)
    <2>1. PICK i \in 1..Len(a) : a[i] = c
      BY <1>1, <1>4 DEF In
    <2> QED
      BY <1>1, <1>2, <2>1 DEF In
  <1>5. ASSUME In(c, b) PROVE In(c, a \o b)
    <2>1. PICK i \in 1..Len(b) : b[i] = c
      BY <1>1, <1>5 DEF In
    <2>2. /\ Len(a) + i \in 1..Len(a) + Len(b) /\ ~(Len(a) + i <= Len(a))
          /\ (Len(a) + i) - Len(a) = i
      BY <1>1, <2>1
    <2>3. (a \o b)[Len(a) + i] = c
      BY <1>2, <2>1, <2>2
    <2> QED
      BY <1>1, <2>2, <2>3 DEF In
  <1> QED
    BY <1>3, <1>4, <1>5

LEMMA InTail ==
    ASSUME NEW X, NEW s \in Seq(X), s # <<>>
    PROVE  /\ Head(s) \in X /\ Tail(s) \in Seq(X)
           /\ \A c : In(c, s) <=> c = Head(s) \/ In(c, Tail(s))
  <1>1. /\ Len(s) \in Nat \ {0} /\ DOMAIN s = 1..Len(s) /\ Head(s) = s[1] /\ Head(s) \in X
        /\ Tail(s) \in Seq(X) /\ Len(Tail(s)) = Len(s) - 1
        /\ \A i \in 1..Len(Tail(s)) : Tail(s)[i] = s[i + 1]
    BY HeadTailProperties
  <1>2. DOMAIN Tail(s) = 1..(Len(s) - 1)
    BY <1>1
  <1>3. ASSUME NEW c, In(c, s) PROVE c = Head(s) \/ In(c, Tail(s))
    <2>1. PICK i \in 1..Len(s) : s[i] = c
      BY <1>1, <1>3 DEF In
    <2>2. CASE i = 1
      BY <1>1, <2>1, <2>2
    <2>3. CASE i # 1
      <3>1. i - 1 \in 1..(Len(s) - 1) /\ (i - 1) + 1 = i
        BY <1>1, <2>1, <2>3
      <3>2. Tail(s)[i - 1] = c
        BY <1>1, <2>1, <3>1
      <3> QED
        BY <1>2, <3>1, <3>2 DEF In
    <2> QED
      BY <2>2, <2>3
  <1>4. In(Head(s), s)
    <2>1. 1 \in DOMAIN s
      BY <1>1
    <2> QED
      BY <1>1, <2>1 DEF In
  <1>5. ASSUME NEW c, In(c, Tail(s)) PROVE In(c, s)
    <2>1. PICK i \in 1..(Len(s) - 1) : Tail(s)[i] = c
      BY <1>2, <1>5 DEF In
    <2>2. i + 1 \in DOMAIN s /\ s[i + 1] = c
      BY <1>1, <2>1
    <2> QED
      BY <2>2 DEF In
  <1> QED
    BY <1>1, <1>3, <1>4, <1>5

LEMMA InAppend ==
    ASSUME NEW X, NEW s \in Seq(X), NEW x \in X
    PROVE  /\ Append(s, x) \in Seq(X)
           /\ \A c : In(c, Append(s, x)) <=> In(c, s) \/ c = x
  <1>1. <<x>> \in Seq(X) /\ Append(s, x) = s \o <<x>> /\ Append(s, x) \in Seq(X)
    BY AppendIsConcat, AppendProperties
  <1>2. \A c : In(c, <<x>>) <=> c = x
    BY DEF In
  <1>3. \A c : In(c, s \o <<x>>) <=> In(c, s) \/ In(c, <<x>>)
    BY <1>1, InConcat
  <1> QED
    BY <1>1, <1>2, <1>3

LEMMA InEmpty == \A c : ~In(c, <<>>)
  BY DEF In

LEMMA InOne == \A c, d : In(c, <<d>>) <=> c = d
  BY DEF In

LEMMA LoneTail ==
    ASSUME NEW X, NEW s \in Seq(X), s # <<>>, NEW C, Lone(s, C)
    PROVE  /\ Lone(Tail(s), C)
           /\ \A c : In(c, Tail(s)) /\ c[1] \in C /\ Head(s)[1] \in C => c[2] # Head(s)[2]
  <1>1. /\ Len(s) \in Nat \ {0} /\ DOMAIN s = 1..Len(s) /\ Head(s) = s[1]
        /\ Tail(s) \in Seq(X) /\ Len(Tail(s)) = Len(s) - 1
        /\ \A i \in 1..Len(Tail(s)) : Tail(s)[i] = s[i + 1]
    BY HeadTailProperties
  <1>2. DOMAIN Tail(s) = 1..(Len(s) - 1)
    BY <1>1
  <1>3. \A i \in DOMAIN Tail(s) : i + 1 \in DOMAIN s /\ i + 1 # 1 /\ Tail(s)[i] = s[i + 1]
    BY <1>1, <1>2
  <1>4. Lone(Tail(s), C)
    <2> SUFFICES ASSUME NEW i \in DOMAIN Tail(s), NEW j \in DOMAIN Tail(s), i # j,
                        Tail(s)[i][1] \in C, Tail(s)[j][1] \in C
                 PROVE  Tail(s)[i][2] # Tail(s)[j][2]
      BY DEF Lone
    <2>1. i + 1 # j + 1
      BY <1>2
    <2> QED
      BY <1>3, <2>1 DEF Lone
  <1>5. ASSUME NEW c, In(c, Tail(s)), c[1] \in C, Head(s)[1] \in C PROVE c[2] # Head(s)[2]
    <2>1. PICK i \in DOMAIN Tail(s) : Tail(s)[i] = c
      BY <1>5 DEF In
    <2>2. 1 \in DOMAIN s
      BY <1>1
    <2> QED
      BY <1>1, <1>3, <1>5, <2>1, <2>2 DEF Lone
  <1> QED
    BY <1>4, <1>5

LEMMA LoneConcat ==
    ASSUME NEW X, NEW a \in Seq(X), NEW b \in Seq(X), NEW C, Lone(a, C), Lone(b, C),
           \A c, d : In(c, a) /\ In(d, b) /\ c[1] \in C /\ d[1] \in C => c[2] # d[2]
    PROVE  Lone(a \o b, C)
  <1>1. /\ DOMAIN a = 1..Len(a) /\ DOMAIN b = 1..Len(b) /\ Len(a) \in Nat /\ Len(b) \in Nat
        /\ DOMAIN (a \o b) = 1..(Len(a) + Len(b))
    BY ConcatProperties
  <1>2. \A i \in 1..Len(a) + Len(b) : (a \o b)[i] = IF i <= Len(a) THEN a[i] ELSE b[i - Len(a)]
    BY ConcatProperties
  <1> DEFINE t == a \o b
  <1> SUFFICES ASSUME NEW i \in DOMAIN t, NEW j \in DOMAIN t, i # j, t[i][1] \in C, t[j][1] \in C
               PROVE  t[i][2] # t[j][2]
    BY DEF Lone
  <1>3. \A k \in DOMAIN t : \/ k <= Len(a) /\ k \in DOMAIN a /\ t[k] = a[k]
                            \/ k > Len(a) /\ k - Len(a) \in DOMAIN b /\ t[k] = b[k - Len(a)]
    BY <1>1, <1>2
  <1>4. CASE i <= Len(a) /\ j <= Len(a)
    BY <1>1, <1>3, <1>4 DEF Lone
  <1>5. CASE i > Len(a) /\ j > Len(a)
    <2>1. i - Len(a) # j - Len(a)
      BY <1>1
    <2> QED
      BY <1>1, <1>3, <1>5, <2>1 DEF Lone
  <1>6. CASE i <= Len(a) /\ j > Len(a)
    <2>1. In(t[i], a) /\ In(t[j], b)
      BY <1>1, <1>3, <1>6 DEF In
    <2> QED
      BY <2>1
  <1>7. CASE i > Len(a) /\ j <= Len(a)
    <2>1. In(t[j], a) /\ In(t[i], b)
      BY <1>1, <1>3, <1>7 DEF In
    <2> QED
      BY <2>1
  <1> QED
    BY <1>1, <1>4, <1>5, <1>6, <1>7

LEMMA LoneOne == \A d, C : Lone(<<d>>, C) /\ Lone(<<>>, C)
  BY DEF Lone

LEMMA LoneAppend ==
    ASSUME NEW X, NEW s \in Seq(X), NEW x \in X, NEW C, Lone(s, C),
           \A c : In(c, s) /\ c[1] \in C /\ x[1] \in C => c[2] # x[2]
    PROVE  Lone(Append(s, x), C)
  <1>1. <<x>> \in Seq(X) /\ Append(s, x) = s \o <<x>>
    BY AppendIsConcat
  <1> QED
    BY <1>1, LoneOne, InOne, LoneConcat

-----------------------------------------------------------------------------
(* The state *)

\* A record with the fields of a reader.
Shaped(f) == DOMAIN f = DOMAIN Fresh

\* The types that the other facts need.
ReaderTyped(f) ==
    /\ Shaped(f)
    /\ f.at \in {"new", "registering", "open", "gone"}
    /\ f.io \in BOOLEAN
    /\ f.buffer \in Buffers \cup {Null}
    /\ f.data \in Seq(Nat)
    /\ f.pos \in Keys
    /\ f.seekOff \in Keys \cup {0}
    /\ f.orphan \in BOOLEAN
    /\ f.alarm \in {"no", "pending", "firing"}
    /\ f.start \in 0..FileTags

Typed ==
    /\ DOMAIN frs = Readers
    /\ \A r \in Readers : ReaderTyped(frs[r])
    /\ pool \in Pool
    /\ aio \subseteq Readers
    /\ posted \in Seq(Closure)
    /\ work \in Seq(Frame)
    /\ element \in {"open", "closing", "closed", "deleted"}
    /\ failed \in BOOLEAN

UsersOf(b) == {r \in Readers : frs[r].buffer = b}
Reading(r) == r \in aio \/ \E size \in 0..MaxSize : In(<<"aio", r, size>>, posted)

\* Who uses the buffer: when it is looked up one reads and the others wait.
Accounted(b) ==
    /\ pool[b].use_count = Cardinality(UsersOf(b))
    /\ pool[b].done \subseteq UsersOf(b)
    /\ UsersOf(b) # {} => pool[b].state # "NEW" /\ pool[b].data_key \in Keys
    /\ pool[b].state = "IN_LOOKUP" =>
         \E u \in UsersOf(b) :
           /\ Reading(u) /\ pool[b].done = UsersOf(b) \ {u}
           /\ \A q \in UsersOf(b) : frs[q].io /\ (q # u => ~Reading(q))
    /\ pool[b].state = "VALID_DATA" /\ pool[b].data_size > 0 =>
         pool[b].content = pool[b].data_key /\ pool[b].data_size <= Size(pool[b].data_key)

Keyed ==
    \A b, c \in Buffers : pool[b].data_key = pool[c].data_key /\ b # c => pool[b].data_key = Null

\* What a reader waits for, and what its answer will find.
Waits(r) ==
    LET f == frs[r]
        b == pool[f.buffer]
    IN /\ f.io => f.buffer # Null /\ f.pos = b.data_key
       /\ f.buffer # Null => f.at = "open" /\ (~f.io => b.state = "VALID_DATA")
       /\ r \in aio => f.io /\ b.state = "IN_LOOKUP"
       /\ \A size \in 0..MaxSize : In(<<"aio", r, size>>, posted) =>
            /\ f.io /\ b.state = "IN_LOOKUP" /\ r \notin aio
            /\ b.content = f.pos /\ size \in {0, Size(f.pos)}
       /\ In(<<"full", r>>, posted) => f.io /\ b.state = "VALID_DATA"

Accounts ==
    /\ \A b \in Buffers : Accounted(b)
    /\ Keyed
    /\ \A r \in Readers : Waits(r)

\* What the calls of a turn find.
Turn(r) ==
    LET f == frs[r]
    IN /\ In(<<"op", r>>, work) =>
            f.io /\ pool[f.buffer].state = "VALID_DATA" /\ ~In(<<"full", r>>, posted)
       /\ \A c \in {"read", "data", "sent"} : In(<<c, r>>, work) =>
            ~f.io /\ (f.at = "open" \/ (f.at = "registering" /\ c = "read"))
       /\ f.alarm = "firing" => In(<<"fired", r>>, work)
       /\ In(<<"fired", r>>, work) => \A q \in Readers : ~In(<<"op", q>>, work)
       /\ f.at = "registering" /\ ~failed =>
            /\ work = <<<<"read", r>>>> /\ element = "open" /\ f.pos = 1 /\ f.seekOff = 0
            /\ GetBuffer(pool, 1) # {} \/ AddsWhenExhausted

Turns == (\A r \in Readers : Turn(r)) /\ Lone(work, Mains) /\ Lone(posted, ReadAnswers)

Ends ==
    /\ element \in {"closed", "deleted"} => FileOps = {}
    /\ In(<<"closed">>, posted) => element \in {"closed", "deleted"}

\* The CHECK that may fail besides: a request was added when no buffer was left.
Exhausted ==
    AddsWhenExhausted /\ GetBuffer(pool, 1) = {} /\ \E r \in Readers : frs[r].at = "registering"

AioInv ==
    /\ Typed
    /\ Accounts
    /\ Turns
    /\ Ends
    /\ failed => Exhausted \/ ClearedInAlarm

-----------------------------------------------------------------------------
(* The file *)

LEMMA AioConstants ==
    /\ FileTags \in Nat /\ FileTags > 0 /\ MaxSize \in Nat /\ MaxSize > 0
    /\ Keys = 1..(FileTags + 1) /\ Null \notin Buffers /\ Null \notin Keys
    /\ IsFiniteSet(Readers) /\ Requests \subseteq (0..FileTags) \X (0..FileTags)
    /\ Controllers \subseteq Readers
  BY AioAssumption, BufferAssumption

LEMMA BlockSize ==
    ASSUME NEW k \in Keys
    PROVE  Size(k) \in 0..MaxSize /\ (Size(k) > 0 => k + 1 \in Keys)
  <1> DEFINE before == (k - 1) * MaxSize
             left == FileTags - before
  <1>1. k \in Nat /\ k >= 1 /\ FileTags \in Nat /\ MaxSize \in Nat /\ MaxSize >= 1
    BY AioConstants
  <1>2. before \in Nat /\ before >= k - 1
    <2> DEFINE j == k - 1
    <2>1. j \in Nat
      BY <1>1
    <2> HIDE DEF j
    <2>2. j * MaxSize \in Nat /\ j * MaxSize >= j
      BY <1>1, <2>1
    <2> QED
      BY <2>2 DEF j
  <1>3. Size(k) = IF left <= 0 THEN 0 ELSE IF left >= MaxSize THEN MaxSize ELSE left
    BY DEF Size, TagsPerBlock
  <1> HIDE DEF before
  <1>4. left \in Int
    BY <1>1, <1>2
  <1>5. Size(k) \in 0..MaxSize
    BY <1>1, <1>3, <1>4
  <1>6. ASSUME Size(k) > 0 PROVE k + 1 \in Keys
    <2>1. left > 0
      BY <1>3, <1>4, <1>6
    <2>2. k - 1 < FileTags
      BY <1>1, <1>2, <2>1
    <2> QED
      BY <1>1, <2>2, AioConstants
  <1> QED
    BY <1>5, <1>6

LEMMA BlockContents ==
    ASSUME NEW k \in Keys
    PROVE  Contents(k) \in Seq(Nat)
  <1> DEFINE before == (k - 1) * TagsPerBlock
             s == [i \in 1..Size(k) |-> before + i]
             c == IF k = 1 /\ HasCues THEN <<CuePoint>> ELSE <<>>
  <1>1. before \in Nat
    BY AioConstants DEF TagsPerBlock
  <1>2. Size(k) \in Nat
    BY BlockSize, AioConstants
  <1>3. Contents(k) = c \o s
    BY DEF Contents
  <1> HIDE DEF before
  <1>4. s \in Seq(Nat) /\ c \in Seq(Nat)
    BY <1>1, <1>2 DEF CuePoint
  <1> HIDE DEF s, c
  <1> QED
    BY <1>3, <1>4, ConcatProperties

LEMMA CueOfTime ==
    ASSUME NEW t \in 1..FileTags
    PROVE  GetCueForTime(t) \in Keys
  <1> DEFINE j == t - 1
             d == j \div MaxSize
  <1>1. j \in Nat /\ j < FileTags /\ MaxSize \in Nat /\ MaxSize > 0
    BY AioConstants
  <1> HIDE DEF j
  <1>2. d \in Nat /\ d <= j
    BY <1>1
  <1>3. GetCueForTime(t) = d + 1
    BY DEF GetCueForTime, TagsPerBlock, j
  <1> HIDE DEF d
  <1> QED
    BY <1>1, <1>2, <1>3, AioConstants

-----------------------------------------------------------------------------
(* The pool *)

LEMMA UsersFinite == \A b : IsFiniteSet(UsersOf(b)) /\ Cardinality(UsersOf(b)) \in Nat
  <1> SUFFICES ASSUME NEW b PROVE IsFiniteSet(UsersOf(b)) /\ Cardinality(UsersOf(b)) \in Nat
    OBVIOUS
  <1>1. UsersOf(b) \subseteq Readers
    BY DEF UsersOf
  <1> QED
    BY <1>1, AioConstants, FS_Subset, FS_CardinalityType

\* Steps that leave the pool alone, and give up at most what is not waited for.
LEMMA KeptAccounts ==
    ASSUME Typed, Accounts, pool' = pool, aio' = aio,
           \A r \in Readers : \A size \in 0..MaxSize :
              In(<<"aio", r, size>>, posted') <=> In(<<"aio", r, size>>, posted),
           \A r \in Readers : In(<<"full", r>>, posted') => In(<<"full", r>>, posted),
           \A r \in Readers :
              /\ frs'[r].buffer = frs[r].buffer
              /\ frs[r].buffer # Null => frs'[r].pos = frs[r].pos /\ frs'[r].at = frs[r].at
              /\ \/ frs'[r].io = frs[r].io
                 \/ /\ frs'[r].io = FALSE /\ ~In(<<"full", r>>, posted')
                    /\ frs[r].buffer # Null => pool[frs[r].buffer].state = "VALID_DATA"
    PROVE  Accounts'
  <1>1. \A b : UsersOf(b)' = UsersOf(b)
    BY DEF UsersOf
  <1>2. \A r \in Readers : Reading(r)' <=> Reading(r)
    BY DEF Reading
  <1>3. ASSUME NEW b \in Buffers PROVE Accounted(b)'
    <2>1. Accounted(b)
      BY DEF Accounts
    <2>2. ASSUME pool[b].state = "IN_LOOKUP"
          PROVE  \E u \in UsersOf(b)' :
                   /\ Reading(u)' /\ pool'[b].done = UsersOf(b)' \ {u}
                   /\ \A q \in UsersOf(b)' : frs'[q].io /\ (q # u => ~Reading(q)')
      <3>1. PICK u \in UsersOf(b) :
              /\ Reading(u) /\ pool[b].done = UsersOf(b) \ {u}
              /\ \A q \in UsersOf(b) : frs[q].io /\ (q # u => ~Reading(q))
        BY <2>1, <2>2 DEF Accounted
      <3>2. \A q \in UsersOf(b) : q \in Readers /\ frs[q].buffer = b
        BY DEF UsersOf
      <3>3. b # Null
        BY AioConstants
      <3>4. \A q \in UsersOf(b) : frs'[q].io
        <4> SUFFICES ASSUME NEW q \in UsersOf(b) PROVE frs'[q].io
          OBVIOUS
        <4>1. q \in Readers /\ frs[q].buffer = b /\ frs[q].io
          BY <3>1, <3>2
        <4>2. frs'[q].io = frs[q].io
          BY <2>2, <3>3, <4>1
        <4> QED
          BY <4>1, <4>2
      <3>5. UsersOf(b)' = UsersOf(b)
        BY DEF UsersOf
      <3>6. \A q \in UsersOf(b) : Reading(q)' <=> Reading(q)
        BY <1>2, <3>2
      <3> QED
        BY <3>1, <3>4, <3>5, <3>6
    <2> QED
      BY <1>1, <2>1, <2>2 DEF Accounted
  <1>4. Keyed'
    BY DEF Accounts, Keyed
  <1>5. ASSUME NEW r \in Readers PROVE Waits(r)'
    <2>1. Waits(r)
      BY DEF Accounts
    <2> QED
      BY <2>1 DEF Waits
  <1> QED
    BY <1>3, <1>4, <1>5 DEF Accounts

\* Of one buffer, what its users and its answers decide.
LEMMA SameUsers ==
    ASSUME Typed, Accounts, NEW b \in Buffers, pool'[b] = pool[b],
           \A q \in Readers : \/ frs'[q] = frs[q]
                              \/ frs[q].buffer # b /\ frs'[q].buffer # b,
           \A q \in Readers : frs[q].buffer = b => (Reading(q)' <=> Reading(q))
    PROVE  Accounted(b)'
  <1>1. UsersOf(b)' = UsersOf(b)
    BY DEF UsersOf
  <1>2. Accounted(b)
    BY DEF Accounts
  <1>3. \A q \in UsersOf(b) : q \in Readers /\ frs[q].buffer = b
    BY DEF UsersOf
  <1>4. \A q \in UsersOf(b) : (Reading(q)' <=> Reading(q)) /\ frs'[q] = frs[q]
    BY <1>3
  <1>5. ASSUME pool[b].state = "IN_LOOKUP"
        PROVE  \E u \in UsersOf(b)' :
                 /\ Reading(u)' /\ pool'[b].done = UsersOf(b)' \ {u}
                 /\ \A q \in UsersOf(b)' : frs'[q].io /\ (q # u => ~Reading(q)')
    <2>1. PICK u \in UsersOf(b) :
            /\ Reading(u) /\ pool[b].done = UsersOf(b) \ {u}
            /\ \A q \in UsersOf(b) : frs[q].io /\ (q # u => ~Reading(q))
      BY <1>2, <1>5 DEF Accounted
    <2>2. \A q \in UsersOf(b) : frs'[q].io
      BY <1>4, <2>1
    <2> QED
      BY <1>1, <1>4, <2>1, <2>2
  <1> QED
    BY <1>1, <1>2, <1>5 DEF Accounted

LEMMA EndUsageAt ==
    ASSUME pool \in Pool, NEW b \in Buffers, NEW r \in Readers, NEW p, p = EndUsage(pool, b, r)
    PROVE  /\ p \in Pool
           /\ \A c \in Buffers : c # b => p[c] = pool[c]
           /\ pool[b].use_count > 1 =>
                /\ p[b].use_count = pool[b].use_count - 1 /\ p[b].done = pool[b].done \ {r}
                /\ p[b].state = pool[b].state /\ p[b].data_key = pool[b].data_key
                /\ p[b].data_size = pool[b].data_size /\ p[b].content = pool[b].content
           /\ pool[b].use_count <= 1 =>
                /\ p[b].use_count = 0 /\ p[b].done \subseteq pool[b].done \ {r}
                /\ \/ p[b].state = "NEW" /\ p[b].data_key = Null
                   \/ /\ p[b].state = pool[b].state /\ p[b].data_key = pool[b].data_key
                      /\ p[b].data_size = pool[b].data_size /\ p[b].content = pool[b].content
  <1>1. /\ pool[b] \in Buffer /\ pool[b].use_count \in Nat /\ pool[b].data_size \in 0..MaxSize
        /\ pool[b].content \in Keys \cup {Null} /\ pool[b].done \in SUBSET Readers
    BY DEF Pool, Buffer
  <1> DEFINE e == Released(pool[b], r)
  <1>2. p = [pool EXCEPT ![b] = e]
    BY DEF EndUsage
  <1>3. 0 \in 0..MaxSize
    BY AioConstants
  <1>4. e \in Buffer
    <2>1. ASSUME NEW n \in Nat PROVE [pool[b] EXCEPT !.use_count = n, !.done = @ \ {r}] \in Buffer
      BY <1>1 DEF Buffer
    <2>2. FreeListed(pool[b].content) \in Buffer
      BY <1>1, <1>3 DEF Buffer, FreeListed, NewBuffer, BufferStates
    <2>3. pool[b].use_count > 1 => pool[b].use_count - 1 \in Nat
      BY <1>1
    <2> QED
      BY <2>1, <2>2, <2>3 DEF Released
  <1>5. /\ pool[b].use_count > 1 =>
                /\ e.use_count = pool[b].use_count - 1 /\ e.done = pool[b].done \ {r}
                /\ e.state = pool[b].state /\ e.data_key = pool[b].data_key
                /\ e.data_size = pool[b].data_size /\ e.content = pool[b].content
        /\ pool[b].use_count <= 1 =>
                /\ e.use_count = 0 /\ e.done \subseteq pool[b].done \ {r}
                /\ \/ e.state = "NEW" /\ e.data_key = Null
                   \/ /\ e.state = pool[b].state /\ e.data_key = pool[b].data_key
                      /\ e.data_size = pool[b].data_size /\ e.content = pool[b].content
    BY <1>1 DEF Buffer, Released, FreeListed, NewBuffer
  <1> HIDE DEF e
  <1>6. p \in Pool /\ p[b] = e /\ \A c \in Buffers : c # b => p[c] = pool[c]
    BY <1>2, <1>4 DEF Pool
  <1> QED
    BY <1>5, <1>6

\* A reader gives up its buffer, which is not looked up any more.
LEMMA EndUseAccounts ==
    ASSUME Typed, Accounts, NEW r \in Readers, NEW b \in Buffers,
           frs[r].buffer = b, pool[b].state = "VALID_DATA", pool' = EndUsage(pool, b, r),
           aio' = aio,
           \A q \in Readers : \A size \in 0..MaxSize :
              In(<<"aio", q, size>>, posted') <=> In(<<"aio", q, size>>, posted),
           \A q \in Readers : In(<<"full", q>>, posted') => In(<<"full", q>>, posted),
           ~In(<<"full", r>>, posted),
           frs'[r].buffer = Null, frs'[r].io = FALSE, \A q \in Readers : q # r => frs'[q] = frs[q]
    PROVE  /\ Accounts' /\ pool' \in Pool
           /\ \A q \in Readers : q # r /\ frs[q].buffer # Null =>
                 pool'[frs[q].buffer].state = pool[frs[q].buffer].state
  <1>1. /\ Accounted(b) /\ Keyed /\ \A q \in Readers : Waits(q)
        /\ pool \in Pool /\ \A q \in Readers : frs[q].buffer \in Buffers \cup {Null}
    BY DEF Accounts, Typed, ReaderTyped
  <1>2. /\ pool' \in Pool
        /\ \A c \in Buffers : c # b => pool'[c] = pool[c]
        /\ pool[b].use_count > 1 =>
             /\ pool'[b].use_count = pool[b].use_count - 1 /\ pool'[b].done = pool[b].done \ {r}
             /\ pool'[b].state = pool[b].state /\ pool'[b].data_key = pool[b].data_key
             /\ pool'[b].data_size = pool[b].data_size /\ pool'[b].content = pool[b].content
        /\ pool[b].use_count <= 1 =>
             /\ pool'[b].use_count = 0 /\ pool'[b].done \subseteq pool[b].done \ {r}
             /\ \/ pool'[b].state = "NEW" /\ pool'[b].data_key = Null
                \/ /\ pool'[b].state = pool[b].state /\ pool'[b].data_key = pool[b].data_key
                   /\ pool'[b].data_size = pool[b].data_size /\ pool'[b].content = pool[b].content
    BY <1>1, EndUsageAt
  <1>3. b # Null
    BY AioConstants
  <1>4. UsersOf(b)' = UsersOf(b) \ {r} /\ r \in UsersOf(b)
    BY <1>3 DEF UsersOf
  <1>5. /\ Cardinality(UsersOf(b)') = pool[b].use_count - 1 /\ pool[b].use_count \in Nat
        /\ IsFiniteSet(UsersOf(b)')
    <2>1. /\ IsFiniteSet(UsersOf(b)) /\ Cardinality(UsersOf(b)) \in Nat
          /\ pool[b].use_count = Cardinality(UsersOf(b))
      BY <1>1, UsersFinite DEF Accounted
    <2> QED
      BY <1>4, <2>1, FS_RemoveElement
  <1>6. pool[b].use_count <= 1 => UsersOf(b)' = {} /\ pool[b].use_count = 1
    <2>1. Cardinality(UsersOf(b)') \in Nat
      BY <1>5, FS_CardinalityType
    <2> QED
      BY <1>5, <2>1, FS_EmptySet
  <1>7. \A q \in Readers : Reading(q)' <=> Reading(q)
    BY DEF Reading
  <1>8. Accounted(b)'
    <2>1. CASE pool[b].use_count > 1
      <3>1. UsersOf(b)' # {} => UsersOf(b) # {}
        BY <1>4
      <3> QED
        BY <1>1, <1>2, <1>4, <1>5, <2>1, <3>1 DEF Accounted
    <2>2. CASE pool[b].use_count <= 1
      <3>1. pool'[b].done = {}
        BY <1>1, <1>2, <1>4, <1>6, <2>2 DEF Accounted
      <3> QED
        BY <1>1, <1>2, <1>5, <1>6, <2>2, <3>1 DEF Accounted
    <2> QED
      BY <1>5, <2>1, <2>2
  <1>9. ASSUME NEW c \in Buffers, c # b PROVE Accounted(c)'
    <2>1. pool'[c] = pool[c]
      BY <1>2, <1>9
    <2>2. c # Null
      BY AioConstants
    <2>3. \A q \in Readers : \/ frs'[q] = frs[q]
                             \/ frs[q].buffer # c /\ frs'[q].buffer # c
      BY <1>9, <2>2
    <2> QED
      BY <1>7, <2>1, <2>3, SameUsers
  <1>10. Keyed'
    <2>1. pool'[b].data_key \in {pool[b].data_key, Null}
      BY <1>2, <1>5
    <2> QED
      BY <1>1, <1>2, <2>1 DEF Keyed
  <1>11. ASSUME NEW q \in Readers, q # r, frs[q].buffer # Null
         PROVE  /\ pool'[frs[q].buffer].state = pool[frs[q].buffer].state
                /\ pool'[frs[q].buffer].data_key = pool[frs[q].buffer].data_key
                /\ pool'[frs[q].buffer].content = pool[frs[q].buffer].content
    <2>1. CASE frs[q].buffer = b
      <3>1. q \in UsersOf(b)'
        BY <1>4, <1>11, <2>1 DEF UsersOf
      <3>2. pool[b].use_count > 1
        BY <1>5, <1>6, <3>1
      <3> QED
        BY <1>2, <2>1, <3>2
    <2>2. CASE frs[q].buffer # b
      BY <1>1, <1>2, <1>11, <2>2
    <2> QED
      BY <2>1, <2>2
  <1>12. ASSUME NEW q \in Readers PROVE Waits(q)'
    <2>1. Waits(q)
      BY <1>1
    <2>2. CASE q = r
      <3>1. q \notin aio /\ \A size \in 0..MaxSize : ~In(<<"aio", q, size>>, posted)
        BY <2>1, <2>2 DEF Waits
      <3> QED
        BY <2>2, <3>1 DEF Waits
    <2>3. CASE q # r
      BY <1>11, <2>1, <2>3 DEF Waits
    <2> QED
      BY <2>2, <2>3
  <1> QED
    BY <1>2, <1>8, <1>9, <1>10, <1>11, <1>12 DEF Accounts

\* A buffer of the pool is taken for a key; t: before its use begins.
TakenFor(before, t, p, b, r, key) ==
    /\ p \in Pool
    /\ \A c \in Buffers : c # b => p[c] = before[c]
    /\ p[b].data_key = key /\ p[b].content = before[b].content
    /\ before[b].data_key = key =>
         /\ t[b].state = before[b].state /\ p[b].use_count = before[b].use_count + 1
         /\ p[b].data_size = before[b].data_size
         /\ p[b].done = IF before[b].state = "IN_LOOKUP" THEN before[b].done \cup {r}
                        ELSE before[b].done
         /\ p[b].state = IF before[b].state = "NEW" THEN "IN_LOOKUP" ELSE before[b].state
    /\ before[b].data_key # key =>
         /\ t[b].state = "NEW" /\ p[b].use_count = 1 /\ p[b].state = "IN_LOOKUP"
         /\ p[b].done \subseteq before[b].done

LEMMA TakenAt ==
    ASSUME pool \in Pool, NEW b \in Buffers, NEW r \in Readers, NEW key \in Keys,
           NEW t, t = Taken(pool, b, key), NEW p, p = BeginUsage(t, b, r)
    PROVE  TakenFor(pool, t, p, b, r, key)
  <1>1. /\ pool[b] \in Buffer /\ pool[b].use_count \in Nat /\ pool[b].data_size \in 0..MaxSize
        /\ pool[b].content \in Keys \cup {Null} /\ pool[b].done \in SUBSET Readers
        /\ pool[b].state \in BufferStates
    BY DEF Pool, Buffer
  <1> DEFINE e == Used(pool[b], key)
  <1>2. t = [pool EXCEPT ![b] = e]
    BY DEF Taken
  <1>3. e \in Buffer
    <2>1. [pool[b] EXCEPT !.use_count = @ + 1] \in Buffer
      <3>1. pool[b].use_count + 1 \in Nat
        BY <1>1
      <3> QED
        BY <1>1, <3>1 DEF Buffer
    <2>2. NewBuffer(key, pool[b].content) \in Buffer
      BY <1>1, AioConstants DEF Buffer, NewBuffer, BufferStates
    <2>3. [pool[b] EXCEPT !.data_key = key, !.state = "NEW", !.use_count = 1] \in Buffer
      <3>1. 1 \in Nat /\ "NEW" \in BufferStates /\ key \in Keys \cup {Null}
        BY DEF BufferStates
      <3> QED
        BY <1>1, <3>1 DEF Buffer
    <2> QED
      BY <2>1, <2>2, <2>3 DEF Used
  <1>4. /\ e.data_key = key /\ e.content = pool[b].content
        /\ pool[b].data_key = key =>
             /\ e.state = pool[b].state /\ e.use_count = pool[b].use_count + 1
             /\ e.data_size = pool[b].data_size /\ e.done = pool[b].done
        /\ pool[b].data_key # key =>
             /\ e.state = "NEW" /\ e.use_count = 1 /\ e.done \subseteq pool[b].done
    BY <1>1 DEF Buffer, Used, NewBuffer
  <1> HIDE DEF e
  <1>5. t \in Pool /\ t[b] = e /\ \A c \in Buffers : c # b => t[c] = pool[c]
    BY <1>2, <1>3 DEF Pool
  <1>6. e.state \in {"NEW", "IN_LOOKUP", "VALID_DATA"} /\ e.done \in SUBSET Readers
    BY <1>3 DEF Buffer, BufferStates
  <1> DEFINE x == IF e.state = "NEW" THEN [e EXCEPT !.state = "IN_LOOKUP"]
                  ELSE IF e.state = "IN_LOOKUP" THEN [e EXCEPT !.done = @ \cup {r}]
                  ELSE e
  <1>7. x \in Buffer
    <2>1. "IN_LOOKUP" \in BufferStates /\ e.done \cup {r} \in SUBSET Readers
      BY <1>6 DEF BufferStates
    <2> QED
      BY <1>3, <2>1 DEF Buffer
  <1>8. /\ x.data_key = e.data_key /\ x.content = e.content /\ x.use_count = e.use_count
        /\ x.data_size = e.data_size
        /\ x.state = IF e.state = "NEW" THEN "IN_LOOKUP" ELSE e.state
        /\ x.done = IF e.state = "IN_LOOKUP" THEN e.done \cup {r} ELSE e.done
    BY <1>3 DEF Buffer
  <1>9. p[b] = x /\ p \in Pool /\ \A c \in Buffers : c # b => p[c] = t[c]
    <2>1. CASE e.state = "NEW"
      <3>1. p = [t EXCEPT ![b].state = "IN_LOOKUP"]
        BY <1>5, <2>1 DEF BeginUsage
      <3>2. x = [e EXCEPT !.state = "IN_LOOKUP"]
        BY <2>1
      <3> QED
        BY <1>5, <1>7, <3>1, <3>2 DEF Pool
    <2>2. CASE e.state = "IN_LOOKUP"
      <3>1. p = [t EXCEPT ![b].done = @ \cup {r}]
        BY <1>5, <2>2 DEF BeginUsage
      <3>2. x = [e EXCEPT !.done = @ \cup {r}]
        BY <2>2
      <3> QED
        BY <1>5, <1>7, <3>1, <3>2 DEF Pool
    <2>3. CASE e.state = "VALID_DATA"
      <3>1. p = t /\ x = e
        BY <1>5, <2>3 DEF BeginUsage
      <3> QED
        BY <1>5, <3>1
    <2> QED
      BY <1>6, <2>1, <2>2, <2>3
  <1> HIDE DEF x
  <1> QED
    BY <1>4, <1>5, <1>8, <1>9 DEF TakenFor

\* A reader takes a buffer: it reads, waits for another one, or is called back.
LEMMA TakeAccounts ==
    ASSUME Typed, Accounts, NEW r \in Readers, frs[r].buffer = Null,
           NEW key \in Keys, NEW b \in GetBuffer(pool, key),
           NEW t, t = Taken(pool, b, key), pool' = BeginUsage(t, b, r),
           aio' = IF t[b].state = "NEW" THEN aio \cup {r} ELSE aio,
           posted' = IF t[b].state = "VALID_DATA" THEN Append(posted, <<"full", r>>) ELSE posted,
           frs'[r].at = "open", frs'[r].io = TRUE, frs'[r].buffer = b, frs'[r].pos = key,
           \A q \in Readers : q # r => frs'[q] = frs[q]
    PROVE  /\ Accounts' /\ pool' \in Pool
           /\ \A q \in Readers : q # r /\ frs[q].buffer # Null =>
                 pool'[frs[q].buffer].state = pool[frs[q].buffer].state
  <1>1. /\ \A c \in Buffers : Accounted(c)
        /\ Keyed /\ \A q \in Readers : Waits(q)
        /\ pool \in Pool /\ \A q \in Readers : frs[q].buffer \in Buffers \cup {Null}
        /\ posted \in Seq(Closure)
    BY DEF Accounts, Typed, ReaderTyped
  <1>2. b \in Buffers
    BY DEF GetBuffer, Unallocated, FreeBuffers
  <1>3. b # Null /\ key # Null
    BY <1>2, AioConstants
  <1>4. UsersOf(b)' = UsersOf(b) \cup {r} /\ r \notin UsersOf(b) /\ r \in UsersOf(b)'
    BY <1>3 DEF UsersOf
  <1>5. /\ IsFiniteSet(UsersOf(b)) /\ Cardinality(UsersOf(b)) = pool[b].use_count
        /\ pool[b].use_count \in Nat
        /\ Cardinality(UsersOf(b)') = pool[b].use_count + 1
    <2>1. /\ IsFiniteSet(UsersOf(b)) /\ Cardinality(UsersOf(b)) \in Nat
          /\ pool[b].use_count = Cardinality(UsersOf(b))
      BY <1>1, <1>2, UsersFinite DEF Accounted
    <2>2. Cardinality(UsersOf(b) \cup {r}) = Cardinality(UsersOf(b)) + 1
      BY <1>4, <2>1, FS_AddElement
    <2> QED
      BY <1>4, <2>1, <2>2
  <1>6. pool[b].data_key # key =>
          UsersOf(b) = {} /\ pool[b].use_count = 0 /\ \A c \in Buffers : pool[c].data_key # key
    <2> SUFFICES ASSUME pool[b].data_key # key
                 PROVE  UsersOf(b) = {} /\ \A c \in Buffers : pool[c].data_key # key
      BY <1>5, FS_EmptySet
    <2>1. \A c \in Buffers : pool[c].data_key # key
      BY <1>2 DEF GetBuffer
    <2>2. pool[b].data_key = Null \/ pool[b].use_count = 0
      BY <2>1 DEF GetBuffer, Unallocated, FreeBuffers
    <2>3. CASE pool[b].data_key = Null
      BY <1>1, <1>2, <2>1, <2>3, AioConstants DEF Accounted
    <2>4. CASE pool[b].use_count = 0
      BY <1>5, <2>1, <2>4, FS_EmptySet
    <2> QED
      BY <2>2, <2>3, <2>4
  <1>7. TakenFor(pool, t, pool', b, r, key)
    BY <1>1, <1>2, TakenAt
  <1>8. pool[b].state \in {"NEW", "IN_LOOKUP", "VALID_DATA"}
    BY <1>1, <1>2 DEF Pool, Buffer, BufferStates
  <1>9. t[b].state \in {"NEW", "IN_LOOKUP", "VALID_DATA"}
    BY <1>7, <1>8 DEF TakenFor
  <1>10. /\ posted' \in Seq(Closure)
         /\ \A c : In(c, posted') <=> In(c, posted) \/ (c = <<"full", r>> /\ t[b].state = "VALID_DATA")
    <2>1. <<"full", r>> \in Closure
      BY DEF Closure
    <2> QED
      BY <1>1, <2>1, InAppend
  <1>11. \A q \in Readers : \A size \in 0..MaxSize :
            In(<<"aio", q, size>>, posted') <=> In(<<"aio", q, size>>, posted)
    <2> SUFFICES ASSUME NEW q \in Readers, NEW size \in 0..MaxSize
                 PROVE  In(<<"aio", q, size>>, posted') <=> In(<<"aio", q, size>>, posted)
      OBVIOUS
    <2>1. <<"aio", q, size>> # <<"full", r>>
      OBVIOUS
    <2> QED
      BY <1>10, <2>1
  <1>12. \A q \in Readers : q # r => /\ In(<<"full", q>>, posted') <=> In(<<"full", q>>, posted)
                                     /\ q \in aio' <=> q \in aio
    <2> SUFFICES ASSUME NEW q \in Readers, q # r
                 PROVE  /\ In(<<"full", q>>, posted') <=> In(<<"full", q>>, posted)
                        /\ q \in aio' <=> q \in aio
      OBVIOUS
    <2>1. <<"full", q>> # <<"full", r>>
      OBVIOUS
    <2> QED
      BY <1>10, <2>1
  <1>13. ~frs[r].io /\ r \notin aio /\ ~In(<<"full", r>>, posted)
         /\ \A size \in 0..MaxSize : ~In(<<"aio", r, size>>, posted)
    BY <1>1 DEF Waits
  <1>14. \A q \in Readers : q # r => (Reading(q)' <=> Reading(q))
    BY <1>11, <1>12 DEF Reading
  <1>15. ~Reading(r) /\ (Reading(r)' <=> t[b].state = "NEW")
    BY <1>11, <1>13 DEF Reading
  <1>16. Accounted(b)'
    <2>1. Accounted(b)
      BY <1>1, <1>2
    <2>2. pool'[b].use_count = Cardinality(UsersOf(b)')
      BY <1>5, <1>6, <1>7 DEF TakenFor
    <2>3. pool'[b].done \subseteq UsersOf(b)'
      <3>1. pool'[b].done \subseteq pool[b].done \cup {r}
        BY <1>7 DEF TakenFor
      <3> QED
        BY <1>4, <2>1, <3>1 DEF Accounted
    <2>4. pool'[b].state # "NEW" /\ pool'[b].data_key \in Keys
      BY <1>7 DEF TakenFor
    <2>5. ASSUME pool'[b].state = "IN_LOOKUP"
          PROVE  \E u \in UsersOf(b)' :
                   /\ Reading(u)' /\ pool'[b].done = UsersOf(b)' \ {u}
                   /\ \A q \in UsersOf(b)' : frs'[q].io /\ (q # u => ~Reading(q)')
      <3>1. CASE t[b].state = "NEW"
        <4>1. UsersOf(b) = {}
          BY <1>6, <1>7, <2>1, <3>1 DEF TakenFor, Accounted
        <4>2. pool'[b].done = {}
          <5>1. pool[b].done = {}
            BY <2>1, <4>1 DEF Accounted
          <5> QED
            BY <1>7, <3>1, <5>1 DEF TakenFor
        <4>3. Reading(r)' /\ frs'[r].io
          BY <1>15, <3>1
        <4> QED
          BY <1>4, <4>1, <4>2, <4>3
      <3>2. CASE t[b].state = "IN_LOOKUP"
        <4>1. pool[b].data_key = key /\ pool[b].state = "IN_LOOKUP" /\ pool'[b].done = pool[b].done \cup {r}
          BY <1>7, <3>2 DEF TakenFor
        <4>2. PICK u \in UsersOf(b) :
                /\ Reading(u) /\ pool[b].done = UsersOf(b) \ {u}
                /\ \A q \in UsersOf(b) : frs[q].io /\ (q # u => ~Reading(q))
          BY <2>1, <4>1 DEF Accounted
        <4>3. \A q \in UsersOf(b) : q # r /\ q \in Readers
          BY <1>4 DEF UsersOf
        <4>4. \A q \in UsersOf(b) : frs'[q] = frs[q] /\ (Reading(q)' <=> Reading(q))
          BY <1>14, <4>3
        <4>5. u \in UsersOf(b)' /\ Reading(u)' /\ pool'[b].done = UsersOf(b)' \ {u}
          BY <1>4, <4>1, <4>2, <4>3, <4>4
        <4>6. frs'[r].io /\ ~Reading(r)'
          BY <1>15, <3>2
        <4>7. \A q \in UsersOf(b) : frs'[q].io /\ (q # u => ~Reading(q)')
          BY <4>2, <4>4
        <4> QED
          BY <1>4, <4>5, <4>6, <4>7
      <3>3. t[b].state # "VALID_DATA"
        BY <1>7, <2>5 DEF TakenFor
      <3> QED
        BY <1>9, <3>1, <3>2, <3>3
    <2>6. ASSUME pool'[b].state = "VALID_DATA", pool'[b].data_size > 0
          PROVE  /\ pool'[b].content = pool'[b].data_key
                 /\ pool'[b].data_size <= Size(pool'[b].data_key)
      <3>1. pool[b].data_key = key /\ pool[b].state = "VALID_DATA"
        BY <1>7, <1>8, <2>6 DEF TakenFor
      <3> QED
        BY <1>7, <2>1, <2>6, <3>1 DEF TakenFor, Accounted
    <2> QED
      BY <2>2, <2>3, <2>4, <2>5, <2>6 DEF Accounted
  <1>17. ASSUME NEW c \in Buffers, c # b PROVE Accounted(c)'
    <2>1. pool'[c] = pool[c]
      BY <1>7, <1>17 DEF TakenFor
    <2>2. c # Null
      BY AioConstants
    <2>3. \A q \in Readers : \/ frs'[q] = frs[q]
                             \/ frs[q].buffer # c /\ frs'[q].buffer # c
      BY <1>17, <2>2
    <2>4. \A q \in Readers : frs[q].buffer = c => (Reading(q)' <=> Reading(q))
      BY <1>14, <2>2
    <2> QED
      BY <2>1, <2>3, <2>4, SameUsers
  <1>18. Keyed'
    <2> SUFFICES ASSUME NEW c \in Buffers, c # b PROVE pool[c].data_key # key
      BY <1>1, <1>7 DEF Keyed, TakenFor
    <2> QED
      BY <1>1, <1>2, <1>3, <1>6 DEF Keyed
  <1>19. ASSUME NEW q \in Readers, q # r, frs[q].buffer # Null
         PROVE  /\ pool'[frs[q].buffer].state = pool[frs[q].buffer].state
                /\ pool'[frs[q].buffer].data_key = pool[frs[q].buffer].data_key
                /\ pool'[frs[q].buffer].content = pool[frs[q].buffer].content
    <2>1. CASE frs[q].buffer = b
      <3>1. q \in UsersOf(b)
        BY <2>1 DEF UsersOf
      <3>2. pool[b].data_key = key /\ pool[b].state # "NEW"
        BY <1>1, <1>2, <1>6, <3>1 DEF Accounted
      <3> QED
        BY <1>7, <2>1, <3>2 DEF TakenFor
    <2>2. CASE frs[q].buffer # b
      BY <1>1, <1>7, <1>19, <2>2 DEF TakenFor
    <2> QED
      BY <2>1, <2>2
  <1>20. ASSUME NEW q \in Readers PROVE Waits(q)'
    <2>1. Waits(q)
      BY <1>1
    <2>2. CASE q = r
      <3>1. \A size \in 0..MaxSize : ~In(<<"aio", q, size>>, posted')
        BY <1>11, <1>13, <2>2
      <3>2. q \in aio' => t[b].state = "NEW"
        BY <1>13, <2>2
      <3>3. In(<<"full", q>>, posted') => t[b].state = "VALID_DATA"
        BY <1>10, <1>13, <2>2
      <3>4. /\ t[b].state = "NEW" => pool'[b].state = "IN_LOOKUP"
            /\ t[b].state = "VALID_DATA" => pool'[b].state = "VALID_DATA"
            /\ pool'[b].data_key = key
        BY <1>7 DEF TakenFor
      <3> QED
        BY <1>3, <2>2, <3>1, <3>2, <3>3, <3>4 DEF Waits
    <2>3. CASE q # r
      <3>1. frs'[q] = frs[q] /\ (q \in aio' <=> q \in aio)
        BY <1>12, <2>3
      <3>2. In(<<"full", q>>, posted') <=> In(<<"full", q>>, posted)
        BY <1>12, <2>3
      <3>3. CASE frs[q].buffer = Null
        BY <1>11, <2>1, <3>1, <3>2, <3>3 DEF Waits
      <3>4. CASE frs[q].buffer # Null
        BY <1>11, <1>19, <2>1, <2>3, <3>1, <3>2, <3>4 DEF Waits
      <3> QED
        BY <3>3, <3>4
    <2> QED
      BY <2>2, <2>3
  <1> QED
    BY <1>7, <1>16, <1>17, <1>18, <1>19, <1>20 DEF Accounts, TakenFor

\* The answer to a read is taken: whoever waits for the buffer may use it.
LEMMA MarkAccounts ==
    ASSUME Typed, Accounts, Lone(posted, ReadAnswers), NEW r \in Readers, NEW size \in 0..MaxSize,
           NEW b, b = frs[r].buffer,
           posted # <<>>, Head(posted) = <<"aio", r, size>>, posted' = Tail(posted),
           pool' = MarkValidData(pool, b, size), aio' = aio, frs' = frs
    PROVE  /\ Accounts' /\ pool' \in Pool
           /\ frs[r].io /\ frs[r].buffer \in Buffers /\ pool[b].state = "IN_LOOKUP"
           /\ pool'[b].state = "VALID_DATA"
           /\ \A c \in Buffers : c # b => pool'[c] = pool[c]
           /\ pool[b].done = UsersOf(b) \ {r}
           /\ \A q \in UsersOf(b) : frs[q].io /\ ~In(<<"full", q>>, posted)
  <1>1. /\ \A c \in Buffers : Accounted(c)
        /\ Keyed /\ \A q \in Readers : Waits(q)
        /\ pool \in Pool /\ \A q \in Readers : frs[q].buffer \in Buffers \cup {Null}
        /\ posted \in Seq(Closure)
    BY DEF Accounts, Typed, ReaderTyped
  <1>2. /\ \A c : In(c, posted) <=> c = <<"aio", r, size>> \/ In(c, Tail(posted))
        /\ \A c : In(c, Tail(posted)) /\ c[1] \in ReadAnswers => c[2] # r
    <2>1. Head(posted)[1] \in ReadAnswers /\ Head(posted)[2] = r
      BY DEF ReadAnswers
    <2> QED
      BY <1>1, <2>1, InTail, LoneTail
  <1>3. /\ frs[r].io /\ pool[b].state = "IN_LOOKUP" /\ r \notin aio
        /\ pool[b].content = frs[r].pos /\ size \in {0, Size(frs[r].pos)}
        /\ b \in Buffers /\ frs[r].pos = pool[b].data_key
    <2>1. In(<<"aio", r, size>>, posted)
      BY <1>2
    <2>2. Waits(r)
      BY <1>1
    <2>3. frs[r].io /\ b # Null
      BY <2>1, <2>2 DEF Waits
    <2> QED
      BY <1>1, <2>1, <2>2, <2>3 DEF Waits
  <1>4. r \in UsersOf(b) /\ Reading(r)
    <2>1. In(<<"aio", r, size>>, posted)
      BY <1>2
    <2> QED
      BY <2>1 DEF UsersOf, Reading
  <1>5. /\ pool[b].done = UsersOf(b) \ {r}
        /\ \A q \in UsersOf(b) : frs[q].io /\ (q # r => ~Reading(q))
    <2>1. Accounted(b)
      BY <1>1, <1>3
    <2>2. PICK u \in UsersOf(b) :
            /\ Reading(u) /\ pool[b].done = UsersOf(b) \ {u}
            /\ \A q \in UsersOf(b) : frs[q].io /\ (q # u => ~Reading(q))
      BY <1>3, <2>1 DEF Accounted
    <2>3. u = r
      BY <1>4, <2>2
    <2> QED
      BY <2>2, <2>3
  <1>6. \A q \in UsersOf(b) : q \in Readers /\ frs[q].buffer = b
    BY DEF UsersOf
  <1>7. \A q \in UsersOf(b) : ~In(<<"full", q>>, posted)
    BY <1>1, <1>3, <1>6 DEF Waits
  <1>8. /\ pool' \in Pool /\ \A c \in Buffers : c # b => pool'[c] = pool[c]
        /\ pool'[b].state = "VALID_DATA" /\ pool'[b].data_size = size
        /\ pool'[b].content = pool[b].content /\ pool'[b].data_key = pool[b].data_key
        /\ pool'[b].use_count = pool[b].use_count /\ pool'[b].done = pool[b].done
    <2> DEFINE e == [pool[b] EXCEPT !.data_size = size, !.state = "VALID_DATA"]
    <2>1. pool[b] \in Buffer
      BY <1>1, <1>3 DEF Pool
    <2>2. "VALID_DATA" \in BufferStates
      BY DEF BufferStates
    <2>3. e \in Buffer
      BY <2>1, <2>2 DEF Buffer
    <2>4. pool' = [pool EXCEPT ![b].data_size = size, ![b].state = "VALID_DATA"]
      BY DEF MarkValidData
    <2>5. pool' = [pool EXCEPT ![b] = e]
      BY <1>1, <1>3, <2>4 DEF Pool
    <2>6. /\ e.state = "VALID_DATA" /\ e.data_size = size
          /\ e.content = pool[b].content /\ e.data_key = pool[b].data_key
          /\ e.use_count = pool[b].use_count /\ e.done = pool[b].done
      BY <2>1 DEF Buffer
    <2> HIDE DEF e
    <2> QED
      BY <1>1, <1>3, <2>3, <2>5, <2>6 DEF Pool
  <1>9. \A q \in Readers : q # r => (Reading(q)' <=> Reading(q))
    <2> SUFFICES ASSUME NEW q \in Readers, q # r
                 PROVE  \A n \in 0..MaxSize :
                          In(<<"aio", q, n>>, posted') <=> In(<<"aio", q, n>>, posted)
      BY DEF Reading
    <2> SUFFICES ASSUME NEW n \in 0..MaxSize
                 PROVE  In(<<"aio", q, n>>, posted') <=> In(<<"aio", q, n>>, posted)
      OBVIOUS
    <2>1. <<"aio", q, n>> # <<"aio", r, size>>
      OBVIOUS
    <2> QED
      BY <1>2, <2>1
  <1>10. /\ \A n \in 0..MaxSize : ~In(<<"aio", r, n>>, posted')
         /\ ~In(<<"full", r>>, posted')
    <2>1. "aio" \in ReadAnswers /\ "full" \in ReadAnswers
      BY DEF ReadAnswers
    <2>2. \A n : <<"aio", r, n>>[1] = "aio" /\ <<"aio", r, n>>[2] = r
      OBVIOUS
    <2>3. <<"full", r>>[1] = "full" /\ <<"full", r>>[2] = r
      OBVIOUS
    <2> QED
      BY <1>2, <2>1, <2>2, <2>3
  <1>11. Accounted(b)'
    <2>1. UsersOf(b)' = UsersOf(b)
      BY DEF UsersOf
    <2>2. Accounted(b)
      BY <1>1, <1>3
    <2>3. size > 0 => pool[b].content = pool[b].data_key /\ size <= Size(pool[b].data_key)
      <3>1. pool[b].data_key \in Keys
        BY <1>4, <2>2 DEF Accounted
      <3> QED
        BY <1>3, <3>1, BlockSize, AioConstants
    <2> QED
      BY <1>8, <2>1, <2>2, <2>3 DEF Accounted
  <1>12. ASSUME NEW c \in Buffers, c # b PROVE Accounted(c)'
    <2>1. pool'[c] = pool[c]
      BY <1>8, <1>12
    <2>2. \A q \in Readers : frs'[q] = frs[q]
      OBVIOUS
    <2>3. \A q \in Readers : frs[q].buffer = c => (Reading(q)' <=> Reading(q))
      BY <1>9, <1>12
    <2> QED
      BY <2>1, <2>2, <2>3, SameUsers
  <1>13. Keyed'
    <2>1. \A c \in Buffers : pool'[c].data_key = pool[c].data_key
      BY <1>8
    <2> QED
      BY <1>1, <2>1 DEF Keyed
  <1>14. ASSUME NEW q \in Readers PROVE Waits(q)'
    <2>1. Waits(q)
      BY <1>1
    <2>2. CASE q = r
      BY <1>3, <1>8, <1>10, <2>1, <2>2 DEF Waits
    <2>3. CASE q # r /\ frs[q].buffer = b
      <3>1. ~Reading(q)' /\ frs[q].io /\ ~In(<<"full", q>>, posted)
        BY <1>5, <1>7, <1>9, <2>3 DEF UsersOf
      <3>2. q \notin aio /\ \A n \in 0..MaxSize : ~In(<<"aio", q, n>>, posted')
        BY <3>1 DEF Reading
      <3>3. ~In(<<"full", q>>, posted')
        BY <1>2, <3>1
      <3> QED
        BY SMTT(30), <1>8, <2>1, <2>3, <3>1, <3>2, <3>3 DEF Waits
    <2>4. CASE q # r /\ frs[q].buffer # b
      <3>1. frs[q].buffer # Null => pool'[frs[q].buffer] = pool[frs[q].buffer]
        BY <1>1, <1>8, <2>4
      <3>2. \A c : In(c, posted') => In(c, posted)
        BY <1>2
      <3> QED
        BY <2>1, <3>1, <3>2 DEF Waits
    <2> QED
      BY <2>2, <2>3, <2>4
  <1>15. Accounts'
    BY <1>11, <1>12, <1>13, <1>14 DEF Accounts
  <1> QED
    BY <1>3, <1>5, <1>7, <1>8, <1>15

\* A read completes.
LEMMA ReadAccounts ==
    ASSUME Typed, Accounts, NEW r \in aio, NEW size \in {0, Size(frs[r].pos)},
           NEW b, b = frs[r].buffer,
           aio' = aio \ {r}, posted' = Append(posted, <<"aio", r, size>>),
           pool' = [pool EXCEPT ![b].content = frs[r].pos], frs' = frs
    PROVE  /\ Accounts' /\ pool' \in Pool /\ posted' \in Seq(Closure)
           /\ frs[r].io /\ pool[b].state = "IN_LOOKUP"
           /\ \A c \in Buffers : /\ pool'[c].state = pool[c].state
                                 /\ pool'[c].data_key = pool[c].data_key
                                 /\ pool'[c].use_count = pool[c].use_count
           /\ \A c : In(c, posted') <=> In(c, posted) \/ c = <<"aio", r, size>>
           /\ \A n \in 0..MaxSize : ~In(<<"aio", r, n>>, posted)
  <1>1. /\ \A c \in Buffers : Accounted(c)
        /\ Keyed /\ \A q \in Readers : Waits(q)
        /\ pool \in Pool /\ \A q \in Readers : frs[q].buffer \in Buffers \cup {Null}
        /\ posted \in Seq(Closure) /\ r \in Readers /\ frs[r].pos \in Keys
    BY DEF Accounts, Typed, ReaderTyped
  <1>2. /\ frs[r].io /\ pool[b].state = "IN_LOOKUP" /\ b \in Buffers
        /\ frs[r].pos = pool[b].data_key
        /\ \A n \in 0..MaxSize : ~In(<<"aio", r, n>>, posted)
    <2>1. Waits(r)
      BY <1>1
    <2>2. frs[r].io /\ pool[b].state = "IN_LOOKUP"
      BY <2>1 DEF Waits
    <2>3. b # Null /\ frs[r].pos = pool[b].data_key
      BY <2>1, <2>2 DEF Waits
    <2>4. \A n \in 0..MaxSize : ~In(<<"aio", r, n>>, posted)
      BY <2>1 DEF Waits
    <2> QED
      BY <1>1, <2>2, <2>3, <2>4
  <1>3. size \in 0..MaxSize
    BY <1>1, BlockSize, AioConstants
  <1>4. /\ posted' \in Seq(Closure)
        /\ \A c : In(c, posted') <=> In(c, posted) \/ c = <<"aio", r, size>>
    <2>1. <<"aio", r, size>> \in Closure
      BY <1>1, <1>3 DEF Closure
    <2> QED
      BY <1>1, <2>1, InAppend
  <1>5. r \in UsersOf(b) /\ Reading(r) /\ Reading(r)'
    BY <1>1, <1>3, <1>4 DEF UsersOf, Reading
  <1>6. /\ pool' \in Pool /\ \A c \in Buffers : c # b => pool'[c] = pool[c]
        /\ pool'[b].state = pool[b].state /\ pool'[b].data_size = pool[b].data_size
        /\ pool'[b].content = frs[r].pos /\ pool'[b].data_key = pool[b].data_key
        /\ pool'[b].use_count = pool[b].use_count /\ pool'[b].done = pool[b].done
    <2> DEFINE e == [pool[b] EXCEPT !.content = frs[r].pos]
    <2>1. pool[b] \in Buffer
      BY <1>1, <1>2 DEF Pool
    <2>2. e \in Buffer
      BY <1>1, <2>1 DEF Buffer
    <2>3. pool' = [pool EXCEPT ![b] = e]
      BY <1>1, <1>2 DEF Pool
    <2>4. /\ e.state = pool[b].state /\ e.data_size = pool[b].data_size
          /\ e.content = frs[r].pos /\ e.data_key = pool[b].data_key
          /\ e.use_count = pool[b].use_count /\ e.done = pool[b].done
      BY <2>1 DEF Buffer
    <2> HIDE DEF e
    <2> QED
      BY <1>1, <1>2, <2>2, <2>3, <2>4 DEF Pool
  <1>7. ASSUME NEW q \in Readers, q # r
        PROVE  /\ Reading(q)' <=> Reading(q)
               /\ \A n \in 0..MaxSize :
                    In(<<"aio", q, n>>, posted') <=> In(<<"aio", q, n>>, posted)
               /\ In(<<"full", q>>, posted') <=> In(<<"full", q>>, posted)
    <2>1. ASSUME NEW n \in 0..MaxSize
          PROVE  In(<<"aio", q, n>>, posted') <=> In(<<"aio", q, n>>, posted)
      <3>1. <<"aio", q, n>> # <<"aio", r, size>>
        BY <1>7
      <3> QED
        BY <1>4, <3>1
    <2>2. In(<<"full", q>>, posted') <=> In(<<"full", q>>, posted)
      <3>1. <<"full", q>> # <<"aio", r, size>>
        OBVIOUS
      <3> QED
        BY <1>4, <3>1
    <2> QED
      BY <1>7, <2>1, <2>2 DEF Reading
  <1>8. Accounted(b)'
    <2>1. UsersOf(b)' = UsersOf(b)
      BY DEF UsersOf
    <2>2. Accounted(b)
      BY <1>1, <1>2
    <2>3. PICK u \in UsersOf(b) :
            /\ Reading(u) /\ pool[b].done = UsersOf(b) \ {u}
            /\ \A q \in UsersOf(b) : frs[q].io /\ (q # u => ~Reading(q))
      BY <1>2, <2>2 DEF Accounted
    <2>4. u = r
      BY <1>5, <2>3
    <2>5. \A q \in UsersOf(b) : q \in Readers
      BY DEF UsersOf
    <2>6. \A q \in UsersOf(b) : frs'[q].io /\ (q # r => ~Reading(q)')
      BY <1>7, <2>3, <2>4, <2>5
    <2>7. pool'[b].done = UsersOf(b)' \ {r} /\ r \in UsersOf(b)' /\ Reading(r)'
      BY <1>5, <1>6, <2>1, <2>3, <2>4
    <2>8. \A q \in UsersOf(b)' : frs'[q].io /\ (q # r => ~Reading(q)')
      BY <2>1, <2>6
    <2>9. /\ pool'[b].use_count = Cardinality(UsersOf(b)') /\ pool'[b].done \subseteq UsersOf(b)'
          /\ pool'[b].state = "IN_LOOKUP"
      BY <1>2, <1>6, <2>1, <2>2 DEF Accounted
    <2>10. UsersOf(b)' # {} => pool'[b].data_key \in Keys
      BY <1>6, <2>1, <2>2 DEF Accounted
    <2> QED
      BY <2>7, <2>8, <2>9, <2>10 DEF Accounted
  <1>9. ASSUME NEW c \in Buffers, c # b PROVE Accounted(c)'
    <2>1. pool'[c] = pool[c]
      BY <1>6, <1>9
    <2>2. \A q \in Readers : frs'[q] = frs[q]
      OBVIOUS
    <2>3. \A q \in Readers : frs[q].buffer = c => (Reading(q)' <=> Reading(q))
      BY <1>7, <1>9
    <2> QED
      BY <2>1, <2>2, <2>3, SameUsers
  <1>10. Keyed'
    <2>1. \A c \in Buffers : pool'[c].data_key = pool[c].data_key
      BY <1>6
    <2> QED
      BY <1>1, <2>1 DEF Keyed
  <1>11. ASSUME NEW q \in Readers PROVE Waits(q)'
    <2>1. Waits(q)
      BY <1>1
    <2>2. CASE q = r
      <3>1. \A n \in 0..MaxSize : In(<<"aio", r, n>>, posted') => n = size
        <4> SUFFICES ASSUME NEW n \in 0..MaxSize, In(<<"aio", r, n>>, posted') PROVE n = size
          OBVIOUS
        <4>1. <<"aio", r, n>> = <<"aio", r, size>>
          BY <1>2, <1>4
        <4> QED
          BY <4>1
      <3>2. r \notin aio' /\ ~In(<<"full", r>>, posted')
        <4>1. <<"full", r>> # <<"aio", r, size>>
          OBVIOUS
        <4>2. ~In(<<"full", r>>, posted)
          BY <1>2, <2>1, <2>2 DEF Waits
        <4> QED
          BY <1>4, <4>1, <4>2
      <3> QED
        BY <1>2, <1>6, <2>1, <2>2, <3>1, <3>2 DEF Waits
    <2>3. CASE q # r
      <3>1. CASE frs[q].buffer = b
        <4>1. ~Reading(q)
          <5>1. Accounted(b) /\ q \in UsersOf(b)
            BY <1>1, <1>2, <3>1 DEF UsersOf
          <5>2. PICK u \in UsersOf(b) :
                  \A p \in UsersOf(b) : p # u => ~Reading(p)
            BY <1>2, <5>1 DEF Accounted
          <5> QED
            BY <1>5, <2>3, <5>1, <5>2
        <4>2. q \notin aio' /\ \A n \in 0..MaxSize : ~In(<<"aio", q, n>>, posted')
          BY <1>7, <2>3, <4>1 DEF Reading
        <4> QED
          BY SMTT(30), <1>6, <1>7, <2>1, <2>3, <3>1, <4>2 DEF Waits
      <3>2. CASE frs[q].buffer # b
        <4>1. frs[q].buffer # Null => pool'[frs[q].buffer] = pool[frs[q].buffer]
          BY <1>1, <1>6, <3>2
        <4> QED
          BY <1>7, <2>1, <2>3, <4>1 DEF Waits
      <3> QED
        BY <3>1, <3>2
    <2> QED
      BY <2>2, <2>3
  <1>12. Accounts'
    BY <1>8, <1>9, <1>10, <1>11 DEF Accounts
  <1> QED
    BY <1>2, <1>4, <1>6, <1>12

-----------------------------------------------------------------------------
(* The calls of a turn *)

\* Calls that only tell the client; calls of which at most one carries r on.
OnlyTags(frames) == frames \in Seq(Frame) /\ \A c : In(c, frames) => c[1] = "tag"
CarryOn(frames, r) ==
    /\ frames \in Seq(Frame)
    /\ \A c : In(c, frames) => c[1] = "tag" \/ c \in {<<"read", r>>, <<"data", r>>, <<"sent", r>>}
    /\ Lone(frames, Mains)

LEMMA NoCalls == OnlyTags(<<>>)
  BY InEmpty DEF OnlyTags

LEMMA OneTag ==
    ASSUME NEW r \in Readers, NEW kind \in Kinds, NEW t \in Nat
    PROVE  OnlyTags(<<<<"tag", r, kind, t>>>>)
  <1> DEFINE c == <<"tag", r, kind, t>>
  <1>1. c \in Frame /\ c[1] = "tag"
    BY DEF Frame
  <1> HIDE DEF c
  <1>2. <<c>> \in Seq(Frame)
    BY <1>1
  <1> QED
    BY <1>1, <1>2, InOne DEF OnlyTags, c

LEMMA OnlyTagsConcat ==
    ASSUME NEW a, NEW b, OnlyTags(a), OnlyTags(b)
    PROVE  OnlyTags(a \o b)
  <1>1. a \in Seq(Frame) /\ b \in Seq(Frame) /\ a \o b \in Seq(Frame)
    BY ConcatProperties DEF OnlyTags
  <1> QED
    BY <1>1, InConcat DEF OnlyTags

LEMMA TagsCarryOn ==
    ASSUME NEW frames, OnlyTags(frames), NEW r
    PROVE  CarryOn(frames, r)
  <1>1. \A i \in DOMAIN frames : frames[i][1] \notin Mains
    BY DEF OnlyTags, In, Mains
  <1> QED
    BY <1>1 DEF OnlyTags, CarryOn, Lone

LEMMA OneCall ==
    ASSUME NEW r \in Readers, NEW c \in {"read", "data", "sent"}
    PROVE  CarryOn(<<<<c, r>>>>, r)
  <1> DEFINE d == <<c, r>>
  <1>1. d \in Frame /\ d \in {<<"read", r>>, <<"data", r>>, <<"sent", r>>}
    BY DEF Frame
  <1> HIDE DEF d
  <1>2. <<d>> \in Seq(Frame)
    BY <1>1
  <1> QED
    BY <1>1, <1>2, InOne, LoneOne DEF CarryOn, d

LEMMA TagsThenCall ==
    ASSUME NEW a, OnlyTags(a), NEW r \in Readers, NEW b, CarryOn(b, r)
    PROVE  CarryOn(a \o b, r)
  <1>1. a \in Seq(Frame) /\ b \in Seq(Frame) /\ a \o b \in Seq(Frame)
    BY ConcatProperties DEF OnlyTags, CarryOn
  <1>2. CarryOn(a, r)
    BY TagsCarryOn
  <1>3. \A c, d : In(c, a) /\ In(d, b) /\ c[1] \in Mains /\ d[1] \in Mains => c[2] # d[2]
    BY DEF OnlyTags, Mains
  <1>4. Lone(a \o b, Mains)
    BY <1>1, <1>2, <1>3, LoneConcat DEF CarryOn
  <1> QED
    BY <1>1, <1>2, <1>4, InConcat DEF CarryOn

LEMMA StopElementTags ==
    ASSUME NEW f, NEW r \in Readers
    PROVE  OnlyTags(StopElement(f, r))
  <1>1. OnlyTags(<<<<"tag", r, "ended", 0>>>>) /\ OnlyTags(<<<<"tag", r, "eos", 0>>>>)
    BY OneTag DEF Kinds
  <1>2. OnlyTags(IF f.boot THEN <<>> ELSE <<<<"tag", r, "ended", 0>>>>)
    BY <1>1, NoCalls
  <1> QED
    BY <1>1, <1>2, OnlyTagsConcat DEF StopElement

LEMMA AfterLoopCarriesOn ==
    ASSUME NEW f, NEW r \in Readers
    PROVE  CarryOn(AfterLoop(f, r), r)
  <1>1. CarryOn(<<<<"read", r>>>>, r)
    BY OneCall
  <1> QED
    BY <1>1, StopElementTags, TagsCarryOn DEF AfterLoop

LEMMA TagsForCarryOn ==
    ASSUME NEW f, NEW r \in Readers, NEW t \in Nat
    PROVE  CarryOn(TagsFor(f, r, t), r)
  <1> DEFINE a == IF f.boot THEN <<<<"tag", r, "started", 0>>>> ELSE <<>>
             b == IF f.seekPos # 0 THEN <<<<"tag", r, "seek", 0>>>> ELSE <<>>
             m == <<<<"tag", r, "media", t>>, <<"sent", r>>>>
             d == IF f.limit # 0 /\ t >= f.limit THEN StopElement([f EXCEPT !.boot = FALSE], r)
                  ELSE m
  <1>1. OnlyTags(a) /\ OnlyTags(b)
    BY OneTag, NoCalls DEF Kinds
  <1>2. CarryOn(m, r)
    <2>1. OnlyTags(<<<<"tag", r, "media", t>>>>)
      BY OneTag DEF Kinds
    <2>2. CarryOn(<<<<"sent", r>>>>, r)
      BY OneCall
    <2>3. m = <<<<"tag", r, "media", t>>>> \o <<<<"sent", r>>>>
      OBVIOUS
    <2> QED
      BY <2>1, <2>2, <2>3, TagsThenCall
  <1>3. CarryOn(d, r)
    BY <1>2, StopElementTags, TagsCarryOn
  <1>4. TagsFor(f, r, t) = (a \o b) \o d
    BY DEF TagsFor
  <1> HIDE DEF a, b, m, d
  <1> QED
    BY <1>1, <1>3, <1>4, OnlyTagsConcat, TagsThenCall

LEMMA IdleTurn ==
    ASSUME Turns, work = <<>>, ~failed, NEW r \in Readers
    PROVE  frs[r].at # "registering" /\ frs[r].alarm # "firing"
  <1>1. Turn(r) /\ work # <<<<"read", r>>>> /\ ~In(<<"fired", r>>, work)
    BY InEmpty DEF Turns
  <1> QED
    BY <1>1 DEF Turn

LEMMA IdleAgain ==
    ASSUME work' = <<>>, NEW r \in Readers, frs'[r].at # "registering", frs'[r].alarm # "firing"
    PROVE  Turn(r)'
  <1>1. \A c : ~In(c, work')
    BY InEmpty
  <1> QED
    BY <1>1 DEF Turn

\* A call that carries a reader on is taken and replaced by at most another one.
LEMMA MainTurn ==
    ASSUME Typed, Accounts, Turns, ~failed,
           NEW r \in Readers, NEW m \in Mains, work # <<>>, Head(work) = <<m, r>>,
           NEW frames, CarryOn(frames, r), work' = frames \o Tail(work),
           \A q \in Readers : q # r => /\ frs'[q] = frs[q]
                                       /\ In(<<"full", q>>, posted') => In(<<"full", q>>, posted),
           \A q \in Readers : q # r /\ frs[q].buffer # Null =>
                 pool'[frs[q].buffer].state = pool[frs[q].buffer].state,
           \A c \in {"read", "data", "sent"} : In(<<c, r>>, frames) => ~frs'[r].io /\ frs'[r].at = "open",
           frs'[r].at = "registering" => failed',
           frs'[r].alarm = "firing" => frs[r].alarm = "firing"
    PROVE  work' \in Seq(Frame) /\ Lone(work', Mains) /\ \A q \in Readers : Turn(q)'
  <1> DEFINE rest == Tail(work)
  <1>1. /\ work \in Seq(Frame) /\ rest \in Seq(Frame) /\ frames \in Seq(Frame)
        /\ \A c : In(c, work) <=> c = <<m, r>> \/ In(c, rest)
    BY InTail DEF Typed, CarryOn
  <1>2. Lone(rest, Mains) /\ \A c : In(c, rest) /\ c[1] \in Mains => c[2] # r
    <2>1. Head(work)[1] \in Mains /\ Head(work)[2] = r
      OBVIOUS
    <2> QED
      BY <1>1, <2>1, LoneTail DEF Turns
  <1>0. \A p \in Readers : ~In(<<"op", p>>, frames) /\ ~In(<<"fired", p>>, frames)
    <2> SUFFICES ASSUME NEW p \in Readers, NEW c \in {<<"op", p>>, <<"fired", p>>}
                 PROVE  ~In(c, frames)
      OBVIOUS
    <2>1. c[1] \in {"op", "fired"}
      OBVIOUS
    <2> QED
      BY <2>1 DEF CarryOn
  <1> HIDE DEF rest
  <1>3. work' \in Seq(Frame) /\ \A c : In(c, work') <=> In(c, frames) \/ In(c, rest)
    BY <1>1, ConcatProperties, InConcat DEF rest
  <1>4. Lone(work', Mains)
    <2>1. \A c, d : In(c, frames) /\ In(d, rest) /\ c[1] \in Mains /\ d[1] \in Mains => c[2] # d[2]
      BY <1>2 DEF CarryOn, Mains
    <2> QED
      BY <1>1, <1>2, <2>1, LoneConcat DEF CarryOn, rest
  <1>5. ASSUME NEW q \in Readers, q # r PROVE Turn(q)'
    <2>1. Turn(q) /\ Waits(q) /\ Turn(r)
      BY DEF Turns, Accounts
    <2>2. \A c : c[2] = q /\ c[1] \in Mains \cup {"fired"} /\ In(c, work') => In(c, work)
      BY <1>1, <1>3, <1>5 DEF CarryOn, Mains
    <2>3. \A c \in {"op", "read", "data", "sent", "fired"} : In(<<c, q>>, work') => In(<<c, q>>, work)
      BY <2>2 DEF Mains
    <2>4. frs'[q] = frs[q] /\ (In(<<"full", q>>, posted') => In(<<"full", q>>, posted))
      BY <1>5
    <2>5. frs[q].io => pool'[frs[q].buffer].state = pool[frs[q].buffer].state
      BY <1>5, <2>1 DEF Waits
    <2>6. frs[q].alarm = "firing" => In(<<"fired", q>>, work')
      <3>1. <<"fired", q>> # <<m, r>>
        BY <1>5
      <3> QED
        BY <1>1, <1>3, <2>1, <3>1 DEF Turn
    <2>7. frs[q].at # "registering"
      <3>1. work # <<<<"read", q>>>>
        BY <1>5
      <3> QED
        BY <2>1, <3>1 DEF Turn
    <2>8. In(<<"fired", q>>, work') => \A p \in Readers : ~In(<<"op", p>>, work')
      <3>1. \A p \in Readers : In(<<"op", p>>, work') => In(<<"op", p>>, work)
        <4> SUFFICES ASSUME NEW p \in Readers, In(<<"op", p>>, work') PROVE In(<<"op", p>>, work)
          OBVIOUS
        <4>1. ~In(<<"op", p>>, frames)
          BY <1>0
        <4> QED
          BY <1>1, <1>3, <4>1
      <3> QED
        BY <2>1, <2>3, <3>1 DEF Turn
    <2> QED
      BY <2>1, <2>3, <2>4, <2>5, <2>6, <2>7, <2>8 DEF Turn
  <1>6. Turn(r)'
    <2>1. Turn(r)
      BY DEF Turns
    <2>2. ~In(<<"op", r>>, work') /\ \A c \in {"read", "data", "sent"} : In(<<c, r>>, work') => In(<<c, r>>, frames)
      <3>1. \A c \in Mains : ~In(<<c, r>>, rest)
        BY <1>2
      <3>2. ~In(<<"op", r>>, frames)
        BY <1>0
      <3> QED
        BY <1>3, <3>1, <3>2 DEF Mains
    <2>3. frs'[r].alarm = "firing" => In(<<"fired", r>>, work')
      <3>1. <<"fired", r>> # <<m, r>>
        BY DEF Mains
      <3> QED
        BY <1>1, <1>3, <2>1, <3>1 DEF Turn
    <2>4. In(<<"fired", r>>, work') => \A p \in Readers : ~In(<<"op", p>>, work')
      <3>1. \A p \in Readers : In(<<"op", p>>, work') => In(<<"op", p>>, work)
        <4> SUFFICES ASSUME NEW p \in Readers, In(<<"op", p>>, work') PROVE In(<<"op", p>>, work)
          OBVIOUS
        <4>1. ~In(<<"op", p>>, frames)
          BY <1>0
        <4> QED
          BY <1>1, <1>3, <4>1
      <3>2. In(<<"fired", r>>, work') => In(<<"fired", r>>, work)
        <4>1. ~In(<<"fired", r>>, frames)
          BY <1>0
        <4> QED
          BY <1>1, <1>3, <4>1
      <3> QED
        BY <2>1, <3>1, <3>2 DEF Turn
    <2> QED
      BY <2>2, <2>3, <2>4 DEF Turn
  <1> QED
    BY <1>3, <1>4, <1>5, <1>6

\* A call that carries no reader on is taken, and tells the client at most.
LEMMA QuietTurn ==
    ASSUME Typed, Turns, ~failed, work # <<>>, Head(work)[1] \notin Mains,
           NEW frames, OnlyTags(frames), work' = frames \o Tail(work),
           pool' = pool, posted' = posted,
           \A q \in Readers :
              /\ frs'[q].at = frs[q].at /\ frs'[q].io = frs[q].io /\ frs'[q].buffer = frs[q].buffer
              /\ frs'[q].alarm = "firing" => frs[q].alarm = "firing" /\ Head(work) # <<"fired", q>>
    PROVE  work' \in Seq(Frame) /\ Lone(work', Mains) /\ \A q \in Readers : Turn(q)'
  <1> DEFINE rest == Tail(work)
             h == Head(work)
  <1>1. /\ work \in Seq(Frame) /\ rest \in Seq(Frame) /\ frames \in Seq(Frame)
        /\ \A c : In(c, work) <=> c = h \/ In(c, rest)
    BY InTail DEF Typed, OnlyTags
  <1>2. Lone(rest, Mains) /\ CarryOn(frames, h[2])
    BY <1>1, LoneTail, TagsCarryOn DEF Turns
  <1> HIDE DEF rest, h
  <1>3. work' \in Seq(Frame) /\ \A c : In(c, work') <=> In(c, frames) \/ In(c, rest)
    BY <1>1, ConcatProperties, InConcat DEF rest
  <1>4. Lone(work', Mains)
    <2>1. \A c, d : In(c, frames) /\ In(d, rest) /\ c[1] \in Mains /\ d[1] \in Mains => c[2] # d[2]
      BY DEF OnlyTags, Mains
    <2> QED
      BY <1>1, <1>2, <2>1, LoneConcat DEF CarryOn, rest
  <1>5. ASSUME NEW q \in Readers PROVE Turn(q)'
    <2>1. Turn(q)
      BY DEF Turns
    <2>2. \A p \in Readers : \A c \in {"op", "read", "data", "sent", "fired"} :
             In(<<c, p>>, work') => In(<<c, p>>, work)
      <3> SUFFICES ASSUME NEW p \in Readers, NEW c \in {"op", "read", "data", "sent", "fired"},
                          In(<<c, p>>, work')
                   PROVE  In(<<c, p>>, work)
        OBVIOUS
      <3>1. ~In(<<c, p>>, frames)
        BY DEF OnlyTags
      <3> QED
        BY <1>1, <1>3, <3>1
    <2>3. frs'[q].alarm = "firing" => In(<<"fired", q>>, work')
      BY <1>1, <1>3, <2>1 DEF Turn, h
    <2>4. frs[q].at # "registering"
      <3>1. work # <<<<"read", q>>>>
        BY DEF Mains
      <3> QED
        BY <2>1, <3>1 DEF Turn
    <2> QED
      BY <2>1, <2>2, <2>3, <2>4 DEF Turn
  <1> QED
    BY <1>3, <1>4, <1>5

LEMMA SetReader ==
    ASSUME DOMAIN frs = Readers, \A q \in Readers : ReaderTyped(frs[q]),
           NEW r \in Readers, NEW f, ReaderTyped(f), Set(r, f)
    PROVE  /\ DOMAIN frs' = Readers /\ frs'[r] = f
           /\ \A q \in Readers : q # r => frs'[q] = frs[q]
           /\ \A q \in Readers : ReaderTyped(frs'[q])
  BY DEF Set

-----------------------------------------------------------------------------
(* The steps of the loop *)

LEMMA HeadCall ==
    ASSUME Typed, NEW c \in {"op", "read", "data", "sent", "fired", "stop"}, Executes(c)
    PROVE  /\ work # <<>> /\ ~failed /\ element # "deleted"
           /\ Head(work)[2] \in Readers /\ Head(work) = <<c, Head(work)[2]>>
  <1>1. work # <<>> /\ ~failed /\ element # "deleted" /\ Head(work)[1] = c
    BY DEF Executes, Alive
  <1>2. Head(work) \in Frame
    BY <1>1, InTail DEF Typed
  <1> QED
    BY <1>1, <1>2 DEF Frame

LEMMA AnswerOf ==
    ASSUME Typed, NEW c, In(c, posted), c[1] \in ReadAnswers
    PROVE  /\ c[2] \in Readers
           /\ c = <<"full", c[2]>> \/ \E size \in 0..MaxSize : c = <<"aio", c[2], size>>
  <1>1. c \in Closure
    BY DEF In, Typed
  <1> QED
    BY <1>1 DEF Closure, ReadAnswers

LEMMA MakeSeekTyped ==
    ASSUME NEW f, ReaderTyped(f)
    PROVE  /\ ReaderTyped(MakeSeek(f))
           /\ MakeSeek(f).at = f.at /\ MakeSeek(f).io = f.io /\ MakeSeek(f).buffer = f.buffer
           /\ MakeSeek(f).orphan = f.orphan /\ MakeSeek(f).alarm = f.alarm
           /\ f.seekOff = 0 => MakeSeek(f).pos = f.pos
  <1>1. <<>> \in Seq(Nat)
    OBVIOUS
  <1> QED
    BY <1>1 DEF ReaderTyped, Shaped, Fresh, MakeSeek

LEMMA ReadInv == AioInv /\ InitiateAioRequest => AioInv'
  <1> SUFFICES ASSUME AioInv, InitiateAioRequest PROVE AioInv'
    OBVIOUS
  <1>1. Typed /\ Accounts /\ Turns /\ Ends
    BY DEF AioInv
  <1>2. PICK r \in Readers : r = Head(work)[2]
    BY <1>1, HeadCall DEF InitiateAioRequest
  <1>3. work # <<>> /\ ~failed /\ Head(work) = <<"read", r>>
    BY <1>1, <1>2, HeadCall DEF InitiateAioRequest
  <1>4. ReaderTyped(frs[r]) /\ DOMAIN frs = Readers /\ \A q \in Readers : ReaderTyped(frs[q])
    BY <1>1 DEF Typed
  <1>5. ~frs[r].io /\ frs[r].at \in {"open", "registering"}
    <2>1. In(<<"read", r>>, work)
      BY <1>1, <1>3, InTail DEF Typed
    <2> QED
      BY <1>1, <2>1 DEF Turns, Turn
  <1>6. frs[r].at = "registering" =>
          /\ element = "open" /\ frs[r].pos = 1 /\ frs[r].seekOff = 0
          /\ GetBuffer(pool, 1) # {} \/ AddsWhenExhausted
    BY <1>1, <1>3 DEF Turns, Turn
  <1>7. "read" \in Mains /\ CarryOn(<<>>, r) /\ CarryOn(StopElement(MakeSeek(frs[r]), r), r)
        /\ \A c : ~In(c, <<>>)
    BY NoCalls, TagsCarryOn, StopElementTags, InEmpty DEF Mains
  <1>8. element' = element
    BY DEF InitiateAioRequest
  <1>9. CASE frs[r].buffer # Null /\ Then(<<>>) /\ failed' = frs[r].io
             /\ UNCHANGED <<frs, pool, aio, posted>>
    <2>1. work' = <<>> \o Tail(work)
      BY <1>3, <1>9 DEF Then
    <2>2. Accounts'
      BY <1>1, <1>9, KeptAccounts
    <2>3. frs[r].at = "open"
      BY <1>1, <1>9 DEF Accounts, Waits
    <2>4. work' \in Seq(Frame) /\ Lone(work', Mains) /\ \A q \in Readers : Turn(q)'
      BY <1>1, <1>3, <1>7, <1>9, <2>1, <2>3, MainTurn
    <2>5. Typed' /\ ~failed'
      <3>1. failed' = FALSE
        BY <1>4, <1>5, <1>9 DEF ReaderTyped
      <3> QED
        BY <1>1, <1>8, <1>9, <2>4, <3>1 DEF Typed
    <2>6. Turns'
      BY <1>1, <1>9, <2>4 DEF Turns
    <2>7. Ends'
      BY <1>1, <1>8, <1>9 DEF Ends, FileOps
    <2> QED
      BY <2>2, <2>5, <2>6, <2>7 DEF AioInv
  <1>10. CASE /\ frs[r].buffer = Null
              /\ GetBuffer(pool, MakeSeek(frs[r]).pos) = {}
              /\ Set(r, MakeSeek(frs[r]))
              /\ failed' = (MakeSeek(frs[r]).io \/ MakeSeek(frs[r]).at = "registering")
              /\ Then(StopElement(MakeSeek(frs[r]), r))
              /\ UNCHANGED <<pool, aio, posted>>
    <2> DEFINE f == MakeSeek(frs[r])
    <2>1. /\ ReaderTyped(f) /\ f.at = frs[r].at /\ f.io = frs[r].io /\ f.buffer = frs[r].buffer
          /\ f.orphan = frs[r].orphan /\ f.alarm = frs[r].alarm
          /\ frs[r].seekOff = 0 => f.pos = frs[r].pos
      BY <1>4, MakeSeekTyped
    <2>2. work' = StopElement(f, r) \o Tail(work)
      BY <1>3, <1>10 DEF Then
    <2>3. CarryOn(StopElement(f, r), r) /\ OnlyTags(StopElement(f, r))
      BY <1>7, StopElementTags
    <2>4. /\ Set(r, f) /\ GetBuffer(pool, f.pos) = {}
          /\ failed' = (f.io \/ f.at = "registering")
      BY <1>10
    <2> HIDE DEF f
    <2>5. /\ DOMAIN frs' = Readers /\ frs'[r] = f
          /\ \A q \in Readers : q # r => frs'[q] = frs[q]
          /\ \A q \in Readers : ReaderTyped(frs'[q])
      BY <1>4, <2>1, <2>4, SetReader
    <2>6. Accounts'
      <3>1. \A q \in Readers :
              /\ frs'[q].buffer = frs[q].buffer
              /\ frs[q].buffer # Null => frs'[q].pos = frs[q].pos /\ frs'[q].at = frs[q].at
              /\ frs'[q].io = frs[q].io
        BY <1>10, <2>1, <2>5
      <3> QED
        BY <1>1, <1>10, <3>1, KeptAccounts
    <2>7. failed' = (frs[r].at = "registering") /\ failed' \in BOOLEAN
          /\ (frs[r].at = "registering" => Exhausted')
      <3>1. ASSUME frs[r].at = "registering" PROVE Exhausted'
        <4>1. GetBuffer(pool', 1) = {} /\ frs'[r].at = "registering"
          BY <1>6, <1>10, <2>1, <2>4, <2>5, <3>1
        <4> QED
          BY <1>6, <1>10, <2>1, <2>4, <3>1, <4>1 DEF Exhausted
      <3> QED
        BY <1>5, <2>1, <2>4, <3>1
    <2>8. work' \in Seq(Frame) /\ Lone(work', Mains) /\ \A q \in Readers : Turn(q)'
      <3>1. \A c \in {"read", "data", "sent"} : ~In(<<c, r>>, StopElement(f, r))
        <4> SUFFICES ASSUME NEW c \in {"read", "data", "sent"} PROVE <<c, r>>[1] # "tag"
          BY <2>3 DEF OnlyTags
        <4> QED
          OBVIOUS
      <3>2. frs'[r].at = "registering" => failed'
        BY <2>1, <2>5, <2>7
      <3>3. frs'[r].alarm = "firing" => frs[r].alarm = "firing"
        BY <2>1, <2>5
      <3> QED
        BY <1>1, <1>3, <1>7, <1>10, <2>2, <2>3, <2>5, <3>1, <3>2, <3>3, MainTurn
    <2>9. Typed'
      BY <1>1, <1>8, <1>10, <2>5, <2>7, <2>8 DEF Typed
    <2>10. Turns'
      BY <1>1, <1>10, <2>8 DEF Turns
    <2>12. Ends'
      <3>1. FileOps' = FileOps
        BY <2>1, <2>5 DEF FileOps
      <3> QED
        BY <1>1, <1>8, <1>10, <3>1 DEF Ends
    <2> QED
      BY <2>6, <2>7, <2>9, <2>10, <2>12 DEF AioInv
  <1>11. CASE /\ frs[r].buffer = Null
              /\ \E b \in GetBuffer(pool, MakeSeek(frs[r]).pos) :
                   LET taken == Taken(pool, b, MakeSeek(frs[r]).pos)
                       state == taken[b].state
                   IN /\ pool' = BeginUsage(taken, b, r)
                      /\ aio' = IF state = "NEW" THEN aio \cup {r} ELSE aio
                      /\ posted' = IF state = "VALID_DATA" THEN Append(posted, <<"full", r>>)
                                   ELSE posted
                      /\ Set(r, [MakeSeek(frs[r]) EXCEPT !.at = "open", !.io = TRUE, !.buffer = b])
              /\ Then(<<>>)
              /\ failed' = MakeSeek(frs[r]).io
    <2> DEFINE f == MakeSeek(frs[r])
    <2>1. /\ ReaderTyped(f) /\ f.at = frs[r].at /\ f.io = frs[r].io /\ f.buffer = frs[r].buffer
          /\ f.orphan = frs[r].orphan /\ f.alarm = frs[r].alarm
      BY <1>4, MakeSeekTyped
    <2>2. work' = <<>> \o Tail(work) /\ failed' = f.io
      BY <1>3, <1>11 DEF Then
    <2>3. PICK b \in GetBuffer(pool, f.pos) :
            /\ pool' = BeginUsage(Taken(pool, b, f.pos), b, r)
            /\ aio' = IF Taken(pool, b, f.pos)[b].state = "NEW" THEN aio \cup {r} ELSE aio
            /\ posted' = IF Taken(pool, b, f.pos)[b].state = "VALID_DATA"
                           THEN Append(posted, <<"full", r>>) ELSE posted
            /\ Set(r, [f EXCEPT !.at = "open", !.io = TRUE, !.buffer = b])
      BY <1>11
    <2> HIDE DEF f
    <2>4. b \in Buffers
      BY <2>3 DEF GetBuffer, Unallocated, FreeBuffers
    <2> DEFINE g == [f EXCEPT !.at = "open", !.io = TRUE, !.buffer = b]
    <2>5. /\ ReaderTyped(g) /\ g.at = "open" /\ g.io = TRUE /\ g.buffer = b /\ g.pos = f.pos
          /\ g.orphan = f.orphan /\ g.alarm = f.alarm
      BY <2>1, <2>4 DEF ReaderTyped, Shaped, Fresh
    <2> HIDE DEF g
    <2>6. Set(r, g)
      BY <2>3 DEF g
    <2>7. /\ DOMAIN frs' = Readers /\ frs'[r] = g
          /\ \A q \in Readers : q # r => frs'[q] = frs[q]
          /\ \A q \in Readers : ReaderTyped(frs'[q])
      BY <1>4, <2>5, <2>6, SetReader
    <2>8. PICK t : t = Taken(pool, b, f.pos)
      OBVIOUS
    <2>9. PICK key \in Keys : key = f.pos
      BY <2>1 DEF ReaderTyped
    <2>10. /\ pool' = BeginUsage(t, b, r) /\ b \in GetBuffer(pool, key) /\ t = Taken(pool, b, key)
           /\ aio' = IF t[b].state = "NEW" THEN aio \cup {r} ELSE aio
           /\ posted' = IF t[b].state = "VALID_DATA" THEN Append(posted, <<"full", r>>) ELSE posted
           /\ frs'[r].at = "open" /\ frs'[r].io = TRUE /\ frs'[r].buffer = b /\ frs'[r].pos = key
      BY <2>3, <2>5, <2>7, <2>8, <2>9
    <2>11. /\ Accounts' /\ pool' \in Pool
           /\ \A q \in Readers : q # r /\ frs[q].buffer # Null =>
                 pool'[frs[q].buffer].state = pool[frs[q].buffer].state
      BY <1>1, <1>11, <2>7, <2>10, TakeAccounts
    <2>12. /\ posted' \in Seq(Closure)
           /\ \A c : In(c, posted') => In(c, posted) \/ c = <<"full", r>>
           /\ Lone(posted', ReadAnswers)
      <3>1. <<"full", r>> \in Closure /\ posted \in Seq(Closure)
        BY <1>1 DEF Closure, Typed
      <3>2. ASSUME NEW c, In(c, posted), c[1] \in ReadAnswers PROVE c[2] # r
        <4>1. c = <<"full", c[2]>> \/ \E size \in 0..MaxSize : c = <<"aio", c[2], size>>
          BY <1>1, <3>2, AnswerOf
        <4>2. ~In(<<"full", r>>, posted) /\ \A size \in 0..MaxSize : ~In(<<"aio", r, size>>, posted)
          BY <1>1, <1>5 DEF Accounts, Waits
        <4> QED
          BY <3>2, <4>1, <4>2
      <3>3. <<"full", r>>[2] = r
        OBVIOUS
      <3>4. Lone(Append(posted, <<"full", r>>), ReadAnswers)
        BY <1>1, <3>1, <3>2, <3>3, LoneAppend DEF Turns
      <3> QED
        BY <1>1, <2>10, <3>1, <3>4, InAppend DEF Turns
    <2>13. work' \in Seq(Frame) /\ Lone(work', Mains) /\ \A q \in Readers : Turn(q)'
      <3>1. \A q \in Readers : q # r => /\ frs'[q] = frs[q]
                                        /\ In(<<"full", q>>, posted') => In(<<"full", q>>, posted)
        <4> SUFFICES ASSUME NEW q \in Readers, q # r
                     PROVE  In(<<"full", q>>, posted') => In(<<"full", q>>, posted)
          BY <2>7
        <4>1. <<"full", q>> # <<"full", r>>
          OBVIOUS
        <4> QED
          BY <2>12, <4>1
      <3>2. frs'[r].at # "registering" /\ (frs'[r].alarm = "firing" => frs[r].alarm = "firing")
        BY <2>1, <2>5, <2>7, <2>10
      <3> QED
        BY <1>1, <1>3, <1>7, <2>2, <2>11, <3>1, <3>2, MainTurn
    <2>14. aio' \subseteq Readers /\ failed' = FALSE
      BY <1>1, <1>5, <2>1, <2>2, <2>10 DEF Typed, ReaderTyped
    <2>15. Typed'
      BY <1>1, <1>8, <2>7, <2>11, <2>12, <2>13, <2>14 DEF Typed
    <2>16. Turns'
      BY <2>12, <2>13 DEF Turns
    <2>18. Ends'
      <3>1. element \notin {"closed", "deleted"}
        BY <1>1, <1>5, <1>6 DEF Ends, FileOps
      <3>2. ~In(<<"closed">>, posted')
        <4>1. <<"closed">> # <<"full", r>>
          OBVIOUS
        <4> QED
          BY <1>1, <2>12, <3>1, <4>1 DEF Ends
      <3> QED
        BY <1>8, <3>1, <3>2 DEF Ends
    <2> QED
      BY <2>11, <2>14, <2>15, <2>16, <2>18 DEF AioInv
  <1> QED
    BY <1>2, <1>9, <1>10, <1>11 DEF InitiateAioRequest

\* Steps that touch neither the pool nor what is posted, and leave what a reader
\* waits for.
LEMMA QuietInv ==
    ASSUME AioInv, ~failed, pool' = pool, aio' = aio, posted' = posted, element' = element,
           failed' = failed, DOMAIN frs' = Readers,
           \A q \in Readers :
              /\ ReaderTyped(frs'[q])
              /\ frs'[q].at = frs[q].at /\ frs'[q].buffer = frs[q].buffer
              /\ frs[q].buffer # Null => frs'[q].pos = frs[q].pos,
           \A q \in Readers : frs'[q].io = frs[q].io,
           work' \in Seq(Frame), Lone(work', Mains), \A q \in Readers : Turn(q)'
    PROVE  AioInv'
  <1>1. Typed /\ Accounts /\ Turns /\ Ends
    BY DEF AioInv
  <1>2. Accounts'
    BY <1>1, KeptAccounts
  <1>3. Typed'
    BY <1>1 DEF Typed
  <1>4. Turns'
    BY <1>1 DEF Turns
  <1>5. Ends'
    <2>1. FileOps' = FileOps
      BY DEF FileOps
    <2> QED
      BY <1>1, <2>1 DEF Ends
  <1> QED
    BY <1>2, <1>3, <1>4, <1>5 DEF AioInv

LEMMA StopInv == AioInv /\ StopReader => AioInv'
  <1> SUFFICES ASSUME AioInv, StopReader PROVE AioInv'
    OBVIOUS
  <1>1. Typed /\ Turns
    BY DEF AioInv
  <1>2. PICK r \in Readers : r = Head(work)[2]
    BY <1>1, HeadCall DEF StopReader
  <1>3. work # <<>> /\ ~failed /\ Head(work) = <<"stop", r>>
    BY <1>1, <1>2, HeadCall DEF StopReader
  <1>4. PICK frames : frames = StopElement(frs[r], r)
    OBVIOUS
  <1>5. OnlyTags(frames) /\ work' = frames \o Tail(work)
    BY <1>2, <1>3, <1>4, StopElementTags DEF StopReader, Then
  <1>6. Head(work)[1] \notin Mains /\ \A q \in Readers : Head(work) # <<"fired", q>>
    BY <1>3 DEF Mains
  <1>7. frs' = frs /\ pool' = pool /\ aio' = aio /\ posted' = posted
        /\ element' = element /\ failed' = failed
    BY DEF StopReader
  <1>8. work' \in Seq(Frame) /\ Lone(work', Mains) /\ \A q \in Readers : Turn(q)'
    BY <1>1, <1>3, <1>5, <1>6, <1>7, QuietTurn
  <1>9. DOMAIN frs' = Readers /\ \A q \in Readers : ReaderTyped(frs'[q])
    BY <1>1, <1>7 DEF Typed
  <1> QED
    BY <1>3, <1>7, <1>8, <1>9, QuietInv

LEMMA SentInv == AioInv /\ TagSent => AioInv'
  <1> SUFFICES ASSUME AioInv, TagSent PROVE AioInv'
    OBVIOUS
  <1>1. Typed /\ Accounts /\ Turns
    BY DEF AioInv
  <1>2. PICK r \in Readers : r = Head(work)[2]
    BY <1>1, HeadCall DEF TagSent
  <1>3. work # <<>> /\ ~failed /\ Head(work) = <<"sent", r>>
    BY <1>1, <1>2, HeadCall DEF TagSent
  <1>4. ~frs[r].io /\ frs[r].at = "open"
    <2>1. In(<<"sent", r>>, work) /\ "sent" # "read"
      BY <1>1, <1>3, InTail DEF Typed
    <2> QED
      BY <1>1, <2>1 DEF Turns, Turn
  <1>5. PICK f : f = frs[r] /\ ReaderTyped(f)
    BY <1>1 DEF Typed
  <1>6. PICK stops : stops = (f.pauses > 0 /\ f.seekPos = 0)
    OBVIOUS
  <1>7. PICK frames : frames = IF f.pauses = 0 THEN <<<<"data", r>>>>
                             ELSE IF stops THEN <<>> ELSE AfterLoop(f, r)
    OBVIOUS
  <1> DEFINE g == [f EXCEPT !.left = stops /\ f.orphan]
  <1>8. /\ Set(r, g) /\ work' = frames \o Tail(work)
        /\ pool' = pool /\ aio' = aio /\ posted' = posted
        /\ element' = element /\ failed' = failed
    BY <1>2, <1>3, <1>5, <1>6, <1>7 DEF TagSent, Continue, Then
  <1>9. /\ ReaderTyped(g) /\ g.at = f.at /\ g.io = f.io /\ g.buffer = f.buffer /\ g.pos = f.pos
        /\ g.alarm = f.alarm
    BY <1>5 DEF ReaderTyped, Shaped, Fresh
  <1> HIDE DEF g
  <1>10. /\ DOMAIN frs' = Readers /\ frs'[r] = g
         /\ \A q \in Readers : q # r => frs'[q] = frs[q]
         /\ \A q \in Readers : ReaderTyped(frs'[q])
    BY <1>1, <1>8, <1>9, SetReader DEF Typed
  <1>11. CarryOn(frames, r)
    <2>1. CarryOn(<<<<"data", r>>>>, r) /\ CarryOn(AfterLoop(f, r), r) /\ CarryOn(<<>>, r)
      BY OneCall, AfterLoopCarriesOn, NoCalls, TagsCarryOn
    <2> QED
      BY <1>7, <2>1
  <1>12. \A q \in Readers :
           /\ frs'[q].at = frs[q].at /\ frs'[q].buffer = frs[q].buffer /\ frs'[q].pos = frs[q].pos
           /\ frs'[q].io = frs[q].io /\ frs'[q].alarm = frs[q].alarm
    BY <1>5, <1>9, <1>10
  <1>13. work' \in Seq(Frame) /\ Lone(work', Mains) /\ \A q \in Readers : Turn(q)'
    BY <1>1, <1>3, <1>4, <1>8, <1>10, <1>11, <1>12, MainTurn DEF Mains
  <1> QED
    BY <1>3, <1>8, <1>10, <1>12, <1>13, QuietInv

\* What the client is told changes none of this.
LEMMA ToldTyped ==
    ASSUME NEW f, ReaderTyped(f), NEW kind, NEW t
    PROVE  /\ ReaderTyped(Told(f, kind, t))
           /\ LET g == Told(f, kind, t)
              IN /\ g.at = f.at /\ g.buffer = f.buffer /\ g.pos = f.pos
                 /\ g.orphan = f.orphan /\ g.alarm = f.alarm /\ g.io = f.io
  BY DEF ReaderTyped, Shaped, Fresh, Told

LEMMA TagInv == AioInv /\ SendTag => AioInv'
  <1> SUFFICES ASSUME AioInv, SendTag PROVE AioInv'
    OBVIOUS
  <1>1. Typed /\ Turns
    BY DEF AioInv
  <1>2. work # <<>> /\ ~failed /\ Head(work)[1] = "tag" /\ Head(work)[2] \in Readers
    <2>1. work # <<>> /\ ~failed /\ Head(work)[1] = "tag"
      BY DEF SendTag, Executes, Alive
    <2>2. Head(work) \in Frame
      BY <1>1, <2>1, InTail DEF Typed
    <2> QED
      BY <2>1, <2>2 DEF Frame
  <1>3. PICK r \in Readers : r = Head(work)[2]
    BY <1>2
  <1>4. PICK kind : kind = Head(work)[3]
    OBVIOUS
  <1>5. PICK t : t = Head(work)[4]
    OBVIOUS
  <1> DEFINE ends == kind = "eos"
             before == [frs[r] EXCEPT !.control = @ /\ ~ends, !.boot = @ /\ ~ends]
             f == Told(before, kind, t)
  <1>6. \/ Set(r, f)
        \/ Set(r, [f EXCEPT !.pauses = @ + 1, !.npause = @ + 1])
        \/ Set(r, [f EXCEPT !.pauses = @ - 1])
        \/ Set(r, [f EXCEPT !.orphan = TRUE])
    BY <1>3, <1>4, <1>5 DEF SendTag
  <1>7. /\ ReaderTyped(before) /\ before.at = frs[r].at /\ before.buffer = frs[r].buffer
        /\ before.pos = frs[r].pos /\ before.orphan = frs[r].orphan
        /\ before.alarm = frs[r].alarm /\ before.io = frs[r].io
    <2>1. ReaderTyped(frs[r])
      BY <1>1 DEF Typed
    <2> QED
      BY <2>1 DEF ReaderTyped, Shaped, Fresh
  <1> HIDE DEF before
  <1>8. /\ ReaderTyped(f) /\ f.at = frs[r].at /\ f.buffer = frs[r].buffer /\ f.pos = frs[r].pos
        /\ f.orphan = frs[r].orphan /\ f.alarm = frs[r].alarm /\ f.io = frs[r].io
    BY <1>7, ToldTyped
  <1> HIDE DEF f
  <1> DEFINE Is(g) == /\ Set(r, g) /\ ReaderTyped(g) /\ g.at = frs[r].at
                      /\ g.buffer = frs[r].buffer
                      /\ g.pos = frs[r].pos /\ g.alarm = frs[r].alarm /\ g.io = frs[r].io
  <1>9. PICK g : Is(g)
    <2>1. CASE Set(r, f)
      BY <1>8, <2>1
    <2>2. CASE Set(r, [f EXCEPT !.pauses = @ + 1, !.npause = @ + 1])
      <3> DEFINE g == [f EXCEPT !.pauses = @ + 1, !.npause = @ + 1]
      <3>1. /\ ReaderTyped(g) /\ g.at = f.at /\ g.buffer = f.buffer /\ g.pos = f.pos
            /\ g.alarm = f.alarm /\ g.io = f.io
        BY <1>8 DEF ReaderTyped, Shaped, Fresh
      <3> HIDE DEF g
      <3>2. Set(r, g)
        BY <2>2 DEF g
      <3> QED
        BY <1>8, <3>1, <3>2
    <2>3. CASE Set(r, [f EXCEPT !.pauses = @ - 1])
      BY <1>8, <2>3 DEF ReaderTyped, Shaped, Fresh
    <2>4. CASE Set(r, [f EXCEPT !.orphan = TRUE])
      <3> DEFINE g == [f EXCEPT !.orphan = TRUE]
      <3>1. /\ ReaderTyped(g) /\ g.at = f.at /\ g.buffer = f.buffer /\ g.pos = f.pos
            /\ g.alarm = f.alarm /\ g.io = f.io
        BY <1>8 DEF ReaderTyped, Shaped, Fresh
      <3> HIDE DEF g
      <3>2. Set(r, g)
        BY <2>4 DEF g
      <3> QED
        BY <1>8, <3>1, <3>2
    <2> HIDE DEF Is
    <2> QED
      BY <1>6, <2>1, <2>2, <2>3, <2>4
  <1>10. /\ DOMAIN frs' = Readers /\ frs'[r] = g
         /\ \A q \in Readers : q # r => frs'[q] = frs[q]
         /\ \A q \in Readers : ReaderTyped(frs'[q])
    BY <1>1, <1>9, SetReader DEF Typed
  <1>11. /\ pool' = pool /\ aio' = aio /\ posted' = posted /\ element' = element
         /\ failed' = failed /\ work' = <<>> \o Tail(work)
    BY <1>2 DEF SendTag, Then
  <1>12. \A q \in Readers :
           /\ frs'[q].at = frs[q].at /\ frs'[q].buffer = frs[q].buffer /\ frs'[q].pos = frs[q].pos
           /\ frs'[q].io = frs[q].io /\ frs'[q].alarm = frs[q].alarm
    BY <1>9, <1>10
  <1>13. work' \in Seq(Frame) /\ Lone(work', Mains) /\ \A q \in Readers : Turn(q)'
    <2>1. Head(work)[1] \notin Mains /\ \A q \in Readers : Head(work) # <<"fired", q>>
      BY <1>2 DEF Mains
    <2> QED
      BY <1>1, <1>2, <1>11, <1>12, <2>1, NoCalls, QuietTurn
  <1> QED
    BY <1>2, <1>10, <1>11, <1>12, <1>13, QuietInv

LEMMA FiredInv == AioInv /\ AlarmFired => AioInv'
  <1> SUFFICES ASSUME AioInv, AlarmFired PROVE AioInv'
    OBVIOUS
  <1>1. Typed /\ Turns
    BY DEF AioInv
  <1>2. PICK r \in Readers : r = Head(work)[2]
    BY <1>1, HeadCall DEF AlarmFired
  <1>3. work # <<>> /\ ~failed /\ Head(work) = <<"fired", r>>
    BY <1>1, <1>2, HeadCall DEF AlarmFired
  <1> DEFINE f == [frs[r] EXCEPT !.alarm = "no"]
  <1>4. /\ ReaderTyped(f) /\ f.at = frs[r].at /\ f.buffer = frs[r].buffer /\ f.pos = frs[r].pos
        /\ f.orphan = frs[r].orphan /\ f.alarm = "no" /\ f.io = frs[r].io
    <2>1. ReaderTyped(frs[r])
      BY <1>1 DEF Typed
    <2> QED
      BY <2>1 DEF ReaderTyped, Shaped, Fresh
  <1>5. Set(r, f)
    BY <1>2 DEF AlarmFired
  <1> HIDE DEF f
  <1>6. /\ DOMAIN frs' = Readers /\ frs'[r] = f
        /\ \A q \in Readers : q # r => frs'[q] = frs[q]
        /\ \A q \in Readers : ReaderTyped(frs'[q])
    BY <1>1, <1>4, <1>5, SetReader DEF Typed
  <1>7. /\ pool' = pool /\ aio' = aio /\ posted' = posted /\ element' = element
        /\ failed' = failed /\ work' = <<>> \o Tail(work)
    BY <1>3 DEF AlarmFired, Then
  <1>8. \A q \in Readers :
          /\ frs'[q].at = frs[q].at /\ frs'[q].buffer = frs[q].buffer /\ frs'[q].pos = frs[q].pos
          /\ frs'[q].io = frs[q].io /\ frs'[q].orphan = frs[q].orphan
          /\ frs'[q].alarm \in {frs[q].alarm, "no"}
    BY <1>4, <1>6
  <1>9. work' \in Seq(Frame) /\ Lone(work', Mains) /\ \A q \in Readers : Turn(q)'
    <2>1. Head(work)[1] \notin Mains
      BY <1>3 DEF Mains
    <2>2. \A q \in Readers :
             frs'[q].alarm = "firing" => frs[q].alarm = "firing" /\ Head(work) # <<"fired", q>>
      BY <1>3, <1>4, <1>6, <1>8
    <2> QED
      BY <1>1, <1>3, <1>7, <1>8, <2>1, <2>2, NoCalls, QuietTurn
  <1> QED
    BY <1>3, <1>6, <1>7, <1>8, <1>9, QuietInv

-----------------------------------------------------------------------------
(* The steps between turns *)

\* A turn that starts for one reader.
LEMMA StartTurn ==
    ASSUME Turns, work = <<>>, ~failed, NEW r \in Readers, NEW frames, work' = frames,
           \A c : In(c, frames) => c \in {<<"read", r>>, <<"data", r>>, <<"fired", r>>},
           In(<<"read", r>>, frames) \/ In(<<"data", r>>, frames) =>
              ~frs'[r].io /\ frs'[r].at = "open",
           frs'[r].alarm = "firing" => In(<<"fired", r>>, frames),
           frs'[r].at # "registering",
           \A q \in Readers : q # r => frs'[q] = frs[q]
    PROVE  \A q \in Readers : Turn(q)'
  <1> SUFFICES ASSUME NEW q \in Readers PROVE Turn(q)'
    OBVIOUS
  <1>1. frs'[q].at # "registering"
    BY IdleTurn
  <1>2. frs'[q].alarm = "firing" => In(<<"fired", q>>, work')
    BY IdleTurn
  <1>3. ASSUME NEW p \in Readers, NEW c \in {"op", "read", "data", "sent"}, In(<<c, p>>, work')
        PROVE  p = r /\ c \in {"read", "data"}
    <2>1. <<c, p>> \in {<<"read", r>>, <<"data", r>>, <<"fired", r>>}
      BY <1>3
    <2> QED
      BY <2>1
  <1>4. \A p \in Readers : ~In(<<"op", p>>, work')
    BY <1>3
  <1>5. \A c \in {"read", "data", "sent"} : In(<<c, q>>, work') => ~frs'[q].io /\ frs'[q].at = "open"
    <2> SUFFICES ASSUME NEW c \in {"read", "data", "sent"}, In(<<c, q>>, work')
                 PROVE  ~frs'[q].io /\ frs'[q].at = "open"
      OBVIOUS
    <2>1. q = r /\ c \in {"read", "data"}
      BY <1>3
    <2> QED
      BY <2>1
  <1> QED
    BY <1>1, <1>2, <1>4, <1>5 DEF Turn

\* The client changes its reader, and perhaps starts a turn for it.
LEMMA ClientInv ==
    ASSUME AioInv, work = <<>>, ~failed, NEW r \in Readers, NEW f, Set(r, f), ReaderTyped(f),
           f.at = frs[r].at, f.buffer = frs[r].buffer, f.pos = frs[r].pos, f.io = frs[r].io,
           NEW frames \in Seq(Frame), Lone(frames, Mains), work' = frames,
           \A c : In(c, frames) => c \in {<<"read", r>>, <<"data", r>>, <<"fired", r>>},
           In(<<"read", r>>, frames) \/ In(<<"data", r>>, frames) => ~f.io /\ f.at = "open",
           f.alarm = "firing" => In(<<"fired", r>>, frames),
           pool' = pool, aio' = aio, posted' = posted, element' = element, failed' = failed
    PROVE  AioInv'
  <1>1. Typed /\ Turns
    BY DEF AioInv
  <1>2. /\ DOMAIN frs' = Readers /\ frs'[r] = f
        /\ \A q \in Readers : q # r => frs'[q] = frs[q]
        /\ \A q \in Readers : ReaderTyped(frs'[q])
    BY <1>1, SetReader DEF Typed
  <1>3. \A q \in Readers :
          /\ frs'[q].at = frs[q].at /\ frs'[q].buffer = frs[q].buffer /\ frs'[q].pos = frs[q].pos
          /\ frs'[q].io = frs[q].io
    BY <1>2
  <1>5. \A q \in Readers : Turn(q)'
    <2>1. frs'[r].at # "registering"
      BY <1>1, <1>2, IdleTurn
    <2> QED
      BY <1>1, <1>2, <2>1, StartTurn
  <1> QED
    BY <1>2, <1>3, <1>5, QuietInv

LEMMA OneFrame ==
    ASSUME NEW r \in Readers, NEW c \in {"op", "read", "data", "fired", "stop"}
    PROVE  /\ <<<<c, r>>>> \in Seq(Frame) /\ Lone(<<<<c, r>>>>, Mains)
           /\ \A d : In(d, <<<<c, r>>>>) <=> d = <<c, r>>
  <1> DEFINE x == <<c, r>>
  <1>1. x \in Frame
    BY DEF Frame
  <1> HIDE DEF x
  <1>2. <<x>> \in Seq(Frame) /\ Lone(<<x>>, Mains) /\ \A d : In(d, <<x>>) <=> d = x
    BY <1>1, LoneOne, InOne
  <1> QED
    BY <1>2 DEF x

LEMMA NoFrames == <<>> \in Seq(Frame) /\ Lone(<<>>, Mains) /\ \A c : ~In(c, <<>>)
  <1>1. <<>> \in Seq(Frame)
    OBVIOUS
  <1> QED
    BY <1>1, LoneOne, InEmpty

LEMMA PauseInv == ASSUME NEW r \in Readers PROVE AioInv /\ (Pause(r) \/ Unpause(r)) => AioInv'
  <1> SUFFICES ASSUME AioInv, Pause(r) \/ Unpause(r) PROVE AioInv'
    OBVIOUS
  <1>1. Typed /\ Turns
    BY DEF AioInv
  <1>2. /\ work = <<>> /\ ~failed /\ r \in Controllers /\ ~frs[r].orphan
        /\ pool' = pool /\ aio' = aio /\ posted' = posted /\ element' = element
        /\ failed' = failed /\ work' = <<>>
    BY DEF Pause, Unpause, Controls, BetweenTurns, Alive
  <1>3. ReaderTyped(frs[r]) /\ frs[r].alarm # "firing"
    BY <1>1, <1>2, IdleTurn DEF Typed
  <1>4. PICK f : /\ Set(r, f) /\ ReaderTyped(f) /\ f.at = frs[r].at /\ f.buffer = frs[r].buffer
                 /\ f.pos = frs[r].pos /\ f.io = frs[r].io /\ f.orphan = frs[r].orphan
                 /\ f.alarm # "firing"
    <2>1. CASE Pause(r)
      <3> DEFINE g == [frs[r] EXCEPT !.pauses = @ + 1, !.npause = @ + 1]
      <3>1. /\ ReaderTyped(g) /\ g.at = frs[r].at /\ g.buffer = frs[r].buffer
            /\ g.pos = frs[r].pos /\ g.io = frs[r].io /\ g.orphan = frs[r].orphan
            /\ g.alarm # "firing"
        BY <1>3 DEF ReaderTyped, Shaped, Fresh
      <3>2. Set(r, g)
        BY <2>1 DEF Pause
      <3> HIDE DEF g
      <3> QED
        BY <3>1, <3>2
    <2>2. CASE Unpause(r)
      <3> DEFINE a == IF frs[r].pauses = 1 /\ ~frs[r].io THEN "pending" ELSE frs[r].alarm
                 g == [frs[r] EXCEPT !.pauses = @ - 1, !.alarm = a]
      <3>1. a \in {"no", "pending"}
        BY <1>3 DEF ReaderTyped
      <3>2. Set(r, g)
        BY <2>2 DEF Unpause
      <3> HIDE DEF a
      <3>3. /\ ReaderTyped(g) /\ g.at = frs[r].at /\ g.buffer = frs[r].buffer
            /\ g.pos = frs[r].pos /\ g.io = frs[r].io /\ g.orphan = frs[r].orphan
            /\ g.alarm # "firing"
        BY <1>3, <3>1 DEF ReaderTyped, Shaped, Fresh
      <3> HIDE DEF g
      <3> QED
        BY <3>2, <3>3
    <2> QED
      BY <2>1, <2>2
  <1> QED
    BY <1>2, <1>4, NoFrames, ClientInv

LEMMA SeekTyped ==
    ASSUME NEW f, ReaderTyped(f), NEW t \in 1..FileTags
    PROVE  /\ ReaderTyped(Seek(f, t))
           /\ LET g == Seek(f, t)
              IN /\ g.at = f.at /\ g.buffer = f.buffer /\ g.pos = f.pos /\ g.io = f.io
                 /\ g.orphan = f.orphan /\ g.alarm = f.alarm
  <1> DEFINE off == IF f.cues THEN GetCueForTime(t) ELSE 1
  <1>1. off \in Keys
    BY CueOfTime, AioConstants
  <1>2. Seek(f, t) = [f EXCEPT !.seekPos = t, !.seekOff = off]
    BY DEF Seek
  <1> HIDE DEF off
  <1> QED
    BY <1>1, <1>2 DEF ReaderTyped, Shaped, Fresh

LEMMA SeekInv ==
    ASSUME NEW r \in Readers, NEW t \in 1..FileTags
    PROVE  AioInv /\ SeekTo(r, t) => AioInv'
  <1> SUFFICES ASSUME AioInv, SeekTo(r, t) PROVE AioInv'
    OBVIOUS
  <1>1. Typed /\ Turns
    BY DEF AioInv
  <1>2. /\ work = <<>> /\ ~failed /\ r \in Controllers /\ ~frs[r].orphan /\ frs[r].at = "open"
        /\ pool' = pool /\ aio' = aio /\ posted' = posted /\ element' = element
        /\ failed' = failed
    BY DEF SeekTo, Controls, BetweenTurns, Alive
  <1>3. ReaderTyped(frs[r]) /\ frs[r].alarm # "firing"
    BY <1>1, <1>2, IdleTurn DEF Typed
  <1> DEFINE g == Seek(frs[r], t)
             f == [g EXCEPT !.want = t, !.nseek = @ + 1]
  <1>4. Set(r, f)
    BY DEF SeekTo
  <1>5. /\ ReaderTyped(g) /\ g.at = frs[r].at /\ g.buffer = frs[r].buffer /\ g.pos = frs[r].pos
        /\ g.io = frs[r].io /\ g.orphan = frs[r].orphan /\ g.alarm = frs[r].alarm
    BY <1>3, SeekTyped
  <1> HIDE DEF g
  <1>6. /\ ReaderTyped(f) /\ f.at = frs[r].at /\ f.buffer = frs[r].buffer /\ f.pos = frs[r].pos
        /\ f.io = frs[r].io /\ f.orphan = frs[r].orphan /\ f.alarm = frs[r].alarm
    BY <1>5 DEF ReaderTyped, Shaped, Fresh
  <1> HIDE DEF f
  <1>7. PICK frames : frames = IF frs[r].cues /\ ~frs[r].io THEN <<<<"read", r>>>> ELSE <<>>
    OBVIOUS
  <1>8. work' = frames
    <2>1. frames \in Seq(Frame)
      BY <1>7, OneFrame, NoFrames
    <2> QED
      BY <1>2, <1>7, <2>1, ConcatEmptySeq DEF SeekTo, Then
  <1>9. /\ frames \in Seq(Frame) /\ Lone(frames, Mains)
        /\ \A c : In(c, frames) => c = <<"read", r>> /\ ~frs[r].io
    BY <1>7, OneFrame, NoFrames
  <1> QED
    BY <1>2, <1>3, <1>4, <1>6, <1>8, <1>9, ClientInv

LEMMA FiresInv == ASSUME NEW r \in Readers PROVE AioInv /\ AlarmFires(r) => AioInv'
  <1> SUFFICES ASSUME AioInv, AlarmFires(r) PROVE AioInv'
    OBVIOUS
  <1>1. Typed /\ Turns
    BY DEF AioInv
  <1>2. /\ work = <<>> /\ ~failed /\ frs[r].alarm = "pending" /\ frs[r].at = "open"
        /\ pool' = pool /\ aio' = aio /\ posted' = posted /\ element' = element
        /\ failed' = failed
    BY DEF AlarmFires, BetweenTurns, Alive
  <1> DEFINE f == [frs[r] EXCEPT !.alarm = "firing"]
  <1>3. Set(r, f)
    BY DEF AlarmFires
  <1>4. /\ ReaderTyped(f) /\ f.at = frs[r].at /\ f.buffer = frs[r].buffer /\ f.pos = frs[r].pos
        /\ f.io = frs[r].io /\ f.orphan = frs[r].orphan /\ f.alarm = "firing"
    <2>1. ReaderTyped(frs[r])
      BY <1>1 DEF Typed
    <2> QED
      BY <2>1 DEF ReaderTyped, Shaped, Fresh
  <1> HIDE DEF f
  <1> DEFINE a == IF frs[r].io THEN <<>> ELSE <<<<"data", r>>>>
             b == <<<<"fired", r>>>>
  <1>5. /\ a \in Seq(Frame) /\ b \in Seq(Frame) /\ Lone(a, Mains) /\ Lone(b, Mains)
        /\ \A c : In(c, a) => c = <<"data", r>> /\ ~frs[r].io
        /\ \A c : In(c, b) <=> c = <<"fired", r>>
    BY OneFrame, NoFrames
  <1>6. Then(a \o b)
    BY DEF AlarmFires
  <1> HIDE DEF a, b
  <1> DEFINE frames == a \o b
  <1>7. frames \in Seq(Frame) /\ \A c : In(c, frames) <=> In(c, a) \/ In(c, b)
    BY <1>5, ConcatProperties, InConcat
  <1>8. Lone(frames, Mains)
    <2>1. \A c, d : In(c, a) /\ In(d, b) /\ c[1] \in Mains /\ d[1] \in Mains => c[2] # d[2]
      BY <1>5 DEF Mains
    <2> QED
      BY <1>5, <2>1, LoneConcat
  <1>9. work' = frames
    BY <1>2, <1>6, <1>7, ConcatEmptySeq DEF Then
  <1> HIDE DEF frames
  <1>10. \A c : In(c, frames) => c \in {<<"read", r>>, <<"data", r>>, <<"fired", r>>}
    BY <1>5, <1>7
  <1>11. In(<<"fired", r>>, frames)
    BY <1>5, <1>7
  <1>12. In(<<"read", r>>, frames) \/ In(<<"data", r>>, frames) => ~f.io /\ f.at = "open"
    <2>1. <<"read", r>> # <<"fired", r>> /\ <<"data", r>> # <<"fired", r>>
      OBVIOUS
    <2> QED
      BY <1>2, <1>4, <1>5, <1>7, <2>1
  <1> QED
    BY <1>2, <1>3, <1>4, <1>7, <1>8, <1>9, <1>10, <1>11, <1>12, ClientInv

LEMMA AddInv ==
    ASSUME NEW r \in Readers, NEW start \in 0..FileTags, NEW limit
    PROVE  AioInv /\ AddRequest(r, start, limit) => AioInv'
  <1> SUFFICES ASSUME AioInv, AddRequest(r, start, limit) PROVE AioInv'
    OBVIOUS
  <1>1. Typed /\ Accounts /\ Turns /\ Ends
    BY DEF AioInv
  <1>2. /\ work = <<>> /\ ~failed /\ element = "open" /\ frs[r].at = "new"
        /\ AddsWhenExhausted \/ GetBuffer(pool, 1) # {}
        /\ pool' = pool /\ aio' = aio /\ posted' = posted /\ element' = element
        /\ failed' = failed
    BY DEF AddRequest, BetweenTurns, Alive
  <1>3. work' = <<<<"read", r>>>>
    BY <1>2, OneFrame, ConcatEmptySeq DEF AddRequest, Then
  <1>4. frs[r].buffer = Null /\ ~frs[r].io
    BY <1>1, <1>2 DEF Accounts, Waits
  <1> DEFINE f == [Fresh EXCEPT !.at = "registering", !.control = TRUE, !.start = start,
                                !.want = start, !.limit = limit]
  <1>5. /\ ReaderTyped(f) /\ f.at = "registering" /\ f.buffer = Null /\ f.io = FALSE
        /\ f.orphan = FALSE /\ f.alarm = "no" /\ f.pos = 1 /\ f.seekOff = 0
    <2>1. 1 \in Keys /\ <<>> \in Seq(Nat)
      BY AioConstants
    <2> QED
      BY <2>1 DEF ReaderTyped, Shaped, Fresh
  <1>6. Set(r, f)
    BY DEF AddRequest
  <1> HIDE DEF f
  <1>7. /\ DOMAIN frs' = Readers /\ frs'[r] = f
        /\ \A q \in Readers : q # r => frs'[q] = frs[q]
        /\ \A q \in Readers : ReaderTyped(frs'[q])
    BY <1>1, <1>5, <1>6, SetReader DEF Typed
  <1>8. Accounts'
    <2>1. \A q \in Readers :
            /\ frs'[q].buffer = frs[q].buffer
            /\ frs[q].buffer # Null => frs'[q].pos = frs[q].pos /\ frs'[q].at = frs[q].at
      BY <1>4, <1>5, <1>7
    <2>2. \A q \in Readers : q # r => frs'[q].io = frs[q].io
      BY <1>7
    <2>3. frs'[r].io = FALSE /\ ~In(<<"full", r>>, posted')
      BY <1>1, <1>2, <1>4, <1>5, <1>7 DEF Accounts, Waits
    <2> QED
      BY <1>1, <1>2, <1>4, <2>1, <2>2, <2>3, KeptAccounts
  <1>9. work' \in Seq(Frame) /\ Lone(work', Mains) /\ \A c : In(c, work') <=> c = <<"read", r>>
    BY <1>3, OneFrame
  <1>10. ASSUME NEW q \in Readers PROVE Turn(q)'
    <2>1. \A p \in Readers : ~In(<<"op", p>>, work') /\ ~In(<<"fired", p>>, work')
      <3> SUFFICES ASSUME NEW p \in Readers
                   PROVE  <<"op", p>> # <<"read", r>> /\ <<"fired", p>> # <<"read", r>>
        BY <1>9
      <3> QED
        OBVIOUS
    <2>2. frs'[q].alarm # "firing"
      BY <1>1, <1>2, <1>5, <1>7, IdleTurn
    <2>3. \A c \in {"read", "data", "sent"} : In(<<c, q>>, work') => c = "read" /\ q = r
      <3> SUFFICES ASSUME NEW c \in {"read", "data", "sent"}, <<c, q>> = <<"read", r>>
                   PROVE  c = "read" /\ q = r
        BY <1>9
      <3> QED
        OBVIOUS
    <2>4. frs'[q].at = "registering" => q = r
      BY <1>1, <1>2, <1>7, IdleTurn
    <2>5. ~frs'[r].io /\ frs'[r].at = "registering" /\ frs'[r].pos = 1 /\ frs'[r].seekOff = 0
      BY <1>5, <1>7
    <2>6. GetBuffer(pool', 1) # {} \/ AddsWhenExhausted
      BY <1>2
    <2> QED
      BY <1>2, <1>3, <2>1, <2>2, <2>3, <2>4, <2>5, <2>6 DEF Turn
  <1>11. Typed'
    BY <1>1, <1>2, <1>7, <1>9 DEF Typed
  <1>12. Turns'
    BY <1>1, <1>2, <1>9, <1>10 DEF Turns
  <1>14. Ends'
    BY <1>1, <1>2 DEF Ends
  <1> QED
    BY <1>2, <1>8, <1>11, <1>12, <1>14 DEF AioInv

\* What is posted besides the answers to reads.
LEMMA PostedOther ==
    ASSUME Typed, Turns, NEW x \in {<<"closed">>, <<"InternalClose">>},
           NEW s \in Seq(Closure), \A c : In(c, s) => In(c, posted), Lone(s, ReadAnswers)
    PROVE  /\ Append(s, x) \in Seq(Closure) /\ Lone(Append(s, x), ReadAnswers)
           /\ \A c : In(c, Append(s, x)) <=> In(c, s) \/ c = x
           /\ \A r \in Readers :
                /\ In(<<"full", r>>, Append(s, x)) <=> In(<<"full", r>>, s)
                /\ \A n \in 0..MaxSize :
                     In(<<"aio", r, n>>, Append(s, x)) <=> In(<<"aio", r, n>>, s)
  <1>1. x \in Closure
    BY DEF Closure
  <1>2. x[1] \notin ReadAnswers
    BY DEF ReadAnswers
  <1>3. Append(s, x) \in Seq(Closure) /\ \A c : In(c, Append(s, x)) <=> In(c, s) \/ c = x
    BY <1>1, InAppend
  <1>4. Lone(Append(s, x), ReadAnswers)
    BY <1>1, <1>2, LoneAppend
  <1>5. \A r \in Readers : <<"full", r>> # x /\ \A n \in 0..MaxSize : <<"aio", r, n>> # x
    <2> SUFFICES ASSUME NEW r \in Readers, NEW n \in 0..MaxSize
                 PROVE  <<"full", r>> # x /\ <<"aio", r, n>> # x
      BY AioConstants
    <2> QED
      OBVIOUS
  <1> QED
    BY <1>3, <1>4, <1>5

\* What the loop takes from what is posted.
LEMMA PostedTail ==
    ASSUME Typed, Turns, posted # <<>>
    PROVE  /\ Head(posted) \in Closure /\ Tail(posted) \in Seq(Closure) /\ Lone(Tail(posted), ReadAnswers)
           /\ \A c : In(c, posted) <=> c = Head(posted) \/ In(c, Tail(posted))
           /\ \A c : In(c, Tail(posted)) /\ c[1] \in ReadAnswers /\ Head(posted)[1] \in ReadAnswers
                        => c[2] # Head(posted)[2]
  <1>1. posted \in Seq(Closure) /\ Lone(posted, ReadAnswers)
    BY DEF Typed, Turns
  <1> QED
    BY <1>1, InTail, LoneTail

LEMMA CloseInv == AioInv /\ Close => AioInv'
  <1> SUFFICES ASSUME AioInv, Close PROVE AioInv'
    OBVIOUS
  <1>1. Typed /\ Accounts /\ Turns /\ Ends
    BY DEF AioInv
  <1>2. /\ work = <<>> /\ ~failed /\ element = "open" /\ element' = "closing"
        /\ posted' = Append(posted, <<"InternalClose">>)
        /\ frs' = frs /\ pool' = pool /\ aio' = aio /\ work' = work /\ failed' = failed
    BY DEF Close, BetweenTurns, Alive
  <1>3. /\ posted' \in Seq(Closure) /\ Lone(posted', ReadAnswers)
        /\ \A c : In(c, posted') <=> In(c, posted) \/ c = <<"InternalClose">>
        /\ \A r \in Readers :
             /\ In(<<"full", r>>, posted') <=> In(<<"full", r>>, posted)
             /\ \A n \in 0..MaxSize : In(<<"aio", r, n>>, posted') <=> In(<<"aio", r, n>>, posted)
    <2>1. posted \in Seq(Closure) /\ Lone(posted, ReadAnswers)
      BY <1>1 DEF Typed, Turns
    <2> QED
      BY <1>1, <1>2, <2>1, PostedOther
  <1>4. Accounts'
    BY <1>1, <1>2, <1>3, KeptAccounts
  <1>5. \A q \in Readers : Turn(q)'
    BY <1>1, <1>2, IdleTurn, IdleAgain
  <1>6. Typed'
    BY <1>1, <1>2, <1>3 DEF Typed
  <1>7. Turns'
    BY <1>1, <1>2, <1>3, <1>5 DEF Turns
  <1>8. Ends'
    BY <1>1, <1>2, <1>3 DEF Ends
  <1> QED
    BY <1>2, <1>4, <1>6, <1>7, <1>8 DEF AioInv

LEMMA ClosedInv == AioInv /\ ElementClosed => AioInv'
  <1> SUFFICES ASSUME AioInv, ElementClosed PROVE AioInv'
    OBVIOUS
  <1>1. Typed /\ Accounts /\ Turns /\ Ends
    BY DEF AioInv
  <1>2. /\ work = <<>> /\ ~failed /\ posted # <<>> /\ Head(posted)[1] = "closed"
        /\ element' = "deleted" /\ posted' = Tail(posted) /\ failed' = (FileOps # {})
        /\ frs' = frs /\ pool' = pool /\ aio' = aio /\ work' = work
    BY DEF ElementClosed, Runs, BetweenTurns, Alive
  <1>3. /\ posted' \in Seq(Closure) /\ Lone(posted', ReadAnswers)
        /\ \A c : In(c, posted) <=> c = Head(posted) \/ In(c, posted')
        /\ Head(posted) = <<"closed">>
    <2>1. Head(posted) \in Closure
      BY <1>1, <1>2, PostedTail
    <2>2. Head(posted) = <<"closed">>
      BY <1>2, <2>1 DEF Closure
    <2> QED
      BY <1>1, <1>2, <2>2, PostedTail
  <1>4. FileOps = {} /\ failed' = FALSE
    BY <1>1, <1>2, <1>3 DEF Ends
  <1>5. \A r \in Readers : <<"full", r>> # <<"closed">>
          /\ \A n \in 0..MaxSize : <<"aio", r, n>> # <<"closed">>
    OBVIOUS
  <1>6. Accounts'
    <2>1. \A r \in Readers :
             /\ In(<<"full", r>>, posted') <=> In(<<"full", r>>, posted)
             /\ \A n \in 0..MaxSize : In(<<"aio", r, n>>, posted') <=> In(<<"aio", r, n>>, posted)
      BY <1>3, <1>5
    <2> QED
      BY <1>1, <1>2, <2>1, KeptAccounts
  <1>7. \A q \in Readers : Turn(q)'
    BY <1>1, <1>2, IdleTurn, IdleAgain
  <1>8. Typed'
    BY <1>1, <1>2, <1>3, <1>4 DEF Typed
  <1>9. Turns'
    BY <1>1, <1>2, <1>3, <1>7 DEF Turns
  <1>10. Ends'
    BY <1>2, <1>4 DEF Ends, FileOps
  <1> QED
    BY <1>4, <1>6, <1>8, <1>9, <1>10 DEF AioInv

-----------------------------------------------------------------------------
(* Readers that go *)

\* f: the reader as it goes, its operation no longer under way.
LEMMA ClearedInv ==
    ASSUME AioInv, ~failed, NEW r \in Readers, frs[r].at = "open",
           NEW f, ReaderTyped(f), f.io = FALSE, f.buffer = frs[r].buffer, f.alarm = frs[r].alarm,
           f.alarm = "firing" => f.orphan,
           ~In(<<"full", r>>, posted),
           frs[r].buffer # Null => pool[frs[r].buffer].state = "VALID_DATA",
           ClearFileOperation(r, f)
    PROVE  /\ frs'[r].at = "gone" /\ frs'[r].io = FALSE
           /\ frs'[r].alarm = "firing" => frs[r].alarm = "firing"
           /\ \A q \in Readers : q # r => frs'[q] = frs[q]
           /\ \A q \in Readers : In(<<"full", q>>, posted') => In(<<"full", q>>, posted)
           /\ \A q \in Readers : q # r /\ frs[q].buffer # Null =>
                 pool'[frs[q].buffer].state = pool[frs[q].buffer].state
           /\ (/\ work' \in Seq(Frame) /\ Lone(work', Mains)
               /\ \A q \in Readers : Turn(q)') => AioInv'
  <1>1. Typed /\ Accounts /\ Turns /\ Ends
    BY DEF AioInv
  <1> DEFINE a == IF f.alarm = "firing" THEN "firing" ELSE "no"
             g == [Fresh EXCEPT !.at = "gone", !.bad = f.bad, !.orphan = f.orphan, !.alarm = a]
  <1>0. a \in {"no", "firing"} /\ (a = "firing" <=> f.alarm = "firing") /\ f.orphan \in BOOLEAN
    BY DEF ReaderTyped
  <1>3. /\ Set(r, g)
        /\ failed' = (f.alarm = "firing")
        /\ pool' = IF f.buffer = Null THEN pool ELSE EndUsage(pool, f.buffer, r)
        /\ aio' = aio
        /\ IF FileOps = {r} /\ element = "closing"
             THEN posted' = Append(posted, <<"closed">>) /\ element' = "closed"
             ELSE posted' = posted /\ element' = element
    BY DEF ClearFileOperation
  <1> HIDE DEF a
  <1>2. /\ ReaderTyped(g) /\ g.at = "gone" /\ g.buffer = Null /\ g.io = FALSE
        /\ g.orphan = f.orphan /\ g.alarm = a
    <2>1. 1 \in Keys /\ <<>> \in Seq(Nat) /\ 0 \in 0..FileTags
      BY AioConstants
    <2> QED
      BY <1>0, <2>1 DEF ReaderTyped, Shaped, Fresh
  <1> HIDE DEF g
  <1>4. /\ DOMAIN frs' = Readers /\ frs'[r] = g
        /\ \A q \in Readers : q # r => frs'[q] = frs[q]
        /\ \A q \in Readers : ReaderTyped(frs'[q])
    BY <1>1, <1>2, <1>3, SetReader DEF Typed
  <1>5. /\ posted' \in Seq(Closure) /\ Lone(posted', ReadAnswers)
        /\ \A c : In(c, posted') => In(c, posted) \/ (c = <<"closed">> /\ element' = "closed")
        /\ \A q \in Readers :
             /\ In(<<"full", q>>, posted') <=> In(<<"full", q>>, posted)
             /\ \A n \in 0..MaxSize : In(<<"aio", q, n>>, posted') <=> In(<<"aio", q, n>>, posted)
    <2>1. posted \in Seq(Closure) /\ Lone(posted, ReadAnswers)
      BY <1>1 DEF Typed, Turns
    <2>2. CASE posted' = posted
      BY <2>1, <2>2
    <2>3. CASE posted' = Append(posted, <<"closed">>) /\ element' = "closed"
      BY <1>1, <2>1, <2>3, PostedOther
    <2> QED
      BY <1>3, <2>2, <2>3
  <1>6. /\ Accounts' /\ pool' \in Pool
        /\ \A q \in Readers : q # r /\ frs[q].buffer # Null =>
              pool'[frs[q].buffer].state = pool[frs[q].buffer].state
    <2>1. CASE frs[r].buffer = Null
      <3>1. pool' = pool
        BY <1>3, <2>1
      <3>2. \A q \in Readers :
              /\ frs'[q].buffer = frs[q].buffer
              /\ frs[q].buffer # Null => frs'[q].pos = frs[q].pos /\ frs'[q].at = frs[q].at
        BY <1>2, <1>4, <2>1
      <3>3. \A q \in Readers : q # r => frs'[q].io = frs[q].io
        BY <1>4
      <3>4. frs'[r].io = FALSE
        BY <1>2, <1>4
      <3> QED
        BY <1>1, <1>3, <1>5, <2>1, <3>1, <3>2, <3>3, <3>4, KeptAccounts DEF Typed
    <2>2. CASE frs[r].buffer # Null
      <3>1. PICK b \in Buffers : b = frs[r].buffer
        BY <1>1, <2>2 DEF Typed, ReaderTyped
      <3>2. pool' = EndUsage(pool, b, r) /\ pool[b].state = "VALID_DATA"
        BY <1>3, <2>2, <3>1
      <3>3. frs'[r].buffer = Null /\ frs'[r].io = FALSE
        BY <1>2, <1>4
      <3> QED
        BY <1>1, <1>3, <1>4, <1>5, <3>1, <3>2, <3>3, EndUseAccounts
    <2> QED
      BY <2>1, <2>2
  <1>7. Ends'
    <2>1. r \in FileOps /\ FileOps' = FileOps \ {r}
      BY <1>2, <1>4 DEF FileOps
    <2>2. element \notin {"closed", "deleted"}
      BY <1>1, <2>1 DEF Ends
    <2> QED
      BY <1>1, <1>3, <1>5, <2>1, <2>2 DEF Ends
  <1>8. failed' => ClearedInAlarm'
    BY <1>0, <1>2, <1>3, <1>4 DEF ClearedInAlarm
  <1>9. ASSUME work' \in Seq(Frame), Lone(work', Mains), \A q \in Readers : Turn(q)'
        PROVE  AioInv'
    <2>0. failed' \in BOOLEAN
      BY <1>3
    <2>1. element' \in {"open", "closing", "closed", "deleted"}
      BY <1>1, <1>3 DEF Typed
    <2>2. Typed'
      BY <1>1, <1>3, <1>4, <1>5, <1>6, <1>9, <2>0, <2>1 DEF Typed
    <2>3. Turns'
      BY <1>5, <1>9 DEF Turns
    <2> QED
      BY <1>6, <1>7, <1>8, <2>2, <2>3 DEF AioInv
  <1> QED
    BY <1>0, <1>2, <1>4, <1>5, <1>6, <1>9

LEMMA RemoveInv == ASSUME NEW r \in Readers PROVE AioInv /\ RemoveRequest(r) => AioInv'
  <1> SUFFICES ASSUME AioInv, RemoveRequest(r) PROVE AioInv'
    OBVIOUS
  <1>1. Typed /\ Accounts /\ Turns
    BY DEF AioInv
  <1>2. work = <<>> /\ ~failed /\ frs[r].at = "open" /\ work' = <<>>
    BY DEF RemoveRequest, BetweenTurns, Alive
  <1>3. ReaderTyped(frs[r]) /\ frs[r].alarm # "firing"
    BY <1>1, <1>2, IdleTurn DEF Typed
  <1>4. CASE frs[r].io
    <2> DEFINE f == [frs[r] EXCEPT !.orphan = TRUE]
    <2>1. Set(r, f) /\ pool' = pool /\ aio' = aio /\ posted' = posted /\ element' = element
          /\ failed' = failed
      BY <1>4 DEF RemoveRequest
    <2>2. /\ ReaderTyped(f) /\ f.at = frs[r].at /\ f.buffer = frs[r].buffer /\ f.pos = frs[r].pos
          /\ f.io = frs[r].io /\ f.alarm = frs[r].alarm
      BY <1>3 DEF ReaderTyped, Shaped, Fresh
    <2> HIDE DEF f
    <2> QED
      BY <1>2, <1>3, <1>4, <2>1, <2>2, NoFrames, ClientInv
  <1>5. CASE ~frs[r].io
    <2>1. PICK f : f = frs[r]
      OBVIOUS
    <2>2. ClearFileOperation(r, f)
      BY <1>5, <2>1 DEF RemoveRequest
    <2>3. f.io = FALSE
      BY <1>3, <1>5, <2>1 DEF ReaderTyped
    <2>4. /\ ~In(<<"full", r>>, posted)
          /\ frs[r].buffer # Null => pool[frs[r].buffer].state = "VALID_DATA"
      BY <1>1, <1>5 DEF Accounts, Waits
    <2>5. /\ frs'[r].at = "gone" /\ frs'[r].io = FALSE /\ frs'[r].alarm # "firing"
          /\ \A q \in Readers : q # r => frs'[q] = frs[q]
          /\ (/\ work' \in Seq(Frame) /\ Lone(work', Mains)
              /\ \A q \in Readers : Turn(q)') => AioInv'
      BY <1>2, <1>3, <2>1, <2>2, <2>3, <2>4, ClearedInv
    <2>6. \A q \in Readers : Turn(q)'
      <3>1. \A q \in Readers : frs'[q].at # "registering" /\ frs'[q].alarm # "firing"
        BY <1>1, <1>2, <2>5, IdleTurn
      <3> QED
        BY <1>2, <3>1, IdleAgain
    <2> QED
      BY <1>2, <2>5, <2>6, NoFrames
  <1> QED
    BY <1>4, <1>5

-----------------------------------------------------------------------------
(* ReadAnswers to reads, and the end of the element *)

LEMMA CompletesInv ==
    ASSUME NEW r \in Readers, NEW size
    PROVE  AioInv /\ AioCompletes(r, size) => AioInv'
  <1> SUFFICES ASSUME AioInv, AioCompletes(r, size) PROVE AioInv'
    OBVIOUS
  <1>1. Typed /\ Accounts /\ Turns /\ Ends
    BY DEF AioInv
  <1>2. /\ work = <<>> /\ ~failed /\ r \in aio /\ size \in {0, Size(frs[r].pos)}
        /\ aio' = aio \ {r} /\ posted' = Append(posted, <<"aio", r, size>>)
        /\ pool' = [pool EXCEPT ![frs[r].buffer].content = frs[r].pos]
        /\ frs' = frs /\ work' = <<>> /\ element' = element /\ failed' = failed
    BY DEF AioCompletes, BetweenTurns, Alive
  <1>3. PICK b : b = frs[r].buffer
    OBVIOUS
  <1>4. pool' = [pool EXCEPT ![b].content = frs[r].pos]
    BY <1>2, <1>3
  <1>5. /\ Accounts' /\ pool' \in Pool /\ posted' \in Seq(Closure)
        /\ frs[r].io /\ pool[b].state = "IN_LOOKUP"
        /\ \A c : In(c, posted') <=> In(c, posted) \/ c = <<"aio", r, size>>
        /\ \A n \in 0..MaxSize : ~In(<<"aio", r, n>>, posted)
    BY <1>1, <1>2, <1>3, <1>4, ReadAccounts
  <1>6. Lone(posted', ReadAnswers)
    <2>1. ASSUME NEW c, In(c, posted), c[1] \in ReadAnswers PROVE c[2] # r
      <3>1. c = <<"full", c[2]>> \/ \E n \in 0..MaxSize : c = <<"aio", c[2], n>>
        BY <1>1, <2>1, AnswerOf
      <3>2. ~In(<<"full", r>>, posted)
        BY <1>1, <1>3, <1>5 DEF Accounts, Waits
      <3> QED
        BY <1>5, <2>1, <3>1, <3>2
    <2>2. PICK x : x = <<"aio", r, size>>
      OBVIOUS
    <2>3. x \in Closure /\ x[2] = r
      <3>1. size \in 0..MaxSize
        BY <1>1, <1>2, BlockSize, AioConstants DEF Typed, ReaderTyped
      <3> QED
        BY <2>2, <3>1 DEF Closure
    <2> QED
      BY <1>1, <1>2, <2>1, <2>2, <2>3, LoneAppend DEF Typed, Turns
  <1>7. \A q \in Readers : Turn(q)'
    BY <1>1, <1>2, IdleTurn, IdleAgain
  <1>8. Typed'
    BY <1>1, <1>2, <1>5 DEF Typed
  <1>9. Turns'
    BY <1>1, <1>2, <1>6, <1>7 DEF Turns
  <1>10. Ends'
    <2>1. <<"closed">> # <<"aio", r, size>>
      OBVIOUS
    <2> QED
      BY <1>1, <1>2, <1>5, <2>1 DEF Ends, FileOps
  <1> QED
    BY <1>2, <1>5, <1>8, <1>9, <1>10 DEF AioInv

\* A call for each of a set of readers, in some order.
LEMMA CallEach ==
    ASSUME NEW S \in SUBSET Readers, NEW order \in SetToSeqs(S), NEW c \in {"op", "stop"},
           NEW s, s = [i \in DOMAIN order |-> <<c, order[i]>>]
    PROVE  /\ s \in Seq(Frame) /\ Lone(s, Mains)
           /\ \A d : In(d, s) => \E q \in S : d = <<c, q>>
  <1> DEFINE n == Cardinality(S)
  <1>1. n \in Nat
    BY AioConstants, FS_Subset, FS_CardinalityType
  <1>2. order \in [1..n -> S] /\ \A i, j \in 1..n : i # j => order[i] # order[j]
    BY DEF SetToSeqs
  <1> HIDE DEF n
  <1>3. DOMAIN s = 1..n /\ \A i \in 1..n : s[i] = <<c, order[i]>> /\ order[i] \in S
    BY <1>2
  <1>4. \A i \in 1..n : s[i] \in Frame /\ s[i][2] = order[i]
    BY <1>3 DEF Frame
  <1>5. s \in [1..n -> Frame]
    BY <1>3, <1>4
  <1>6. s \in Seq(Frame)
    BY <1>1, <1>5
  <1>7. Lone(s, Mains)
    BY <1>2, <1>3, <1>4 DEF Lone
  <1> QED
    BY <1>3, <1>6, <1>7 DEF In

\* A turn of operations that may use what was read.
LEMMA OpsTurn ==
    ASSUME Turns, work = <<>>, ~failed, frs' = frs,
           \A c : In(c, work') => \E q \in Readers :
              c = <<"op", q>> /\ frs[q].io /\ pool'[frs[q].buffer].state = "VALID_DATA"
                /\ ~In(<<"full", q>>, posted')
    PROVE  \A q \in Readers : Turn(q)'
  <1> SUFFICES ASSUME NEW q \in Readers PROVE Turn(q)'
    OBVIOUS
  <1>1. frs'[q].at # "registering" /\ frs'[q].alarm # "firing"
    BY IdleTurn
  <1>2. ASSUME NEW c \in {"read", "data", "sent", "fired"}, In(<<c, q>>, work') PROVE FALSE
    <2>1. \E p \in Readers : <<c, q>> = <<"op", p>>
      BY <1>2
    <2> QED
      BY <2>1
  <1>3. ASSUME In(<<"op", q>>, work')
        PROVE  /\ frs[q].io /\ pool'[frs[q].buffer].state = "VALID_DATA"
               /\ ~In(<<"full", q>>, posted')
    <2>1. PICK p \in Readers :
            <<"op", q>> = <<"op", p>> /\ frs[p].io /\ pool'[frs[p].buffer].state = "VALID_DATA"
              /\ ~In(<<"full", p>>, posted')
      BY <1>3
    <2>2. p = q
      BY <2>1
    <2> QED
      BY <2>1, <2>2
  <1> QED
    BY <1>1, <1>2, <1>3 DEF Turn

LEMMA FullInv == AioInv /\ FullCallback => AioInv'
  <1> SUFFICES ASSUME AioInv, FullCallback PROVE AioInv'
    OBVIOUS
  <1>1. Typed /\ Accounts /\ Turns /\ Ends
    BY DEF AioInv
  <1>2. /\ work = <<>> /\ ~failed /\ posted # <<>> /\ Head(posted)[1] = "full"
        /\ posted' = Tail(posted) /\ Then(<<<<"op", Head(posted)[2]>>>>)
        /\ frs' = frs /\ pool' = pool /\ aio' = aio /\ element' = element /\ failed' = failed
    BY DEF FullCallback, Runs, BetweenTurns, Alive
  <1>3. PICK r \in Readers : Head(posted) = <<"full", r>>
    <2>1. Head(posted) \in Closure
      BY <1>1, <1>2, PostedTail
    <2> QED
      BY <1>2, <2>1 DEF Closure
  <1>4. /\ posted' \in Seq(Closure) /\ Lone(posted', ReadAnswers)
        /\ \A c : In(c, posted) <=> c = <<"full", r>> \/ In(c, posted')
        /\ ~In(<<"full", r>>, posted')
    <2>1. <<"full", r>>[1] \in ReadAnswers /\ <<"full", r>>[2] = r
      BY DEF ReadAnswers
    <2> QED
      BY <1>1, <1>2, <1>3, <2>1, PostedTail
  <1>5. work' = <<<<"op", r>>>>
    BY <1>2, <1>3, OneFrame, ConcatEmptySeq DEF Then
  <1>6. frs[r].io /\ pool[frs[r].buffer].state = "VALID_DATA"
    BY <1>1, <1>4 DEF Accounts, Waits
  <1>7. work' \in Seq(Frame) /\ Lone(work', Mains) /\ \A c : In(c, work') <=> c = <<"op", r>>
    BY <1>5, OneFrame
  <1>8. \A q \in Readers : Turn(q)'
    BY <1>1, <1>2, <1>4, <1>6, <1>7, OpsTurn
  <1>9. Accounts'
    <2>1. \A q \in Readers : \A n \in 0..MaxSize : <<"aio", q, n>> # <<"full", r>>
      OBVIOUS
    <2> QED
      BY <1>1, <1>2, <1>4, <2>1, KeptAccounts
  <1>10. Typed'
    BY <1>1, <1>2, <1>4, <1>7 DEF Typed
  <1>11. Turns'
    BY <1>4, <1>7, <1>8 DEF Turns
  <1>12. Ends'
    BY <1>1, <1>2, <1>4 DEF Ends, FileOps
  <1> QED
    BY <1>2, <1>9, <1>10, <1>11, <1>12 DEF AioInv

LEMMA CompletedInv == AioInv /\ AioOperationCompleted => AioInv'
  <1> SUFFICES ASSUME AioInv, AioOperationCompleted PROVE AioInv'
    OBVIOUS
  <1>1. Typed /\ Accounts /\ Turns /\ Ends
    BY DEF AioInv
  <1>2. /\ work = <<>> /\ ~failed /\ posted # <<>> /\ Head(posted)[1] = "aio"
        /\ posted' = Tail(posted)
        /\ frs' = frs /\ aio' = aio /\ element' = element
    BY DEF AioOperationCompleted, Runs, BetweenTurns, Alive
  <1>3. PICK r \in Readers, size \in 0..MaxSize : Head(posted) = <<"aio", r, size>>
    <2>1. Head(posted) \in Closure
      BY <1>1, <1>2, PostedTail
    <2> QED
      BY <1>2, <2>1 DEF Closure
  <1>4. PICK b : b = frs[r].buffer
    OBVIOUS
  <1>5. /\ failed' = (~frs[r].io \/ pool[b].state # "IN_LOOKUP")
        /\ pool' = MarkValidData(pool, b, size)
        /\ \E waiters \in SetToSeqs(pool[b].done) :
              Then([i \in DOMAIN waiters |-> <<"op", waiters[i]>>] \o <<<<"op", r>>>>)
    <2>1. Head(posted)[2] = r /\ Head(posted)[3] = size
      BY <1>3
    <2> QED
      BY <1>4, <2>1 DEF AioOperationCompleted
  <1>6. /\ Accounts' /\ pool' \in Pool
        /\ frs[r].io /\ b \in Buffers /\ pool[b].state = "IN_LOOKUP"
        /\ pool'[b].state = "VALID_DATA"
        /\ pool[b].done = UsersOf(b) \ {r}
        /\ \A q \in UsersOf(b) : frs[q].io /\ ~In(<<"full", q>>, posted)
    <2>1. Lone(posted, ReadAnswers) /\ pool' = MarkValidData(pool, b, size)
      BY <1>1, <1>5 DEF Turns
    <2> QED
      BY <1>1, <1>2, <1>3, <1>4, <2>1, MarkAccounts
  <1>7. PICK waiters \in SetToSeqs(UsersOf(b) \ {r}) :
          Then([i \in DOMAIN waiters |-> <<"op", waiters[i]>>] \o <<<<"op", r>>>>)
    BY <1>5, <1>6
  <1> DEFINE s == [i \in DOMAIN waiters |-> <<"op", waiters[i]>>]
             t == <<<<"op", r>>>>
  <1>8. /\ s \in Seq(Frame) /\ Lone(s, Mains)
        /\ \A d : In(d, s) => \E q \in UsersOf(b) \ {r} : d = <<"op", q>>
    <2>1. UsersOf(b) \ {r} \in SUBSET Readers
      BY DEF UsersOf
    <2> QED
      BY <2>1, CallEach
  <1>9. t \in Seq(Frame) /\ Lone(t, Mains) /\ \A d : In(d, t) <=> d = <<"op", r>>
    BY OneFrame
  <1>10. Then(s \o t)
    BY <1>7
  <1> HIDE DEF s, t
  <1>11. work' = s \o t /\ work' \in Seq(Frame) /\ \A d : In(d, work') <=> In(d, s) \/ In(d, t)
    <2>1. s \o t \in Seq(Frame) /\ \A d : In(d, s \o t) <=> In(d, s) \/ In(d, t)
      BY <1>8, <1>9, ConcatProperties, InConcat
    <2>2. work' = s \o t
      BY <1>2, <1>10, <2>1, ConcatEmptySeq DEF Then
    <2> QED
      BY <2>1, <2>2
  <1>12. Lone(work', Mains)
    <2>1. ASSUME NEW c, NEW d, In(c, s), In(d, t) PROVE c[2] # d[2]
      <3>1. d[2] = r
        BY <1>9, <2>1
      <3>2. PICK q \in UsersOf(b) \ {r} : c = <<"op", q>>
        BY <1>8, <2>1
      <3> QED
        BY <3>1, <3>2
    <2> QED
      BY <1>8, <1>9, <1>11, <2>1, LoneConcat
  <1>13. /\ posted' \in Seq(Closure) /\ Lone(posted', ReadAnswers)
         /\ \A c : In(c, posted') => In(c, posted)
    BY <1>1, <1>2, PostedTail
  <1>14. \A q \in Readers : Turn(q)'
    <2>1. ASSUME NEW c, In(c, work')
          PROVE  \E q \in Readers :
                   c = <<"op", q>> /\ frs[q].io /\ pool'[frs[q].buffer].state = "VALID_DATA"
                     /\ ~In(<<"full", q>>, posted')
      <3>1. PICK q \in UsersOf(b) : c = <<"op", q>>
        <4>1. r \in UsersOf(b)
          BY <1>4 DEF UsersOf
        <4> QED
          BY <1>8, <1>9, <1>11, <2>1, <4>1
      <3>2. q \in Readers /\ frs[q].buffer = b
        BY DEF UsersOf
      <3> QED
        BY <1>6, <1>13, <3>1, <3>2
    <2> QED
      BY <1>1, <1>2, <2>1, OpsTurn
  <1>15. failed' = FALSE
    BY <1>5, <1>6
  <1>16. Typed'
    BY <1>1, <1>2, <1>6, <1>11, <1>13, <1>15 DEF Typed
  <1>17. Turns'
    BY <1>12, <1>13, <1>14 DEF Turns
  <1>18. Ends'
    BY <1>1, <1>2, <1>13 DEF Ends, FileOps
  <1> QED
    BY <1>6, <1>15, <1>16, <1>17, <1>18 DEF AioInv

LEMMA InternalCloseInv == AioInv /\ InternalClose => AioInv'
  <1> SUFFICES ASSUME AioInv, InternalClose PROVE AioInv'
    OBVIOUS
  <1>1. Typed /\ Accounts /\ Turns /\ Ends
    BY DEF AioInv
  <1>2. /\ work = <<>> /\ ~failed /\ posted # <<>> /\ Head(posted)[1] = "InternalClose"
        /\ pool' = pool /\ aio' = aio /\ failed' = failed
        /\ IF element = "closing" /\ FileOps = {}
             THEN element' = "closed" /\ posted' = Append(Tail(posted), <<"closed">>)
             ELSE posted' = Tail(posted) /\ element' = element
        /\ frs' = [r \in Readers |->
                     IF r \in FileOps THEN [frs[r] EXCEPT !.close = TRUE] ELSE frs[r]]
    BY DEF InternalClose, Runs, BetweenTurns, Alive
  <1>3. /\ Tail(posted) \in Seq(Closure) /\ Lone(Tail(posted), ReadAnswers)
        /\ \A c : In(c, posted) <=> c = <<"InternalClose">> \/ In(c, Tail(posted))
    <2>1. Head(posted) = <<"InternalClose">>
      <3>1. Head(posted) \in Closure
        BY <1>1, <1>2, PostedTail
      <3> QED
        BY <1>2, <3>1 DEF Closure
    <2> QED
      BY <1>1, <1>2, <2>1, PostedTail
  <1>4. \A r \in Readers : <<"full", r>> # <<"InternalClose">>
          /\ \A n \in 0..MaxSize : <<"aio", r, n>> # <<"InternalClose">>
    OBVIOUS
  <1>5. /\ posted' \in Seq(Closure) /\ Lone(posted', ReadAnswers)
        /\ \A c : In(c, posted') => In(c, posted) \/ (c = <<"closed">> /\ element' = "closed")
        /\ \A q \in Readers :
             /\ In(<<"full", q>>, posted') <=> In(<<"full", q>>, posted)
             /\ \A n \in 0..MaxSize : In(<<"aio", q, n>>, posted') <=> In(<<"aio", q, n>>, posted)
    <2>1. CASE posted' = Tail(posted)
      BY <1>3, <1>4, <2>1
    <2>2. CASE element' = "closed" /\ posted' = Append(Tail(posted), <<"closed">>)
      <3>1. /\ posted' \in Seq(Closure) /\ Lone(posted', ReadAnswers)
            /\ \A c : In(c, posted') <=> In(c, Tail(posted)) \/ c = <<"closed">>
            /\ \A q \in Readers :
                 /\ In(<<"full", q>>, posted') <=> In(<<"full", q>>, Tail(posted))
                 /\ \A n \in 0..MaxSize :
                      In(<<"aio", q, n>>, posted') <=> In(<<"aio", q, n>>, Tail(posted))
        BY <1>1, <1>3, <2>2, PostedOther
      <3> QED
        BY <1>3, <1>4, <2>2, <3>1
    <2> QED
      BY <1>2, <2>1, <2>2
  <1>6. \A q \in Readers :
          /\ ReaderTyped(frs'[q]) /\ frs'[q].at = frs[q].at /\ frs'[q].buffer = frs[q].buffer
          /\ frs'[q].pos = frs[q].pos /\ frs'[q].io = frs[q].io
          /\ frs'[q].orphan = frs[q].orphan /\ frs'[q].alarm = frs[q].alarm
    <2> SUFFICES ASSUME NEW q \in Readers
                 PROVE  /\ ReaderTyped(frs'[q]) /\ frs'[q].at = frs[q].at
                        /\ frs'[q].buffer = frs[q].buffer
                        /\ frs'[q].pos = frs[q].pos /\ frs'[q].io = frs[q].io
                        /\ frs'[q].orphan = frs[q].orphan /\ frs'[q].alarm = frs[q].alarm
      OBVIOUS
    <2>1. ReaderTyped(frs[q])
      BY <1>1 DEF Typed
    <2>2. frs'[q] = IF q \in FileOps THEN [frs[q] EXCEPT !.close = TRUE] ELSE frs[q]
      BY <1>2
    <2> QED
      BY <2>1, <2>2 DEF ReaderTyped, Shaped, Fresh
  <1>7. DOMAIN frs' = Readers
    BY <1>2
  <1>8. PICK order \in SetToSeqs({r \in FileOps : ~frs[r].io}) :
          Then([i \in DOMAIN order |-> <<"stop", order[i]>>])
    BY DEF InternalClose
  <1>9. /\ work' \in Seq(Frame) /\ Lone(work', Mains)
        /\ \A d : In(d, work') => \E q \in Readers : d = <<"stop", q>>
    <2> DEFINE S == {r \in FileOps : ~frs[r].io}
               s == [i \in DOMAIN order |-> <<"stop", order[i]>>]
    <2>1. S \in SUBSET Readers
      BY DEF FileOps
    <2>2. Then(s) /\ order \in SetToSeqs(S)
      BY <1>8
    <2> HIDE DEF S
    <2>3. /\ s \in Seq(Frame) /\ Lone(s, Mains)
          /\ \A d : In(d, s) => \E q \in S : d = <<"stop", q>>
      BY <2>1, <2>2, CallEach
    <2> HIDE DEF s
    <2>4. work' = s
      BY <1>2, <2>2, <2>3, ConcatEmptySeq DEF Then
    <2> QED
      BY <2>1, <2>3, <2>4
  <1>10. ASSUME NEW q \in Readers PROVE Turn(q)'
    <2>1. frs'[q].at # "registering" /\ frs'[q].alarm # "firing"
      BY <1>1, <1>2, <1>6, IdleTurn
    <2>2. ASSUME NEW c \in {"op", "read", "data", "sent", "fired"}, In(<<c, q>>, work')
          PROVE  FALSE
      <3>1. \E p \in Readers : <<c, q>> = <<"stop", p>>
        BY <1>9, <2>2
      <3> QED
        BY <3>1
    <2> QED
      BY <2>1, <2>2 DEF Turn
  <1>11. Accounts'
    <2>1. \A q \in Readers : frs'[q].io = frs[q].io
      BY <1>6
    <2>2. \A q \in Readers :
            /\ frs'[q].buffer = frs[q].buffer
            /\ frs[q].buffer # Null => frs'[q].pos = frs[q].pos /\ frs'[q].at = frs[q].at
      BY <1>6
    <2> QED
      BY <1>1, <1>2, <1>5, <2>1, <2>2, KeptAccounts
  <1>12. element' \in {"open", "closing", "closed", "deleted"}
    BY <1>1, <1>2 DEF Typed
  <1>13. Typed'
    BY <1>1, <1>2, <1>5, <1>6, <1>7, <1>9, <1>12 DEF Typed
  <1>14. Turns'
    BY <1>5, <1>9, <1>10 DEF Turns
  <1>15. Ends'
    <2>1. FileOps' = FileOps
      BY <1>6 DEF FileOps
    <2> QED
      BY <1>1, <1>2, <1>5, <2>1 DEF Ends
  <1> QED
    BY <1>2, <1>11, <1>13, <1>14, <1>15 DEF AioInv

-----------------------------------------------------------------------------
(* What was read is used *)

LEMMA DoneTyped ==
    ASSUME Typed, Accounts, NEW r \in Readers, NEW b \in Buffers, b = frs[r].buffer,
           pool[b].state = "VALID_DATA", pool[b].data_size # 0, frs[r].io
    PROVE  /\ frs[r].data \o Contents(pool[b].content) \in Seq(Nat)
           /\ frs[r].pos + 1 \in Keys
  <1>1. /\ pool[b].data_size \in 0..MaxSize /\ pool[b].data_size > 0
        /\ frs[r].data \in Seq(Nat) /\ frs[r].pos \in Keys
    BY AioConstants DEF Typed, Pool, Buffer, ReaderTyped
  <1>2. frs[r].pos = pool[b].data_key
    BY DEF Accounts, Waits
  <1>3. Accounted(b)
    BY DEF Accounts
  <1>4. pool[b].content = frs[r].pos /\ pool[b].data_size <= Size(frs[r].pos)
    BY <1>1, <1>2, <1>3 DEF Accounted
  <1>5. Size(frs[r].pos) > 0
    BY <1>1, <1>4, BlockSize, AioConstants
  <1> QED
    BY <1>1, <1>4, <1>5, BlockSize, BlockContents, ConcatProperties

LEMMA OperationInv == AioInv /\ ProcessAioOperation => AioInv'
  <1> SUFFICES ASSUME AioInv, ProcessAioOperation PROVE AioInv'
    OBVIOUS
  <1>1. Typed /\ Accounts /\ Turns /\ Ends
    BY DEF AioInv
  <1>2. PICK r \in Readers : r = Head(work)[2]
    BY <1>1, HeadCall DEF ProcessAioOperation
  <1>3. work # <<>> /\ ~failed /\ Head(work) = <<"op", r>> /\ "op" \in Mains
    BY <1>1, <1>2, HeadCall DEF ProcessAioOperation, Mains
  <1>4. /\ frs[r].io /\ pool[frs[r].buffer].state = "VALID_DATA" /\ ~In(<<"full", r>>, posted)
        /\ frs[r].alarm # "firing"
    <2>1. In(<<"op", r>>, work)
      BY <1>1, <1>3, InTail DEF Typed
    <2> QED
      BY <1>1, <2>1 DEF Turns, Turn
  <1>5. ReaderTyped(frs[r]) /\ DOMAIN frs = Readers /\ \A q \in Readers : ReaderTyped(frs[q])
    BY <1>1 DEF Typed
  <1>6. frs[r].buffer # Null /\ frs[r].at = "open"
    BY <1>1, <1>4 DEF Accounts, Waits
  <1>7. PICK b \in Buffers : b = frs[r].buffer
    BY <1>5, <1>6 DEF ReaderTyped
  <1> DEFINE f == [frs[r] EXCEPT !.io = FALSE]
  <1>8. /\ ReaderTyped(f) /\ f.at = "open" /\ f.io = FALSE /\ f.buffer = b
        /\ f.orphan = frs[r].orphan /\ f.alarm = frs[r].alarm /\ f.pos = frs[r].pos
        /\ f.data = frs[r].data
    BY <1>5, <1>6, <1>7 DEF ReaderTyped, Shaped, Fresh
  <1>9. \/ f.orphan /\ ClearFileOperation(r, f) /\ Then(<<>>)
        \/ /\ ~f.orphan
           /\ Set(r, f) /\ Then(StopElement(f, r))
           /\ failed' = ~frs[r].io
           /\ pool' = pool /\ aio' = aio /\ posted' = posted /\ element' = element
        \/ /\ ~f.orphan
           /\ pool' = EndUsage(pool, b, r)
           /\ \/ Set(r, [f EXCEPT !.buffer = Null]) /\ Then(<<<<"read", r>>>>)
              \/ /\ Set(r, IF pool[b].data_size = 0
                             THEN [f EXCEPT !.buffer = Null, !.eof = TRUE]
                           ELSE [f EXCEPT !.buffer = Null,
                                          !.data = @ \o Contents(pool[b].content),
                                          !.pos = @ + 1,
                                          !.eof = pool[b].data_size < MaxSize])
                 /\ Then(<<<<"data", r>>>>)
           /\ failed' = ~frs[r].io
           /\ aio' = aio /\ posted' = posted /\ element' = element
    BY <1>2, <1>7, <1>8 DEF ProcessAioOperation
  <1> HIDE DEF f
  <1>10. \A frames : Then(frames) => work' = frames \o Tail(work)
    BY <1>3 DEF Then
  <1>11. CASE f.orphan /\ ClearFileOperation(r, f) /\ Then(<<>>)
    <2>1. /\ frs'[r].at = "gone" /\ frs'[r].io = FALSE
          /\ frs'[r].alarm = "firing" => frs[r].alarm = "firing"
          /\ \A q \in Readers : q # r => frs'[q] = frs[q]
          /\ \A q \in Readers : In(<<"full", q>>, posted') => In(<<"full", q>>, posted)
          /\ \A q \in Readers : q # r /\ frs[q].buffer # Null =>
                pool'[frs[q].buffer].state = pool[frs[q].buffer].state
          /\ (/\ work' \in Seq(Frame) /\ Lone(work', Mains)
              /\ \A q \in Readers : Turn(q)') => AioInv'
      BY <1>3, <1>4, <1>6, <1>7, <1>8, <1>11, ClearedInv
    <2>2. work' = <<>> \o Tail(work) /\ CarryOn(<<>>, r) /\ \A c : ~In(c, <<>>)
      BY <1>10, <1>11, NoCalls, TagsCarryOn, InEmpty
    <2>3. work' \in Seq(Frame) /\ Lone(work', Mains) /\ \A q \in Readers : Turn(q)'
      BY <1>1, <1>3, <2>1, <2>2, MainTurn
    <2> QED
      BY <2>1, <2>3
  <1>12. CASE /\ ~f.orphan
              /\ Set(r, f) /\ Then(StopElement(f, r))
              /\ failed' = ~frs[r].io
              /\ pool' = pool /\ aio' = aio /\ posted' = posted /\ element' = element
    <2>1. /\ DOMAIN frs' = Readers /\ frs'[r] = f
          /\ \A q \in Readers : q # r => frs'[q] = frs[q]
          /\ \A q \in Readers : ReaderTyped(frs'[q])
      BY <1>5, <1>8, <1>12, SetReader
    <2>2. work' = StopElement(f, r) \o Tail(work) /\ CarryOn(StopElement(f, r), r)
          /\ OnlyTags(StopElement(f, r))
      BY <1>10, <1>12, StopElementTags, TagsCarryOn
    <2>3. \A c \in {"read", "data", "sent"} : ~In(<<c, r>>, StopElement(f, r))
      <3> SUFFICES ASSUME NEW c \in {"read", "data", "sent"} PROVE <<c, r>>[1] # "tag"
        BY <2>2 DEF OnlyTags
      <3> QED
        OBVIOUS
    <2>4. work' \in Seq(Frame) /\ Lone(work', Mains) /\ \A q \in Readers : Turn(q)'
      <3>1. frs'[r].at # "registering" /\ frs'[r].alarm # "firing"
        BY <1>4, <1>8, <2>1
      <3> QED
        BY <1>1, <1>3, <1>12, <2>1, <2>2, <2>3, <3>1, MainTurn
    <2>5. Accounts'
      <3>1. \A q \in Readers :
              /\ frs'[q].buffer = frs[q].buffer
              /\ frs[q].buffer # Null => frs'[q].pos = frs[q].pos /\ frs'[q].at = frs[q].at
        BY <1>6, <1>7, <1>8, <2>1
      <3>2. \A q \in Readers : q # r => frs'[q].io = frs[q].io
        BY <2>1
      <3>3. frs'[r].io = FALSE
        BY <1>8, <2>1
      <3> QED
        BY <1>1, <1>4, <1>12, <3>1, <3>2, <3>3, KeptAccounts
    <2>6. failed' = FALSE
      BY <1>4, <1>12
    <2>7. Typed'
      BY <1>1, <1>12, <2>1, <2>4, <2>6 DEF Typed
    <2>8. Turns'
      BY <1>1, <1>12, <2>4 DEF Turns
    <2>10. Ends'
      <3>1. FileOps' = FileOps
        BY <1>6, <1>8, <2>1 DEF FileOps
      <3> QED
        BY <1>1, <1>12, <3>1 DEF Ends
    <2> QED
      BY <2>5, <2>6, <2>7, <2>8, <2>10 DEF AioInv
  <1>13. CASE /\ ~f.orphan
              /\ pool' = EndUsage(pool, b, r)
              /\ \/ Set(r, [f EXCEPT !.buffer = Null]) /\ Then(<<<<"read", r>>>>)
                 \/ /\ Set(r, IF pool[b].data_size = 0
                                THEN [f EXCEPT !.buffer = Null, !.eof = TRUE]
                              ELSE [f EXCEPT !.buffer = Null,
                                             !.data = @ \o Contents(pool[b].content),
                                             !.pos = @ + 1,
                                             !.eof = pool[b].data_size < MaxSize])
                    /\ Then(<<<<"data", r>>>>)
              /\ failed' = ~frs[r].io
              /\ aio' = aio /\ posted' = posted /\ element' = element
    <2>1. PICK g : /\ Set(r, g) /\ ReaderTyped(g) /\ g.at = "open" /\ g.io = FALSE
                   /\ g.buffer = Null /\ g.orphan = f.orphan /\ g.alarm = f.alarm
      <3> DEFINE g1 == [f EXCEPT !.buffer = Null]
                 g2 == [f EXCEPT !.buffer = Null, !.eof = TRUE]
                 g3 == [f EXCEPT !.buffer = Null,
                                 !.data = @ \o Contents(pool[b].content),
                                 !.pos = @ + 1,
                                 !.eof = pool[b].data_size < MaxSize]
      <3>1. Set(r, g1) \/ Set(r, g2) \/ (pool[b].data_size # 0 /\ Set(r, g3))
        BY <1>13
      <3>2. /\ ReaderTyped(g1) /\ g1.at = "open" /\ g1.io = FALSE
            /\ g1.buffer = Null /\ g1.orphan = f.orphan /\ g1.alarm = f.alarm
        BY <1>8 DEF ReaderTyped, Shaped, Fresh
      <3>3. /\ ReaderTyped(g2) /\ g2.at = "open" /\ g2.io = FALSE
            /\ g2.buffer = Null /\ g2.orphan = f.orphan /\ g2.alarm = f.alarm
        BY <1>8 DEF ReaderTyped, Shaped, Fresh
      <3>4. ASSUME pool[b].data_size # 0
            PROVE  /\ ReaderTyped(g3) /\ g3.at = "open" /\ g3.io = FALSE
                   /\ g3.buffer = Null /\ g3.orphan = f.orphan /\ g3.alarm = f.alarm
        <4>1. f.data \o Contents(pool[b].content) \in Seq(Nat) /\ f.pos + 1 \in Keys
          BY <1>1, <1>4, <1>7, <1>8, <3>4, DoneTyped
        <4> DEFINE d == f.data \o Contents(pool[b].content)
                   p == f.pos + 1
                   e == pool[b].data_size < MaxSize
        <4>2. g3 = [f EXCEPT !.buffer = Null, !.data = d, !.pos = p, !.eof = e]
          OBVIOUS
        <4>3. d \in Seq(Nat) /\ p \in Keys
          BY <4>1
        <4> HIDE DEF g3, d, p, e
        <4> QED
          BY <1>8, <4>2, <4>3 DEF ReaderTyped, Shaped, Fresh
      <3> HIDE DEF g1, g2, g3
      <3> QED
        BY <3>1, <3>2, <3>3, <3>4
    <2>2. /\ DOMAIN frs' = Readers /\ frs'[r] = g
          /\ \A q \in Readers : q # r => frs'[q] = frs[q]
          /\ \A q \in Readers : ReaderTyped(frs'[q])
      BY <1>5, <2>1, SetReader
    <2>3. PICK frames : Then(frames) /\ CarryOn(frames, r)
      <3>1. CarryOn(<<<<"read", r>>>>, r) /\ CarryOn(<<<<"data", r>>>>, r)
        BY OneCall
      <3> QED
        BY <1>13, <3>1
    <2>4. /\ Accounts' /\ pool' \in Pool
          /\ \A q \in Readers : q # r /\ frs[q].buffer # Null =>
                pool'[frs[q].buffer].state = pool[frs[q].buffer].state
      <3>1. frs'[r].buffer = Null /\ frs'[r].io = FALSE
        BY <2>1, <2>2
      <3> QED
        BY <1>1, <1>4, <1>7, <1>13, <2>2, <3>1, EndUseAccounts
    <2>5. work' \in Seq(Frame) /\ Lone(work', Mains) /\ \A q \in Readers : Turn(q)'
      <3>1. frs'[r].at = "open" /\ ~frs'[r].io /\ frs'[r].alarm # "firing"
        BY <1>4, <1>8, <2>1, <2>2
      <3>2. work' = frames \o Tail(work)
        BY <1>10, <2>3
      <3> QED
        BY <1>1, <1>3, <1>13, <2>2, <2>3, <2>4, <3>1, <3>2, MainTurn
    <2>6. failed' = FALSE
      BY <1>4, <1>13
    <2>7. Typed'
      BY <1>1, <1>13, <2>2, <2>4, <2>5, <2>6 DEF Typed
    <2>8. Turns'
      BY <1>1, <1>13, <2>5 DEF Turns
    <2>10. Ends'
      <3>1. FileOps' = FileOps
        BY <1>6, <2>1, <2>2 DEF FileOps
      <3> QED
        BY <1>1, <1>13, <3>1 DEF Ends
    <2> QED
      BY <2>4, <2>6, <2>7, <2>8, <2>10 DEF AioInv
  <1> QED
    BY <1>9, <1>11, <1>12, <1>13

\* The reader goes on with the data it has.
LEMMA ContinueInv ==
    ASSUME AioInv, ~failed, NEW r \in Readers, work # <<>>, Head(work) = <<"data", r>>,
           ~frs[r].io, frs[r].at = "open",
           NEW h, Set(r, h), ReaderTyped(h), h.at = frs[r].at, h.buffer = frs[r].buffer,
           h.pos = frs[r].pos, h.io = frs[r].io, h.orphan = frs[r].orphan, h.alarm = frs[r].alarm,
           NEW frames, CarryOn(frames, r), Then(frames),
           pool' = pool, aio' = aio, posted' = posted, element' = element, failed' = failed
    PROVE  AioInv'
  <1>1. Typed /\ Accounts /\ Turns
    BY DEF AioInv
  <1>2. /\ DOMAIN frs' = Readers /\ frs'[r] = h
        /\ \A q \in Readers : q # r => frs'[q] = frs[q]
        /\ \A q \in Readers : ReaderTyped(frs'[q])
    BY <1>1, SetReader DEF Typed
  <1>3. \A q \in Readers :
          /\ frs'[q].at = frs[q].at /\ frs'[q].buffer = frs[q].buffer /\ frs'[q].pos = frs[q].pos
          /\ frs'[q].io = frs[q].io /\ frs'[q].orphan = frs[q].orphan
          /\ frs'[q].alarm = frs[q].alarm
    BY <1>2
  <1>4. work' = frames \o Tail(work) /\ "data" \in Mains
    BY DEF Then, Mains
  <1>5. work' \in Seq(Frame) /\ Lone(work', Mains) /\ \A q \in Readers : Turn(q)'
    BY <1>1, <1>2, <1>4, MainTurn
  <1>7. \A q \in Readers : frs'[q].io = frs[q].io
    BY <1>3
  <1> QED
    BY <1>2, <1>3, <1>5, <1>7, QuietInv

\* What the rounds of ProcessData change of a reader.
SameOperation(h, f) ==
    /\ ReaderTyped(h)
    /\ h.at = f.at /\ h.buffer = f.buffer /\ h.pos = f.pos /\ h.io = f.io
    /\ h.orphan = f.orphan /\ h.alarm = f.alarm /\ h.start = f.start

LEMMA SameTags ==
    ASSUME NEW f, ReaderTyped(f), NEW first \in BOOLEAN, NEW boot, NEW cues, NEW t
    PROVE  /\ SameOperation([f EXCEPT !.first = first], f)
           /\ SameOperation([f EXCEPT !.first = first, !.boot = boot], f)
           /\ SameOperation([f EXCEPT !.boot = boot, !.seekPos = t], f)
           /\ SameOperation([f EXCEPT !.cues = cues], f)
  <1>1. SameOperation([f EXCEPT !.first = first], f)
    BY DEF SameOperation, ReaderTyped, Shaped, Fresh
  <1>2. SameOperation([f EXCEPT !.first = first, !.boot = boot], f)
    BY DEF SameOperation, ReaderTyped, Shaped, Fresh
  <1>3. SameOperation([f EXCEPT !.boot = boot, !.seekPos = t], f)
    BY DEF SameOperation, ReaderTyped, Shaped, Fresh
  <1>4. SameOperation([f EXCEPT !.cues = cues], f)
    BY DEF SameOperation, ReaderTyped, Shaped, Fresh
  <1> QED
    BY <1>1, <1>2, <1>3, <1>4

LEMMA MediaTagStep ==
    ASSUME NEW r \in Readers, NEW f, ReaderTyped(f), NEW t \in Nat, ProcessMediaTag(r, f, t)
    PROVE  \E h, frames : SameOperation(h, f) /\ CarryOn(frames, r) /\ Set(r, h) /\ Then(frames)
  <1>1. CASE f.first /\ f.start > 0
    <2> DEFINE e == [f EXCEPT !.first = FALSE]
               g == Seek(e, f.start)
    <2>1. SameOperation(e, f)
      BY SameTags
    <2>2. f.start \in 1..FileTags
      BY <1>1, AioConstants DEF ReaderTyped
    <2>3. Set(r, g) /\ Then(AfterLoop(g, r))
      BY <1>1 DEF ProcessMediaTag, Continue
    <2>4. g.start = e.start
      BY DEF Seek
    <2> HIDE DEF e
    <2>5. SameOperation(g, f)
      <3>1. ReaderTyped(e)
        BY <2>1 DEF SameOperation
      <3>2. /\ ReaderTyped(g) /\ g.at = e.at /\ g.buffer = e.buffer /\ g.pos = e.pos
            /\ g.io = e.io /\ g.orphan = e.orphan /\ g.alarm = e.alarm
        BY <2>2, <3>1, SeekTyped
      <3> HIDE DEF g
      <3> QED
        BY <2>1, <2>4, <3>2 DEF SameOperation
    <2> HIDE DEF g
    <2> QED
      BY <2>3, <2>5, AfterLoopCarriesOn
  <1>2. CASE ~(f.first /\ f.start > 0)
    <2> DEFINE starts == IF f.first THEN <<<<"tag", r, "started", 0>>>> ELSE <<>>
               g == [f EXCEPT !.first = FALSE, !.boot = f.boot /\ ~f.first]
               h == [g EXCEPT !.boot = FALSE, !.seekPos = 0]
    <2>1. \/ Set(r, g) /\ Then(starts \o AfterLoop(g, r))
          \/ Set(r, g) /\ Then(starts \o <<<<"data", r>>>>)
          \/ Set(r, h) /\ Then(starts \o TagsFor(g, r, t))
      BY <1>2 DEF ProcessMediaTag, Continue
    <2>2. OnlyTags(starts)
      BY OneTag, NoCalls DEF Kinds
    <2>3. SameOperation(g, f)
      BY SameTags
    <2> HIDE DEF starts, g
    <2>4. SameOperation(h, f)
      <3>0. ReaderTyped(g)
        BY <2>3 DEF SameOperation
      <3>1. SameOperation(h, g)
        BY <3>0, SameTags
      <3> HIDE DEF h
      <3> QED
        BY <2>3, <3>1 DEF SameOperation
    <2> HIDE DEF h
    <2>5. /\ CarryOn(starts \o AfterLoop(g, r), r)
          /\ CarryOn(starts \o <<<<"data", r>>>>, r)
          /\ CarryOn(starts \o TagsFor(g, r, t), r)
      BY <2>2, OneCall, AfterLoopCarriesOn, TagsForCarryOn, TagsThenCall
    <2> QED
      BY <2>1, <2>3, <2>4, <2>5
  <1> QED
    BY <1>1, <1>2

LEMMA DataInv == AioInv /\ ProcessData => AioInv'
  <1> SUFFICES ASSUME AioInv, ProcessData PROVE AioInv'
    OBVIOUS
  <1>1. Typed /\ Accounts /\ Turns
    BY DEF AioInv
  <1>2. PICK r \in Readers : r = Head(work)[2]
    BY <1>1, HeadCall DEF ProcessData
  <1>3. work # <<>> /\ ~failed /\ Head(work) = <<"data", r>> /\ "data" \in Mains
    BY <1>1, <1>2, HeadCall DEF ProcessData, Mains
  <1>4. ~frs[r].io /\ frs[r].at = "open"
    <2>1. In(<<"data", r>>, work) /\ "data" # "read"
      BY <1>1, <1>3, InTail DEF Typed
    <2> QED
      BY <1>1, <2>1 DEF Turns, Turn
  <1>5. PICK f : f = frs[r] /\ ReaderTyped(f)
    BY <1>1 DEF Typed
  <1> DEFINE g == [f EXCEPT !.data = Tail(f.data)]
             t == Head(f.data)
  <1>6. \/ f.orphan /\ ClearFileOperation(r, f) /\ Then(<<>>)
        \/ /\ \/ Continue(r, f, AfterLoop(f, r))
              \/ f.data # <<>> /\ Continue(r, g, StopElement(f, r))
              \/ f.data # <<>> /\ Continue(r, [g EXCEPT !.cues = TRUE], <<<<"data", r>>>>)
              \/ f.data # <<>> /\ ProcessMediaTag(r, g, t)
           /\ pool' = pool /\ aio' = aio /\ posted' = posted /\ element' = element
           /\ failed' = failed
    BY <1>2, <1>5 DEF ProcessData
  <1>7. CASE f.orphan /\ ClearFileOperation(r, f) /\ Then(<<>>)
    <2>2. /\ ~In(<<"full", r>>, posted)
          /\ frs[r].buffer # Null => pool[frs[r].buffer].state = "VALID_DATA"
      BY <1>1, <1>4 DEF Accounts, Waits
    <2>3. f.io = FALSE
      BY <1>4, <1>5 DEF ReaderTyped
    <2>4. /\ frs'[r].at = "gone" /\ frs'[r].io = FALSE
          /\ frs'[r].alarm = "firing" => frs[r].alarm = "firing"
          /\ \A q \in Readers : q # r => frs'[q] = frs[q]
          /\ \A q \in Readers : In(<<"full", q>>, posted') => In(<<"full", q>>, posted)
          /\ \A q \in Readers : q # r /\ frs[q].buffer # Null =>
                pool'[frs[q].buffer].state = pool[frs[q].buffer].state
          /\ (/\ work' \in Seq(Frame) /\ Lone(work', Mains)
              /\ \A q \in Readers : Turn(q)') => AioInv'
      BY <1>3, <1>4, <1>5, <1>7, <2>2, <2>3, ClearedInv
    <2>5. work' = <<>> \o Tail(work) /\ CarryOn(<<>>, r) /\ \A c : ~In(c, <<>>)
      BY <1>3, <1>7, NoCalls, TagsCarryOn, InEmpty DEF Then
    <2>6. work' \in Seq(Frame) /\ Lone(work', Mains) /\ \A q \in Readers : Turn(q)'
      BY <1>1, <1>3, <2>4, <2>5, MainTurn
    <2> QED
      BY <2>4, <2>6
  <1>8. CASE /\ \/ Continue(r, f, AfterLoop(f, r))
                \/ f.data # <<>> /\ Continue(r, g, StopElement(f, r))
                \/ f.data # <<>> /\ Continue(r, [g EXCEPT !.cues = TRUE], <<<<"data", r>>>>)
                \/ f.data # <<>> /\ ProcessMediaTag(r, g, t)
             /\ pool' = pool /\ aio' = aio /\ posted' = posted /\ element' = element
             /\ failed' = failed
    <2>1. ASSUME f.data # <<>> PROVE SameOperation(g, f) /\ t \in Nat
      <3>1. Tail(f.data) \in Seq(Nat) /\ t \in Nat
        BY <1>5, <2>1, InTail DEF ReaderTyped
      <3> QED
        BY <1>5, <3>1 DEF SameOperation, ReaderTyped, Shaped, Fresh
    <2> HIDE DEF g, t
    <2>2. PICK h, frames : SameOperation(h, f) /\ CarryOn(frames, r) /\ Set(r, h) /\ Then(frames)
      <3>1. CASE Continue(r, f, AfterLoop(f, r))
        <4>1. SameOperation(f, f)
          BY <1>5 DEF SameOperation
        <4> QED
          BY <3>1, <4>1, AfterLoopCarriesOn DEF Continue
      <3>2. CASE f.data # <<>> /\ Continue(r, g, StopElement(f, r))
        BY <2>1, <3>2, StopElementTags, TagsCarryOn DEF Continue
      <3>3. CASE f.data # <<>> /\ Continue(r, [g EXCEPT !.cues = TRUE], <<<<"data", r>>>>)
        <4> DEFINE h == [g EXCEPT !.cues = TRUE]
        <4>1. SameOperation(h, f)
          <5>0. ReaderTyped(g)
            BY <2>1, <3>3 DEF SameOperation
          <5>1. SameOperation(h, g)
            BY <5>0, SameTags
          <5> HIDE DEF h
          <5> QED
            BY <2>1, <3>3, <5>1 DEF SameOperation
        <4>2. Set(r, h) /\ Then(<<<<"data", r>>>>)
          BY <3>3 DEF Continue
        <4> HIDE DEF h
        <4> QED
          BY <4>1, <4>2, OneCall
      <3>4. CASE f.data # <<>> /\ ProcessMediaTag(r, g, t)
        <4>1. ReaderTyped(g) /\ t \in Nat
          BY <2>1, <3>4 DEF SameOperation
        <4>2. PICK h, frames :
                SameOperation(h, g) /\ CarryOn(frames, r) /\ Set(r, h) /\ Then(frames)
          BY <3>4, <4>1, MediaTagStep
        <4>3. SameOperation(h, f)
          BY <2>1, <3>4, <4>2 DEF SameOperation
        <4> QED
          BY <4>2, <4>3
      <3> QED
        BY <1>8, <3>1, <3>2, <3>3, <3>4
    <2> QED
      BY <1>3, <1>4, <1>5, <1>8, <2>2, ContinueInv DEF SameOperation
  <1> QED
    BY <1>6, <1>7, <1>8

-----------------------------------------------------------------------------
(* The theorems *)

LEMMA AioInitInv == AioInit => AioInv
  <1> SUFFICES ASSUME AioInit PROVE AioInv
    OBVIOUS
  <1>1. /\ frs = [r \in Readers |-> Fresh] /\ pool = EmptyPool /\ aio = {}
        /\ posted = <<>> /\ work = <<>> /\ element = "open" /\ failed = FALSE
    BY DEF AioInit
  <1>2. \A c : ~In(c, posted) /\ ~In(c, work)
    BY <1>1, InEmpty
  <1>3. /\ ReaderTyped(Fresh) /\ Fresh.at = "new" /\ Fresh.buffer = Null /\ Fresh.io = FALSE
        /\ Fresh.orphan = FALSE /\ Fresh.alarm = "no"
    <2>1. 1 \in Keys /\ <<>> \in Seq(Nat) /\ 0 \in 0..FileTags
      BY AioConstants
    <2> QED
      BY <2>1 DEF ReaderTyped, Shaped, Fresh
  <1> DEFINE e == FreeListed(Null)
  <1>4. /\ e \in Buffer /\ e.use_count = 0 /\ e.done = {} /\ e.state = "NEW" /\ e.data_key = Null
    <2>1. 0 \in 0..MaxSize /\ 0 \in Nat
      BY AioConstants
    <2> QED
      BY <2>1 DEF FreeListed, NewBuffer, Buffer, BufferStates
  <1>5. pool = [b \in Buffers |-> e]
    BY <1>1 DEF EmptyPool
  <1> HIDE DEF e
  <1>6. Typed
    <2>1. <<>> \in Seq(Closure) /\ <<>> \in Seq(Frame)
      OBVIOUS
    <2> QED
      BY <1>1, <1>3, <1>4, <1>5, <2>1 DEF Typed, Pool
  <1>7. Accounts
    <2>1. ASSUME NEW b \in Buffers PROVE Accounted(b)
      <3>1. UsersOf(b) = {}
        BY <1>1, <1>3, AioConstants DEF UsersOf
      <3>2. Cardinality(UsersOf(b)) = 0
        BY <3>1, FS_EmptySet
      <3> QED
        BY <1>4, <1>5, <3>1, <3>2 DEF Accounted
    <2>2. Keyed
      BY <1>4, <1>5 DEF Keyed
    <2>3. \A r \in Readers : Waits(r)
      BY <1>1, <1>2, <1>3 DEF Waits
    <2> QED
      BY <2>1, <2>2, <2>3 DEF Accounts
  <1>8. Turns
    BY <1>1, <1>2, <1>3, LoneOne DEF Turns, Turn
  <1>9. Ends
    BY <1>1, <1>2, <1>3 DEF Ends
  <1> QED
    BY <1>1, <1>6, <1>7, <1>8, <1>9 DEF AioInv

LEMMA AioStutterInv == AioInv /\ UNCHANGED aioVars => AioInv'
  <1> SUFFICES ASSUME AioInv, UNCHANGED aioVars PROVE AioInv'
    OBVIOUS
  <1>1. /\ frs' = frs /\ pool' = pool /\ aio' = aio /\ posted' = posted /\ work' = work
        /\ element' = element /\ failed' = failed
    BY DEF aioVars
  <1>2. Typed /\ Accounts /\ Turns /\ Ends /\ (failed => Exhausted \/ ClearedInAlarm)
    BY DEF AioInv
  <1>3. Typed'
    BY <1>1, <1>2 DEF Typed
  <1>4. Accounts'
    BY <1>1, <1>2, KeptAccounts
  <1>5. Turns'
    BY <1>1, <1>2 DEF Turns, Turn
  <1>6. Ends'
    BY <1>1, <1>2 DEF Ends, FileOps
  <1>7. failed' => Exhausted' \/ ClearedInAlarm'
    BY <1>1, <1>2 DEF Exhausted, ClearedInAlarm
  <1> QED
    BY <1>3, <1>4, <1>5, <1>6, <1>7 DEF AioInv

LEMMA AioNextInv == AioInv /\ [AioNext]_aioVars => AioInv'
  <1> SUFFICES ASSUME AioInv, [AioNext]_aioVars PROVE AioInv'
    OBVIOUS
  <1>1. CASE AioLoopStep
    BY <1>1, ReadInv, OperationInv, DataInv, SentInv, TagInv, FiredInv, CompletedInv, FullInv,
       InternalCloseInv, StopInv, ClosedInv, FiresInv DEF AioLoopStep
  <1>2. ASSUME NEW r \in Readers, ClientStep(r) PROVE AioInv'
    <2>1. ASSUME NEW req \in Requests, AddRequest(r, req[1], req[2]) PROVE AioInv'
      <3>1. req[1] \in 0..FileTags
        BY AioConstants
      <3> QED
        BY <2>1, <3>1, AddInv
    <2> QED
      BY <1>2, <2>1, RemoveInv, PauseInv, SeekInv DEF ClientStep
  <1>3. ASSUME NEW r \in Readers, NEW size, AioCompletes(r, size) PROVE AioInv'
    BY <1>3, CompletesInv
  <1>4. CASE Close
    BY <1>4, CloseInv
  <1>5. CASE UNCHANGED aioVars
    BY <1>5, AioStutterInv
  <1> QED
    BY <1>1, <1>2, <1>3, <1>4, <1>5 DEF AioNext

LEMMA AioInvariant == AioSpec => []AioInv
  <1> QED
    BY AioInitInv, AioNextInv, PTL DEF AioSpec

LEMMA AioSafe == AioInv => BuffersAccounted /\ (~AddsWhenExhausted => NoCheckFails)
  <1> SUFFICES ASSUME AioInv PROVE BuffersAccounted /\ (~AddsWhenExhausted => NoCheckFails)
    OBVIOUS
  <1>1. Typed /\ Accounts /\ (failed => AddsWhenExhausted \/ ClearedInAlarm)
    BY DEF AioInv, Exhausted
  <1> DEFINE R(r) == r \in aio \/ \E i \in DOMAIN posted : posted[i][1] = "aio" /\ posted[i][2] = r
  <1>2. ASSUME NEW r \in Readers PROVE R(r) <=> Reading(r)
    <2>1. ASSUME NEW i \in DOMAIN posted, posted[i][1] = "aio", posted[i][2] = r
          PROVE  \E size \in 0..MaxSize : In(<<"aio", r, size>>, posted)
      <3>1. posted[i] \in Closure
        BY <1>1 DEF Typed
      <3>2. PICK q \in Readers, size \in 0..MaxSize : posted[i] = <<"aio", q, size>>
        BY <2>1, <3>1 DEF Closure
      <3>3. q = r
        BY <2>1, <3>2
      <3> QED
        BY <3>2, <3>3 DEF In
    <2>2. ASSUME NEW size \in 0..MaxSize, In(<<"aio", r, size>>, posted)
          PROVE  \E i \in DOMAIN posted : posted[i][1] = "aio" /\ posted[i][2] = r
      BY <2>2 DEF In
    <2> QED
      BY <2>1, <2>2 DEF Reading
  <1> DEFINE U(b) == {r \in Readers : frs[r].buffer = b}
  <1>3. \A b : U(b) = UsersOf(b)
    BY DEF UsersOf
  <1>4. ASSUME NEW b \in Buffers
        PROVE  /\ pool[b].use_count = Cardinality(U(b))
               /\ pool[b].done \subseteq U(b)
               /\ pool[b].use_count > 0 => pool[b].state # "NEW"
               /\ pool[b].state = "IN_LOOKUP" =>
                    /\ Cardinality({r \in U(b) : R(r)}) = 1
                    /\ {r \in U(b) : ~R(r)} = pool[b].done
               /\ pool[b].state = "VALID_DATA" /\ pool[b].data_size > 0 =>
                    pool[b].content = pool[b].data_key
    <2>1. Accounted(b) /\ U(b) = UsersOf(b)
      BY <1>1, <1>3 DEF Accounts
    <2>2. pool[b].use_count > 0 => U(b) # {}
      BY <2>1, FS_EmptySet DEF Accounted
    <2>3. ASSUME pool[b].state = "IN_LOOKUP"
          PROVE  /\ Cardinality({r \in U(b) : R(r)}) = 1
                 /\ {r \in U(b) : ~R(r)} = pool[b].done
      <3>1. PICK u \in UsersOf(b) :
              /\ Reading(u) /\ pool[b].done = UsersOf(b) \ {u}
              /\ \A q \in UsersOf(b) : q # u => ~Reading(q)
        BY <2>1, <2>3 DEF Accounted
      <3>2. \A q \in UsersOf(b) : R(q) <=> Reading(q)
        BY <1>2 DEF UsersOf
      <3> HIDE DEF R, U
      <3>3. {r \in U(b) : R(r)} = {u} /\ {r \in U(b) : ~R(r)} = pool[b].done
        BY <2>1, <3>1, <3>2
      <3> QED
        BY <3>3, FS_Singleton
    <2> QED
      BY <2>1, <2>2, <2>3 DEF Accounted
  <1>5. \A b, c \in Buffers : pool[b].data_key = pool[c].data_key /\ b # c =>
                                 pool[b].data_key = Null
    BY <1>1 DEF Accounts, Keyed
  <1>6. BuffersAccounted
    BY <1>4, <1>5 DEF BuffersAccounted
  <1>7. ~AddsWhenExhausted => NoCheckFails
    BY <1>1 DEF NoCheckFails
  <1> QED
    BY <1>6, <1>7

\* BufferManager, which every reader shares: whatever the order in which the
\* files' operations complete, streams are paused, removed and closed, a buffer
\* in use has exactly the users that hold it, a released one is in no reader's
\* hands, and no two buffers stand for the same block of a file (GetBuffer,
\* DoneBuffer and EndUsage with the reads of AioFileReadingStruct).
THEOREM BuffersAreAccounted == AioSpec => []BuffersAccounted
  <1> QED
    BY AioInvariant, AioSafe, PTL

\* Of the checks of the file element only two can ever fail: the CHECK in
\* AddRequest for a new reader whose first read finds every buffer in use
\* (InitiateAioRequest returns false), and the alarm's own CHECK(!firing_) when a
\* reader whose client left inside a tag is cleared by its unpause_alarm_.
THEOREM OnlyTwoChecksFail == AioSpec => [](NoCheckFails \/ Exhausted)
  <1>1. AioInv => NoCheckFails \/ Exhausted
    BY DEF AioInv, NoCheckFails
  <1> QED
    BY <1>1, AioInvariant, PTL

\* The CHECKs of the read path (an answer finds its reader reading, the block it
\* filled is the one the reader is at, a seek or an end finds no read pending)
\* hold in every order of answers, alarms, seeks, removals and closes, for any
\* files, readers and buffers, if no reader is added while every buffer is in
\* use; the only abort left is that of ClearedInAlarm.
THEOREM NoReadCheckFails == AioSpec => [](~AddsWhenExhausted => NoCheckFails)
  <1>1. AioInv => (~AddsWhenExhausted => NoCheckFails)
    BY AioSafe
  <1> QED
    BY <1>1, AioInvariant, PTL
=============================================================================
