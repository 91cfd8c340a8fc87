-------------------------- MODULE HttpClientProof ---------------------------
(***************************************************************************)
(* Safety of the HTTP client, for any requests, servers and bounds: first  *)
(* the client that retries on several servers (FailSafeClient), then the   *)
(* connection to one server (HttpClient).                                  *)
(***************************************************************************)
EXTENDS FailSafeClient, HttpClient, FiniteSetTheorems, SequenceTheorems,
        WellFoundedInduction, TLAPS

-----------------------------------------------------------------------------
(* Sequences *)

\* A sequence with one more element.
LEMMA AppendAt ==
    ASSUME NEW S, NEW s \in Seq(S), NEW e \in S, NEW t, t = Append(s, e)
    PROVE  /\ t \in Seq(S) /\ Len(s) \in Nat /\ Len(t) = Len(s) + 1
           /\ DOMAIN s = 1..Len(s) /\ DOMAIN t = 1..(Len(s) + 1)
           /\ \A i \in DOMAIN s : i \in DOMAIN t /\ t[i] = s[i]
           /\ t[Len(s) + 1] = e
  <1>1. /\ t \in Seq(S) /\ Len(t) = Len(s) + 1
        /\ \A i \in 1..Len(s) : t[i] = s[i]
        /\ t[Len(s) + 1] = e
    BY AppendProperties
  <1>2. DOMAIN s = 1..Len(s) /\ Len(s) \in Nat /\ DOMAIN t = 1..Len(t)
    BY <1>1, LenProperties
  <1> QED
    BY <1>1, <1>2

\* A sequence without its head.
LEMMA TailAt ==
    ASSUME NEW S, NEW s \in Seq(S), s # <<>>, NEW t, t = Tail(s)
    PROVE  /\ t \in Seq(S) /\ Len(s) \in Nat \ {0} /\ Len(t) = Len(s) - 1
           /\ DOMAIN s = 1..Len(s) /\ DOMAIN t = 1..(Len(s) - 1)
           /\ \A i \in DOMAIN t : i + 1 \in DOMAIN s /\ t[i] = s[i + 1]
           /\ \A i \in DOMAIN s : i # 1 => i - 1 \in DOMAIN t /\ s[i] = t[i - 1]
           /\ 1 \in DOMAIN s /\ Head(s) = s[1] /\ s[1] \in S
  <1>1. /\ Len(s) \in Nat \ {0} /\ DOMAIN s = 1..Len(s)
    BY EmptySeq, LenProperties
  <1>2. Head(s) = s[1] /\ s[1] \in S
    BY <1>1, ElementOfSeq
  <1>3. /\ t \in Seq(S) /\ Len(t) = Len(s) - 1
        /\ \A i \in 1..Len(t) : t[i] = s[i + 1]
    BY <1>1, HeadTailProperties
  <1>4. DOMAIN t = 1..(Len(s) - 1)
    BY <1>3, LenProperties
  <1>5. \A i \in DOMAIN s : i # 1 => i - 1 \in 1..(Len(s) - 1) /\ s[i] = t[i - 1]
    <2> SUFFICES ASSUME NEW i \in 1..Len(s), i # 1
                 PROVE  i - 1 \in 1..(Len(s) - 1) /\ s[i] = t[i - 1]
      BY <1>1
    <2>1. i - 1 \in 1..(Len(s) - 1) /\ (i - 1) + 1 = i
      BY <1>1
    <2>2. t[i - 1] = s[(i - 1) + 1]
      BY <1>1, <1>3, <2>1
    <2> QED
      BY <2>1, <2>2
  <1> QED
    BY <1>1, <1>2, <1>3, <1>4, <1>5

\* A sequence with one more element in front.
LEMMA ConsAt ==
    ASSUME NEW S, NEW s \in Seq(S), NEW e \in S, NEW t, t = <<e>> \o s
    PROVE  /\ t \in Seq(S) /\ Len(s) \in Nat /\ Len(t) = Len(s) + 1
           /\ DOMAIN s = 1..Len(s) /\ DOMAIN t = 1..(Len(s) + 1)
           /\ t # <<>> /\ t[1] = e
           /\ \A i \in DOMAIN t : i # 1 => i - 1 \in DOMAIN s /\ t[i] = s[i - 1]
           /\ Head(t) = e /\ Tail(t) = s
  <1> DEFINE o == <<e>>
  <1>1. o \in Seq(S) /\ Len(o) = 1 /\ o[1] = e
    OBVIOUS
  <1>2. DOMAIN s = 1..Len(s) /\ Len(s) \in Nat
    BY LenProperties
  <1> HIDE DEF o
  <1>3. /\ t \in Seq(S) /\ Len(t) = Len(o) + Len(s)
        /\ \A i \in 1..Len(o) + Len(s) : t[i] = IF i <= Len(o) THEN o[i] ELSE s[i - Len(o)]
    BY <1>1, ConcatProperties DEF o
  <1>4. Len(t) = Len(s) + 1 /\ t # <<>>
    BY <1>1, <1>2, <1>3, EmptySeq
  <1>5. DOMAIN t = 1..Len(t)
    BY <1>3, LenProperties
  <1>6. t[1] = e /\ \A i \in DOMAIN t : i # 1 => i - 1 \in DOMAIN s /\ t[i] = s[i - 1]
    BY <1>1, <1>2, <1>3, <1>4, <1>5
  <1>7. Head(t) = t[1] /\ Tail(t) \in Seq(S) /\ Len(Tail(t)) = Len(s)
        /\ \A i \in 1..Len(s) : Tail(t)[i] = t[i + 1]
    BY <1>2, <1>3, <1>4, HeadTailProperties
  <1>8. \A i \in 1..Len(s) : Tail(t)[i] = s[i]
    <2> SUFFICES ASSUME NEW i \in 1..Len(s) PROVE Tail(t)[i] = s[i]
      OBVIOUS
    <2>1. i + 1 \in DOMAIN t /\ i + 1 # 1 /\ (i + 1) - 1 = i
      BY <1>2, <1>4, <1>5
    <2> QED
      BY <1>6, <1>7, <2>1
  <1>9. Tail(t) = s
    BY <1>7, <1>8, SeqEqual
  <1> QED
    BY <1>2, <1>3, <1>4, <1>5, <1>6, <1>7, <1>9

\* How many elements of a sequence are in a set ...
Hits(s, A) == Cardinality({k \in DOMAIN s : s[k] \in A})

\* ... and whether there is one.
LEMMA HitsPositive ==
    ASSUME NEW S, NEW s \in Seq(S), NEW A
    PROVE  /\ IsFiniteSet({k \in DOMAIN s : s[k] \in A})
           /\ Hits(s, A) \in Nat
           /\ Hits(s, A) > 0 <=> \E k \in DOMAIN s : s[k] \in A
  <1> DEFINE K == {k \in DOMAIN s : s[k] \in A}
  <1>1. Len(s) \in Nat /\ DOMAIN s = 1..Len(s)
    BY LenProperties
  <1>2. IsFiniteSet(DOMAIN s)
    BY <1>1, FS_Interval
  <1>3. IsFiniteSet(K)
    BY <1>2, FS_Subset
  <1>4. Cardinality(K) \in Nat /\ (Cardinality(K) = 0 <=> K = {})
    BY <1>3, FS_CardinalityType, FS_EmptySet
  <1>5. K # {} <=> \E k \in DOMAIN s : s[k] \in A
    OBVIOUS
  <1> QED
    BY <1>3, <1>4, <1>5 DEF Hits

\* There is none in the empty sequence.
LEMMA HitsEmpty ==
    ASSUME NEW s, s = <<>>, NEW A
    PROVE  Hits(s, A) = 0
  <1>1. {k \in DOMAIN s : s[k] \in A} = {}
    OBVIOUS
  <1> QED
    BY <1>1, FS_EmptySet DEF Hits

\* One more, or as many as before.
LEMMA HitsAppend ==
    ASSUME NEW S, NEW s \in Seq(S), NEW e \in S, NEW A, NEW t, t = Append(s, e)
    PROVE  Hits(t, A) = IF e \in A THEN Hits(s, A) + 1 ELSE Hits(s, A)
  <1> DEFINE n == Len(s) + 1
             K == {k \in DOMAIN s : s[k] \in A}
             L == {k \in DOMAIN t : t[k] \in A}
  <1>1. /\ Len(s) \in Nat /\ DOMAIN t = 1..n /\ DOMAIN s = 1..Len(s)
        /\ \A i \in DOMAIN s : t[i] = s[i]
        /\ t[n] = e
    BY AppendAt
  <1>2. IsFiniteSet(K) /\ n \notin K
    <2>1. n \notin K
      BY <1>1
    <2>2. IsFiniteSet(K)
      BY HitsPositive
    <2> QED
      BY <2>1, <2>2
  <1>3. CASE e \in A
    <2>1. L = K \cup {n}
      BY <1>1, <1>3
    <2>2. Cardinality(L) = Cardinality(K) + 1
      <3> HIDE DEF K, L, n
      <3> QED
        BY <1>2, <2>1, FS_AddElement
    <2> QED
      BY <1>3, <2>2 DEF Hits
  <1>4. CASE e \notin A
    <2>1. L = K
      BY <1>1, <1>4
    <2> QED
      BY <1>4, <2>1 DEF Hits
  <1> QED
    BY <1>3, <1>4

\* One less when the head goes, or as many as before.
LEMMA HitsTail ==
    ASSUME NEW S, NEW s \in Seq(S), s # <<>>, NEW A, NEW t, t = Tail(s)
    PROVE  Hits(s, A) = IF Head(s) \in A THEN Hits(t, A) + 1 ELSE Hits(t, A)
  <1> DEFINE K == {k \in DOMAIN s : s[k] \in A}
             L == {k \in DOMAIN t : t[k] \in A}
             M == K \ {1}
  <1>1. /\ t \in Seq(S) /\ Len(s) \in Nat \ {0}
        /\ DOMAIN s = 1..Len(s) /\ DOMAIN t = 1..(Len(s) - 1)
        /\ \A i \in DOMAIN t : i + 1 \in DOMAIN s /\ t[i] = s[i + 1]
        /\ \A i \in DOMAIN s : i # 1 => i - 1 \in DOMAIN t /\ s[i] = t[i - 1]
        /\ Head(s) = s[1]
    BY TailAt
  <1>2. IsFiniteSet(K) /\ IsFiniteSet(L)
    <2>1. IsFiniteSet(K)
      BY HitsPositive
    <2>2. IsFiniteSet(L)
      <3>1. t \in Seq(S)
        BY <1>1
      <3> QED
        BY <3>1, HitsPositive
    <2> QED
      BY <2>1, <2>2
  <1>3. Cardinality(L) = Cardinality(M)
    <2> DEFINE f == [k \in L |-> k + 1]
    <2>1. f \in Bijection(L, M)
      <3>1. f \in [L -> M]
        BY <1>1
      <3>2. \A a, b \in L : f[a] = f[b] => a = b
        BY <1>1
      <3>3. \A m \in M : \E k \in L : f[k] = m
        <4> SUFFICES ASSUME NEW m \in M PROVE \E k \in L : f[k] = m
          OBVIOUS
        <4>1. m - 1 \in L /\ (m - 1) + 1 = m
          BY <1>1, SMTT(30)
        <4> QED
          BY <4>1
      <3> HIDE DEF f, L, M
      <3> QED
        BY <3>1, <3>2, <3>3 DEF Bijection, Injection, Surjection, IsInjective
    <2>2. ExistsBijection(L, M)
      BY <2>1 DEF ExistsBijection
    <2> HIDE DEF K, L, M, f
    <2> QED
      BY <1>2, <2>2, FS_Bijection
  <1>4. CASE Head(s) \in A
    <2>1. 1 \in K
      BY <1>1, <1>4
    <2>2. Cardinality(M) = Cardinality(K) - 1 /\ Cardinality(K) \in Nat
      <3> HIDE DEF K
      <3> QED
        BY <1>2, <2>1, FS_RemoveElement, FS_CardinalityType
    <2>3. Hits(s, A) = Cardinality(K) /\ Hits(t, A) = Cardinality(L)
      BY DEF Hits
    <2> HIDE DEF K, L, M
    <2> QED
      BY <1>3, <1>4, <2>2, <2>3
  <1>5. CASE Head(s) \notin A
    <2>1. M = K
      BY <1>1, <1>5
    <2> QED
      BY <1>3, <1>5, <2>1 DEF Hits
  <1> QED
    BY <1>4, <1>5

-----------------------------------------------------------------------------
(* FailSafeClient *)

\* The ASSUME of FailSafeClient, as a hypothesis of the lemmas.
FailSafeConstants ==
    /\ NumServers \in Nat \ {0} /\ NumRetries \in Nat
    /\ Timeout \in Nat /\ Interval \in Nat

Frames(r) == {t \in Tasks : t.do = "complete" /\ r \in t.reqs}
Holders(h, r) == Cardinality({i \in Servers : r \in h[i]})

\* Places, where the count of each part follows the steps one by one.
Count(r) ==
    done[r] + Holders(held, r) + Hits(pending, {r}) + Hits(old, {r}) + Hits(work, Frames(r))

FTyped == FailSafeTypeOK /\ \A i \in Servers : IsFiniteSet(held[i])

\* The stack of a turn: completions on top of RequeuePending, if that runs at
\* all, and the queue that it took aside is empty but for the time it runs.
FStack ==
    /\ \A k \in DOMAIN work : work[k].do # "complete" => k = Len(work)
    /\ old # <<>> => work # <<>> /\ work[Len(work)].do \in {"loop", "move"}

\* The destructor leaves nothing behind.
FGone ==
    deleted => /\ work = <<>> /\ pending = <<>>
               /\ \A i \in Servers : held[i] = {}

FCounted == \A r \in Fetches : Count(r) = IF r \in started THEN 1 ELSE 0

FInv == FTyped /\ FStack /\ FGone /\ FCounted

-----------------------------------------------------------------------------

\* A request is with finitely many servers.
LEMMA HoldersFinite ==
    ASSUME FailSafeConstants, NEW h, NEW q
    PROVE  /\ IsFiniteSet({i \in Servers : q \in h[i]})
           /\ Holders(h, q) \in Nat
           /\ Holders(h, q) = 0 <=> \A i \in Servers : q \notin h[i]
  <1> DEFINE K == {i \in Servers : q \in h[i]}
  <1>1. IsFiniteSet(Servers)
    BY FS_Interval DEF FailSafeConstants, Servers
  <1>2. IsFiniteSet(K)
    BY <1>1, FS_Subset
  <1>3. Cardinality(K) \in Nat /\ (Cardinality(K) = 0 <=> K = {})
    BY <1>2, FS_CardinalityType, FS_EmptySet
  <1> QED
    BY <1>2, <1>3 DEF Holders

\* What becomes of the count when one server is given other requests.
LEMMA HoldersExcept ==
    ASSUME FailSafeConstants, NEW c \in Servers, NEW h, NEW g,
           \A i \in Servers : i # c => g[i] = h[i], NEW q
    PROVE  Holders(g, q) + (IF q \in h[c] THEN 1 ELSE 0)
             = Holders(h, q) + (IF q \in g[c] THEN 1 ELSE 0)
  <1> DEFINE K == {i \in Servers : q \in h[i]}
             L == {i \in Servers : q \in g[i]}
  <1>1. IsFiniteSet(K) /\ IsFiniteSet(L)
    BY HoldersFinite
  <1>2. K \ {c} = L \ {c} /\ (c \in K <=> q \in h[c]) /\ (c \in L <=> q \in g[c])
    OBVIOUS
  <1>3. Holders(h, q) = Cardinality(K) /\ Holders(g, q) = Cardinality(L)
    BY DEF Holders
  <1>4. /\ Cardinality(K \ {c}) = IF c \in K THEN Cardinality(K) - 1 ELSE Cardinality(K)
        /\ Cardinality(L \ {c}) = IF c \in L THEN Cardinality(L) - 1 ELSE Cardinality(L)
        /\ Cardinality(K) \in Nat /\ Cardinality(L) \in Nat
    <2> HIDE DEF K, L
    <2> QED
      BY <1>1, FS_RemoveElement, FS_CardinalityType
  <1> DEFINE D == Cardinality(K \ {c})
             k == Cardinality(K)
             l == Cardinality(L)
  <1>5. /\ D = IF q \in h[c] THEN k - 1 ELSE k
        /\ D = IF q \in g[c] THEN l - 1 ELSE l
        /\ k \in Nat /\ l \in Nat
    BY <1>2, <1>4
  <1>6. Holders(h, q) = k /\ Holders(g, q) = l
    BY <1>3
  <1> HIDE DEF D, k, l
  <1> QED
    BY <1>5, <1>6

\* A set of natural numbers has a least one.
LEMMA LeastNumber ==
    ASSUME NEW A \in SUBSET Nat, A # {}
    PROVE  \E m \in A : \A n \in A : m <= n
  <1> DEFINE R == {ss \in Nat \X Nat : ss[1] < ss[2]}
  <1>1. IsWellFoundedOn(R, Nat)
    BY NatLessThanWellFounded DEF OpToRel
  <1> HIDE DEF R
  <1>2. PICK m \in A : \A n \in A : ~ (<<n, m>> \in R)
    BY <1>1, WFMin
  <1>3. \A n \in A : ~ (n < m)
    BY <1>2 DEF R
  <1> QED
    BY <1>3

\* The Cardinality of FailSafeClient is that of this module.
LEMMA FCardinality ==
    ASSUME NEW A
    PROVE  Cardinality(A) = Cardinality(A)
  BY DEF Cardinality, Cardinality

\* LeastLoaded is one of the live clients.
LEMMA LeastLoadedIsLive ==
    ASSUME FailSafeConstants, FTyped, Live # {}
    PROVE  LeastLoaded \in Live
  <1> DEFINE load(i) == Cardinality(held[i])
             Loads == {load(i) : i \in Live}
  <1>1. Live \subseteq Servers /\ Servers \subseteq Nat
    BY DEF Live, Servers, FailSafeConstants
  <1>2. \A i \in Live : load(i) \in Nat
    BY <1>1, FS_CardinalityType DEF FTyped
  <1>3. PICK m \in Loads : \A n \in Loads : m <= n
    BY <1>2, LeastNumber
  <1> DEFINE Best == {i \in Live : load(i) = m}
  <1>4. PICK i \in Best : \A j \in Best : i <= j
    <2>1. Best # {} /\ Best \subseteq Nat
      BY <1>1, <1>3
    <2> QED
      BY <2>1, LeastNumber
  <1>5. i \in Live /\ load(i) = m
    BY <1>4
  <1>6. \A j \in Live : \/ load(i) < load(j)
                        \/ load(i) = load(j) /\ i <= j
    <2> SUFFICES ASSUME NEW j \in Live
                 PROVE  load(i) < load(j) \/ (load(i) = load(j) /\ i <= j)
      OBVIOUS
    <2>1. m <= load(j) /\ m \in Nat /\ load(j) \in Nat
      BY <1>2, <1>3
    <2>2. load(j) = m => i <= j
      BY <1>4
    <2> QED
      BY <1>5, <2>1, <2>2
  <1> QED
    BY <1>5, <1>6, FCardinality DEF LeastLoaded


\* Completions are calls, and count for their requests.
LEMMA CompletionFrames ==
    ASSUME NEW X \in SUBSET Fetches, NEW t, t = [do |-> "complete", reqs |-> X]
    PROVE  /\ t \in Tasks
           /\ \A q : t \in Frames(q) <=> q \in X
  <1>1. t \in Tasks /\ t.do = "complete" /\ t.reqs = X
    BY DEF Tasks
  <1> QED
    BY <1>1 DEF Frames

\* The other calls count for none.
LEMMA OtherFrames ==
    ASSUME NEW t \in Tasks, t.do # "complete", NEW q
    PROVE  t \notin Frames(q)
  BY DEF Frames

\* What InternalStartRequest leaves of the state ...
FStartTyped ==
    /\ link' \in [Servers -> {"fresh", "connecting", "early", "open", "gone"}]
    /\ held' \in [Servers -> SUBSET Fetches]
    /\ \A i \in Servers : IsFiniteSet(held'[i])
    /\ since' \in [Servers -> 0..Interval + 1]
    /\ retries' \in [Fetches -> 0..NumRetries]
    /\ pending' \in Seq(Fetches)
    /\ work' \in Seq(Tasks)
    /\ done' \in [Fetches -> Nat]

\* ... and what of the counts: the request it is given is in one place more,
\* and the caller goes on with x.
FStarts(r, x) ==
    \A q \in Fetches :
       done'[q] + Holders(held', q) + Hits(pending', {q}) + Hits(work', Frames(q))
         = done[q] + Holders(held, q) + Hits(pending, {q}) + Hits(x, Frames(q))
             + (IF q = r THEN 1 ELSE 0)

\* The counts are numbers.
LEMMA CountsAreNumbers ==
    ASSUME FailSafeConstants, NEW h, NEW s \in Seq(Fetches), NEW w \in Seq(Tasks), NEW q
    PROVE  Holders(h, q) \in Nat /\ Hits(s, {q}) \in Nat /\ Hits(w, Frames(q)) \in Nat
  BY HoldersFinite, HitsPositive

\* InternalStartRequest puts a request that no client has in one place.
LEMMA StartCounts ==
    ASSUME FailSafeConstants, FTyped, NEW r \in Fetches,
           NEW a \in Seq(Tasks), NEW b \in Seq(Tasks),
           \A i \in Servers : r \notin held[i],
           InternalStartRequest(r, a, b)
    PROVE  /\ FStartTyped
           /\ \/ FStarts(r, a) /\ (work' = a \/ work' = <<Complete(r)>> \o a)
              \/ FStarts(r, b) /\ work' = b
  <1>1. /\ link \in [Servers -> {"fresh", "connecting", "early", "open", "gone"}]
        /\ held \in [Servers -> SUBSET Fetches]
        /\ \A i \in Servers : IsFiniteSet(held[i])
        /\ since \in [Servers -> 0..Interval + 1]
        /\ retries \in [Fetches -> 0..NumRetries]
        /\ pending \in Seq(Fetches)
        /\ done \in [Fetches -> Nat]
    BY DEF FailSafeTypeOK, FTyped
  <1>2. CASE GiveUp(r, a)
    <2>1. FStartTyped
      BY <1>1, <1>2 DEF GiveUp, FStartTyped
    <2>2. /\ work' = a /\ held' = held /\ pending' = pending
          /\ \A q \in Fetches : done'[q] = done[q] + (IF q = r THEN 1 ELSE 0)
      BY <1>1, <1>2 DEF GiveUp
    <2>3. FStarts(r, a)
      <3> SUFFICES ASSUME NEW q \in Fetches
                   PROVE  done'[q] + Holders(held', q) + Hits(pending', {q}) + Hits(work', Frames(q))
                           = done[q] + Holders(held, q) + Hits(pending, {q}) + Hits(a, Frames(q))
                               + (IF q = r THEN 1 ELSE 0)
        BY DEF FStarts
      <3>1. Holders(held, q) \in Nat /\ Hits(pending, {q}) \in Nat /\ Hits(a, Frames(q)) \in Nat
        BY <1>1, CountsAreNumbers
      <3>2. done[q] \in Nat
        BY <1>1
      <3>3. /\ done'[q] = done[q] + (IF q = r THEN 1 ELSE 0) /\ Holders(held', q) = Holders(held, q)
            /\ Hits(pending', {q}) = Hits(pending, {q})
            /\ Hits(work', Frames(q)) = Hits(a, Frames(q))
        BY <2>2
      <3> QED
        BY <3>1, <3>2, <3>3
    <2> QED
      BY <1>1, <2>1, <2>2, <2>3
  <1>3. CASE QueueIt(r, b)
    <2>1. FStartTyped
      <3>1. /\ link' \in [Servers -> {"fresh", "connecting", "early", "open", "gone"}]
            /\ since' \in [Servers -> 0..Interval + 1]
        BY <1>1, <1>3 DEF QueueIt, FailSafeConstants
      <3>2. pending' \in Seq(Fetches)
        BY <1>1, <1>3, AppendProperties DEF QueueIt
      <3> QED
        BY <1>1, <1>3, <3>1, <3>2 DEF QueueIt, FStartTyped
    <2>2. /\ work' = b /\ held' = held /\ pending' = Append(pending, r) /\ done' = done
      BY <1>1, <1>3 DEF QueueIt
    <2>3. FStarts(r, b)
      <3> SUFFICES ASSUME NEW q \in Fetches
                   PROVE  done'[q] + Holders(held', q) + Hits(pending', {q}) + Hits(work', Frames(q))
                           = done[q] + Holders(held, q) + Hits(pending, {q}) + Hits(b, Frames(q))
                               + (IF q = r THEN 1 ELSE 0)
        BY DEF FStarts
      <3>1. Holders(held, q) \in Nat /\ Hits(pending, {q}) \in Nat /\ Hits(b, Frames(q)) \in Nat
        BY <1>1, CountsAreNumbers
      <3>2. Hits(pending', {q}) = IF r \in {q} THEN Hits(pending, {q}) + 1 ELSE Hits(pending, {q})
        <4>1. pending \in Seq(Fetches) /\ pending' = Append(pending, r)
          BY <1>1, <2>2
        <4> QED
          BY <4>1, HitsAppend, ZenonT(30)
      <3> QED
        BY <1>1, <2>2, <3>1, <3>2
    <2> QED
      BY <1>1, <2>1, <2>2, <2>3
  <1>4. CASE SendIt(r, a)
    <2> DEFINE c == LeastLoaded
    <2>1. c \in Servers
      BY <1>1, <1>4, LeastLoadedIsLive DEF SendIt, Live
    <2> HIDE DEF c
    <2>2. /\ since' \in [Servers -> 0..Interval + 1]
          /\ retries' \in [Fetches -> 0..NumRetries]
      BY <1>1, <1>4 DEF SendIt, FailSafeConstants
    <2>3. pending' = pending /\ done' = done
      BY <1>1, <1>4 DEF SendIt
    <2>4. CASE /\ held' = [held EXCEPT ![c] = @ \cup {r}] /\ work' = a
               /\ link' \in [Servers -> {"fresh", "connecting", "early", "open", "gone"}]
      <3>1. FStartTyped
        <4>1. link' \in [Servers -> {"fresh", "connecting", "early", "open", "gone"}]
          BY <1>1, <2>1, <2>4
        <4>2. held' \in [Servers -> SUBSET Fetches]
          BY <1>1, <2>1, <2>4
        <4>3. \A i \in Servers : IsFiniteSet(held'[i])
          <5> SUFFICES ASSUME NEW i \in Servers PROVE IsFiniteSet(held'[i])
            BY <1>1
          <5>1. held'[i] = held[i] \/ held'[i] = held[i] \cup {r}
            BY <1>1, <2>1, <2>4
          <5>2. IsFiniteSet(held[i])
            BY <1>1
          <5> QED
            <6>1. IsFiniteSet(held[i] \cup {r})
              BY <5>2, FS_AddElement
            <6> QED
              BY <5>1, <5>2, <6>1
        <4> QED
          BY <1>1, <2>2, <2>3, <2>4, <4>1, <4>2, <4>3 DEF FStartTyped
      <3>2. FStarts(r, a)
        <4> SUFFICES ASSUME NEW q \in Fetches
                     PROVE  done'[q] + Holders(held', q) + Hits(pending', {q}) + Hits(work', Frames(q))
                             = done[q] + Holders(held, q) + Hits(pending, {q}) + Hits(a, Frames(q))
                                 + (IF q = r THEN 1 ELSE 0)
          BY DEF FStarts
        <4>1. /\ Holders(held, q) \in Nat /\ Holders(held', q) \in Nat
              /\ Hits(pending, {q}) \in Nat /\ Hits(a, Frames(q)) \in Nat
          BY <1>1, CountsAreNumbers
        <4>2. Holders(held', q) + (IF q \in held[c] THEN 1 ELSE 0)
                = Holders(held, q) + (IF q \in held[c] \cup {r} THEN 1 ELSE 0)
          <5>1. held'[c] = held[c] \cup {r} /\ \A i \in Servers : i # c => held'[i] = held[i]
            BY <1>1, <2>1, <2>4
          <5>2. Holders(held', q) + (IF q \in held[c] THEN 1 ELSE 0)
                  = Holders(held, q) + (IF q \in held'[c] THEN 1 ELSE 0)
            BY <2>1, <5>1, HoldersExcept
          <5> QED
            BY <5>1, <5>2
        <4>3. r \notin held[c]
          BY <1>1, <2>1
        <4>4. Holders(held', q) = Holders(held, q) + (IF q = r THEN 1 ELSE 0)
          BY <1>1, <4>1, <4>2, <4>3
        <4> QED
          <5> DEFINE d == done[q]
                     h == Holders(held, q)
                     hh == Holders(held', q)
                     p == Hits(pending, {q})
                     x == Hits(a, Frames(q))
                     e == IF q = r THEN 1 ELSE 0
          <5>1. done'[q] = d /\ d \in Nat /\ pending' = pending /\ work' = a
            BY <1>1, <2>3, <2>4
          <5>2. Hits(pending', {q}) = p /\ Hits(work', Frames(q)) = x
            BY <5>1
          <5>3. h \in Nat /\ hh \in Nat /\ p \in Nat /\ x \in Nat /\ e \in Nat
            BY <4>1
          <5>4. hh = h + e
            BY <4>4
          <5>5. d + hh + p + x = d + h + p + x + e
            <6> HIDE DEF d, h, hh, p, x, e
            <6> QED
              BY <5>1, <5>3, <5>4
          <5> QED
            BY <5>1, <5>2, <5>5
      <3> QED
        BY <1>1, <2>4, <3>1, <3>2
    <2>5. CASE held' = held /\ work' = <<Complete(r)>> \o a
               /\ link' = [[i \in Servers |-> IF i \in Reopened THEN "fresh" ELSE link[i]]
                              EXCEPT ![c] = "gone"]
      <3> DEFINE t == Complete(r)
      <3>1. /\ t \in Tasks
            /\ \A q : t \in Frames(q) <=> q = r
        <4>1. {r} \in SUBSET Fetches /\ t = [do |-> "complete", reqs |-> {r}]
          BY DEF Complete
        <4> HIDE DEF t
        <4>2. t \in Tasks
          BY <4>1, CompletionFrames
        <4>3. \A q : t \in Frames(q) <=> q \in {r}
          <5>1. t.do = "complete" /\ t.reqs = {r}
            BY <4>1
          <5> QED
            BY <4>2, <5>1 DEF Frames
        <4> QED
          BY <4>2, <4>3
      <3> HIDE DEF t
      <3>2. work' = <<t>> \o a
        BY <1>1, <2>5 DEF t
      <3>3. FStartTyped
        <4>1. link' \in [Servers -> {"fresh", "connecting", "early", "open", "gone"}]
          BY <1>1, <2>1, <2>5
        <4>2. work' \in Seq(Tasks)
          BY <1>1, <3>1, <3>2, ConsAt
        <4> QED
          BY <1>1, <2>2, <2>3, <2>5, <4>1, <4>2 DEF FStartTyped
      <3>4. FStarts(r, a)
        <4> SUFFICES ASSUME NEW q \in Fetches
                     PROVE  done'[q] + Holders(held', q) + Hits(pending', {q}) + Hits(work', Frames(q))
                             = done[q] + Holders(held, q) + Hits(pending, {q}) + Hits(a, Frames(q))
                                 + (IF q = r THEN 1 ELSE 0)
          BY DEF FStarts
        <4>1. Holders(held, q) \in Nat /\ Hits(pending, {q}) \in Nat /\ Hits(a, Frames(q)) \in Nat
          BY <1>1, CountsAreNumbers
        <4>2. Hits(work', Frames(q)) = IF t \in Frames(q) THEN Hits(a, Frames(q)) + 1
                                       ELSE Hits(a, Frames(q))
          <5>1. work' \in Seq(Tasks) /\ work' # <<>> /\ Head(work') = t /\ Tail(work') = a
            BY <3>1, <3>2, ConsAt
          <5>2. Hits(work', Frames(q)) = IF Head(work') \in Frames(q) THEN Hits(a, Frames(q)) + 1
                                         ELSE Hits(a, Frames(q))
            BY <5>1, HitsTail, ZenonT(30)
          <5> QED
            BY <5>1, <5>2
        <4> QED
          BY <1>1, <2>3, <2>5, <3>1, <4>1, <4>2
      <3> QED
        BY <1>1, <2>5, <3>3, <3>4
    <2> QED
      <3> DEFINE now == [i \in Servers |-> IF i \in Reopened THEN "fresh" ELSE link[i]]
      <3>1. \/ /\ held' = [held EXCEPT ![c] = @ \cup {r}] /\ work' = a
               /\ link' = [now EXCEPT ![c] = CASE @ = "fresh" -> "connecting"
                                               [] @ = "connecting" -> "early"
                                               [] OTHER -> @]
            \/ /\ held' = held /\ work' = <<Complete(r)>> \o a
               /\ link' = [now EXCEPT ![c] = "gone"]
        BY <1>4 DEF SendIt, c
      <3>2. now \in [Servers -> {"fresh", "connecting", "early", "open", "gone"}]
        BY <1>1
      <3>3. ASSUME link' = [now EXCEPT ![c] = CASE @ = "fresh" -> "connecting"
                                               [] @ = "connecting" -> "early"
                                               [] OTHER -> @]
            PROVE  link' \in [Servers -> {"fresh", "connecting", "early", "open", "gone"}]
        <4> HIDE DEF now
        <4>1. (CASE now[c] = "fresh" -> "connecting" [] now[c] = "connecting" -> "early"
                 [] OTHER -> now[c]) \in {"fresh", "connecting", "early", "open", "gone"}
          BY <2>1, <3>2
        <4> QED
          BY <2>1, <3>2, <3>3, <4>1
      <3> QED
        BY <1>1, <2>4, <2>5, <3>1, <3>3
  <1> QED
    BY <1>1, <1>2, <1>3, <1>4 DEF InternalStartRequest


-----------------------------------------------------------------------------
\* Only the last call of a stack is not a completion.
Stack(w) == \A k \in DOMAIN w : w[k].do # "complete" => k = Len(w)
\* RequeuePending is in one of its loops.
Looping(w) == w # <<>> /\ w[Len(w)].do \in {"loop", "move"}

\* The stack without its top.
LEMMA StackTail ==
    ASSUME NEW w \in Seq(Tasks), w # <<>>, Stack(w), NEW t, t = Tail(w)
    PROVE  /\ t \in Seq(Tasks) /\ Stack(t)
           /\ Head(w) \in Tasks
           /\ Head(w).do # "complete" => Len(w) = 1 /\ t = <<>>
           /\ Looping(w) /\ Head(w).do = "complete" => Looping(t)
  <1>1. /\ t \in Seq(Tasks) /\ Len(w) \in Nat \ {0} /\ Len(t) = Len(w) - 1
        /\ DOMAIN w = 1..Len(w) /\ DOMAIN t = 1..(Len(w) - 1)
        /\ \A i \in DOMAIN t : i + 1 \in DOMAIN w /\ t[i] = w[i + 1]
        /\ \A i \in DOMAIN w : i # 1 => i - 1 \in DOMAIN t /\ w[i] = t[i - 1]
        /\ 1 \in DOMAIN w /\ Head(w) = w[1] /\ w[1] \in Tasks
    BY TailAt
  <1>2. Stack(t)
    <2> SUFFICES ASSUME NEW k \in DOMAIN t, t[k].do # "complete" PROVE k = Len(t)
      BY DEF Stack
    <2>1. k + 1 \in DOMAIN w /\ w[k + 1].do # "complete"
      BY <1>1
    <2>2. k + 1 = Len(w)
      BY <2>1 DEF Stack
    <2> QED
      BY <1>1, <2>2
  <1>3. ASSUME Head(w).do # "complete" PROVE Len(w) = 1 /\ t = <<>>
    <2>1. Len(w) = 1
      BY <1>1, <1>3 DEF Stack
    <2>2. Len(t) = 0
      BY <1>1, <2>1
    <2> QED
      BY <1>1, <2>1, <2>2, EmptySeq
  <1>4. ASSUME Looping(w), Head(w).do = "complete" PROVE Looping(t)
    <2>1. Len(w) # 1 /\ w[Len(w)].do \in {"loop", "move"}
      BY <1>1, <1>4 DEF Looping
    <2>2. Len(w) \in DOMAIN w /\ Len(w) - 1 = Len(t)
      BY <1>1
    <2>3. t[Len(t)].do \in {"loop", "move"} /\ Len(t) # 0
      BY <1>1, <2>1, <2>2
    <2> QED
      BY <1>1, <2>3, EmptySeq DEF Looping
  <1> QED
    BY <1>1, <1>2, <1>3, <1>4

\* The stack with a completion on top.
LEMMA StackCons ==
    ASSUME NEW w \in Seq(Tasks), Stack(w), NEW c \in Tasks, c.do = "complete",
           NEW t, t = <<c>> \o w
    PROVE  /\ t \in Seq(Tasks) /\ Stack(t) /\ t # <<>>
           /\ Looping(w) => Looping(t)
  <1>1. /\ t \in Seq(Tasks) /\ Len(w) \in Nat /\ Len(t) = Len(w) + 1
        /\ DOMAIN w = 1..Len(w) /\ DOMAIN t = 1..(Len(w) + 1)
        /\ t # <<>> /\ t[1] = c
        /\ \A i \in DOMAIN t : i # 1 => i - 1 \in DOMAIN w /\ t[i] = w[i - 1]
    BY ConsAt
  <1>2. Stack(t)
    <2> SUFFICES ASSUME NEW k \in DOMAIN t, t[k].do # "complete" PROVE k = Len(t)
      BY DEF Stack
    <2>1. k # 1
      BY <1>1
    <2>2. k - 1 \in DOMAIN w /\ w[k - 1].do # "complete"
      BY <1>1, <2>1
    <2>3. k - 1 = Len(w)
      BY <2>2 DEF Stack
    <2> QED
      BY <1>1, <2>3
  <1>3. ASSUME Looping(w) PROVE Looping(t)
    <2>1. w # <<>> /\ w[Len(w)].do \in {"loop", "move"}
      BY <1>3 DEF Looping
    <2>2. Len(w) \in Nat \ {0}
      BY <2>1, EmptySeq
    <2>3. Len(t) \in DOMAIN t /\ Len(t) # 1 /\ Len(t) - 1 = Len(w)
      BY <1>1, <2>2
    <2>4. t[Len(t)] = w[Len(w)]
      BY <1>1, <2>3
    <2> QED
      BY <1>1, <2>1, <2>4 DEF Looping
  <1> QED
    BY <1>1, <1>2, <1>3

\* The stack of one call.
LEMMA StackOne ==
    ASSUME NEW c \in Tasks, NEW t, t = <<c>>
    PROVE  /\ t \in Seq(Tasks) /\ Stack(t) /\ t # <<>> /\ Head(t) = c /\ Tail(t) = <<>>
           /\ Looping(t) <=> c.do \in {"loop", "move"}
           /\ \A q : Hits(t, Frames(q)) = IF c \in Frames(q) THEN 1 ELSE 0
  <1>1. t \in Seq(Tasks) /\ Len(t) = 1 /\ t[1] = c /\ DOMAIN t = 1..1 /\ t # <<>>
        /\ Head(t) = c /\ Tail(t) = <<>>
    OBVIOUS
  <1>2. Stack(t) /\ (Looping(t) <=> c.do \in {"loop", "move"})
    BY <1>1 DEF Stack, Looping
  <1>3. \A q : Hits(t, Frames(q)) = IF c \in Frames(q) THEN 1 ELSE 0
    <2> SUFFICES ASSUME NEW q PROVE Hits(t, Frames(q)) = IF c \in Frames(q) THEN 1 ELSE 0
      OBVIOUS
    <2> DEFINE e == Tail(t)
    <2>1. Hits(e, Frames(q)) = 0
      BY <1>1, HitsEmpty
    <2>2. Hits(t, Frames(q)) = IF Head(t) \in Frames(q) THEN Hits(e, Frames(q)) + 1 ELSE Hits(e, Frames(q))
      BY <1>1, HitsTail
    <2> HIDE DEF e
    <2> QED
      BY <1>1, <2>1, <2>2
  <1> QED
    BY <1>1, <1>2, <1>3

\* FStack in these terms.
LEMMA FStackDef ==
    FStack <=> Stack(work) /\ (old # <<>> => Looping(work))
  BY DEF FStack, Stack, Looping

\* What FCounted says of a request: its counts are numbers, and add up to 1 at most.
LEMMA CountParts ==
    ASSUME FailSafeConstants, FTyped, FCounted, NEW q \in Fetches
    PROVE  /\ done[q] \in Nat /\ Holders(held, q) \in Nat /\ Hits(pending, {q}) \in Nat
           /\ Hits(old, {q}) \in Nat /\ Hits(work, Frames(q)) \in Nat
           /\ done[q] + Holders(held, q) + Hits(pending, {q}) + Hits(old, {q})
                + Hits(work, Frames(q)) = IF q \in started THEN 1 ELSE 0
  <1>1. /\ done \in [Fetches -> Nat] /\ pending \in Seq(Fetches) /\ old \in Seq(Fetches)
        /\ work \in Seq(Tasks)
    BY DEF FTyped, FailSafeTypeOK
  <1>2. /\ Holders(held, q) \in Nat /\ Hits(pending, {q}) \in Nat
        /\ Hits(work, Frames(q)) \in Nat
    BY <1>1, CountsAreNumbers
  <1>3. Hits(old, {q}) \in Nat
    BY <1>1, HitsPositive
  <1>4. done[q] \in Nat
    BY <1>1
  <1> QED
    BY <1>2, <1>3, <1>4 DEF FCounted, Count

\* InternalStartRequest keeps the counts when the caller took the request from
\* where it was.
LEMMA StartKeepsCount ==
    ASSUME FailSafeConstants, FTyped, FCounted, FStartTyped, NEW r \in Fetches,
           NEW x \in Seq(Tasks), FStarts(r, x), old' \in Seq(Fetches),
           \A q \in Fetches :
              Hits(x, Frames(q)) + Hits(old', {q}) + (IF q = r THEN 1 ELSE 0)
                = Hits(work, Frames(q)) + Hits(old, {q})
                    + (IF q \in started' /\ q \notin started THEN 1 ELSE 0),
           started \subseteq started'
    PROVE  FCounted'
  <1> SUFFICES ASSUME NEW q \in Fetches
               PROVE  Count(q)' = IF q \in started' THEN 1 ELSE 0
    BY DEF FCounted
  <1> DEFINE d == done[q]
             h == Holders(held, q)
             p == Hits(pending, {q})
             o == Hits(old, {q})
             w == Hits(work, Frames(q))
             d2 == done'[q]
             h2 == Holders(held', q)
             p2 == Hits(pending', {q})
             o2 == Hits(old', {q})
             w2 == Hits(work', Frames(q))
             xn == Hits(x, Frames(q))
             one == IF q = r THEN 1 ELSE 0
  <1>1. d \in Nat /\ h \in Nat /\ p \in Nat /\ o \in Nat /\ w \in Nat
        /\ d + h + p + o + w = IF q \in started THEN 1 ELSE 0
    BY CountParts
  <1>2. d2 \in Nat /\ h2 \in Nat /\ p2 \in Nat /\ w2 \in Nat
    <2>1. done' \in [Fetches -> Nat] /\ pending' \in Seq(Fetches) /\ work' \in Seq(Tasks)
      BY DEF FStartTyped
    <2>2. d2 \in Nat
      BY <2>1
    <2>3. h2 \in Nat /\ p2 \in Nat /\ w2 \in Nat
      BY <2>1, CountsAreNumbers
    <2> QED
      BY <2>2, <2>3
  <1>3. o2 \in Nat /\ xn \in Nat
    BY HitsPositive
  <1>4. d2 + h2 + p2 + w2 = d + h + p + xn + one
    BY DEF FStarts
  <1>5. xn + o2 + one = w + o + (IF q \in started' /\ q \notin started THEN 1 ELSE 0)
    OBVIOUS
  <1>6. Count(q)' = d2 + h2 + p2 + o2 + w2
    BY DEF Count, Holders, Hits, Frames
  <1>7. one \in {0, 1} /\ (q \in started => q \in started')
    OBVIOUS
  <1> HIDE DEF d, h, p, o, w, d2, h2, p2, o2, w2, xn, one
  <1> QED
    BY <1>1, <1>2, <1>3, <1>4, <1>5, <1>6, <1>7


-----------------------------------------------------------------------------
\* The constructor.
LEMMA FInitInv ==
    ASSUME FailSafeConstants, FailSafeInit
    PROVE  FInv
  <1>1. FTyped
    <2>1. FailSafeTypeOK
      <3>1. /\ since \in [Servers -> 0..Interval + 1] /\ age \in [Fetches -> 0..Timeout + 1]
            /\ retries \in [Fetches -> 0..NumRetries]
        BY DEF FailSafeInit, FailSafeConstants
      <3>2. pending \in Seq(Fetches) /\ old \in Seq(Fetches) /\ work \in Seq(Tasks)
        BY EmptySeq DEF FailSafeInit
      <3>3. /\ link \in [Servers -> {"fresh", "connecting", "early", "open", "gone"}]
            /\ held \in [Servers -> SUBSET Fetches] /\ done \in [Fetches -> Nat]
            /\ started \subseteq Fetches
        BY DEF FailSafeInit
      <3>4. alarm \in BOOLEAN /\ deleted \in BOOLEAN /\ stopped \in BOOLEAN
        BY DEF FailSafeInit
      <3> QED
        BY <3>1, <3>2, <3>3, <3>4 DEF FailSafeTypeOK
    <2>2. \A i \in Servers : IsFiniteSet(held[i])
      BY FS_EmptySet DEF FailSafeInit
    <2> QED
      BY <2>1, <2>2 DEF FTyped
  <1>2. FStack /\ FGone
    BY DEF FailSafeInit, FStack, FGone
  <1>3. FCounted
    <2> SUFFICES ASSUME NEW q \in Fetches PROVE Count(q) = IF q \in started THEN 1 ELSE 0
      BY DEF FCounted
    <2>1. done[q] = 0 /\ q \notin started /\ pending = <<>> /\ old = <<>> /\ work = <<>>
      BY DEF FailSafeInit
    <2>2. Hits(pending, {q}) = 0 /\ Hits(old, {q}) = 0 /\ Hits(work, Frames(q)) = 0
      BY <2>1, HitsEmpty
    <2>3. Holders(held, q) = 0
      <3>1. \A i \in Servers : q \notin held[i]
        BY DEF FailSafeInit
      <3> QED
        BY <3>1, HoldersFinite
    <2> QED
      BY <2>1, <2>2, <2>3 DEF Count
  <1> QED
    BY <1>1, <1>2, <1>3 DEF FInv

\* InternalStartRequest keeps the types.
LEMMA StartKeepsTypes ==
    ASSUME FTyped, FStartTyped, old' \in Seq(Fetches), started' \subseteq Fetches,
           UNCHANGED <<age, alarm, deleted, stopped>>
    PROVE  FTyped'
  BY DEF FTyped, FStartTyped, FailSafeTypeOK, Servers, Tasks

\* StartRequest.
LEMMA FStartRequest ==
    ASSUME FailSafeConstants, FInv, NEW r \in Fetches, StartRequest(r)
    PROVE  FInv'
  <1>1. FTyped /\ FStack /\ FGone /\ FCounted
    BY DEF FInv
  <1> DEFINE a == <<Requeue>>
             b == <<>>
  <1>2. /\ work = <<>> /\ ~deleted /\ r \notin started /\ started' = started \cup {r}
        /\ InternalStartRequest(r, a, b)
        /\ UNCHANGED <<age, old, alarm, deleted, stopped>>
    BY DEF StartRequest, Idle
  <1>3. Requeue \in Tasks /\ Requeue.do = "requeue"
    BY DEF Requeue, Tasks
  <1>4. /\ a \in Seq(Tasks) /\ Stack(a) /\ ~Looping(a) /\ a # <<>>
        /\ \A q : Hits(a, Frames(q)) = 0
    <2>1. Requeue \in Tasks /\ \A q : Requeue \notin Frames(q)
      BY <1>3 DEF Frames
    <2>2. /\ a \in Seq(Tasks) /\ Stack(a) /\ a # <<>>
          /\ Looping(a) <=> Requeue.do \in {"loop", "move"}
          /\ \A q : Hits(a, Frames(q)) = IF Requeue \in Frames(q) THEN 1 ELSE 0
      <3> HIDE DEF a
      <3>1. a = <<Requeue>>
        BY DEF a
      <3> QED
        BY <2>1, <3>1, StackOne
    <2> HIDE DEF a
    <2> QED
      BY <1>3, <2>1, <2>2
  <1>5. b \in Seq(Tasks) /\ Stack(b) /\ \A q : Hits(b, Frames(q)) = 0
    BY EmptySeq, HitsEmpty DEF Stack
  <1>6. b = <<>>
    OBVIOUS
  <1> HIDE DEF a, b
  <1>7. /\ \A i \in Servers : r \notin held[i]
        /\ \A q \in Fetches : Hits(work, Frames(q)) = 0
    <2>1. Holders(held, r) = 0
      <3> DEFINE d == done[r]
                 h == Holders(held, r)
                 p == Hits(pending, {r})
                 o == Hits(old, {r})
                 w == Hits(work, Frames(r))
      <3>1. d \in Nat /\ h \in Nat /\ p \in Nat /\ o \in Nat /\ w \in Nat
            /\ d + h + p + o + w = 0
        BY <1>1, <1>2, CountParts
      <3>2. h = 0
        <4> HIDE DEF d, h, p, o, w
        <4> QED
          BY <3>1
      <3> QED
        BY <3>2
    <2>2. \A q \in Fetches : Hits(work, Frames(q)) = 0
      BY <1>2, HitsEmpty
    <2> QED
      BY <2>1, <2>2, HoldersFinite
  <1>8. /\ FStartTyped
        /\ \/ FStarts(r, a) /\ (work' = a \/ work' = <<Complete(r)>> \o a)
           \/ FStarts(r, b) /\ work' = b
    BY <1>1, <1>2, <1>4, <1>5, <1>7, StartCounts
  <1>9. old' \in Seq(Fetches) /\ old' = old /\ started' \subseteq Fetches
    BY <1>1, <1>2 DEF FTyped, FailSafeTypeOK
  <1>10. FTyped'
    BY <1>1, <1>2, <1>8, <1>9, StartKeepsTypes
  <1>11. FCounted'
    <2>1. ASSUME NEW x \in Seq(Tasks), \A q : Hits(x, Frames(q)) = 0, FStarts(r, x)
          PROVE  FCounted'
      <3>1. \A q \in Fetches :
              Hits(x, Frames(q)) + Hits(old', {q}) + (IF q = r THEN 1 ELSE 0)
                = Hits(work, Frames(q)) + Hits(old, {q})
                    + (IF q \in started' /\ q \notin started THEN 1 ELSE 0)
        <4> SUFFICES ASSUME NEW q \in Fetches
                     PROVE  Hits(x, Frames(q)) + Hits(old', {q}) + (IF q = r THEN 1 ELSE 0)
                              = Hits(work, Frames(q)) + Hits(old, {q})
                                  + (IF q \in started' /\ q \notin started THEN 1 ELSE 0)
          OBVIOUS
        <4>1. Hits(x, Frames(q)) = 0 /\ Hits(work, Frames(q)) = 0 /\ Hits(old', {q}) = Hits(old, {q})
          BY <1>7, <1>9, <2>1
        <4>2. q = r <=> q \in started' /\ q \notin started
          BY <1>2
        <4> QED
          BY <4>1, <4>2
      <3>2. started \subseteq started'
        BY <1>2
      <3> QED
        BY <1>1, <1>8, <1>9, <2>1, <3>1, <3>2, StartKeepsCount
    <2> QED
      BY <1>4, <1>5, <1>8, <2>1
  <1>12. Stack(work') /\ (old' # <<>> => Looping(work'))
    <2>1. old = <<>>
      BY <1>1, <1>2, FStackDef DEF Looping
    <2>2. Stack(work')
      <3>1. CASE work' = a
        BY <1>4, <3>1
      <3>2. CASE work' = b
        BY <1>5, <3>2
      <3>3. CASE work' = <<Complete(r)>> \o a
        <4>1. Complete(r) \in Tasks /\ Complete(r).do = "complete"
          BY DEF Complete, Tasks
        <4> QED
          BY <1>4, <3>3, <4>1, StackCons
      <3> QED
        BY <1>8, <3>1, <3>2, <3>3
    <2> QED
      BY <1>2, <2>1, <2>2
  <1>13. FStack'
    BY <1>12 DEF FStack, Stack, Looping
  <1>14. FGone'
    BY <1>2 DEF FGone
  <1> QED
    BY <1>10, <1>11, <1>13, <1>14 DEF FInv


\* CompletionCallback.
LEMMA FCompletionCallback ==
    ASSUME FailSafeConstants, FInv, CompletionCallback
    PROVE  FInv'
  <1>1. FTyped /\ FStack /\ FGone /\ FCounted
    BY DEF FInv
  <1> DEFINE w == work
             X == Head(work).reqs
             t == Tail(work)
             Others(r) == [do |-> "complete", reqs |-> X \ {r}]
             Rest(r) == (IF X \ {r} = {} THEN <<>> ELSE <<Others(r)>>) \o t
  <1>2. /\ work # <<>> /\ Head(work).do = "complete"
        /\ \E r \in X : InternalStartRequest(r, Rest(r), Rest(r))
        /\ UNCHANGED <<age, old, started, alarm, deleted, stopped>>
    BY DEF CompletionCallback
  <1>3. PICK r \in X : InternalStartRequest(r, Rest(r), Rest(r))
    BY <1>2
  <1>4. /\ work \in Seq(Tasks) /\ Stack(work)
        /\ (old # <<>> => Looping(work)) /\ ~deleted
    BY <1>1, <1>2, FStackDef DEF FTyped, FailSafeTypeOK, FGone
  <1>5. /\ t \in Seq(Tasks) /\ Stack(t) /\ Head(work) \in Tasks
        /\ Looping(work) => Looping(t)
    BY <1>2, <1>4, StackTail
  <1>6. X \in SUBSET Fetches /\ r \in Fetches
    BY <1>2, <1>3, <1>5 DEF Tasks
  <1>7. \A q : Hits(work, Frames(q)) = Hits(t, Frames(q)) + (IF q \in X THEN 1 ELSE 0)
    <2> SUFFICES ASSUME NEW q
                 PROVE  Hits(work, Frames(q)) = Hits(t, Frames(q)) + (IF q \in X THEN 1 ELSE 0)
      OBVIOUS
    <2>1. Head(work) \in Frames(q) <=> q \in X
      BY <1>2, <1>5 DEF Frames
    <2>2. Hits(work, Frames(q)) = IF Head(work) \in Frames(q) THEN Hits(t, Frames(q)) + 1
                                  ELSE Hits(t, Frames(q))
      BY <1>2, <1>4, HitsTail, ZenonT(30)
    <2>3. Hits(t, Frames(q)) \in Nat
      BY <1>5, HitsPositive
    <2> QED
      BY <2>1, <2>2, <2>3
  <1> DEFINE c == Others(r)
             x == Rest(r)
  <1>8. c \in Tasks /\ c.do = "complete" /\ \A q : c \in Frames(q) <=> q \in X \ {r}
    <2>1. X \ {r} \in SUBSET Fetches
      BY <1>6
    <2>2. c.do = "complete"
      OBVIOUS
    <2> DEFINE Y == X \ {r}
    <2>3. c = [do |-> "complete", reqs |-> Y]
      OBVIOUS
    <2> HIDE DEF c, Y
    <2>4. c \in Tasks /\ \A q : c \in Frames(q) <=> q \in Y
      BY <2>1, <2>3, CompletionFrames DEF Y
    <2> QED
      BY <2>2, <2>4 DEF Y
  <1>9. /\ x \in Seq(Tasks) /\ Stack(x) /\ (Looping(t) => Looping(x))
        /\ \A q : Hits(x, Frames(q)) + (IF q = r THEN 1 ELSE 0) = Hits(work, Frames(q))
    <2>1. CASE X \ {r} = {}
      <3>1. x = <<>> \o t
        BY <2>1
      <3> HIDE DEF x
      <3>2. x = t
        BY <1>5, <3>1, ConcatEmptySeq
      <3>3. X = {r}
        BY <1>3, <2>1
      <3>4. \A q : Hits(x, Frames(q)) + (IF q = r THEN 1 ELSE 0) = Hits(work, Frames(q))
        BY <1>7, <3>2, <3>3
      <3> QED
        BY <1>5, <3>2, <3>4
    <2>2. CASE X \ {r} # {}
      <3>1. x = <<c>> \o t
        BY <2>2
      <3> HIDE DEF x, c, t
      <3>2. x \in Seq(Tasks) /\ Stack(x) /\ (Looping(t) => Looping(x))
        BY <1>5, <1>8, <3>1, StackCons
      <3>3. x # <<>> /\ Head(x) = c /\ Tail(x) = t
        BY <1>5, <1>8, <3>1, ConsAt
      <3>4. \A q : Hits(x, Frames(q)) + (IF q = r THEN 1 ELSE 0) = Hits(work, Frames(q))
        <4> SUFFICES ASSUME NEW q
                     PROVE  Hits(x, Frames(q)) + (IF q = r THEN 1 ELSE 0) = Hits(work, Frames(q))
          OBVIOUS
        <4>1. Hits(x, Frames(q)) = IF Head(x) \in Frames(q) THEN Hits(t, Frames(q)) + 1
                                   ELSE Hits(t, Frames(q))
          BY <3>2, <3>3, HitsTail, ZenonT(30)
        <4>2. Hits(t, Frames(q)) \in Nat
          BY <1>5, HitsPositive
        <4>3. Head(x) \in Frames(q) <=> q \in X \ {r}
          BY <1>8, <3>3
        <4>4. Hits(work, Frames(q)) = Hits(t, Frames(q)) + (IF q \in X THEN 1 ELSE 0)
          BY <1>7
        <4> QED
          BY <1>3, <4>1, <4>2, <4>3, <4>4
      <3> QED
        BY <3>2, <3>4
    <2> QED
      BY <2>1, <2>2
  <1>10. InternalStartRequest(r, x, x)
    BY <1>3
  <1> HIDE DEF x, c, t, Others, Rest
  <1>11. \A i \in Servers : r \notin held[i]
    <2> DEFINE d == done[r]
               h == Holders(held, r)
               p == Hits(pending, {r})
               o == Hits(old, {r})
               n == Hits(work, Frames(r))
    <2>1. d \in Nat /\ h \in Nat /\ p \in Nat /\ o \in Nat /\ n \in Nat
          /\ d + h + p + o + n = IF r \in started THEN 1 ELSE 0
      BY <1>1, <1>6, CountParts
    <2>2. n = Hits(t, Frames(r)) + 1 /\ Hits(t, Frames(r)) \in Nat
      BY <1>3, <1>5, <1>7, HitsPositive
    <2>3. h = 0
      <3> DEFINE k == Hits(t, Frames(r))
      <3>1. d + h + p + o + n \in {0, 1} /\ n = k + 1 /\ k \in Nat
        BY <2>1, <2>2
      <3>2. d \in Nat /\ h \in Nat /\ p \in Nat /\ o \in Nat /\ n \in Nat
        BY <2>1
      <3> HIDE DEF d, h, p, o, n, k
      <3> QED
        BY <3>1, <3>2
    <2> QED
      BY <2>3, HoldersFinite
  <1>12. /\ FStartTyped /\ FStarts(r, x)
         /\ work' = x \/ work' = <<Complete(r)>> \o x
    BY <1>1, <1>6, <1>9, <1>10, <1>11, StartCounts
  <1>13. old' \in Seq(Fetches) /\ old' = old /\ started' \subseteq Fetches
         /\ started' = started
    BY <1>1, <1>2 DEF FTyped, FailSafeTypeOK
  <1>14. FTyped'
    BY <1>1, <1>2, <1>12, <1>13, StartKeepsTypes
  <1>15. FCounted'
    <2>1. \A q \in Fetches :
             Hits(x, Frames(q)) + Hits(old', {q}) + (IF q = r THEN 1 ELSE 0)
               = Hits(work, Frames(q)) + Hits(old, {q})
                   + (IF q \in started' /\ q \notin started THEN 1 ELSE 0)
      <3> SUFFICES ASSUME NEW q \in Fetches
                   PROVE  Hits(x, Frames(q)) + Hits(old', {q}) + (IF q = r THEN 1 ELSE 0)
                            = Hits(work, Frames(q)) + Hits(old, {q})
                                + (IF q \in started' /\ q \notin started THEN 1 ELSE 0)
        OBVIOUS
      <3>1. Hits(x, Frames(q)) \in Nat /\ Hits(old, {q}) \in Nat /\ Hits(work, Frames(q)) \in Nat
        BY <1>4, <1>9, <1>13, HitsPositive
      <3> QED
        BY <1>9, <1>13, <3>1
    <2>2. started \subseteq started'
      BY <1>13
    <2> QED
      BY <1>1, <1>6, <1>9, <1>12, <1>13, <2>1, <2>2, StartKeepsCount
  <1>16. Stack(work') /\ (old' # <<>> => Looping(work'))
    <2>1. old' # <<>> => Looping(x)
      BY <1>4, <1>5, <1>9, <1>13
    <2>2. Complete(r) \in Tasks /\ Complete(r).do = "complete"
      BY <1>6 DEF Complete, Tasks
    <2>3. Stack(work') /\ (Looping(x) => Looping(work'))
      <3>1. CASE work' = x
        BY <1>9, <3>1
      <3>2. CASE work' = <<Complete(r)>> \o x
        BY <1>9, <2>2, <3>2, StackCons
      <3> QED
        BY <1>12, <3>1, <3>2
    <2> QED
      BY <1>2, <1>4, <2>1, <2>3
  <1>17. FStack'
    BY <1>16 DEF FStack, Stack, Looping
  <1>18. FGone'
    BY <1>2, <1>4 DEF FGone
  <1> QED
    BY <1>14, <1>15, <1>17, <1>18 DEF FInv


\* RequeuePending.
LEMMA FRequeuePending ==
    ASSUME FailSafeConstants, FInv, RequeuePending
    PROVE  FInv'
  <1>1. FTyped /\ FStack /\ FGone /\ FCounted
    BY DEF FInv
  <1>2. /\ work # <<>> /\ Head(work).do = "requeue"
        /\ old' = pending /\ pending' = <<>>
        /\ work' = (IF pending = <<>> THEN <<>> ELSE <<Loop>>) \o Tail(work)
        /\ UNCHANGED <<link, held, since, age, retries, started, done, alarm, deleted, stopped>>
    BY DEF RequeuePending
  <1>3. /\ work \in Seq(Tasks) /\ pending \in Seq(Fetches) /\ Stack(work)
        /\ (old # <<>> => Looping(work)) /\ ~deleted
    BY <1>1, <1>2, FStackDef DEF FTyped, FailSafeTypeOK, FGone
  <1>4. Head(work) \in Tasks /\ Len(work) = 1 /\ Tail(work) = <<>>
    BY <1>2, <1>3, StackTail
  <1>5. old = <<>>
    <2>1. Head(work) = work[1]
      BY <1>2, <1>3, TailAt
    <2> QED
      BY <1>2, <1>3, <1>4, <2>1 DEF Looping
  <1>6. Loop \in Tasks /\ Loop.do = "loop" /\ \A q : Loop \notin Frames(q)
    <2>1. Loop \in Tasks /\ Loop.do = "loop"
      BY DEF Loop, Tasks
    <2> QED
      BY <2>1 DEF Frames
  <1>7. /\ work' \in Seq(Tasks) /\ Stack(work') /\ (pending # <<>> => Looping(work'))
        /\ \A q : Hits(work', Frames(q)) = 0
    <2>1. CASE pending = <<>>
      <3>1. work' = <<>> \o <<>>
        BY <1>2, <1>4, <2>1
      <3>2. work' = <<>>
        BY <3>1
      <3>3. \A q : Hits(work', Frames(q)) = 0
        BY <3>2, HitsEmpty
      <3> QED
        BY <2>1, <3>2, <3>3, EmptySeq DEF Stack
    <2>2. CASE pending # <<>>
      <3>1. work' = <<Loop>> \o <<>>
        BY <1>2, <1>4, <2>2
      <3>2. work' = <<Loop>>
        BY <3>1, <1>6
      <3>3. /\ work' \in Seq(Tasks) /\ Stack(work') /\ (Looping(work') <=> Loop.do = "loop")
            /\ \A q : Hits(work', Frames(q)) = IF Loop \in Frames(q) THEN 1 ELSE 0
        BY <1>6, <3>2, StackOne
      <3> QED
        BY <1>6, <3>3
    <2> QED
      BY <2>1, <2>2
  <1>8. FTyped'
    <2>1. pending' \in Seq(Fetches) /\ old' \in Seq(Fetches)
      BY <1>2, <1>3, EmptySeq
    <2> QED
      BY <1>1, <1>2, <1>7, <2>1 DEF FTyped, FailSafeTypeOK, Servers, Tasks
  <1>9. FCounted'
    <2> SUFFICES ASSUME NEW q \in Fetches
                 PROVE  Count(q)' = IF q \in started' THEN 1 ELSE 0
      BY DEF FCounted
    <2>1. /\ done[q] \in Nat /\ Holders(held, q) \in Nat /\ Hits(pending, {q}) \in Nat
          /\ Hits(old, {q}) \in Nat /\ Hits(work, Frames(q)) \in Nat
          /\ done[q] + Holders(held, q) + Hits(pending, {q}) + Hits(old, {q})
               + Hits(work, Frames(q)) = IF q \in started THEN 1 ELSE 0
      BY <1>1, CountParts
    <2>2. Hits(old, {q}) = 0 /\ Hits(pending', {q}) = 0
      BY <1>2, <1>5, HitsEmpty
    <2>3. Hits(work, Frames(q)) = 0
      <3>1. Head(work) \notin Frames(q)
        BY <1>2, <1>4, OtherFrames
      <3> DEFINE t == Tail(work)
      <3>2. Hits(t, Frames(q)) = 0
        BY <1>4, HitsEmpty
      <3>3. Hits(work, Frames(q)) = IF Head(work) \in Frames(q) THEN Hits(t, Frames(q)) + 1
                                    ELSE Hits(t, Frames(q))
        BY <1>2, <1>3, HitsTail, ZenonT(30)
      <3> QED
        BY <3>1, <3>2, <3>3
    <2>4. Count(q)' = done'[q] + Holders(held', q) + Hits(pending', {q}) + Hits(old', {q})
                        + Hits(work', Frames(q))
      BY DEF Count, Holders, Hits, Frames, Servers, Tasks
    <2> QED
      <3>1. /\ done'[q] = done[q] /\ Holders(held', q) = Holders(held, q)
            /\ Hits(old', {q}) = Hits(pending, {q}) /\ Hits(work', Frames(q)) = 0
            /\ started' = started
        BY <1>2, <1>7
      <3> QED
        BY <2>1, <2>2, <2>3, <2>4, <3>1
  <1>10. FStack'
    <2>1. Stack(work') /\ (old' # <<>> => Looping(work'))
      BY <1>2, <1>3, <1>7
    <2> QED
      BY <2>1 DEF FStack, Stack, Looping
  <1>11. FGone'
    BY <1>2, <1>3 DEF FGone
  <1> QED
    BY <1>8, <1>9, <1>10, <1>11 DEF FInv

\* RequeuePending's loop.
LEMMA FRequeueLoop ==
    ASSUME FailSafeConstants, FInv, RequeueLoop
    PROVE  FInv'
  <1>1. FTyped /\ FStack /\ FGone /\ FCounted
    BY DEF FInv
  <1>2. /\ work # <<>> /\ Head(work).do = "loop"
        /\ UNCHANGED <<age, started, alarm, deleted, stopped>>
    BY DEF RequeueLoop
  <1>3. /\ work \in Seq(Tasks) /\ old \in Seq(Fetches) /\ Stack(work) /\ ~deleted
        /\ started \subseteq Fetches
    BY <1>1, <1>2, FStackDef DEF FTyped, FailSafeTypeOK, FGone
  <1> DEFINE t == Tail(work)
             m == <<MoveAround>> \o t
  <1>4. Head(work) \in Tasks /\ Len(work) = 1 /\ t = <<>>
    BY <1>2, <1>3, StackTail
  <1>5. Looping(work)
    <2>1. Head(work) = work[1]
      BY <1>2, <1>3, TailAt
    <2> QED
      BY <1>2, <1>4, <2>1 DEF Looping
  <1>6. t \in Seq(Tasks) /\ Stack(t) /\ \A q : Hits(t, Frames(q)) = 0
    <2> HIDE DEF t
    <2>1. \A q : Hits(t, Frames(q)) = 0
      BY <1>4, HitsEmpty
    <2>2. t \in Seq(Tasks) /\ Stack(t)
      BY <1>4, EmptySeq DEF Stack
    <2> QED
      BY <2>1, <2>2
  <1>7. \A q : Hits(work, Frames(q)) = 0
    <2> SUFFICES ASSUME NEW q PROVE Hits(work, Frames(q)) = 0
      OBVIOUS
    <2>1. Head(work) \notin Frames(q)
      BY <1>2, <1>4, OtherFrames
    <2>2. Hits(work, Frames(q)) = IF Head(work) \in Frames(q) THEN Hits(t, Frames(q)) + 1
                                  ELSE Hits(t, Frames(q))
      BY <1>2, <1>3, HitsTail, ZenonT(30)
    <2> QED
      BY <1>6, <2>1, <2>2
  <1> DEFINE one == <<MoveAround>>
  <1>10. m = one
    <2>1. one \in Seq(Tasks)
      BY DEF MoveAround, Tasks
    <2> HIDE DEF one
    <2>2. one \o <<>> = one
      BY <2>1, ConcatEmptySeq
    <2> QED
      BY <1>4, <2>2 DEF one
  <1>11. /\ one \in Seq(Tasks) /\ Stack(one) /\ Looping(one)
         /\ \A q : Hits(one, Frames(q)) = 0
    <2>1. MoveAround \in Tasks /\ MoveAround.do = "move" /\ \A q : MoveAround \notin Frames(q)
      BY DEF MoveAround, Tasks, Frames
    <2>2. /\ one \in Seq(Tasks) /\ Stack(one) /\ (Looping(one) <=> MoveAround.do \in {"loop", "move"})
          /\ \A q : Hits(one, Frames(q)) = IF MoveAround \in Frames(q) THEN 1 ELSE 0
      BY <2>1, StackOne
    <2> QED
      BY <2>1, <2>2
  <1>12. m \in Seq(Tasks) /\ Stack(m) /\ Looping(m) /\ \A q : Hits(m, Frames(q)) = 0
    BY <1>10, <1>11
  <1> HIDE DEF m, one
  <1>8. CASE /\ old = <<>> /\ work' = t
             /\ UNCHANGED <<link, held, since, retries, pending, old, done>>
    <2>1. FTyped'
      BY <1>1, <1>2, <1>6, <1>8 DEF FTyped, FailSafeTypeOK, Servers, Tasks
    <2>2. FCounted'
      <3> SUFFICES ASSUME NEW q \in Fetches
                   PROVE  Count(q)' = IF q \in started' THEN 1 ELSE 0
        BY DEF FCounted
      <3>1. done[q] + Holders(held, q) + Hits(pending, {q}) + Hits(old, {q})
               + Hits(work, Frames(q)) = IF q \in started THEN 1 ELSE 0
        BY <1>1, CountParts
      <3>2. Hits(work', Frames(q)) = Hits(work, Frames(q))
        BY <1>6, <1>7, <1>8
      <3>3. Count(q)' = done'[q] + Holders(held', q) + Hits(pending', {q}) + Hits(old', {q})
                          + Hits(work', Frames(q))
        BY DEF Count, Holders, Hits, Frames, Servers, Tasks
      <3> QED
        BY <1>2, <1>8, <3>1, <3>2, <3>3
    <2>3. FStack' /\ FGone'
      <3>1. Stack(work') /\ old' = <<>> /\ ~deleted'
        BY <1>2, <1>3, <1>6, <1>8
      <3> QED
        BY <3>1 DEF FStack, Stack, Looping, FGone
    <2> QED
      BY <2>1, <2>2, <2>3 DEF FInv
  <1>9. CASE /\ old # <<>> /\ old' = Tail(old)
             /\ InternalStartRequest(Head(old), work, m)
    <2> DEFINE r == Head(old)
    <2>1. r \in Fetches /\ old' \in Seq(Fetches)
      BY <1>3, <1>9, TailAt
    <2>2. InternalStartRequest(r, work, m)
      BY <1>9
    <2>3. \A q \in Fetches : Hits(old, {q}) = Hits(old', {q}) + (IF q = r THEN 1 ELSE 0)
      <3> SUFFICES ASSUME NEW q \in Fetches
                   PROVE  Hits(old, {q}) = Hits(old', {q}) + (IF q = r THEN 1 ELSE 0)
        OBVIOUS
      <3>1. old \in Seq(Fetches) /\ old # <<>> /\ old' = Tail(old)
        BY <1>3, <1>9
      <3>2. Hits(old, {q}) = IF r \in {q} THEN Hits(old', {q}) + 1 ELSE Hits(old', {q})
        BY <3>1, HitsTail, ZenonT(30)
      <3>3. Hits(old', {q}) \in Nat
        BY <2>1, HitsPositive
      <3> HIDE DEF r
      <3> QED
        BY <3>2, <3>3
    <2> HIDE DEF r, t
    <2>4. \A i \in Servers : r \notin held[i]
      <3> DEFINE d == done[r]
                 h == Holders(held, r)
                 p == Hits(pending, {r})
                 o == Hits(old, {r})
                 n == Hits(work, Frames(r))
      <3>1. d \in Nat /\ h \in Nat /\ p \in Nat /\ o \in Nat /\ n \in Nat
            /\ d + h + p + o + n = IF r \in started THEN 1 ELSE 0
        BY <1>1, <2>1, CountParts
      <3>2. o = Hits(old', {r}) + 1 /\ Hits(old', {r}) \in Nat
        BY <2>1, <2>3, HitsPositive
      <3>3. h = 0
        <4> HIDE DEF d, h, p, o, n
        <4> QED
          BY <3>1, <3>2
      <3> QED
        BY <3>3, HoldersFinite
    <2>5. /\ FStartTyped
          /\ \/ FStarts(r, work) /\ (work' = work \/ work' = <<Complete(r)>> \o work)
             \/ FStarts(r, m) /\ work' = m
      BY <1>1, <1>3, <1>12, <2>1, <2>2, <2>4, StartCounts
    <2>6. started' \subseteq Fetches
      BY <1>2, <1>3, <1>9
    <2>7. FTyped'
      BY <1>1, <1>2, <2>1, <2>5, <2>6, StartKeepsTypes
    <2>8. FCounted'
      <3>1. ASSUME NEW x \in Seq(Tasks), \A q : Hits(x, Frames(q)) = 0, FStarts(r, x)
            PROVE  FCounted'
        <4>1. \A q \in Fetches :
                Hits(x, Frames(q)) + Hits(old', {q}) + (IF q = r THEN 1 ELSE 0)
                  = Hits(work, Frames(q)) + Hits(old, {q})
                      + (IF q \in started' /\ q \notin started THEN 1 ELSE 0)
          <5> SUFFICES ASSUME NEW q \in Fetches
                       PROVE  Hits(x, Frames(q)) + Hits(old', {q}) + (IF q = r THEN 1 ELSE 0)
                                = Hits(work, Frames(q)) + Hits(old, {q})
                                    + (IF q \in started' /\ q \notin started THEN 1 ELSE 0)
            OBVIOUS
          <5>1. Hits(x, Frames(q)) = 0 /\ Hits(work, Frames(q)) = 0
            BY <1>7, <3>1
          <5>2. Hits(old, {q}) = Hits(old', {q}) + (IF q = r THEN 1 ELSE 0)
                /\ Hits(old', {q}) \in Nat /\ started' = started
            BY <1>2, <2>1, <2>3, HitsPositive
          <5> QED
            BY <5>1, <5>2
        <4>2. started \subseteq started'
          BY <1>2
        <4> QED
          BY <1>1, <2>1, <2>5, <3>1, <4>1, <4>2, StartKeepsCount
      <3> QED
        BY <1>3, <1>7, <1>12, <2>5, <3>1
    <2>9. Stack(work') /\ (old' # <<>> => Looping(work'))
      <3>1. Complete(r) \in Tasks /\ Complete(r).do = "complete"
        BY <2>1 DEF Complete, Tasks
      <3>2. Stack(work') /\ Looping(work')
        <4>1. CASE work' = work
          BY <1>3, <1>5, <4>1
        <4>2. CASE work' = <<Complete(r)>> \o work
          BY <1>3, <1>5, <3>1, <4>2, StackCons
        <4>3. CASE work' = m
          BY <1>12, <4>3
        <4> QED
          BY <2>5, <4>1, <4>2, <4>3
      <3> QED
        BY <1>9, <3>2
    <2>10. FStack' /\ FGone'
      BY <1>2, <1>3, <2>9 DEF FStack, Stack, Looping, FGone
    <2> QED
      BY <2>7, <2>8, <2>10 DEF FInv
  <1> QED
    BY <1>8, <1>9 DEF RequeueLoop, m


-----------------------------------------------------------------------------
\* An event that leaves the sum of the counts as it was.
LEMMA SameSum ==
    ASSUME FailSafeConstants, FTyped, FCounted, started' = started, old' = old,
           \A q \in Fetches :
              done'[q] + Holders(held', q) + Hits(pending', {q}) + Hits(work', Frames(q))
                = done[q] + Holders(held, q) + Hits(pending, {q}) + Hits(work, Frames(q)),
           done' \in [Fetches -> Nat], pending' \in Seq(Fetches), work' \in Seq(Tasks)
    PROVE  FCounted'
  <1> SUFFICES ASSUME NEW q \in Fetches
               PROVE  Count(q)' = IF q \in started' THEN 1 ELSE 0
    BY DEF FCounted
  <1> DEFINE d == done[q]
             h == Holders(held, q)
             p == Hits(pending, {q})
             o == Hits(old, {q})
             w == Hits(work, Frames(q))
             d2 == done'[q]
             h2 == Holders(held', q)
             p2 == Hits(pending', {q})
             w2 == Hits(work', Frames(q))
  <1>1. d \in Nat /\ h \in Nat /\ p \in Nat /\ o \in Nat /\ w \in Nat
        /\ d + h + p + o + w = IF q \in started THEN 1 ELSE 0
    BY CountParts
  <1>2. d2 \in Nat /\ h2 \in Nat /\ p2 \in Nat /\ w2 \in Nat
    <2>1. d2 \in Nat
      OBVIOUS
    <2>2. h2 \in Nat /\ p2 \in Nat /\ w2 \in Nat
      BY CountsAreNumbers
    <2> QED
      BY <2>1, <2>2
  <1>3. d2 + h2 + p2 + w2 = d + h + p + w
    OBVIOUS
  <1>4. Count(q)' = d2 + h2 + p2 + Hits(old', {q}) + w2
    BY DEF Count, Holders, Hits, Frames, Servers, Tasks
  <1>5. Hits(old', {q}) = o /\ started' = started
    OBVIOUS
  <1> HIDE DEF d, h, p, o, w, d2, h2, p2, w2
  <1> QED
    BY <1>1, <1>2, <1>3, <1>4, <1>5

\* Where events start: nothing is on the stack and nothing is taken aside.
LEMMA FIdle ==
    ASSUME FInv, Idle
    PROVE  work = <<>> /\ old = <<>> /\ ~deleted
  <1>1. FStack /\ work = <<>> /\ ~deleted
    BY DEF FInv, Idle
  <1> QED
    BY <1>1, FStackDef DEF Looping

\* RequeuePendingAlarm.
LEMMA FRequeuePendingAlarm ==
    ASSUME FailSafeConstants, FInv, RequeuePendingAlarm
    PROVE  FInv'
  <1>1. FTyped /\ FStack /\ FGone /\ FCounted
    BY DEF FInv
  <1>2. /\ alarm' = TRUE /\ work' = <<Requeue>>
        /\ UNCHANGED <<link, held, since, age, retries, pending, old, started, done, deleted, stopped>>
    BY DEF RequeuePendingAlarm
  <1>3. work = <<>> /\ old = <<>> /\ ~deleted
    BY FIdle DEF RequeuePendingAlarm
  <1>4. Requeue \in Tasks /\ Requeue.do = "requeue"
    BY DEF Requeue, Tasks
  <1>5. /\ work' \in Seq(Tasks) /\ Stack(work')
        /\ \A q : Hits(work', Frames(q)) = 0
    <2>1. \A q : Requeue \notin Frames(q)
      BY <1>4 DEF Frames
    <2>2. /\ work' \in Seq(Tasks) /\ Stack(work')
          /\ \A q : Hits(work', Frames(q)) = IF Requeue \in Frames(q) THEN 1 ELSE 0
      BY <1>2, <1>4, StackOne
    <2> QED
      BY <2>1, <2>2
  <1>6. FTyped'
    BY <1>1, <1>2, <1>5 DEF FTyped, FailSafeTypeOK, Servers, Tasks
  <1>7. FCounted'
    <2>1. \A q : Hits(work, Frames(q)) = 0
      BY <1>3, HitsEmpty
    <2>2. \A q \in Fetches :
            done'[q] + Holders(held', q) + Hits(pending', {q}) + Hits(work', Frames(q))
              = done[q] + Holders(held, q) + Hits(pending, {q}) + Hits(work, Frames(q))
      BY <1>2, <1>5, <2>1
    <2>3. /\ started' = started /\ old' = old /\ done' \in [Fetches -> Nat]
          /\ pending' \in Seq(Fetches)
      BY <1>1, <1>2 DEF FTyped, FailSafeTypeOK
    <2> QED
      BY <1>1, <1>5, <2>2, <2>3, SameSum
  <1>8. FStack' /\ FGone'
    BY <1>2, <1>3, <1>5 DEF FStack, Stack, FGone
  <1> QED
    BY <1>6, <1>7, <1>8 DEF FInv

\* A client completes a request, with a reply or by its timeout.
LEMMA FClientEnds ==
    ASSUME FailSafeConstants, FInv, NEW i \in Servers, NEW r \in Fetches,
           ClientReplies(i, r) \/ ClientTimesOut(i, r)
    PROVE  FInv'
  <1>1. FTyped /\ FStack /\ FGone /\ FCounted
    BY DEF FInv
  <1>2. /\ r \in held[i] /\ held' = [held EXCEPT ![i] = @ \ {r}]
        /\ UNCHANGED <<link, since, age, retries, pending, old, started, alarm, deleted, stopped>>
    BY DEF ClientReplies, ClientTimesOut
  <1>3. work = <<>> /\ old = <<>> /\ ~deleted
    BY FIdle DEF ClientReplies, ClientTimesOut
  <1>4. /\ held \in [Servers -> SUBSET Fetches] /\ done \in [Fetches -> Nat]
        /\ pending \in Seq(Fetches) /\ \A j \in Servers : IsFiniteSet(held[j])
    BY <1>1 DEF FTyped, FailSafeTypeOK
  <1>5. /\ held' \in [Servers -> SUBSET Fetches]
        /\ held'[i] = held[i] \ {r} /\ \A j \in Servers : j # i => held'[j] = held[j]
    BY <1>2, <1>4
  <1>6. \A j \in Servers : IsFiniteSet(held'[j])
    <2> SUFFICES ASSUME NEW j \in Servers PROVE IsFiniteSet(held'[j])
      OBVIOUS
    <2>1. held'[j] \subseteq held[j] /\ IsFiniteSet(held[j])
      BY <1>4, <1>5
    <2> QED
      BY <2>1, FS_Subset
  <1>7. \A q : Holders(held, q) = Holders(held', q) + (IF q = r THEN 1 ELSE 0)
    <2> SUFFICES ASSUME NEW q
                 PROVE  Holders(held, q) = Holders(held', q) + (IF q = r THEN 1 ELSE 0)
      OBVIOUS
    <2>1. Holders(held', q) + (IF q \in held[i] THEN 1 ELSE 0)
            = Holders(held, q) + (IF q \in held'[i] THEN 1 ELSE 0)
      BY <1>5, HoldersExcept
    <2>2. Holders(held, q) \in Nat /\ Holders(held', q) \in Nat
      BY HoldersFinite
    <2>3. (q \in held[i] <=> q \in held'[i] \/ q = r) /\ r \notin held'[i]
      BY <1>2, <1>5
    <2> QED
      BY <2>1, <2>2, <2>3
  <1>8. /\ work' \in Seq(Tasks) /\ Stack(work') /\ done' \in [Fetches -> Nat]
        /\ \A q \in Fetches :
             done'[q] + Hits(work', Frames(q)) = done[q] + (IF q = r THEN 1 ELSE 0)
        /\ \A q \in Fetches : Hits(work', Frames(q)) \in Nat
    <2>1. CASE ClientReplies(i, r)
      <3>1. done' = [done EXCEPT ![r] = @ + 1] /\ work' = <<>>
        BY <1>3, <2>1 DEF ClientReplies
      <3>2. \A q : Hits(work', Frames(q)) = 0
        BY <3>1, HitsEmpty
      <3>3. work' \in Seq(Tasks) /\ Stack(work')
        BY <3>1, EmptySeq DEF Stack
      <3> QED
        BY <1>4, <3>1, <3>2, <3>3
    <2>2. CASE ClientTimesOut(i, r)
      <3> DEFINE c == Complete(r)
                 X == {r}
      <3>1. work' = <<c>> /\ done' = done /\ c = [do |-> "complete", reqs |-> X] /\ X \in SUBSET Fetches
        BY <2>2 DEF ClientTimesOut, Complete
      <3>2. \A q : q \in X <=> q = r
        OBVIOUS
      <3> HIDE DEF c, X
      <3>3. c \in Tasks /\ \A q : c \in Frames(q) <=> q \in X
        BY <3>1, CompletionFrames
      <3>4. /\ work' \in Seq(Tasks) /\ Stack(work')
            /\ \A q : Hits(work', Frames(q)) = IF c \in Frames(q) THEN 1 ELSE 0
        BY <3>1, <3>3, StackOne
      <3>5. \A q : Hits(work', Frames(q)) = IF q = r THEN 1 ELSE 0
        BY <3>2, <3>3, <3>4
      <3>6. done' = done
        BY <3>1
      <3>7. \A q \in Fetches : Hits(work', Frames(q)) \in Nat
        BY <3>5
      <3>8. ASSUME NEW q \in Fetches
            PROVE  done'[q] + Hits(work', Frames(q)) = done[q] + (IF q = r THEN 1 ELSE 0)
        BY <3>5, <3>6
      <3> QED
        BY <1>4, <3>4, <3>6, <3>7, <3>8
    <2> QED
      BY <2>1, <2>2
  <1>9. FTyped'
    BY <1>1, <1>2, <1>5, <1>6, <1>8 DEF FTyped, FailSafeTypeOK, Servers, Tasks
  <1>10. FCounted'
    <2>1. \A q : Hits(work, Frames(q)) = 0
      BY <1>3, HitsEmpty
    <2>2. ASSUME NEW q \in Fetches
          PROVE  done'[q] + Holders(held', q) + Hits(pending', {q}) + Hits(work', Frames(q))
                   = done[q] + Holders(held, q) + Hits(pending, {q}) + Hits(work, Frames(q))
      <3>1. /\ Holders(held', q) \in Nat /\ Hits(pending, {q}) \in Nat
            /\ done[q] \in Nat /\ done'[q] \in Nat
        <4>1. done[q] \in Nat /\ done'[q] \in Nat
          BY <1>4, <1>8
        <4>2. Holders(held', q) \in Nat
          BY HoldersFinite
        <4>3. Hits(pending, {q}) \in Nat
          BY <1>4, HitsPositive
        <4> QED
          BY <4>1, <4>2, <4>3
      <3>2. /\ Hits(work', Frames(q)) \in Nat
            /\ done'[q] + Hits(work', Frames(q)) = done[q] + (IF q = r THEN 1 ELSE 0)
            /\ Holders(held, q) = Holders(held', q) + (IF q = r THEN 1 ELSE 0)
            /\ Hits(pending', {q}) = Hits(pending, {q})
        BY <1>2, <1>7, <1>8
      <3> QED
        BY <2>1, <3>1, <3>2
    <2>3. started' = started /\ old' = old /\ pending' \in Seq(Fetches)
      BY <1>2, <1>4
    <2> QED
      BY <1>1, <1>8, <2>2, <2>3, SameSum
  <1>11. FStack' /\ FGone'
    BY <1>2, <1>3, <1>8 DEF FStack, Stack, FGone
  <1> QED
    BY <1>9, <1>10, <1>11 DEF FInv


\* The connection of a client ends.
LEMMA FClientCloses ==
    ASSUME FailSafeConstants, FInv, NEW i \in Servers, ClientCloses(i)
    PROVE  FInv'
  <1>1. FTyped /\ FStack /\ FGone /\ FCounted
    BY DEF FInv
  <1> DEFINE X == held[i]
             c == [do |-> "complete", reqs |-> X]
  <1>2. /\ link' = [link EXCEPT ![i] = "gone"] /\ held' = [held EXCEPT ![i] = {}]
        /\ work' = IF X = {} THEN <<>> ELSE <<c>>
        /\ UNCHANGED <<since, age, retries, pending, old, started, done, alarm, deleted, stopped>>
    BY DEF ClientCloses
  <1>3. work = <<>> /\ old = <<>> /\ ~deleted
    BY FIdle DEF ClientCloses
  <1>4. /\ held \in [Servers -> SUBSET Fetches] /\ done \in [Fetches -> Nat]
        /\ pending \in Seq(Fetches) /\ \A j \in Servers : IsFiniteSet(held[j])
        /\ link \in [Servers -> {"fresh", "connecting", "early", "open", "gone"}]
    BY <1>1 DEF FTyped, FailSafeTypeOK
  <1>5. /\ held' \in [Servers -> SUBSET Fetches]
        /\ link' \in [Servers -> {"fresh", "connecting", "early", "open", "gone"}]
        /\ held'[i] = {} /\ \A j \in Servers : j # i => held'[j] = held[j]
    BY <1>2, <1>4
  <1>6. \A j \in Servers : IsFiniteSet(held'[j])
    <2> SUFFICES ASSUME NEW j \in Servers PROVE IsFiniteSet(held'[j])
      OBVIOUS
    <2>1. held'[j] = {} \/ held'[j] = held[j]
      BY <1>5
    <2> QED
      BY <1>4, <2>1, FS_EmptySet
  <1>7. X \in SUBSET Fetches /\ c = [do |-> "complete", reqs |-> X]
    BY <1>4
  <1> HIDE DEF c, X
  <1>8. /\ work' \in Seq(Tasks) /\ Stack(work')
        /\ \A q : Hits(work', Frames(q)) = IF q \in X THEN 1 ELSE 0
    <2>1. CASE X = {}
      <3>1. work' = <<>>
        BY <1>2, <2>1
      <3>2. \A q : Hits(work', Frames(q)) = 0
        BY <3>1, HitsEmpty
      <3>3. work' \in Seq(Tasks) /\ Stack(work')
        BY <3>1, EmptySeq DEF Stack
      <3> QED
        BY <2>1, <3>2, <3>3
    <2>2. CASE X # {}
      <3>1. work' = <<c>>
        BY <1>2, <2>2
      <3>2. c \in Tasks /\ \A q : c \in Frames(q) <=> q \in X
        BY <1>7, CompletionFrames
      <3>3. /\ work' \in Seq(Tasks) /\ Stack(work')
            /\ \A q : Hits(work', Frames(q)) = IF c \in Frames(q) THEN 1 ELSE 0
        BY <3>1, <3>2, StackOne
      <3> QED
        BY <3>2, <3>3
    <2> QED
      BY <2>1, <2>2
  <1>9. \A q : Holders(held, q) = Holders(held', q) + (IF q \in X THEN 1 ELSE 0)
    <2> SUFFICES ASSUME NEW q
                 PROVE  Holders(held, q) = Holders(held', q) + (IF q \in X THEN 1 ELSE 0)
      OBVIOUS
    <2>1. Holders(held', q) + (IF q \in held[i] THEN 1 ELSE 0)
            = Holders(held, q) + (IF q \in held'[i] THEN 1 ELSE 0)
      BY <1>5, HoldersExcept
    <2>2. Holders(held, q) \in Nat /\ Holders(held', q) \in Nat
      BY HoldersFinite
    <2>3. (q \in held[i] <=> q \in X) /\ q \notin held'[i]
      BY <1>5 DEF X
    <2> QED
      BY <2>1, <2>2, <2>3
  <1>10. FTyped'
    BY <1>1, <1>2, <1>5, <1>6, <1>8 DEF FTyped, FailSafeTypeOK, Servers, Tasks
  <1>11. FCounted'
    <2>1. \A q : Hits(work, Frames(q)) = 0
      BY <1>3, HitsEmpty
    <2>2. ASSUME NEW q \in Fetches
          PROVE  done'[q] + Holders(held', q) + Hits(pending', {q}) + Hits(work', Frames(q))
                   = done[q] + Holders(held, q) + Hits(pending, {q}) + Hits(work, Frames(q))
      <3>1. Holders(held', q) \in Nat
        BY HoldersFinite
      <3>2. Hits(pending, {q}) \in Nat
        BY <1>4, HitsPositive
      <3>3. /\ done'[q] = done[q] /\ done[q] \in Nat
            /\ Hits(work', Frames(q)) = (IF q \in X THEN 1 ELSE 0)
            /\ Holders(held, q) = Holders(held', q) + (IF q \in X THEN 1 ELSE 0)
            /\ Hits(pending', {q}) = Hits(pending, {q})
        BY <1>2, <1>4, <1>8, <1>9
      <3> QED
        BY <2>1, <3>1, <3>2, <3>3
    <2>3. /\ started' = started /\ old' = old /\ pending' \in Seq(Fetches)
          /\ done' \in [Fetches -> Nat]
      BY <1>2, <1>4
    <2> QED
      BY <1>1, <1>8, <2>2, <2>3, SameSum
  <1>12. FStack' /\ FGone'
    BY <1>2, <1>3, <1>8 DEF FStack, Stack, FGone
  <1> QED
    BY <1>10, <1>11, <1>12 DEF FInv

\* ~FailSafeClient: a request is with one client or in the queue, and not in both.
LEMMA FDestroy ==
    ASSUME FailSafeConstants, FInv, Destroy
    PROVE  FInv'
  <1>1. FTyped /\ FStack /\ FGone /\ FCounted
    BY DEF FInv
  <1> DEFINE Pends(q) == \E k \in DOMAIN pending : pending[k] = q
             Has(q) == \E i \in Servers : q \in held[i]
  <1>2. /\ done' = [q \in Fetches |-> IF Has(q) \/ Pends(q) THEN done[q] + 1 ELSE done[q]]
        /\ held' = [i \in Servers |-> {}] /\ link' = [i \in Servers |-> "gone"]
        /\ pending' = <<>> /\ alarm' = FALSE /\ deleted' = TRUE
        /\ UNCHANGED <<since, age, retries, old, work, started, stopped>>
    BY DEF Destroy, Destroyed
  <1>3. work = <<>> /\ old = <<>> /\ ~deleted
    BY FIdle DEF Destroy, Destroyed
  <1>4. /\ done \in [Fetches -> Nat] /\ pending \in Seq(Fetches) /\ work \in Seq(Tasks)
    BY <1>1 DEF FTyped, FailSafeTypeOK
  <1>5. /\ held' \in [Servers -> SUBSET Fetches]
        /\ link' \in [Servers -> {"fresh", "connecting", "early", "open", "gone"}]
        /\ \A i \in Servers : held'[i] = {}
    BY <1>2
  <1>6. done' \in [Fetches -> Nat]
    BY <1>2, <1>4
  <1>7. pending' \in Seq(Fetches)
    BY <1>2, EmptySeq
  <1>8. \A i \in Servers : IsFiniteSet(held'[i])
    BY <1>5, FS_EmptySet
  <1>9. FTyped'
    BY <1>1, <1>2, <1>5, <1>6, <1>7, <1>8 DEF FTyped, FailSafeTypeOK, Servers, Tasks
  <1>10. FCounted'
    <2>1. ASSUME NEW q \in Fetches
          PROVE  done'[q] + Holders(held', q) + Hits(pending', {q}) + Hits(work', Frames(q))
                   = done[q] + Holders(held, q) + Hits(pending, {q}) + Hits(work, Frames(q))
      <3> DEFINE d == done[q]
                 h == Holders(held, q)
                 p == Hits(pending, {q})
                 o == Hits(old, {q})
                 n == Hits(work, Frames(q))
      <3>1. d \in Nat /\ h \in Nat /\ p \in Nat /\ o \in Nat /\ n \in Nat
            /\ d + h + p + o + n = IF q \in started THEN 1 ELSE 0
        BY <1>1, CountParts
      <3>2. n = 0 /\ Hits(work', Frames(q)) = 0 /\ Hits(pending', {q}) = 0
        BY <1>2, <1>3, HitsEmpty
      <3>3. Holders(held', q) = 0
        BY <1>5, HoldersFinite
      <3>4. h = 0 <=> ~Has(q)
        BY HoldersFinite
      <3>5. p > 0 <=> Pends(q)
        <4>1. p > 0 <=> \E k \in DOMAIN pending : pending[k] \in {q}
          BY <1>4, HitsPositive
        <4> QED
          BY <4>1
      <3>6. done'[q] = IF Has(q) \/ Pends(q) THEN d + 1 ELSE d
        BY <1>2
      <3> HIDE DEF d, h, p, o, n, Has, Pends
      <3>7. done'[q] = d + h + p
        BY <3>1, <3>4, <3>5, <3>6
      <3>8. done'[q] + Holders(held', q) + Hits(pending', {q}) + Hits(work', Frames(q)) = d + h + p + n
        BY <3>1, <3>2, <3>3, <3>7
      <3> QED
        BY <3>8 DEF d, h, p, n
    <2>2. started' = started /\ old' = old /\ work' \in Seq(Tasks)
      BY <1>2, <1>4
    <2> QED
      BY <1>1, <1>6, <1>7, <2>1, <2>2, SameSum
  <1>11. FStack' /\ FGone'
    BY <1>1, <1>2, <1>3, <1>5 DEF FStack, FGone, Servers
  <1> QED
    BY <1>9, <1>10, <1>11 DEF FInv

\* The clock, and steps of nobody.
LEMMA FTick ==
    ASSUME FailSafeConstants, FInv, Tick \/ UNCHANGED failSafeVars
    PROVE  FInv'
  <1>1. FTyped /\ FStack /\ FGone /\ FCounted
    BY DEF FInv
  <1>2. UNCHANGED <<link, held, retries, pending, old, work, started, done, alarm, deleted, stopped>>
    BY DEF Tick, failSafeVars
  <1>3. /\ since' \in [Servers -> 0..Interval + 1] /\ age' \in [Fetches -> 0..Timeout + 1]
    <2>1. /\ since \in [Servers -> 0..Interval + 1] /\ age \in [Fetches -> 0..Timeout + 1]
      BY <1>1 DEF FTyped, FailSafeTypeOK
    <2>2. CASE Tick
      BY <2>1, <2>2 DEF Tick, FailSafeConstants
    <2>3. CASE UNCHANGED failSafeVars
      BY <2>1, <2>3 DEF failSafeVars
    <2> QED
      BY <2>2, <2>3
  <1>4. FTyped'
    BY <1>1, <1>2, <1>3 DEF FTyped, FailSafeTypeOK, Servers, Tasks
  <1>5. FStack' /\ FGone'
    BY <1>1, <1>2 DEF FStack, FGone, Servers
  <1>6. FCounted'
    BY <1>1, <1>2 DEF FCounted, Count, Holders, Hits, Frames, Servers, Tasks
  <1> QED
    BY <1>4, <1>5, <1>6 DEF FInv

\* A connection is made, and the CHECK of the destructor fails.
LEMMA FFrame ==
    ASSUME FailSafeConstants, FInv, DestroyFails \/ \E i \in Servers : ClientConnects(i)
    PROVE  FInv'
  <1>1. FTyped /\ FStack /\ FGone /\ FCounted
    BY DEF FInv
  <1>2. /\ UNCHANGED <<held, since, age, retries, pending, old, work, started, done, alarm, deleted>>
        /\ stopped' \in {stopped, TRUE}
    BY DEF DestroyFails, ClientConnects
  <1>3. link' \in [Servers -> {"fresh", "connecting", "early", "open", "gone"}]
    <2>1. link \in [Servers -> {"fresh", "connecting", "early", "open", "gone"}]
      BY <1>1 DEF FTyped, FailSafeTypeOK
    <2> QED
      BY <2>1 DEF DestroyFails, ClientConnects
  <1>4. FTyped'
    BY <1>1, <1>2, <1>3 DEF FTyped, FailSafeTypeOK, Servers, Tasks
  <1>5. FStack' /\ FGone'
    BY <1>1, <1>2 DEF FStack, FGone, Servers
  <1>6. FCounted'
    BY <1>1, <1>2 DEF FCounted, Count, Holders, Hits, Frames, Servers, Tasks
  <1> QED
    BY <1>4, <1>5, <1>6 DEF FInv

\* Every step but those of the loop that may never end.
LEMMA FNextInv ==
    ASSUME FailSafeConstants
    PROVE  FInv /\ [FailSafeNext]_(failSafeVars) => FInv' \/ MoveOthers
  <1> SUFFICES ASSUME FInv, [FailSafeNext]_(failSafeVars), ~MoveOthers PROVE FInv'
    OBVIOUS
  <1>1. ASSUME NEW r \in Fetches, StartRequest(r) PROVE FInv'
    BY <1>1, FStartRequest
  <1>2. ASSUME NEW i \in Servers, NEW r \in Fetches,
               ClientReplies(i, r) \/ ClientTimesOut(i, r)
        PROVE  FInv'
    BY <1>2, FClientEnds
  <1>3. ASSUME NEW i \in Servers, ClientCloses(i) PROVE FInv'
    BY <1>3, FClientCloses
  <1>4. ASSUME NEW i \in Servers, ClientConnects(i) PROVE FInv'
    BY <1>4, FFrame
  <1> QED
    BY <1>1, <1>2, <1>3, <1>4, FCompletionCallback, FRequeuePending, FRequeueLoop,
       FRequeuePendingAlarm, FDestroy, FFrame, FTick DEF FailSafeNext

\* What holds of the counts when RequeuePending goes round for ever, too.
FSafe ==
    /\ FTyped /\ FStack /\ FGone
    /\ \A q \in Fetches : \/ Count(q) = IF q \in started THEN 1 ELSE 0
                          \/ Spinning /\ q = Head(old)

\* Nothing but that loop goes on.
LEMMA FSpins ==
    ASSUME FSafe, Spinning, [FailSafeNext]_(failSafeVars)
    PROVE  MoveOthers \/ UNCHANGED failSafeVars
  <1>1. work # <<>> /\ Head(work).do = "move"
    BY DEF Spinning
  <1>2. ~Idle
    BY <1>1 DEF Idle
  <1>3. /\ ~CompletionCallback /\ ~RequeuePending /\ ~RequeueLoop
    BY <1>1 DEF CompletionCallback, RequeuePending, RequeueLoop
  <1>4. /\ ~RequeuePendingAlarm /\ ~Destroy /\ ~DestroyFails /\ ~Tick
        /\ \A r \in Fetches : ~StartRequest(r)
    BY <1>2 DEF RequeuePendingAlarm, Destroy, Destroyed, DestroyFails, Tick, StartRequest
  <1>5. /\ \A i \in Servers, r \in Fetches : ~ClientReplies(i, r) /\ ~ClientTimesOut(i, r)
        /\ \A i \in Servers : ~ClientConnects(i) /\ ~ClientCloses(i)
    BY <1>2 DEF ClientReplies, ClientTimesOut, ClientConnects, ClientCloses
  <1> QED
    BY <1>3, <1>4, <1>5 DEF FailSafeNext

\* The loop over the others, which ends only when there are none.
LEMMA FMoveOthers ==
    ASSUME FailSafeConstants, FSafe, MoveOthers
    PROVE  FSafe'
  <1>1. /\ FTyped /\ FStack /\ FGone /\ work # <<>> /\ Head(work).do = "move"
        /\ UNCHANGED <<link, held, since, age, retries, old, started, alarm, deleted, stopped>>
    BY DEF FSafe, MoveOthers
  <1>2. /\ work \in Seq(Tasks) /\ old \in Seq(Fetches) /\ pending \in Seq(Fetches)
        /\ done \in [Fetches -> Nat] /\ Stack(work) /\ ~deleted
    BY <1>1, FStackDef DEF FTyped, FailSafeTypeOK, FGone
  <1> DEFINE t == Tail(work)
  <1>3. Head(work) \in Tasks /\ t = <<>>
    BY <1>1, <1>2, StackTail
  <1>4. CASE old = <<>> /\ work' = t /\ UNCHANGED <<pending, done>>
    <2>1. FTyped'
      <3>1. work' \in Seq(Tasks)
        BY <1>3, <1>4, EmptySeq
      <3> QED
        BY <1>1, <1>4, <3>1 DEF FTyped, FailSafeTypeOK, Servers, Tasks
    <2>2. FStack' /\ FGone'
      BY <1>1, <1>2, <1>3, <1>4 DEF FStack, FGone
    <2>3. ASSUME NEW q \in Fetches PROVE Count(q)' = IF q \in started' THEN 1 ELSE 0
      <3>1. Count(q) = IF q \in started THEN 1 ELSE 0
        BY <1>4 DEF FSafe, Spinning
      <3>2. Hits(work, Frames(q)) = 0
        <4>1. Head(work) \notin Frames(q)
          BY <1>1, <1>3, OtherFrames
        <4>2. Hits(work, Frames(q)) = IF Head(work) \in Frames(q) THEN Hits(t, Frames(q)) + 1
                                      ELSE Hits(t, Frames(q))
          BY <1>1, <1>2, HitsTail, ZenonT(30)
        <4> HIDE DEF t
        <4>3. Hits(t, Frames(q)) = 0
          BY <1>3, HitsEmpty
        <4> QED
          BY <4>1, <4>2, <4>3
      <3> HIDE DEF t
      <3>3. Hits(work', Frames(q)) = 0
        BY <1>3, <1>4, HitsEmpty
      <3>4. Count(q)' = done'[q] + Holders(held', q) + Hits(pending', {q}) + Hits(old', {q})
                          + Hits(work', Frames(q))
        BY DEF Count, Holders, Hits, Frames, Servers, Tasks
      <3> QED
        BY <1>1, <1>4, <3>1, <3>2, <3>3, <3>4 DEF Count
    <2> QED
      BY <2>1, <2>2, <2>3 DEF FSafe
  <1>5. CASE /\ old # <<>> /\ work' = work
             /\ \/ /\ done' = [done EXCEPT ![Head(old)] = @ + 1]
                   /\ pending' = pending
                \/ /\ pending' = Append(pending, Head(old))
                   /\ done' = done
    <2> DEFINE r == Head(old)
    <2>1. r \in Fetches
      BY <1>2, <1>5, HeadTailProperties
    <2>2. done' \in [Fetches -> Nat] /\ pending' \in Seq(Fetches)
      <3>1. done' \in [Fetches -> Nat]
        BY <1>2, <1>5, <2>1
      <3>2. Append(pending, r) \in Seq(Fetches)
        <4> HIDE DEF r
        <4> QED
          BY <1>2, <2>1, AppendProperties
      <3> QED
        BY <1>2, <1>5, <3>1, <3>2
    <2>3. FTyped'
      BY <1>1, <1>5, <2>2 DEF FTyped, FailSafeTypeOK, Servers, Tasks
    <2>4. FStack' /\ FGone'
      BY <1>1, <1>2, <1>5 DEF FStack, FGone
    <2>5. Spinning' /\ Head(old') = r
      BY <1>1, <1>5 DEF Spinning
    <2>6. ASSUME NEW q \in Fetches, q # r PROVE Count(q)' = IF q \in started' THEN 1 ELSE 0
      <3> HIDE DEF r
      <3>1. Count(q) = IF q \in started THEN 1 ELSE 0
        BY <2>6 DEF FSafe, r
      <3>2. done'[q] = done[q]
        BY <1>2, <1>5, <2>6 DEF r
      <3>3. Hits(pending', {q}) = Hits(pending, {q})
        <4>1. CASE pending' = pending
          BY <4>1
        <4>2. CASE pending' = Append(pending, r)
          <5>1. r \notin {q}
            BY <2>6
          <5>2. Hits(pending', {q}) = IF r \in {q} THEN Hits(pending, {q}) + 1 ELSE Hits(pending, {q})
            BY <1>2, <2>1, <4>2, HitsAppend, ZenonT(30)
          <5> QED
            BY <5>1, <5>2
        <4> QED
          BY <1>5, <4>1, <4>2 DEF r
      <3>4. Count(q)' = done'[q] + Holders(held', q) + Hits(pending', {q}) + Hits(old', {q})
                          + Hits(work', Frames(q))
        BY DEF Count, Holders, Hits, Frames, Servers, Tasks
      <3> QED
        BY <1>1, <1>5, <3>1, <3>2, <3>3, <3>4 DEF Count
    <2> QED
      BY <2>3, <2>4, <2>5, <2>6 DEF FSafe
  <1> QED
    BY <1>4, <1>5 DEF MoveOthers

\* Every step.
LEMMA FNextSafe ==
    ASSUME FailSafeConstants
    PROVE  FSafe /\ [FailSafeNext]_(failSafeVars) => FSafe'
  <1> SUFFICES ASSUME FSafe, [FailSafeNext]_(failSafeVars) PROVE FSafe'
    OBVIOUS
  <1>1. FInv => FSafe
    BY DEF FInv, FSafe, FCounted
  <1>2. FInv' => FSafe'
    BY DEF FInv, FSafe, FCounted
  <1>3. CASE Spinning
    <2>1. MoveOthers \/ UNCHANGED failSafeVars
      BY <1>3, FSpins
    <2>2. CASE UNCHANGED failSafeVars
      BY <2>2 DEF failSafeVars, FSafe, FTyped, FailSafeTypeOK, FStack, FGone, Count, Holders, Hits,
                  Frames, Servers, Tasks, Spinning
    <2> QED
      BY <2>1, <2>2, FMoveOthers
  <1>4. CASE ~Spinning
    <2>1. FInv
      BY <1>4 DEF FInv, FSafe, FCounted
    <2> QED
      BY <1>2, <2>1, FNextInv, FMoveOthers
  <1> QED
    BY <1>3, <1>4

\* What OnePlace counts is what Count counts.
LEMMA FPlaces ==
    ASSUME FailSafeConstants, FSafe, NEW r \in Fetches
    PROVE  /\ \/ done[r] + Places(r) = IF r \in started THEN 1 ELSE 0
              \/ Spinning /\ r = Head(old)
           /\ deleted /\ r \in started => done[r] = 1
  <1>1. FTyped /\ FStack /\ FGone
    BY DEF FSafe
  <1> DEFINE d == done[r]
             h == Holders(held, r)
             p == Hits(pending, {r})
             o == Hits(old, {r})
             n == Hits(work, Frames(r))
  <1>2. d \in Nat /\ h \in Nat /\ p \in Nat /\ o \in Nat /\ n \in Nat
    <2>1. /\ done \in [Fetches -> Nat] /\ pending \in Seq(Fetches) /\ old \in Seq(Fetches)
          /\ work \in Seq(Tasks)
      BY <1>1 DEF FTyped, FailSafeTypeOK
    <2>2. h \in Nat /\ p \in Nat /\ n \in Nat
      BY <2>1, CountsAreNumbers
    <2>3. o \in Nat
      BY <2>1, HitsPositive
    <2> QED
      BY <2>1, <2>2, <2>3
  <1>6. \/ d + h + p + o + n = IF r \in started THEN 1 ELSE 0
        \/ Spinning /\ r = Head(old)
    BY DEF FSafe, Count
  <1>7. deleted => ~Spinning
    BY <1>1 DEF FGone, Spinning
  <1>3. Places(r) = h + p + o + n
    <2>1. {k \in DOMAIN pending : pending[k] \in {r}} = {k \in DOMAIN pending : pending[k] = r}
      OBVIOUS
    <2>2. {k \in DOMAIN old : old[k] \in {r}} = {k \in DOMAIN old : old[k] = r}
      OBVIOUS
    <2>3. {k \in DOMAIN work : work[k] \in Frames(r)}
            = {k \in DOMAIN work : work[k].do = "complete" /\ r \in work[k].reqs}
      <3>1. \A k \in DOMAIN work : work[k] \in Tasks
        BY <1>1 DEF FTyped, FailSafeTypeOK
      <3> QED
        BY <3>1 DEF Frames
    <2> QED
      BY <2>1, <2>2, <2>3, FCardinality DEF Places, Holders, Hits
  <1>4. deleted => h = 0 /\ p = 0 /\ o = 0 /\ n = 0
    <2> SUFFICES ASSUME deleted PROVE h = 0 /\ p = 0 /\ o = 0 /\ n = 0
      OBVIOUS
    <2>1. work = <<>> /\ pending = <<>> /\ old = <<>> /\ \A i \in Servers : held[i] = {}
      BY <1>1, FStackDef DEF FGone, Looping
    <2>2. p = 0 /\ o = 0 /\ n = 0
      BY <2>1, HitsEmpty
    <2>3. h = 0
      BY <2>1, HoldersFinite
    <2> QED
      BY <2>2, <2>3
  <1>5. d = done[r]
    OBVIOUS
  <1> HIDE DEF d, h, p, o, n
  <1> QED
    BY <1>2, <1>3, <1>4, <1>5, <1>6, <1>7

\* Every variable of the fail-safe client keeps its type, for any number of
\* requests, servers and retries.
THEOREM FailSafeTypeCorrect ==
    FailSafeSpec => []FailSafeTypeOK
  <1>1. FailSafeConstants
    BY FailSafeAssumption DEF FailSafeConstants
  <1>2. FailSafeInit => FSafe
    BY <1>1, FInitInv DEF FInv, FSafe, FCounted
  <1>3. FSafe /\ [FailSafeNext]_failSafeVars => FSafe'
    BY <1>1, FNextSafe
  <1>4. FSafe => FailSafeTypeOK
    BY DEF FSafe, FTyped
  <1> QED
    BY <1>2, <1>3, <1>4, PTL DEF FailSafeSpec

\* A request given to StartRequest is with one client, in one queue or in one
\* completion about to run until its closure has run, which it does once; the
\* destructor leaves none behind.  For any number of requests, servers and
\* retries, and however the calls nest.  The exception is the request that
\* RequeuePending goes round with for ever: that one is completed again and
\* again, or queued again and again, and no other request is touched.
THEOREM FailSafeOnePlace ==
    FailSafeSpec => []OnePlace
  <1>1. FailSafeConstants
    BY FailSafeAssumption DEF FailSafeConstants
  <1>2. FailSafeInit => FSafe
    BY <1>1, FInitInv DEF FInv, FSafe, FCounted
  <1>3. FSafe /\ [FailSafeNext]_failSafeVars => FSafe'
    BY <1>1, FNextSafe
  <1>4. FSafe => OnePlace
    <2> SUFFICES ASSUME FSafe PROVE OnePlace
      OBVIOUS
    <2>1. started \subseteq Fetches
      BY DEF FSafe, FTyped, FailSafeTypeOK
    <2> QED
      BY <1>1, <2>1, FPlaces DEF OnePlace
  <1> QED
    BY <1>2, <1>3, <1>4, PTL DEF FailSafeSpec


-----------------------------------------------------------------------------
(* HttpClient *)

\* The ASSUME of HttpClient, as a hypothesis of the lemmas.
ClientConstants ==
    /\ MaxConcurrent \in Nat \ {0}
    /\ WaitingLimits \subseteq Nat /\ Untimed \subseteq Requests
    /\ MaxSends \in Nat

Elems(s) == {s[i] : i \in DOMAIN s}
First(s, n) == {s[i] : i \in 1..n}
Injective(s) == \A i, j \in DOMAIN s : s[i] = s[j] => i = j

\* The types, with request ids that are not bounded.
CTyped ==
    /\ crtId \in Nat \ {0} /\ id \in [Requests -> Nat]
    /\ waiting \in Seq(Requests) /\ posted \in Seq(Requests)
    /\ active \in SUBSET Requests /\ IsFiniteSet(active)
    /\ sent \in [Requests -> Nat] /\ ran \in [Requests -> Nat]

\* A request has an id of its own from its first SendRequest on.
CIds ==
    /\ \A r \in Requests : id[r] < crtId
    /\ \A r, s \in Requests : id[r] = id[s] /\ id[r] # 0 => r = s
    /\ \A r \in active \cup Elems(waiting) : id[r] # 0

\* Where a request is, and the number of requests on the line.
CPlaces ==
    /\ Injective(waiting) /\ Injective(posted)
    /\ active \cap Elems(waiting) = {}
    /\ (active \cup Elems(waiting)) \cap Elems(posted) = {}
    /\ callbacks = active \cup Elems(waiting)
    /\ \A r \in Requests :
         sent[r] = IF r \in callbacks \cup Elems(posted) THEN ran[r] + 1 ELSE ran[r]
    /\ Cardinality(active) <= MaxConcurrent

CTimed ==
    /\ \A r \in active \ Untimed : kRequestTimeout + id[r] \in timeouts
    /\ conn = "closed" => callbacks = {} /\ timeouts = {}

CInv == CTyped /\ CIds /\ CPlaces /\ CTimed


-----------------------------------------------------------------------------
\* The elements of a sequence with one more ...
MoreBy(S, s, e, t) ==
    /\ t \in Seq(S) /\ Elems(t) = Elems(s) \cup {e}
    /\ Injective(s) /\ e \notin Elems(s) => Injective(t)

\* (Append gives it)
LEMMA ElemsAppend ==
    ASSUME NEW S, NEW s \in Seq(S), NEW e \in S, NEW t, t = Append(s, e)
    PROVE  MoreBy(S, s, e, t)
  <1>1. /\ t \in Seq(S) /\ Len(s) \in Nat /\ DOMAIN s = 1..Len(s) /\ DOMAIN t = 1..(Len(s) + 1)
        /\ \A i \in DOMAIN s : i \in DOMAIN t /\ t[i] = s[i]
        /\ t[Len(s) + 1] = e
    BY AppendAt
  <1>2. \A i \in DOMAIN t : i \in DOMAIN s \/ i = Len(s) + 1
    BY <1>1
  <1>3. Len(s) + 1 \in DOMAIN t
    BY <1>1
  <1>4. Elems(t) = Elems(s) \cup {e}
    BY <1>1, <1>2, <1>3 DEF Elems
  <1>5. ASSUME Injective(s), e \notin Elems(s) PROVE Injective(t)
    <2> SUFFICES ASSUME NEW i \in DOMAIN t, NEW j \in DOMAIN t, t[i] = t[j] PROVE i = j
      BY DEF Injective
    <2>1. \A k \in DOMAIN s : s[k] # e
      BY <1>5 DEF Elems
    <2> QED
      BY <1>1, <1>2, <1>5, <2>1 DEF Injective
  <1> QED
    BY <1>1, <1>4, <1>5 DEF MoreBy

\* ... without its head ...
LEMMA ElemsTail ==
    ASSUME NEW S, NEW s \in Seq(S), s # <<>>, NEW t, t = Tail(s)
    PROVE  /\ t \in Seq(S) /\ Head(s) \in S /\ Elems(s) = Elems(t) \cup {Head(s)}
           /\ Injective(s) => Injective(t) /\ Head(s) \notin Elems(t)
  <1>1. /\ t \in Seq(S) /\ Len(s) \in Nat \ {0}
        /\ DOMAIN s = 1..Len(s) /\ DOMAIN t = 1..(Len(s) - 1)
        /\ \A i \in DOMAIN t : i + 1 \in DOMAIN s /\ t[i] = s[i + 1]
        /\ \A i \in DOMAIN s : i # 1 => i - 1 \in DOMAIN t /\ s[i] = t[i - 1]
        /\ 1 \in DOMAIN s /\ Head(s) = s[1] /\ s[1] \in S
    BY TailAt
  <1>2. Elems(s) = Elems(t) \cup {Head(s)}
    <2>1. ASSUME NEW x \in Elems(s) PROVE x \in Elems(t) \cup {Head(s)}
      <3>1. PICK i \in DOMAIN s : x = s[i]
        BY <2>1 DEF Elems
      <3> QED
        BY <1>1, <3>1 DEF Elems
    <2>2. ASSUME NEW x \in Elems(t) PROVE x \in Elems(s)
      <3>1. PICK i \in DOMAIN t : x = t[i]
        BY <2>2 DEF Elems
      <3> QED
        BY <1>1, <3>1 DEF Elems
    <2>3. Head(s) \in Elems(s)
      BY <1>1 DEF Elems
    <2> QED
      BY <2>1, <2>2, <2>3
  <1>3. ASSUME Injective(s) PROVE Injective(t) /\ Head(s) \notin Elems(t)
    <2>1. \A i, j \in DOMAIN t : t[i] = t[j] => i + 1 = j + 1
      BY <1>1, <1>3 DEF Injective
    <2>2. Injective(t)
      BY <1>1, <2>1 DEF Injective
    <2>3. \A i \in DOMAIN t : i + 1 # 1 /\ t[i] # s[1]
      <3> SUFFICES ASSUME NEW i \in DOMAIN t PROVE i + 1 # 1 /\ t[i] # s[1]
        OBVIOUS
      <3>1. i + 1 # 1
        BY <1>1
      <3> QED
        BY <1>1, <1>3, <3>1 DEF Injective
    <2> QED
      BY <1>1, <2>2, <2>3 DEF Elems
  <1> QED
    BY <1>1, <1>2, <1>3

\* ... without the first n.
SuffixOf(S, s, n, t) ==
    /\ t \in Seq(S) /\ First(s, n) \subseteq S /\ Elems(s) = First(s, n) \cup Elems(t)
    /\ Len(t) = Len(s) - n
    /\ \A i \in DOMAIN t : n + i \in DOMAIN s /\ t[i] = s[n + i]
    /\ Injective(s) => Injective(t) /\ First(s, n) \cap Elems(t) = {}

\* SubSeq gives it.
LEMMA ElemsSuffix ==
    ASSUME NEW S, NEW s \in Seq(S), NEW n \in Nat, n <= Len(s),
           NEW t, t = SubSeq(s, n + 1, Len(s))
    PROVE  SuffixOf(S, s, n, t)
  <1> DEFINE P == First(s, n)
  <1>1. P = {s[i] : i \in 1..n}
    BY DEF First
  <1> HIDE DEF P
  <1>2. Len(s) \in Nat /\ DOMAIN s = 1..Len(s) /\ \A i \in 1..Len(s) : s[i] \in S
    BY LenProperties, ElementOfSeq
  <1>3. /\ t \in Seq(S) /\ Len(t) = Len(s) - n
        /\ \A i \in 1..(Len(s) - n) : t[i] = s[n + i]
    <2>1. \A i \in (n + 1)..Len(s) : s[i] \in S
      BY <1>2
    <2>2. /\ t \in Seq(S) /\ Len(t) = IF n + 1 <= Len(s) THEN Len(s) - (n + 1) + 1 ELSE 0
          /\ \A i \in 1..(Len(s) - (n + 1) + 1) : t[i] = s[(n + 1) + i - 1]
      BY <1>2, <2>1, SubSeqProperties
    <2>3. Len(t) = Len(s) - n
      <3> DEFINE L == Len(s)
                 T == Len(t)
      <3>1. L \in Nat /\ n <= L /\ T = IF n + 1 <= L THEN L - (n + 1) + 1 ELSE 0
        BY <1>2, <2>2
      <3> HIDE DEF L, T
      <3>2. T = L - n
        BY <3>1
      <3> QED
        BY <3>2 DEF L, T
    <2>4. ASSUME NEW i \in 1..(Len(s) - n) PROVE t[i] = s[n + i]
      <3>1. i \in 1..(Len(s) - (n + 1) + 1) /\ (n + 1) + i - 1 = n + i
        BY <1>2
      <3> QED
        BY <2>2, <3>1
    <2> QED
      BY <2>2, <2>3, <2>4
  <1>4. DOMAIN t = 1..(Len(s) - n)
    BY <1>3, LenProperties
  <1>5. \A i \in DOMAIN t : n + i \in DOMAIN s /\ t[i] = s[n + i]
    <2> SUFFICES ASSUME NEW i \in 1..(Len(s) - n) PROVE n + i \in 1..Len(s) /\ t[i] = s[n + i]
      BY <1>2, <1>4
    <2>1. n + i \in 1..Len(s)
      BY <1>2
    <2> QED
      BY <1>3, <2>1
  <1>6. \A i \in DOMAIN s : i <= n \/ (i - n \in DOMAIN t /\ s[i] = t[i - n])
    <2> SUFFICES ASSUME NEW i \in 1..Len(s), ~ (i <= n)
                 PROVE  i - n \in DOMAIN t /\ s[i] = t[i - n]
      BY <1>2
    <2>1. i - n \in 1..(Len(s) - n) /\ n + (i - n) = i
      BY <1>2
    <2> QED
      BY <1>3, <1>4, <2>1
  <1>7. Elems(s) = P \cup Elems(t)
    <2>1. ASSUME NEW x \in Elems(s) PROVE x \in P \cup Elems(t)
      <3>1. PICK i \in DOMAIN s : x = s[i]
        BY <2>1 DEF Elems
      <3>2. CASE i <= n
        BY <1>1, <1>2, <3>1, <3>2
      <3>3. CASE i - n \in DOMAIN t /\ s[i] = t[i - n]
        BY <3>1, <3>3 DEF Elems
      <3> QED
        BY <1>6, <3>2, <3>3
    <2>2. Elems(t) \subseteq Elems(s)
      BY <1>5 DEF Elems
    <2>3. P \subseteq Elems(s)
      BY <1>1, <1>2 DEF Elems
    <2> QED
      BY <2>1, <2>2, <2>3
  <1>8. P \subseteq S
    BY <1>1, <1>2
  <1>9. ASSUME Injective(s) PROVE Injective(t) /\ P \cap Elems(t) = {}
    <2>1. Injective(t)
      <3> SUFFICES ASSUME NEW i \in DOMAIN t, NEW j \in DOMAIN t, t[i] = t[j] PROVE i = j
        BY DEF Injective
      <3>1. n + i = n + j
        BY <1>5, <1>9 DEF Injective
      <3> QED
        BY <1>4, <3>1
    <2>2. \A i \in 1..n, j \in DOMAIN t : s[i] # t[j]
      <3> SUFFICES ASSUME NEW i \in 1..n, NEW j \in DOMAIN t, s[i] = t[j] PROVE FALSE
        OBVIOUS
      <3>1. i \in DOMAIN s /\ n + j \in DOMAIN s /\ s[i] = s[n + j]
        BY <1>2, <1>5
      <3>2. i = n + j
        BY <1>9, <3>1 DEF Injective
      <3> QED
        BY <1>2, <1>4, <3>2
    <2> QED
      BY <1>1, <2>1, <2>2 DEF Elems
  <1> QED
    BY <1>3, <1>5, <1>7, <1>8, <1>9 DEF P, SuffixOf

\* An element of a sequence without duplicates has one place in it.
LEMMA PlacesInjective ==
    ASSUME NEW S, NEW s \in Seq(S), Injective(s), NEW q
    PROVE  Cardinality({i \in DOMAIN s : s[i] = q}) = IF q \in Elems(s) THEN 1 ELSE 0
  <1> DEFINE K == {i \in DOMAIN s : s[i] = q}
  <1>1. CASE q \in Elems(s)
    <2>1. PICK i \in DOMAIN s : q = s[i]
      BY <1>1 DEF Elems
    <2>2. K = {i}
      BY <2>1 DEF Injective
    <2>3. Cardinality(K) = 1
      BY <2>2, FS_Singleton
    <2> QED
      BY <1>1, <2>3
  <1>2. CASE q \notin Elems(s)
    <2>1. K = {}
      BY <1>2 DEF Elems
    <2> QED
      BY <1>2, <2>1, FS_EmptySet
  <1> QED
    BY <1>1, <1>2

\* The Cardinality of HttpClient is that of this module.
LEMMA CCardinality ==
    ASSUME NEW A
    PROVE  Cardinality(A) = Cardinality(A)
  BY DEF Cardinality, Cardinality

\* The first n requests of a queue are n at most.
LEMMA PrefixSize ==
    ASSUME NEW s, NEW n \in Nat, NEW P, P = {s[i] : i \in 1..n}
    PROVE  IsFiniteSet(P) /\ Cardinality(P) <= n /\ Cardinality(P) \in Nat
  <1> DEFINE I == 1..n
             f == [i \in I |-> s[i]]
  <1>1. IsFiniteSet(I) /\ Cardinality(I) = n
    BY FS_Interval
  <1>2. f \in Surjection(I, P)
    <2>1. f \in [I -> P] /\ \A p \in P : \E i \in I : f[i] = p
      BY ZenonT(30)
    <2> HIDE DEF f, I
    <2> QED
      BY <2>1 DEF Surjection
  <1>3. IsFiniteSet(P) /\ Cardinality(P) <= Cardinality(I)
    <2> HIDE DEF I, f
    <2> QED
      BY <1>1, <1>2, FS_Surjection
  <1> QED
    BY <1>1, <1>3, FS_CardinalityType


-----------------------------------------------------------------------------
\* What WriteRequestsToServer does with the requests it is given: each stays in
\* one place, and the ones that become active have their timeouts.
LEMMA CWriteOut ==
    ASSUME ClientConstants, NEW w \in Seq(Requests), NEW a \in SUBSET Requests, NEW t,
           Injective(w), IsFiniteSet(a), Cardinality(a) <= MaxConcurrent,
           a \cap Elems(w) = {}, id' \in [Requests -> Nat],
           WriteRequestsToServer(w, a, t)
    PROVE  /\ waiting' \in Seq(Requests) /\ Injective(waiting')
           /\ active' \in SUBSET Requests /\ IsFiniteSet(active')
           /\ Cardinality(active') <= MaxConcurrent
           /\ active' \cup Elems(waiting') = a \cup Elems(w)
           /\ active' \cap Elems(waiting') = {}
           /\ t \subseteq timeouts'
           /\ \A r \in active' \ Untimed : r \notin a => kRequestTimeout + id'[r] \in timeouts'
  <1> DEFINE room == MaxConcurrent - Cardinality(a)
             n == IF Len(w) < room THEN Len(w) ELSE room
             P == {w[i] : i \in 1..n}
             out == [i \in 1..n |-> [req |-> w[i], id |-> id'[w[i]]]]
  <1>1. /\ waiting' = SubSeq(w, n + 1, Len(w)) /\ active' = a \cup P
        /\ timeouts' = t \cup {kRequestTimeout + out[i].id : i \in {j \in 1..n : out[j].req \in Requests \ Untimed}}
                         \cup (IF n > 0 THEN {kWriteTimeout} ELSE {})
    BY DEF WriteRequestsToServer, WriteOut
  <1>2. Cardinality(a) \in Nat /\ Len(w) \in Nat /\ Cardinality(a) = Cardinality(a)
    BY FS_CardinalityType, LenProperties, CCardinality
  <1>3. n \in Nat /\ n <= Len(w) /\ Cardinality(a) + n <= MaxConcurrent
    BY <1>2 DEF ClientConstants
  <1>4. \A i \in 1..n : w[i] \in P /\ out[i].id = id'[w[i]] /\ out[i].req = w[i]
    OBVIOUS
  <1> HIDE DEF n, room
  <1>5. /\ waiting' \in Seq(Requests) /\ P \subseteq Requests /\ Elems(w) = P \cup Elems(waiting')
        /\ Injective(waiting') /\ P \cap Elems(waiting') = {}
    <2>1. waiting' = SubSeq(w, n + 1, Len(w)) /\ P = First(w, n)
      BY <1>1 DEF First
    <2> HIDE DEF P
    <2>2. SuffixOf(Requests, w, n, waiting')
      BY <1>3, <2>1, ElemsSuffix
    <2> QED
      BY <2>1, <2>2 DEF SuffixOf
  <1>6. IsFiniteSet(P) /\ Cardinality(P) <= n /\ Cardinality(P) \in Nat
    BY <1>3, PrefixSize
  <1>7. \A r \in P \ Untimed : kRequestTimeout + id'[r] \in timeouts'
    <2> SUFFICES ASSUME NEW i \in 1..n, w[i] \notin Untimed
                 PROVE  kRequestTimeout + id'[w[i]] \in timeouts'
      OBVIOUS
    <2> HIDE DEF out, P
    <2>1. out[i].req \in Requests \ Untimed
      BY <1>4, <1>5
    <2>2. kRequestTimeout + out[i].id \in timeouts'
      BY <1>1, <2>1
    <2> QED
      BY <1>4, <2>2
  <1> HIDE DEF P, out
  <1>8. IsFiniteSet(active') /\ Cardinality(active') <= MaxConcurrent
    <2>1. /\ IsFiniteSet(a \cup P)
          /\ Cardinality(a \cup P) = Cardinality(a) + Cardinality(P) - Cardinality(a \cap P)
      BY <1>6, FS_Union
    <2>2. IsFiniteSet(a \cap P) /\ Cardinality(a \cap P) \in Nat
      <3>1. a \cap P \in SUBSET a
        OBVIOUS
      <3>2. IsFiniteSet(a \cap P)
        BY <3>1, FS_Subset
      <3> QED
        BY <3>2, FS_CardinalityType
    <2> DEFINE x == Cardinality(a)
               y == Cardinality(P)
               z == Cardinality(a \cap P)
               u == Cardinality(a \cup P)
    <2>3. x \in Nat /\ y \in Nat /\ z \in Nat /\ u = x + y - z /\ x + n <= MaxConcurrent /\ y <= n
      BY <1>2, <1>3, <1>6, <2>1, <2>2
    <2>4. u <= MaxConcurrent
      <3> HIDE DEF x, y, z, u
      <3> QED
        BY <1>3, <2>3 DEF ClientConstants
    <2> QED
      BY <1>1, <2>1, <2>4
  <1> QED
    BY <1>1, <1>5, <1>7, <1>8

\* The invariant, from its parts in the next state.
LEMMA CInvNext ==
    ASSUME crtId' \in Nat \ {0}, id' \in [Requests -> Nat],
           waiting' \in Seq(Requests), posted' \in Seq(Requests),
           active' \in SUBSET Requests, IsFiniteSet(active'),
           sent' \in [Requests -> Nat], ran' \in [Requests -> Nat],
           \A r \in Requests : id'[r] < crtId',
           \A r, s \in Requests : id'[r] = id'[s] /\ id'[r] # 0 => r = s,
           \A r \in active' \cup Elems(waiting') : id'[r] # 0,
           Injective(waiting'), Injective(posted'),
           active' \cap Elems(waiting') = {},
           (active' \cup Elems(waiting')) \cap Elems(posted') = {},
           callbacks' = active' \cup Elems(waiting'),
           \A r \in Requests :
              sent'[r] = IF r \in callbacks' \cup Elems(posted') THEN ran'[r] + 1 ELSE ran'[r],
           Cardinality(active') <= MaxConcurrent,
           \A r \in active' \ Untimed : kRequestTimeout + id'[r] \in timeouts',
           conn' = "closed" => callbacks' = {} /\ timeouts' = {}
    PROVE  CInv'
  <1>1. CTyped'
    BY DEF CTyped
  <1>2. CIds'
    BY DEF CIds, Elems
  <1>3. CPlaces'
    BY DEF CPlaces, Elems, Injective
  <1>4. CTimed'
    BY DEF CTimed, kRequestTimeout
  <1> QED
    BY <1>1, <1>2, <1>3, <1>4 DEF CInv


\* The parts of the invariant, and the counts of a request.
LEMMA CParts ==
    ASSUME CInv
    PROVE  /\ crtId \in Nat \ {0} /\ id \in [Requests -> Nat]
           /\ waiting \in Seq(Requests) /\ posted \in Seq(Requests)
           /\ active \in SUBSET Requests /\ IsFiniteSet(active)
           /\ sent \in [Requests -> Nat] /\ ran \in [Requests -> Nat]
           /\ \A r \in Requests : id[r] < crtId
           /\ \A r, s \in Requests : id[r] = id[s] /\ id[r] # 0 => r = s
           /\ \A r \in active \cup Elems(waiting) : id[r] # 0
           /\ Injective(waiting) /\ Injective(posted)
           /\ active \cap Elems(waiting) = {}
           /\ (active \cup Elems(waiting)) \cap Elems(posted) = {}
           /\ callbacks = active \cup Elems(waiting)
           /\ \A r \in Requests :
                sent[r] = IF r \in callbacks \cup Elems(posted) THEN ran[r] + 1 ELSE ran[r]
           /\ Cardinality(active) <= MaxConcurrent
           /\ \A r \in active \ Untimed : kRequestTimeout + id[r] \in timeouts
           /\ conn = "closed" => callbacks = {} /\ timeouts = {}
           /\ Elems(waiting) \subseteq Requests /\ Elems(posted) \subseteq Requests
  <1>1. CTyped /\ CIds /\ CPlaces /\ CTimed
    BY DEF CInv
  <1>2. waiting \in Seq(Requests) /\ posted \in Seq(Requests)
    BY <1>1 DEF CTyped
  <1>3. Elems(waiting) \subseteq Requests /\ Elems(posted) \subseteq Requests
    BY <1>2 DEF Elems
  <1>4. CTyped
    BY <1>1
  <1>5. CIds
    BY <1>1
  <1>6. CPlaces
    BY <1>1
  <1>7. CTimed
    BY <1>1
  <1>8. /\ crtId \in Nat \ {0} /\ id \in [Requests -> Nat]
        /\ active \in SUBSET Requests /\ IsFiniteSet(active)
        /\ sent \in [Requests -> Nat] /\ ran \in [Requests -> Nat]
    BY <1>4 DEF CTyped
  <1>9. /\ \A r \in Requests : id[r] < crtId
        /\ \A r, s \in Requests : id[r] = id[s] /\ id[r] # 0 => r = s
        /\ \A r \in active \cup Elems(waiting) : id[r] # 0
    BY <1>5 DEF CIds
  <1>10. /\ Injective(waiting) /\ Injective(posted)
         /\ active \cap Elems(waiting) = {}
         /\ (active \cup Elems(waiting)) \cap Elems(posted) = {}
         /\ callbacks = active \cup Elems(waiting)
         /\ \A r \in Requests :
              sent[r] = IF r \in callbacks \cup Elems(posted) THEN ran[r] + 1 ELSE ran[r]
         /\ Cardinality(active) <= MaxConcurrent
    BY <1>6, Zenon DEF CPlaces
  <1>11. /\ \A r \in active \ Untimed : kRequestTimeout + id[r] \in timeouts
         /\ conn = "closed" => callbacks = {} /\ timeouts = {}
    BY <1>7 DEF CTimed
  <1> QED
    BY <1>2, <1>3, <1>8, <1>9, <1>10, <1>11

\* Nothing in the lists, as after the connection's end.
LEMMA Emptied ==
    ASSUME NEW w, w = <<>>, NEW a, a = {}
    PROVE  /\ w \in Seq(Requests) /\ Injective(w) /\ Elems(w) = {}
           /\ IsFiniteSet(a) /\ Cardinality(a) = 0
  BY FS_EmptySet DEF Injective, Elems

\* The connection ends: whatever was active or waiting is completed.
LEMMA CClosed ==
    ASSUME ClientConstants, CInv, NEW err, NEW a, NEW m, NEW e,
           Closed(err, waiting, a, m, e), m \cup a = active,
           UNCHANGED <<crtId, id, posted, sent>>
    PROVE  CInv'
  <1>1. CTyped /\ CIds /\ CPlaces /\ CTimed
    BY DEF CInv
  <1>2. /\ conn' = "closed" /\ waiting' = <<>> /\ active' = {} /\ callbacks' = {} /\ timeouts' = {}
        /\ ran' = [r \in Requests |-> IF r \in m \cup a \cup Elems(waiting)
                                      THEN ran[r] + 1 ELSE ran[r]]
    BY DEF Closed, RunCallbacks, Elems
  <1>3. /\ waiting' \in Seq(Requests) /\ Injective(waiting') /\ Elems(waiting') = {}
        /\ IsFiniteSet(active') /\ Cardinality(active') = 0
    BY <1>2, Emptied
  <1>4. /\ crtId' \in Nat \ {0} /\ id' \in [Requests -> Nat] /\ posted' \in Seq(Requests)
        /\ sent' \in [Requests -> Nat] /\ ran \in [Requests -> Nat]
        /\ \A r \in Requests : id'[r] < crtId'
        /\ \A r, s \in Requests : id'[r] = id'[s] /\ id'[r] # 0 => r = s
        /\ Injective(posted')
    BY CParts
  <1>5. ran' \in [Requests -> Nat]
    BY <1>2, <1>4
  <1>6. ASSUME NEW r \in Requests
        PROVE  sent'[r] = IF r \in callbacks' \cup Elems(posted') THEN ran'[r] + 1 ELSE ran'[r]
    <2>1. /\ sent[r] = IF r \in callbacks \cup Elems(posted) THEN ran[r] + 1 ELSE ran[r]
          /\ callbacks = active \cup Elems(waiting)
          /\ (active \cup Elems(waiting)) \cap Elems(posted) = {}
      BY CParts
    <2>2. /\ ran'[r] = IF r \in callbacks THEN ran[r] + 1 ELSE ran[r]
      BY <1>2, <2>1
    <2>3. sent'[r] = sent[r] /\ Elems(posted') = Elems(posted) /\ callbacks' = {}
      BY <1>2
    <2>4. ~ (r \in callbacks /\ r \in Elems(posted))
      BY <2>1
    <2> QED
      BY <2>1, <2>2, <2>3, <2>4
  <1>7. 0 <= MaxConcurrent
    BY DEF ClientConstants
  <1> QED
    BY <1>2, <1>3, <1>4, <1>5, <1>6, <1>7, CInvNext

\* RunPosted.
LEMMA CRunPosted ==
    ASSUME ClientConstants, CInv, RunPosted
    PROVE  CInv'
  <1>1. /\ posted # <<>> /\ posted' = Tail(posted)
        /\ ran' = [q \in Requests |-> IF q \in {Head(posted)} THEN ran[q] + 1 ELSE ran[q]]
        /\ UNCHANGED <<conn, crtId, id, waiting, active, callbacks, timeouts, sent>>
    BY DEF RunPosted, RunCallbacks
  <1>2. /\ posted \in Seq(Requests) /\ Injective(posted)
        /\ (active \cup Elems(waiting)) \cap Elems(posted) = {}
        /\ callbacks = active \cup Elems(waiting) /\ ran \in [Requests -> Nat]
    BY CParts
  <1> DEFINE h == Head(posted)
  <1>3. /\ posted' \in Seq(Requests) /\ h \in Requests /\ Elems(posted) = Elems(posted') \cup {h}
        /\ Injective(posted') /\ h \notin Elems(posted')
    BY <1>1, <1>2, ElemsTail
  <1>4. ran' \in [Requests -> Nat]
    BY <1>1, <1>2
  <1>5. ASSUME NEW r \in Requests
        PROVE  sent'[r] = IF r \in callbacks' \cup Elems(posted') THEN ran'[r] + 1 ELSE ran'[r]
    <2>1. sent[r] = IF r \in callbacks \cup Elems(posted) THEN ran[r] + 1 ELSE ran[r]
      BY CParts
    <2>2. ran'[r] = IF r = h THEN ran[r] + 1 ELSE ran[r]
      BY <1>1
    <2> HIDE DEF h
    <2>3. r \in callbacks \cup Elems(posted) <=> r \in callbacks' \cup Elems(posted') \/ r = h
      BY <1>1, <1>3
    <2>4. r = h => r \notin callbacks' \cup Elems(posted')
      BY <1>1, <1>2, <1>3
    <2> QED
      BY <1>1, <2>1, <2>2, <2>3, <2>4
  <1>6. (active' \cup Elems(waiting')) \cap Elems(posted') = {}
    BY <1>1, <1>2, <1>3
  <1>7. /\ crtId' \in Nat \ {0} /\ id' \in [Requests -> Nat]
        /\ waiting' \in Seq(Requests) /\ active' \in SUBSET Requests /\ IsFiniteSet(active')
        /\ sent' \in [Requests -> Nat]
        /\ \A r \in Requests : id'[r] < crtId'
        /\ \A r, s \in Requests : id'[r] = id'[s] /\ id'[r] # 0 => r = s
        /\ \A r \in active' \cup Elems(waiting') : id'[r] # 0
        /\ Injective(waiting') /\ active' \cap Elems(waiting') = {}
        /\ callbacks' = active' \cup Elems(waiting') /\ Cardinality(active') <= MaxConcurrent
        /\ \A r \in active' \ Untimed : kRequestTimeout + id'[r] \in timeouts'
        /\ conn' = "closed" => callbacks' = {} /\ timeouts' = {}
    BY <1>1, CParts
  <1> QED
    BY <1>3, <1>4, <1>5, <1>6, <1>7, CInvNext


\* A handler that ends with WriteRequestsToServer.
LEMMA CWrites ==
    ASSUME ClientConstants, NEW w \in Seq(Requests), NEW a \in SUBSET Requests, NEW t,
           WriteRequestsToServer(w, a, t),
           Injective(w), IsFiniteSet(a), Cardinality(a) <= MaxConcurrent, a \cap Elems(w) = {},
           crtId' \in Nat \ {0}, id' \in [Requests -> Nat], posted' \in Seq(Requests),
           sent' \in [Requests -> Nat], ran' \in [Requests -> Nat],
           \A r \in Requests : id'[r] < crtId',
           \A r, s \in Requests : id'[r] = id'[s] /\ id'[r] # 0 => r = s,
           \A r \in a \cup Elems(w) : id'[r] # 0,
           Injective(posted'), (a \cup Elems(w)) \cap Elems(posted') = {},
           callbacks' = a \cup Elems(w),
           \A r \in Requests :
              sent'[r] = IF r \in callbacks' \cup Elems(posted') THEN ran'[r] + 1 ELSE ran'[r],
           \A r \in a \ Untimed : kRequestTimeout + id'[r] \in t,
           conn' # "closed"
    PROVE  CInv'
  <1>1. /\ waiting' \in Seq(Requests) /\ Injective(waiting')
        /\ active' \in SUBSET Requests /\ IsFiniteSet(active')
        /\ Cardinality(active') <= MaxConcurrent
        /\ active' \cup Elems(waiting') = a \cup Elems(w)
        /\ active' \cap Elems(waiting') = {}
        /\ t \subseteq timeouts'
        /\ \A r \in active' \ Untimed : r \notin a => kRequestTimeout + id'[r] \in timeouts'
    BY CWriteOut
  <1>2. \A r \in active' \ Untimed : kRequestTimeout + id'[r] \in timeouts'
    <2> SUFFICES ASSUME NEW r \in active' \ Untimed PROVE kRequestTimeout + id'[r] \in timeouts'
      OBVIOUS
    <2>1. CASE r \in a
      <3>1. kRequestTimeout + id'[r] \in t
        BY <2>1
      <3> QED
        BY <1>1, <3>1
    <2> QED
      BY <1>1, <2>1
  <1>3. \A r \in active' \cup Elems(waiting') : id'[r] # 0
    BY <1>1
  <1>4. (active' \cup Elems(waiting')) \cap Elems(posted') = {}
    BY <1>1
  <1>5. callbacks' = active' \cup Elems(waiting')
    BY <1>1
  <1> QED
    BY <1>1, <1>2, <1>3, <1>4, <1>5, CInvNext

\* NotifyConnected.
LEMMA CNotifyConnected ==
    ASSUME ClientConstants, CInv, NotifyConnected
    PROVE  CInv'
  <1> DEFINE t == timeouts \ {kConnectTimeout}
  <1>1. /\ conn' = "connected" /\ UNCHANGED id
        /\ WriteRequestsToServer(waiting, active, t)
        /\ UNCHANGED <<crtId, callbacks, posted, sent, ran>>
    BY DEF NotifyConnected
  <1>2. ASSUME NEW r \in active \ Untimed PROVE kRequestTimeout + id'[r] \in t
    <2>1. kRequestTimeout + id[r] \in timeouts /\ id[r] \in Nat
      BY CParts
    <2> QED
      BY <1>1, <2>1 DEF kRequestTimeout, kConnectTimeout
  <1> HIDE DEF t
  <1>3. /\ waiting \in Seq(Requests) /\ active \in SUBSET Requests
        /\ Injective(waiting) /\ IsFiniteSet(active) /\ Cardinality(active) <= MaxConcurrent
        /\ active \cap Elems(waiting) = {}
        /\ crtId' \in Nat \ {0} /\ id' \in [Requests -> Nat] /\ posted' \in Seq(Requests)
        /\ sent' \in [Requests -> Nat] /\ ran' \in [Requests -> Nat]
        /\ \A r \in Requests : id'[r] < crtId'
        /\ \A r, s \in Requests : id'[r] = id'[s] /\ id'[r] # 0 => r = s
        /\ \A r \in active \cup Elems(waiting) : id'[r] # 0
        /\ Injective(posted') /\ (active \cup Elems(waiting)) \cap Elems(posted') = {}
        /\ callbacks' = active \cup Elems(waiting)
        /\ \A r \in Requests :
             sent'[r] = IF r \in callbacks' \cup Elems(posted') THEN ran'[r] + 1 ELSE ran'[r]
        /\ conn' # "closed"
    BY <1>1, CParts
  <1> QED
    BY <1>1, <1>2, <1>3, CWrites

\* NotifyConnectionWrite, and steps that leave the client alone.
LEMMA CNotifyConnectionWrite ==
    ASSUME ClientConstants, CInv, conn' = "closed" => conn = "closed",
           UNCHANGED <<crtId, id, waiting, active, callbacks, posted, sent, ran>>,
           \/ timeouts' = timeouts
           \/ conn # "closed" /\ timeouts' = timeouts \ {kWriteTimeout}
           \/ conn # "closed" /\ timeouts' = timeouts \cup {kWriteTimeout}
    PROVE  CInv'
  <1>1. \A r \in active' \ Untimed : kRequestTimeout + id'[r] \in timeouts'
    <2> SUFFICES ASSUME NEW r \in active' \ Untimed PROVE kRequestTimeout + id'[r] \in timeouts'
      OBVIOUS
    <2>1. kRequestTimeout + id[r] \in timeouts /\ id[r] \in Nat
      BY CParts
    <2> QED
      BY <2>1 DEF kRequestTimeout, kWriteTimeout
  <1>2. conn' = "closed" => callbacks' = {} /\ timeouts' = {}
    BY CParts
  <1>3. /\ crtId' \in Nat \ {0} /\ id' \in [Requests -> Nat]
        /\ waiting' \in Seq(Requests) /\ posted' \in Seq(Requests)
        /\ active' \in SUBSET Requests /\ IsFiniteSet(active')
        /\ sent' \in [Requests -> Nat] /\ ran' \in [Requests -> Nat]
        /\ \A r \in Requests : id'[r] < crtId'
        /\ \A r, s \in Requests : id'[r] = id'[s] /\ id'[r] # 0 => r = s
        /\ \A r \in active' \cup Elems(waiting') : id'[r] # 0
        /\ Injective(waiting') /\ Injective(posted') /\ active' \cap Elems(waiting') = {}
        /\ (active' \cup Elems(waiting')) \cap Elems(posted') = {}
        /\ callbacks' = active' \cup Elems(waiting') /\ Cardinality(active') <= MaxConcurrent
        /\ \A r \in Requests :
             sent'[r] = IF r \in callbacks' \cup Elems(posted') THEN ran'[r] + 1 ELSE ran'[r]
    BY CParts
  <1> QED
    BY <1>1, <1>2, <1>3, CInvNext

\* HandleTimeoutEvent.
LEMMA CHandleTimeout ==
    ASSUME ClientConstants, CInv, NEW t, HandleTimeout(t)
    PROVE  CInv'
  <1>1. /\ t \in timeouts /\ UNCHANGED <<crtId, id, posted, sent>>
        /\ \/ Closed("timeout", waiting, active, {}, "none")
           \/ /\ t >= kRequestTimeout
              /\ active' = active \ {r \in active : kRequestTimeout + id[r] = t}
              /\ callbacks' = callbacks \ {r \in active : kRequestTimeout + id[r] = t}
              /\ ran' = [q \in Requests |-> IF q \in {r \in active : kRequestTimeout + id[r] = t}
                                            THEN ran[q] + 1 ELSE ran[q]]
              /\ timeouts' = timeouts \ {t}
              /\ UNCHANGED <<conn, waiting>>
    BY DEF HandleTimeout, TimeoutFires, RunCallbacks
  <1>2. CASE Closed("timeout", waiting, active, {}, "none")
    <2> DEFINE m == {}
    <2>1. m \cup active = active /\ Closed("timeout", waiting, active, m, "none")
      BY <1>2
    <2> HIDE DEF m
    <2> QED
      BY <1>1, <2>1, CClosed
  <1> DEFINE mine == {r \in active : kRequestTimeout + id[r] = t}
  <1>3. CASE /\ active' = active \ mine /\ callbacks' = callbacks \ mine
             /\ ran' = [q \in Requests |-> IF q \in mine THEN ran[q] + 1 ELSE ran[q]]
             /\ timeouts' = timeouts \ {t}
             /\ UNCHANGED <<conn, waiting>>
    <2>1. mine \subseteq active /\ \A r \in active \ mine : kRequestTimeout + id[r] # t
      OBVIOUS
    <2> HIDE DEF mine
    <2>2. /\ active \in SUBSET Requests /\ IsFiniteSet(active) /\ ran \in [Requests -> Nat]
          /\ Cardinality(active) <= MaxConcurrent
          /\ active \cap Elems(waiting) = {} /\ callbacks = active \cup Elems(waiting)
          /\ (active \cup Elems(waiting)) \cap Elems(posted) = {}
      BY CParts
    <2>3. active' \in SUBSET active
      BY <1>3
    <2>4. active' \in SUBSET Requests /\ IsFiniteSet(active') /\ Cardinality(active') <= MaxConcurrent
      <3>1. IsFiniteSet(active') /\ Cardinality(active') <= Cardinality(active)
        BY <2>2, <2>3, FS_Subset
      <3>2. Cardinality(active') \in Nat /\ Cardinality(active) \in Nat
        BY <2>2, <3>1, FS_CardinalityType
      <3> QED
        BY <2>2, <2>3, <3>1, <3>2 DEF ClientConstants
    <2>5. ran' \in [Requests -> Nat]
      BY <1>3, <2>2
    <2>6. callbacks' = active' \cup Elems(waiting') /\ active' \cap Elems(waiting') = {}
          /\ (active' \cup Elems(waiting')) \cap Elems(posted') = {}
      BY <1>1, <1>3, <2>1, <2>2
    <2>7. ASSUME NEW r \in Requests
          PROVE  sent'[r] = IF r \in callbacks' \cup Elems(posted') THEN ran'[r] + 1 ELSE ran'[r]
      <3>1. sent[r] = IF r \in callbacks \cup Elems(posted) THEN ran[r] + 1 ELSE ran[r]
        BY CParts
      <3>2. ran'[r] = IF r \in mine THEN ran[r] + 1 ELSE ran[r]
        BY <1>3
      <3>3. r \in callbacks \cup Elems(posted) <=> r \in callbacks' \cup Elems(posted') \/ r \in mine
        BY <1>1, <1>3, <2>1, <2>2
      <3>4. r \in mine => r \notin callbacks' \cup Elems(posted')
        BY <1>1, <1>3, <2>1, <2>2
      <3> QED
        BY <1>1, <3>1, <3>2, <3>3, <3>4
    <2>8. \A r \in active' \ Untimed : kRequestTimeout + id'[r] \in timeouts'
      <3> SUFFICES ASSUME NEW r \in active' \ Untimed PROVE kRequestTimeout + id'[r] \in timeouts'
        OBVIOUS
      <3>1. r \in active /\ r \notin mine
        BY <1>3
      <3>2. kRequestTimeout + id[r] \in timeouts /\ kRequestTimeout + id[r] # t
        BY <2>1, <3>1, CParts
      <3> QED
        BY <1>1, <1>3, <3>2
    <2>9. /\ crtId' \in Nat \ {0} /\ id' \in [Requests -> Nat]
          /\ waiting' \in Seq(Requests) /\ posted' \in Seq(Requests)
          /\ sent' \in [Requests -> Nat]
          /\ \A r \in Requests : id'[r] < crtId'
          /\ \A r, s \in Requests : id'[r] = id'[s] /\ id'[r] # 0 => r = s
          /\ Injective(waiting') /\ Injective(posted')
          /\ conn' = "closed" => callbacks' = {} /\ timeouts' = {}
      BY <1>1, <1>3, CParts
    <2>10. \A r \in active' \cup Elems(waiting') : id'[r] # 0
      BY <1>1, <1>3, <2>3, CParts
    <2> QED
      BY <2>4, <2>5, <2>6, <2>7, <2>8, <2>9, <2>10, CInvNext
  <1> QED
    BY <1>1, <1>2, <1>3


\* SendRequest gives the request an id that no other has, unless the connection
\* is dead.
CNewId(r) ==
    /\ crtId' \in Nat \ {0} /\ id' \in [Requests -> Nat] /\ id'[r] = crtId
    /\ \A q \in Requests : q # r => id'[q] = id[q]
    /\ \A q \in Requests : id'[q] < crtId'
    /\ \A q, s \in Requests : id'[q] = id'[s] /\ id'[q] # 0 => q = s
    /\ id'[r] # 0
    /\ sent' \in [Requests -> Nat] /\ sent'[r] = sent[r] + 1
    /\ \A q \in Requests : q # r => sent'[q] = sent[q]
    /\ r \notin callbacks \cup Elems(posted) /\ sent[r] = ran[r]

\* The id is new, and the request was nowhere.
LEMMA CSendIds ==
    ASSUME CInv, NEW r \in Requests, SendRequest(r), conn # "closed"
    PROVE  CNewId(r)
  <1>1. /\ crtId \in Nat \ {0} /\ id \in [Requests -> Nat]
        /\ sent \in [Requests -> Nat] /\ ran \in [Requests -> Nat]
        /\ \A q \in Requests : id[q] < crtId
        /\ \A q, s \in Requests : id[q] = id[s] /\ id[q] # 0 => q = s
        /\ sent[r] = IF r \in callbacks \cup Elems(posted) THEN ran[r] + 1 ELSE ran[r]
    BY CParts
  <1>2. /\ ~ (sent[r] > ran[r])
        /\ sent' = [sent EXCEPT ![r] = @ + 1]
        /\ id' = [id EXCEPT ![r] = crtId] /\ crtId' = crtId + 1
    BY DEF SendRequest, MaySend, Outstanding
  <1>3. r \notin callbacks \cup Elems(posted) /\ sent[r] = ran[r]
    BY <1>1, <1>2
  <1>4. /\ sent' \in [Requests -> Nat] /\ sent'[r] = sent[r] + 1
        /\ \A q \in Requests : q # r => sent'[q] = sent[q]
    BY <1>1, <1>2
  <1>5. /\ crtId' \in Nat \ {0} /\ id' \in [Requests -> Nat] /\ id'[r] = crtId
        /\ \A q \in Requests : q # r => id'[q] = id[q]
        /\ id'[r] # 0
    BY <1>1, <1>2
  <1>6. \A q \in Requests : id[q] < crtId /\ id[q] \in Nat
    BY <1>1
  <1>7. \A q \in Requests : id'[q] < crtId'
    <2> SUFFICES ASSUME NEW q \in Requests PROVE id'[q] < crtId'
      OBVIOUS
    <2>1. CASE q = r
      BY <1>1, <1>2, <1>5, <2>1
    <2>2. CASE q # r
      <3>1. id'[q] = id[q] /\ id[q] < crtId /\ id[q] \in Nat /\ crtId' = crtId + 1 /\ crtId \in Nat
        BY <1>1, <1>2, <1>5, <1>6, <2>2
      <3> QED
        BY <3>1
    <2> QED
      BY <2>1, <2>2
  <1>8. ASSUME NEW q \in Requests, NEW s \in Requests, id'[q] = id'[s], id'[q] # 0
        PROVE  q = s
    <2>1. CASE q = r /\ s # r
      <3>1. id[s] = crtId /\ id[s] < crtId /\ id[s] \in Nat
        BY <1>5, <1>6, <1>8, <2>1
      <3> QED
        BY <3>1
    <2>2. CASE q # r /\ s = r
      <3>1. id[q] = crtId /\ id[q] < crtId /\ id[q] \in Nat
        BY <1>5, <1>6, <1>8, <2>2
      <3> QED
        BY <3>1
    <2>3. CASE q # r /\ s # r
      <3>1. id[q] = id[s] /\ id[q] # 0
        BY <1>5, <1>8, <2>3
      <3> QED
        BY <1>1, <3>1
    <2> QED
      BY <2>1, <2>2, <2>3
  <1> QED
    BY <1>3, <1>4, <1>5, <1>7, <1>8 DEF CNewId

\* SendRequest.
LEMMA CSendRequest ==
    ASSUME ClientConstants, CInv, NEW r \in Requests, SendRequest(r)
    PROVE  CInv'
  <1>1. /\ crtId \in Nat \ {0} /\ id \in [Requests -> Nat]
        /\ waiting \in Seq(Requests) /\ posted \in Seq(Requests)
        /\ active \in SUBSET Requests /\ IsFiniteSet(active)
        /\ sent \in [Requests -> Nat] /\ ran \in [Requests -> Nat]
        /\ \A q \in active \cup Elems(waiting) : id[q] # 0
        /\ Injective(waiting) /\ Injective(posted) /\ active \cap Elems(waiting) = {}
        /\ (active \cup Elems(waiting)) \cap Elems(posted) = {}
        /\ callbacks = active \cup Elems(waiting)
        /\ Cardinality(active) <= MaxConcurrent
        /\ Elems(waiting) \subseteq Requests /\ Elems(posted) \subseteq Requests
    BY CParts
  <1>2. \A q \in Requests :
           sent[q] = IF q \in callbacks \cup Elems(posted) THEN ran[q] + 1 ELSE ran[q]
    BY CParts
  <1>3. CASE conn = "closed"
    <2>1. /\ sent' = [sent EXCEPT ![r] = @ + 1]
          /\ ran' = [q \in Requests |-> IF q \in {r} THEN ran[q] + 1 ELSE ran[q]]
          /\ UNCHANGED <<conn, crtId, id, waiting, active, callbacks, timeouts, posted>>
      BY <1>3 DEF SendRequest, RunCallbacks
    <2>2. sent' \in [Requests -> Nat] /\ ran' \in [Requests -> Nat]
      BY <1>1, <2>1
    <2>3. ASSUME NEW q \in Requests
          PROVE  sent'[q] = IF q \in callbacks' \cup Elems(posted') THEN ran'[q] + 1 ELSE ran'[q]
      <3>1. sent[q] = IF q \in callbacks \cup Elems(posted) THEN ran[q] + 1 ELSE ran[q]
        BY <1>2
      <3>2. /\ sent'[q] = IF q = r THEN sent[q] + 1 ELSE sent[q]
            /\ ran'[q] = IF q = r THEN ran[q] + 1 ELSE ran[q]
            /\ ran[q] \in Nat
        BY <1>1, <2>1
      <3> QED
        BY <2>1, <3>1, <3>2
    <2>4. /\ \A q \in Requests : id'[q] < crtId'
          /\ \A q, s \in Requests : id'[q] = id'[s] /\ id'[q] # 0 => q = s
          /\ \A q \in active' \ Untimed : kRequestTimeout + id'[q] \in timeouts'
          /\ conn' = "closed" => callbacks' = {} /\ timeouts' = {}
      BY <2>1, CParts
    <2>5. /\ crtId' \in Nat \ {0} /\ id' \in [Requests -> Nat]
          /\ waiting' \in Seq(Requests) /\ posted' \in Seq(Requests)
          /\ active' \in SUBSET Requests /\ IsFiniteSet(active')
          /\ \A q \in active' \cup Elems(waiting') : id'[q] # 0
          /\ Injective(waiting') /\ Injective(posted') /\ active' \cap Elems(waiting') = {}
          /\ (active' \cup Elems(waiting')) \cap Elems(posted') = {}
          /\ callbacks' = active' \cup Elems(waiting')
          /\ Cardinality(active') <= MaxConcurrent
      BY <1>1, <2>1
    <2> QED
      BY <2>2, <2>3, <2>4, <2>5, CInvNext
  <1>4. CASE conn # "closed"
    <2>1. CNewId(r)
      BY <1>4, CSendIds
    <2>2. /\ crtId' \in Nat \ {0} /\ id' \in [Requests -> Nat]
          /\ \A q \in Requests : q # r => id'[q] = id[q]
          /\ \A q \in Requests : id'[q] < crtId'
          /\ \A q, s \in Requests : id'[q] = id'[s] /\ id'[q] # 0 => q = s
          /\ id'[r] # 0
          /\ sent' \in [Requests -> Nat] /\ sent'[r] = sent[r] + 1
          /\ \A q \in Requests : q # r => sent'[q] = sent[q]
          /\ r \notin callbacks \cup Elems(posted) /\ sent[r] = ran[r]
      BY <2>1 DEF CNewId
    <2>3. \A q \in active \cup Elems(waiting) \cup {r} : id'[q] # 0
      BY <1>1, <2>2
    <2>4. ASSUME NEW q \in active \ Untimed PROVE kRequestTimeout + id'[q] \in timeouts
      <3>1. q # r /\ q \in Requests
        BY <1>1, <2>2
      <3>2. kRequestTimeout + id[q] \in timeouts
        BY CParts
      <3> QED
        BY <2>2, <3>1, <3>2
    <2> DEFINE w == Append(waiting, r)
    <2>5. /\ w \in Seq(Requests) /\ Elems(w) = Elems(waiting) \cup {r} /\ Injective(w)
      <3>1. w = Append(waiting, r)
        OBVIOUS
      <3> HIDE DEF w
      <3>2. MoreBy(Requests, waiting, r, w)
        BY <1>1, <3>1, ElemsAppend
      <3> QED
        BY <1>1, <2>2, <3>2 DEF MoreBy
    <2>6. active \cap Elems(w) = {} /\ (active \cup Elems(w)) \cap Elems(posted) = {}
          /\ callbacks \cup {r} = active \cup Elems(w)
      BY <1>1, <2>2, <2>5
    <2>7. CASE /\ posted' = Append(posted, r)
               /\ UNCHANGED <<conn, waiting, active, callbacks, timeouts, ran>>
      <3>1. posted' \in Seq(Requests) /\ Elems(posted') = Elems(posted) \cup {r} /\ Injective(posted')
        <4>1. /\ posted \in Seq(Requests) /\ posted' = Append(posted, r)
              /\ Injective(posted) /\ r \notin Elems(posted)
          BY <1>1, <2>2, <2>7
        <4> HIDE DEF w
        <4>2. MoreBy(Requests, posted, r, posted')
          BY <4>1, ElemsAppend
        <4> QED
          BY <4>1, <4>2 DEF MoreBy
      <3>2. ASSUME NEW q \in Requests
            PROVE  sent'[q] = IF q \in callbacks' \cup Elems(posted') THEN ran'[q] + 1 ELSE ran'[q]
        <4>1. sent[q] = IF q \in callbacks \cup Elems(posted) THEN ran[q] + 1 ELSE ran[q]
          BY <1>2
        <4>2. q \in callbacks' \cup Elems(posted') <=> q \in callbacks \cup Elems(posted) \/ q = r
          BY <2>7, <3>1
        <4>3. ran'[q] = ran[q] /\ sent'[q] = (IF q = r THEN sent[q] + 1 ELSE sent[q])
          BY <2>2, <2>7
        <4> QED
          BY <2>2, <4>1, <4>2, <4>3
      <3>3. /\ waiting' \in Seq(Requests)
            /\ active' \in SUBSET Requests /\ IsFiniteSet(active')
            /\ ran' \in [Requests -> Nat]
            /\ \A q \in active' \cup Elems(waiting') : id'[q] # 0
            /\ Injective(waiting') /\ active' \cap Elems(waiting') = {}
            /\ (active' \cup Elems(waiting')) \cap Elems(posted') = {}
            /\ callbacks' = active' \cup Elems(waiting')
            /\ Cardinality(active') <= MaxConcurrent
            /\ \A q \in active' \ Untimed : kRequestTimeout + id'[q] \in timeouts'
            /\ conn' = "closed" => callbacks' = {} /\ timeouts' = {}
        <4> HIDE DEF w
        <4>1. /\ waiting' = waiting /\ active' = active /\ callbacks' = callbacks
              /\ timeouts' = timeouts /\ ran' = ran /\ conn' = conn
          BY <2>7
        <4>2. \A q \in active' \cup Elems(waiting') : id'[q] # 0
          BY <2>3, <4>1
        <4>3. (active' \cup Elems(waiting')) \cap Elems(posted') = {}
          BY <1>1, <2>2, <3>1, <4>1
        <4> QED
          BY <1>1, <1>4, <2>4, <4>1, <4>2, <4>3
      <3> QED
        BY <2>2, <3>1, <3>2, <3>3, CInvNext
    <2>8. CASE /\ conn' \in {"resolving", "connecting"} /\ timeouts' = timeouts \cup {kConnectTimeout}
               /\ waiting' = w /\ callbacks' = callbacks \cup {r}
               /\ UNCHANGED <<posted, active, ran>>
      <3>1. ASSUME NEW q \in Requests
            PROVE  sent'[q] = IF q \in callbacks' \cup Elems(posted') THEN ran'[q] + 1 ELSE ran'[q]
        <4> HIDE DEF w
        <4> QED
          BY <1>2, <2>2, <2>8
      <3> HIDE DEF w
      <3>2. /\ waiting' \in Seq(Requests) /\ posted' \in Seq(Requests)
            /\ active' \in SUBSET Requests /\ IsFiniteSet(active')
            /\ ran' \in [Requests -> Nat]
            /\ \A q \in active' \cup Elems(waiting') : id'[q] # 0
            /\ Injective(waiting') /\ Injective(posted') /\ active' \cap Elems(waiting') = {}
            /\ (active' \cup Elems(waiting')) \cap Elems(posted') = {}
            /\ callbacks' = active' \cup Elems(waiting')
            /\ Cardinality(active') <= MaxConcurrent
            /\ \A q \in active' \ Untimed : kRequestTimeout + id'[q] \in timeouts'
            /\ conn' = "closed" => callbacks' = {} /\ timeouts' = {}
        BY <1>1, <2>3, <2>4, <2>5, <2>6, <2>8
      <3> QED
        BY <2>2, <3>1, <3>2, CInvNext
    <2>9. CASE Closed(connError, w, active, {}, "none") /\ UNCHANGED posted
      <3>1. /\ conn' = "closed" /\ waiting' = <<>> /\ active' = {} /\ callbacks' = {} /\ timeouts' = {}
            /\ ran' = [q \in Requests |-> IF q \in {} \cup active \cup Elems(w)
                                          THEN ran[q] + 1 ELSE ran[q]]
        BY <2>9 DEF Closed, RunCallbacks, Elems
      <3> HIDE DEF w
      <3>2. /\ waiting' \in Seq(Requests) /\ Injective(waiting') /\ Elems(waiting') = {}
            /\ IsFiniteSet(active') /\ Cardinality(active') = 0
        BY <3>1, Emptied
      <3>3. ran' \in [Requests -> Nat]
        BY <1>1, <3>1
      <3>4. ASSUME NEW q \in Requests
            PROVE  sent'[q] = IF q \in callbacks' \cup Elems(posted') THEN ran'[q] + 1 ELSE ran'[q]
        <4>1. sent[q] = IF q \in callbacks \cup Elems(posted) THEN ran[q] + 1 ELSE ran[q]
          BY <1>2
        <4>2. ran'[q] = IF q \in callbacks \/ q = r THEN ran[q] + 1 ELSE ran[q]
          BY <2>6, <3>1
        <4>3. sent'[q] = IF q = r THEN sent[q] + 1 ELSE sent[q]
          BY <2>2
        <4>4. q \in callbacks' \cup Elems(posted') <=> q \in Elems(posted)
          BY <2>9, <3>1
        <4>5. ~ (q \in callbacks /\ q \in Elems(posted)) /\ (q = r => q \notin callbacks \cup Elems(posted))
          BY <1>1, <2>2
        <4> QED
          BY <4>1, <4>2, <4>3, <4>4, <4>5
      <3>5. 0 <= MaxConcurrent
        BY DEF ClientConstants
      <3>6. posted' \in Seq(Requests) /\ Injective(posted')
        BY <1>1, <2>9
      <3> QED
        BY <2>2, <3>1, <3>2, <3>3, <3>4, <3>5, <3>6, CInvNext
    <2>10. CASE /\ WriteRequestsToServer(w, active, timeouts)
                /\ callbacks' = callbacks \cup {r}
                /\ UNCHANGED <<conn, ran, posted>>
      <3> HIDE DEF w
      <3>1. ASSUME NEW q \in Requests
            PROVE  sent'[q] = IF q \in callbacks' \cup Elems(posted') THEN ran'[q] + 1 ELSE ran'[q]
        BY <1>2, <2>2, <2>10
      <3>2. /\ \A q \in active \cup Elems(w) : id'[q] # 0
            /\ Injective(posted') /\ (active \cup Elems(w)) \cap Elems(posted') = {}
            /\ callbacks' = active \cup Elems(w) /\ conn' # "closed"
            /\ posted' \in Seq(Requests) /\ ran' \in [Requests -> Nat]
        BY <1>1, <1>4, <2>3, <2>5, <2>6, <2>10
      <3> QED
        BY <1>1, <2>2, <2>4, <2>5, <2>6, <2>10, <3>1, <3>2, CWrites
    <2> QED
      BY <1>4, <2>7, <2>8, <2>9, <2>10 DEF SendRequest
  <1> QED
    BY <1>3, <1>4


\* NotifyConnectionRead, whichever request the reply is given to.
LEMMA CNotifyConnectionRead ==
    ASSUME ClientConstants, CInv, NotifyConnectionRead
    PROVE  CInv'
  <1> DEFINE p(n) == Parse(inbuf \o SubSeq(wire, 1, n))
             m(n) == IF p(n).req \in Requests THEN {p(n).req} ELSE {}
             a(n) == active \ m(n)
             t(n) == timeouts \ {kRequestTimeout + id[q] : q \in m(n)}
  <1>1. UNCHANGED <<crtId, id, posted, sent>> /\ conn = "connected"
    BY DEF NotifyConnectionRead
  <1>2. PICK n \in 1..Len(wire) :
          \/ UNCHANGED <<conn, waiting, active, callbacks, timeouts, ran>>
          \/ /\ p(n).req \in Requests => p(n).req \in active
             /\ ran' = [q \in Requests |-> IF q \in m(n) THEN ran[q] + 1 ELSE ran[q]]
             /\ callbacks' = callbacks \ m(n) /\ UNCHANGED id
             /\ WriteRequestsToServer(waiting, a(n), t(n))
             /\ UNCHANGED conn
          \/ /\ p(n).req \in Requests => p(n).req \in active
             /\ Closed("dependency", waiting, a(n), m(n), "parsing")
    BY DEF NotifyConnectionRead, RunCallbacks
  <1> DEFINE mine == m(n)
             rest == active \ mine
             left == timeouts \ {kRequestTimeout + id[q] : q \in mine}
  <1>3. CASE UNCHANGED <<conn, waiting, active, callbacks, timeouts, ran>>
    BY <1>1, <1>3, CNotifyConnectionWrite
  <1>4. ASSUME p(n).req \in Requests => p(n).req \in active
        PROVE  mine \subseteq active /\ \A q, s \in mine : q = s
    BY <1>4
  <1>5. CASE /\ p(n).req \in Requests => p(n).req \in active
             /\ Closed("dependency", waiting, rest, mine, "parsing")
    <2>1. mine \cup rest = active
      BY <1>4, <1>5
    <2> HIDE DEF mine, rest
    <2> QED
      BY <1>1, <1>5, <2>1, CClosed
  <1>6. CASE /\ p(n).req \in Requests => p(n).req \in active
             /\ ran' = [q \in Requests |-> IF q \in mine THEN ran[q] + 1 ELSE ran[q]]
             /\ callbacks' = callbacks \ mine
             /\ WriteRequestsToServer(waiting, rest, left)
             /\ UNCHANGED conn
    <2>1. mine \subseteq active
      BY <1>4, <1>6
    <2> HIDE DEF p, m, mine, rest
    <2>2. /\ waiting \in Seq(Requests) /\ active \in SUBSET Requests /\ IsFiniteSet(active)
          /\ Cardinality(active) <= MaxConcurrent /\ Injective(waiting)
          /\ active \cap Elems(waiting) = {} /\ ran \in [Requests -> Nat]
          /\ (active \cup Elems(waiting)) \cap Elems(posted) = {}
          /\ callbacks = active \cup Elems(waiting)
          /\ id \in [Requests -> Nat]
          /\ \A q, s \in Requests : id[q] = id[s] /\ id[q] # 0 => q = s
          /\ \A q \in active \cup Elems(waiting) : id[q] # 0
          /\ \A q \in active \ Untimed : kRequestTimeout + id[q] \in timeouts
      BY CParts
    <2>3. rest \in SUBSET active /\ rest = active \ mine
      BY DEF rest
    <2>4. rest \in SUBSET Requests /\ IsFiniteSet(rest) /\ Cardinality(rest) <= MaxConcurrent
      <3>1. IsFiniteSet(rest) /\ Cardinality(rest) <= Cardinality(active)
        BY <2>2, <2>3, FS_Subset
      <3>2. Cardinality(rest) \in Nat /\ Cardinality(active) \in Nat
        BY <2>2, <3>1, FS_CardinalityType
      <3> QED
        BY <2>2, <2>3, <3>1, <3>2 DEF ClientConstants
    <2>5. ran' \in [Requests -> Nat]
      BY <1>6, <2>2
    <2>6. callbacks' = rest \cup Elems(waiting) /\ rest \cap Elems(waiting) = {}
          /\ (rest \cup Elems(waiting)) \cap Elems(posted') = {}
      BY <1>1, <1>6, <2>1, <2>2, <2>3
    <2>7. ASSUME NEW r \in Requests
          PROVE  sent'[r] = IF r \in callbacks' \cup Elems(posted') THEN ran'[r] + 1 ELSE ran'[r]
      <3>1. sent[r] = IF r \in callbacks \cup Elems(posted) THEN ran[r] + 1 ELSE ran[r]
        BY CParts
      <3>2. ran'[r] = IF r \in mine THEN ran[r] + 1 ELSE ran[r]
        BY <1>6
      <3>3. r \in callbacks \cup Elems(posted) <=> r \in callbacks' \cup Elems(posted') \/ r \in mine
        BY <1>1, <1>6, <2>1, <2>2
      <3>4. r \in mine => r \notin callbacks' \cup Elems(posted')
        BY <1>1, <1>6, <2>1, <2>2
      <3> QED
        BY <1>1, <3>1, <3>2, <3>3, <3>4
    <2>8. ASSUME NEW r \in rest \ Untimed PROVE kRequestTimeout + id'[r] \in left
      <3>1. r \in active /\ r \notin mine /\ kRequestTimeout + id[r] \in timeouts
        BY <2>2, <2>3
      <3>2. ASSUME NEW q \in mine PROVE kRequestTimeout + id[r] # kRequestTimeout + id[q]
        <4>1. q \in Requests /\ r \in Requests /\ q # r /\ id[q] # id[r]
          BY <2>1, <2>2, <3>1
        <4>2. id[q] \in Nat /\ id[r] \in Nat
          BY <2>2, <4>1
        <4> QED
          BY <4>1, <4>2 DEF kRequestTimeout
      <3> QED
        BY <1>1, <3>1, <3>2
    <2> HIDE DEF left
    <2>9. /\ crtId' \in Nat \ {0} /\ id' \in [Requests -> Nat] /\ posted' \in Seq(Requests)
          /\ sent' \in [Requests -> Nat]
          /\ \A r \in Requests : id'[r] < crtId'
          /\ \A r, s \in Requests : id'[r] = id'[s] /\ id'[r] # 0 => r = s
          /\ Injective(posted')
      BY <1>1, CParts
    <2>10. \A r \in rest \cup Elems(waiting) : id'[r] # 0
      BY <1>1, <2>2, <2>3
    <2>11. conn' # "closed"
      BY <1>1, <1>6
    <2> QED
      BY <1>6, <2>2, <2>4, <2>5, <2>6, <2>7, <2>8, <2>9, <2>10, <2>11, CWrites
  <1> QED
    BY <1>2, <1>3, <1>5, <1>6


\* The constructor.
LEMMA CInitInv ==
    ASSUME ClientConstants, Init
    PROVE  CInv
  <1>1. /\ waiting = <<>> /\ posted = <<>> /\ active = {} /\ callbacks = {}
        /\ conn = "disconnected" /\ crtId = 1 /\ id = [r \in Requests |-> 0]
        /\ sent = [r \in Requests |-> 0] /\ ran = [r \in Requests |-> 0]
    BY DEF Init
  <1>2. /\ waiting \in Seq(Requests) /\ Injective(waiting) /\ Elems(waiting) = {}
        /\ IsFiniteSet(active) /\ Cardinality(active) = 0
    BY <1>1, Emptied
  <1>3. posted \in Seq(Requests) /\ Injective(posted) /\ Elems(posted) = {}
    BY <1>1, Emptied
  <1>4. CTyped
    BY <1>1, <1>2, <1>3 DEF CTyped
  <1>5. CIds
    BY <1>1, <1>2 DEF CIds
  <1>6. CPlaces
    BY <1>1, <1>2, <1>3 DEF CPlaces, ClientConstants
  <1>7. CTimed
    BY <1>1 DEF CTimed
  <1> QED
    BY <1>4, <1>5, <1>6, <1>7 DEF CInv

\* Clear, the close handler, and Abandon where its CHECK holds.
LEMMA CEnds ==
    ASSUME ClientConstants, CInv, Clear \/ ConnectionCloseHandler \/ Abandon
    PROVE  CInv'
  <1> DEFINE m == {}
  <1>1. UNCHANGED <<crtId, id, posted, sent>>
    BY DEF Clear, ConnectionCloseHandler, Abandon
  <1>2. \/ Closed(connError, waiting, active, m, "none")
        \/ UNCHANGED <<conn, waiting, active, callbacks, timeouts, ran>>
    BY DEF Clear, ConnectionCloseHandler, Abandon
  <1>3. m \cup active = active
    OBVIOUS
  <1> HIDE DEF m
  <1>4. CASE Closed(connError, waiting, active, m, "none")
    BY <1>1, <1>3, <1>4, CClosed
  <1>5. CASE UNCHANGED <<conn, waiting, active, callbacks, timeouts, ran>>
    BY <1>1, <1>5, CNotifyConnectionWrite
  <1> QED
    BY <1>2, <1>4, <1>5

\* Every step.
LEMMA CNextInv ==
    ASSUME ClientConstants
    PROVE  CInv /\ [Next]_(vars) => CInv'
  <1> SUFFICES ASSUME CInv, [Next]_(vars) PROVE CInv'
    OBVIOUS
  <1>1. ASSUME NEW r \in Requests, SendRequest(r) PROVE CInv'
    BY <1>1, CSendRequest
  <1>2. ASSUME NEW t \in TimeoutIds, HandleTimeout(t) PROVE CInv'
    BY <1>2, CHandleTimeout
  <1>3. CASE NotifyConnectionWrite
    <2>1. /\ conn # "closed"
          /\ UNCHANGED <<conn, crtId, id, waiting, active, callbacks, posted, sent, ran>>
          /\ \/ timeouts' = timeouts \ {kWriteTimeout}
             \/ timeouts' = timeouts \cup {kWriteTimeout}
      BY <1>3 DEF NotifyConnectionWrite
    <2> QED
      BY <2>1, CNotifyConnectionWrite
  <1>4. CASE ServerReplies \/ UNCHANGED vars
    <2>1. /\ UNCHANGED <<conn, crtId, id, waiting, active, callbacks, posted, sent, ran>>
          /\ timeouts' = timeouts
      BY <1>4 DEF ServerReplies, vars, state
    <2> QED
      BY <2>1, CNotifyConnectionWrite
  <1>5. CASE HandleDnsResult \/ \E r \in Requests : SendWhileResolving(r)
    <2>1. /\ conn' = "connecting" \/ conn' = conn
          /\ UNCHANGED <<crtId, id, waiting, active, callbacks, posted, sent, ran>>
          /\ timeouts' = timeouts
      BY <1>5 DEF HandleDnsResult, SendWhileResolving
    <2>2. conn' = "closed" => conn = "closed"
      BY <2>1
    <2> QED
      BY <2>1, <2>2, CNotifyConnectionWrite
  <1> QED
    BY <1>1, <1>2, <1>3, <1>4, <1>5, CRunPosted, CEnds, CNotifyConnected, CNotifyConnectionRead
       DEF Next

\* What CallbackOnce says of the requests.
LEMMA CCallbackOnce ==
    ASSUME CInv
    PROVE  CallbackOnce
  <1> DEFINE W(r) == {i \in DOMAIN waiting : waiting[i] = r}
             P(r) == {i \in DOMAIN posted : posted[i] = r}
             places(r) == (IF r \in active THEN 1 ELSE 0) + Cardinality(W(r)) + Cardinality(P(r))
  <1>1. ASSUME NEW r \in Requests
        PROVE  sent[r] = ran[r] + places(r) /\ places(r) <= 1
    <2>1. /\ waiting \in Seq(Requests) /\ posted \in Seq(Requests) /\ ran \in [Requests -> Nat]
          /\ Injective(waiting) /\ Injective(posted)
          /\ active \cap Elems(waiting) = {} /\ (active \cup Elems(waiting)) \cap Elems(posted) = {}
          /\ callbacks = active \cup Elems(waiting)
          /\ sent[r] = IF r \in callbacks \cup Elems(posted) THEN ran[r] + 1 ELSE ran[r]
      BY CParts
    <2>2. /\ Cardinality(W(r)) = IF r \in Elems(waiting) THEN 1 ELSE 0
          /\ Cardinality(P(r)) = IF r \in Elems(posted) THEN 1 ELSE 0
      <3>1. Cardinality(W(r)) = IF r \in Elems(waiting) THEN 1 ELSE 0
        BY <2>1, PlacesInjective
      <3>2. Cardinality(P(r)) = IF r \in Elems(posted) THEN 1 ELSE 0
        BY <2>1, PlacesInjective
      <3>3. Cardinality(W(r)) = Cardinality(W(r)) /\ Cardinality(P(r)) = Cardinality(P(r))
        BY CCardinality
      <3> QED
        BY <3>1, <3>2, <3>3
    <2>3. places(r) = (IF r \in active THEN 1 ELSE 0) + (IF r \in Elems(waiting) THEN 1 ELSE 0)
                        + (IF r \in Elems(posted) THEN 1 ELSE 0)
      BY <2>2
    <2>4. ran[r] \in Nat
      BY <2>1
    <2> HIDE DEF places
    <2> QED
      BY <2>1, <2>3, <2>4
  <1>2. callbacks = active \cup {waiting[i] : i \in DOMAIN waiting}
    BY CParts DEF Elems
  <1>3. /\ \A r \in active \ Untimed : kRequestTimeout + id[r] \in timeouts
        /\ conn = "closed" => callbacks = {} /\ timeouts = {}
    BY CParts
  <1> QED
    BY <1>1, <1>2, <1>3 DEF CallbackOnce

\* The callback of a request runs once per SendRequest: until then the request
\* is in one of the client's lists, with its timeout set when it is on the line.
\* For any number of requests, on the line, waiting and sent, however replies,
\* timeouts and closes are ordered.
THEOREM ClientCallbackOnce ==
    Spec => []CallbackOnce
  <1>1. ClientConstants
    BY HttpClientAssumption DEF ClientConstants
  <1>2. Init => CInv
    BY <1>1, CInitInv
  <1>3. CInv /\ [Next]_vars => CInv'
    BY <1>1, CNextInv
  <1>4. CInv => CallbackOnce
    BY <1>1, CCallbackOnce
  <1> QED
    BY <1>2, <1>3, <1>4, PTL DEF Spec


-----------------------------------------------------------------------------
(* The reply that a request is given *)

\* Several requests may be on the line, and the two stand-ins are no requests.
SeveralAtOnce == MaxConcurrent > 1 /\ Nobody \notin Requests /\ Fresh \notin Requests

\* The id that travels with a request, and with its reply, is no other
\* request's.  It may be the request's own of an earlier SendRequest.
Owns(e) == e.id \in Nat \ {0} /\ e.id < crtId /\ \A r \in Requests : id[r] = e.id => r = e.req
Owned == {e \in [req : Requests, id : Nat] : Owns(e)}
Pieces == {e \in [req : Requests, id : Nat, part : Parts] : Owns(e)}

CNet ==
    /\ outbuf \in Seq(Owned) /\ atServer \in Seq(Owned)
    /\ wire \in Seq(Pieces) /\ inbuf \in Seq(Pieces)

\* A header comes right before its body; the first piece is a body if the
\* header was read before.
Formed(s, mid) ==
    /\ \A k \in DOMAIN s : s[k].part = "head" =>
          k + 1 \in DOMAIN s /\ s[k + 1].part = "tail" /\ s[k + 1].req = s[k].req
    /\ \A k \in DOMAIN s : s[k].part = "tail" /\ k # 1 =>
          k - 1 \in DOMAIN s /\ s[k - 1].part = "head"
    /\ mid <=> s # <<>> /\ s[1].part = "tail"

\* Replies from their first piece on.
Whole(s) == Formed(s, FALSE)

\* reading_request_ is the request whose header was read.
Continues(s, rd) ==
    \/ rd = NotReading
    \/ rd.head = TRUE /\ rd.req # Nobody /\ (rd.req \in Requests => s[1].req = rd.req)

CStream == Formed(inbuf \o wire, reading.head) /\ Continues(inbuf \o wire, reading)

CAnswers == OwnReply /\ answer \in [Requests -> Requests \cup {Nobody}]

CReplies == CAnswers /\ CNet /\ CStream

\* Sequences over a larger set.
LEMMA SeqMore ==
    ASSUME NEW A, NEW B, A \subseteq B, NEW s \in Seq(A)
    PROVE  s \in Seq(B)
  <1>1. s \in [1..Len(s) -> A] /\ Len(s) \in Nat
    BY LenProperties
  <1>2. s \in [1..Len(s) -> B]
    BY <1>1
  <1> QED
    BY <1>1, <1>2, SeqDef

\* Two sequences in a row.
Joined(S, s, t, u) ==
    /\ s \in Seq(S) /\ t \in Seq(S)
    /\ u \in Seq(S) /\ Len(u) = Len(s) + Len(t) /\ Len(s) \in Nat /\ Len(t) \in Nat
    /\ DOMAIN u = 1..(Len(s) + Len(t)) /\ DOMAIN s = 1..Len(s) /\ DOMAIN t = 1..Len(t)
    /\ \A i \in DOMAIN s : i \in DOMAIN u /\ u[i] = s[i]
    /\ \A i \in DOMAIN u : i \notin DOMAIN s => i - Len(s) \in DOMAIN t /\ u[i] = t[i - Len(s)]

\* \o gives them.
LEMMA ConcatAt ==
    ASSUME NEW S, NEW s \in Seq(S), NEW t \in Seq(S), NEW u, u = s \o t
    PROVE  Joined(S, s, t, u)
  <1>1. /\ u \in Seq(S) /\ Len(u) = Len(s) + Len(t)
        /\ \A i \in 1..Len(s) + Len(t) : u[i] = IF i <= Len(s) THEN s[i] ELSE t[i - Len(s)]
    BY ConcatProperties
  <1>2. Len(s) \in Nat /\ Len(t) \in Nat /\ DOMAIN s = 1..Len(s) /\ DOMAIN t = 1..Len(t)
    BY LenProperties
  <1>3. DOMAIN u = 1..Len(u)
    BY <1>1, LenProperties
  <1>4. \A i \in DOMAIN s : i \in DOMAIN u /\ u[i] = s[i]
    BY <1>1, <1>2, <1>3
  <1>5. \A i \in DOMAIN u : i \notin DOMAIN s => i - Len(s) \in DOMAIN t /\ u[i] = t[i - Len(s)]
    BY <1>1, <1>2, <1>3
  <1> QED
    BY <1>1, <1>2, <1>3, <1>4, <1>5 DEF Joined

\* The first one comes first.
LEMMA JoinedPrefix ==
    ASSUME NEW S, NEW b, NEW v, NEW s, Joined(S, b, v, s)
    PROVE  /\ Len(b) \in Nat /\ Len(b) <= Len(s) /\ s \in Seq(S)
           /\ \A i \in 1..Len(b) : b[i] = s[i]
           /\ \A k \in Nat : k <= Len(b) => k <= Len(s)
  <1>1. /\ Len(b) \in Nat /\ Len(v) \in Nat /\ Len(s) = Len(b) + Len(v) /\ s \in Seq(S)
        /\ DOMAIN b = 1..Len(b) /\ \A i \in DOMAIN b : s[i] = b[i]
    BY DEF Joined
  <1>2. Len(b) <= Len(s) /\ \A k \in Nat : k <= Len(b) => k <= Len(s)
    BY <1>1
  <1> QED
    BY <1>1, <1>2

\* What is dropped from the first is dropped from both.
LEMMA JoinedSuffix ==
    ASSUME NEW S, NEW k \in Nat, NEW b, NEW v, NEW s, NEW rest, NEW t, NEW x,
           k <= Len(b), Joined(S, b, v, s), SuffixOf(S, b, k, rest), Joined(S, rest, v, t),
           SuffixOf(S, s, k, x)
    PROVE  x = t
  <1>1. /\ s \in Seq(S) /\ Len(s) = Len(b) + Len(v) /\ Len(v) \in Nat /\ Len(b) \in Nat
        /\ DOMAIN s = 1..(Len(b) + Len(v)) /\ DOMAIN b = 1..Len(b) /\ DOMAIN v = 1..Len(v)
        /\ \A i \in DOMAIN b : i \in DOMAIN s /\ s[i] = b[i]
        /\ \A i \in DOMAIN s : i \notin DOMAIN b => i - Len(b) \in DOMAIN v /\ s[i] = v[i - Len(b)]
    BY DEF Joined
  <1>2. /\ rest \in Seq(S) /\ Len(rest) = Len(b) - k
        /\ \A i \in DOMAIN rest : k + i \in DOMAIN b /\ rest[i] = b[k + i]
    BY DEF SuffixOf
  <1>3. /\ t \in Seq(S) /\ Len(t) = Len(rest) + Len(v)
        /\ DOMAIN t = 1..(Len(rest) + Len(v)) /\ DOMAIN rest = 1..Len(rest)
        /\ \A i \in DOMAIN rest : i \in DOMAIN t /\ t[i] = rest[i]
        /\ \A i \in DOMAIN t : i \notin DOMAIN rest =>
              i - Len(rest) \in DOMAIN v /\ t[i] = v[i - Len(rest)]
    BY DEF Joined
  <1>4. /\ x \in Seq(S) /\ Len(x) = Len(s) - k
        /\ \A i \in DOMAIN x : k + i \in DOMAIN s /\ x[i] = s[k + i]
    BY DEF SuffixOf
  <1>5. DOMAIN x = 1..Len(x)
    BY <1>4, LenProperties
  <1>6. Len(x) = Len(t)
    BY <1>1, <1>2, <1>3, <1>4
  <1>7. ASSUME NEW i \in 1..Len(x) PROVE x[i] = t[i]
    <2>1. k + i \in DOMAIN s /\ x[i] = s[k + i] /\ i \in DOMAIN t /\ i \in Nat
      <3>1. i \in DOMAIN x
        BY <1>5
      <3>2. DOMAIN t = 1..Len(t)
        BY <1>3, LenProperties
      <3> QED
        BY <1>4, <1>6, <3>1, <3>2
    <2>2. CASE i \in DOMAIN rest
      BY <1>1, <1>2, <1>3, <2>1, <2>2
    <2>3. CASE i \notin DOMAIN rest
      <3>1. k + i \notin DOMAIN b
        BY <1>1, <1>2, <1>3, <2>1, <2>3
      <3>2. s[k + i] = v[(k + i) - Len(b)]
        BY <1>1, <2>1, <3>1
      <3>3. t[i] = v[i - Len(rest)]
        BY <1>3, <2>1, <2>3
      <3>4. (k + i) - Len(b) = i - Len(rest)
        BY <1>1, <1>2, <2>1
      <3> QED
        BY <2>1, <3>2, <3>3, <3>4
    <2> QED
      BY <2>2, <2>3
  <1> QED
    BY <1>3, <1>4, <1>6, <1>7, SeqEqual

\* What is left of a stream whose first k pieces are parsed.
After(s, k, t) ==
    \E h \in BOOLEAN :
       /\ h <=> s[k].part = "head"
       /\ Formed(t, h)
       /\ h => t # <<>> /\ t[1].req = s[k].req

\* The rest of the stream has that form.
LEMMA FormedSuffix ==
    ASSUME NEW S, NEW s \in Seq(S), NEW k \in Nat \ {0}, k <= Len(s), NEW mid, Formed(s, mid),
           NEW t, SuffixOf(S, s, k, t)
    PROVE  After(s, k, t)
  <1>1. /\ t \in Seq(S) /\ Len(t) = Len(s) - k
        /\ \A i \in DOMAIN t : k + i \in DOMAIN s /\ t[i] = s[k + i]
    BY DEF SuffixOf
  <1>2. /\ Len(s) \in Nat /\ DOMAIN s = 1..Len(s) /\ DOMAIN t = 1..(Len(s) - k)
    BY <1>1, LenProperties
  <1>3. ASSUME NEW i \in DOMAIN t, t[i].part = "head"
        PROVE  i + 1 \in DOMAIN t /\ t[i + 1].part = "tail" /\ t[i + 1].req = t[i].req
    <2>1. k + i \in DOMAIN s /\ s[k + i].part = "head"
      BY <1>1, <1>3
    <2>2. /\ (k + i) + 1 \in DOMAIN s /\ s[(k + i) + 1].part = "tail"
          /\ s[(k + i) + 1].req = s[k + i].req
      BY <2>1 DEF Formed
    <2>3. i + 1 \in DOMAIN t /\ (k + i) + 1 = k + (i + 1)
      BY <1>2, <2>2
    <2> QED
      BY <1>1, <2>2, <2>3
  <1>4. ASSUME NEW i \in DOMAIN t, t[i].part = "tail", i # 1
        PROVE  i - 1 \in DOMAIN t /\ t[i - 1].part = "head"
    <2>1. k + i \in DOMAIN s /\ s[k + i].part = "tail" /\ k + i # 1
      BY <1>1, <1>2, <1>4
    <2>2. s[(k + i) - 1].part = "head"
      BY <2>1 DEF Formed
    <2>3. i - 1 \in DOMAIN t /\ (k + i) - 1 = k + (i - 1)
      BY <1>2, <1>4
    <2> QED
      BY <1>1, <2>2, <2>3
  <1>5. ASSUME s[k].part = "head"
        PROVE  t # <<>> /\ t[1].part = "tail" /\ t[1].req = s[k].req
    <2>1. k \in DOMAIN s
      BY <1>2
    <2>2. k + 1 \in DOMAIN s /\ s[k + 1].part = "tail" /\ s[k + 1].req = s[k].req
      BY <1>5, <2>1 DEF Formed
    <2>3. 1 \in DOMAIN t /\ Len(t) # 0
      BY <1>1, <1>2, <2>2
    <2>4. t # <<>>
      BY <1>1, <2>3, EmptySeq
    <2> QED
      BY <1>1, <2>2, <2>3, <2>4
  <1>6. ASSUME t # <<>>, t[1].part = "tail"
        PROVE  s[k].part = "head"
    <2>1. Len(t) # 0
      BY <1>1, <1>6, EmptySeq
    <2>2. 1 \in DOMAIN t
      BY <1>1, <1>2, <2>1
    <2>3. k + 1 \in DOMAIN s /\ s[k + 1].part = "tail" /\ k + 1 # 1
      BY <1>1, <1>6, <2>2
    <2>4. s[(k + 1) - 1].part = "head"
      BY <2>3 DEF Formed
    <2> QED
      BY <2>4
  <1>7. PICK h \in BOOLEAN : h <=> s[k].part = "head"
    OBVIOUS
  <1>8. Formed(t, h)
    BY <1>3, <1>4, <1>5, <1>6, <1>7 DEF Formed
  <1>9. h => t # <<>> /\ t[1].req = s[k].req
    BY <1>5, <1>7
  <1> QED
    BY <1>7, <1>8, <1>9, Zenon DEF After


\* A stream with more replies.
LEMMA FormedMore ==
    ASSUME NEW S, NEW s, NEW u, NEW mid, Formed(s, mid), Whole(u),
           NEW t, Joined(S, s, u, t)
    PROVE  /\ Formed(t, mid)
           /\ s # <<>> => t[1] = s[1]
  <1>1. /\ s \in Seq(S) /\ t \in Seq(S) /\ Len(t) = Len(s) + Len(u) /\ Len(s) \in Nat /\ Len(u) \in Nat
        /\ DOMAIN t = 1..(Len(s) + Len(u)) /\ DOMAIN s = 1..Len(s) /\ DOMAIN u = 1..Len(u)
        /\ \A i \in DOMAIN s : i \in DOMAIN t /\ t[i] = s[i]
        /\ \A i \in DOMAIN t : i \notin DOMAIN s => i - Len(s) \in DOMAIN u /\ t[i] = u[i - Len(s)]
    BY DEF Joined
  <1>2. ASSUME NEW i \in DOMAIN u PROVE Len(s) + i \in DOMAIN t /\ t[Len(s) + i] = u[i]
    <2>1. Len(s) + i \in DOMAIN t /\ Len(s) + i \notin DOMAIN s /\ (Len(s) + i) - Len(s) = i
      BY <1>1
    <2> QED
      BY <1>1, <2>1
  <1>3. ASSUME NEW k \in DOMAIN t, t[k].part = "head"
        PROVE  k + 1 \in DOMAIN t /\ t[k + 1].part = "tail" /\ t[k + 1].req = t[k].req
    <2>1. CASE k \in DOMAIN s
      <3>1. k + 1 \in DOMAIN s /\ s[k + 1].part = "tail" /\ s[k + 1].req = s[k].req
        BY <1>1, <1>3, <2>1 DEF Formed, Whole
      <3> QED
        BY <1>1, <2>1, <3>1
    <2>2. CASE k \notin DOMAIN s
      <3> DEFINE j == k - Len(s)
      <3>1. j \in DOMAIN u /\ u[j] = t[k] /\ Len(s) + (j + 1) = k + 1
        BY <1>1, <2>2
      <3> HIDE DEF j
      <3>2. j + 1 \in DOMAIN u /\ u[j + 1].part = "tail" /\ u[j + 1].req = u[j].req
        BY <1>3, <3>1 DEF Formed, Whole
      <3> QED
        BY <1>2, <3>1, <3>2
    <2> QED
      BY <2>1, <2>2
  <1>4. ASSUME NEW k \in DOMAIN t, t[k].part = "tail", k # 1
        PROVE  k - 1 \in DOMAIN t /\ t[k - 1].part = "head"
    <2>1. CASE k \in DOMAIN s
      <3>1. k - 1 \in DOMAIN s /\ s[k - 1].part = "head"
        BY <1>1, <1>4, <2>1 DEF Formed, Whole
      <3> QED
        BY <1>1, <3>1
    <2>2. CASE k \notin DOMAIN s
      <3> DEFINE j == k - Len(s)
      <3>1. j \in DOMAIN u /\ u[j] = t[k] /\ Len(s) + (j - 1) = k - 1
        BY <1>1, <2>2
      <3> HIDE DEF j
      <3>2. j # 1
        <4> SUFFICES ASSUME j = 1 PROVE FALSE
          OBVIOUS
        <4>1. u[1].part = "tail" /\ 1 \in DOMAIN u
          BY <1>4, <3>1
        <4>2. u # <<>>
          BY <4>1
        <4> QED
          BY <4>1, <4>2 DEF Formed, Whole
      <3>3. j - 1 \in DOMAIN u /\ u[j - 1].part = "head"
        BY <1>4, <3>1, <3>2 DEF Formed, Whole
      <3> QED
        BY <1>2, <3>1, <3>3
    <2> QED
      BY <2>1, <2>2
  <1>5. CASE s = <<>>
    <2>1. Len(s) = 0
      BY <1>5, EmptySeq
    <2>2. ~ (t # <<>> /\ t[1].part = "tail")
      <3> SUFFICES ASSUME t # <<>>, t[1].part = "tail" PROVE FALSE
        OBVIOUS
      <3>1. Len(t) # 0
        BY <1>1, EmptySeq
      <3>2. 1 \in DOMAIN t /\ 1 \notin DOMAIN s /\ 1 - Len(s) = 1
        BY <1>1, <2>1, <3>1
      <3>3. 1 \in DOMAIN u /\ u[1].part = "tail"
        BY <1>1, <3>2
      <3>4. u # <<>>
        BY <3>3
      <3> QED
        BY <3>3, <3>4 DEF Formed, Whole
    <2>3. ~mid
      BY <1>5 DEF Formed, Whole
    <2> QED
      BY <1>3, <1>4, <1>5, <2>2, <2>3 DEF Formed, Whole
  <1>6. CASE s # <<>>
    <2>1. Len(s) # 0
      BY <1>1, <1>6, EmptySeq
    <2>2. 1 \in DOMAIN s /\ t # <<>>
      BY <1>1, <2>1, EmptySeq
    <2>3. t[1] = s[1]
      BY <1>1, <2>2
    <2>4. mid <=> t # <<>> /\ t[1].part = "tail"
      BY <1>6, <2>2, <2>3 DEF Formed, Whole
    <2> QED
      BY <1>3, <1>4, <1>6, <2>3, <2>4 DEF Formed, Whole
  <1> QED
    BY <1>5, <1>6

\* Where the sequences meet does not matter.
LEMMA Rejoined ==
    ASSUME NEW S, NEW i, NEW f, NEW v, NEW w, NEW b, NEW s,
           Joined(S, f, v, w), Joined(S, i, f, b), Joined(S, i, w, s)
    PROVE  Joined(S, b, v, s)
  <1>1. /\ v \in Seq(S) /\ Len(w) = Len(f) + Len(v) /\ Len(f) \in Nat /\ Len(v) \in Nat
        /\ DOMAIN w = 1..(Len(f) + Len(v)) /\ DOMAIN f = 1..Len(f) /\ DOMAIN v = 1..Len(v)
        /\ \A k \in DOMAIN f : k \in DOMAIN w /\ w[k] = f[k]
        /\ \A k \in DOMAIN w : k \notin DOMAIN f => k - Len(f) \in DOMAIN v /\ w[k] = v[k - Len(f)]
    BY DEF Joined
  <1>2. /\ b \in Seq(S) /\ Len(b) = Len(i) + Len(f) /\ Len(i) \in Nat
        /\ DOMAIN b = 1..(Len(i) + Len(f)) /\ DOMAIN i = 1..Len(i)
        /\ \A k \in DOMAIN i : k \in DOMAIN b /\ b[k] = i[k]
        /\ \A k \in DOMAIN b : k \notin DOMAIN i => k - Len(i) \in DOMAIN f /\ b[k] = f[k - Len(i)]
    BY DEF Joined
  <1>3. /\ s \in Seq(S) /\ Len(s) = Len(i) + Len(w)
        /\ DOMAIN s = 1..(Len(i) + Len(w))
        /\ \A k \in DOMAIN i : k \in DOMAIN s /\ s[k] = i[k]
        /\ \A k \in DOMAIN s : k \notin DOMAIN i => k - Len(i) \in DOMAIN w /\ s[k] = w[k - Len(i)]
    BY DEF Joined
  <1>4. Len(s) = Len(b) + Len(v) /\ DOMAIN s = 1..(Len(b) + Len(v)) /\ DOMAIN b = 1..Len(b)
        /\ Len(b) \in Nat
    BY <1>1, <1>2, <1>3
  <1>5. ASSUME NEW k \in DOMAIN b PROVE k \in DOMAIN s /\ s[k] = b[k]
    <2>1. k \in DOMAIN s
      BY <1>1, <1>4
    <2>2. CASE k \in DOMAIN i
      BY <1>2, <1>3, <2>1, <2>2
    <2>3. CASE k \notin DOMAIN i
      <3>1. k - Len(i) \in DOMAIN f /\ b[k] = f[k - Len(i)] /\ s[k] = w[k - Len(i)]
        BY <1>2, <1>3, <2>1, <2>3
      <3> QED
        BY <1>1, <2>1, <3>1
    <2> QED
      BY <2>2, <2>3
  <1>6. ASSUME NEW k \in DOMAIN s, k \notin DOMAIN b
        PROVE  k - Len(b) \in DOMAIN v /\ s[k] = v[k - Len(b)]
    <2>1. k \notin DOMAIN i /\ k \in Nat
      BY <1>2, <1>4, <1>6
    <2>2. k - Len(i) \in DOMAIN w /\ s[k] = w[k - Len(i)]
      BY <1>3, <2>1
    <2>3. k - Len(i) \notin DOMAIN f
      BY <1>1, <1>2, <1>4, <1>6, <2>1
    <2>4. (k - Len(i)) - Len(f) \in DOMAIN v /\ w[k - Len(i)] = v[(k - Len(i)) - Len(f)]
      BY <1>1, <2>2, <2>3
    <2>5. (k - Len(i)) - Len(f) = k - Len(b)
      BY <1>1, <1>2, <2>1
    <2> QED
      BY <2>2, <2>4, <2>5
  <1> QED
    BY <1>1, <1>2, <1>3, <1>4, <1>5, <1>6 DEF Joined

\* A read event takes the first n pieces from the wire and parses k pieces of
\* the buffer b then.
Reads(S, s, b, k, rest, v, t) ==
    /\ s \in Seq(S) /\ b \in Seq(S) /\ Len(b) \in Nat \ {0} /\ Len(b) <= Len(s)
    /\ \A i \in 1..Len(b) : b[i] = s[i]
    /\ SuffixOf(S, s, k, t)
    /\ rest \in Seq(S) /\ v \in Seq(S)

\* The stream is what is in the buffer and on the wire.
LEMMA ReadStream ==
    ASSUME NEW S, NEW ib \in Seq(S), NEW w \in Seq(S), NEW n \in 1..Len(w),
           NEW b, b = ib \o SubSeq(w, 1, n), NEW k \in Nat, k <= Len(b),
           NEW rest, rest = SubSeq(b, k + 1, Len(b)), NEW v, v = SubSeq(w, n + 1, Len(w)),
           NEW s, s = ib \o w, NEW t, t = rest \o v
    PROVE  Reads(S, s, b, k, rest, v, t)
  <1> DEFINE f == SubSeq(w, 1, n)
  <1>1. Len(w) \in Nat /\ n \in Nat /\ n <= Len(w) /\ n # 0
    BY LenProperties
  <1>2. f \in Seq(S) /\ Len(f) = n
    <2>1. \A i \in 1..n : w[i] \in S
      BY <1>1, ElementOfSeq
    <2> QED
      BY <1>1, <2>1, SubSeqProperties
  <1>3. SuffixOf(S, w, n, v)
    BY <1>1, ElemsSuffix
  <1>4. v \in Seq(S)
    BY <1>3 DEF SuffixOf
  <1>5. f \o v = w
    <2>1. f \o v = SubSeq(w, 1, Len(w))
      <3>1. 1 \in 1..Len(w)+1 /\ n \in (1 - 1)..Len(w) /\ Len(w) \in n..Len(w)
        BY <1>1
      <3> QED
        BY <3>1, ConcatAdjacentSubSeq
    <2> QED
      BY <2>1, SubSeqFull
  <1> HIDE DEF f
  <1>6. b = ib \o f
    BY DEF f
  <1>7. Joined(S, f, v, w) /\ Joined(S, ib, w, s)
    BY <1>2, <1>4, <1>5, ConcatAt
  <1>8. Joined(S, ib, f, b)
    BY <1>2, <1>6, ConcatAt
  <1>9. b \in Seq(S) /\ Len(b) = Len(ib) + n /\ Len(ib) \in Nat
    <2>1. b \in Seq(S) /\ Len(b) = Len(ib) + Len(f) /\ Len(ib) \in Nat
      BY <1>8, Zenon DEF Joined
    <2> QED
      BY <1>2, <2>1, Zenon
  <1>10. Joined(S, b, v, s)
    BY <1>7, <1>8, Rejoined
  <1>11. SuffixOf(S, b, k, rest)
    BY <1>9, ElemsSuffix
  <1>12. rest \in Seq(S)
    BY <1>11 DEF SuffixOf
  <1>13. Joined(S, rest, v, t)
    BY <1>4, <1>12, ConcatAt
  <1>14. Len(b) \in Nat \ {0} /\ Len(b) <= Len(s) /\ s \in Seq(S)
         /\ \A i \in 1..Len(b) : b[i] = s[i]
    <2>1. Len(b) <= Len(s) /\ s \in Seq(S) /\ \A i \in 1..Len(b) : b[i] = s[i]
      BY <1>10, JoinedPrefix
    <2>2. Len(b) \in Nat \ {0}
      <3> DEFINE B == Len(b)
                 I == Len(ib)
      <3>1. B = I + n /\ I \in Nat /\ n \in Nat /\ n # 0
        BY <1>1, <1>9, Zenon
      <3> HIDE DEF B, I
      <3>2. B \in Nat \ {0}
        BY <3>1
      <3> QED
        BY <3>2 DEF B
    <2> QED
      BY <2>1, <2>2, Zenon
  <1> DEFINE x == SubSeq(s, k + 1, Len(s))
  <1>15. x = SubSeq(s, k + 1, Len(s))
    OBVIOUS
  <1> HIDE DEF x
  <1>16. SuffixOf(S, s, k, x)
    <2>1. k <= Len(s)
      BY <1>10, JoinedPrefix
    <2> QED
      BY <1>14, <1>15, <2>1, ElemsSuffix
  <1>17. x = t
    BY <1>10, <1>11, <1>13, <1>16, JoinedSuffix
  <1>18. SuffixOf(S, s, k, t)
    BY <1>16, <1>17
  <1> QED
    BY <1>4, <1>9, <1>12, <1>14, <1>18 DEF Reads


-----------------------------------------------------------------------------
\* The ids that are on their way stay what they are.
LEMMA COwnedGrows ==
    ASSUME id \in [Requests -> Nat], crtId \in Nat, crtId' \in Nat, crtId <= crtId',
           \A q \in Requests : id'[q] = id[q] \/ id'[q] = crtId
    PROVE  Owned \subseteq Owned' /\ Pieces \subseteq Pieces'
  <1>1. ASSUME NEW e, e.id \in Nat, Owns(e) PROVE Owns(e)'
    <2>1. e.id # 0 /\ e.id < crtId /\ \A r \in Requests : id[r] = e.id => r = e.req
      BY <1>1 DEF Owns
    <2>2. e.id < crtId' /\ e.id # crtId
      BY <1>1, <2>1
    <2>3. \A r \in Requests : id'[r] = e.id => r = e.req
      BY <2>1, <2>2
    <2> QED
      BY <1>1, <2>1, <2>2, <2>3 DEF Owns
  <1>2. Owned \subseteq Owned'
    <2> SUFFICES ASSUME NEW e \in Owned PROVE e \in Owned'
      OBVIOUS
    <2>1. e \in [req : Requests, id : Nat] /\ Owns(e) /\ e.id \in Nat
      BY DEF Owned
    <2>2. Owns(e)'
      BY <1>1, <2>1
    <2> QED
      BY <2>1, <2>2 DEF Owned
  <1>3. Pieces \subseteq Pieces'
    <2> SUFFICES ASSUME NEW e \in Pieces PROVE e \in Pieces'
      OBVIOUS
    <2>1. e \in [req : Requests, id : Nat, part : Parts] /\ Owns(e) /\ e.id \in Nat
      BY DEF Pieces
    <2>2. Owns(e)'
      BY <1>1, <2>1
    <2> QED
      BY <2>1, <2>2 DEF Pieces, Parts
  <1> QED
    BY <1>2, <1>3

\* The requests that are written out carry their ids.
LEMMA CWriteOwned ==
    ASSUME ClientConstants, NEW w \in Seq(Requests), NEW a, NEW t,
           IsFiniteSet(a), Cardinality(a) <= MaxConcurrent,
           WriteRequestsToServer(w, a, t),
           id' \in [Requests -> Nat], outbuf \in Seq(Owned'),
           \A r \in Requests : id'[r] < crtId',
           \A r, s \in Requests : id'[r] = id'[s] /\ id'[r] # 0 => r = s,
           \A r \in Elems(w) : id'[r] # 0
    PROVE  outbuf' \in Seq(Owned')
  <1> DEFINE room == MaxConcurrent - Cardinality(a)
             n == IF Len(w) < room THEN Len(w) ELSE room
             out == [i \in 1..n |-> [req |-> w[i], id |-> id'[w[i]]]]
  <1>1. outbuf' = outbuf \o out
    BY DEF WriteRequestsToServer, WriteOut
  <1>2. Cardinality(a) \in Nat /\ Len(w) \in Nat /\ Cardinality(a) = Cardinality(a)
    BY FS_CardinalityType, LenProperties, CCardinality
  <1>3. n \in Nat /\ n <= Len(w)
    BY <1>2 DEF ClientConstants
  <1> HIDE DEF n, room
  <1>4. ASSUME NEW i \in 1..n PROVE out[i] \in Owned'
    <2>1. i \in 1..Len(w) /\ DOMAIN w = 1..Len(w)
      BY <1>2, <1>3, LenProperties
    <2> DEFINE r == w[i]
    <2>2. r \in Requests /\ r \in Elems(w)
      BY <2>1, ElementOfSeq DEF Elems
    <2>3. out[i] = [req |-> r, id |-> id'[r]]
      OBVIOUS
    <2> HIDE DEF r, out
    <2>4. id'[r] \in Nat \ {0} /\ id'[r] < crtId' /\ \A q \in Requests : id'[q] = id'[r] => q = r
      BY <2>2
    <2>5. PICK e : e = [req |-> r, id |-> id'[r]]
      OBVIOUS
    <2>6. e.req = r /\ e.id = id'[r] /\ e \in [req : Requests, id : Nat] /\ out[i] = e
      BY <2>2, <2>3, <2>4, <2>5
    <2>7. Owns(e)'
      BY <2>4, <2>6 DEF Owns
    <2>8. e \in Owned'
      BY <2>6, <2>7 DEF Owned
    <2> QED
      BY <2>6, <2>8
  <1>5. out \in Seq(Owned')
    <2>1. out \in [1..n -> Owned']
      BY <1>4
    <2> HIDE DEF out
    <2> QED
      BY <1>3, <2>1, SeqDef
  <1> HIDE DEF out
  <1> QED
    BY <1>1, <1>5, ConcatProperties

\* The invariant, from its parts in the next state.
LEMMA CRepliesNext ==
    ASSUME answer' \in [Requests -> Requests \cup {Nobody}],
           \A r \in Requests : answer'[r] \in {Nobody, r},
           outbuf' \in Seq(Owned'), atServer' \in Seq(Owned'),
           wire' \in Seq(Pieces'), inbuf' \in Seq(Pieces'),
           NEW s, s = inbuf' \o wire', Formed(s, reading'.head), Continues(s, reading')
    PROVE  CReplies'
  <1>1. CAnswers'
    BY DEF CAnswers, OwnReply, Nobody
  <1>2. CNet'
    BY DEF CNet
  <1>3. CStream'
    <2>1. Formed(inbuf' \o wire', reading'.head) /\ Continues(inbuf' \o wire', reading')
      OBVIOUS
    <2> QED
      BY <2>1 DEF CStream, Formed, Continues, NotReading, Nobody
  <1> QED
    BY <1>1, <1>2, <1>3 DEF CReplies

\* The connection ends.
LEMMA CRepliesClosed ==
    ASSUME NEW err, NEW w, NEW a, NEW m, NEW e, Closed(err, w, a, m, e),
           answer' \in [Requests -> Requests \cup {Nobody}],
           \A r \in Requests : answer'[r] \in {Nobody, r}
    PROVE  CReplies'
  <1>1. /\ reading' = NotReading
        /\ outbuf' = <<>> /\ atServer' = <<>> /\ wire' = <<>> /\ inbuf' = <<>>
    BY DEF Closed
  <1>2. /\ outbuf' \in Seq(Owned') /\ atServer' \in Seq(Owned')
        /\ wire' \in Seq(Pieces') /\ inbuf' \in Seq(Pieces')
    BY <1>1, EmptySeq
  <1> DEFINE s == inbuf' \o wire'
  <1>3. s = <<>>
    BY <1>1
  <1>4. s = inbuf' \o wire'
    OBVIOUS
  <1> HIDE DEF s
  <1>5. reading'.head = FALSE
    BY <1>1 DEF NotReading
  <1>6. Formed(s, reading'.head) /\ Continues(s, reading')
    BY <1>1, <1>3, <1>5 DEF Formed, Continues
  <1> QED
    BY <1>2, <1>4, <1>6, CRepliesNext

\* A step that leaves the replies, and what is read of them, alone.
LEMMA CRepliesKept ==
    ASSUME CReplies, UNCHANGED <<reading, wire, inbuf>>,
           Owned \subseteq Owned', Pieces \subseteq Pieces',
           outbuf' \in Seq(Owned'), atServer' \in Seq(Owned'),
           answer' \in [Requests -> Requests \cup {Nobody}],
           \A r \in Requests : answer'[r] \in {Nobody, r}
    PROVE  CReplies'
  <1>1. wire \in Seq(Pieces) /\ inbuf \in Seq(Pieces)
    BY DEF CReplies, CNet
  <1>2. wire' \in Seq(Pieces') /\ inbuf' \in Seq(Pieces')
    BY <1>1, SeqMore
  <1> DEFINE s == inbuf \o wire
  <1>3. Formed(s, reading'.head) /\ Continues(s, reading') /\ s = inbuf' \o wire'
    BY DEF CReplies, CStream
  <1> HIDE DEF s
  <1> QED
    BY <1>2, <1>3, CRepliesNext



\* What the replies' invariant says, in parts.
LEMMA CRepliesParts ==
    ASSUME CReplies
    PROVE  /\ answer \in [Requests -> Requests \cup {Nobody}]
           /\ \A r \in Requests : answer[r] \in {Nobody, r}
           /\ outbuf \in Seq(Owned) /\ atServer \in Seq(Owned)
           /\ wire \in Seq(Pieces) /\ inbuf \in Seq(Pieces)
  <1>1. CAnswers /\ CNet
    BY DEF CReplies
  <1>2. answer \in [Requests -> Requests \cup {Nobody}] /\ OwnReply
    BY <1>1 DEF CAnswers
  <1>3. \A r \in Requests : answer[r] \in {Nobody, r}
    BY <1>2 DEF OwnReply
  <1> QED
    BY <1>1, <1>2, <1>3 DEF CNet

\* A step that gives out no id leaves the ids on their way alone.
LEMMA COwnedSame ==
    ASSUME CInv, UNCHANGED <<crtId, id>>
    PROVE  Owned \subseteq Owned' /\ Pieces \subseteq Pieces'
  <1>1. id \in [Requests -> Nat] /\ crtId \in Nat
    BY CParts
  <1>2. crtId' \in Nat /\ crtId <= crtId' /\ \A q \in Requests : id'[q] = id[q] \/ id'[q] = crtId
    BY <1>1
  <1> QED
    BY <1>1, <1>2, COwnedGrows

\* A step that only the application or the timers see.
LEMMA CRepliesSame ==
    ASSUME CInv, CReplies, UNCHANGED <<crtId, id, reading, answer, wire, inbuf, outbuf, atServer>>
    PROVE  CReplies'
  <1>1. Owned \subseteq Owned' /\ Pieces \subseteq Pieces'
    BY COwnedSame
  <1>2. /\ answer \in [Requests -> Requests \cup {Nobody}]
        /\ \A r \in Requests : answer[r] \in {Nobody, r}
        /\ outbuf \in Seq(Owned) /\ atServer \in Seq(Owned)
    BY CRepliesParts
  <1>3. outbuf' \in Seq(Owned') /\ atServer' \in Seq(Owned')
    BY <1>1, <1>2, SeqMore
  <1> QED
    BY <1>1, <1>2, <1>3, CRepliesKept

\* The connection's end, by whatever event, with no reply given.
LEMMA CRepliesEnds ==
    ASSUME CReplies, NEW err, NEW w, NEW a, NEW m, NEW e, Closed(err, w, a, m, e),
           UNCHANGED answer
    PROVE  CReplies'
  <1>1. /\ answer' \in [Requests -> Requests \cup {Nobody}]
        /\ \A r \in Requests : answer'[r] \in {Nobody, r}
    BY CRepliesParts
  <1> QED
    BY <1>1, CRepliesClosed

\* SendRequest: the request forgets the reply it had.
LEMMA CSendReplies ==
    ASSUME ClientConstants, CInv, CReplies, NEW r \in Requests, SendRequest(r)
    PROVE  CReplies'
  <1>1. /\ crtId \in Nat \ {0} /\ id \in [Requests -> Nat] /\ waiting \in Seq(Requests)
        /\ IsFiniteSet(active) /\ Cardinality(active) <= MaxConcurrent
        /\ \A q \in Elems(waiting) : id[q] # 0
    BY CParts
  <1>2. /\ answer \in [Requests -> Requests \cup {Nobody}]
        /\ \A q \in Requests : answer[q] \in {Nobody, q}
        /\ outbuf \in Seq(Owned) /\ atServer \in Seq(Owned)
    BY CRepliesParts
  <1>3. /\ answer' \in [Requests -> Requests \cup {Nobody}]
        /\ \A q \in Requests : answer'[q] \in {Nobody, q}
    <2>1. answer' = [answer EXCEPT ![r] = Nobody]
      BY DEF SendRequest
    <2> QED
      BY <1>2, <2>1
  <1>4. CASE conn = "closed"
    <2>1. UNCHANGED <<crtId, id, reading, wire, inbuf, outbuf, atServer>>
      BY <1>4 DEF SendRequest, net
    <2>2. Owned \subseteq Owned' /\ Pieces \subseteq Pieces'
      BY <2>1, COwnedSame
    <2>3. outbuf' \in Seq(Owned') /\ atServer' \in Seq(Owned')
      BY <1>2, <2>1, <2>2, SeqMore
    <2> QED
      BY <1>3, <2>1, <2>2, <2>3, CRepliesKept
  <1>5. CASE conn # "closed"
    <2>1. CNewId(r)
      BY <1>5, CSendIds
    <2>2. /\ crtId' \in Nat /\ id' \in [Requests -> Nat] /\ id'[r] = crtId
          /\ \A q \in Requests : q # r => id'[q] = id[q]
          /\ \A q \in Requests : id'[q] < crtId'
          /\ \A q, s \in Requests : id'[q] = id'[s] /\ id'[q] # 0 => q = s
          /\ id'[r] # 0
      BY <2>1 DEF CNewId
    <2>3. crtId <= crtId' /\ \A q \in Requests : id'[q] = id[q] \/ id'[q] = crtId
      BY <1>1, <2>2
    <2>4. Owned \subseteq Owned' /\ Pieces \subseteq Pieces'
      BY <1>1, <2>2, <2>3, COwnedGrows
    <2>5. outbuf \in Seq(Owned') /\ atServer \in Seq(Owned')
      BY <1>2, <2>4, SeqMore
    <2> DEFINE w == Append(waiting, r)
    <2>6. w \in Seq(Requests) /\ Elems(w) = Elems(waiting) \cup {r}
      <3>1. w = Append(waiting, r)
        OBVIOUS
      <3> HIDE DEF w
      <3>2. MoreBy(Requests, waiting, r, w)
        BY <1>1, <3>1, ElemsAppend
      <3> QED
        BY <3>2 DEF MoreBy
    <2>7. \/ UNCHANGED <<reading, wire, inbuf, outbuf, atServer>>
          \/ Closed(connError, w, active, {}, "none")
          \/ /\ WriteRequestsToServer(w, active, timeouts)
             /\ UNCHANGED <<reading, wire, inbuf, atServer>>
      BY <1>5 DEF SendRequest, net
    <2> HIDE DEF w
    <2>8. CASE UNCHANGED <<reading, wire, inbuf, outbuf, atServer>>
      <3>1. outbuf' \in Seq(Owned') /\ atServer' \in Seq(Owned')
        BY <2>5, <2>8
      <3> QED
        BY <1>3, <2>4, <2>8, <3>1, CRepliesKept
    <2>9. CASE Closed(connError, w, active, {}, "none")
      BY <1>3, <2>9, CRepliesClosed
    <2>10. CASE /\ WriteRequestsToServer(w, active, timeouts)
                /\ UNCHANGED <<reading, wire, inbuf, atServer>>
      <3>1. \A q \in Elems(w) : id'[q] # 0
        <4>1. \A q \in Elems(waiting) : q \in Requests
          BY CParts
        <4> QED
          BY <1>1, <2>2, <2>6, <4>1
      <3>2. outbuf' \in Seq(Owned')
        BY <1>1, <2>2, <2>5, <2>6, <2>10, <3>1, CWriteOwned
      <3>3. atServer' \in Seq(Owned')
        BY <2>5, <2>10
      <3> QED
        BY <1>3, <2>4, <2>10, <3>2, <3>3, CRepliesKept
    <2> QED
      BY <2>7, <2>8, <2>9, <2>10
  <1> QED
    BY <1>4, <1>5



\* NotifyConnected.
LEMMA CConnectedReplies ==
    ASSUME ClientConstants, CInv, CReplies, NotifyConnected
    PROVE  CReplies'
  <1> DEFINE t == timeouts \ {kConnectTimeout}
  <1>1. /\ UNCHANGED <<crtId, id, reading, answer, wire, inbuf, atServer>>
        /\ WriteRequestsToServer(waiting, active, t)
    BY DEF NotifyConnected
  <1> HIDE DEF t
  <1>2. /\ waiting \in Seq(Requests) /\ IsFiniteSet(active) /\ Cardinality(active) <= MaxConcurrent
        /\ id' \in [Requests -> Nat]
        /\ \A q \in Requests : id'[q] < crtId'
        /\ \A q, s \in Requests : id'[q] = id'[s] /\ id'[q] # 0 => q = s
        /\ \A q \in Elems(waiting) : id'[q] # 0
    BY <1>1, CParts
  <1>3. Owned \subseteq Owned' /\ Pieces \subseteq Pieces'
    BY <1>1, COwnedSame
  <1>4. /\ answer' \in [Requests -> Requests \cup {Nobody}]
        /\ \A r \in Requests : answer'[r] \in {Nobody, r}
        /\ outbuf \in Seq(Owned) /\ atServer \in Seq(Owned)
    BY <1>1, CRepliesParts
  <1>5. outbuf \in Seq(Owned') /\ atServer' \in Seq(Owned')
    BY <1>1, <1>3, <1>4, SeqMore
  <1>6. outbuf' \in Seq(Owned')
    BY <1>1, <1>2, <1>5, CWriteOwned
  <1> QED
    BY <1>1, <1>3, <1>4, <1>5, <1>6, CRepliesKept

\* A part of a sequence.
LEMMA PartOf ==
    ASSUME NEW S, NEW s \in Seq(S), NEW m \in 1..Len(s) + 1, NEW n \in m - 1..Len(s)
    PROVE  SubSeq(s, m, n) \in Seq(S)
  <1>1. \A i \in m..n : s[i] \in S
    <2>1. Len(s) \in Nat
      BY LenProperties
    <2>2. \A i \in m..n : i \in 1..Len(s)
      BY <2>1
    <2> QED
      BY <2>2, ElementOfSeq
  <1>2. m \in Nat /\ n \in Nat
    BY LenProperties
  <1> QED
    BY <1>1, <1>2, LenProperties, SubSeqProperties

\* NotifyConnectionWrite: the requests move on with their ids.
LEMMA CWriteReplies ==
    ASSUME CInv, CReplies, NotifyConnectionWrite
    PROVE  CReplies'
  <1>1. PICK n \in 1..Len(outbuf) :
          /\ outbuf' = SubSeq(outbuf, n + 1, Len(outbuf))
          /\ atServer' = atServer \o SubSeq(outbuf, 1, n)
    BY DEF NotifyConnectionWrite
  <1>2. UNCHANGED <<crtId, id, reading, answer, wire, inbuf>>
    BY DEF NotifyConnectionWrite
  <1>3. Owned \subseteq Owned' /\ Pieces \subseteq Pieces'
    BY <1>2, COwnedSame
  <1>4. /\ answer' \in [Requests -> Requests \cup {Nobody}]
        /\ \A r \in Requests : answer'[r] \in {Nobody, r}
        /\ outbuf \in Seq(Owned) /\ atServer \in Seq(Owned)
    BY <1>2, CRepliesParts
  <1>5. Len(outbuf) \in Nat
    BY <1>4, LenProperties
  <1>6. SubSeq(outbuf, n + 1, Len(outbuf)) \in Seq(Owned)
    <2>1. n + 1 \in 1..Len(outbuf) + 1 /\ Len(outbuf) \in (n + 1) - 1..Len(outbuf)
      BY <1>5
    <2> QED
      BY <1>4, <2>1, PartOf
  <1>7. SubSeq(outbuf, 1, n) \in Seq(Owned)
    <2>1. 1 \in 1..Len(outbuf) + 1 /\ n \in 1 - 1..Len(outbuf)
      BY <1>5
    <2> QED
      BY <1>4, <2>1, PartOf
  <1>8. outbuf' \in Seq(Owned) /\ atServer' \in Seq(Owned)
    BY <1>1, <1>4, <1>6, <1>7, ConcatProperties
  <1>9. outbuf' \in Seq(Owned') /\ atServer' \in Seq(Owned')
    BY <1>3, <1>8, SeqMore
  <1> QED
    BY <1>2, <1>3, <1>4, <1>9, CRepliesKept

\* RunPosted, the timeouts, the connection's end and Abandon.
LEMMA COtherReplies ==
    ASSUME CInv, CReplies,
           \/ RunPosted \/ Clear \/ Abandon \/ ConnectionCloseHandler
           \/ HandleDnsResult \/ (\E r \in Requests : SendWhileResolving(r))
           \/ (\E t \in TimeoutIds : HandleTimeout(t)) \/ UNCHANGED vars
    PROVE  CReplies'
  <1>1. UNCHANGED <<crtId, id, answer>>
    BY DEF RunPosted, Clear, Abandon, ConnectionCloseHandler, HandleTimeout,
           HandleDnsResult, SendWhileResolving, TimeoutFires, vars, state
  <1>2. \/ Closed(connError, waiting, active, {}, "none")
        \/ Closed("timeout", waiting, active, {}, "none")
        \/ UNCHANGED <<reading, wire, inbuf, outbuf, atServer>>
    BY DEF RunPosted, Clear, Abandon, ConnectionCloseHandler, HandleTimeout,
           HandleDnsResult, SendWhileResolving, TimeoutFires, vars, state, net
  <1>3. CASE Closed(connError, waiting, active, {}, "none")
    BY <1>1, <1>3, CRepliesEnds
  <1>4. CASE Closed("timeout", waiting, active, {}, "none")
    BY <1>1, <1>4, CRepliesEnds
  <1>5. CASE UNCHANGED <<reading, wire, inbuf, outbuf, atServer>>
    BY <1>1, <1>5, CRepliesSame
  <1> QED
    BY <1>2, <1>3, <1>4, <1>5

\* A reply goes on the wire whole, or does not parse.
LEMMA FormedReply ==
    ASSUME NEW u, NEW r, NEW i,
           \/ u = <<[req |-> r, id |-> i, part |-> "bad"]>>
           \/ u = <<[req |-> r, id |-> i, part |-> "head"], [req |-> r, id |-> i, part |-> "tail"]>>
    PROVE  Whole(u)
  <1>1. CASE u = <<[req |-> r, id |-> i, part |-> "bad"]>>
    <2>1. Len(u) = 1 /\ DOMAIN u = {1} /\ u[1].part = "bad"
      BY <1>1
    <2> QED
      BY <2>1 DEF Formed, Whole
  <1>2. CASE u = <<[req |-> r, id |-> i, part |-> "head"], [req |-> r, id |-> i, part |-> "tail"]>>
    <2>1. /\ DOMAIN u = {1, 2} /\ u[1].part = "head" /\ u[2].part = "tail"
          /\ u[1].req = r /\ u[2].req = r
      BY <1>2
    <2> QED
      BY <2>1 DEF Formed, Whole
  <1> QED
    BY <1>1, <1>2


\* One piece, or two.
LEMMA OneOrTwo ==
    ASSUME NEW S, NEW a \in S, NEW b \in S
    PROVE  <<a>> \in Seq(S) /\ <<a, b>> \in Seq(S)
  OBVIOUS

\* The server's replies carry the ids of what was sent to it.
LEMMA CServerReplies ==
    ASSUME CInv, CReplies, ServerReplies
    PROVE  CReplies'
  <1> DEFINE piece(i, p) == [req |-> atServer[i].req, id |-> atServer[i].id, part |-> p]
             reply(i, bad) == IF bad THEN <<piece(i, "bad")>>
                              ELSE <<piece(i, "head"), piece(i, "tail")>>
  <1>1. PICK i \in DOMAIN atServer, bad \in BOOLEAN :
          /\ atServer' = SubSeq(atServer, 1, i - 1) \o SubSeq(atServer, i + 1, Len(atServer))
          /\ wire' = wire \o reply(i, bad)
    BY DEF ServerReplies
  <1>2. UNCHANGED <<crtId, id, reading, answer, outbuf, inbuf>>
    BY DEF ServerReplies, state
  <1>3. Owned \subseteq Owned' /\ Pieces \subseteq Pieces'
    BY <1>2, COwnedSame
  <1>4. /\ answer' \in [Requests -> Requests \cup {Nobody}]
        /\ \A r \in Requests : answer'[r] \in {Nobody, r}
        /\ outbuf \in Seq(Owned) /\ atServer \in Seq(Owned)
        /\ wire \in Seq(Pieces) /\ inbuf \in Seq(Pieces)
    BY <1>2, CRepliesParts
  <1>5. Len(atServer) \in Nat /\ i \in 1..Len(atServer)
    BY <1>4, LenProperties
  <1>6. SubSeq(atServer, 1, i - 1) \in Seq(Owned)
    <2>1. 1 \in 1..Len(atServer) + 1 /\ i - 1 \in 1 - 1..Len(atServer)
      BY <1>5
    <2> QED
      BY <1>4, <2>1, PartOf
  <1>7. SubSeq(atServer, i + 1, Len(atServer)) \in Seq(Owned)
    <2>1. i + 1 \in 1..Len(atServer) + 1 /\ Len(atServer) \in (i + 1) - 1..Len(atServer)
      BY <1>5
    <2> QED
      BY <1>4, <2>1, PartOf
  <1>8. atServer' \in Seq(Owned)
    BY <1>1, <1>6, <1>7, ConcatProperties
  <1>9. PICK e \in Owned : e = atServer[i]
    BY <1>4, <1>5, ElementOfSeq
  <1>10. ASSUME NEW p \in Parts PROVE piece(i, p) \in Pieces
    <2>1. e \in [req : Requests, id : Nat] /\ Owns(e)
      BY <1>9 DEF Owned
    <2>2. PICK x : x = [req |-> e.req, id |-> e.id, part |-> p]
      OBVIOUS
    <2>3. x \in [req : Requests, id : Nat, part : Parts] /\ x.id = e.id /\ x.req = e.req
      BY <2>1, <2>2
    <2>4. Owns(x)
      BY <2>1, <2>3 DEF Owns
    <2>5. x \in Pieces
      BY <2>3, <2>4 DEF Pieces
    <2> QED
      BY <1>9, <2>2, <2>5
  <1> DEFINE u == reply(i, bad)
  <1>11. u \in Seq(Pieces)
    <2>1. piece(i, "bad") \in Pieces /\ piece(i, "head") \in Pieces /\ piece(i, "tail") \in Pieces
      BY <1>10 DEF Parts
    <2> HIDE DEF piece
    <2>2. <<piece(i, "bad")>> \in Seq(Pieces)
      BY <2>1, OneOrTwo
    <2>3. <<piece(i, "head"), piece(i, "tail")>> \in Seq(Pieces)
      BY <2>1, OneOrTwo
    <2> QED
      BY <2>2, <2>3
  <1>12. Whole(u)
    BY FormedReply
  <1>13. wire' = wire \o u
    BY <1>1
  <1> HIDE DEF u, reply, piece
  <1> DEFINE s == inbuf \o wire
             t == inbuf \o wire'
  <1>14. wire' \in Seq(Pieces)
    BY <1>4, <1>11, <1>13, ConcatProperties
  <1>15. Formed(s, reading.head) /\ Continues(s, reading)
    BY DEF CReplies, CStream
  <1>16. s = inbuf \o wire /\ t = inbuf \o wire' /\ t = inbuf' \o wire'
    BY <1>2
  <1> HIDE DEF s, t
  <1>17. Joined(Pieces, wire, u, wire') /\ Joined(Pieces, inbuf, wire, s) /\ Joined(Pieces, inbuf, wire', t)
    <2>1. Joined(Pieces, wire, u, wire')
      BY <1>4, <1>11, <1>13, ConcatAt
    <2>2. Joined(Pieces, inbuf, wire, s)
      BY <1>4, <1>16, ConcatAt
    <2>3. Joined(Pieces, inbuf, wire', t)
      BY <1>4, <1>14, <1>16, ConcatAt
    <2> QED
      BY <2>1, <2>2, <2>3
  <1>18. Joined(Pieces, s, u, t)
    BY <1>17, Rejoined
  <1>19. Formed(t, reading.head) /\ (s # <<>> => t[1] = s[1])
    <2>1. PICK mid : mid = reading.head
      OBVIOUS
    <2>2. Formed(s, mid)
      BY <1>15, <2>1
    <2>3. Formed(t, mid)
      BY <1>12, <1>18, <2>2, FormedMore
    <2>4. s # <<>> => t[1] = s[1]
      BY <1>12, <1>18, <2>2, FormedMore
    <2> QED
      BY <2>1, <2>3, <2>4
  <1>20. Continues(t, reading)
    <2>1. reading.head = TRUE => s # <<>>
      BY <1>15 DEF Formed
    <2> QED
      BY <1>15, <1>19, <2>1 DEF Continues
  <1>21. /\ outbuf' \in Seq(Owned') /\ atServer' \in Seq(Owned')
         /\ wire' \in Seq(Pieces') /\ inbuf' \in Seq(Pieces')
    BY <1>2, <1>3, <1>4, <1>8, <1>14, SeqMore
  <1>22. Formed(t, reading'.head) /\ Continues(t, reading')
    BY <1>2, <1>19, <1>20
  <1> QED
    BY <1>4, <1>16, <1>21, <1>22, CRepliesNext


\* What a read event parses: k pieces of the stream s, for the request whose
\* reply they are or for none; t is left.
Parsed(s, k, t, p, v) ==
    /\ k \in {1, 2} /\ k <= Len(s) /\ s \in Seq(Pieces) /\ SuffixOf(Pieces, s, k, t)
    /\ p.rest \in Seq(Pieces) /\ v \in Seq(Pieces)
    /\ p.part = s[k].part /\ p.from = s[k].req
    /\ p.req \in Requests => p.req = s[k].req

\* The request that a fresh reply is identified with is the one it answers.
LEMMA CIdentified ==
    ASSUME SeveralAtOnce, CInv, NEW e \in Pieces, NEW r, r = IdentifyReadingRequest(e),
           r \in Requests
    PROVE  r = e.req
  <1>1. r \in active /\ id[r] = e.id
    <2>1. CASE \E q \in active : id[q] = e.id
      <3>1. r = CHOOSE q \in active : id[q] = e.id
        BY <2>1 DEF IdentifyReadingRequest
      <3> QED
        BY <2>1, <3>1
    <2>2. CASE ~ \E q \in active : id[q] = e.id
      <3>1. r = Nobody
        BY <2>2 DEF IdentifyReadingRequest
      <3> QED
        BY <3>1 DEF SeveralAtOnce
    <2> QED
      BY <2>1, <2>2
  <1>2. Owns(e)
    BY DEF Pieces
  <1> QED
    BY <1>1, <1>2 DEF Owns

\* Parse, where several requests may be on the line.
LEMMA CParsed ==
    ASSUME ClientConstants, SeveralAtOnce, CInv, CReplies, NEW n \in 1..Len(wire),
           NEW b, b = inbuf \o SubSeq(wire, 1, n), NEW s, s = inbuf \o wire,
           NEW p, p = Parse(b), NEW v, v = SubSeq(wire, n + 1, Len(wire)),
           NEW t, t = p.rest \o v
    PROVE  \E k : Parsed(s, k, t, p, v)
  <1>1. wire \in Seq(Pieces) /\ inbuf \in Seq(Pieces)
    BY CRepliesParts
  <1>2. Formed(s, reading.head) /\ Continues(s, reading)
    BY DEF CReplies, CStream
  <1> DEFINE start == StartReading
             last == IF start.head \/ b[1].part = "bad" THEN 1
                     ELSE IF Len(b) > 1 THEN 2 ELSE 1
             req == IF start.req = Fresh /\ ~start.head THEN IdentifyReadingRequest(b[1])
                    ELSE start.req
  <1>3. /\ p.req = req /\ p.rest = SubSeq(b, last + 1, Len(b))
        /\ p.part = b[last].part /\ p.from = b[last].req
    BY DEF Parse
  <1>4. s \in Seq(Pieces) /\ b \in Seq(Pieces) /\ Len(b) \in Nat \ {0} /\ Len(b) <= Len(s)
        /\ \A i \in 1..Len(b) : b[i] = s[i]
    <2> HIDE DEF start, last, req
    <2> DEFINE zero == SubSeq(b, 0 + 1, Len(b))
               all == zero \o v
    <2>1. zero = SubSeq(b, 0 + 1, Len(b)) /\ all = zero \o v
      OBVIOUS
    <2> HIDE DEF zero, all
    <2>2. 0 \in Nat /\ 0 <= Len(b)
      <3>1. Len(wire) \in Nat /\ n \in Nat /\ n <= Len(wire)
        BY <1>1, LenProperties
      <3>2. \A i \in 1..n : wire[i] \in Pieces
        BY <1>1, <3>1, ElementOfSeq
      <3>3. SubSeq(wire, 1, n) \in Seq(Pieces)
        BY <3>1, <3>2, SubSeqProperties
      <3>4. b \in Seq(Pieces)
        BY <1>1, <3>3, ConcatProperties
      <3> QED
        BY <3>4, LenProperties
    <2>3. Reads(Pieces, s, b, 0, zero, v, all)
      BY <1>1, <2>1, <2>2, ReadStream
    <2> QED
      BY <2>3 DEF Reads
  <1>5. 1 \in 1..Len(b) /\ b[1] = s[1] /\ s[1] \in Pieces /\ 1 \in DOMAIN s /\ s # <<>>
    <2> HIDE DEF start, last, req
    <2>1. Len(s) \in Nat /\ DOMAIN s = 1..Len(s)
      BY <1>4, LenProperties
    <2>2. 1 \in 1..Len(b) /\ 1 \in 1..Len(s)
      BY <1>4, <2>1
    <2>3. s[1] \in Pieces
      BY <1>4, <2>2, ElementOfSeq
    <2>4. s # <<>>
      BY <2>1, <2>2
    <2> QED
      BY <1>4, <2>1, <2>2, <2>3, <2>4
  <1>6. s[1].part \in Parts
    <2> HIDE DEF start, last, req
    <2> QED
      BY <1>5 DEF Pieces
  <1>7. last \in {1, 2} /\ last <= Len(b)
    <2> HIDE DEF start
    <2> QED
      BY <1>4
  <1>8. req \in Requests => req = s[last].req
    <2> SUFFICES ASSUME req \in Requests PROVE req = s[last].req
      OBVIOUS
    <2>1. CASE reading.req # Nobody
      <3>1. start = reading
        BY <2>1 DEF StartReading
      <3>2. reading # NotReading
        BY <2>1 DEF NotReading
      <3>3. reading.head = TRUE /\ (reading.req \in Requests => s[1].req = reading.req)
        BY <1>2, <3>2 DEF Continues
      <3>4. last = 1 /\ req = reading.req
        BY <3>1, <3>3
      <3> QED
        BY <3>3, <3>4
    <2>2. CASE reading.req = Nobody
      <3>1. reading = NotReading
        BY <1>2, <2>2 DEF Continues
      <3>2. reading.head = FALSE
        BY <3>1 DEF NotReading
      <3>3. start = [req |-> Fresh, head |-> FALSE]
        <4>1. MaxConcurrent # 1
          BY DEF SeveralAtOnce
        <4> QED
          BY <2>2, <4>1 DEF StartReading
      <3>4. start.req = Fresh /\ start.head = FALSE
        BY <3>3
      <3> HIDE DEF start
      <3>5. req = IdentifyReadingRequest(s[1])
        BY <1>5, <3>4
      <3>6. req = s[1].req
        <4>1. PICK e \in Pieces : e = s[1]
          BY <1>5
        <4>2. req = IdentifyReadingRequest(e)
          BY <3>5, <4>1
        <4> HIDE DEF req
        <4>3. req = e.req
          BY <4>1, <4>2, CIdentified
        <4> QED
          BY <4>1, <4>3
      <3>7. s[1].part # "tail"
        BY <1>2, <1>5, <3>2 DEF Formed
      <3>8. CASE last = 1
        BY <3>6, <3>8
      <3>9. CASE last # 1
        <4>1. last = 2 /\ s[1].part # "bad"
          BY <1>5, <1>7, <3>4, <3>9
        <4>2. s[1].part = "head"
          BY <1>6, <3>7, <4>1 DEF Parts
        <4>3. s[1 + 1].req = s[1].req
          BY <1>2, <1>5, <4>2 DEF Formed
        <4>4. s[last].req = s[1].req
          <5> HIDE DEF req, last
          <5>1. last = 1 + 1
            BY <4>1
          <5> QED
            BY <4>3, <5>1, Zenon
        <4> HIDE DEF req, last
        <4> QED
          BY <3>6, <4>4
      <3> QED
        BY <3>8, <3>9
    <2> QED
      BY <2>1, <2>2
  <1> HIDE DEF start, last, req
  <1>9. last \in Nat /\ last \in 1..Len(b) /\ b[last] = s[last] /\ last <= Len(s)
    <2>1. Len(s) \in Nat
      BY <1>4, LenProperties
    <2>2. last \in Nat /\ last \in 1..Len(b) /\ last <= Len(s)
      BY <1>4, <1>7, <2>1
    <2> QED
      BY <1>4, <2>2
  <1>10. PICK rest : rest = p.rest /\ rest = SubSeq(b, last + 1, Len(b))
    BY <1>3
  <1>11. t = rest \o v
    BY <1>10
  <1>12. SuffixOf(Pieces, s, last, t) /\ rest \in Seq(Pieces) /\ v \in Seq(Pieces)
    <2>1. Reads(Pieces, s, b, last, rest, v, t)
      BY <1>1, <1>7, <1>9, <1>10, <1>11, ReadStream
    <2> QED
      BY <2>1 DEF Reads
  <1>13. Parsed(s, last, t, p, v)
    BY <1>3, <1>4, <1>7, <1>8, <1>9, <1>10, <1>12 DEF Parsed
  <1> QED
    BY <1>13


\* The stream after a read event, with what it read being kept in rd.
LEMMA CRepliesRead ==
    ASSUME CInv, CReplies, UNCHANGED <<crtId, id>>, NEW s, NEW k, NEW t, NEW p, NEW v,
           NEW mid, Formed(s, mid), Parsed(s, k, t, p, v),
           wire' = v, inbuf' = p.rest, t = p.rest \o v,
           \/ reading' = NotReading /\ p.part # "head"
           \/ /\ reading'.head = TRUE /\ reading'.req # Nobody /\ p.part = "head"
              /\ reading'.req \in Requests => reading'.req = p.req,
           answer' \in [Requests -> Requests \cup {Nobody}],
           \A r \in Requests : answer'[r] \in {Nobody, r},
           outbuf' \in Seq(Owned'), UNCHANGED atServer
    PROVE  CReplies'
  <1>1. /\ k \in Nat \ {0} /\ k <= Len(s) /\ s \in Seq(Pieces) /\ SuffixOf(Pieces, s, k, t)
        /\ p.rest \in Seq(Pieces) /\ v \in Seq(Pieces)
        /\ p.part = s[k].part
        /\ p.req \in Requests => p.req = s[k].req
    BY DEF Parsed
  <1>2. Owned \subseteq Owned' /\ Pieces \subseteq Pieces'
    BY COwnedSame
  <1>3. atServer \in Seq(Owned)
    BY CRepliesParts
  <1>4. atServer' \in Seq(Owned') /\ wire' \in Seq(Pieces') /\ inbuf' \in Seq(Pieces')
    BY <1>1, <1>2, <1>3, SeqMore
  <1>5. After(s, k, t)
    BY <1>1, FormedSuffix
  <1>6. PICK h \in BOOLEAN :
           /\ h <=> s[k].part = "head"
           /\ Formed(t, h)
           /\ h => t # <<>> /\ t[1].req = s[k].req
    BY <1>5, Zenon DEF After
  <1>7. t = inbuf' \o wire'
    OBVIOUS
  <1>8. CASE reading' = NotReading /\ p.part # "head"
    <2>1. reading'.head = FALSE /\ Continues(t, reading')
      BY <1>8 DEF NotReading, Continues
    <2>2. Formed(t, reading'.head)
      BY <1>1, <1>6, <1>8, <2>1 DEF Formed
    <2> QED
      BY <1>4, <1>7, <2>1, <2>2, CRepliesNext
  <1>9. CASE /\ reading'.head = TRUE /\ reading'.req # Nobody /\ p.part = "head"
             /\ reading'.req \in Requests => reading'.req = p.req
    <2>1. Continues(t, reading')
      BY <1>1, <1>6, <1>9 DEF Continues
    <2>2. Formed(t, reading'.head)
      BY <1>1, <1>6, <1>9 DEF Formed
    <2> QED
      BY <1>4, <1>7, <2>1, <2>2, CRepliesNext
  <1> QED
    BY <1>8, <1>9

\* NotifyConnectionRead: the reply is given to the request it answers.
LEMMA CReadReplies ==
    ASSUME ClientConstants, SeveralAtOnce, CInv, CReplies, NotifyConnectionRead
    PROVE  CReplies'
  <1> DEFINE P(n) == Parse(inbuf \o SubSeq(wire, 1, n))
             M(n) == IF P(n).req \in Requests THEN {P(n).req} ELSE {}
             L(n) == timeouts \ {kRequestTimeout + id[q] : q \in M(n)}
  <1>1. UNCHANGED <<crtId, id>>
    BY DEF NotifyConnectionRead
  <1>2. PICK n \in 1..Len(wire) :
          \/ /\ P(n).part = "head"
             /\ reading' = [req |-> IF ~(P(n).req \in Requests) THEN Fresh ELSE P(n).req, head |-> TRUE]
             /\ wire' = SubSeq(wire, n + 1, Len(wire)) /\ inbuf' = P(n).rest
             /\ UNCHANGED <<answer, outbuf, atServer>>
          \/ UNCHANGED <<reading, answer, outbuf, atServer, wire, inbuf>>
          \/ /\ P(n).part = "tail"
             /\ reading' = NotReading
             /\ answer' = [q \in Requests |-> IF q \in M(n) THEN P(n).from ELSE answer[q]]
             /\ WriteRequestsToServer(waiting, active \ M(n), L(n))
             /\ wire' = SubSeq(wire, n + 1, Len(wire)) /\ inbuf' = P(n).rest
             /\ UNCHANGED atServer
          \/ /\ Closed("dependency", waiting, active \ M(n), M(n), "parsing")
             /\ UNCHANGED answer
    BY DEF NotifyConnectionRead, net
  <1> DEFINE p == P(n)
             mine == M(n)
             left == L(n)
             v == SubSeq(wire, n + 1, Len(wire))
             b == inbuf \o SubSeq(wire, 1, n)
             s == inbuf \o wire
             t == p.rest \o v
  <1>3. /\ p = Parse(b) /\ b = inbuf \o SubSeq(wire, 1, n) /\ s = inbuf \o wire
        /\ v = SubSeq(wire, n + 1, Len(wire)) /\ t = p.rest \o v
        /\ mine = IF p.req \in Requests THEN {p.req} ELSE {}
    OBVIOUS
  <1>4. \/ /\ p.part = "head"
           /\ reading' = [req |-> IF ~(p.req \in Requests) THEN Fresh ELSE p.req, head |-> TRUE]
           /\ wire' = v /\ inbuf' = p.rest
           /\ UNCHANGED <<answer, outbuf, atServer>>
        \/ UNCHANGED <<reading, answer, outbuf, atServer, wire, inbuf>>
        \/ /\ p.part = "tail"
           /\ reading' = NotReading
           /\ answer' = [q \in Requests |-> IF q \in mine THEN p.from ELSE answer[q]]
           /\ WriteRequestsToServer(waiting, active \ mine, left)
           /\ wire' = v /\ inbuf' = p.rest
           /\ UNCHANGED atServer
        \/ /\ Closed("dependency", waiting, active \ mine, mine, "parsing")
           /\ UNCHANGED answer
    BY <1>2
  <1> HIDE DEF P, M, L, p, mine, left, v, b, s, t
  <1>5. PICK k : Parsed(s, k, t, p, v)
    BY <1>3, CParsed
  <1>6. PICK mid : mid = reading.head
    OBVIOUS
  <1>7. Formed(s, mid)
    <2>1. Formed(s, reading.head)
      BY <1>3 DEF CReplies, CStream
    <2> QED
      BY <1>6, <2>1
  <1>8. /\ answer \in [Requests -> Requests \cup {Nobody}]
        /\ \A r \in Requests : answer[r] \in {Nobody, r}
        /\ outbuf \in Seq(Owned)
    BY CRepliesParts
  <1>9. outbuf \in Seq(Owned')
    <2>1. Owned \subseteq Owned'
      BY <1>1, COwnedSame
    <2> QED
      BY <1>8, <2>1, SeqMore
  <1>10. CASE /\ p.part = "head"
              /\ reading' = [req |-> IF ~(p.req \in Requests) THEN Fresh ELSE p.req, head |-> TRUE]
              /\ wire' = v /\ inbuf' = p.rest
              /\ UNCHANGED <<answer, outbuf, atServer>>
    <2>1. /\ reading'.head = TRUE /\ reading'.req # Nobody
          /\ reading'.req \in Requests => reading'.req = p.req
      BY <1>10 DEF SeveralAtOnce, Fresh, Nobody
    <2>2. /\ outbuf' \in Seq(Owned') /\ UNCHANGED atServer
          /\ answer' \in [Requests -> Requests \cup {Nobody}]
          /\ \A r \in Requests : answer'[r] \in {Nobody, r}
          /\ wire' = v /\ inbuf' = p.rest /\ p.part = "head"
      BY <1>8, <1>9, <1>10
    <2> QED
      BY <1>1, <1>3, <1>5, <1>7, <2>1, <2>2, CRepliesRead
  <1>11. CASE UNCHANGED <<reading, answer, outbuf, atServer, wire, inbuf>>
    BY <1>1, <1>11, CRepliesSame
  <1>12. CASE /\ p.part = "tail"
              /\ reading' = NotReading
              /\ answer' = [q \in Requests |-> IF q \in mine THEN p.from ELSE answer[q]]
              /\ WriteRequestsToServer(waiting, active \ mine, left)
              /\ wire' = v /\ inbuf' = p.rest
              /\ UNCHANGED atServer
    <2>1. p.req \in Requests => p.from = p.req
      BY <1>5 DEF Parsed
    <2>2. /\ answer' \in [Requests -> Requests \cup {Nobody}]
          /\ \A r \in Requests : answer'[r] \in {Nobody, r}
      <3>1. \A q \in Requests : q \in mine => p.from = q
        BY <1>3, <2>1
      <3>2. \A q \in Requests : answer'[q] = IF q \in mine THEN q ELSE answer[q]
        BY <1>12, <3>1
      <3>3. DOMAIN answer' = Requests /\ answer' = [q \in Requests |-> answer'[q]]
        BY <1>12
      <3>4. \A q \in Requests : answer'[q] \in {Nobody, q}
        BY <1>8, <3>2
      <3> QED
        BY <3>3, <3>4
    <2>3. /\ waiting \in Seq(Requests) /\ IsFiniteSet(active)
          /\ Cardinality(active) <= MaxConcurrent
          /\ id' \in [Requests -> Nat]
          /\ \A q \in Requests : id'[q] < crtId'
          /\ \A q, r \in Requests : id'[q] = id'[r] /\ id'[q] # 0 => q = r
          /\ \A q \in Elems(waiting) : id'[q] # 0
      BY <1>1, CParts
    <2>4. PICK a : a = active \ mine
      OBVIOUS
    <2>5. IsFiniteSet(a) /\ Cardinality(a) <= MaxConcurrent
      <3>1. IsFiniteSet(a) /\ Cardinality(a) <= Cardinality(active)
        BY <2>3, <2>4, FS_Subset
      <3>2. Cardinality(a) \in Nat /\ Cardinality(active) \in Nat
        BY <2>3, <3>1, FS_CardinalityType
      <3> QED
        BY <2>3, <3>1, <3>2 DEF ClientConstants
    <2>6. WriteRequestsToServer(waiting, a, left)
      BY <1>12, <2>4
    <2>7. outbuf' \in Seq(Owned')
      BY <1>9, <2>3, <2>5, <2>6, CWriteOwned
    <2>8. /\ wire' = v /\ inbuf' = p.rest /\ UNCHANGED atServer
          /\ reading' = NotReading /\ p.part # "head"
      BY <1>12
    <2> QED
      BY <1>1, <1>3, <1>5, <1>7, <2>2, <2>7, <2>8, CRepliesRead
  <1>13. CASE /\ Closed("dependency", waiting, active \ mine, mine, "parsing")
              /\ UNCHANGED answer
    BY <1>13, CRepliesEnds
  <1> QED
    BY <1>4, <1>10, <1>11, <1>12, <1>13

\* The constructor.
LEMMA CInitReplies ==
    ASSUME Init
    PROVE  CReplies
  <1>1. /\ reading = NotReading /\ answer = [r \in Requests |-> Nobody]
        /\ outbuf = <<>> /\ atServer = <<>> /\ wire = <<>> /\ inbuf = <<>>
    BY DEF Init
  <1>2. CAnswers
    BY <1>1 DEF CAnswers, OwnReply
  <1>3. CNet
    BY <1>1, EmptySeq DEF CNet
  <1> DEFINE s == inbuf \o wire
  <1>4. s = <<>>
    BY <1>1
  <1>5. s = inbuf \o wire
    OBVIOUS
  <1> HIDE DEF s
  <1>6. reading.head = FALSE
    BY <1>1 DEF NotReading
  <1>7. Formed(s, reading.head) /\ Continues(s, reading)
    BY <1>1, <1>4, <1>6 DEF Formed, Continues
  <1> QED
    BY <1>2, <1>3, <1>5, <1>7 DEF CReplies, CStream

\* Every step.
LEMMA CNextReplies ==
    ASSUME ClientConstants, SeveralAtOnce
    PROVE  CInv /\ CReplies /\ [Next]_(vars) => CReplies'
  <1> SUFFICES ASSUME CInv, CReplies, [Next]_(vars) PROVE CReplies'
    OBVIOUS
  <1>1. ASSUME NEW r \in Requests, SendRequest(r) PROVE CReplies'
    BY <1>1, CSendReplies
  <1> QED
    BY <1>1, COtherReplies, CConnectedReplies, CWriteReplies, CReadReplies, CServerReplies
       DEF Next

\* A request is given the reply to itself, however many were sent, timed out
\* and answered before, in whatever order and pieces the replies come: for any
\* number of requests, where more than one may be on the line.
THEOREM ClientOwnReply ==
    ASSUME SeveralAtOnce
    PROVE  Spec => []OwnReply
  <1>1. ClientConstants
    BY HttpClientAssumption DEF ClientConstants
  <1>2. Init => CInv /\ CReplies
    BY <1>1, CInitInv, CInitReplies
  <1>3. (CInv /\ CReplies) /\ [Next]_vars => (CInv /\ CReplies)'
    BY <1>1, CNextInv, CNextReplies
  <1>4. CInv /\ CReplies => OwnReply
    BY DEF CReplies, CAnswers
  <1> QED
    BY <1>2, <1>3, <1>4, PTL DEF Spec
=============================================================================
