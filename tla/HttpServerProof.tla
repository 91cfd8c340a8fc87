-------------------------- MODULE HttpServerProof ---------------------------
(***************************************************************************)
(* Safety of one connection of the HTTP server, for any number of requests,*)
(* any limits and any policy: an event is a composition of functions on    *)
(* states, and there is a lemma about each.                                *)
(***************************************************************************)
EXTENDS HttpServer, FiniteSetTheorems, SequenceTheorems, TLAPS

-----------------------------------------------------------------------------
(* Sequences *)

\* A sequence with one more element.
LEMMA AppendAt ==
    ASSUME NEW S, NEW s \in Seq(S), NEW e \in S, NEW t, t = Append(s, e)
    PROVE  /\ t \in Seq(S) /\ Len(s) \in Nat /\ Len(t) = Len(s) + 1
           /\ DOMAIN s = 1..Len(s) /\ DOMAIN t = 1..(Len(s) + 1)
           /\ \A i \in DOMAIN s : i \in DOMAIN t /\ t[i] = s[i]
           /\ t[Len(s) + 1] = e
  <1>1. /\ t \in Seq(S) /\ Len(t) = Len(s) + 1
        /\ \A i \in 1..Len(s) : t[i] = s[i]
        /\ t[Len(s) + 1] = e
    BY AppendProperties
  <1>2. DOMAIN s = 1..Len(s) /\ Len(s) \in Nat /\ DOMAIN t = 1..Len(t)
    BY <1>1, LenProperties
  <1> QED
    BY <1>1, <1>2

\* A sequence without its head.
LEMMA TailAt ==
    ASSUME NEW S, NEW s \in Seq(S), s # <<>>, NEW t, t = Tail(s)
    PROVE  /\ t \in Seq(S) /\ Len(s) \in Nat \ {0} /\ Len(t) = Len(s) - 1
           /\ DOMAIN s = 1..Len(s) /\ DOMAIN t = 1..(Len(s) - 1)
           /\ \A i \in DOMAIN t : i + 1 \in DOMAIN s /\ t[i] = s[i + 1]
           /\ \A i \in DOMAIN s : i # 1 => i - 1 \in DOMAIN t /\ s[i] = t[i - 1]
           /\ 1 \in DOMAIN s /\ Head(s) = s[1] /\ s[1] \in S
  <1>1. /\ Len(s) \in Nat \ {0} /\ DOMAIN s = 1..Len(s)
    BY EmptySeq, LenProperties
  <1>2. Head(s) = s[1] /\ s[1] \in S
    BY <1>1, ElementOfSeq
  <1>3. /\ t \in Seq(S) /\ Len(t) = Len(s) - 1
        /\ \A i \in 1..Len(t) : t[i] = s[i + 1]
    BY <1>1, HeadTailProperties
  <1>4. DOMAIN t = 1..(Len(s) - 1)
    BY <1>3, LenProperties
  <1>5. \A i \in DOMAIN s : i # 1 => i - 1 \in 1..(Len(s) - 1) /\ s[i] = t[i - 1]
    <2> SUFFICES ASSUME NEW i \in 1..Len(s), i # 1
                 PROVE  i - 1 \in 1..(Len(s) - 1) /\ s[i] = t[i - 1]
      BY <1>1
    <2>1. i - 1 \in 1..(Len(s) - 1) /\ (i - 1) + 1 = i
      BY <1>1
    <2>2. t[i - 1] = s[(i - 1) + 1]
      BY <1>1, <1>3, <2>1
    <2> QED
      BY <2>1, <2>2
  <1> QED
    BY <1>1, <1>2, <1>3, <1>4, <1>5

Elems(s) == {s[i] : i \in DOMAIN s}

First(s, n) == {s[i] : i \in 1..n}

Injective(s) == \A i, j \in DOMAIN s : s[i] = s[j] => i = j

\* The elements of a sequence with one more ...
MoreBy(S, s, e, t) ==
    /\ t \in Seq(S) /\ Elems(t) = Elems(s) \cup {e}
    /\ Injective(s) /\ e \notin Elems(s) => Injective(t)

\* (Append gives it)
LEMMA ElemsAppend ==
    ASSUME NEW S, NEW s \in Seq(S), NEW e \in S, NEW t, t = Append(s, e)
    PROVE  MoreBy(S, s, e, t)
  <1>1. /\ t \in Seq(S) /\ Len(s) \in Nat /\ DOMAIN s = 1..Len(s) /\ DOMAIN t = 1..(Len(s) + 1)
        /\ \A i \in DOMAIN s : i \in DOMAIN t /\ t[i] = s[i]
        /\ t[Len(s) + 1] = e
    BY AppendAt
  <1>2. \A i \in DOMAIN t : i \in DOMAIN s \/ i = Len(s) + 1
    BY <1>1
  <1>3. Len(s) + 1 \in DOMAIN t
    BY <1>1
  <1>4. Elems(t) = Elems(s) \cup {e}
    BY <1>1, <1>2, <1>3 DEF Elems
  <1>5. ASSUME Injective(s), e \notin Elems(s) PROVE Injective(t)
    <2> SUFFICES ASSUME NEW i \in DOMAIN t, NEW j \in DOMAIN t, t[i] = t[j] PROVE i = j
      BY DEF Injective
    <2>1. \A k \in DOMAIN s : s[k] # e
      BY <1>5 DEF Elems
    <2> QED
      BY <1>1, <1>2, <1>5, <2>1 DEF Injective
  <1> QED
    BY <1>1, <1>4, <1>5 DEF MoreBy

\* ... without its head ...
LEMMA ElemsTail ==
    ASSUME NEW S, NEW s \in Seq(S), s # <<>>, NEW t, t = Tail(s)
    PROVE  /\ t \in Seq(S) /\ Head(s) \in S /\ Elems(s) = Elems(t) \cup {Head(s)}
           /\ Injective(s) => Injective(t) /\ Head(s) \notin Elems(t)
  <1>1. /\ t \in Seq(S) /\ Len(s) \in Nat \ {0}
        /\ DOMAIN s = 1..Len(s) /\ DOMAIN t = 1..(Len(s) - 1)
        /\ \A i \in DOMAIN t : i + 1 \in DOMAIN s /\ t[i] = s[i + 1]
        /\ \A i \in DOMAIN s : i # 1 => i - 1 \in DOMAIN t /\ s[i] = t[i - 1]
        /\ 1 \in DOMAIN s /\ Head(s) = s[1] /\ s[1] \in S
    BY TailAt
  <1>2. Elems(s) = Elems(t) \cup {Head(s)}
    <2>1. ASSUME NEW x \in Elems(s) PROVE x \in Elems(t) \cup {Head(s)}
      <3>1. PICK i \in DOMAIN s : x = s[i]
        BY <2>1 DEF Elems
      <3> QED
        BY <1>1, <3>1 DEF Elems
    <2>2. ASSUME NEW x \in Elems(t) PROVE x \in Elems(s)
      <3>1. PICK i \in DOMAIN t : x = t[i]
        BY <2>2 DEF Elems
      <3> QED
        BY <1>1, <3>1 DEF Elems
    <2>3. Head(s) \in Elems(s)
      BY <1>1 DEF Elems
    <2> QED
      BY <2>1, <2>2, <2>3
  <1>3. ASSUME Injective(s) PROVE Injective(t) /\ Head(s) \notin Elems(t)
    <2>1. \A i, j \in DOMAIN t : t[i] = t[j] => i + 1 = j + 1
      BY <1>1, <1>3 DEF Injective
    <2>2. Injective(t)
      BY <1>1, <2>1 DEF Injective
    <2>3. \A i \in DOMAIN t : i + 1 # 1 /\ t[i] # s[1]
      <3> SUFFICES ASSUME NEW i \in DOMAIN t PROVE i + 1 # 1 /\ t[i] # s[1]
        OBVIOUS
      <3>1. i + 1 # 1
        BY <1>1
      <3> QED
        BY <1>1, <1>3, <3>1 DEF Injective
    <2> QED
      BY <1>1, <2>2, <2>3 DEF Elems
  <1> QED
    BY <1>1, <1>2, <1>3

\* ... without the first n.
SuffixOf(S, s, n, t) ==
    /\ t \in Seq(S) /\ First(s, n) \subseteq S /\ Elems(s) = First(s, n) \cup Elems(t)
    /\ Len(t) = Len(s) - n
    /\ \A i \in DOMAIN t : n + i \in DOMAIN s /\ t[i] = s[n + i]
    /\ Injective(s) => Injective(t) /\ First(s, n) \cap Elems(t) = {}

\* SubSeq gives it.
LEMMA ElemsSuffix ==
    ASSUME NEW S, NEW s \in Seq(S), NEW n \in Nat, n <= Len(s),
           NEW t, t = SubSeq(s, n + 1, Len(s))
    PROVE  SuffixOf(S, s, n, t)
  <1> DEFINE P == First(s, n)
  <1>1. P = {s[i] : i \in 1..n}
    BY DEF First
  <1> HIDE DEF P
  <1>2. Len(s) \in Nat /\ DOMAIN s = 1..Len(s) /\ \A i \in 1..Len(s) : s[i] \in S
    BY LenProperties, ElementOfSeq
  <1>3. /\ t \in Seq(S) /\ Len(t) = Len(s) - n
        /\ \A i \in 1..(Len(s) - n) : t[i] = s[n + i]
    <2>1. \A i \in (n + 1)..Len(s) : s[i] \in S
      BY <1>2
    <2>2. /\ t \in Seq(S) /\ Len(t) = IF n + 1 <= Len(s) THEN Len(s) - (n + 1) + 1 ELSE 0
          /\ \A i \in 1..(Len(s) - (n + 1) + 1) : t[i] = s[(n + 1) + i - 1]
      BY <1>2, <2>1, SubSeqProperties
    <2>3. Len(t) = Len(s) - n
      <3> DEFINE L == Len(s)
                 T == Len(t)
      <3>1. L \in Nat /\ n <= L /\ T = IF n + 1 <= L THEN L - (n + 1) + 1 ELSE 0
        BY <1>2, <2>2
      <3> HIDE DEF L, T
      <3>2. T = L - n
        BY <3>1
      <3> QED
        BY <3>2 DEF L, T
    <2>4. ASSUME NEW i \in 1..(Len(s) - n) PROVE t[i] = s[n + i]
      <3>1. i \in 1..(Len(s) - (n + 1) + 1) /\ (n + 1) + i - 1 = n + i
        BY <1>2
      <3> QED
        BY <2>2, <3>1
    <2> QED
      BY <2>2, <2>3, <2>4
  <1>4. DOMAIN t = 1..(Len(s) - n)
    BY <1>3, LenProperties
  <1>5. \A i \in DOMAIN t : n + i \in DOMAIN s /\ t[i] = s[n + i]
    <2> SUFFICES ASSUME NEW i \in 1..(Len(s) - n) PROVE n + i \in 1..Len(s) /\ t[i] = s[n + i]
      BY <1>2, <1>4
    <2>1. n + i \in 1..Len(s)
      BY <1>2
    <2> QED
      BY <1>3, <2>1
  <1>6. \A i \in DOMAIN s : i <= n \/ (i - n \in DOMAIN t /\ s[i] = t[i - n])
    <2> SUFFICES ASSUME NEW i \in 1..Len(s), ~ (i <= n)
                 PROVE  i - n \in DOMAIN t /\ s[i] = t[i - n]
      BY <1>2
    <2>1. i - n \in 1..(Len(s) - n) /\ n + (i - n) = i
      BY <1>2
    <2> QED
      BY <1>3, <1>4, <2>1
  <1>7. Elems(s) = P \cup Elems(t)
    <2>1. ASSUME NEW x \in Elems(s) PROVE x \in P \cup Elems(t)
      <3>1. PICK i \in DOMAIN s : x = s[i]
        BY <2>1 DEF Elems
      <3>2. CASE i <= n
        BY <1>1, <1>2, <3>1, <3>2
      <3>3. CASE i - n \in DOMAIN t /\ s[i] = t[i - n]
        BY <3>1, <3>3 DEF Elems
      <3> QED
        BY <1>6, <3>2, <3>3
    <2>2. Elems(t) \subseteq Elems(s)
      BY <1>5 DEF Elems
    <2>3. P \subseteq Elems(s)
      BY <1>1, <1>2 DEF Elems
    <2> QED
      BY <2>1, <2>2, <2>3
  <1>8. P \subseteq S
    BY <1>1, <1>2
  <1>9. ASSUME Injective(s) PROVE Injective(t) /\ P \cap Elems(t) = {}
    <2>1. Injective(t)
      <3> SUFFICES ASSUME NEW i \in DOMAIN t, NEW j \in DOMAIN t, t[i] = t[j] PROVE i = j
        BY DEF Injective
      <3>1. n + i = n + j
        BY <1>5, <1>9 DEF Injective
      <3> QED
        BY <1>4, <3>1
    <2>2. \A i \in 1..n, j \in DOMAIN t : s[i] # t[j]
      <3> SUFFICES ASSUME NEW i \in 1..n, NEW j \in DOMAIN t, s[i] = t[j] PROVE FALSE
        OBVIOUS
      <3>1. i \in DOMAIN s /\ n + j \in DOMAIN s /\ s[i] = s[n + j]
        BY <1>2, <1>5
      <3>2. i = n + j
        BY <1>9, <3>1 DEF Injective
      <3> QED
        BY <1>2, <1>4, <3>2
    <2> QED
      BY <1>1, <2>1, <2>2 DEF Elems
  <1> QED
    BY <1>3, <1>5, <1>7, <1>8, <1>9 DEF P, SuffixOf

\* Two sequences in a row.
Joined(S, s, t, u) ==
    /\ s \in Seq(S) /\ t \in Seq(S)
    /\ u \in Seq(S) /\ Len(u) = Len(s) + Len(t) /\ Len(s) \in Nat /\ Len(t) \in Nat
    /\ DOMAIN u = 1..(Len(s) + Len(t)) /\ DOMAIN s = 1..Len(s) /\ DOMAIN t = 1..Len(t)
    /\ \A i \in DOMAIN s : i \in DOMAIN u /\ u[i] = s[i]
    /\ \A i \in DOMAIN u : i \notin DOMAIN s => i - Len(s) \in DOMAIN t /\ u[i] = t[i - Len(s)]

\* \o gives them.
LEMMA ConcatAt ==
    ASSUME NEW S, NEW s \in Seq(S), NEW t \in Seq(S), NEW u, u = s \o t
    PROVE  Joined(S, s, t, u)
  <1>1. /\ u \in Seq(S) /\ Len(u) = Len(s) + Len(t)
        /\ \A i \in 1..Len(s) + Len(t) : u[i] = IF i <= Len(s) THEN s[i] ELSE t[i - Len(s)]
    BY ConcatProperties
  <1>2. Len(s) \in Nat /\ Len(t) \in Nat /\ DOMAIN s = 1..Len(s) /\ DOMAIN t = 1..Len(t)
    BY LenProperties
  <1>3. DOMAIN u = 1..Len(u)
    BY <1>1, LenProperties
  <1>4. \A i \in DOMAIN s : i \in DOMAIN u /\ u[i] = s[i]
    BY <1>1, <1>2, <1>3
  <1>5. \A i \in DOMAIN u : i \notin DOMAIN s => i - Len(s) \in DOMAIN t /\ u[i] = t[i - Len(s)]
    BY <1>1, <1>2, <1>3
  <1> QED
    BY <1>1, <1>2, <1>3, <1>4, <1>5 DEF Joined

\* The first one comes first.
LEMMA JoinedPrefix ==
    ASSUME NEW S, NEW b, NEW v, NEW s, Joined(S, b, v, s)
    PROVE  /\ Len(b) \in Nat /\ Len(b) <= Len(s) /\ s \in Seq(S)
           /\ \A i \in 1..Len(b) : b[i] = s[i]
           /\ \A k \in Nat : k <= Len(b) => k <= Len(s)
  <1>1. /\ Len(b) \in Nat /\ Len(v) \in Nat /\ Len(s) = Len(b) + Len(v) /\ s \in Seq(S)
        /\ DOMAIN b = 1..Len(b) /\ \A i \in DOMAIN b : s[i] = b[i]
    BY DEF Joined
  <1>2. Len(b) <= Len(s) /\ \A k \in Nat : k <= Len(b) => k <= Len(s)
    BY <1>1
  <1> QED
    BY <1>1, <1>2

\* What is dropped from the first is dropped from both.
LEMMA JoinedSuffix ==
    ASSUME NEW S, NEW k \in Nat, NEW b, NEW v, NEW s, NEW rest, NEW t, NEW x,
           k <= Len(b), Joined(S, b, v, s), SuffixOf(S, b, k, rest), Joined(S, rest, v, t),
           SuffixOf(S, s, k, x)
    PROVE  x = t
  <1>1. /\ s \in Seq(S) /\ Len(s) = Len(b) + Len(v) /\ Len(v) \in Nat /\ Len(b) \in Nat
        /\ DOMAIN s = 1..(Len(b) + Len(v)) /\ DOMAIN b = 1..Len(b) /\ DOMAIN v = 1..Len(v)
        /\ \A i \in DOMAIN b : i \in DOMAIN s /\ s[i] = b[i]
        /\ \A i \in DOMAIN s : i \notin DOMAIN b => i - Len(b) \in DOMAIN v /\ s[i] = v[i - Len(b)]
    BY DEF Joined
  <1>2. /\ rest \in Seq(S) /\ Len(rest) = Len(b) - k
        /\ \A i \in DOMAIN rest : k + i \in DOMAIN b /\ rest[i] = b[k + i]
    BY DEF SuffixOf
  <1>3. /\ t \in Seq(S) /\ Len(t) = Len(rest) + Len(v)
        /\ DOMAIN t = 1..(Len(rest) + Len(v)) /\ DOMAIN rest = 1..Len(rest)
        /\ \A i \in DOMAIN rest : i \in DOMAIN t /\ t[i] = rest[i]
        /\ \A i \in DOMAIN t : i \notin DOMAIN rest =>
              i - Len(rest) \in DOMAIN v /\ t[i] = v[i - Len(rest)]
    BY DEF Joined
  <1>4. /\ x \in Seq(S) /\ Len(x) = Len(s) - k
        /\ \A i \in DOMAIN x : k + i \in DOMAIN s /\ x[i] = s[k + i]
    BY DEF SuffixOf
  <1>5. DOMAIN x = 1..Len(x)
    BY <1>4, LenProperties
  <1>6. Len(x) = Len(t)
    BY <1>1, <1>2, <1>3, <1>4
  <1>7. ASSUME NEW i \in 1..Len(x) PROVE x[i] = t[i]
    <2>1. k + i \in DOMAIN s /\ x[i] = s[k + i] /\ i \in DOMAIN t /\ i \in Nat
      <3>1. i \in DOMAIN x
        BY <1>5
      <3>2. DOMAIN t = 1..Len(t)
        BY <1>3, LenProperties
      <3> QED
        BY <1>4, <1>6, <3>1, <3>2
    <2>2. CASE i \in DOMAIN rest
      BY <1>1, <1>2, <1>3, <2>1, <2>2
    <2>3. CASE i \notin DOMAIN rest
      <3>1. k + i \notin DOMAIN b
        BY <1>1, <1>2, <1>3, <2>1, <2>3
      <3>2. s[k + i] = v[(k + i) - Len(b)]
        BY <1>1, <2>1, <3>1
      <3>3. t[i] = v[i - Len(rest)]
        BY <1>3, <2>1, <2>3
      <3>4. (k + i) - Len(b) = i - Len(rest)
        BY <1>1, <1>2, <2>1
      <3> QED
        BY <2>1, <3>2, <3>3, <3>4
    <2> QED
      BY <2>2, <2>3
  <1> QED
    BY <1>3, <1>4, <1>6, <1>7, SeqEqual

\* Where the sequences meet does not matter.
LEMMA Rejoined ==
    ASSUME NEW S, NEW i, NEW f, NEW v, NEW w, NEW b, NEW s,
           Joined(S, f, v, w), Joined(S, i, f, b), Joined(S, i, w, s)
    PROVE  Joined(S, b, v, s)
  <1>1. /\ v \in Seq(S) /\ Len(w) = Len(f) + Len(v) /\ Len(f) \in Nat /\ Len(v) \in Nat
        /\ DOMAIN w = 1..(Len(f) + Len(v)) /\ DOMAIN f = 1..Len(f) /\ DOMAIN v = 1..Len(v)
        /\ \A k \in DOMAIN f : k \in DOMAIN w /\ w[k] = f[k]
        /\ \A k \in DOMAIN w : k \notin DOMAIN f => k - Len(f) \in DOMAIN v /\ w[k] = v[k - Len(f)]
    BY DEF Joined
  <1>2. /\ b \in Seq(S) /\ Len(b) = Len(i) + Len(f) /\ Len(i) \in Nat
        /\ DOMAIN b = 1..(Len(i) + Len(f)) /\ DOMAIN i = 1..Len(i)
        /\ \A k \in DOMAIN i : k \in DOMAIN b /\ b[k] = i[k]
        /\ \A k \in DOMAIN b : k \notin DOMAIN i => k - Len(i) \in DOMAIN f /\ b[k] = f[k - Len(i)]
    BY DEF Joined
  <1>3. /\ s \in Seq(S) /\ Len(s) = Len(i) + Len(w)
        /\ DOMAIN s = 1..(Len(i) + Len(w))
        /\ \A k \in DOMAIN i : k \in DOMAIN s /\ s[k] = i[k]
        /\ \A k \in DOMAIN s : k \notin DOMAIN i => k - Len(i) \in DOMAIN w /\ s[k] = w[k - Len(i)]
    BY DEF Joined
  <1>4. Len(s) = Len(b) + Len(v) /\ DOMAIN s = 1..(Len(b) + Len(v)) /\ DOMAIN b = 1..Len(b)
        /\ Len(b) \in Nat
    BY <1>1, <1>2, <1>3
  <1>5. ASSUME NEW k \in DOMAIN b PROVE k \in DOMAIN s /\ s[k] = b[k]
    <2>1. k \in DOMAIN s
      BY <1>1, <1>4
    <2>2. CASE k \in DOMAIN i
      BY <1>2, <1>3, <2>1, <2>2
    <2>3. CASE k \notin DOMAIN i
      <3>1. k - Len(i) \in DOMAIN f /\ b[k] = f[k - Len(i)] /\ s[k] = w[k - Len(i)]
        BY <1>2, <1>3, <2>1, <2>3
      <3> QED
        BY <1>1, <2>1, <3>1
    <2> QED
      BY <2>2, <2>3
  <1>6. ASSUME NEW k \in DOMAIN s, k \notin DOMAIN b
        PROVE  k - Len(b) \in DOMAIN v /\ s[k] = v[k - Len(b)]
    <2>1. k \notin DOMAIN i /\ k \in Nat
      BY <1>2, <1>4, <1>6
    <2>2. k - Len(i) \in DOMAIN w /\ s[k] = w[k - Len(i)]
      BY <1>3, <2>1
    <2>3. k - Len(i) \notin DOMAIN f
      BY <1>1, <1>2, <1>4, <1>6, <2>1
    <2>4. (k - Len(i)) - Len(f) \in DOMAIN v /\ w[k - Len(i)] = v[(k - Len(i)) - Len(f)]
      BY <1>1, <2>2, <2>3
    <2>5. (k - Len(i)) - Len(f) = k - Len(b)
      BY <1>1, <1>2, <2>1
    <2> QED
      BY <2>2, <2>4, <2>5
  <1> QED
    BY <1>1, <1>2, <1>3, <1>4, <1>5, <1>6 DEF Joined

\* A read event takes the first n pieces from the wire and parses k pieces of
\* the buffer b then.
Reads(S, s, b, k, rest, v, t) ==
    /\ s \in Seq(S) /\ b \in Seq(S) /\ Len(b) \in Nat \ {0} /\ Len(b) <= Len(s)
    /\ \A i \in 1..Len(b) : b[i] = s[i]
    /\ SuffixOf(S, s, k, t)
    /\ rest \in Seq(S) /\ v \in Seq(S)

\* The stream is what is in the buffer and on the wire.
LEMMA ReadStream ==
    ASSUME NEW S, NEW ib \in Seq(S), NEW w \in Seq(S), NEW n \in 1..Len(w),
           NEW b, b = ib \o SubSeq(w, 1, n), NEW k \in Nat, k <= Len(b),
           NEW rest, rest = SubSeq(b, k + 1, Len(b)), NEW v, v = SubSeq(w, n + 1, Len(w)),
           NEW s, s = ib \o w, NEW t, t = rest \o v
    PROVE  Reads(S, s, b, k, rest, v, t)
  <1> DEFINE f == SubSeq(w, 1, n)
  <1>1. Len(w) \in Nat /\ n \in Nat /\ n <= Len(w) /\ n # 0
    BY LenProperties
  <1>2. f \in Seq(S) /\ Len(f) = n
    <2>1. \A i \in 1..n : w[i] \in S
      BY <1>1, ElementOfSeq
    <2> QED
      BY <1>1, <2>1, SubSeqProperties
  <1>3. SuffixOf(S, w, n, v)
    BY <1>1, ElemsSuffix
  <1>4. v \in Seq(S)
    BY <1>3 DEF SuffixOf
  <1>5. f \o v = w
    <2>1. f \o v = SubSeq(w, 1, Len(w))
      <3>1. 1 \in 1..Len(w)+1 /\ n \in (1 - 1)..Len(w) /\ Len(w) \in n..Len(w)
        BY <1>1
      <3> QED
        BY <3>1, ConcatAdjacentSubSeq
    <2> QED
      BY <2>1, SubSeqFull
  <1> HIDE DEF f
  <1>6. b = ib \o f
    BY DEF f
  <1>7. Joined(S, f, v, w) /\ Joined(S, ib, w, s)
    BY <1>2, <1>4, <1>5, ConcatAt
  <1>8. Joined(S, ib, f, b)
    BY <1>2, <1>6, ConcatAt
  <1>9. b \in Seq(S) /\ Len(b) = Len(ib) + n /\ Len(ib) \in Nat
    <2>1. b \in Seq(S) /\ Len(b) = Len(ib) + Len(f) /\ Len(ib) \in Nat
      BY <1>8, Zenon DEF Joined
    <2> QED
      BY <1>2, <2>1, Zenon
  <1>10. Joined(S, b, v, s)
    BY <1>7, <1>8, Rejoined
  <1>11. SuffixOf(S, b, k, rest)
    BY <1>9, ElemsSuffix
  <1>12. rest \in Seq(S)
    BY <1>11 DEF SuffixOf
  <1>13. Joined(S, rest, v, t)
    BY <1>4, <1>12, ConcatAt
  <1>14. Len(b) \in Nat \ {0} /\ Len(b) <= Len(s) /\ s \in Seq(S)
         /\ \A i \in 1..Len(b) : b[i] = s[i]
    <2>1. Len(b) <= Len(s) /\ s \in Seq(S) /\ \A i \in 1..Len(b) : b[i] = s[i]
      BY <1>10, JoinedPrefix
    <2>2. Len(b) \in Nat \ {0}
      <3> DEFINE B == Len(b)
                 I == Len(ib)
      <3>1. B = I + n /\ I \in Nat /\ n \in Nat /\ n # 0
        BY <1>1, <1>9, Zenon
      <3> HIDE DEF B, I
      <3>2. B \in Nat \ {0}
        BY <3>1
      <3> QED
        BY <3>2 DEF B
    <2> QED
      BY <2>1, <2>2, Zenon
  <1> DEFINE x == SubSeq(s, k + 1, Len(s))
  <1>15. x = SubSeq(s, k + 1, Len(s))
    OBVIOUS
  <1> HIDE DEF x
  <1>16. SuffixOf(S, s, k, x)
    <2>1. k <= Len(s)
      BY <1>10, JoinedPrefix
    <2> QED
      BY <1>14, <1>15, <2>1, ElemsSuffix
  <1>17. x = t
    BY <1>10, <1>11, <1>13, <1>16, JoinedSuffix
  <1>18. SuffixOf(S, s, k, t)
    BY <1>16, <1>17
  <1> QED
    BY <1>4, <1>9, <1>12, <1>14, <1>18 DEF Reads

-----------------------------------------------------------------------------
(* HttpServer *)

\* The ASSUME of HttpServer, as a hypothesis of the lemmas.
ServerConstants ==
    /\ NumRequests \in Nat /\ Uploads \subseteq 1..NumRequests
    /\ BadUploads \in BOOLEAN /\ Pipelining \in BOOLEAN
    /\ MaxConcurrent \in Nat /\ MaxReply \in Nat
    /\ Policy \in {"close", "drop_old", "drop_new"}

Tasks == {Delete(r) : r \in Requests} \cup {DeleteProtocol, CloseAll}

\* The types, with an output buffer that is not bounded.
ServerState ==
    [conn : {"open", "flushing", "gone"}, closed : BOOLEAN,
     recv : Requests \cup {None}, send : Requests \cup {None},
     active : SUBSET Requests, timeouts : SUBSET {kRequestTimeout, kWriteTimeout},
     out : Nat, obj : [Requests -> {"none", "live", "doomed", "freed"}],
     wants : SUBSET Requests, keep : SUBSET Requests, streaming : SUBSET Requests,
     orphans : SUBSET Requests, closers : SUBSET Requests, ready : SUBSET Requests,
     app : SUBSET Requests, posted : Seq(Tasks), proto : {"live", "freed"},
     failed : {"none", "crt_send_", "is_server_streaming_", "destructor",
               "deleted_twice", "used_after_delete"}]

\* A request leaves the protocol.
Removed(s, r) ==
    [s EXCEPT !.active = @ \ {r}, !.recv = IF @ = r THEN None ELSE @,
              !.obj[r] = "doomed", !.closers = @ \ {r}, !.ready = @ \ {r},
              !.posted = Append(@, Delete(r))]

\* Only request r is known to the protocol and to the handlers.
Only(s, r) ==
    /\ s.active \subseteq {r} /\ s.app \subseteq {r}
    /\ s.closers \subseteq {r} /\ s.ready \subseteq {r}
    /\ s.recv \in {r, None} /\ s.send \in {r, None}
    /\ s.obj[r] = "live" /\ s.failed = "none"

\* What is appended to the tasks of the loop when r ends.
EndTasks(s, r) ==
    IF s.conn = "gone" THEN Append(Append(s.posted, Delete(r)), DeleteProtocol)
    ELSE Append(s.posted, Delete(r))

\* The connection is closed or waits for the next request.
Ready(s, t) ==
    /\ s.conn = "gone" => t.conn = "gone"
    /\ s.conn # "gone" => \/ t.conn = s.conn /\ t.closed = s.closed /\ kRequestTimeout \in t.timeouts
                          \/ t.conn = "flushing" /\ t.closed

\* From s to t request r, the only one, has ended.
Over(s, r, t) ==
    /\ t \in ServerState /\ t.failed = "none" /\ t.proto = s.proto
    /\ t.recv = None /\ t.send = None
    /\ t.active = {} /\ t.app = {} /\ t.closers = {} /\ t.ready = {}
    /\ t.streaming = s.streaming /\ (s.conn # "gone" => t.orphans = s.orphans)
    /\ t.obj = [s.obj EXCEPT ![r] = "doomed"]
    /\ t.posted = EndTasks(s, r)
    /\ Ready(s, t)

\* The states in which only what is written, and when, differs.
Alike(s, t) ==
    /\ t \in ServerState
    /\ t.conn = s.conn /\ t.closed = s.closed /\ t.recv = s.recv /\ t.active = s.active
    /\ t.obj = s.obj /\ t.streaming = s.streaming /\ t.closers = s.closers
    /\ t.ready = s.ready /\ t.app = s.app /\ t.posted = s.posted
    /\ t.proto = s.proto /\ t.failed = s.failed
    /\ (s.conn # "gone" => t.orphans = s.orphans)

\* The types of the fields.
LEMMA ServerFields ==
    ASSUME NEW s \in ServerState
    PROVE  /\ s.conn \in {"open", "flushing", "gone"} /\ s.closed \in BOOLEAN
           /\ s.recv \in Requests \cup {None} /\ s.send \in Requests \cup {None}
           /\ s.active \in SUBSET Requests
           /\ s.timeouts \in SUBSET {kRequestTimeout, kWriteTimeout}
           /\ s.out \in Nat /\ s.obj \in [Requests -> {"none", "live", "doomed", "freed"}]
           /\ s.wants \in SUBSET Requests /\ s.keep \in SUBSET Requests
           /\ s.streaming \in SUBSET Requests /\ s.orphans \in SUBSET Requests
           /\ s.closers \in SUBSET Requests /\ s.ready \in SUBSET Requests
           /\ s.app \in SUBSET Requests /\ s.posted \in Seq(Tasks)
           /\ s.proto \in {"live", "freed"}
  BY DEF ServerState

\* The tasks are tasks.
LEMMA ServerTasks ==
    /\ \A r \in Requests : Delete(r) \in Tasks
    /\ DeleteProtocol \in Tasks /\ CloseAll \in Tasks
  BY DEF Tasks, Delete, DeleteProtocol, CloseAll

\* What Removed changes.
RemovedAs(s, r, t) ==
    /\ t \in ServerState
    /\ t.failed = s.failed /\ t.proto = s.proto /\ t.send = s.send
    /\ t.recv = (IF s.recv = r THEN None ELSE s.recv)
    /\ t.active = s.active \ {r} /\ t.app = s.app /\ t.closers = s.closers \ {r}
    /\ t.ready = s.ready \ {r} /\ t.streaming = s.streaming /\ t.orphans = s.orphans
    /\ t.obj = [s.obj EXCEPT ![r] = "doomed"]
    /\ t.posted = Append(s.posted, Delete(r))
    /\ t.conn = s.conn /\ t.closed = s.closed /\ t.timeouts = s.timeouts

\* A request that is removed.
LEMMA HRemoved ==
    ASSUME NEW s \in ServerState, NEW r \in Requests, NEW t, t = Removed(s, r)
    PROVE  RemovedAs(s, r, t)
  <1>1. /\ t.failed = s.failed /\ t.proto = s.proto /\ t.send = s.send
        /\ t.recv = (IF s.recv = r THEN None ELSE s.recv)
        /\ t.active = s.active \ {r} /\ t.app = s.app /\ t.closers = s.closers \ {r}
    BY DEF ServerState, Removed
  <1>2. /\ t.ready = s.ready \ {r} /\ t.streaming = s.streaming /\ t.orphans = s.orphans
        /\ t.obj = [s.obj EXCEPT ![r] = "doomed"]
        /\ t.posted = Append(s.posted, Delete(r))
    BY DEF ServerState, Removed
  <1>3. t.conn = s.conn /\ t.closed = s.closed /\ t.timeouts = s.timeouts
    BY DEF ServerState, Removed
  <1>4. Append(s.posted, Delete(r)) \in Seq(Tasks)
    BY ServerTasks, ServerFields, AppendAt
  <1>5. [s.obj EXCEPT ![r] = "doomed"] \in [Requests -> {"none", "live", "doomed", "freed"}]
    BY ServerFields
  <1>6. t \in ServerState
    BY <1>4, <1>5, ZenonT(30) DEF ServerState, Removed
  <1> QED
    BY <1>1, <1>2, <1>3, <1>6 DEF RemovedAs

\* EndRequestProcessing after the signal, when the request ends.
EndsAs(s, r, t) ==
    LET q == IF Removed(s, r).active = {} /\ Removed(s, r).conn = "gone"
             THEN Post(Removed(s, r), DeleteProtocol) ELSE Removed(s, r)
    IN \/ t = FlushAndClose([q EXCEPT !.closed = TRUE])
       \/ t = IF q.conn # "gone" THEN [q EXCEPT !.timeouts = @ \cup {kRequestTimeout}] ELSE q

\* It ends.
LEMMA HEnds ==
    ASSUME NEW s \in ServerState, NEW r \in Requests, Only(s, r), s.app = {},
           s.send = None, NEW t, EndsAs(s, r, t)
    PROVE  Over(s, r, t)
  <1> DEFINE g == Removed(s, r)
             q == IF g.active = {} /\ g.conn = "gone" THEN Post(g, DeleteProtocol) ELSE g
  <1>1. /\ g \in ServerState
        /\ g.failed = "none" /\ g.proto = s.proto /\ g.send = None
        /\ g.recv = None
        /\ g.active = {} /\ g.app = {} /\ g.closers = {}
        /\ g.ready = {} /\ g.streaming = s.streaming /\ g.orphans = s.orphans
        /\ g.obj = [s.obj EXCEPT ![r] = "doomed"]
        /\ g.posted = Append(s.posted, Delete(r))
        /\ g.conn = s.conn /\ g.closed = s.closed /\ g.timeouts = s.timeouts
    <2>1. RemovedAs(s, r, g)
      BY HRemoved
    <2> HIDE DEF g
    <2> QED
      BY <2>1 DEF RemovedAs, Only
  <1>2. \/ t = FlushAndClose([q EXCEPT !.closed = TRUE])
        \/ t = IF q.conn # "gone" THEN [q EXCEPT !.timeouts = @ \cup {kRequestTimeout}] ELSE q
    BY DEF EndsAs
  <1> HIDE DEF g
  <1>3. Append(g.posted, DeleteProtocol) \in Seq(Tasks)
    BY <1>1, ServerTasks, ServerFields, AppendAt
  <1>4. q \in ServerState
    BY <1>1, <1>3, ZenonT(30) DEF ServerState, Post
  <1>5. /\ q.failed = "none" /\ q.proto = s.proto /\ q.send = None
        /\ q.recv = None
        /\ q.active = {} /\ q.app = {} /\ q.closers = {}
        /\ q.ready = {} /\ q.streaming = s.streaming /\ q.orphans = s.orphans
    BY <1>1 DEF ServerState, Post
  <1>6. /\ q.obj = [s.obj EXCEPT ![r] = "doomed"]
        /\ q.posted = EndTasks(s, r)
        /\ q.conn = s.conn /\ q.closed = s.closed
    BY <1>1 DEF ServerState, Post, EndTasks
  <1> HIDE DEF q
  <1> DEFINE c == [q EXCEPT !.closed = TRUE]
             u == [q EXCEPT !.timeouts = @ \cup {kRequestTimeout}]
             f == [c EXCEPT !.conn = "flushing"]
  <1>7. t = f \/ t = c \/ t = u \/ t = q
    BY <1>2 DEF FlushAndClose
  <1>8. c \in ServerState
    BY <1>4, ZenonT(30) DEF ServerState
  <1>9. f \in ServerState
    <2> HIDE DEF c, q
    <2> QED
      BY <1>8, ZenonT(30) DEF ServerState
  <1>10. u.timeouts = q.timeouts \cup {kRequestTimeout} /\ u \in ServerState
    <2>1. q.timeouts \cup {kRequestTimeout} \in SUBSET {kRequestTimeout, kWriteTimeout}
      BY <1>4, ServerFields
    <2> DEFINE x == q.timeouts \cup {kRequestTimeout}
    <2>2. x \in SUBSET {kRequestTimeout, kWriteTimeout} /\ u = [q EXCEPT !.timeouts = x]
      BY <2>1
    <2> HIDE DEF x, u
    <2>3. u \in ServerState
      BY <1>4, <2>2, ZenonT(30) DEF ServerState
    <2>4. u.timeouts = x
      BY <1>4, <2>2 DEF ServerState
    <2> QED
      BY <2>3, <2>4 DEF x
  <1>11. /\ c.conn = q.conn /\ c.closed = TRUE
         /\ f.conn = "flushing" /\ f.closed = TRUE
         /\ u.conn = q.conn /\ u.closed = q.closed
    BY <1>4, <1>8 DEF ServerState
  <1>12. /\ c.failed = q.failed /\ c.proto = q.proto /\ c.send = q.send /\ c.recv = q.recv
         /\ c.active = q.active /\ c.app = q.app /\ c.closers = q.closers
         /\ c.ready = q.ready /\ c.streaming = q.streaming /\ c.orphans = q.orphans
         /\ c.obj = q.obj /\ c.posted = q.posted
    BY <1>4 DEF ServerState
  <1>13. /\ f.failed = c.failed /\ f.proto = c.proto /\ f.send = c.send /\ f.recv = c.recv
         /\ f.active = c.active /\ f.app = c.app /\ f.closers = c.closers
         /\ f.ready = c.ready /\ f.streaming = c.streaming /\ f.orphans = c.orphans
         /\ f.obj = c.obj /\ f.posted = c.posted
    BY <1>8 DEF ServerState
  <1>14. /\ u.failed = q.failed /\ u.proto = q.proto /\ u.send = q.send /\ u.recv = q.recv
         /\ u.active = q.active /\ u.app = q.app /\ u.closers = q.closers
         /\ u.ready = q.ready /\ u.streaming = q.streaming /\ u.orphans = q.orphans
         /\ u.obj = q.obj /\ u.posted = q.posted
    BY <1>4 DEF ServerState
  <1>15. \/ t = f /\ q.conn = "open"
         \/ t = c /\ q.conn # "open"
         \/ t = u /\ q.conn # "gone"
         \/ t = q /\ q.conn = "gone"
    BY <1>2, <1>11 DEF FlushAndClose
  <1>16. s.conn \in {"open", "flushing", "gone"}
    BY ServerFields
  <1> HIDE DEF c, u, f
  <1>17. Ready(s, t)
    BY <1>6, <1>10, <1>11, <1>15, <1>16 DEF Ready
  <1>18. t \in ServerState
    BY <1>4, <1>7, <1>8, <1>9, <1>10
  <1>19. /\ t.failed = "none" /\ t.proto = s.proto /\ t.send = None
         /\ t.recv = None
         /\ t.active = {} /\ t.app = {} /\ t.closers = {}
         /\ t.ready = {} /\ t.streaming = s.streaming /\ t.orphans = s.orphans
         /\ t.obj = q.obj /\ t.posted = q.posted
    BY <1>5, <1>12, <1>13, <1>14, <1>15
  <1> QED
    BY <1>6, <1>17, <1>18, <1>19 DEF Over

\* What is written before does not matter.
LEMMA OverAlike ==
    ASSUME NEW s, NEW b, NEW r, NEW t, Alike(s, b), Over(b, r, t)
    PROVE  Over(s, r, t)
  BY DEF Alike, Over, Ready, EndTasks

\* The same, and nothing else that counts.
Unmoved(s, t) ==
    /\ Alike(s, t) /\ t.orphans = s.orphans /\ t.timeouts = s.timeouts /\ t.send = s.send
    /\ (s.out > 0 => t.out > 0)

\* The reply buffer.
LEMMA HAppend1 ==
    ASSUME ServerConstants, NEW s \in ServerState, NEW r \in Requests, NEW t, t = Append1(s, r)
    PROVE  Unmoved(s, t)
  <1> DEFINE a == [s EXCEPT !.out = @ + 1]
             b == [s EXCEPT !.keep = @ \ {r}]
             c == [s EXCEPT !.out = 1]
  <1>1. t = a \/ t = b \/ t = c \/ t = s
    BY DEF Append1, ServerConstants
  <1>2. s.out + 1 \in Nat /\ s.keep \ {r} \in SUBSET Requests /\ 1 \in Nat
    BY ServerFields
  <1>3. a \in ServerState /\ b \in ServerState /\ c \in ServerState
    BY <1>2, ZenonT(30) DEF ServerState
  <1>4. a.out > 0 /\ b.out = s.out /\ c.out > 0
    BY ServerFields DEF ServerState
  <1>5. Alike(s, a) /\ a.orphans = s.orphans /\ a.timeouts = s.timeouts /\ a.send = s.send
    BY <1>3 DEF Alike, ServerState
  <1>6. Alike(s, b) /\ b.orphans = s.orphans /\ b.timeouts = s.timeouts /\ b.send = s.send
    BY <1>3 DEF Alike, ServerState
  <1>7. Alike(s, c) /\ c.orphans = s.orphans /\ c.timeouts = s.timeouts /\ c.send = s.send
    BY <1>3 DEF Alike, ServerState
  <1>8. Alike(s, s)
    BY DEF Alike
  <1> HIDE DEF a, b, c
  <1> QED
    BY <1>1, <1>4, <1>5, <1>6, <1>7, <1>8 DEF Unmoved

\* The state with another sender and other timers.
SenderAs(s, v, x, t) ==
    Alike(s, t) /\ t.send = v /\ t.timeouts = x /\ t.out = s.out /\ t.orphans = s.orphans

\* What this leaves alone.
LEMMA HSender ==
    ASSUME NEW s \in ServerState, NEW v \in Requests \cup {None},
           NEW x \in SUBSET {kRequestTimeout, kWriteTimeout},
           NEW t, t = [s EXCEPT !.send = v, !.timeouts = x]
    PROVE  SenderAs(s, v, x, t)
  <1>1. t \in ServerState
    BY ZenonT(30) DEF ServerState
  <1>2. t.send = v /\ t.timeouts = x /\ t.out = s.out /\ t.orphans = s.orphans
    BY DEF ServerState
  <1>3. Alike(s, t)
    BY <1>1 DEF Alike, ServerState
  <1> QED
    BY <1>2, <1>3 DEF SenderAs

\* PrepareResponse for the request itself.
LEMMA HPrepare ==
    ASSUME ServerConstants, NEW s \in ServerState, NEW r \in Requests,
           s.send \in {r, None}, NEW t, t = PrepareResponse(s, r)
    PROVE  /\ Alike(s, t) /\ t.orphans = s.orphans /\ t.timeouts = s.timeouts /\ t.send = r
           /\ (s.out > 0 => t.out > 0)
  <1> DEFINE q == [s EXCEPT !.send = r]
             x == IF q.send \in q.wants THEN q.keep \cup {q.send} ELSE q.keep \ {q.send}
             k == [q EXCEPT !.keep = x]
  <1>1. (IF s.send = None THEN r ELSE s.send) = r
    OBVIOUS
  <1>2. q.send = r
    BY DEF ServerState
  <1>3. q \in ServerState
    BY ZenonT(30) DEF ServerState
  <1>4. /\ Alike(s, q) /\ q.orphans = s.orphans /\ q.timeouts = s.timeouts /\ q.out = s.out
    BY <1>3 DEF Alike, ServerState
  <1>5. t = IF s.conn = "gone" THEN q ELSE Append1(k, q.send)
    <2> DEFINE o == [s EXCEPT !.send = IF @ = None THEN r ELSE @]
    <2>1. t = IF s.conn = "gone" THEN o
              ELSE Append1([o EXCEPT !.keep = IF o.send \in o.wants THEN @ \cup {o.send}
                                              ELSE @ \ {o.send}], o.send)
      BY DEF PrepareResponse
    <2>2. o = q
      BY <1>1
    <2> HIDE DEF o, q
    <2> QED
      BY <2>1, <2>2
  <1> HIDE DEF q
  <1>6. x \in SUBSET Requests
    BY <1>2, <1>3, ServerFields
  <1> HIDE DEF x
  <1>7. k \in ServerState
    BY <1>3, <1>6, ZenonT(30) DEF ServerState
  <1>8. /\ Alike(q, k) /\ k.orphans = q.orphans /\ k.timeouts = q.timeouts /\ k.out = q.out
        /\ k.send = q.send
    BY <1>3, <1>7 DEF Alike, ServerState
  <1> HIDE DEF k
  <1>9. CASE s.conn = "gone"
    BY <1>9, <1>2, <1>4, <1>5
  <1>10. CASE s.conn # "gone"
    <2>1. t = Append1(k, r)
      BY <1>2, <1>5, <1>10
    <2>2. Unmoved(k, t)
      BY <2>1, <1>7, HAppend1
    <2>3. t.orphans = s.orphans /\ t.timeouts = s.timeouts /\ t.send = r /\ (s.out > 0 => t.out > 0)
      BY <2>2, <1>2, <1>4, <1>8 DEF Unmoved
    <2>4. Alike(s, t)
      BY <2>2, <1>4, <1>8 DEF Unmoved, Alike
    <2> QED
      BY <2>3, <2>4
  <1> QED
    BY <1>9, <1>10

\* States alike to one that is alike.
LEMMA AlikeTwice ==
    ASSUME NEW s, NEW b, NEW t, Alike(s, b), Alike(b, t)
    PROVE  Alike(s, t)
  BY DEF Alike

\* EndRequestProcessing before the signal, when the request ends.
LEMMA HBefore ==
    ASSUME NEW s \in ServerState, NEW r \in Requests, s.send = r,
           NEW t, t = EndBefore(s, r, TRUE)
    PROVE  Alike(s, t) /\ t.send = None
  <1> DEFINE x == IF s.conn # "gone" /\ s.out > 0 THEN s.timeouts \cup {kWriteTimeout} ELSE s.timeouts
  <1>1. x \in SUBSET {kRequestTimeout, kWriteTimeout}
    BY ServerFields
  <1>2. t = [s EXCEPT !.send = None, !.timeouts = x]
    BY DEF EndBefore, Check
  <1> HIDE DEF x
  <1>3. None \in Requests \cup {None}
    OBVIOUS
  <1>4. SenderAs(s, None, x, t)
    BY <1>1, <1>2, <1>3, HSender
  <1> QED
    BY <1>4 DEF SenderAs

\* SignalClosed has nobody to tell.
LEMMA HUnheard ==
    ASSUME NEW s, NEW r, s.obj[r] = "live", r \notin s.closers
    PROVE  SignalClosed(s, r) = s
  BY DEF SignalClosed, Check

\* The end of the request after the signal.
LEMMA HEndAfter ==
    ASSUME NEW s \in ServerState, NEW r \in Requests, NEW t,
           \E close \in BOOLEAN : t = EndAfter(s, r, TRUE, close)
    PROVE  EndsAs(s, r, t)
  BY DEF EndsAs, EndAfter, Removed

\* A request that nobody else knows of is replied to: it ends.
LEMMA HReply ==
    ASSUME ServerConstants, NEW s \in ServerState, NEW r \in Requests, Only(s, r),
           s.app = {}, s.closers = {}, s.send = None, r \notin s.streaming,
           NEW t, t = Reply(s, r, NoSignal) \/ t = ReplyWithStatus(s, r)
    PROVE  Over(s, r, t)
  <1> DEFINE q == [s EXCEPT !.send = r]
             w == IF s.conn = "gone" THEN [q EXCEPT !.orphans = @ \cup {r}]
                  ELSE PrepareResponse(q, r)
             b == EndBefore(w, r, TRUE)
  <1>1. Check(s, r \notin s.streaming, "is_server_streaming_") = s
    BY DEF Check
  <1>2. \/ t = EndAfter(b, r, TRUE, ShouldClose(w, r, TRUE))
        \/ t = EndAfter(SignalClosed(b, r), r, TRUE, ShouldClose(w, r, TRUE))
    BY <1>1 DEF Reply, NoSignal, ReplyWithStatus
  <1>3. q \in ServerState /\ q.send = r
    <2>1. q \in ServerState
      BY ZenonT(30) DEF ServerState
    <2> QED
      BY <2>1 DEF ServerState
  <1>4. Alike(s, q)
    BY <1>3 DEF Alike, ServerState
  <1>5. Alike(q, w) /\ w.send = r
    <2> HIDE DEF q
    <2>1. CASE s.conn = "gone"
      <3> DEFINE x == q.orphans \cup {r}
                 o == [q EXCEPT !.orphans = x]
      <3>1. x \in SUBSET Requests
        BY <1>3, ServerFields
      <3>2. w = o
        BY <2>1
      <3> HIDE DEF x
      <3>3. o \in ServerState
        BY <1>3, <3>1, ZenonT(30) DEF ServerState
      <3>4. o.send = r
        BY <1>3 DEF ServerState
      <3>5. q.conn = "gone"
        BY <1>4, <2>1 DEF Alike
      <3>6. Alike(q, o)
        BY <1>3, <3>3, <3>5 DEF Alike, ServerState
      <3> HIDE DEF o, w
      <3> QED
        BY <3>2, <3>4, <3>6
    <2>2. CASE s.conn # "gone"
      <3>1. w = PrepareResponse(q, r)
        BY <2>2
      <3> HIDE DEF w
      <3> QED
        BY <3>1, <1>3, HPrepare
    <2> QED
      BY <2>1, <2>2
  <1> HIDE DEF q, w
  <1>6. Alike(w, b) /\ b.send = None
    <2>1. w \in ServerState
      BY <1>5 DEF Alike
    <2>2. b = EndBefore(w, r, TRUE)
      OBVIOUS
    <2> HIDE DEF b
    <2> QED
      BY <1>5, <2>1, <2>2, HBefore
  <1>7. Alike(s, b)
    BY <1>4, <1>5, <1>6, AlikeTwice
  <1> HIDE DEF b
  <1>8. Only(b, r) /\ b.app = {} /\ b.closers = {} /\ b \in ServerState
    BY <1>6, <1>7 DEF Only, Alike
  <1>9. SignalClosed(b, r) = b
    BY <1>8, HUnheard DEF Only
  <1>10. \E close \in BOOLEAN : t = EndAfter(b, r, TRUE, close)
    <2>1. ShouldClose(w, r, TRUE) \in BOOLEAN
      BY DEF ShouldClose
    <2> QED
      BY <1>2, <1>9, <2>1
  <1>11. EndsAs(b, r, t)
    BY <1>8, <1>10, HEndAfter
  <1>12. Over(b, r, t)
    BY <1>6, <1>8, <1>11, HEnds
  <1> QED
    BY <1>7, <1>12, OverAlike

\* Of these fields the end of a request depends.
Akin(s, r, b) ==
    /\ b.conn = s.conn /\ b.closed = s.closed /\ b.streaming = s.streaming
    /\ [b.obj EXCEPT ![r] = "doomed"] = [s.obj EXCEPT ![r] = "doomed"]
    /\ b.posted = s.posted /\ b.proto = s.proto /\ (s.conn # "gone" => b.orphans = s.orphans)

\* The others do not matter.
LEMMA OverAkin ==
    ASSUME NEW s, NEW b, NEW r, NEW t, Akin(s, r, b), Over(b, r, t)
    PROVE  Over(s, r, t)
  BY DEF Akin, Over, Ready, EndTasks

\* The handler forgets the request.
Forgotten(s, r, t) ==
    /\ t \in ServerState
    /\ t.conn = s.conn /\ t.closed = s.closed /\ t.recv = s.recv /\ t.send = s.send
    /\ t.active = s.active /\ t.timeouts = s.timeouts /\ t.out = s.out
    /\ t.obj = s.obj /\ t.streaming = s.streaming /\ t.orphans = s.orphans
    /\ t.closers = s.closers \ {r} /\ t.app = s.app \ {r}
    /\ t.ready = s.ready /\ t.posted = s.posted
    /\ t.proto = s.proto /\ t.failed = s.failed

\* It is no longer told either.
LEMMA HForgets ==
    ASSUME NEW s \in ServerState, NEW r \in Requests,
           NEW t, \/ t = [s EXCEPT !.closers = @ \ {r}, !.app = @ \ {r}]
                  \/ t = [s EXCEPT !.app = @ \ {r}, !.closers = @ \ {r}]
    PROVE  Forgotten(s, r, t)
  <1> DEFINE x == s.closers \ {r}
             y == s.app \ {r}
             u == [s EXCEPT !.closers = x, !.app = y]
             v == [s EXCEPT !.app = y, !.closers = x]
  <1>1. x \in SUBSET Requests /\ y \in SUBSET Requests
    BY ServerFields
  <1>2. t = u \/ t = v
    OBVIOUS
  <1> HIDE DEF x, y
  <1>3. Forgotten(s, r, u)
    <2>1. u.closers = x /\ u.app = y
      BY DEF ServerState
    <2>2. u \in ServerState
      BY <1>1, ZenonT(30) DEF ServerState
    <2>3. /\ u.conn = s.conn /\ u.closed = s.closed /\ u.recv = s.recv /\ u.send = s.send
          /\ u.active = s.active /\ u.timeouts = s.timeouts /\ u.out = s.out
      BY DEF ServerState
    <2>4. /\ u.obj = s.obj /\ u.streaming = s.streaming /\ u.orphans = s.orphans
          /\ u.ready = s.ready /\ u.posted = s.posted
          /\ u.proto = s.proto /\ u.failed = s.failed
      BY DEF ServerState
    <2> QED
      BY <2>1, <2>2, <2>3, <2>4 DEF Forgotten, x, y
  <1>4. Forgotten(s, r, v)
    <2>1. v.closers = x /\ v.app = y
      BY DEF ServerState
    <2>2. v \in ServerState
      BY <1>1, ZenonT(30) DEF ServerState
    <2>3. /\ v.conn = s.conn /\ v.closed = s.closed /\ v.recv = s.recv /\ v.send = s.send
          /\ v.active = s.active /\ v.timeouts = s.timeouts /\ v.out = s.out
      BY DEF ServerState
    <2>4. /\ v.obj = s.obj /\ v.streaming = s.streaming /\ v.orphans = s.orphans
          /\ v.ready = s.ready /\ v.posted = s.posted
          /\ v.proto = s.proto /\ v.failed = s.failed
      BY DEF ServerState
    <2> QED
      BY <2>1, <2>2, <2>3, <2>4 DEF Forgotten, x, y
  <1> QED
    BY <1>2, <1>3, <1>4

\* SignalClosed to the handler of a stream.
LEMMA HSignal ==
    ASSUME NEW s \in ServerState, NEW r \in Requests, s.obj[r] = "live", r \notin Uploads,
           s.app \cap {r} \subseteq s.closers, NEW t, t = SignalClosed(s, r)
    PROVE  Forgotten(s, r, t)
  <1>1. CASE r \in s.closers
    <2>1. t = [s EXCEPT !.closers = @ \ {r}, !.app = @ \ {r}]
      BY <1>1 DEF SignalClosed, Check
    <2> QED
      BY <2>1, HForgets
  <1>2. CASE r \notin s.closers
    <2>1. t = s
      BY <1>2, HUnheard
    <2>2. s.closers = s.closers \ {r} /\ s.app = s.app \ {r}
      BY <1>2
    <2> QED
      BY <2>1, <2>2 DEF Forgotten
  <1> QED
    BY <1>1, <1>2

\* A stream ends.
LEMMA HEndRequest ==
    ASSUME ServerConstants, NEW s \in ServerState, NEW r \in Requests, Only(s, r),
           s.send = r, r \notin Uploads, s.app \subseteq s.closers,
           NEW t, t = EndRequestProcessing(s, r, TRUE)
    PROVE  Over(s, r, t)
  <1> DEFINE b == EndBefore(s, r, TRUE)
             g == SignalClosed(b, r)
  <1>1. t = EndAfter(g, r, TRUE, ShouldClose(s, r, TRUE))
    BY DEF EndRequestProcessing
  <1>2. Alike(s, b) /\ b.send = None
    <2>1. b = EndBefore(s, r, TRUE)
      OBVIOUS
    <2> HIDE DEF b
    <2> QED
      BY <2>1, HBefore
  <1> HIDE DEF b
  <1>3. b \in ServerState /\ b.obj[r] = "live" /\ b.app \cap {r} \subseteq b.closers
    BY <1>2 DEF Alike, Only
  <1>4. Forgotten(b, r, g)
    BY <1>3, HSignal
  <1> HIDE DEF g
  <1>5. Only(g, r) /\ g.app = {} /\ g.send = None /\ g \in ServerState
    BY <1>2, <1>4 DEF Alike, Forgotten, Only
  <1>6. \E close \in BOOLEAN : t = EndAfter(g, r, TRUE, close)
    <2>1. ShouldClose(s, r, TRUE) \in BOOLEAN
      BY DEF ShouldClose
    <2> QED
      BY <1>1, <2>1
  <1>7. EndsAs(g, r, t)
    BY <1>5, <1>6, HEndAfter
  <1>8. Over(g, r, t)
    BY <1>5, <1>7, HEnds
  <1>9. Akin(s, r, g)
    BY <1>2, <1>4 DEF Akin, Alike, Forgotten
  <1> QED
    BY <1>8, <1>9, OverAkin

-----------------------------------------------------------------------------
(* The server: what holds between its events *)

\* There is one request at a time, and it is made of bytes of the client.
HOne(s) ==
    /\ s.obj[0] # "live"
    /\ \A r, x \in Requests : s.obj[r] = "live" /\ s.obj[x] = "live" => r = x

\* Who holds it: a stream that is being sent is the sender, its handler and the
\* one of an upload are told of its end, and an upload is active while it is read.
HHeld(s) ==
    /\ \A r \in s.active \cup s.ready : s.obj[r] = "live"
    /\ s.recv # None => s.obj[s.recv] = "live"
    /\ s.app \subseteq s.active /\ s.closers \subseteq s.app
    /\ s.app \cap (Uploads \cup s.streaming) \subseteq s.closers
    /\ s.send # None => s.send \in s.streaming /\ s.send \in s.active
    /\ \A r \in s.streaming : s.obj[r] # "none" /\ (s.obj[r] = "live" => s.send = r)
    /\ s.streaming \cap Uploads = {}
    /\ s.recv # None => (s.recv \in Uploads <=> s.recv \in s.active)

\* CloseAllActiveRequests comes before the deletion of the protocol.
Ordered(q) ==
    \A i, j \in DOMAIN q : q[i] = DeleteProtocol /\ q[j] = CloseAll => j < i

\* What is posted: the deletion of each doomed request, and nothing twice.
HPosted(s) ==
    /\ Injective(s.posted) /\ Ordered(s.posted)
    /\ \A r \in Requests : s.obj[r] = "doomed" <=> Delete(r) \in Elems(s.posted)

\* The end of the connection and of the protocol.
HGone(s) ==
    /\ DeleteProtocol \in Elems(s.posted) => s.conn = "gone" /\ s.active = {} /\ s.proto = "live"
    /\ CloseAll \in Elems(s.posted) => s.conn = "gone" /\ s.proto = "live"
    /\ s.proto = "freed" => s.conn = "gone" /\ s.active = {}
    /\ s.conn # "gone" => s.orphans = {}
    /\ s.failed = "none"

\* The timers, and the handler that waits for the buffer.
HTimed(s) ==
    /\ s.conn = "open" /\ s.app = {} => kRequestTimeout \in s.timeouts
    /\ s.conn = "open" => \A r \in s.ready : s.send = r /\ s.out > 0

\* What a state of the protocol satisfies between two events.
HCore(s) == s \in ServerState /\ HOne(s) /\ HHeld(s) /\ HPosted(s) /\ HGone(s) /\ HTimed(s)

\* Tasks are different.
LEMMA TasksDiffer ==
    ASSUME NEW r, NEW x
    PROVE  /\ Delete(r) # DeleteProtocol /\ Delete(r) # CloseAll
           /\ DeleteProtocol # CloseAll
           /\ Delete(r) = Delete(x) => r = x
  BY DEF Delete, DeleteProtocol, CloseAll

\* A task more.
LEMMA OrderedMore ==
    ASSUME NEW q \in Seq(Tasks), Ordered(q), NEW e \in Tasks, NEW t, t = Append(q, e),
           e = CloseAll => DeleteProtocol \notin Elems(q)
    PROVE  Ordered(t)
  <1>1. /\ Len(q) \in Nat /\ DOMAIN q = 1..Len(q) /\ DOMAIN t = 1..(Len(q) + 1)
        /\ \A i \in DOMAIN q : i \in DOMAIN t /\ t[i] = q[i]
        /\ t[Len(q) + 1] = e
    BY AppendAt
  <1> SUFFICES ASSUME NEW i \in DOMAIN t, NEW j \in DOMAIN t,
                      t[i] = DeleteProtocol, t[j] = CloseAll
               PROVE  j < i
    BY DEF Ordered
  <1>2. i \in DOMAIN q \/ i = Len(q) + 1
    BY <1>1
  <1>3. j \in DOMAIN q \/ j = Len(q) + 1
    BY <1>1
  <1>4. CASE j = Len(q) + 1
    <2>1. DeleteProtocol \notin Elems(q) /\ DeleteProtocol # e
      BY <1>1, <1>4, TasksDiffer
    <2> QED
      BY <1>1, <1>2, <2>1 DEF Elems
  <1>5. CASE j \in DOMAIN q /\ i = Len(q) + 1
    BY <1>1, <1>5
  <1>6. CASE j \in DOMAIN q /\ i \in DOMAIN q
    BY <1>1, <1>6 DEF Ordered
  <1> QED
    BY <1>2, <1>3, <1>4, <1>5, <1>6

\* A task less.
LEMMA OrderedLess ==
    ASSUME NEW q \in Seq(Tasks), q # <<>>, Ordered(q), NEW t, t = Tail(q)
    PROVE  Ordered(t) /\ (Head(q) = DeleteProtocol => CloseAll \notin Elems(t))
  <1>1. /\ Len(q) \in Nat \ {0}
        /\ DOMAIN q = 1..Len(q) /\ DOMAIN t = 1..(Len(q) - 1)
        /\ \A i \in DOMAIN t : i + 1 \in DOMAIN q /\ t[i] = q[i + 1]
        /\ 1 \in DOMAIN q /\ Head(q) = q[1]
    BY TailAt
  <1>2. ASSUME NEW i \in DOMAIN t, NEW j \in DOMAIN t, t[i] = DeleteProtocol, t[j] = CloseAll
        PROVE  j < i
    <2>1. j + 1 < i + 1
      BY <1>1, <1>2 DEF Ordered
    <2> QED
      BY <1>1, <2>1
  <1>3. ASSUME Head(q) = DeleteProtocol, NEW j \in DOMAIN t, t[j] = CloseAll
        PROVE  FALSE
    <2>1. j + 1 < 1
      BY <1>1, <1>3 DEF Ordered
    <2> QED
      BY <1>1, <2>1
  <1> QED
    BY <1>2, <1>3 DEF Ordered, Elems

\* The tasks a request leaves when it ends.
LEMMA PostedOver ==
    ASSUME NEW s \in ServerState, HPosted(s), HGone(s), NEW r \in Requests,
           s.obj[r] # "doomed", s.conn # "gone" \/ s.active # {},
           NEW q, q = EndTasks(s, r)
    PROVE  /\ q \in Seq(Tasks) /\ Injective(q) /\ Ordered(q)
           /\ \A x \in Requests : Delete(x) \in Elems(q) <=> x = r \/ Delete(x) \in Elems(s.posted)
           /\ DeleteProtocol \in Elems(q) => s.conn = "gone" /\ s.proto = "live"
           /\ CloseAll \in Elems(q) => CloseAll \in Elems(s.posted)
  <1> DEFINE o == s.posted
             d == Append(o, Delete(r))
             e == Append(d, DeleteProtocol)
  <1>1. q = (IF s.conn = "gone" THEN e ELSE d)
    BY DEF EndTasks
  <1>2. o \in Seq(Tasks) /\ s.proto \in {"live", "freed"}
    BY ServerFields
  <1>3. Injective(o) /\ Ordered(o) /\ Delete(r) \notin Elems(o) /\ DeleteProtocol \notin Elems(o)
        /\ (s.conn = "gone" => s.proto = "live")
    BY <1>2 DEF HPosted, HGone
  <1> HIDE DEF o
  <1>4. Delete(r) \in Tasks /\ DeleteProtocol \in Tasks /\ Delete(r) # CloseAll
        /\ Delete(r) # DeleteProtocol /\ DeleteProtocol # CloseAll
    BY ServerTasks, TasksDiffer
  <1>5. MoreBy(Tasks, o, Delete(r), d)
    BY <1>2, <1>4, ElemsAppend
  <1>6. Ordered(d)
    BY <1>2, <1>3, <1>4, OrderedMore
  <1>7. d \in Seq(Tasks) /\ Injective(d) /\ Elems(d) = Elems(o) \cup {Delete(r)}
    BY <1>3, <1>5 DEF MoreBy
  <1> HIDE DEF d
  <1>8. MoreBy(Tasks, d, DeleteProtocol, e)
    BY <1>4, <1>7, ElemsAppend
  <1>9. Ordered(e)
    BY <1>4, <1>6, <1>7, OrderedMore
  <1>10. DeleteProtocol \notin Elems(d)
    BY <1>3, <1>4, <1>7
  <1>11. e \in Seq(Tasks) /\ Injective(e) /\ Elems(e) = Elems(d) \cup {DeleteProtocol}
    BY <1>7, <1>8, <1>10 DEF MoreBy
  <1> HIDE DEF e
  <1>12. q \in Seq(Tasks) /\ Injective(q) /\ Ordered(q)
    BY <1>1, <1>6, <1>7, <1>9, <1>11
  <1>13. /\ DeleteProtocol \in Elems(q) => s.conn = "gone" /\ s.proto = "live"
         /\ CloseAll \in Elems(q) => CloseAll \in Elems(o)
    BY <1>1, <1>3, <1>4, <1>7, <1>10, <1>11
  <1>14. \A x \in Requests : Delete(x) \in Elems(q) <=> x = r \/ Delete(x) \in Elems(o)
    <2> TAKE x \in Requests
    <2>1. Delete(x) # DeleteProtocol /\ (Delete(x) = Delete(r) => x = r)
      BY TasksDiffer
    <2> QED
      BY <1>1, <1>7, <1>11, <2>1
  <1> QED
    BY <1>12, <1>13, <1>14 DEF o

\* Zero is the request of bytes that belong to none, and no request is None.
LEMMA ServerNumbers ==
    ASSUME ServerConstants
    PROVE  /\ 0 \in Requests /\ None \notin Requests /\ Stray = 0 /\ 0 \notin Uploads
           /\ Uploads \subseteq Requests /\ Requests \subseteq Int
           /\ \A r \in 1..NumRequests : r \in Requests /\ r # 0
  BY DEF ServerConstants, Requests, None, Stray

\* A live request is the only one.
LEMMA CoreOnly ==
    ASSUME ServerConstants, NEW s, HCore(s), NEW r \in Requests, s.obj[r] = "live"
    PROVE  /\ Only(s, r) /\ r # 0
           /\ \A x \in Requests : x # r => s.obj[x] # "live"
  <1>1. \A x \in Requests : x # r => s.obj[x] # "live"
    BY DEF HCore, HOne
  <1>2. /\ s.active \subseteq Requests /\ s.ready \subseteq Requests
        /\ s.recv \in Requests \cup {None} /\ s.send \in Requests \cup {None}
    BY ServerFields DEF HCore
  <1>3. s.active \subseteq {r} /\ s.ready \subseteq {r}
    BY <1>1, <1>2 DEF HCore, HHeld
  <1>4. s.app \subseteq {r} /\ s.closers \subseteq {r}
    BY <1>3 DEF HCore, HHeld
  <1>5. s.recv \in {r, None} /\ s.send \in {r, None}
    BY <1>1, <1>2, <1>3 DEF HCore, HHeld
  <1>6. s.failed = "none" /\ r # 0
    BY DEF HCore, HGone, HOne
  <1> QED
    BY <1>1, <1>3, <1>4, <1>5, <1>6 DEF Only

\* No request is live: nobody holds one.
LEMMA CoreNone ==
    ASSUME ServerConstants, NEW s, HCore(s), \A x \in Requests : s.obj[x] # "live"
    PROVE  /\ s.active = {} /\ s.app = {} /\ s.closers = {} /\ s.ready = {}
           /\ s.recv = None /\ s.send = None
  <1>1. /\ s.active \subseteq Requests /\ s.ready \subseteq Requests
        /\ s.recv \in Requests \cup {None} /\ s.send \in Requests \cup {None}
    BY ServerFields DEF HCore
  <1>2. s.active = {} /\ s.ready = {} /\ s.recv = None
    BY <1>1 DEF HCore, HHeld
  <1>3. s.app = {} /\ s.closers = {} /\ s.send = None
    BY <1>2 DEF HCore, HHeld
  <1> QED
    BY <1>2, <1>3

\* The invariant holds when the only request has ended.
LEMMA CoreOver ==
    ASSUME ServerConstants, NEW s, HCore(s), NEW r \in Requests,
           \A x \in Requests : x # r => s.obj[x] # "live",
           s.obj[r] \in {"none", "live"}, s.conn # "gone" \/ s.active # {},
           NEW t, Over(s, r, t)
    PROVE  HCore(t) /\ \A x \in Requests : t.obj[x] # "live"
  <1>1. s \in ServerState /\ HPosted(s) /\ HGone(s) /\ HHeld(s)
    BY DEF HCore
  <1>2. /\ t \in ServerState /\ t.failed = "none" /\ t.proto = s.proto
        /\ t.recv = None /\ t.send = None
        /\ t.active = {} /\ t.app = {} /\ t.closers = {} /\ t.ready = {}
        /\ t.streaming = s.streaming /\ (s.conn # "gone" => t.orphans = s.orphans)
        /\ t.obj = [s.obj EXCEPT ![r] = "doomed"]
        /\ t.posted = EndTasks(s, r)
        /\ Ready(s, t)
    BY DEF Over
  <1>3. /\ Injective(t.posted) /\ Ordered(t.posted)
        /\ \A x \in Requests : Delete(x) \in Elems(t.posted) <=> x = r \/ Delete(x) \in Elems(s.posted)
        /\ DeleteProtocol \in Elems(t.posted) => s.conn = "gone" /\ s.proto = "live"
        /\ CloseAll \in Elems(t.posted) => CloseAll \in Elems(s.posted)
    BY <1>1, <1>2, PostedOver
  <1>4. s.obj \in [Requests -> {"none", "live", "doomed", "freed"}]
    BY <1>1, ServerFields
  <1>5. /\ t.obj[r] = "doomed"
        /\ \A x \in Requests : x # r => t.obj[x] = s.obj[x]
    BY <1>2, <1>4
  <1>6. \A x \in Requests : t.obj[x] # "live"
    BY <1>5
  <1>7. HOne(t)
    BY <1>6, ServerNumbers DEF HOne
  <1>8. HHeld(t)
    BY <1>1, <1>2, <1>6, ServerFields DEF HHeld
  <1>9. HPosted(t)
    BY <1>1, <1>3, <1>5 DEF HPosted
  <1>10. HGone(t)
    BY <1>1, <1>2, <1>3 DEF HGone, Ready
  <1>11. HTimed(t)
    BY <1>1, <1>2, ServerFields DEF HTimed, Ready
  <1> QED
    BY <1>2, <1>6, <1>7, <1>8, <1>9, <1>10, <1>11 DEF HCore

\* The fields the invariant is about.
Same(s, t) ==
    /\ t \in ServerState
    /\ t.conn = s.conn /\ t.recv = s.recv /\ t.send = s.send /\ t.active = s.active
    /\ t.timeouts = s.timeouts /\ t.out = s.out /\ t.obj = s.obj /\ t.streaming = s.streaming
    /\ t.orphans = s.orphans /\ t.closers = s.closers /\ t.ready = s.ready /\ t.app = s.app
    /\ t.posted = s.posted /\ t.proto = s.proto /\ t.failed = s.failed

\* They decide it.
LEMMA CoreSame ==
    ASSUME NEW s, NEW t, HCore(s), Same(s, t)
    PROVE  HCore(t)
  <1>1. t \in ServerState
    BY DEF Same
  <1>2. HOne(t)
    BY DEF Same, HCore, HOne
  <1>3. HHeld(t)
    BY DEF Same, HCore, HHeld
  <1>4. HPosted(t)
    BY DEF Same, HCore, HPosted
  <1>5. HGone(t)
    BY DEF Same, HCore, HGone
  <1>6. HTimed(t)
    BY DEF Same, HCore, HTimed
  <1> QED
    BY <1>1, <1>2, <1>3, <1>4, <1>5, <1>6 DEF HCore

\* closed_ is not one of them.
LEMMA HCloses ==
    ASSUME NEW s \in ServerState, NEW t, t = [s EXCEPT !.closed = TRUE]
    PROVE  Same(s, t) /\ t.closed = TRUE
  <1>1. t \in ServerState
    BY ZenonT(30) DEF ServerState
  <1>2. t.closed = TRUE
    BY DEF ServerState
  <1>3. /\ t.conn = s.conn /\ t.recv = s.recv /\ t.send = s.send /\ t.active = s.active
        /\ t.timeouts = s.timeouts /\ t.out = s.out /\ t.obj = s.obj /\ t.streaming = s.streaming
    BY DEF ServerState
  <1>4. /\ t.orphans = s.orphans /\ t.closers = s.closers /\ t.ready = s.ready /\ t.app = s.app
        /\ t.posted = s.posted /\ t.proto = s.proto /\ t.failed = s.failed
    BY DEF ServerState
  <1> QED
    BY <1>1, <1>2, <1>3, <1>4 DEF Same

\* A task is posted that is not there yet.
LEMMA PostedOne ==
    ASSUME NEW q \in Seq(Tasks), Injective(q), Ordered(q), NEW e \in Tasks, e \notin Elems(q),
           e = CloseAll => DeleteProtocol \notin Elems(q), NEW t, t = Append(q, e)
    PROVE  t \in Seq(Tasks) /\ Injective(t) /\ Ordered(t) /\ Elems(t) = Elems(q) \cup {e}
  <1>1. MoreBy(Tasks, q, e, t)
    BY ElemsAppend
  <1>2. Ordered(t)
    BY OrderedMore
  <1> QED
    BY <1>1, <1>2 DEF MoreBy

\* The connection is gone.
LEMMA HConnectionGone ==
    ASSUME ServerConstants, NEW s, HCore(s), s.conn # "gone",
           NEW t, t = NotifyConnectionDeletion(s)
    PROVE  HCore(t) /\ t.conn = "gone" /\ t.closed = TRUE /\ t.obj = s.obj
  <1> DEFINE e == IF s.active = {} THEN DeleteProtocol ELSE CloseAll
             x == Append(s.posted, e)
  <1>1. t = [[s EXCEPT !.conn = "gone", !.closed = TRUE, !.timeouts = {}, !.out = 0]
               EXCEPT !.posted = Append(@, e)]
    BY DEF NotifyConnectionDeletion, ConnectionGone, Post
  <1>2. s \in ServerState /\ HOne(s) /\ HHeld(s) /\ HPosted(s) /\ HGone(s)
    BY DEF HCore
  <1>3. e \in Tasks /\ e \in {DeleteProtocol, CloseAll} /\ (e = DeleteProtocol <=> s.active = {})
    BY ServerTasks, TasksDiffer
  <1>4. s.posted \in Seq(Tasks) /\ s.proto \in {"live", "freed"}
    BY <1>2, ServerFields
  <1>5. DeleteProtocol \notin Elems(s.posted) /\ CloseAll \notin Elems(s.posted) /\ s.proto = "live"
    BY <1>2, <1>4 DEF HGone
  <1> HIDE DEF e
  <1>6. x \in Seq(Tasks) /\ Injective(x) /\ Ordered(x) /\ Elems(x) = Elems(s.posted) \cup {e}
    BY <1>2, <1>3, <1>4, <1>5, PostedOne DEF HPosted
  <1> DEFINE c == [s EXCEPT !.conn = "gone", !.closed = TRUE, !.timeouts = {}, !.out = 0]
  <1>7. c \in ServerState
    <2>1. {} \in SUBSET {kRequestTimeout, kWriteTimeout} /\ 0 \in Nat
      OBVIOUS
    <2> QED
      BY <1>2, <2>1, ZenonT(30) DEF ServerState
  <1>8. /\ c.conn = "gone" /\ c.closed = TRUE /\ c.posted = s.posted
        /\ c.recv = s.recv /\ c.send = s.send /\ c.active = s.active /\ c.obj = s.obj
    BY <1>2 DEF ServerState
  <1>9. /\ c.streaming = s.streaming /\ c.closers = s.closers /\ c.ready = s.ready /\ c.app = s.app
        /\ c.proto = s.proto /\ c.failed = s.failed
    BY <1>2 DEF ServerState
  <1> HIDE DEF x, c
  <1>10. t = [c EXCEPT !.posted = x]
    BY <1>1, <1>8 DEF x, c
  <1>11. t \in ServerState
    BY <1>6, <1>7, <1>10, ZenonT(30) DEF ServerState
  <1>12. /\ t.conn = "gone" /\ t.closed = TRUE /\ t.posted = x
         /\ t.recv = s.recv /\ t.send = s.send /\ t.active = s.active /\ t.obj = s.obj
    BY <1>7, <1>8, <1>10 DEF ServerState
  <1>13. /\ t.streaming = s.streaming /\ t.closers = s.closers /\ t.ready = s.ready /\ t.app = s.app
         /\ t.proto = s.proto /\ t.failed = s.failed
    BY <1>7, <1>9, <1>10 DEF ServerState
  <1>14. HOne(t)
    BY <1>2, <1>12 DEF HOne
  <1>15. HHeld(t)
    BY <1>2, <1>12, <1>13 DEF HHeld
  <1>16. \A r : Delete(r) # e
    BY <1>3, TasksDiffer
  <1>17. HPosted(t)
    BY <1>2, <1>6, <1>12, <1>16 DEF HPosted
  <1>18. HGone(t)
    BY <1>2, <1>3, <1>5, <1>6, <1>12, <1>13 DEF HGone
  <1>19. HTimed(t)
    BY <1>12 DEF HTimed
  <1> QED
    BY <1>11, <1>12, <1>14, <1>15, <1>17, <1>18, <1>19 DEF HCore

\* More is written, and nobody is told less.
Quiet(s, t) ==
    /\ Alike(s, t) /\ t.send = s.send /\ (s.out > 0 => t.out > 0)
    /\ (kRequestTimeout \in s.timeouts => kRequestTimeout \in t.timeouts)

\* This keeps the invariant.
LEMMA CoreQuiet ==
    ASSUME NEW s, NEW t, HCore(s), Quiet(s, t)
    PROVE  HCore(t)
  <1>1. t \in ServerState
    BY DEF Quiet, Alike
  <1>2. HOne(t)
    BY DEF Quiet, Alike, HCore, HOne
  <1>3. HHeld(t)
    BY DEF Quiet, Alike, HCore, HHeld
  <1>4. HPosted(t)
    BY DEF Quiet, Alike, HCore, HPosted
  <1>5. HGone(t)
    BY DEF Quiet, Alike, HCore, HGone
  <1>6. HTimed(t)
    BY DEF Quiet, Alike, HCore, HTimed
  <1> QED
    BY <1>1, <1>2, <1>3, <1>4, <1>5, <1>6 DEF HCore

\* A handler of a dead connection forgets its request.
LEMMA CoreForgotten ==
    ASSUME NEW s, NEW r, NEW t, HCore(s), s.conn = "gone", Forgotten(s, r, t)
    PROVE  HCore(t)
  <1>1. t \in ServerState
    BY DEF Forgotten
  <1>2. HOne(t)
    BY DEF Forgotten, HCore, HOne
  <1>3. HHeld(t)
    BY DEF Forgotten, HCore, HHeld
  <1>4. HPosted(t)
    BY DEF Forgotten, HCore, HPosted
  <1>5. HGone(t)
    BY DEF Forgotten, HCore, HGone
  <1>6. HTimed(t)
    BY DEF Forgotten, HCore, HTimed
  <1> QED
    BY <1>1, <1>2, <1>3, <1>4, <1>5, <1>6 DEF HCore

\* FlushAndClose
LEMMA HFlush ==
    ASSUME NEW s, HCore(s), NEW t, t = FlushAndClose(s)
    PROVE  /\ HCore(t) /\ t.obj = s.obj /\ t.recv = s.recv /\ t.closed = s.closed
           /\ (t.conn = "open" => s.conn = "open") /\ (t.conn = "gone" <=> s.conn = "gone")
  <1>1. CASE s.conn # "open"
    BY <1>1 DEF FlushAndClose
  <1>2. CASE s.conn = "open"
    <2>1. s \in ServerState /\ HOne(s) /\ HHeld(s) /\ HPosted(s) /\ HGone(s) /\ HTimed(s)
      BY DEF HCore
    <2>2. t = [s EXCEPT !.conn = "flushing"]
      BY <1>2 DEF FlushAndClose
    <2>3. t \in ServerState
      BY <2>1, <2>2, ZenonT(30) DEF ServerState
    <2>4. /\ t.conn = "flushing" /\ t.recv = s.recv /\ t.send = s.send /\ t.active = s.active
          /\ t.obj = s.obj /\ t.streaming = s.streaming /\ t.closed = s.closed
      BY <2>1, <2>2 DEF ServerState
    <2>5. /\ t.orphans = s.orphans /\ t.closers = s.closers /\ t.ready = s.ready /\ t.app = s.app
          /\ t.posted = s.posted /\ t.proto = s.proto /\ t.failed = s.failed
      BY <2>1, <2>2 DEF ServerState
    <2>6. HOne(t)
      BY <2>1, <2>4 DEF HOne
    <2>7. HHeld(t)
      BY <2>1, <2>4, <2>5 DEF HHeld
    <2>8. HPosted(t)
      BY <2>1, <2>4, <2>5 DEF HPosted
    <2>9. HGone(t)
      BY <1>2, <2>1, <2>4, <2>5 DEF HGone
    <2>10. HTimed(t)
      BY <2>4 DEF HTimed
    <2>11. HCore(t)
      BY <2>3, <2>6, <2>7, <2>8, <2>9, <2>10 DEF HCore
    <2> QED
      BY <1>2, <2>4, <2>11
  <1> QED
    BY <1>1, <1>2

\* Bytes are written and n are left.
Writes(s, n, t) ==
    t = [s EXCEPT !.out = n,
                  !.ready = IF n = 0 THEN @ \ {s.send} ELSE @,
                  !.timeouts = IF n = 0 THEN @ \ {kWriteTimeout} ELSE @ \cup {kWriteTimeout}]

\* Bytes are written.
LEMMA HWritten ==
    ASSUME NEW s, HCore(s), s.conn = "open", NEW n \in Nat,
           NEW t, Writes(s, n, t)
    PROVE  /\ HCore(t) /\ t.obj = s.obj /\ t.recv = s.recv /\ t.closed = s.closed
           /\ t.conn = s.conn
  <1> DEFINE x == IF n = 0 THEN s.ready \ {s.send} ELSE s.ready
             y == IF n = 0 THEN s.timeouts \ {kWriteTimeout} ELSE s.timeouts \cup {kWriteTimeout}
  <1>1. s \in ServerState /\ HOne(s) /\ HHeld(s) /\ HPosted(s) /\ HGone(s) /\ HTimed(s)
    BY DEF HCore
  <1>2. t = [s EXCEPT !.out = n, !.ready = x, !.timeouts = y]
    BY DEF Writes
  <1>3. x \in SUBSET Requests /\ y \in SUBSET {kRequestTimeout, kWriteTimeout}
    BY <1>1, ServerFields
  <1>4. x \subseteq s.ready /\ (n = 0 => x = {})
    BY <1>1 DEF HTimed
  <1>5. kRequestTimeout \in s.timeouts => kRequestTimeout \in y
    BY DEF kRequestTimeout, kWriteTimeout
  <1> HIDE DEF x, y
  <1>6. t \in ServerState
    BY <1>1, <1>2, <1>3, ZenonT(30) DEF ServerState
  <1>7. /\ t.out = n /\ t.ready = x /\ t.timeouts = y
        /\ t.conn = s.conn /\ t.recv = s.recv /\ t.send = s.send /\ t.active = s.active
        /\ t.obj = s.obj /\ t.streaming = s.streaming /\ t.closed = s.closed
    BY <1>1, <1>2 DEF ServerState
  <1>8. /\ t.orphans = s.orphans /\ t.closers = s.closers /\ t.app = s.app
        /\ t.posted = s.posted /\ t.proto = s.proto /\ t.failed = s.failed
    BY <1>1, <1>2 DEF ServerState
  <1>9. HOne(t)
    BY <1>1, <1>7 DEF HOne
  <1>10. HHeld(t)
    BY <1>1, <1>4, <1>7, <1>8 DEF HHeld
  <1>11. HPosted(t)
    BY <1>1, <1>7, <1>8 DEF HPosted
  <1>12. HGone(t)
    BY <1>1, <1>7, <1>8 DEF HGone
  <1>13. HTimed(t)
    <2>1. n # 0 => n > 0
      OBVIOUS
    <2> QED
      BY <1>1, <1>4, <1>5, <1>7, <1>8, <2>1 DEF HTimed
  <1>14. HCore(t)
    BY <1>6, <1>9, <1>10, <1>11, <1>12, <1>13 DEF HCore
  <1> QED
    BY <1>7, <1>14

\* CloseAllActiveRequests
Wakes(c, A) == LET wake(r, s) == SignalClosed(s, r) IN FoldSet(wake, c, A)

\* One request is woken.
LEMMA WakesOne ==
    ASSUME NEW c, NEW r
    PROVE  Wakes(c, {r}) = SignalClosed(c, r)
  <1> DEFINE Eq(f) == f = [B \in SUBSET {r} |-> IF B = {} THEN c ELSE LET x == CHOOSE x \in B : TRUE IN SignalClosed(f[B \ {x}], x)]
             g == [B \in SUBSET {r} |-> IF B = {} THEN c ELSE SignalClosed(c, r)]
  <1>1. Wakes(c, {r}) = (CHOOSE f : Eq(f))[{r}]
    BY Zenon DEF Wakes, FoldSet, MapThenFoldSet
  <1>2. Eq(g)
    <2>1. \A B \in SUBSET {r} : B # {} => B = {r} /\ (CHOOSE x \in B : TRUE) = r /\ B \ {r} = {}
      OBVIOUS
    <2> QED
      BY <2>1
  <1> DEFINE h == CHOOSE f : Eq(f)
  <1>3. Eq(h)
    BY <1>2, Zenon
  <1> HIDE DEF h
  <1>4. h[{r}] = SignalClosed(h[{r} \ {CHOOSE x \in {r} : TRUE}], CHOOSE x \in {r} : TRUE)
    BY <1>3
  <1>5. h[{}] = c
    BY <1>3
  <1>6. (CHOOSE x \in {r} : TRUE) = r /\ {r} \ {r} = {}
    OBVIOUS
  <1> QED
    BY <1>1, <1>4, <1>5, <1>6 DEF h

\* None is.
LEMMA WakesNone ==
    ASSUME NEW c
    PROVE  Wakes(c, {}) = c
  <1> DEFINE Eq(f) == f = [B \in SUBSET {} |-> IF B = {} THEN c ELSE LET x == CHOOSE x \in B : TRUE IN SignalClosed(f[B \ {x}], x)]
             g == [B \in SUBSET {} |-> c]
  <1>1. Wakes(c, {}) = (CHOOSE f : Eq(f))[{}]
    BY Zenon DEF Wakes, FoldSet, MapThenFoldSet
  <1>2. Eq(g)
    OBVIOUS
  <1> DEFINE h == CHOOSE f : Eq(f)
  <1>3. Eq(h)
    BY <1>2, Zenon
  <1> HIDE DEF h
  <1>4. h[{}] = c
    BY <1>3
  <1> QED
    BY <1>1, <1>4 DEF h

\* The tasks of the loop.
LEMMA TaskKinds ==
    ASSUME NEW e \in Tasks
    PROVE  \/ \E r \in Requests : e = Delete(r) /\ e.do = "delete" /\ e.req = r
           \/ e = DeleteProtocol /\ e.do = "delete_protocol"
           \/ e = CloseAll /\ e.do = "close_all"
  BY DEF Tasks, Delete, DeleteProtocol, CloseAll

\* Requests only end.
Fades(s, t) ==
    \A x \in Requests : /\ t.obj[x] = "live" => s.obj[x] = "live"
                        /\ t.obj[x] = "none" <=> s.obj[x] = "none"

\* A task less.
Popped(s, t) ==
    /\ t \in ServerState /\ t.posted = Tail(s.posted)
    /\ t.conn = s.conn /\ t.closed = s.closed /\ t.recv = s.recv /\ t.send = s.send
    /\ t.active = s.active /\ t.timeouts = s.timeouts /\ t.out = s.out /\ t.obj = s.obj
    /\ t.streaming = s.streaming /\ t.orphans = s.orphans /\ t.closers = s.closers
    /\ t.ready = s.ready /\ t.app = s.app /\ t.proto = s.proto /\ t.failed = s.failed

\* The first task is taken.
TaskTaken(s, e, q) ==
    /\ Popped(s, q) /\ e \in Tasks /\ Elems(s.posted) = Elems(q.posted) \cup {e}
    /\ e \notin Elems(q.posted) /\ Injective(q.posted) /\ Ordered(q.posted)
    /\ (e = DeleteProtocol => CloseAll \notin Elems(q.posted))

\* The state without its first task.
LEMMA HPopped ==
    ASSUME NEW s, HCore(s), s.posted # <<>>, NEW e, e = Head(s.posted),
           NEW q, q = [s EXCEPT !.posted = Tail(@)]
    PROVE  TaskTaken(s, e, q)
  <1> DEFINE x == Tail(s.posted)
  <1>1. s \in ServerState /\ Injective(s.posted) /\ Ordered(s.posted) /\ s.posted \in Seq(Tasks)
    BY ServerFields DEF HCore, HPosted
  <1>2. /\ x \in Seq(Tasks) /\ e \in Tasks /\ Elems(s.posted) = Elems(x) \cup {e}
        /\ Injective(x) /\ e \notin Elems(x)
    BY <1>1, ElemsTail
  <1>3. Ordered(x) /\ (e = DeleteProtocol => CloseAll \notin Elems(x))
    BY <1>1, OrderedLess
  <1>4. q = [s EXCEPT !.posted = x]
    OBVIOUS
  <1> HIDE DEF x
  <1>5. q \in ServerState
    BY <1>1, <1>2, <1>4, ZenonT(30) DEF ServerState
  <1>6. /\ q.posted = x
        /\ q.conn = s.conn /\ q.closed = s.closed /\ q.recv = s.recv /\ q.send = s.send
        /\ q.active = s.active /\ q.timeouts = s.timeouts /\ q.out = s.out /\ q.obj = s.obj
    BY <1>1, <1>4 DEF ServerState
  <1>7. /\ q.streaming = s.streaming /\ q.orphans = s.orphans /\ q.closers = s.closers
        /\ q.ready = s.ready /\ q.app = s.app /\ q.proto = s.proto /\ q.failed = s.failed
    BY <1>1, <1>4 DEF ServerState
  <1>8. Popped(s, q)
    BY <1>5, <1>6, <1>7 DEF Popped, x
  <1> QED
    BY <1>2, <1>3, <1>6, <1>8 DEF TaskTaken

\* CloseAllActiveRequests is taken from the loop.
LEMMA CorePopped ==
    ASSUME NEW s, HCore(s), s.posted # <<>>, Head(s.posted) = CloseAll,
           NEW q, q = [s EXCEPT !.posted = Tail(@)]
    PROVE  HCore(q) /\ q.proto = "live" /\ q.conn = "gone"
  <1>1. s \in ServerState /\ HOne(s) /\ HHeld(s) /\ HPosted(s) /\ HGone(s) /\ HTimed(s)
    BY DEF HCore
  <1>2. /\ Popped(s, q) /\ Elems(s.posted) = Elems(q.posted) \cup {CloseAll}
        /\ CloseAll \notin Elems(q.posted) /\ Injective(q.posted) /\ Ordered(q.posted)
    <2>1. TaskTaken(s, CloseAll, q)
      BY HPopped, ZenonT(30)
    <2> QED
      BY <2>1 DEF TaskTaken
  <1>3. HOne(q)
    BY <1>1, <1>2 DEF HOne, Popped
  <1>4. HHeld(q)
    BY <1>1, <1>2 DEF HHeld, Popped
  <1>5. \A r : Delete(r) # CloseAll
    BY TasksDiffer
  <1>6. HPosted(q)
    BY <1>1, <1>2, <1>5 DEF HPosted, Popped
  <1>7. HGone(q) /\ q.proto = "live" /\ q.conn = "gone"
    BY <1>1, <1>2 DEF HGone, Popped
  <1>8. HTimed(q)
    BY <1>1, <1>2 DEF HTimed, Popped
  <1> QED
    BY <1>2, <1>3, <1>4, <1>6, <1>7, <1>8 DEF HCore, Popped

\* The task that deletes a request.
RunsDelete(s, q, r, t) ==
    t = Check([q EXCEPT !.obj[r] = "freed"], s.obj[r] # "freed", "deleted_twice")

\* What it does.
RunDelete(s, t) ==
    HCore(t) /\ Fades(s, t) /\ t.conn = s.conn /\ t.closed = s.closed /\ t.recv = s.recv

\* A request is deleted.
LEMMA HRunDelete ==
    ASSUME ServerConstants, NEW s, HCore(s), s.posted # <<>>, NEW r \in Requests,
           Head(s.posted) = Delete(r), NEW q, q = [s EXCEPT !.posted = Tail(@)],
           NEW t, RunsDelete(s, q, r, t)
    PROVE  RunDelete(s, t)
  <1>1. s \in ServerState /\ HOne(s) /\ HHeld(s) /\ HPosted(s) /\ HGone(s) /\ HTimed(s)
    BY DEF HCore
  <1>2. /\ Popped(s, q) /\ Elems(s.posted) = Elems(q.posted) \cup {Delete(r)}
        /\ Delete(r) \notin Elems(q.posted) /\ Injective(q.posted) /\ Ordered(q.posted)
    <2>1. TaskTaken(s, Delete(r), q)
      BY HPopped, ZenonT(30)
    <2> QED
      BY <2>1 DEF TaskTaken
  <1>3. s.obj[r] = "doomed"
    BY <1>1, <1>2 DEF HPosted
  <1>4. q \in ServerState /\ q.obj = s.obj /\ s.obj \in [Requests -> {"none", "live", "doomed", "freed"}]
    BY <1>1, <1>2, ServerFields DEF Popped
  <1> DEFINE x == [q.obj EXCEPT ![r] = "freed"]
  <1>5. t = [q EXCEPT !.obj = x]
    BY <1>3, <1>4 DEF Check, RunsDelete
  <1>6. /\ x \in [Requests -> {"none", "live", "doomed", "freed"}] /\ x[r] = "freed"
        /\ \A y \in Requests : y # r => x[y] = s.obj[y]
    BY <1>4
  <1> HIDE DEF x
  <1>7. t \in ServerState
    BY <1>4, <1>5, <1>6, ZenonT(30) DEF ServerState
  <1>8. /\ t.obj = x /\ t.posted = q.posted
        /\ t.conn = s.conn /\ t.closed = s.closed /\ t.recv = s.recv /\ t.send = s.send
        /\ t.active = s.active /\ t.timeouts = s.timeouts /\ t.out = s.out
    BY <1>2, <1>4, <1>5 DEF ServerState, Popped
  <1>9. /\ t.streaming = s.streaming /\ t.orphans = s.orphans /\ t.closers = s.closers
        /\ t.ready = s.ready /\ t.app = s.app /\ t.proto = s.proto /\ t.failed = s.failed
    BY <1>2, <1>4, <1>5 DEF ServerState, Popped
  <1>10. \A y \in Requests : (t.obj[y] = "live" <=> s.obj[y] = "live") /\ (t.obj[y] = "none" <=> s.obj[y] = "none")
    BY <1>3, <1>6, <1>8
  <1>11. HOne(t)
    BY <1>1, <1>10, ServerNumbers DEF HOne
  <1>12. HHeld(t)
    <2>1. /\ s.active \subseteq Requests /\ s.ready \subseteq Requests
          /\ s.recv \in Requests \cup {None} /\ s.streaming \subseteq Requests
      BY <1>1, ServerFields
    <2> QED
      BY <1>1, <1>8, <1>9, <1>10, <2>1 DEF HHeld
  <1>13. \A y \in Requests : y # r => Delete(y) # Delete(r)
    BY TasksDiffer
  <1>14. HPosted(t)
    BY <1>1, <1>2, <1>6, <1>8, <1>13 DEF HPosted
  <1>15. HGone(t)
    BY <1>1, <1>2, <1>8, <1>9 DEF HGone
  <1>16. HTimed(t)
    BY <1>1, <1>8, <1>9 DEF HTimed
  <1>17. HCore(t)
    BY <1>7, <1>11, <1>12, <1>14, <1>15, <1>16 DEF HCore
  <1>18. Fades(s, t)
    BY <1>10 DEF Fades
  <1> QED
    BY <1>8, <1>17, <1>18 DEF RunDelete

\* The invariant holds, and the connection is no more.
FreedAs(s, t) == HCore(t) /\ t.obj = s.obj /\ t.conn = "gone"

\* The protocol is freed.
LEMMA CoreFreed ==
    ASSUME NEW s, HCore(s), NEW q, TaskTaken(s, DeleteProtocol, q),
           NEW t, t = [q EXCEPT !.proto = "freed"]
    PROVE  FreedAs(s, t)
  <1>1. s \in ServerState /\ HOne(s) /\ HHeld(s) /\ HPosted(s) /\ HGone(s) /\ HTimed(s)
    BY DEF HCore
  <1>2. /\ Popped(s, q) /\ Elems(s.posted) = Elems(q.posted) \cup {DeleteProtocol}
        /\ DeleteProtocol \notin Elems(q.posted) /\ Injective(q.posted) /\ Ordered(q.posted)
        /\ CloseAll \notin Elems(q.posted)
    BY DEF TaskTaken
  <1>3. s.conn = "gone" /\ s.active = {}
    BY <1>1, <1>2 DEF HGone
  <1>4. q \in ServerState
    BY <1>2 DEF Popped
  <1>5. t \in ServerState
    BY <1>4, ZenonT(30) DEF ServerState
  <1>6. /\ t.obj = q.obj /\ t.posted = q.posted
        /\ t.conn = q.conn /\ t.closed = q.closed /\ t.recv = q.recv /\ t.send = q.send
        /\ t.active = q.active /\ t.timeouts = q.timeouts /\ t.out = q.out
    BY <1>4 DEF ServerState
  <1>7. /\ t.streaming = q.streaming /\ t.orphans = q.orphans /\ t.closers = q.closers
         /\ t.ready = q.ready /\ t.app = q.app /\ t.proto = "freed" /\ t.failed = q.failed
    BY <1>4 DEF ServerState
  <1>8. HOne(t)
    BY <1>1, <1>2, <1>6 DEF HOne, Popped
  <1>9. HHeld(t)
    BY <1>1, <1>2, <1>6, <1>7 DEF HHeld, Popped
  <1>10. \A r : Delete(r) # DeleteProtocol
    BY TasksDiffer
  <1>11. HPosted(t)
    BY <1>1, <1>2, <1>6, <1>10 DEF HPosted, Popped
  <1>12. HGone(t)
    BY <1>1, <1>2, <1>3, <1>6, <1>7 DEF HGone, Popped
  <1>13. HTimed(t) /\ t.obj = s.obj /\ t.conn = "gone"
    BY <1>2, <1>3, <1>6 DEF HTimed, Popped
  <1> QED
    BY <1>5, <1>8, <1>9, <1>11, <1>12, <1>13 DEF HCore, FreedAs

\* The checks of the destructor hold.
LEMMA ChecksOfDestructor ==
    ASSUME NEW s, HCore(s), NEW q, TaskTaken(s, DeleteProtocol, q)
    PROVE  /\ q.failed = "none" /\ q.active = {} /\ q.conn = "gone" /\ q.send = None
           /\ q.proto = "live" /\ (q.recv # None => q.obj[q.recv] = "live")
  <1>1. DeleteProtocol \in Elems(s.posted) /\ Popped(s, q)
    BY DEF TaskTaken
  <1>2. s.conn = "gone" /\ s.active = {} /\ s.proto = "live" /\ s.failed = "none"
    BY <1>1 DEF HCore, HGone
  <1>3. s.send = None /\ (s.recv # None => s.obj[s.recv] = "live")
    BY <1>2 DEF HCore, HHeld
  <1> QED
    BY <1>1, <1>2, <1>3 DEF Popped

\* The task that deletes the protocol.
Destroys(q, t) ==
    LET c == Check(q, q.active = {} /\ q.conn = "gone" /\ q.send = None, "destructor")
        d == Check(c, c.recv # None => c.obj[c.recv] = "live", "deleted_twice")
    IN t = [Check(d, q.proto = "live", "deleted_twice") EXCEPT !.proto = "freed"]

\* The protocol is deleted.
LEMMA HRunProtocol ==
    ASSUME ServerConstants, NEW s, HCore(s), s.posted # <<>>,
           Head(s.posted) = DeleteProtocol, NEW q, q = [s EXCEPT !.posted = Tail(@)],
           NEW t, Destroys(q, t)
    PROVE  FreedAs(s, t)
  <1> DEFINE c == Check(q, q.active = {} /\ q.conn = "gone" /\ q.send = None, "destructor")
             d == Check(c, c.recv # None => c.obj[c.recv] = "live", "deleted_twice")
  <1>1. TaskTaken(s, DeleteProtocol, q)
    BY HPopped, ZenonT(30)
  <1>2. /\ q.failed = "none" /\ q.active = {} /\ q.conn = "gone" /\ q.send = None
        /\ q.proto = "live" /\ (q.recv # None => q.obj[q.recv] = "live")
    BY <1>1, ChecksOfDestructor
  <1>3. c = q
    BY <1>2 DEF Check
  <1>4. d = q
    <2>1. d = Check(q, q.recv # None => q.obj[q.recv] = "live", "deleted_twice")
      BY <1>3
    <2> QED
      BY <1>2, <2>1, Zenon DEF Check
  <1>5. t = [q EXCEPT !.proto = "freed"]
    <2> DEFINE u == Check(d, q.proto = "live", "deleted_twice")
    <2>1. u = q
      BY <1>2, <1>4 DEF Check
    <2>2. t = [u EXCEPT !.proto = "freed"]
      BY DEF Destroys
    <2> HIDE DEF u
    <2> QED
      BY <2>1, <2>2, Zenon
  <1> QED
    BY <1>1, <1>5, CoreFreed, Zenon

\* The reply of a handler to the request it holds.
LEMMA HHandlerReply ==
    ASSUME ServerConstants, NEW s, HCore(s), NEW r \in Requests, s.obj[r] = "live",
           r \notin s.streaming, NEW b, Forgotten(s, r, b),
           NEW t, t = Reply(b, r, NoSignal) \/ t = ReplyWithStatus(b, r)
    PROVE  Over(s, r, t)
  <1>1. Only(s, r) /\ s \in ServerState
    BY CoreOnly DEF HCore
  <1>2. Forgotten(s, r, b)
    OBVIOUS
  <1>3. s.send = None
    BY <1>1 DEF Only, HCore, HHeld
  <1>4. Only(b, r) /\ b.app = {} /\ b.closers = {} /\ b.send = None /\ r \notin b.streaming
    BY <1>1, <1>2, <1>3 DEF Only, Forgotten
  <1>5. b \in ServerState
    BY <1>2 DEF Forgotten
  <1>6. Over(b, r, t)
    BY <1>4, <1>5, HReply
  <1>7. Akin(s, r, b)
    BY <1>2 DEF Akin, Forgotten
  <1> QED
    BY <1>6, <1>7, OverAkin

\* What is left of a dead connection.
Woken(s, t) == HCore(t) /\ Fades(s, t) /\ t.conn = "gone"

\* A handler of a dead connection is told.
LEMMA HWakes ==
    ASSUME ServerConstants, NEW s, HCore(s), s.conn = "gone", NEW r \in s.active,
           NEW t, t = SignalClosed(s, r)
    PROVE  Woken(s, t)
  <1>1. s \in ServerState /\ r \in Requests /\ s.obj[r] = "live"
    BY ServerFields DEF HCore, HHeld
  <1>2. \A x \in Requests : x # r => s.obj[x] # "live"
    BY <1>1, CoreOnly
  <1>3. CASE r \notin s.closers
    <2>1. t = s
      BY <1>1, <1>3, HUnheard
    <2> QED
      BY <2>1 DEF Woken, Fades
  <1>4. CASE r \in s.closers /\ r \notin Uploads
    <2>1. s.app \cap {r} \subseteq s.closers
      BY <1>4
    <2>2. Forgotten(s, r, t)
      BY <1>1, <1>4, <2>1, HSignal
    <2>3. HCore(t)
      BY <2>2, CoreForgotten
    <2>4. t.obj = s.obj /\ t.conn = s.conn
      BY <2>2 DEF Forgotten
    <2> QED
      BY <2>3, <2>4 DEF Woken, Fades
  <1>5. CASE r \in s.closers /\ r \in Uploads
    <2> DEFINE b == [s EXCEPT !.closers = @ \ {r}, !.app = @ \ {r}]
    <2>1. t = Reply(b, r, NoSignal)
      BY <1>1, <1>5 DEF SignalClosed, Check
    <2>2. r \notin s.streaming
      BY <1>5 DEF HCore, HHeld
    <2>3. Forgotten(s, r, b)
      BY <1>1, HForgets
    <2>4. Over(s, r, t)
      BY <1>1, <2>1, <2>2, <2>3, HHandlerReply
    <2> HIDE DEF b
    <2>5. HCore(t) /\ \A x \in Requests : t.obj[x] # "live"
      BY <1>1, <1>2, <2>4, CoreOver
    <2>6. t.obj = [s.obj EXCEPT ![r] = "doomed"] /\ t.conn = "gone"
      BY <2>4 DEF Over, Ready
    <2>7. s.obj \in [Requests -> {"none", "live", "doomed", "freed"}]
      BY <1>1, ServerFields
    <2>8. Fades(s, t)
      BY <1>1, <2>5, <2>6, <2>7 DEF Fades
    <2> QED
      BY <2>5, <2>6, <2>8 DEF Woken
  <1> QED
    BY <1>3, <1>4, <1>5

\* CloseAllActiveRequests wakes the handlers.
LEMMA HRunCloseAll ==
    ASSUME ServerConstants, NEW s, HCore(s), s.posted # <<>>,
           Head(s.posted) = CloseAll, NEW q, q = [s EXCEPT !.posted = Tail(@)],
           NEW t, t = Wakes(Check(q, q.proto = "live", "used_after_delete"), q.active)
    PROVE  Woken(s, t)
  <1>1. HCore(q) /\ q.proto = "live" /\ q.conn = "gone"
    BY CorePopped
  <1>2. s.obj = q.obj
    BY DEF ServerState, HCore
  <1>3. Check(q, q.proto = "live", "used_after_delete") = q
    BY <1>1 DEF Check
  <1>4. t = Wakes(q, q.active)
    BY <1>3
  <1>5. q \in ServerState /\ q.active \subseteq Requests
    BY <1>1, ServerFields DEF HCore
  <1>6. Woken(q, t)
    <2>1. CASE q.active = {}
      <3>1. t = q
        BY <1>4, <2>1, WakesNone
      <3> QED
        BY <1>1, <3>1 DEF Woken, Fades
    <2>2. ASSUME NEW r \in q.active PROVE Woken(q, t)
      <3>1. r \in Requests /\ q.obj[r] = "live"
        BY <1>1, <1>5, <2>2 DEF HCore, HHeld
      <3>2. q.active = {r}
        BY <1>1, <2>2, <3>1, CoreOnly DEF Only
      <3>3. t = SignalClosed(q, r)
        BY <1>4, <3>2, WakesOne
      <3> QED
        BY <1>1, <2>2, <3>3, HWakes
    <2> QED
      BY <2>1, <2>2
  <1> QED
    BY <1>2, <1>6 DEF Woken, Fades

\* A stream begins.
Begun(s, r, t) ==
    /\ t \in ServerState
    /\ t.conn = s.conn /\ t.closed = s.closed /\ t.recv = s.recv /\ t.send = r
    /\ t.active = s.active /\ t.timeouts = s.timeouts /\ (s.out > 0 => t.out > 0)
    /\ t.obj = s.obj /\ t.streaming = s.streaming \cup {r} /\ t.orphans = s.orphans
    /\ t.closers = s.closers \cup {r} /\ t.app = s.app
    /\ t.ready = s.ready /\ t.posted = s.posted
    /\ t.proto = s.proto /\ t.failed = s.failed

\* BeginStreamingData
LEMMA HBegins ==
    ASSUME ServerConstants, NEW s \in ServerState, NEW r \in Requests,
           s.send \in {r, None}, NEW t, t = BeginStreamingData(s, r)
    PROVE  Begun(s, r, t)
  <1> DEFINE x == s.streaming \cup {r}
             y == s.closers \cup {r}
             b == [s EXCEPT !.streaming = x, !.closers = y]
  <1>1. x \in SUBSET Requests /\ y \in SUBSET Requests
    BY ServerFields
  <1>2. t = PrepareResponse(b, r)
    BY DEF BeginStreamingData
  <1> HIDE DEF x, y
  <1>3. b \in ServerState
    BY <1>1, ZenonT(30) DEF ServerState
  <1>4. /\ b.streaming = x /\ b.closers = y
        /\ b.conn = s.conn /\ b.closed = s.closed /\ b.recv = s.recv /\ b.send = s.send
        /\ b.active = s.active /\ b.timeouts = s.timeouts /\ b.out = s.out
    BY DEF ServerState
  <1>5. /\ b.obj = s.obj /\ b.app = s.app /\ b.orphans = s.orphans
        /\ b.ready = s.ready /\ b.posted = s.posted
        /\ b.proto = s.proto /\ b.failed = s.failed
    BY DEF ServerState
  <1> HIDE DEF b
  <1>6. /\ Alike(b, t) /\ t.orphans = b.orphans /\ t.timeouts = b.timeouts /\ t.send = r
        /\ (b.out > 0 => t.out > 0)
    BY <1>2, <1>3, <1>4, HPrepare
  <1> QED
    BY <1>4, <1>5, <1>6 DEF Begun, Alike, x, y

\* A handler that begins to stream keeps the invariant.
LEMMA CoreBegun ==
    ASSUME ServerConstants, NEW s, HCore(s), NEW r \in s.app, r \notin s.streaming, r \notin Uploads,
           NEW t, Begun(s, r, t)
    PROVE  HCore(t)
  <1>1. s \in ServerState /\ HOne(s) /\ HHeld(s) /\ HPosted(s) /\ HGone(s) /\ HTimed(s)
    BY DEF HCore
  <1>2. r \in s.active /\ s.obj[r] = "live" /\ r \in Requests
    BY <1>1, ServerFields DEF HHeld
  <1>3. Only(s, r)
    BY <1>2, CoreOnly
  <1>4. \A x \in Requests : x # r => s.obj[x] # "live"
    BY <1>2, CoreOnly
  <1>5. s.streaming \subseteq Requests /\ r # None
    BY <1>1, <1>2, ServerFields, ServerNumbers
  <1>6. HOne(t)
    BY <1>1 DEF HOne, Begun
  <1>7. HHeld(t)
    BY <1>1, <1>2, <1>3, <1>4, <1>5 DEF HHeld, Begun, Only
  <1>8. HPosted(t)
    BY <1>1 DEF HPosted, Begun
  <1>9. HGone(t)
    BY <1>1 DEF HGone, Begun
  <1>10. HTimed(t)
    BY <1>1, <1>3 DEF HTimed, Begun, Only
  <1> QED
    BY <1>6, <1>7, <1>8, <1>9, <1>10 DEF HCore, Begun

\* HandlerWaits
LEMMA HWaits ==
    ASSUME ServerConstants, NEW s, HCore(s), NEW r \in s.app, r \in s.streaming, s.out > 0,
           NEW t, t = [s EXCEPT !.ready = @ \cup {r}]
    PROVE  HCore(t) /\ t.conn = s.conn /\ t.closed = s.closed /\ t.obj = s.obj /\ t.recv = s.recv
  <1> DEFINE x == s.ready \cup {r}
  <1>1. s \in ServerState /\ HOne(s) /\ HHeld(s) /\ HPosted(s) /\ HGone(s) /\ HTimed(s)
    BY DEF HCore
  <1>2. r \in s.active /\ s.obj[r] = "live" /\ r \in Requests /\ s.send = r
    BY <1>1, ServerFields DEF HHeld
  <1>3. x \in SUBSET Requests
    BY <1>1, <1>2, ServerFields
  <1>4. t = [s EXCEPT !.ready = x]
    OBVIOUS
  <1>5. \A i \in x : i \in s.ready \/ i = r
    OBVIOUS
  <1> HIDE DEF x
  <1>6. t \in ServerState
    BY <1>1, <1>3, <1>4, ZenonT(30) DEF ServerState
  <1>7. /\ t.obj = s.obj /\ t.posted = s.posted
        /\ t.conn = s.conn /\ t.closed = s.closed /\ t.recv = s.recv /\ t.send = s.send
        /\ t.active = s.active /\ t.timeouts = s.timeouts /\ t.out = s.out
    BY <1>1, <1>4 DEF ServerState
  <1>8. /\ t.streaming = s.streaming /\ t.orphans = s.orphans /\ t.closers = s.closers
        /\ t.ready = x /\ t.app = s.app /\ t.proto = s.proto /\ t.failed = s.failed
    BY <1>1, <1>4 DEF ServerState
  <1>9. HOne(t)
    BY <1>1, <1>7 DEF HOne
  <1>10. HHeld(t)
    BY <1>1, <1>2, <1>5, <1>7, <1>8 DEF HHeld
  <1>11. HPosted(t)
    BY <1>1, <1>7 DEF HPosted
  <1>12. HGone(t)
    BY <1>1, <1>7, <1>8 DEF HGone
  <1>13. HTimed(t)
    BY <1>1, <1>2, <1>5, <1>7, <1>8 DEF HTimed
  <1> QED
    BY <1>6, <1>7, <1>9, <1>10, <1>11, <1>12, <1>13 DEF HCore

\* The invariant holds, and requests and connection are as before.
Kept(s, t) ==
    HCore(t) /\ t.obj = s.obj /\ t.conn = s.conn /\ t.closed = s.closed /\ t.recv = s.recv

\* More bytes of a stream.
LEMMA KeptQuiet ==
    ASSUME NEW s, NEW t, HCore(s), Quiet(s, t)
    PROVE  Kept(s, t)
  <1>1. HCore(t)
    BY CoreQuiet
  <1> QED
    BY <1>1 DEF Kept, Quiet, Alike

\* A handler that is told no longer waits.
LEMMA HUnready ==
    ASSUME NEW s, HCore(s), NEW r, NEW t, t = [s EXCEPT !.ready = @ \ {r}]
    PROVE  Kept(s, t)
  <1> DEFINE x == s.ready \ {r}
  <1>1. s \in ServerState /\ HOne(s) /\ HHeld(s) /\ HPosted(s) /\ HGone(s) /\ HTimed(s)
    BY DEF HCore
  <1>2. x \in SUBSET Requests /\ x \subseteq s.ready
    BY <1>1, ServerFields
  <1>3. t = [s EXCEPT !.ready = x]
    OBVIOUS
  <1> HIDE DEF x
  <1>4. t \in ServerState
    BY <1>1, <1>2, <1>3, ZenonT(30) DEF ServerState
  <1>5. /\ t.obj = s.obj /\ t.posted = s.posted
        /\ t.conn = s.conn /\ t.closed = s.closed /\ t.recv = s.recv /\ t.send = s.send
        /\ t.active = s.active /\ t.timeouts = s.timeouts /\ t.out = s.out
    BY <1>1, <1>3 DEF ServerState
  <1>6. /\ t.streaming = s.streaming /\ t.orphans = s.orphans /\ t.closers = s.closers
        /\ t.ready = x /\ t.app = s.app /\ t.proto = s.proto /\ t.failed = s.failed
    BY <1>1, <1>3 DEF ServerState
  <1>7. HOne(t)
    BY <1>1, <1>5 DEF HOne
  <1>8. HHeld(t)
    BY <1>1, <1>2, <1>5, <1>6 DEF HHeld
  <1>9. HPosted(t)
    BY <1>1, <1>5 DEF HPosted
  <1>10. HGone(t)
    BY <1>1, <1>5, <1>6 DEF HGone
  <1>11. HTimed(t)
    BY <1>1, <1>2, <1>5, <1>6 DEF HTimed
  <1> QED
    BY <1>4, <1>5, <1>7, <1>8, <1>9, <1>10, <1>11 DEF HCore, Kept

\* EndRequestProcessing of a request that goes on.
GoesOn(s, r, t) ==
    \E x \in SUBSET {kRequestTimeout, kWriteTimeout} :
       LET b == [s EXCEPT !.send = r, !.timeouts = x]
           g == IF r \in s.orphans THEN SignalClosed(b, r) ELSE b
       IN /\ s.timeouts \subseteq x
          /\ t = g \/ t = [g EXCEPT !.ready = @ \ {r}]

\* What it does.
LEMMA HGoesOn ==
    ASSUME NEW s \in ServerState, NEW r, s.send = r, s.failed = "none",
           NEW t, t = EndRequestProcessing(s, r, FALSE)
    PROVE  GoesOn(s, r, t)
  <1> DEFINE x == IF s.conn # "gone" /\ s.out > 0 THEN s.timeouts \cup {kWriteTimeout} ELSE s.timeouts
             b == [s EXCEPT !.send = r, !.timeouts = x]
             g == IF r \in s.orphans THEN SignalClosed(b, r) ELSE b
  <1>1. x \in SUBSET {kRequestTimeout, kWriteTimeout} /\ s.timeouts \subseteq x
    BY ServerFields
  <1>2. EndBefore(s, r, FALSE) = b
    BY DEF EndBefore, Check
  <1>3. t = EndAfter(g, r, FALSE, FALSE)
    BY <1>2 DEF EndRequestProcessing, ShouldClose
  <1> HIDE DEF x
  <1>4. t = g \/ t = [g EXCEPT !.ready = @ \ {r}]
    BY <1>3 DEF EndAfter
  <1> QED
    BY <1>1, <1>4 DEF GoesOn

\* The handlers neither.
KeptHandlers(s, t) ==
    Kept(s, t) /\ t.orphans = s.orphans /\ t.app = s.app /\ t.closers = s.closers

\* The timers and the sender of a state.
LEMMA KeptSender ==
    ASSUME NEW s, HCore(s), NEW x \in SUBSET {kRequestTimeout, kWriteTimeout},
           s.timeouts \subseteq x, NEW t, t = [s EXCEPT !.send = s.send, !.timeouts = x]
    PROVE  KeptHandlers(s, t)
  <1>1. s \in ServerState
    BY DEF HCore
  <1>2. s.send \in Requests \cup {None}
    BY <1>1, ServerFields
  <1>3. SenderAs(s, s.send, x, t)
    BY <1>1, <1>2, HSender
  <1>4. Alike(s, t) /\ t.send = s.send /\ t.timeouts = x /\ t.out = s.out /\ t.orphans = s.orphans
    BY <1>3 DEF SenderAs
  <1>5. Quiet(s, t)
    BY <1>4 DEF Quiet
  <1>6. Kept(s, t)
    BY <1>5, KeptQuiet
  <1> QED
    BY <1>4, <1>6 DEF Alike, KeptHandlers

\* A request of a dead connection is marked.
LEMMA HMarked ==
    ASSUME NEW s \in ServerState, s.conn = "gone", NEW r \in Requests,
           NEW t, t = [s EXCEPT !.orphans = @ \cup {r}]
    PROVE  Alike(s, t) /\ r \in t.orphans /\ t.send = s.send /\ t.closers = s.closers
           /\ t.out = s.out /\ t.timeouts = s.timeouts
  <1> DEFINE x == s.orphans \cup {r}
  <1>1. x \in SUBSET Requests /\ r \in x
    BY ServerFields
  <1>2. t = [s EXCEPT !.orphans = x]
    OBVIOUS
  <1> HIDE DEF x
  <1>3. t \in ServerState
    BY <1>1, <1>2, ZenonT(30) DEF ServerState
  <1>4. t.orphans = x /\ t.send = s.send /\ t.out = s.out /\ t.timeouts = s.timeouts
    BY <1>2 DEF ServerState
  <1>5. /\ t.conn = s.conn /\ t.closed = s.closed /\ t.recv = s.recv /\ t.active = s.active
        /\ t.obj = s.obj /\ t.streaming = s.streaming /\ t.closers = s.closers
        /\ t.ready = s.ready /\ t.app = s.app /\ t.posted = s.posted
        /\ t.proto = s.proto /\ t.failed = s.failed
    BY <1>2 DEF ServerState
  <1>6. Alike(s, t)
    BY <1>3, <1>5 DEF Alike
  <1> QED
    BY <1>1, <1>4, <1>5, <1>6

\* The invariant is not about orphans of a dead connection.
LEMMA HOrphan ==
    ASSUME NEW s, HCore(s), s.conn = "gone", NEW r \in Requests,
           NEW t, t = [s EXCEPT !.orphans = @ \cup {r}]
    PROVE  Kept(s, t) /\ Alike(s, t) /\ r \in t.orphans /\ t.send = s.send /\ t.closers = s.closers
  <1>1. s \in ServerState
    BY DEF HCore
  <1>2. /\ Alike(s, t) /\ r \in t.orphans /\ t.send = s.send /\ t.closers = s.closers
        /\ t.out = s.out /\ t.timeouts = s.timeouts
    BY <1>1, HMarked
  <1>3. Quiet(s, t)
    BY <1>2 DEF Quiet
  <1>4. Kept(s, t)
    BY <1>3, KeptQuiet
  <1> QED
    BY <1>2, <1>4

\* A stream goes on.
LEMMA HGoesOnKeeps ==
    ASSUME ServerConstants, NEW s, HCore(s), NEW r \in s.app, r \in s.streaming,
           r \in s.orphans <=> s.conn = "gone", NEW t, GoesOn(s, r, t)
    PROVE  Kept(s, t)
  <1>1. s \in ServerState /\ HHeld(s)
    BY DEF HCore
  <1>2. r \in s.active /\ s.obj[r] = "live" /\ r \in Requests /\ s.send = r /\ r \notin Uploads
    BY <1>1, ServerFields DEF HHeld
  <1>3. PICK x \in SUBSET {kRequestTimeout, kWriteTimeout} :
           LET b == [s EXCEPT !.send = r, !.timeouts = x]
               g == IF r \in s.orphans THEN SignalClosed(b, r) ELSE b
           IN /\ s.timeouts \subseteq x
              /\ t = g \/ t = [g EXCEPT !.ready = @ \ {r}]
    BY DEF GoesOn
  <1> DEFINE b == [s EXCEPT !.send = r, !.timeouts = x]
             g == IF r \in s.orphans THEN SignalClosed(b, r) ELSE b
  <1>4. s.timeouts \subseteq x /\ (t = g \/ t = [g EXCEPT !.ready = @ \ {r}])
    BY <1>3
  <1>5. b = [s EXCEPT !.send = s.send, !.timeouts = x]
    BY <1>2
  <1> HIDE DEF b
  <1>6. Kept(s, b) /\ b.app = s.app /\ b.closers = s.closers
    <2>1. KeptHandlers(s, b)
      BY <1>4, <1>5, KeptSender
    <2> QED
      BY <2>1 DEF KeptHandlers
  <1>7. Kept(b, g)
    <2>1. CASE r \notin s.orphans
      BY <1>6, <2>1 DEF Kept
    <2>2. CASE r \in s.orphans
      <3>1. b \in ServerState /\ b.obj[r] = "live" /\ b.app \cap {r} \subseteq b.closers
        BY <1>1, <1>2, <1>6 DEF Kept, HHeld, HCore
      <3>2. g = SignalClosed(b, r)
        BY <2>2
      <3> HIDE DEF g
      <3>3. Forgotten(b, r, g)
        BY <1>2, <3>1, <3>2, HSignal
      <3>4. HCore(b) /\ b.conn = "gone"
        BY <1>6, <2>2 DEF Kept
      <3>5. HCore(g)
        BY <3>3, <3>4, CoreForgotten
      <3> QED
        BY <3>3, <3>5 DEF Kept, Forgotten
    <2> QED
      BY <2>1, <2>2
  <1> HIDE DEF g
  <1>8. Kept(g, t)
    <2>1. HCore(g)
      BY <1>7 DEF Kept
    <2>2. CASE t = g
      BY <2>1, <2>2 DEF Kept
    <2>3. CASE t = [g EXCEPT !.ready = @ \ {r}]
      BY <2>1, <2>3, HUnready
    <2> QED
      BY <1>4, <2>2, <2>3
  <1> QED
    BY <1>6, <1>7, <1>8 DEF Kept

\* A chunk more in the buffer.
LEMMA HOneMore ==
    ASSUME NEW s \in ServerState, NEW t,
           t = [s EXCEPT !.out = IF @ <= MaxReply + 1 THEN @ + 1 ELSE @]
    PROVE  Alike(s, t) /\ t.send = s.send
  <1> DEFINE x == IF s.out <= MaxReply + 1 THEN s.out + 1 ELSE s.out
  <1>1. x \in Nat
    BY ServerFields
  <1>2. t = [s EXCEPT !.out = x]
    OBVIOUS
  <1> HIDE DEF x
  <1>3. t \in ServerState
    BY <1>1, <1>2, ZenonT(30) DEF ServerState
  <1>4. t.send = s.send
    BY <1>2 DEF ServerState
  <1>5. Alike(s, t)
    BY <1>2, <1>3 DEF Alike, ServerState
  <1> QED
    BY <1>4, <1>5

\* A stream that ends, whatever was written before.
LEMMA HEndAlike ==
    ASSUME ServerConstants, NEW s, NEW r \in Requests, Only(s, r), r \notin Uploads,
           s.app \subseteq s.closers, NEW e, Alike(s, e), e.send = r,
           NEW t, t = EndRequestProcessing(e, r, TRUE)
    PROVE  Over(s, r, t)
  <1>1. e \in ServerState /\ Only(e, r) /\ e.app \subseteq e.closers
    BY DEF Alike, Only
  <1>2. Over(e, r, t)
    BY <1>1, HEndRequest
  <1> QED
    BY <1>2, OverAlike

\* HandlerContinues: StreamData.
LEMMA HStreamData ==
    ASSUME ServerConstants, NEW s, HCore(s), NEW r \in s.app, r \in s.streaming,
           NEW t, \E data \in BOOLEAN : t = StreamData(s, r, data, FALSE)
    PROVE  Kept(s, t) \/ Over(s, r, t)
  <1>1. s \in ServerState /\ HHeld(s)
    BY DEF HCore
  <1>2. r \in s.active /\ s.obj[r] = "live" /\ r \in Requests /\ s.send = r /\ r \notin Uploads
    BY <1>1, ServerFields DEF HHeld
  <1>3. Only(s, r) /\ s.app \subseteq s.closers
    <2>1. Only(s, r)
      BY <1>2, CoreOnly
    <2> QED
      BY <1>1, <2>1 DEF HHeld, Only
  <1>4. s.failed = "none"
    BY DEF HCore, HGone
  <1>5. CASE s.conn = "gone"
    <2> DEFINE o == [s EXCEPT !.orphans = @ \cup {r}]
    <2>1. t = EndRequestProcessing(o, r, FALSE)
      BY <1>2, <1>4, <1>5 DEF StreamData, Check
    <2>2. /\ Kept(s, o) /\ Alike(s, o) /\ r \in o.orphans /\ o.send = s.send /\ o.closers = s.closers
      BY <1>2, <1>5, HOrphan
    <2> HIDE DEF o
    <2>3. o \in ServerState /\ o.send = r /\ o.failed = "none" /\ HCore(o) /\ r \in o.app
          /\ r \in o.streaming /\ (r \in o.orphans <=> o.conn = "gone")
      BY <1>2, <1>4, <1>5, <2>2 DEF Kept, Alike
    <2>4. GoesOn(o, r, t)
      BY <2>1, <2>3, HGoesOn
    <2>5. Kept(o, t)
      BY <2>3, <2>4, HGoesOnKeeps
    <2> QED
      BY <2>2, <2>5 DEF Kept
  <1>6. CASE s.conn # "gone"
    <2>1. PICK e : /\ t = EndRequestProcessing(e, r, FALSE) \/ t = EndRequestProcessing(e, r, TRUE)
                   /\ \/ e = s \/ e = Append1(s, r)
                      \/ t = EndRequestProcessing(e, r, TRUE)
                         /\ \E w : /\ w = s \/ w = Append1(s, r)
                                   /\ e = [w EXCEPT !.out = IF @ <= MaxReply + 1 THEN @ + 1 ELSE @]
      BY <1>2, <1>4, <1>6 DEF StreamData, Check
    <2>2. s.orphans = {}
      BY <1>6 DEF HCore, HGone
    <2>3. \A w : w = s \/ w = Append1(s, r) => Unmoved(s, w)
      <3>1. ASSUME NEW w, w = Append1(s, r) PROVE Unmoved(s, w)
        BY <1>1, <1>2, <3>1, HAppend1
      <3>2. Unmoved(s, s)
        BY <1>1 DEF Unmoved, Alike
      <3> QED
        BY <3>1, <3>2
    <2>4. CASE e = s \/ e = Append1(s, r)
      <3>1. Unmoved(s, e)
        BY <2>3, <2>4
      <3>2. Quiet(s, e)
        BY <3>1 DEF Unmoved, Quiet
      <3>3. Kept(s, e)
        BY <3>2, KeptQuiet
      <3>4. e \in ServerState /\ e.send = r /\ e.failed = "none" /\ HCore(e) /\ r \in e.app
            /\ r \in e.streaming /\ (r \in e.orphans <=> e.conn = "gone")
        BY <1>2, <1>4, <1>6, <2>2, <3>1, <3>3 DEF Kept, Unmoved, Alike
      <3>5. CASE t = EndRequestProcessing(e, r, FALSE)
        <4>1. GoesOn(e, r, t)
          BY <3>4, <3>5, HGoesOn
        <4>2. Kept(e, t)
          BY <3>4, <4>1, HGoesOnKeeps
        <4> QED
          BY <3>3, <4>2 DEF Kept
      <3>6. CASE t = EndRequestProcessing(e, r, TRUE)
        <4>1. Alike(s, e)
          BY <3>1 DEF Unmoved
        <4> QED
          BY <1>2, <1>3, <3>4, <3>6, <4>1, HEndAlike
      <3> QED
        BY <2>1, <3>5, <3>6
    <2>5. ASSUME NEW w, w = s \/ w = Append1(s, r),
                 e = [w EXCEPT !.out = IF @ <= MaxReply + 1 THEN @ + 1 ELSE @],
                 t = EndRequestProcessing(e, r, TRUE)
          PROVE  Over(s, r, t)
      <3>1. Unmoved(s, w)
        BY <2>3, <2>5
      <3>2. Alike(s, w) /\ w.send = s.send
        BY <3>1 DEF Unmoved
      <3>3. w \in ServerState
        BY <3>2 DEF Alike
      <3>4. Alike(w, e) /\ e.send = w.send
        BY <2>5, <3>3, HOneMore
      <3>5. Alike(s, e) /\ e.send = r
        BY <1>2, <3>2, <3>4, AlikeTwice
      <3> QED
        BY <1>2, <1>3, <2>5, <3>5, HEndAlike
    <2> QED
      BY <2>1, <2>4, <2>5
  <1> QED
    BY <1>5, <1>6

\* HandlerEnds
LEMMA HStreamEnds ==
    ASSUME ServerConstants, NEW s, HCore(s), NEW r \in s.app, r \in s.streaming,
           NEW t, t = StreamData([s EXCEPT !.app = @ \ {r}], r, FALSE, TRUE)
    PROVE  Over(s, r, t)
  <1> DEFINE x == s.app \ {r}
             a == [s EXCEPT !.app = x]
             o == [a EXCEPT !.orphans = @ \cup {r}]
             e == [a EXCEPT !.out = IF @ <= MaxReply + 1 THEN @ + 1 ELSE @]
  <1>1. s \in ServerState /\ HHeld(s)
    BY DEF HCore
  <1>2. r \in s.active /\ s.obj[r] = "live" /\ r \in Requests /\ s.send = r /\ r \notin Uploads
    BY <1>1, ServerFields DEF HHeld
  <1>3. Only(s, r)
    BY <1>2, CoreOnly
  <1>4. x \in SUBSET Requests /\ x = {}
    BY <1>1, <1>3, ServerFields DEF Only
  <1>5. t = StreamData(a, r, FALSE, TRUE)
    OBVIOUS
  <1> HIDE DEF x
  <1>6. a \in ServerState
    BY <1>1, <1>4, ZenonT(30) DEF ServerState
  <1>7. /\ a.app = x /\ a.conn = s.conn /\ a.closed = s.closed /\ a.recv = s.recv /\ a.send = s.send
        /\ a.active = s.active /\ a.obj = s.obj /\ a.streaming = s.streaming /\ a.closers = s.closers
    BY <1>1 DEF ServerState
  <1>8. /\ a.orphans = s.orphans /\ a.ready = s.ready
        /\ a.posted = s.posted /\ a.proto = s.proto /\ a.failed = s.failed
    BY <1>1 DEF ServerState
  <1> HIDE DEF a
  <1>9. Only(a, r) /\ a.app \subseteq a.closers /\ a.send = r
    BY <1>2, <1>3, <1>4, <1>7, <1>8 DEF Only
  <1>10. \/ a.conn = "gone" /\ t = EndRequestProcessing(o, r, TRUE)
        \/ t = EndRequestProcessing(e, r, TRUE)
    BY <1>5, <1>9 DEF StreamData, Check, Only
  <1>11. Alike(a, e) /\ e.send = a.send
    BY <1>6, HOneMore
  <1>12. a.conn = "gone" => Alike(a, o) /\ o.send = a.send
    BY <1>2, <1>6, HMarked
  <1> HIDE DEF o, e
  <1>13. Over(a, r, t)
    BY <1>2, <1>9, <1>10, <1>11, <1>12, HEndAlike
  <1>14. Akin(s, r, a)
    BY <1>7, <1>8 DEF Akin
  <1> QED
    BY <1>13, <1>14, OverAkin

-----------------------------------------------------------------------------
(* The server reads *)

\* The object of a request is made.
Opened(s, r, t) ==
    /\ t \in ServerState
    /\ t.conn = s.conn /\ t.closed = s.closed /\ t.recv = r /\ t.send = s.send
    /\ t.active = s.active /\ t.timeouts = s.timeouts /\ t.out = s.out
    /\ t.obj = [s.obj EXCEPT ![r] = "live"] /\ t.streaming = s.streaming /\ t.orphans = s.orphans
    /\ t.closers = s.closers /\ t.app = s.app
    /\ t.ready = s.ready /\ t.posted = s.posted
    /\ t.proto = s.proto /\ t.failed = s.failed

\* The beginning of HeaderRead.
LEMMA HOpens ==
    ASSUME NEW s \in ServerState, NEW r \in Requests, NEW x \in SUBSET Requests,
           NEW t, t = [s EXCEPT !.recv = r, !.obj[r] = "live", !.wants = x]
    PROVE  Opened(s, r, t)
  <1> DEFINE o == [s.obj EXCEPT ![r] = "live"]
  <1>1. o \in [Requests -> {"none", "live", "doomed", "freed"}]
    BY ServerFields
  <1>2. t = [s EXCEPT !.recv = r, !.obj = o, !.wants = x]
    OBVIOUS
  <1>3. t.obj = o
    BY <1>2 DEF ServerState
  <1> HIDE DEF o
  <1>4. t \in ServerState
    BY <1>1, <1>2, ZenonT(30) DEF ServerState
  <1>5. /\ t.conn = s.conn /\ t.closed = s.closed /\ t.recv = r /\ t.send = s.send
        /\ t.active = s.active /\ t.timeouts = s.timeouts /\ t.out = s.out
    BY <1>2 DEF ServerState
  <1>6. /\ t.streaming = s.streaming /\ t.orphans = s.orphans
        /\ t.closers = s.closers /\ t.app = s.app
        /\ t.ready = s.ready /\ t.posted = s.posted
        /\ t.proto = s.proto /\ t.failed = s.failed
    BY <1>2 DEF ServerState
  <1> QED
    BY <1>3, <1>4, <1>5, <1>6 DEF Opened, o

\* A request is given to its handler.
HandsTo(s, r) ==
    [s EXCEPT !.app = @ \cup {r}, !.closers = IF r \in Uploads THEN @ \cup {r} ELSE @]

\* What this changes.
HandedTo(s, r, t) ==
    /\ t \in ServerState
    /\ t.conn = s.conn /\ t.closed = s.closed /\ t.recv = s.recv /\ t.send = s.send
    /\ t.active = s.active /\ t.timeouts = s.timeouts /\ t.out = s.out
    /\ t.obj = s.obj /\ t.streaming = s.streaming /\ t.orphans = s.orphans
    /\ t.app = s.app \cup {r}
    /\ t.closers = (IF r \in Uploads THEN s.closers \cup {r} ELSE s.closers)
    /\ t.ready = s.ready /\ t.posted = s.posted
    /\ t.proto = s.proto /\ t.failed = s.failed

\* The beginning of Handle.
LEMMA HHands ==
    ASSUME NEW s \in ServerState, NEW r \in Requests, NEW t, t = HandsTo(s, r)
    PROVE  HandedTo(s, r, t)
  <1> DEFINE x == s.app \cup {r}
             y == IF r \in Uploads THEN s.closers \cup {r} ELSE s.closers
  <1>1. x \in SUBSET Requests /\ y \in SUBSET Requests
    BY ServerFields
  <1>2. t = [s EXCEPT !.app = x, !.closers = y]
    BY DEF HandsTo
  <1> HIDE DEF x, y
  <1>3. t \in ServerState
    BY <1>1, <1>2, ZenonT(30) DEF ServerState
  <1>4. /\ t.app = x /\ t.closers = y
        /\ t.conn = s.conn /\ t.closed = s.closed /\ t.recv = s.recv /\ t.send = s.send
        /\ t.active = s.active /\ t.timeouts = s.timeouts /\ t.out = s.out
    BY <1>2 DEF ServerState
  <1>5. /\ t.obj = s.obj /\ t.streaming = s.streaming /\ t.orphans = s.orphans
        /\ t.ready = s.ready /\ t.posted = s.posted
        /\ t.proto = s.proto /\ t.failed = s.failed
    BY <1>2 DEF ServerState
  <1> QED
    BY <1>3, <1>4, <1>5 DEF HandedTo, x, y

\* A handler that replies at once.
LEMMA HHandleReply ==
    ASSUME ServerConstants, NEW s \in ServerState, NEW r \in Requests, Only(s, r),
           s.send = None, r \notin s.streaming, NEW t, t = Handle(s, r, "reply")
    PROVE  Over(s, r, t)
  <1> DEFINE h == HandsTo(s, r)
             b == [h EXCEPT !.app = @ \ {r}, !.closers = @ \ {r}]
  <1>1. t = ReplyWithStatus(b, r)
    BY DEF Handle, HandsTo
  <1>2. HandedTo(s, r, h)
    BY HHands
  <1> HIDE DEF h
  <1>3. h \in ServerState
    BY <1>2 DEF HandedTo
  <1>4. Forgotten(h, r, b)
    BY <1>3, HForgets
  <1> HIDE DEF b
  <1>5. Only(b, r) /\ b.app = {} /\ b.closers = {} /\ b.send = None /\ r \notin b.streaming
    BY <1>2, <1>4 DEF Only, HandedTo, Forgotten
  <1>6. b \in ServerState
    BY <1>4 DEF Forgotten
  <1>7. Over(b, r, t)
    BY <1>1, <1>5, <1>6, HReply
  <1>8. Akin(s, r, b)
    BY <1>2, <1>4 DEF Akin, HandedTo, Forgotten
  <1> QED
    BY <1>7, <1>8, OverAkin

\* What ConnectionRead does to a request: it opens, is given to its handler, or ends.
LEMMA CoreOpened ==
    ASSUME ServerConstants, NEW s, HCore(s), NEW r \in Requests, r # 0, r \notin Uploads,
           s.obj[r] = "none", \A x \in Requests : s.obj[x] # "live",
           NEW t, Opened(s, r, t)
    PROVE  HCore(t)
  <1>1. s \in ServerState /\ HOne(s) /\ HHeld(s) /\ HPosted(s) /\ HGone(s) /\ HTimed(s)
    BY DEF HCore
  <1>2. /\ s.active = {} /\ s.app = {} /\ s.closers = {} /\ s.ready = {}
        /\ s.recv = None /\ s.send = None
    BY CoreNone
  <1>3. s.obj \in [Requests -> {"none", "live", "doomed", "freed"}] /\ s.streaming \subseteq Requests
    BY <1>1, ServerFields
  <1>4. t.obj[r] = "live" /\ \A x \in Requests : x # r => t.obj[x] = s.obj[x]
    BY <1>3 DEF Opened
  <1>5. HOne(t)
    BY <1>1, <1>4, ServerNumbers DEF HOne
  <1>6. HHeld(t)
    BY <1>1, <1>2, <1>3, <1>4, ServerNumbers DEF HHeld, Opened
  <1>7. HPosted(t)
    BY <1>1, <1>4 DEF HPosted, Opened
  <1>8. HGone(t)
    BY <1>1 DEF HGone, Opened
  <1>9. HTimed(t)
    BY <1>1 DEF HTimed, Opened
  <1> QED
    BY <1>5, <1>6, <1>7, <1>8, <1>9 DEF HCore, Opened

\* The request is active.
Active(s, r, t) ==
    /\ t \in ServerState
    /\ t.conn = s.conn /\ t.closed = s.closed /\ t.recv = s.recv /\ t.send = s.send
    /\ t.active = s.active \cup {r} /\ t.out = s.out
    /\ t.obj = s.obj /\ t.streaming = s.streaming /\ t.orphans = s.orphans
    /\ t.closers = s.closers /\ t.app = s.app
    /\ t.ready = s.ready /\ t.posted = s.posted
    /\ t.proto = s.proto /\ t.failed = s.failed

\* It is entered among the active ones, and the timer is off when all is read.
LEMMA HActive ==
    ASSUME NEW s \in ServerState, NEW r \in Requests,
           NEW t, \/ t = [s EXCEPT !.active = @ \cup {r}]
                  \/ t = [s EXCEPT !.timeouts = @ \ {kRequestTimeout}, !.active = @ \cup {r}]
    PROVE  Active(s, r, t)
  <1> DEFINE x == s.active \cup {r}
             y == s.timeouts \ {kRequestTimeout}
             u == [s EXCEPT !.active = x]
             v == [s EXCEPT !.timeouts = y, !.active = x]
  <1>1. x \in SUBSET Requests /\ y \in SUBSET {kRequestTimeout, kWriteTimeout}
    BY ServerFields
  <1>2. t = u \/ t = v
    OBVIOUS
  <1> HIDE DEF x, y
  <1>3. Active(s, r, u)
    <2>1. u \in ServerState
      BY <1>1, ZenonT(30) DEF ServerState
    <2>2. /\ u.active = x
          /\ u.conn = s.conn /\ u.closed = s.closed /\ u.recv = s.recv /\ u.send = s.send
          /\ u.out = s.out /\ u.obj = s.obj /\ u.streaming = s.streaming
      BY DEF ServerState
    <2>3. /\ u.orphans = s.orphans /\ u.closers = s.closers /\ u.app = s.app
          /\ u.ready = s.ready /\ u.posted = s.posted
          /\ u.proto = s.proto /\ u.failed = s.failed
      BY DEF ServerState
    <2> QED
      BY <2>1, <2>2, <2>3 DEF Active, x
  <1>4. Active(s, r, v)
    <2>1. v \in ServerState
      BY <1>1, ZenonT(30) DEF ServerState
    <2>2. /\ v.active = x
          /\ v.conn = s.conn /\ v.closed = s.closed /\ v.recv = s.recv /\ v.send = s.send
          /\ v.out = s.out /\ v.obj = s.obj /\ v.streaming = s.streaming
      BY DEF ServerState
    <2>3. /\ v.orphans = s.orphans /\ v.closers = s.closers /\ v.app = s.app
          /\ v.ready = s.ready /\ v.posted = s.posted
          /\ v.proto = s.proto /\ v.failed = s.failed
      BY DEF ServerState
    <2> QED
      BY <2>1, <2>2, <2>3 DEF Active, x
  <1> QED
    BY <1>2, <1>3, <1>4

\* The handler has the request, and v is read.
Taken(s, r, v, t) ==
    /\ t \in ServerState
    /\ t.conn = s.conn /\ t.closed = s.closed /\ t.recv = v /\ t.send = s.send
    /\ t.active = s.active \cup {r} /\ t.out = s.out
    /\ t.obj = [s.obj EXCEPT ![r] = "live"] /\ t.streaming = s.streaming /\ t.orphans = s.orphans
    /\ t.app = s.app \cup {r}
    /\ t.closers = (IF r \in Uploads THEN s.closers \cup {r} ELSE s.closers)
    /\ t.ready = s.ready /\ t.posted = s.posted
    /\ t.proto = s.proto /\ t.failed = s.failed

\* This keeps the invariant.
LEMMA CoreTaken ==
    ASSUME ServerConstants, NEW s, HCore(s), NEW r \in Requests, r # 0,
           \A x \in Requests : x # r => s.obj[x] # "live", s.obj[r] \in {"none", "live"},
           s.send = None, r \notin s.streaming, s.conn # "gone",
           NEW v, v = None \/ (v = r /\ r \in Uploads), NEW t, Taken(s, r, v, t)
    PROVE  HCore(t)
  <1>1. s \in ServerState /\ HOne(s) /\ HHeld(s) /\ HPosted(s) /\ HGone(s) /\ HTimed(s)
    BY DEF HCore
  <1>2. s.active \subseteq {r} /\ s.app \subseteq {r} /\ s.closers \subseteq {r} /\ s.ready \subseteq {r}
    <2>1. CASE s.obj[r] = "live"
      BY <2>1, CoreOnly DEF Only
    <2>2. CASE s.obj[r] # "live"
      BY <2>2, CoreNone
    <2> QED
      BY <2>1, <2>2
  <1>3. s.obj \in [Requests -> {"none", "live", "doomed", "freed"}] /\ s.streaming \subseteq Requests
    BY <1>1, ServerFields
  <1>4. t.obj[r] = "live" /\ \A x \in Requests : x # r => t.obj[x] = s.obj[x]
    BY <1>3 DEF Taken
  <1>5. s.streaming \cap {r} = {} /\ None \notin Requests
    BY ServerNumbers
  <1>6. HOne(t)
    BY <1>1, <1>4, ServerNumbers DEF HOne
  <1>7. HHeld(t)
    <2>1. t.active = {r} /\ t.app = {r} /\ t.closers \subseteq {r} /\ (r \in Uploads => t.closers = {r})
      BY <1>2 DEF Taken
    <2>2. t.ready \subseteq {r} /\ t.send = None /\ t.streaming = s.streaming /\ t.recv = v
      BY <1>2 DEF Taken
    <2>3. \A x \in t.streaming : t.obj[x] \notin {"none", "live"}
      BY <1>1, <1>3, <1>4, <1>5, <2>2 DEF HHeld
    <2>4. t.streaming \cap Uploads = {}
      BY <1>1, <2>2 DEF HHeld
    <2> QED
      BY <1>4, <1>5, <2>1, <2>2, <2>3, <2>4 DEF HHeld
  <1>8. HPosted(t)
    BY <1>1, <1>4 DEF HPosted, Taken
  <1>9. HGone(t)
    BY <1>1 DEF HGone, Taken
  <1>10. HTimed(t)
    BY <1>1, <1>2 DEF HTimed, Taken
  <1> QED
    BY <1>6, <1>7, <1>8, <1>9, <1>10 DEF HCore, Taken

\* What HeaderRead does: the request is opened, the handler of an upload has it, or
\* the handler of an upload has replied to it and the connection is gone.
Headed(s, r, t) ==
    /\ HCore(t)
    /\ \/ r \notin Uploads /\ Opened(s, r, t)
       \/ r \in Uploads /\ Taken(s, r, r, t)
       \/ /\ r \in Uploads /\ t.conn = "gone" /\ t.closed = TRUE
          /\ t.obj = [s.obj EXCEPT ![r] = "doomed"]

\* The handler of an upload has a part of it.
LEMMA HeaderHeld ==
    ASSUME ServerConstants, NEW s, HCore(s), NEW r \in Uploads, s.obj[r] = "none",
           \A x \in Requests : s.obj[x] # "live", s.conn # "gone",
           NEW q, Opened(s, r, q), NEW a, Active(q, r, a), NEW h, h = HandsTo(a, r),
           NEW t, t = [h EXCEPT !.timeouts = @ \ {kRequestTimeout}]
    PROVE  Headed(s, r, t)
  <1>1. s \in ServerState /\ HHeld(s) /\ r \in Requests /\ r # 0
    BY ServerNumbers DEF HCore
  <1>2. HandedTo(a, r, h)
    BY <1>1, HHands DEF Active
  <1> HIDE DEF HandsTo
  <1>3. h \in ServerState
    BY <1>2 DEF HandedTo
  <1> DEFINE x == h.timeouts \ {kRequestTimeout}
  <1>4. x \in SUBSET {kRequestTimeout, kWriteTimeout} /\ t = [h EXCEPT !.timeouts = x]
    BY <1>3, ServerFields
  <1> HIDE DEF x
  <1>5. t \in ServerState
    BY <1>3, <1>4, ZenonT(30) DEF ServerState
  <1>6. /\ t.conn = h.conn /\ t.closed = h.closed /\ t.recv = h.recv /\ t.send = h.send
        /\ t.active = h.active /\ t.out = h.out /\ t.obj = h.obj
    BY <1>3 DEF ServerState
  <1>7. /\ t.streaming = h.streaming /\ t.orphans = h.orphans /\ t.app = h.app
        /\ t.closers = h.closers /\ t.ready = h.ready
    BY <1>3 DEF ServerState
  <1>8. t.posted = h.posted /\ t.proto = h.proto /\ t.failed = h.failed
    BY <1>3 DEF ServerState
  <1>9. Taken(s, r, r, t)
    <2>1. /\ h.conn = s.conn /\ h.closed = s.closed /\ h.recv = r /\ h.send = s.send
          /\ h.active = s.active \cup {r} /\ h.out = s.out /\ h.obj = [s.obj EXCEPT ![r] = "live"]
      BY <1>2 DEF HandedTo, Active, Opened
    <2>2. /\ h.streaming = s.streaming /\ h.orphans = s.orphans /\ h.app = s.app \cup {r}
          /\ h.closers = (IF r \in Uploads THEN s.closers \cup {r} ELSE s.closers)
          /\ h.ready = s.ready /\ h.posted = s.posted /\ h.proto = s.proto /\ h.failed = s.failed
      BY <1>2 DEF HandedTo, Active, Opened
    <2> QED
      BY <1>5, <1>6, <1>7, <1>8, <2>1, <2>2 DEF Taken
  <1>10. s.send = None /\ r \notin s.streaming
    BY <1>1, CoreNone DEF HHeld
  <1>11. HCore(t)
    BY <1>1, <1>9, <1>10, CoreTaken
  <1> QED
    BY <1>9, <1>11 DEF Headed

\* It replies before it has all of it.
LEMMA HeaderReplied ==
    ASSUME ServerConstants, NEW s, HCore(s), NEW r \in Uploads, s.obj[r] = "none",
           \A x \in Requests : s.obj[x] # "live", s.conn # "gone",
           NEW q, Opened(s, r, q), NEW a, Active(q, r, a), NEW h, h = Handle(a, r, "reply"),
           NEW t, t = ForceClose([h EXCEPT !.closed = TRUE])
    PROVE  Headed(s, r, t) /\ h.recv = None
  <1>1. s \in ServerState /\ HHeld(s) /\ HGone(s) /\ r \in Requests /\ r # 0
    BY ServerNumbers DEF HCore
  <1>2. /\ s.active = {} /\ s.app = {} /\ s.closers = {} /\ s.ready = {}
        /\ s.recv = None /\ s.send = None
    BY CoreNone
  <1>3. s.obj \in [Requests -> {"none", "live", "doomed", "freed"}] /\ r \notin s.streaming
    BY <1>1, ServerFields DEF HHeld
  <1>4. Only(a, r) /\ a \in ServerState /\ a.send = None /\ r \notin a.streaming
    BY <1>1, <1>2, <1>3 DEF Only, Active, Opened, HGone
  <1>5. Over(a, r, h)
    BY <1>1, <1>4, HHandleReply
  <1>6. Akin(s, r, a)
    <2>1. [[s.obj EXCEPT ![r] = "live"] EXCEPT ![r] = "doomed"] = [s.obj EXCEPT ![r] = "doomed"]
      BY <1>3
    <2> QED
      BY <2>1 DEF Akin, Active, Opened
  <1>7. Over(s, r, h)
    BY <1>5, <1>6, OverAkin
  <1>8. HCore(h) /\ h.recv = None /\ h.conn # "gone" /\ h.obj = [s.obj EXCEPT ![r] = "doomed"]
    <2>1. HCore(h)
      BY <1>1, <1>7, CoreOver
    <2>2. h.conn # "gone"
      BY <1>1, <1>7, ServerFields DEF Over, Ready
    <2> QED
      BY <1>7, <2>1, <2>2 DEF Over
  <1> DEFINE c == [h EXCEPT !.closed = TRUE]
  <1>9. Same(h, c)
    BY <1>8, HCloses DEF HCore
  <1>10. t = ForceClose(c)
    OBVIOUS
  <1> HIDE DEF c
  <1>11. HCore(c) /\ c.conn # "gone" /\ c.obj = h.obj
    BY <1>8, <1>9, CoreSame DEF Same
  <1>12. t = NotifyConnectionDeletion(c)
    BY <1>10, <1>11 DEF ForceClose
  <1>13. HCore(t) /\ t.conn = "gone" /\ t.closed = TRUE /\ t.obj = c.obj
    BY <1>11, <1>12, HConnectionGone
  <1> QED
    BY <1>8, <1>11, <1>13 DEF Headed

\* HeaderRead.
LEMMA HHeaderRead ==
    ASSUME ServerConstants, NEW s, HCore(s), NEW r \in Requests, r # 0, s.obj[r] = "none",
           \A x \in Requests : s.obj[x] # "live", s.conn # "gone",
           NEW k \in BOOLEAN, NEW what \in {"hold", "reply"},
           NEW t, t = HeaderRead(s, r, k, what)
    PROVE  Headed(s, r, t)
  <1>1. s \in ServerState
    BY DEF HCore
  <1> DEFINE x == IF k THEN s.wants \cup {r} ELSE s.wants
             q == [s EXCEPT !.recv = r, !.obj[r] = "live", !.wants = x]
             a == [q EXCEPT !.active = @ \cup {r}]
             h == Handle(a, r, what)
  <1>2. x \in SUBSET Requests
    BY <1>1, ServerFields
  <1>3. t = IF r \notin Uploads THEN q
            ELSE IF h.recv = None THEN ForceClose([h EXCEPT !.closed = TRUE])
            ELSE [h EXCEPT !.timeouts = @ \ {kRequestTimeout}]
    BY DEF HeaderRead
  <1> HIDE DEF x
  <1>4. Opened(s, r, q)
    BY <1>1, <1>2, HOpens
  <1> HIDE DEF q
  <1>5. Active(q, r, a)
    BY <1>4, HActive DEF Opened
  <1> HIDE DEF a
  <1>6. CASE r \notin Uploads
    <2>1. t = q
      BY <1>3, <1>6
    <2>2. HCore(q)
      BY <1>4, <1>6, CoreOpened
    <2> QED
      BY <1>4, <1>6, <2>1, <2>2 DEF Headed
  <1>7. CASE r \in Uploads /\ what = "reply"
    <2>1. h = Handle(a, r, "reply")
      BY <1>7
    <2> HIDE DEF h
    <2> DEFINE z == ForceClose([h EXCEPT !.closed = TRUE])
    <2>2. Headed(s, r, z) /\ h.recv = None
      BY <1>4, <1>5, <1>7, <2>1, HeaderReplied
    <2> QED
      BY <1>3, <1>7, <2>2
  <1>8. CASE r \in Uploads /\ what = "hold"
    <2>1. h = HandsTo(a, r)
      BY <1>8 DEF Handle, HandsTo
    <2> HIDE DEF h
    <2>2. HandedTo(a, r, h)
      BY <1>5, <2>1, HHands DEF Active
    <2>3. h.recv # None
      BY <1>4, <1>5, <2>2, ServerNumbers DEF HandedTo, Active, Opened
    <2> DEFINE z == [h EXCEPT !.timeouts = @ \ {kRequestTimeout}]
    <2>4. Headed(s, r, z)
      BY <1>4, <1>5, <1>8, <2>1, HeaderHeld
    <2> QED
      BY <1>3, <1>8, <2>3, <2>4
  <1> QED
    BY <1>6, <1>7, <1>8

\* What RequestRead does: the request has ended or its handler has it.
Read(s, r, t) ==
    /\ HCore(t) /\ t.recv = None
    /\ \/ Over(s, r, t)
       \/ t.conn = s.conn /\ t.closed = s.closed /\ t.obj = s.obj

\* The state with nothing left to be read.
LEMMA HReadOut ==
    ASSUME NEW s \in ServerState, NEW t, t = [s EXCEPT !.recv = None]
    PROVE  /\ t \in ServerState /\ t.recv = None
           /\ t.conn = s.conn /\ t.closed = s.closed /\ t.send = s.send
           /\ t.active = s.active /\ t.timeouts = s.timeouts /\ t.out = s.out
           /\ t.obj = s.obj /\ t.streaming = s.streaming /\ t.orphans = s.orphans
           /\ t.closers = s.closers /\ t.app = s.app
           /\ t.ready = s.ready /\ t.posted = s.posted
           /\ t.proto = s.proto /\ t.failed = s.failed
  <1>1. t \in ServerState
    <2>1. None \in Requests \cup {None}
      OBVIOUS
    <2> QED
      BY <2>1, ZenonT(30) DEF ServerState
  <1>2. /\ t.recv = None
        /\ t.conn = s.conn /\ t.closed = s.closed /\ t.send = s.send
        /\ t.active = s.active /\ t.timeouts = s.timeouts /\ t.out = s.out
    BY DEF ServerState
  <1>3. /\ t.obj = s.obj /\ t.streaming = s.streaming /\ t.orphans = s.orphans
        /\ t.closers = s.closers /\ t.app = s.app
    BY DEF ServerState
  <1>4. t.ready = s.ready /\ t.posted = s.posted /\ t.proto = s.proto /\ t.failed = s.failed
    BY DEF ServerState
  <1> QED
    BY <1>1, <1>2, <1>3, <1>4

\* Nothing but the request itself is known, and its sender is not.
LEMMA ReadFacts ==
    ASSUME ServerConstants, NEW s, HCore(s), NEW r \in Requests, s.recv = r
    PROVE  /\ s.obj[r] = "live" /\ Only(s, r) /\ r # 0 /\ s.send = None /\ r \notin s.streaming
           /\ \A x \in Requests : x # r => s.obj[x] # "live"
           /\ r \notin Uploads => s.active = {} /\ s.app = {} /\ s.closers = {}
  <1>1. HHeld(s) /\ r # None
    BY ServerNumbers DEF HCore
  <1>2. s.obj[r] = "live"
    BY <1>1 DEF HHeld
  <1>3. Only(s, r) /\ r # 0 /\ \A x \in Requests : x # r => s.obj[x] # "live"
    BY <1>2, CoreOnly
  <1>4. s.send = None
    BY <1>1, <1>3 DEF HHeld, Only
  <1>5. r \notin s.streaming
    BY <1>1, <1>2, <1>4 DEF HHeld
  <1>6. r \notin Uploads => s.active = {} /\ s.app = {} /\ s.closers = {}
    BY <1>1, <1>3 DEF HHeld, Only
  <1> QED
    BY <1>2, <1>3, <1>4, <1>5, <1>6

\* The handler keeps the request.
LEMMA ReadHeld ==
    ASSUME ServerConstants, NEW s, HCore(s), NEW r \in Requests, s.recv = r, s.conn # "gone",
           NEW q, Active(s, r, q), NEW h, HandedTo(q, r, h),
           NEW t, t = [h EXCEPT !.recv = None]
    PROVE  Taken(s, r, None, t) /\ Read(s, r, t) /\ t.app = h.app
  <1>1. /\ s.obj[r] = "live" /\ Only(s, r) /\ r # 0 /\ s.send = None /\ r \notin s.streaming
        /\ \A x \in Requests : x # r => s.obj[x] # "live"
    BY ReadFacts
  <1>2. s.obj \in [Requests -> {"none", "live", "doomed", "freed"}]
    BY ServerFields DEF HCore
  <1>3. [s.obj EXCEPT ![r] = "live"] = s.obj
    BY <1>1, <1>2
  <1>4. /\ t \in ServerState /\ t.recv = None
        /\ t.conn = h.conn /\ t.closed = h.closed /\ t.send = h.send
        /\ t.active = h.active /\ t.timeouts = h.timeouts /\ t.out = h.out
        /\ t.obj = h.obj /\ t.streaming = h.streaming /\ t.orphans = h.orphans
        /\ t.closers = h.closers /\ t.app = h.app
        /\ t.ready = h.ready /\ t.posted = h.posted
        /\ t.proto = h.proto /\ t.failed = h.failed
    BY HReadOut DEF HandedTo
  <1>5. Taken(s, r, None, t)
    BY <1>3, <1>4 DEF Taken, HandedTo, Active
  <1>6. HCore(t)
    <2>1. s.obj[r] \in {"none", "live"}
      BY <1>1
    <2> DEFINE v == None
    <2>2. Taken(s, r, v, t) /\ (v = None \/ (v = r /\ r \in Uploads))
      BY <1>5
    <2> HIDE DEF v
    <2> QED
      BY <1>1, <2>1, <2>2, CoreTaken, ZenonT(60)
  <1> QED
    BY <1>3, <1>4, <1>5, <1>6 DEF Read, Taken

\* The handler begins to stream.
LEMMA ReadBegun ==
    ASSUME ServerConstants, NEW s, HCore(s), NEW r \in Requests, s.recv = r, s.conn # "gone",
           r \notin Uploads,
           NEW q, Active(s, r, q), NEW h, HandedTo(q, r, h), NEW m, Begun(h, r, m),
           NEW t, t = [m EXCEPT !.recv = None]
    PROVE  Read(s, r, t)
  <1> DEFINE d == [h EXCEPT !.recv = None]
  <1>1. Taken(s, r, None, d) /\ Read(s, r, d)
    BY ReadHeld
  <1>2. /\ d \in ServerState /\ d.recv = None
        /\ d.conn = h.conn /\ d.closed = h.closed /\ d.send = h.send
        /\ d.active = h.active /\ d.timeouts = h.timeouts /\ d.out = h.out
        /\ d.obj = h.obj /\ d.streaming = h.streaming /\ d.orphans = h.orphans
        /\ d.closers = h.closers /\ d.app = h.app
        /\ d.ready = h.ready /\ d.posted = h.posted
        /\ d.proto = h.proto /\ d.failed = h.failed
    BY HReadOut DEF HandedTo
  <1>3. /\ t \in ServerState /\ t.recv = None
        /\ t.conn = m.conn /\ t.closed = m.closed /\ t.send = m.send
        /\ t.active = m.active /\ t.timeouts = m.timeouts /\ t.out = m.out
        /\ t.obj = m.obj /\ t.streaming = m.streaming /\ t.orphans = m.orphans
        /\ t.closers = m.closers /\ t.app = m.app
        /\ t.ready = m.ready /\ t.posted = m.posted
        /\ t.proto = m.proto /\ t.failed = m.failed
    BY HReadOut DEF Begun
  <1> HIDE DEF d
  <1>4. Begun(d, r, t)
    BY <1>2, <1>3 DEF Begun
  <1>5. r \in d.app /\ r \notin d.streaming
    BY <1>1, ReadFacts DEF Taken
  <1>6. HCore(t)
    BY <1>1, <1>4, <1>5, CoreBegun DEF Read
  <1>7. t.conn = s.conn /\ t.closed = s.closed /\ t.obj = s.obj
    <2>1. t.conn = h.conn /\ t.closed = h.closed /\ t.obj = h.obj
      BY <1>3 DEF Begun
    <2> QED
      BY <2>1 DEF HandedTo, Active
  <1> QED
    BY <1>3, <1>6, <1>7 DEF Read

\* The handler replies.
LEMMA ReadReplied ==
    ASSUME ServerConstants, NEW s, HCore(s), NEW r \in Requests, s.recv = r, s.conn # "gone",
           NEW q, Active(s, r, q), NEW m, m = Handle(q, r, "reply"),
           NEW t, t = [m EXCEPT !.recv = None]
    PROVE  Read(s, r, t)
  <1>1. /\ s.obj[r] = "live" /\ Only(s, r) /\ r # 0 /\ s.send = None /\ r \notin s.streaming
        /\ \A x \in Requests : x # r => s.obj[x] # "live"
    BY ReadFacts
  <1>2. Only(q, r) /\ q \in ServerState /\ q.send = None /\ r \notin q.streaming
    BY <1>1 DEF Only, Active
  <1>3. Over(q, r, m)
    BY <1>2, HHandleReply
  <1>4. Akin(s, r, q)
    BY DEF Akin, Active
  <1>5. Over(s, r, m)
    BY <1>3, <1>4, OverAkin
  <1>6. /\ t \in ServerState /\ t.recv = None
        /\ t.conn = m.conn /\ t.closed = m.closed /\ t.send = m.send
        /\ t.active = m.active /\ t.timeouts = m.timeouts /\ t.out = m.out
        /\ t.obj = m.obj /\ t.streaming = m.streaming /\ t.orphans = m.orphans
        /\ t.closers = m.closers /\ t.app = m.app
        /\ t.ready = m.ready /\ t.posted = m.posted
        /\ t.proto = m.proto /\ t.failed = m.failed
    BY <1>5, HReadOut DEF Over
  <1>7. Over(s, r, t)
    BY <1>5, <1>6 DEF Over, Ready
  <1>8. HCore(t)
    BY <1>1, <1>7, CoreOver
  <1> QED
    BY <1>6, <1>7, <1>8 DEF Read

\* RequestRead.
LEMMA HRequestRead ==
    ASSUME ServerConstants, NEW s, HCore(s), NEW r \in Requests, s.recv = r, s.conn # "gone",
           NEW what \in HandlerChoices, NEW t, t = RequestRead(s, r, what)
    PROVE  Read(s, r, t)
  <1>1. s \in ServerState
    BY DEF HCore
  <1> DEFINE q == [s EXCEPT !.timeouts = @ \ {kRequestTimeout}, !.active = @ \cup {r}]
             w == IF Cardinality(q.active) > MaxConcurrent /\ r \notin q.app THEN "reply" ELSE what
             m == Handle(q, r, w)
  <1>2. Active(s, r, q)
    BY <1>1, HActive
  <1>3. t = [m EXCEPT !.recv = None]
    BY DEF RequestRead, ProcessRequest
  <1>4. w \in {"hold", "reply", "begin"}
    BY DEF HandlerChoices
  <1> HIDE DEF q, w
  <1>5. CASE w = "reply"
    BY <1>2, <1>3, <1>5, ReadReplied
  <1> DEFINE h == HandsTo(q, r)
  <1>6. HandedTo(q, r, h)
    BY <1>2, HHands DEF Active
  <1>7. CASE w = "hold" \/ (w = "begin" /\ r \in Uploads)
    <2>1. m = h
      BY <1>7 DEF Handle, HandsTo
    <2> HIDE DEF m, h
    <2> QED
      BY <1>2, <1>3, <1>6, <2>1, ReadHeld
  <1>8. CASE w = "begin" /\ r \notin Uploads
    <2>1. m = BeginStreamingData(h, r)
      BY <1>8 DEF Handle, HandsTo
    <2> HIDE DEF m, h
    <2>2. h \in ServerState /\ h.send \in {r, None}
      BY <1>2, <1>6, ReadFacts DEF HandedTo, Active
    <2>3. Begun(h, r, m)
      BY <2>1, <2>2, HBegins
    <2> QED
      BY <1>2, <1>3, <1>6, <1>8, <2>3, ReadBegun
  <1> HIDE DEF m, h
  <1> QED
    BY <1>4, <1>5, <1>7, <1>8

\* What ErrorRead does: r has ended and the protocol is deaf.
Wrong(s, r, t) ==
    /\ HCore(t) /\ t.closed = TRUE
    /\ t.obj = [s.obj EXCEPT ![r] = "doomed"]
    /\ \A x \in Requests : t.obj[x] # "live"

\* ErrorRead, for a request that is being read or for one that was not there.
LEMMA HErrorRead ==
    ASSUME ServerConstants, NEW s, HCore(s), NEW r \in Requests, s.conn # "gone",
           \/ s.obj[r] = "none" /\ \A x \in Requests : s.obj[x] # "live"
           \/ s.recv = r /\ r \notin Uploads,
           NEW t, t = ErrorRead(s, r)
    PROVE  Wrong(s, r, t)
  <1>1. s \in ServerState /\ HHeld(s) /\ HGone(s)
    BY DEF HCore
  <1>2. s.obj \in [Requests -> {"none", "live", "doomed", "freed"}]
    BY <1>1, ServerFields
  <1>3. /\ s.active = {} /\ s.app = {} /\ s.closers = {} /\ s.send = None
        /\ s.ready \subseteq {r} /\ s.obj[r] \in {"none", "live"} /\ r \notin s.streaming
        /\ \A x \in Requests : x # r => s.obj[x] # "live"
    <2>1. CASE s.obj[r] = "none" /\ \A x \in Requests : s.obj[x] # "live"
      BY <1>1, <2>1, CoreNone DEF HHeld
    <2>2. CASE s.recv = r /\ r \notin Uploads
      BY <2>2, ReadFacts DEF Only
    <2> QED
      BY <2>1, <2>2
  <1> DEFINE x == s.timeouts \ {kRequestTimeout}
             o == [s.obj EXCEPT ![r] = "live"]
             q == [s EXCEPT !.recv = r, !.timeouts = x, !.obj = o]
             m == ReplyWithStatus(q, r)
  <1>4. t = [m EXCEPT !.closed = TRUE]
    <2>1. (IF s.obj[r] = "none" THEN "live" ELSE s.obj[r]) = "live"
      BY <1>3
    <2> DEFINE e == [s EXCEPT !.recv = r, !.timeouts = @ \ {kRequestTimeout},
                              !.obj[r] = IF @ = "none" THEN "live" ELSE @]
    <2>2. e = q
      BY <2>1
    <2>3. t = [ReplyWithStatus(e, r) EXCEPT !.closed = TRUE]
      BY DEF ErrorRead
    <2> HIDE DEF e, q
    <2> QED
      BY <2>2, <2>3
  <1>5. /\ x \in SUBSET {kRequestTimeout, kWriteTimeout}
        /\ o \in [Requests -> {"none", "live", "doomed", "freed"}]
        /\ o[r] = "live" /\ [o EXCEPT ![r] = "doomed"] = [s.obj EXCEPT ![r] = "doomed"]
    BY <1>1, <1>2, ServerFields
  <1> HIDE DEF x, o
  <1>6. q \in ServerState
    BY <1>1, <1>5, ZenonT(30) DEF ServerState
  <1>7. /\ q.recv = r /\ q.obj = o /\ q.active = s.active /\ q.app = s.app
        /\ q.closers = s.closers /\ q.ready = s.ready /\ q.send = s.send /\ q.failed = s.failed
    BY <1>1 DEF ServerState
  <1>8. /\ q.streaming = s.streaming /\ q.conn = s.conn /\ q.closed = s.closed
        /\ q.posted = s.posted /\ q.proto = s.proto /\ q.orphans = s.orphans
    BY <1>1 DEF ServerState
  <1> HIDE DEF q
  <1>9. Only(q, r)
    BY <1>1, <1>3, <1>5, <1>7 DEF Only, HGone
  <1>10. Over(q, r, m)
    BY <1>3, <1>6, <1>7, <1>8, <1>9, HReply
  <1>11. Akin(s, r, q)
    BY <1>5, <1>7, <1>8 DEF Akin
  <1> HIDE DEF m
  <1>12. Over(s, r, m)
    BY <1>10, <1>11, OverAkin
  <1>13. HCore(m) /\ \A y \in Requests : m.obj[y] # "live"
    BY <1>3, <1>12, CoreOver
  <1>14. Same(m, t) /\ t.closed = TRUE
    BY <1>4, <1>13, HCloses DEF HCore
  <1>15. HCore(t)
    BY <1>13, <1>14, CoreSame
  <1> QED
    BY <1>12, <1>13, <1>14, <1>15 DEF Wrong, Same, Over

\* The last request of which the client has sent a part.
LastOf(d) == IF d.part = "tail" THEN d.req ELSE d.req - 1

\* The handler of an upload is done with it, and what is left of it is still to come.
Early(s, r) == r \in Uploads /\ s.obj[r] \in {"doomed", "freed"}

\* The protocol reads what arrives.
Listens(s) == s.closed = FALSE /\ s.conn # "gone"

\* Only the last request that was sent can be live, and those after it are not there.
Known(s, d) ==
    /\ LastOf(d) \in Requests
    /\ \A r \in Requests : r > LastOf(d) => s.obj[r] = "none"
    /\ \A r \in Requests : s.obj[r] = "live" => r = LastOf(d)

\* What is under way is a part of the last request, in order: its header when no
\* object is there for it, and what follows when it is read or was replied to early.
Parts(s, q, d) ==
    /\ s.obj[0] = "none"
    /\ \A k \in DOMAIN q : q[k].part = "head" => q[k].req = LastOf(d) /\ s.obj[LastOf(d)] = "none"
    /\ \A k, l \in DOMAIN q : q[k].part = "head" /\ q[l].part = "head" => k = l
    /\ \A k \in DOMAIN q : q[k].part # "head" /\ k > 1 =>
          q[k - 1].req = q[k].req /\ q[k - 1].part = "head"
    /\ \A k \in DOMAIN q : q[k].part = "bad" => q[k].req \notin Uploads
    /\ Len(q) > 0 /\ q[1].part # "head" =>
          IF s.recv = None THEN Early(s, q[1].req) ELSE s.recv = q[1].req
    /\ Len(q) > 0 /\ q[1].part = "head" => s.recv = None
    /\ s.recv = None /\ Len(q) > 0 => \A r \in Requests : s.obj[r] # "live"
    /\ s.conn = "open" /\ d.part = "tail" =>
          IF Len(q) = 0 THEN IF s.recv = None THEN Early(s, LastOf(d)) ELSE s.recv = LastOf(d)
          ELSE q[Len(q)].req = LastOf(d) /\ q[Len(q)].part = "head"

HStream(s, q, d) == Known(s, d) /\ (Listens(s) => Parts(s, q, d))

\* The piece that the client sends next.
Peer == [req : 1..NumRequests + 1, part : {"head", "tail"}]

\* Requests that end do not come back.
LEMMA KnownFades ==
    ASSUME NEW s, NEW t, NEW d, Known(s, d), Fades(s, t)
    PROVE  Known(t, d)
  BY DEF Known, Fades

\* What is under way stays what it is when requests end elsewhere.
LEMMA StreamFades ==
    ASSUME NEW s \in ServerState, NEW t \in ServerState, NEW q, NEW d, HStream(s, q, d),
           Fades(s, t), ServerConstants,
           Listens(t) => Listens(s) /\ t.recv = s.recv /\ (t.conn = "open" => s.conn = "open")
    PROVE  HStream(t, q, d)
  <1>1. Known(t, d)
    BY KnownFades DEF HStream
  <1>2. ASSUME Listens(t) PROVE Parts(t, q, d)
    <2>1. /\ Parts(s, q, d) /\ t.recv = s.recv /\ (t.conn = "open" => s.conn = "open")
      BY <1>2 DEF HStream
    <2>2. \A x \in Requests : t.obj[x] \in {"none", "live", "doomed", "freed"}
      BY ServerFields
    <2>3. \A x \in Requests : s.obj[x] \in {"doomed", "freed"} => t.obj[x] \in {"doomed", "freed"}
      BY <2>2 DEF Fades
    <2>4. \A x : Early(s, x) => Early(t, x)
      BY <2>3, ServerNumbers DEF Early
    <2>5. LastOf(d) \in Requests /\ 0 \in Requests
      BY <1>1, ServerNumbers DEF Known
    <2>6. /\ t.obj[0] = "none"
          /\ \A k \in DOMAIN q : q[k].part = "head" => q[k].req = LastOf(d) /\ t.obj[LastOf(d)] = "none"
      BY <2>1, <2>5 DEF Parts, Fades
    <2>7. \A k, l \in DOMAIN q : q[k].part = "head" /\ q[l].part = "head" => k = l
      BY <2>1 DEF Parts
    <2>8. /\ \A k \in DOMAIN q : q[k].part # "head" /\ k > 1 =>
                q[k - 1].req = q[k].req /\ q[k - 1].part = "head"
          /\ \A k \in DOMAIN q : q[k].part = "bad" => q[k].req \notin Uploads
      BY <2>1 DEF Parts
    <2>9. /\ Len(q) > 0 /\ q[1].part # "head" =>
                IF t.recv = None THEN Early(t, q[1].req) ELSE t.recv = q[1].req
          /\ Len(q) > 0 /\ q[1].part = "head" => t.recv = None
      BY <2>1, <2>4 DEF Parts
    <2>10. t.recv = None /\ Len(q) > 0 => \A r \in Requests : t.obj[r] # "live"
      BY <2>1 DEF Parts, Fades
    <2>11. t.conn = "open" /\ d.part = "tail" =>
             IF Len(q) = 0 THEN IF t.recv = None THEN Early(t, LastOf(d)) ELSE t.recv = LastOf(d)
             ELSE q[Len(q)].req = LastOf(d) /\ q[Len(q)].part = "head"
      BY <2>1, <2>4 DEF Parts
    <2> QED
      BY <2>6, <2>7, <2>8, <2>9, <2>10, <2>11 DEF Parts
  <1> QED
    BY <1>1, <1>2 DEF HStream

\* A protocol that does not listen does not care.
LEMMA StreamDeaf ==
    ASSUME NEW t, NEW q, NEW d, Known(t, d), ~Listens(t)
    PROVE  HStream(t, q, d)
  BY DEF HStream

\* The last request ends and no other is live.
LEMMA KnownEnds ==
    ASSUME ServerConstants, NEW s \in ServerState, NEW d, Known(s, d), NEW r \in Requests,
           r = 0 \/ r = LastOf(d), NEW t, t.obj = [s.obj EXCEPT ![r] = "doomed"],
           \A x \in Requests : t.obj[x] # "live"
    PROVE  Known(t, d)
  <1>1. s.obj \in [Requests -> {"none", "live", "doomed", "freed"}]
    BY ServerFields
  <1>2. \A x \in Requests : x # r => t.obj[x] = s.obj[x]
    BY <1>1
  <1>3. \A x \in Requests : x > LastOf(d) => x # r
    <2>1. LastOf(d) \in Requests
      BY DEF Known
    <2> HIDE DEF LastOf
    <2> QED
      BY <2>1 DEF Requests, ServerConstants
  <1> QED
    BY <1>2, <1>3 DEF Known

\* What ends, ends alone.
LEMMA OverFacts ==
    ASSUME ServerConstants, NEW s, HCore(s), NEW r \in Requests, s.obj[r] = "live",
           NEW t, Over(s, r, t)
    PROVE  /\ t \in ServerState /\ t.recv = None /\ r # 0
           /\ t.obj = [s.obj EXCEPT ![r] = "doomed"] /\ t.obj[r] = "doomed"
           /\ \A x \in Requests : x # r => t.obj[x] = s.obj[x]
           /\ \A x \in Requests : t.obj[x] # "live"
           /\ Listens(t) => Listens(s) /\ t.conn = s.conn
  <1>1. s.obj \in [Requests -> {"none", "live", "doomed", "freed"}]
    BY ServerFields DEF HCore
  <1>2. r # 0 /\ \A x \in Requests : x # r => s.obj[x] # "live"
    BY CoreOnly
  <1>3. t.obj = [s.obj EXCEPT ![r] = "doomed"] /\ t \in ServerState /\ t.recv = None
    BY DEF Over
  <1>4. t.obj[r] = "doomed" /\ \A x \in Requests : x # r => t.obj[x] = s.obj[x]
    BY <1>1, <1>3
  <1>5. Listens(t) => Listens(s) /\ t.conn = s.conn
    BY DEF Over, Ready, Listens
  <1> QED
    BY <1>2, <1>3, <1>4, <1>5

\* A handler ends its request: what the client still sends of it is early.
LEMMA StreamOver ==
    ASSUME ServerConstants, NEW s, HCore(s), NEW q \in Seq(Pieces), NEW d, HStream(s, q, d),
           NEW r \in s.active, NEW t, Over(s, r, t)
    PROVE  HStream(t, q, d)
  <1>1. HHeld(s) /\ s \in ServerState /\ r \in Requests /\ s.obj[r] = "live"
    BY ServerFields DEF HCore, HHeld
  <1>2. /\ t \in ServerState /\ t.recv = None /\ r # 0
        /\ t.obj = [s.obj EXCEPT ![r] = "doomed"] /\ t.obj[r] = "doomed"
        /\ \A x \in Requests : x # r => t.obj[x] = s.obj[x]
        /\ \A x \in Requests : t.obj[x] # "live"
        /\ Listens(t) => Listens(s) /\ t.conn = s.conn
    BY <1>1, OverFacts
  <1>3. r = LastOf(d) /\ Known(s, d)
    BY <1>1 DEF HStream, Known
  <1>4. Known(t, d)
    BY <1>1, <1>2, <1>3, KnownEnds
  <1>5. ASSUME Listens(t) PROVE Parts(t, q, d)
    <2>1. Parts(s, q, d) /\ t.conn = s.conn
      BY <1>2, <1>5 DEF HStream
    <2>2. \A x : Early(s, x) => Early(t, x)
      BY <1>1, <1>2, ServerNumbers DEF Early
    <2>3. s.recv # None => s.recv = r
      BY <1>1, CoreOnly DEF Only
    <2>4. s.recv = r => Early(t, r)
      BY <1>1, <1>2, ServerNumbers DEF Early, HHeld
    <2>5. \A k \in DOMAIN q : q[k].part # "head"
      BY <1>1, <1>3, <2>1 DEF Parts
    <2>6. t.obj[0] = "none"
      BY <1>2, <2>1, ServerNumbers DEF Parts
    <2>7. Len(q) > 0 => 1 \in DOMAIN q
      OBVIOUS
    <2>8. /\ Len(q) > 0 /\ q[1].part # "head" =>
                IF t.recv = None THEN Early(t, q[1].req) ELSE t.recv = q[1].req
          /\ Len(q) > 0 /\ q[1].part = "head" => t.recv = None
      BY <1>2, <2>1, <2>2, <2>3, <2>4, <2>5, <2>7 DEF Parts
    <2>9. t.conn = "open" /\ d.part = "tail" =>
             IF Len(q) = 0 THEN IF t.recv = None THEN Early(t, LastOf(d)) ELSE t.recv = LastOf(d)
             ELSE q[Len(q)].req = LastOf(d) /\ q[Len(q)].part = "head"
      <3>1. CASE Len(q) = 0
        BY <1>2, <1>3, <2>1, <2>2, <2>3, <2>4, <3>1 DEF Parts
      <3>2. CASE Len(q) # 0
        BY <2>1, <3>2 DEF Parts
      <3> QED
        BY <3>1, <3>2
    <2>10. /\ \A k \in DOMAIN q : q[k].part # "head" /\ k > 1 =>
                q[k - 1].req = q[k].req /\ q[k - 1].part = "head"
           /\ \A k \in DOMAIN q : q[k].part = "bad" => q[k].req \notin Uploads
      BY <2>1 DEF Parts
    <2> QED
      BY <1>2, <2>5, <2>6, <2>8, <2>9, <2>10 DEF Parts
  <1> QED
    BY <1>4, <1>5 DEF HStream

\* The sequence without its first k pieces.
Drops(q, k, t) ==
    /\ t \in Seq(Pieces) /\ Len(t) = Len(q) - k
    /\ \A i \in 1..Len(t) : t[i] = q[k + i]

\* The client sends the header of its next request, when the last one has ended.
LEMMA StreamHead ==
    ASSUME ServerConstants, NEW s, HCore(s), NEW q \in Seq(Pieces), NEW d \in Peer,
           HStream(s, q, d), d.req <= NumRequests, d.part = "head",
           d.req > 1 => s.obj[d.req - 1] \in {"doomed", "freed"},
           NEW e \in Pieces, e.req = d.req, e.part = "head", NEW t, t = Append(q, e),
           NEW u \in Peer, u.req = d.req, u.part = "tail"
    PROVE  HStream(s, t, u)
  <1>1. HOne(s) /\ HHeld(s) /\ s \in ServerState
    BY DEF HCore
  <1>2. /\ t \in Seq(Pieces) /\ Len(q) \in Nat /\ Len(t) = Len(q) + 1
        /\ DOMAIN q = 1..Len(q) /\ DOMAIN t = 1..(Len(q) + 1)
        /\ \A i \in DOMAIN q : i \in DOMAIN t /\ t[i] = q[i]
        /\ t[Len(q) + 1] = e
    BY AppendAt
  <1> DEFINE n == d.req
             l == Len(q)
  <1>3. n \in 1..NumRequests /\ n \in Int /\ n \in Requests /\ n - 1 \in Requests /\ l \in Nat
    BY <1>2 DEF Peer, Requests, ServerConstants
  <1>4. LastOf(d) = n - 1 /\ LastOf(u) = n
    BY DEF LastOf
  <1>5. \A x \in Requests : s.obj[x] # "live"
    <2>1. s.obj[n - 1] # "live"
      <3>1. CASE n > 1
        BY <3>1
      <3>2. CASE n = 1
        BY <1>1, <3>2 DEF HOne
      <3> QED
        BY <1>3, <3>1, <3>2
    <2> QED
      BY <1>4, <2>1 DEF HStream, Known
  <1>6. s.obj[n] = "none"
    BY <1>3, <1>4 DEF HStream, Known
  <1>7. Known(s, u)
    BY <1>3, <1>4, <1>5 DEF HStream, Known, Requests
  <1>8. ASSUME Listens(s) PROVE Parts(s, t, u)
    <2>1. Parts(s, q, d)
      BY <1>8 DEF HStream
    <2>2. \A k \in DOMAIN q : q[k].part # "head"
      <3> SUFFICES ASSUME NEW k \in DOMAIN q, q[k].part = "head" PROVE FALSE
        OBVIOUS
      <3>1. q[k].req = n - 1 /\ s.obj[n - 1] = "none"
        BY <1>4, <2>1 DEF Parts
      <3>2. q[k].req \in 1..NumRequests
        <4>1. q[k] \in Pieces
          OBVIOUS
        <4> QED
          BY <4>1 DEF Pieces
      <3> DEFINE x == q[k].req
      <3>3. x \in Int /\ x >= 1 /\ x = n - 1
        BY <3>1, <3>2
      <3> HIDE DEF n, x
      <3>4. s.obj[n - 1] = "none" /\ n > 1
        BY <1>3, <3>1, <3>3
      <3> QED
        BY <3>4 DEF n
    <2>3. \A k \in DOMAIN t : k \in DOMAIN q \/ k = l + 1
      BY <1>2
    <2>4. s.recv = None
      BY <1>1, <1>5, ServerFields DEF HHeld
    <2> HIDE DEF n, l
    <2>5. s.obj[0] = "none"
      BY <2>1 DEF Parts
    <2>6. /\ \A k \in DOMAIN t : t[k].part = "head" => t[k].req = n /\ s.obj[n] = "none"
          /\ \A k, m \in DOMAIN t : t[k].part = "head" /\ t[m].part = "head" => k = m
      BY <1>2, <1>6, <2>2, <2>3 DEF n, l
    <2>7. \A k \in DOMAIN t : t[k].part # "head" /\ k > 1 =>
                t[k - 1].req = t[k].req /\ t[k - 1].part = "head"
      <3> SUFFICES ASSUME NEW k \in DOMAIN t, t[k].part # "head", k > 1
                   PROVE  t[k - 1].req = t[k].req /\ t[k - 1].part = "head"
        OBVIOUS
      <3>1. k \in DOMAIN q
        BY <1>2, <2>3 DEF l
      <3>2. k - 1 \in DOMAIN q
        BY <1>2, <3>1
      <3> QED
        BY <1>2, <2>1, <3>1, <3>2 DEF Parts
    <2>8. \A k \in DOMAIN t : t[k].part = "bad" => t[k].req \notin Uploads
      BY <1>2, <2>1, <2>3 DEF Parts, l
    <2>9. /\ Len(t) > 0 /\ t[1].part # "head" =>
                IF s.recv = None THEN Early(s, t[1].req) ELSE s.recv = t[1].req
          /\ Len(t) > 0 /\ t[1].part = "head" => s.recv = None
      <3>1. CASE l = 0
        BY <1>2, <2>4, <3>1 DEF l
      <3>2. CASE l # 0
        <4>1. 1 \in DOMAIN q /\ Len(q) > 0
          BY <1>2, <3>2 DEF l
        <4> QED
          BY <1>2, <2>1, <4>1 DEF Parts
      <3> QED
        BY <3>1, <3>2
    <2>10. Len(t) = l + 1 /\ t[l + 1].req = n /\ t[l + 1].part = "head" /\ Len(t) # 0
      BY <1>2 DEF n, l
    <2> QED
      BY <1>4, <1>5, <2>5, <2>6, <2>7, <2>8, <2>9, <2>10 DEF Parts
  <1> QED
    BY <1>7, <1>8 DEF HStream

\* It sends what follows.
LEMMA StreamTail ==
    ASSUME ServerConstants, NEW s, HCore(s), NEW q \in Seq(Pieces), NEW d \in Peer,
           HStream(s, q, d), d.req <= NumRequests, d.part = "tail", s.conn = "open",
           NEW e \in Pieces, e.req = d.req, e.part # "head", e.part = "bad" => d.req \notin Uploads,
           NEW t, t = Append(q, e), NEW u \in Peer, u.req = d.req + 1, u.part = "head"
    PROVE  HStream(s, t, u)
  <1>1. HOne(s) /\ HHeld(s) /\ s \in ServerState
    BY DEF HCore
  <1>2. /\ t \in Seq(Pieces) /\ Len(q) \in Nat /\ Len(t) = Len(q) + 1
        /\ DOMAIN q = 1..Len(q) /\ DOMAIN t = 1..(Len(q) + 1)
        /\ \A i \in DOMAIN q : i \in DOMAIN t /\ t[i] = q[i]
        /\ t[Len(q) + 1] = e
    BY AppendAt
  <1> DEFINE n == d.req
             l == Len(q)
  <1>3. n \in Int /\ n \in Requests /\ l \in Nat
    BY <1>2 DEF Peer, Requests, ServerConstants
  <1>4. LastOf(d) = n /\ LastOf(u) = n
    BY <1>3 DEF LastOf
  <1>5. Known(s, u)
    BY <1>4 DEF HStream, Known
  <1>6. ASSUME Listens(s) PROVE Parts(s, t, u)
    <2>1. Parts(s, q, d)
      BY <1>6 DEF HStream
    <2>2. \A k \in DOMAIN t : k \in DOMAIN q \/ k = l + 1
      BY <1>2
    <2>3. \A r \in Requests : s.obj[r] = "live" => r = n
      BY <1>4, <1>5 DEF Known
    <2>4. IF l = 0 THEN IF s.recv = None THEN Early(s, n) ELSE s.recv = n
          ELSE q[l].req = n /\ q[l].part = "head"
      BY <1>4, <2>1 DEF Parts
    <2> HIDE DEF n, l
    <2>5. s.obj[0] = "none"
      BY <2>1 DEF Parts
    <2>6. /\ \A k \in DOMAIN t : t[k].part = "head" => t[k].req = n /\ s.obj[n] = "none"
          /\ \A k, m \in DOMAIN t : t[k].part = "head" /\ t[m].part = "head" => k = m
      BY <1>2, <1>4, <2>1, <2>2 DEF Parts, l
    <2>7. \A k \in DOMAIN t : t[k].part # "head" /\ k > 1 =>
                t[k - 1].req = t[k].req /\ t[k - 1].part = "head"
      <3> SUFFICES ASSUME NEW k \in DOMAIN t, t[k].part # "head", k > 1
                   PROVE  t[k - 1].req = t[k].req /\ t[k - 1].part = "head"
        OBVIOUS
      <3>1. k - 1 \in DOMAIN q
        BY <1>2
      <3>2. CASE k \in DOMAIN q
        BY <1>2, <2>1, <3>1, <3>2 DEF Parts
      <3>3. CASE k = l + 1
        <4>1. l \in Nat /\ k - 1 = l /\ l # 0
          BY <1>2, <3>3 DEF l
        <4> QED
          BY <1>2, <2>4, <3>1, <3>3, <4>1 DEF l, n
      <3> QED
        BY <2>2, <3>2, <3>3
    <2>8. \A k \in DOMAIN t : t[k].part = "bad" => t[k].req \notin Uploads
      BY <1>2, <2>1, <2>2 DEF Parts, l
    <2>9. /\ Len(t) > 0 /\ t[1].part # "head" =>
                IF s.recv = None THEN Early(s, t[1].req) ELSE s.recv = t[1].req
          /\ Len(t) > 0 /\ t[1].part = "head" => s.recv = None
      <3>1. CASE l = 0
        <4>1. t[1] = e
          BY <1>2, <3>1 DEF l
        <4> QED
          BY <2>4, <3>1, <4>1 DEF n
      <3>2. CASE l # 0
        <4>1. 1 \in DOMAIN q /\ Len(q) > 0
          BY <1>2, <3>2 DEF l
        <4> QED
          BY <1>2, <2>1, <4>1 DEF Parts
      <3> QED
        BY <3>1, <3>2
    <2>10. s.recv = None /\ Len(t) > 0 => \A r \in Requests : s.obj[r] # "live"
      <3>1. CASE l = 0
        BY <2>3, <2>4, <3>1 DEF Early
      <3>2. CASE l # 0
        BY <1>2, <2>1, <3>2 DEF Parts, l
      <3> QED
        BY <3>1, <3>2
    <2> QED
      BY <1>4, <2>5, <2>6, <2>7, <2>8, <2>9, <2>10 DEF Parts
  <1> QED
    BY <1>5, <1>6 DEF HStream

\* ClientSends.
LEMMA HClientSends ==
    ASSUME ServerConstants, ~Pipelining, ~BadUploads, HCore(p), peer \in Peer,
           inbuf \in Seq(Pieces), wire \in Seq(Pieces), HStream(p, inbuf \o wire, peer),
           ClientSends
    PROVE  /\ p' = p /\ inbuf' = inbuf /\ wire' \in Seq(Pieces) /\ peer' \in Peer
           /\ HStream(p, inbuf \o wire', peer')
  <1> DEFINE q == inbuf \o wire
  <1>1. q \in Seq(Pieces)
    OBVIOUS
  <1>2. p' = p /\ inbuf' = inbuf /\ p.conn = "open" /\ peer.req <= NumRequests
    BY DEF ClientSends
  <1>3. \A e \in Pieces : inbuf \o Append(wire, e) = Append(q, e) /\ Append(wire, e) \in Seq(Pieces)
    OBVIOUS
  <1>4. peer.req \in 1..NumRequests
    BY <1>2 DEF Peer, ServerConstants
  <1>5. peer.part \in {"head", "tail"}
    BY DEF Peer
  <1> HIDE DEF q
  <1>6. CASE peer.part = "head"
    <2> DEFINE e == [req |-> peer.req, part |-> "head"]
               u == [peer EXCEPT !.part = "tail"]
    <2>1. wire' = Append(wire, e) /\ peer' = u
      BY <1>6 DEF ClientSends
    <2>2. peer.req > 1 => p.obj[peer.req - 1] \in {"doomed", "freed"}
      BY <1>6 DEF ClientSends
    <2>3. e \in Pieces /\ e.req = peer.req /\ e.part = "head"
      BY <1>4 DEF Pieces
    <2>4. u \in Peer /\ u.req = peer.req /\ u.part = "tail"
      BY DEF Peer
    <2> HIDE DEF e, u
    <2>5. HStream(p, Append(q, e), u)
      BY <1>1, <1>2, <1>6, <2>2, <2>3, <2>4, StreamHead DEF q
    <2> QED
      BY <1>2, <1>3, <2>1, <2>3, <2>4, <2>5
  <1>7. CASE peer.part = "tail"
    <2>1. PICK bad \in {"tail", "bad"} :
              /\ bad = "bad" => BadUploads \/ peer.req \notin Uploads
              /\ wire' = Append(wire, [req |-> peer.req, part |-> bad])
              /\ peer' = [req |-> peer.req + 1, part |-> "head"]
      BY <1>7 DEF ClientSends
    <2> DEFINE e == [req |-> peer.req, part |-> bad]
               u == [req |-> peer.req + 1, part |-> "head"]
    <2>2. e \in Pieces /\ e.req = peer.req /\ e.part # "head" /\ e.part = bad
      BY <1>4 DEF Pieces
    <2>3. u \in Peer /\ u.req = peer.req + 1 /\ u.part = "head"
      BY <1>4 DEF Peer, ServerConstants
    <2>4. wire' = Append(wire, e) /\ peer' = u
      BY <2>1
    <2> HIDE DEF e, u
    <2>5. HStream(p, Append(q, e), u)
      BY <1>1, <1>2, <1>7, <2>1, <2>2, <2>3, StreamTail DEF q
    <2> QED
      BY <1>2, <1>3, <2>4, <2>2, <2>3, <2>5
  <1> QED
    BY <1>5, <1>6, <1>7

\* The indices of what is left.
LEMMA DropsAt ==
    ASSUME NEW q \in Seq(Pieces), Len(q) > 0, NEW t, Drops(q, 1, t)
    PROVE  /\ Len(q) \in Nat /\ Len(t) \in Nat /\ Len(t) = Len(q) - 1
           /\ DOMAIN q = 1..Len(q) /\ DOMAIN t = 1..Len(t) /\ t \in Seq(Pieces)
           /\ 1 \in DOMAIN q
           /\ \A i \in DOMAIN t : i + 1 \in DOMAIN q /\ t[i] = q[i + 1]
  <1>1. t \in Seq(Pieces) /\ Len(t) = Len(q) - 1 /\ \A i \in 1..Len(t) : t[i] = q[1 + i]
    BY DEF Drops
  <1>2. /\ Len(q) \in Nat /\ Len(t) \in Nat
        /\ DOMAIN q = 1..Len(q) /\ DOMAIN t = 1..Len(t) /\ 1 \in DOMAIN q
    BY <1>1
  <1>3. \A i \in DOMAIN t : i + 1 \in DOMAIN q /\ 1 + i = i + 1
    BY <1>1, <1>2
  <1> QED
    BY <1>1, <1>2, <1>3

\* The first piece of a request that arrives.
LEMMA HeadFacts ==
    ASSUME ServerConstants, NEW s, HCore(s), Listens(s), NEW q \in Seq(Pieces), Len(q) > 0,
           NEW d, HStream(s, q, d), q[1].part = "head"
    PROVE  /\ s.recv = None /\ q[1].req = LastOf(d) /\ s.obj[q[1].req] = "none"
           /\ q[1].req \in Requests /\ q[1].req # 0
           /\ \A x \in Requests : s.obj[x] # "live"
  <1>1. Parts(s, q, d) /\ 1 \in DOMAIN q /\ q[1] \in Pieces
    BY DEF HStream
  <1>2. s.recv = None /\ q[1].req = LastOf(d) /\ s.obj[q[1].req] = "none"
    BY <1>1 DEF Parts
  <1>3. \A x \in Requests : s.obj[x] # "live"
    BY <1>1, <1>2 DEF Parts
  <1>4. q[1].req \in 1..NumRequests
    BY <1>1 DEF Pieces
  <1> QED
    BY <1>2, <1>3, <1>4, ServerNumbers

\* The header of a request is read.
LEMMA StreamHeaded ==
    ASSUME ServerConstants, NEW s, HCore(s), Listens(s), NEW q \in Seq(Pieces), Len(q) > 0,
           NEW d, HStream(s, q, d), NEW r, r = q[1].req, q[1].part = "head",
           NEW t, Drops(q, 1, t), NEW u, u.recv = r,
           u.obj = [s.obj EXCEPT ![r] = "live"], u.conn = s.conn, u.closed = s.closed
    PROVE  HStream(u, t, d) /\ Listens(u)
  <1>1. /\ s.recv = None /\ r = LastOf(d) /\ s.obj[r] = "none"
        /\ r \in Requests /\ r # 0 /\ \A x \in Requests : s.obj[x] # "live"
    BY HeadFacts
  <1>2. s.obj \in [Requests -> {"none", "live", "doomed", "freed"}]
    BY ServerFields DEF HCore
  <1>3. u.obj[r] = "live" /\ \A x \in Requests : x # r => u.obj[x] = s.obj[x]
    BY <1>1, <1>2
  <1>4. Parts(s, q, d) /\ Known(s, d) /\ Listens(u)
    BY DEF HStream, Listens
  <1> DEFINE l == LastOf(d)
             n == Len(q)
  <1>5. l = r /\ r # None /\ r \in Int /\ 0 \in Requests
    BY <1>1, ServerNumbers
  <1> HIDE DEF l
  <1>6. Known(u, d)
    <2>1. \A x \in Requests : x > l => u.obj[x] = "none"
      <3> SUFFICES ASSUME NEW x \in Requests, x > l PROVE u.obj[x] = "none"
        OBVIOUS
      <3>1. x # r
        BY <1>5, ServerNumbers
      <3> QED
        BY <1>3, <1>4, <3>1 DEF Known, l
    <2>2. \A x \in Requests : u.obj[x] = "live" => x = l
      BY <1>1, <1>3, <1>5
    <2> QED
      BY <1>4, <2>1, <2>2 DEF Known, l
  <1>7. /\ n \in Nat /\ Len(t) \in Nat /\ Len(t) = n - 1
        /\ DOMAIN q = 1..n /\ DOMAIN t = 1..Len(t) /\ 1 \in DOMAIN q
        /\ \A i \in DOMAIN t : i + 1 \in DOMAIN q /\ t[i] = q[i + 1]
    BY DropsAt
  <1> HIDE DEF n
  <1>8. \A k \in DOMAIN t : t[k].part # "head"
    <2> SUFFICES ASSUME NEW k \in DOMAIN t, t[k].part = "head" PROVE FALSE
      OBVIOUS
    <2>1. k + 1 \in DOMAIN q /\ q[k + 1].part = "head" /\ k \in Nat /\ k >= 1
      BY <1>7
    <2>2. k + 1 = 1
      BY <1>4, <1>7, <2>1 DEF Parts
    <2> QED
      BY <2>1, <2>2
  <1>9. \A k \in DOMAIN t : k = 1
    <2> SUFFICES ASSUME NEW k \in DOMAIN t, k # 1 PROVE FALSE
      OBVIOUS
    <2>1. k \in Nat /\ k > 1 /\ k + 1 \in DOMAIN q /\ (k + 1) - 1 = k /\ k - 1 \in DOMAIN t
          /\ k + 1 > 1 /\ (k - 1) + 1 = k
      BY <1>7
    <2>2. q[k + 1].part # "head"
      BY <1>7, <1>8
    <2>3. q[(k + 1) - 1].part = "head"
      BY <1>4, <2>1, <2>2 DEF Parts
    <2>4. t[k - 1].part = "head"
      BY <1>7, <2>1, <2>3
    <2> QED
      BY <1>8, <2>1, <2>4
  <1>10. Parts(u, t, d)
    <2>1. u.obj[0] = "none"
      BY <1>1, <1>3, <1>4, <1>5 DEF Parts
    <2>2. \A k \in DOMAIN t : t[k].part = "bad" => t[k].req \notin Uploads
      BY <1>4, <1>7 DEF Parts
    <2>3. Len(t) > 0 => t[1].req = r
      <3> SUFFICES ASSUME Len(t) > 0 PROVE t[1].req = r
        OBVIOUS
      <3>1. 1 \in DOMAIN t /\ 2 \in DOMAIN q /\ t[1] = q[2] /\ 2 > 1 /\ 2 - 1 = 1
        BY <1>7
      <3>2. q[2].part # "head"
        BY <1>8, <3>1
      <3>3. q[2 - 1].req = q[2].req
        BY <1>4, <3>1, <3>2 DEF Parts
      <3> QED
        BY <3>1, <3>3
    <2>4. u.conn = "open" /\ d.part = "tail" =>
             IF Len(t) = 0 THEN u.recv = l ELSE t[Len(t)].req = l /\ t[Len(t)].part = "head"
      <3>1. CASE Len(t) = 0
        BY <1>5, <3>1
      <3>2. CASE Len(t) # 0
        <4> SUFFICES ASSUME u.conn = "open", d.part = "tail"
                     PROVE  t[Len(t)].req = l /\ t[Len(t)].part = "head"
          BY <3>2
        <4>1. n # 0 /\ Len(t) \in DOMAIN t /\ Len(t) + 1 = n
          BY <1>7, <3>2
        <4>2. q[n].req = l /\ q[n].part = "head"
          BY <1>4, <4>1 DEF Parts, l, n
        <4> QED
          BY <1>7, <4>1, <4>2
      <3> QED
        BY <3>1, <3>2
    <2>5. /\ \A k \in DOMAIN t : t[k].part = "head" => t[k].req = l /\ u.obj[l] = "none"
          /\ \A k, m \in DOMAIN t : t[k].part = "head" /\ t[m].part = "head" => k = m
          /\ \A k \in DOMAIN t : t[k].part # "head" /\ k > 1 =>
                t[k - 1].req = t[k].req /\ t[k - 1].part = "head"
      BY <1>8, <1>9
    <2>6. Len(t) > 0 => t[1].part # "head"
      BY <1>7, <1>8
    <2>7. /\ Len(t) > 0 /\ t[1].part # "head" =>
                IF u.recv = None THEN Early(u, t[1].req) ELSE u.recv = t[1].req
          /\ Len(t) > 0 /\ t[1].part = "head" => u.recv = None
          /\ u.recv = None /\ Len(t) > 0 => \A x \in Requests : u.obj[x] # "live"
      BY <1>5, <2>3, <2>6
    <2>8. u.recv # None
      BY <1>5
    <2> QED
      BY <2>1, <2>2, <2>4, <2>5, <2>7, <2>8 DEF Parts, l
  <1> QED
    BY <1>4, <1>6, <1>10 DEF HStream

\* The request that is being read, and its next piece.
LEMMA BodyFacts ==
    ASSUME ServerConstants, NEW s, HCore(s), Listens(s), NEW q \in Seq(Pieces), Len(q) > 0,
           NEW d, HStream(s, q, d), s.recv # None
    PROVE  /\ q[1].part \in {"tail", "bad"} /\ s.recv = q[1].req /\ s.recv \in Requests
           /\ s.obj[s.recv] = "live" /\ s.recv = LastOf(d)
           /\ q[1].part = "bad" => s.recv \notin Uploads
  <1>1. Parts(s, q, d) /\ Known(s, d) /\ 1 \in DOMAIN q /\ q[1] \in Pieces
    BY DEF HStream
  <1>2. q[1].part # "head"
    BY <1>1 DEF Parts
  <1>3. s.recv = q[1].req /\ (q[1].part = "bad" => q[1].req \notin Uploads)
    BY <1>1, <1>2 DEF Parts
  <1>4. q[1].part \in {"head", "tail", "bad"}
    BY <1>1 DEF Pieces
  <1>5. s.recv \in Requests /\ s.obj[s.recv] = "live"
    BY ServerFields DEF HCore, HHeld
  <1> QED
    BY <1>1, <1>2, <1>3, <1>4, <1>5 DEF Known

\* The request is read.
LEMMA StreamRequested ==
    ASSUME ServerConstants, NEW s, HCore(s), Listens(s), NEW q \in Seq(Pieces), Len(q) > 0,
           NEW d, HStream(s, q, d), s.recv # None, NEW t, Drops(q, 1, t),
           NEW u, Read(s, s.recv, u)
    PROVE  HStream(u, t, d)
  <1> DEFINE r == s.recv
             n == Len(q)
  <1>1. /\ q[1].part \in {"tail", "bad"} /\ r \in Requests /\ s.obj[r] = "live" /\ r = LastOf(d)
    BY BodyFacts
  <1>2. /\ n \in Nat /\ Len(t) \in Nat /\ Len(t) = n - 1
        /\ DOMAIN q = 1..n /\ DOMAIN t = 1..Len(t) /\ 1 \in DOMAIN q
        /\ \A i \in DOMAIN t : i + 1 \in DOMAIN q /\ t[i] = q[i + 1]
    BY DropsAt
  <1>3. Parts(s, q, d) /\ Known(s, d) /\ s \in ServerState
    BY DEF HStream, HCore
  <1>4. \A k \in DOMAIN q : q[k].part # "head"
    BY <1>1, <1>3 DEF Parts
  <1> HIDE DEF n
  <1>5. Read(s, r, u)
    OBVIOUS
  <1> HIDE DEF r
  <1>6. n = 1
    <2> SUFFICES ASSUME n # 1 PROVE FALSE
      OBVIOUS
    <2>1. 2 \in DOMAIN q /\ 2 > 1 /\ 2 - 1 = 1
      BY <1>2
    <2> QED
      BY <1>3, <1>4, <2>1 DEF Parts
  <1>7. Len(t) = 0 /\ DOMAIN t = {}
    BY <1>2, <1>6
  <1>8. ~(s.conn = "open" /\ d.part = "tail")
    <2>1. 1 # 0 /\ Len(q) = 1
      BY <1>6 DEF n
    <2> QED
      BY <1>1, <1>3, <1>4, <2>1, <1>2 DEF Parts
  <1>9. /\ Known(u, d) /\ (Listens(u) => u.conn = s.conn /\ u.obj[0] = "none")
    <2>1. CASE Over(s, r, u)
      <3>1. /\ r # 0 /\ u.obj = [s.obj EXCEPT ![r] = "doomed"]
            /\ \A x \in Requests : x # r => u.obj[x] = s.obj[x]
            /\ \A x \in Requests : u.obj[x] # "live"
            /\ Listens(u) => Listens(s) /\ u.conn = s.conn
        BY <1>1, <2>1, OverFacts
      <3>2. Known(u, d)
        BY <1>1, <1>3, <3>1, KnownEnds
      <3>3. u.obj[0] = "none"
        BY <1>3, <3>1, ServerNumbers DEF Parts
      <3> QED
        BY <3>1, <3>2, <3>3
    <2>2. CASE u.conn = s.conn /\ u.closed = s.closed /\ u.obj = s.obj
      BY <1>3, <2>2 DEF Known, Parts
    <2> QED
      BY <1>5, <2>1, <2>2 DEF Read
  <1>10. ASSUME Listens(u) PROVE Parts(u, t, d)
    <2>1. u.conn = s.conn /\ u.obj[0] = "none" /\ Len(t) = 0
      BY <1>7, <1>9, <1>10
    <2>2. ~(Len(t) > 0) /\ ~(u.conn = "open" /\ d.part = "tail")
      BY <1>8, <2>1
    <2> QED
      BY <1>7, <2>1, <2>2 DEF Parts
  <1> QED
    BY <1>9, <1>10 DEF HStream

\* A wrong request: the protocol does not listen any more.
LEMMA StreamWrong ==
    ASSUME ServerConstants, NEW s, HCore(s), NEW q, NEW t, NEW d, HStream(s, q, d),
           NEW r \in Requests, r = 0 \/ r = LastOf(d), NEW u, Wrong(s, r, u)
    PROVE  HStream(u, t, d)
  <1>1. Known(s, d) /\ s \in ServerState
    BY DEF HStream, HCore
  <1>2. Known(u, d)
    BY <1>1, KnownEnds DEF Wrong
  <1> QED
    BY <1>2 DEF Wrong, HStream, Listens

\* What follows the header is read, or is wrong.
LEMMA HBody ==
    ASSUME ServerConstants, NEW s, HCore(s), Listens(s), NEW q \in Seq(Pieces), Len(q) > 0,
           NEW d, HStream(s, q, d), s.recv # None, NEW t, Drops(q, 1, t),
           NEW last \in HandlerChoices, NEW r, r = s.recv,
           NEW u, u = IF q[1].part = "tail" THEN RequestRead(s, r, last) ELSE ErrorRead(s, r)
    PROVE  HCore(u) /\ HStream(u, t, d)
  <1>1. /\ q[1].part \in {"tail", "bad"} /\ r \in Requests
        /\ s.obj[r] = "live" /\ r = LastOf(d) /\ (q[1].part = "bad" => r \notin Uploads)
    BY BodyFacts
  <1>2. s.conn # "gone"
    BY DEF Listens
  <1>3. CASE q[1].part = "tail"
    <2>1. Read(s, r, u)
      BY <1>1, <1>2, <1>3, HRequestRead
    <2>2. HStream(u, t, d)
      BY <2>1, StreamRequested
    <2> QED
      BY <2>1, <2>2 DEF Read
  <1>4. CASE q[1].part = "bad"
    <2>1. u = ErrorRead(s, r)
      BY <1>4
    <2>2. Wrong(s, r, u)
      BY <1>1, <1>2, <1>4, <2>1, HErrorRead
    <2>3. HStream(u, t, d)
      BY <1>1, <2>2, StreamWrong
    <2> QED
      BY <2>2, <2>3 DEF Wrong
  <1> QED
    BY <1>1, <1>3, <1>4

\* The states after a header.
LEMMA HHead ==
    ASSUME ServerConstants, NEW s, HCore(s), Listens(s), NEW q \in Seq(Pieces), Len(q) > 0,
           NEW d, HStream(s, q, d), NEW r, r = q[1].req, q[1].part = "head",
           NEW t, Drops(q, 1, t), NEW k \in BOOLEAN, NEW first \in {"hold", "reply"},
           NEW u, u = HeaderRead(s, r, k, first)
    PROVE  HCore(u) /\ HStream(u, t, d) /\ (u.conn # "gone" => Listens(u) /\ u.recv = r)
  <1>1. /\ s.recv = None /\ r = LastOf(d) /\ s.obj[r] = "none"
        /\ r \in Requests /\ r # 0 /\ \A x \in Requests : s.obj[x] # "live"
    BY HeadFacts
  <1>2. s.conn # "gone" /\ s \in ServerState /\ Known(s, d)
    BY DEF Listens, HCore, HStream
  <1>3. Headed(s, r, u)
    BY <1>1, <1>2, HHeaderRead
  <1>4. HCore(u)
    BY <1>3 DEF Headed
  <1>5. CASE Opened(s, r, u) \/ Taken(s, r, r, u)
    <2>1. u.recv = r /\ u.obj = [s.obj EXCEPT ![r] = "live"] /\ u.conn = s.conn /\ u.closed = s.closed
      BY <1>5 DEF Opened, Taken
    <2>2. HStream(u, t, d) /\ Listens(u)
      BY <2>1, StreamHeaded
    <2> QED
      BY <1>4, <2>1, <2>2
  <1>6. CASE u.conn = "gone" /\ u.closed = TRUE /\ u.obj = [s.obj EXCEPT ![r] = "doomed"]
    <2>1. s.obj \in [Requests -> {"none", "live", "doomed", "freed"}]
      BY <1>2, ServerFields
    <2>2. \A x \in Requests : u.obj[x] # "live"
      BY <1>1, <1>6, <2>1
    <2>3. Known(u, d)
      BY <1>1, <1>2, <1>6, <2>2, KnownEnds
    <2> QED
      BY <1>4, <1>6, <2>3 DEF HStream, Listens
  <1> QED
    BY <1>3, <1>5, <1>6 DEF Headed

\* What is left of a stream of which the first pieces are read.
LEMMA DropsRead ==
    ASSUME NEW q, NEW b, NEW k, NEW rest, NEW v, NEW t, Reads(Pieces, q, b, k, rest, v, t)
    PROVE  Drops(q, k, t) /\ rest \in Seq(Pieces) /\ v \in Seq(Pieces)
  <1>1. /\ t \in Seq(Pieces) /\ Len(t) = Len(q) - k /\ rest \in Seq(Pieces) /\ v \in Seq(Pieces)
        /\ \A i \in DOMAIN t : t[i] = q[k + i]
    BY DEF Reads, SuffixOf
  <1>2. DOMAIN t = 1..Len(t)
    BY <1>1
  <1> QED
    BY <1>1, <1>2 DEF Drops

\* Two at a time.
LEMMA DropsTwo ==
    ASSUME NEW q \in Seq(Pieces), NEW t, NEW u, Drops(q, 1, t), Drops(q, 2, u)
    PROVE  Drops(t, 1, u) /\ t \in Seq(Pieces)
  <1>1. /\ Len(q) \in Nat /\ t \in Seq(Pieces) /\ u \in Seq(Pieces)
        /\ Len(t) = Len(q) - 1 /\ Len(u) = Len(q) - 2
        /\ Len(t) \in Nat /\ Len(u) \in Nat
        /\ \A i \in 1..Len(t) : t[i] = q[1 + i]
        /\ \A i \in 1..Len(u) : u[i] = q[2 + i]
    BY DEF Drops
  <1>2. \A i \in 1..Len(u) : u[i] = t[1 + i]
    <2> SUFFICES ASSUME NEW i \in 1..Len(u) PROVE u[i] = t[1 + i]
      OBVIOUS
    <2>1. 1 + i \in 1..Len(t) /\ 1 + (1 + i) = 2 + i
      BY <1>1
    <2>2. t[1 + i] = q[1 + (1 + i)] /\ u[i] = q[2 + i]
      BY <1>1, <2>1
    <2> QED
      BY <2>1, <2>2
  <1> QED
    BY <1>1, <1>2 DEF Drops

\* The protocol reads the pieces of b, and those of v are not there yet.
Cut(q, b, v) ==
    /\ q \in Seq(Pieces) /\ b \in Seq(Pieces) /\ v \in Seq(Pieces)
    /\ Len(b) \in Nat \ {0} /\ Len(q) \in Nat /\ Len(b) <= Len(q)
    /\ \A i \in 1..Len(b) : b[i] = q[i]
    /\ SubSeq(b, 2, Len(b)) \in Seq(Pieces) /\ Drops(q, 1, SubSeq(b, 2, Len(b)) \o v)
    /\ Len(b) >= 2 => /\ SubSeq(b, 3, Len(b)) \in Seq(Pieces)
                      /\ Drops(q, 2, SubSeq(b, 3, Len(b)) \o v)

\* What is read is cut from what is under way.
LEMMA HCut ==
    ASSUME NEW ib \in Seq(Pieces), NEW w \in Seq(Pieces), NEW n \in 1..Len(w),
           NEW q, q = ib \o w, NEW b, b = ib \o SubSeq(w, 1, n),
           NEW v, v = SubSeq(w, n + 1, Len(w))
    PROVE  Cut(q, b, v)
  <1> DEFINE rest == SubSeq(b, 2, Len(b))
             more == SubSeq(b, 3, Len(b))
             one == rest \o v
             two == more \o v
  <1>1. b \in Seq(Pieces) /\ Len(b) \in Nat /\ Len(b) >= 1
    <2>1. SubSeq(w, 1, n) \in Seq(Pieces) /\ Len(SubSeq(w, 1, n)) = n /\ n \in Nat /\ n >= 1
      OBVIOUS
    <2> DEFINE x == SubSeq(w, 1, n)
    <2>2. b = ib \o x /\ x \in Seq(Pieces) /\ Len(x) = n
      BY <2>1
    <2> HIDE DEF x
    <2>3. b \in Seq(Pieces) /\ Len(b) = Len(ib) + Len(x) /\ Len(ib) \in Nat
      BY <2>2
    <2> QED
      BY <2>1, <2>2, <2>3
  <1>2. Reads(Pieces, q, b, 1, rest, v, one)
    <2>1. 1 \in Nat /\ 1 <= Len(b) /\ rest = SubSeq(b, 1 + 1, Len(b))
      BY <1>1
    <2> HIDE DEF rest
    <2> QED
      BY <2>1, ReadStream
  <1>3. Len(b) >= 2 => Reads(Pieces, q, b, 2, more, v, two)
    <2>1. 2 \in Nat /\ more = SubSeq(b, 2 + 1, Len(b)) /\ (Len(b) >= 2 => 2 <= Len(b))
      BY <1>1
    <2> HIDE DEF more
    <2> QED
      BY <2>1, ReadStream
  <1> HIDE DEF rest, more, one, two
  <1>4. Drops(q, 1, one) /\ rest \in Seq(Pieces) /\ v \in Seq(Pieces)
    BY <1>2, DropsRead
  <1>5. Len(b) >= 2 => Drops(q, 2, two) /\ more \in Seq(Pieces)
    BY <1>3, DropsRead
  <1>6. q \in Seq(Pieces) /\ Len(b) <= Len(q) /\ \A i \in 1..Len(b) : b[i] = q[i]
    BY <1>2 DEF Reads
  <1>7. Len(q) \in Nat
    BY <1>6
  <1>8. SubSeq(b, 2, Len(b)) \in Seq(Pieces) /\ Drops(q, 1, SubSeq(b, 2, Len(b)) \o v)
    BY <1>4, Zenon DEF rest, one
  <1>9. Len(b) >= 2 => /\ SubSeq(b, 3, Len(b)) \in Seq(Pieces)
                       /\ Drops(q, 2, SubSeq(b, 3, Len(b)) \o v)
    BY <1>5, Zenon DEF more, two
  <1>10. Len(b) \in Nat \ {0}
    BY <1>1
  <1> QED
    BY <1>1, <1>4, <1>6, <1>7, <1>8, <1>9, <1>10, Zenon DEF Cut

\* The header of request r is read in some way.
HeaderReads(s, r, u) ==
    \E k \in BOOLEAN, first \in {"hold", "reply"} : u = HeaderRead(s, r, k, first)

\* What follows the header is read, or is wrong.
BodyRead(s, r, piece, last) ==
    IF piece.part = "tail" THEN RequestRead(s, r, last) ELSE ErrorRead(s, r)

\* What ProcessMoreData makes of the pieces in b.
Processed(s, b, last, m) ==
    /\ s.closed => m = [state |-> s, rest |-> <<>>]
    /\ ~s.closed /\ s.recv = None /\ b[1].part # "head" =>
         m = [state |-> ErrorRead(s, IF b[1].part = "bad" /\ s.obj[b[1].req] = "none"
                                     THEN b[1].req ELSE Stray),
              rest |-> Tail(b)]
    /\ ~s.closed /\ s.recv = None /\ b[1].part = "head" =>
         \E u : /\ HeaderReads(s, b[1].req, u)
                /\ m = IF u.conn = "gone" \/ u.recv = None \/ Len(b) < 2
                       THEN [state |-> u, rest |-> SubSeq(b, 2, Len(b))]
                       ELSE [state |-> BodyRead(u, b[1].req, b[2], last),
                             rest |-> SubSeq(b, 2 + 1, Len(b))]
    /\ ~s.closed /\ s.recv # None /\ s.conn # "gone" /\ ~(Len(b) < 1) =>
         m = [state |-> BodyRead(s, s.recv, b[1], last), rest |-> SubSeq(b, 1 + 1, Len(b))]

\* It is that.
LEMMA ProcessedSo ==
    ASSUME NEW s, NEW b, NEW k \in BOOLEAN, NEW first \in {"hold", "reply"}, NEW last, NEW m,
           m = ProcessMoreData(s, b, k, first, last)
    PROVE  Processed(s, b, last, m)
  <1>1. s.closed => m = [state |-> s, rest |-> <<>>]
    BY DEF ProcessMoreData
  <1>2. ~s.closed /\ s.recv = None /\ b[1].part # "head" =>
         m = [state |-> ErrorRead(s, IF b[1].part = "bad" /\ s.obj[b[1].req] = "none"
                                     THEN b[1].req ELSE Stray),
              rest |-> Tail(b)]
    BY DEF ProcessMoreData
  <1>3. ASSUME ~s.closed, s.recv = None, b[1].part = "head"
        PROVE  \E u : /\ HeaderReads(s, b[1].req, u)
                /\ m = IF u.conn = "gone" \/ u.recv = None \/ Len(b) < 2
                       THEN [state |-> u, rest |-> SubSeq(b, 2, Len(b))]
                       ELSE [state |-> BodyRead(u, b[1].req, b[2], last),
                             rest |-> SubSeq(b, 2 + 1, Len(b))]
    <2> DEFINE u == HeaderRead(s, b[1].req, k, first)
    <2>1. HeaderReads(s, b[1].req, u)
      BY DEF HeaderReads
    <2>2. m = IF u.conn = "gone" \/ u.recv = None \/ Len(b) < 2
                       THEN [state |-> u, rest |-> SubSeq(b, 2, Len(b))]
                       ELSE [state |-> BodyRead(u, b[1].req, b[2], last),
                             rest |-> SubSeq(b, 2 + 1, Len(b))]
      BY <1>3, Zenon DEF ProcessMoreData, BodyRead
    <2> HIDE DEF u
    <2> QED
      BY <2>1, <2>2
  <1>4. ~s.closed /\ s.recv # None /\ s.conn # "gone" /\ ~(Len(b) < 1) =>
         m = [state |-> BodyRead(s, s.recv, b[1], last), rest |-> SubSeq(b, 1 + 1, Len(b))]
    BY DEF ProcessMoreData, BodyRead
  <1> QED
    BY <1>1, <1>2, <1>3, <1>4 DEF Processed

\* ProcessMoreData.
LEMMA HProcess ==
    ASSUME ServerConstants, NEW s, HCore(s), s.conn # "gone", NEW d, NEW q, HStream(s, q, d),
           NEW b, NEW v, Cut(q, b, v), NEW last \in HandlerChoices,
           NEW m, Processed(s, b, last, m)
    PROVE  /\ HCore(m.state) /\ m.rest \in Seq(Pieces)
           /\ HStream(m.state, m.rest \o v, d)
  <1> DEFINE rest == SubSeq(b, 2, Len(b))
             more == SubSeq(b, 3, Len(b))
             one == rest \o v
             two == more \o v
  <1>1. /\ q \in Seq(Pieces) /\ b \in Seq(Pieces) /\ v \in Seq(Pieces)
        /\ Len(b) \in Nat \ {0} /\ Len(q) \in Nat /\ Len(b) <= Len(q)
        /\ \A i \in 1..Len(b) : b[i] = q[i]
    BY DEF Cut
  <1>2. /\ rest \in Seq(Pieces) /\ Drops(q, 1, one)
        /\ Len(b) >= 2 => more \in Seq(Pieces) /\ Drops(q, 2, two)
    BY DEF Cut
  <1>3. Len(q) > 0 /\ b[1] = q[1] /\ Known(s, d) /\ s.closed \in BOOLEAN
    <2>1. 1 \in 1..Len(b) /\ Len(q) > 0
      BY <1>1
    <2> QED
      BY <1>1, <2>1, ServerFields DEF HStream, HCore
  <1>4. CASE s.closed
    <2>1. m = [state |-> s, rest |-> <<>>]
      BY <1>4 DEF Processed
    <2>2. s.closed # FALSE
      BY <1>3, <1>4
    <2>3. HStream(s, <<>> \o v, d)
      BY <1>3, <2>2 DEF HStream, Listens
    <2>4. m.state = s /\ m.rest = <<>> /\ <<>> \in Seq(Pieces)
      BY <2>1
    <2> QED
      BY <2>3, <2>4
  <1>5. ~s.closed => Listens(s)
    BY <1>3 DEF Listens
  <1>6. CASE ~s.closed /\ s.recv = None /\ q[1].part # "head"
    <2>1. Parts(s, q, d)
      BY <1>5, <1>6 DEF HStream
    <2>2. s.obj[b[1].req] # "none"
      BY <1>3, <1>6, <2>1 DEF Parts, Early
    <2>3. m = [state |-> ErrorRead(s, 0), rest |-> Tail(b)]
      BY <1>3, <1>6, <2>2, ServerNumbers DEF Processed
    <2>4. s.obj[0] = "none" /\ 0 \in Requests /\ \A x \in Requests : s.obj[x] # "live"
      BY <1>3, <1>6, <2>1, ServerNumbers DEF Parts
    <2> DEFINE u == ErrorRead(s, 0)
    <2>5. Wrong(s, 0, u)
      BY <2>4, HErrorRead
    <2>6. Tail(b) \in Seq(Pieces)
      <3>1. b # <<>>
        BY <1>1
      <3> QED
        BY <1>1, <3>1
    <2>7. m.state = u /\ m.rest = Tail(b)
      BY <2>3
    <2> HIDE DEF u
    <2>8. HStream(u, m.rest \o v, d)
      BY <2>4, <2>5, StreamWrong
    <2> QED
      BY <2>5, <2>6, <2>7, <2>8 DEF Wrong
  <1>7. CASE ~s.closed /\ s.recv = None /\ q[1].part = "head"
    <2> DEFINE r == q[1].req
    <2>1. PICK u : /\ HeaderReads(s, r, u)
                   /\ m = IF u.conn = "gone" \/ u.recv = None \/ Len(b) < 2
                          THEN [state |-> u, rest |-> SubSeq(b, 2, Len(b))]
                          ELSE [state |-> BodyRead(u, r, b[2], last),
                                rest |-> SubSeq(b, 2 + 1, Len(b))]
      BY <1>3, <1>7 DEF Processed
    <2>2. HCore(u) /\ HStream(u, one, d) /\ (u.conn # "gone" => Listens(u) /\ u.recv = r)
      <3>1. PICK k \in BOOLEAN, first \in {"hold", "reply"} : u = HeaderRead(s, r, k, first)
        BY <2>1 DEF HeaderReads
      <3> HIDE DEF one
      <3> QED
        BY <1>1, <1>2, <1>3, <1>5, <1>7, <3>1, HHead
    <2>3. CASE u.conn = "gone" \/ u.recv = None \/ Len(b) < 2
      <3>1. m.state = u /\ m.rest = rest
        BY <2>1, <2>3
      <3> QED
        BY <1>2, <2>2, <3>1
    <2>4. CASE ~(u.conn = "gone" \/ u.recv = None \/ Len(b) < 2)
      <3> DEFINE z == BodyRead(u, r, b[2], last)
      <3>1. m.state = z /\ m.rest = more
        BY <2>1, <2>4
      <3>2. Len(b) >= 2 /\ u.recv = r /\ u.recv # None /\ Listens(u)
        BY <1>1, <2>2, <2>4
      <3>3. more \in Seq(Pieces) /\ Drops(q, 2, two)
        BY <1>2, <3>2
      <3> HIDE DEF one, two, more
      <3>4. Drops(one, 1, two) /\ one \in Seq(Pieces)
        BY <1>1, <1>2, <3>3, DropsTwo
      <3>5. Len(one) > 0 /\ one[1] = b[2]
        <4>1. Len(one) = Len(q) - 1 /\ \A i \in 1..Len(one) : one[i] = q[1 + i]
          BY <1>2 DEF Drops
        <4>2. Len(one) \in Nat /\ Len(one) > 0 /\ 1 \in 1..Len(one) /\ 2 \in 1..Len(b) /\ 1 + 1 = 2
          BY <1>1, <3>2, <4>1
        <4> QED
          BY <1>1, <4>1, <4>2
      <3>6. z = IF one[1].part = "tail" THEN RequestRead(u, r, last) ELSE ErrorRead(u, r)
        BY <3>5 DEF BodyRead
      <3> HIDE DEF z, r
      <3>7. HCore(z) /\ HStream(z, two, d)
        BY <2>2, <3>2, <3>4, <3>5, <3>6, HBody
      <3> QED
        BY <3>1, <3>3, <3>7 DEF two
    <2> QED
      BY <2>3, <2>4
  <1>8. CASE ~s.closed /\ s.recv # None
    <2> DEFINE r == s.recv
               z == BodyRead(s, r, b[1], last)
    <2>1. m = [state |-> z, rest |-> SubSeq(b, 1 + 1, Len(b))]
      <3>1. ~(Len(b) < 1)
        BY <1>1
      <3> QED
        BY <1>8, <3>1 DEF Processed
    <2>2. m.state = z /\ m.rest = rest
      BY <2>1
    <2>3. z = IF q[1].part = "tail" THEN RequestRead(s, r, last) ELSE ErrorRead(s, r)
      BY <1>3 DEF BodyRead
    <2> HIDE DEF z, one
    <2>4. HCore(z) /\ HStream(z, one, d)
      BY <1>1, <1>2, <1>3, <1>5, <1>8, <2>3, HBody
    <2> QED
      BY <1>2, <2>2, <2>4 DEF one
  <1> QED
    BY <1>4, <1>6, <1>7, <1>8

\* The invariant of a conversation.
HInv ==
    /\ HCore(p) /\ peer \in Peer
    /\ inbuf \in Seq(Pieces) /\ wire \in Seq(Pieces)
    /\ HStream(p, inbuf \o wire, peer)

\* The protocol when it is made has the types of its fields.
LEMMA TypedInit ==
    ASSUME NEW e \in Seq(Tasks), NEW z \in SUBSET Requests,
           NEW o \in [Requests -> {"none", "live", "doomed", "freed"}],
           NEW s, s = [conn |-> "open", closed |-> FALSE, recv |-> None, send |-> None,
                       active |-> z, timeouts |-> {kRequestTimeout}, out |-> 0, obj |-> o,
                       wants |-> z, keep |-> z, streaming |-> z, orphans |-> z, closers |-> z,
                       ready |-> z, app |-> z, posted |-> e, proto |-> "live", failed |-> "none"]
    PROVE  s \in ServerState
  <1>1. /\ "open" \in {"open", "flushing", "gone"} /\ FALSE \in BOOLEAN /\ "live" \in {"live", "freed"}
        /\ "none" \in {"none", "crt_send_", "is_server_streaming_", "destructor",
                       "deleted_twice", "used_after_delete"}
        /\ None \in Requests \cup {None} /\ 0 \in Nat
        /\ {kRequestTimeout} \in SUBSET {kRequestTimeout, kWriteTimeout}
    OBVIOUS
  <1> QED
    BY <1>1, Zenon DEF ServerState

\* The protocol when it is made.
LEMMA CoreInit ==
    ASSUME ServerConstants, NEW s,
           s = [conn |-> "open", closed |-> FALSE, recv |-> None, send |-> None, active |-> {},
                timeouts |-> {kRequestTimeout}, out |-> 0,
                obj |-> [r \in Requests |-> "none"], wants |-> {}, keep |-> {},
                streaming |-> {}, orphans |-> {}, closers |-> {}, ready |-> {}, app |-> {},
                posted |-> <<>>, proto |-> "live", failed |-> "none"]
    PROVE  HCore(s) /\ \A r \in Requests : s.obj[r] = "none"
  <1> DEFINE o == [r \in Requests |-> "none"]
  <1>1. /\ o \in [Requests -> {"none", "live", "doomed", "freed"}]
        /\ \A r \in Requests : o[r] = "none"
    OBVIOUS
  <1> HIDE DEF o
  <1>2. /\ s.recv = None /\ s.send = None /\ s.active = {} /\ s.obj = o
        /\ s.timeouts = {kRequestTimeout} /\ s.streaming = {} /\ s.orphans = {}
    BY DEF o
  <1>3. /\ s.closers = {} /\ s.ready = {} /\ s.app = {} /\ s.posted = <<>>
        /\ s.proto = "live" /\ s.failed = "none" /\ s.conn = "open"
    OBVIOUS
  <1>4. s \in ServerState
    <2> DEFINE e == <<>>
               z == {}
    <2>1. e \in Seq(Tasks) /\ z \in SUBSET Requests
      OBVIOUS
    <2>2. s = [conn |-> "open", closed |-> FALSE, recv |-> None, send |-> None, active |-> z,
                timeouts |-> {kRequestTimeout}, out |-> 0,
                obj |-> o, wants |-> z, keep |-> z,
                streaming |-> z, orphans |-> z, closers |-> z, ready |-> z, app |-> z,
                posted |-> e, proto |-> "live", failed |-> "none"]
      BY DEF o
    <2> HIDE DEF e, z
    <2> QED
      BY <1>1, <2>1, <2>2, TypedInit
  <1>5. HOne(s)
    BY <1>1, <1>2, ServerNumbers DEF HOne
  <1>6. HHeld(s)
    BY <1>2, <1>3 DEF HHeld
  <1>7. DOMAIN s.posted = {} /\ Elems(s.posted) = {}
    BY <1>3 DEF Elems
  <1>8. HPosted(s)
    BY <1>1, <1>2, <1>7 DEF HPosted, Injective, Ordered
  <1>9. HGone(s)
    BY <1>2, <1>3, <1>7 DEF HGone
  <1>10. HTimed(s)
    BY <1>2, <1>3 DEF HTimed
  <1> QED
    BY <1>1, <1>2, <1>4, <1>5, <1>6, <1>8, <1>9, <1>10 DEF HCore

\* Nothing is under way then.
LEMMA HInitially ==
    ASSUME ServerConstants, Init
    PROVE  HInv
  <1>1. HCore(p) /\ \A r \in Requests : p.obj[r] = "none"
    BY CoreInit DEF Init
  <1>2. wire = <<>> /\ inbuf = <<>> /\ peer = [req |-> 1, part |-> "head"]
    BY DEF Init
  <1>3. peer \in Peer /\ LastOf(peer) = 0 /\ 0 \in Requests /\ peer.part = "head"
    BY <1>2, ServerNumbers DEF Peer, LastOf, ServerConstants
  <1>4. Known(p, peer)
    BY <1>1, <1>3 DEF Known
  <1> DEFINE q == inbuf \o wire
  <1>5. q \in Seq(Pieces) /\ Len(q) = 0 /\ DOMAIN q = {}
    BY <1>2
  <1> HIDE DEF q
  <1>6. Parts(p, q, peer)
    BY <1>1, <1>3, <1>5 DEF Parts
  <1>7. HStream(p, q, peer)
    BY <1>4, <1>6 DEF HStream
  <1>8. inbuf \in Seq(Pieces) /\ wire \in Seq(Pieces)
    BY <1>2
  <1> QED
    BY <1>1, <1>3, <1>7, <1>8 DEF HInv, q

\* A step that leaves what is under way alone.
LEMMA HMoves ==
    ASSUME ServerConstants, HInv, UNCHANGED <<wire, inbuf, peer>>, HCore(p'), Fades(p, p'),
           Listens(p') => Listens(p) /\ p'.recv = p.recv /\ (p'.conn = "open" => p.conn = "open")
    PROVE  HInv'
  <1>1. p \in ServerState /\ p' \in ServerState
    BY DEF HInv, HCore
  <1>2. HStream(p', inbuf \o wire, peer)
    BY <1>1, StreamFades DEF HInv
  <1>3. wire' = wire /\ inbuf' = inbuf /\ peer' = peer
    OBVIOUS
  <1> QED
    BY <1>2, <1>3 DEF HInv

\* A step in which only what is known to the handlers changes.
LEMMA HKeeps ==
    ASSUME ServerConstants, HInv, UNCHANGED <<wire, inbuf, peer>>, Kept(p, p')
    PROVE  HInv'
  <1>1. Fades(p, p')
    BY DEF Kept, Fades
  <1> QED
    BY <1>1, HMoves DEF Kept, Listens

\* A step in which a handler ends its request.
LEMMA HOvers ==
    ASSUME ServerConstants, HInv, UNCHANGED <<wire, inbuf, peer>>, NEW r \in p.app, Over(p, r, p')
    PROVE  HInv'
  <1>1. HCore(p) /\ HHeld(p) /\ p \in ServerState
    BY DEF HInv, HCore
  <1>2. r \in p.active /\ r \in Requests /\ p.obj[r] = "live"
    BY <1>1, ServerFields DEF HHeld
  <1>3. \A x \in Requests : x # r => p.obj[x] # "live"
    BY <1>1, <1>2, CoreOnly
  <1>4. p.active # {}
    BY <1>2
  <1>5. HCore(p')
    <2>1. p.obj[r] \in {"none", "live"}
      BY <1>2
    <2> QED
      BY <1>1, <1>2, <1>3, <1>4, <2>1, CoreOver
  <1>6. HStream(p', inbuf \o wire, peer)
    <2>1. inbuf \o wire \in Seq(Pieces)
      BY DEF HInv
    <2> QED
      BY <1>1, <1>2, <2>1, StreamOver DEF HInv
  <1>7. wire' = wire /\ inbuf' = inbuf /\ peer' = peer
    OBVIOUS
  <1> QED
    BY <1>5, <1>6, <1>7 DEF HInv

\* A step after which nothing is under way, and no connection is open.
LEMMA HSilences ==
    ASSUME ServerConstants, HInv, Silence, HCore(p'), Fades(p, p'),
           Listens(p') => Listens(p) /\ p'.conn # "open"
    PROVE  HInv'
  <1>1. wire' = <<>> /\ inbuf' = <<>> /\ peer' = peer
    BY DEF Silence
  <1> DEFINE q == <<>> \o <<>>
  <1>2. q \in Seq(Pieces) /\ Len(q) = 0 /\ DOMAIN q = {} /\ <<>> \in Seq(Pieces)
    OBVIOUS
  <1> HIDE DEF q
  <1>3. Known(p', peer)
    BY KnownFades DEF HInv, HStream
  <1>4. Listens(p') => Parts(p', q, peer)
    <2> SUFFICES ASSUME Listens(p') PROVE Parts(p', q, peer)
      OBVIOUS
    <2>1. p.obj[0] = "none"
      BY DEF HInv, HStream, Parts
    <2>2. p'.obj[0] = "none"
      BY <2>1, ServerNumbers DEF Fades
    <2> QED
      BY <1>2, <2>2 DEF Parts
  <1>5. HStream(p', q, peer)
    BY <1>3, <1>4 DEF HStream
  <1>6. HCore(p') /\ peer' \in Peer
    BY <1>1 DEF HInv
  <1> QED
    BY <1>1, <1>2, <1>5, <1>6 DEF HInv, q

\* ConnectionReadHandler.
LEMMA ReadStep ==
    ASSUME ServerConstants, HInv, ConnectionRead
    PROVE  HInv'
  <1>1. PICK n \in 1..Len(wire), k \in BOOLEAN, first \in {"hold", "reply"},
             last \in HandlerChoices :
          LET m == ProcessMoreData(p, inbuf \o SubSeq(wire, 1, n), k, first, last)
          IN /\ p' = m.state
             /\ inbuf' = IF m.state.conn = "gone" THEN <<>> ELSE m.rest
             /\ wire' = IF m.state.conn = "gone" THEN <<>> ELSE SubSeq(wire, n + 1, Len(wire))
    BY DEF ConnectionRead
  <1>2. p.conn # "gone" /\ peer' = peer
    BY DEF ConnectionRead
  <1> DEFINE b == inbuf \o SubSeq(wire, 1, n)
             v == SubSeq(wire, n + 1, Len(wire))
             q == inbuf \o wire
  <1>3. PICK m : m = ProcessMoreData(p, b, k, first, last)
    OBVIOUS
  <1>4. /\ p' = m.state
        /\ inbuf' = IF m.state.conn = "gone" THEN <<>> ELSE m.rest
        /\ wire' = IF m.state.conn = "gone" THEN <<>> ELSE v
    BY <1>1, <1>3, Zenon
  <1>5. Cut(q, b, v)
    BY HCut DEF HInv
  <1> HIDE DEF b, v, q
  <1>6. Processed(p, b, last, m)
    BY <1>3, ProcessedSo
  <1>7. /\ HCore(m.state) /\ m.rest \in Seq(Pieces) /\ HStream(m.state, m.rest \o v, peer)
    BY <1>2, <1>5, <1>6, HProcess DEF HInv, q
  <1>8. v \in Seq(Pieces) /\ peer \in Peer
    BY <1>5 DEF Cut, HInv
  <1>9. CASE m.state.conn = "gone"
    <2>1. inbuf' = <<>> /\ wire' = <<>> /\ <<>> \in Seq(Pieces)
      BY <1>4, <1>9
    <2>2. HStream(m.state, <<>> \o <<>>, peer)
      BY <1>7, <1>9 DEF HStream, Listens
    <2> QED
      BY <1>2, <1>4, <1>7, <1>8, <2>1, <2>2 DEF HInv
  <1>10. CASE m.state.conn # "gone"
    <2>1. inbuf' = m.rest /\ wire' = v
      BY <1>4, <1>10
    <2> QED
      BY <1>2, <1>4, <1>7, <1>8, <2>1 DEF HInv
  <1> QED
    BY <1>9, <1>10

\* NotifyConnectionWrite.
LEMMA WriteStep ==
    ASSUME ServerConstants, HInv, NotifyConnectionWrite
    PROVE  HInv'
  <1>1. p.conn = "open" /\ UNCHANGED <<wire, inbuf, peer>>
    BY DEF NotifyConnectionWrite, Written
  <1>2. PICK n \in 0..p.out - 1 :
          p' = [p EXCEPT !.out = n,
                         !.ready = IF n = 0 THEN @ \ {p.send} ELSE @,
                         !.timeouts = IF n = 0 THEN @ \ {kWriteTimeout}
                                      ELSE @ \cup {kWriteTimeout}]
    BY DEF NotifyConnectionWrite, Written
  <1>3. n \in Nat /\ HCore(p)
    BY ServerFields DEF HInv, HCore
  <1>4. PICK t : t = p'
    OBVIOUS
  <1>5. Writes(p, n, t)
    BY <1>2, <1>4 DEF Writes
  <1>6. HCore(t) /\ t.obj = p.obj /\ t.recv = p.recv /\ t.closed = p.closed /\ t.conn = p.conn
    BY <1>1, <1>3, <1>5, HWritten
  <1>7. Kept(p, p')
    BY <1>4, <1>6 DEF Kept
  <1> QED
    BY <1>1, <1>7, HKeeps

\* The close handler and the timeouts.
LEMMA CloseStep ==
    ASSUME ServerConstants, HInv, ConnectionClose \/ HandleTimeout
    PROVE  HInv'
  <1>1. HCore(p) /\ Silence
    BY DEF HInv, ConnectionClose, HandleTimeout
  <1>2. PICK t : t = p'
    OBVIOUS
  <1>3. \/ t = FlushAndClose(p)
        \/ t = NotifyConnectionDeletion(p) /\ p.conn # "gone"
        \/ t = p /\ p.conn = "gone"
    BY <1>2 DEF ConnectionClose, HandleTimeout, ForceClose
  <1>4. HCore(t) /\ t.obj = p.obj /\ (Listens(t) => Listens(p) /\ t.conn # "open")
    <2>1. CASE t = FlushAndClose(p)
      <3>1. /\ HCore(t) /\ t.obj = p.obj /\ t.closed = p.closed
            /\ (t.conn = "gone" <=> p.conn = "gone")
        BY <1>1, <2>1, HFlush
      <3>2. t.conn # "open"
        BY <1>1, <2>1, ServerFields DEF FlushAndClose, HCore, ServerState
      <3> QED
        BY <3>1, <3>2 DEF Listens
    <2>2. CASE t = NotifyConnectionDeletion(p) /\ p.conn # "gone"
      BY <1>1, <2>2, HConnectionGone DEF Listens
    <2>3. CASE t = p /\ p.conn = "gone"
      BY <1>1, <2>3 DEF Listens
    <2> QED
      BY <1>3, <2>1, <2>2, <2>3
  <1>5. HCore(p') /\ Fades(p, p') /\ (Listens(p') => Listens(p) /\ p'.conn # "open")
    BY <1>2, <1>4 DEF Fades
  <1> QED
    BY <1>1, <1>5, HSilences

\* The tasks of the loop.
LEMMA PostedStep ==
    ASSUME ServerConstants, HInv, RunPosted
    PROVE  HInv'
  <1> DEFINE task == Head(p.posted)
             q == [p EXCEPT !.posted = Tail(@)]
  <1>1. /\ p.posted # <<>> /\ UNCHANGED <<wire, inbuf, peer>>
        /\ p' = CASE task.do = "delete" ->
                       Check([q EXCEPT !.obj[task.req] = "freed"],
                             p.obj[task.req] # "freed", "deleted_twice")
                  [] task.do = "delete_protocol" ->
                       LET c == Check(q, q.active = {} /\ q.conn = "gone" /\ q.send = None,
                                      "destructor")
                           d == Check(c, c.recv # None => c.obj[c.recv] = "live", "deleted_twice")
                       IN [Check(d, q.proto = "live", "deleted_twice") EXCEPT !.proto = "freed"]
                  [] task.do = "close_all" ->
                       Wakes(Check(q, q.proto = "live", "used_after_delete"), q.active)
    BY DEF RunPosted, Wakes
  <1>2. HCore(p)
    BY DEF HInv
  <1>3. task \in Tasks
    BY <1>1, <1>2, TailAt, ServerFields DEF HCore
  <1>4. PICK t : t = p'
    OBVIOUS
  <1>5. ASSUME NEW r \in Requests, task = Delete(r), task.do = "delete", task.req = r
        PROVE  RunDelete(p, t)
    <2>1. RunsDelete(p, q, r, t)
      BY <1>1, <1>4, <1>5 DEF RunsDelete
    <2> HIDE DEF q
    <2>2. q = [p EXCEPT !.posted = Tail(@)]
      BY DEF q
    <2>3. p.posted # <<>> /\ Head(p.posted) = Delete(r)
      BY <1>1, <1>5
    <2> QED
      BY <1>2, <2>1, <2>2, <2>3, HRunDelete
  <1>6. ASSUME task = DeleteProtocol, task.do = "delete_protocol"
        PROVE  HCore(t) /\ Fades(p, t) /\ t.conn = "gone"
    <2>1. Destroys(q, t)
      BY <1>1, <1>4, <1>6 DEF Destroys
    <2> HIDE DEF q
    <2>2. q = [p EXCEPT !.posted = Tail(@)]
      BY DEF q
    <2>3. FreedAs(p, t)
      BY <1>1, <1>2, <1>6, <2>1, <2>2, HRunProtocol
    <2> QED
      BY <2>3 DEF FreedAs, Fades
  <1>7. ASSUME task = CloseAll, task.do = "close_all"
        PROVE  HCore(t) /\ Fades(p, t) /\ t.conn = "gone"
    <2>1. t = Wakes(Check(q, q.proto = "live", "used_after_delete"), q.active)
      BY <1>1, <1>4, <1>7
    <2>2. Woken(p, t)
      BY <1>1, <1>2, <1>7, <2>1, HRunCloseAll
    <2> QED
      BY <2>2 DEF Woken
  <1>8. /\ HCore(t) /\ Fades(p, t)
        /\ t.conn = "gone" \/ (t.conn = p.conn /\ t.closed = p.closed /\ t.recv = p.recv)
    <2> HIDE DEF task
    <2> QED
      BY <1>3, <1>5, <1>6, <1>7, TaskKinds DEF RunDelete
  <1>9. /\ HCore(p') /\ Fades(p, p')
        /\ Listens(p') => Listens(p) /\ p'.recv = p.recv /\ (p'.conn = "open" => p.conn = "open")
    BY <1>4, <1>8 DEF Listens
  <1> QED
    BY <1>1, <1>9, HMoves

\* What the handlers know of the requests they hold.
LEMMA HeldFacts ==
    ASSUME ServerConstants, HInv, NEW r \in p.app
    PROVE  /\ HCore(p) /\ p \in ServerState /\ r \in Requests /\ p.obj[r] = "live" /\ Only(p, r)
  <1>1. HCore(p) /\ HHeld(p) /\ p \in ServerState
    BY DEF HInv, HCore
  <1>2. r \in Requests /\ p.obj[r] = "live"
    BY <1>1, ServerFields DEF HHeld
  <1> QED
    BY <1>1, <1>2, CoreOnly

\* A handler replies.
LEMMA ReplyStep ==
    ASSUME ServerConstants, HInv, NEW r, HandlerReplies(r)
    PROVE  HInv'
  <1>1. r \in p.app /\ r \notin p.streaming /\ UNCHANGED <<wire, inbuf, peer>>
    BY DEF HandlerReplies
  <1>2. /\ HCore(p) /\ p \in ServerState /\ r \in Requests /\ p.obj[r] = "live"
    BY <1>1, HeldFacts
  <1> DEFINE b == [p EXCEPT !.app = @ \ {r}, !.closers = @ \ {r}]
  <1>3. PICK t : t = p'
    OBVIOUS
  <1>4. t = ReplyWithStatus(b, r)
    BY <1>3 DEF HandlerReplies
  <1>5. Forgotten(p, r, b)
    BY <1>2, HForgets
  <1> HIDE DEF b
  <1>6. Over(p, r, t)
    BY <1>1, <1>2, <1>4, <1>5, HHandlerReply
  <1> QED
    BY <1>1, <1>3, <1>6, HOvers

\* A handler begins to stream.
LEMMA BeginStep ==
    ASSUME ServerConstants, HInv, NEW r, HandlerBegins(r)
    PROVE  HInv'
  <1>1. r \in p.app /\ r \notin p.streaming /\ r \notin Uploads /\ UNCHANGED <<wire, inbuf, peer>>
    BY DEF HandlerBegins
  <1>2. HCore(p) /\ p \in ServerState /\ r \in Requests /\ Only(p, r)
    BY <1>1, HeldFacts
  <1>3. PICK t : t = p'
    OBVIOUS
  <1>4. t = BeginStreamingData(p, r)
    BY <1>3 DEF HandlerBegins
  <1>5. Begun(p, r, t)
    BY <1>2, <1>4, HBegins DEF Only
  <1>6. HCore(t)
    BY <1>1, <1>2, <1>5, CoreBegun
  <1>7. Kept(p, t)
    BY <1>5, <1>6 DEF Kept, Begun
  <1> QED
    BY <1>1, <1>3, <1>7, HKeeps

\* A handler streams on, to the end, or waits.
LEMMA StreamStep ==
    ASSUME ServerConstants, HInv, NEW r,
           HandlerContinues(r) \/ HandlerEnds(r) \/ HandlerWaits(r)
    PROVE  HInv'
  <1>1. r \in p.app /\ r \in p.streaming /\ UNCHANGED <<wire, inbuf, peer>>
    BY DEF HandlerContinues, HandlerEnds, HandlerWaits
  <1>2. HCore(p)
    BY DEF HInv
  <1>3. PICK t : t = p'
    OBVIOUS
  <1>4. Kept(p, t) \/ Over(p, r, t)
    <2>1. CASE HandlerContinues(r)
      <3>1. \E data \in BOOLEAN : t = StreamData(p, r, data, FALSE)
        BY <1>3, <2>1 DEF HandlerContinues
      <3> QED
        BY <1>1, <1>2, <3>1, HStreamData
    <2>2. CASE HandlerEnds(r)
      <3>1. t = StreamData([p EXCEPT !.app = @ \ {r}], r, FALSE, TRUE)
        BY <1>3, <2>2 DEF HandlerEnds
      <3> QED
        BY <1>1, <1>2, <3>1, HStreamEnds
    <2>3. CASE HandlerWaits(r)
      <3>1. t = [p EXCEPT !.ready = @ \cup {r}] /\ p.out > 0
        BY <1>3, <2>3 DEF HandlerWaits
      <3>2. HCore(t) /\ t.conn = p.conn /\ t.closed = p.closed /\ t.obj = p.obj /\ t.recv = p.recv
        BY <1>1, <1>2, <3>1, HWaits
      <3> QED
        BY <3>2 DEF Kept
    <2> QED
      BY <2>1, <2>2, <2>3
  <1>5. Kept(p, p') \/ Over(p, r, p')
    BY <1>3, <1>4
  <1> QED
    BY <1>1, <1>5, HKeeps, HOvers

\* The client sends.
LEMMA SendStep ==
    ASSUME ServerConstants, ~Pipelining, ~BadUploads, HInv, ClientSends
    PROVE  HInv'
  <1>1. /\ p' = p /\ inbuf' = inbuf /\ wire' \in Seq(Pieces) /\ peer' \in Peer
        /\ HStream(p, inbuf \o wire', peer')
    BY HClientSends DEF HInv
  <1> QED
    BY <1>1 DEF HInv

\* The invariant is kept by every step.
LEMMA HInvNext ==
    ASSUME ServerConstants, ~Pipelining, ~BadUploads
    PROVE  HInv /\ [Next]_vars => HInv'
  <1> SUFFICES ASSUME HInv, [Next]_vars PROVE HInv'
    OBVIOUS
  <1>1. CASE ConnectionRead
    BY <1>1, ReadStep
  <1>2. CASE NotifyConnectionWrite
    BY <1>2, WriteStep
  <1>3. CASE HandleTimeout
    BY <1>3, CloseStep
  <1>4. CASE ConnectionClose
    BY <1>4, CloseStep
  <1>5. CASE RunPosted
    BY <1>5, PostedStep
  <1>6. ASSUME NEW r \in Requests,
               \/ HandlerReplies(r) \/ HandlerBegins(r) \/ HandlerContinues(r)
               \/ HandlerEnds(r) \/ HandlerWaits(r)
        PROVE  HInv'
    BY <1>6, ReplyStep, BeginStep, StreamStep
  <1>7. CASE ClientSends
    BY <1>7, SendStep
  <1>8. CASE UNCHANGED vars
    BY <1>8 DEF HInv, vars
  <1> QED
    BY <1>1, <1>2, <1>3, <1>4, <1>5, <1>6, <1>7, <1>8 DEF Next

\* What it says of the properties.
LEMMA HInvSays ==
    ASSUME ServerConstants, HInv
    PROVE  NothingDangles /\ IdleIsTimed /\ ReadyComes
  <1>1. /\ p \in ServerState /\ HHeld(p) /\ HPosted(p) /\ HGone(p) /\ HTimed(p)
    BY DEF HInv, HCore
  <1>2. NothingDangles
    <2>1. p.failed = "none"
      BY <1>1 DEF HGone
    <2>2. \A r \in (p.active \cup p.app \cup p.ready \cup p.closers
                    \cup {p.recv, p.send}) \ {None} : p.obj[r] = "live"
      BY <1>1 DEF HHeld
    <2>3. p.proto = "freed" => p.active = {} /\ p.app = {}
      BY <1>1 DEF HGone, HHeld
    <2>4. \A i, j \in DOMAIN p.posted : i # j => p.posted[i] # p.posted[j]
      BY <1>1 DEF HPosted, Injective
    <2> QED
      BY <2>1, <2>2, <2>3, <2>4 DEF NothingDangles
  <1>3. IdleIsTimed
    <2> SUFFICES ASSUME p.conn = "open", p.app = {} PROVE p.timeouts # {}
      BY DEF IdleIsTimed
    <2> QED
      BY <1>1 DEF HTimed
  <1>4. ReadyComes
    BY <1>1 DEF ReadyComes, HTimed
  <1> QED
    BY <1>2, <1>3, <1>4

\* The objects of the server, when its client waits for each reply and sends its
\* uploads well-formed: the CHECKs of ServerProtocol hold, whatever the protocol and
\* the handlers point to is live, and what is posted to be deleted is posted once.
THEOREM ServerNothingDangles ==
    ASSUME ~Pipelining, ~BadUploads
    PROVE  Spec => []NothingDangles
  <1>1. ServerConstants
    BY HttpServerAssumption DEF ServerConstants
  <1>2. Init => HInv
    BY <1>1, HInitially
  <1>3. HInv /\ [Next]_vars => HInv'
    BY <1>1, HInvNext
  <1>4. HInv => NothingDangles
    BY <1>1, HInvSays
  <1> HIDE DEF HInv
  <1> QED
    BY <1>2, <1>3, <1>4, PTL DEF Spec

\* Under the same assumptions an open connection that no handler holds is on the timer
\* that HandleTimeout hears.
THEOREM ServerIdleIsTimed ==
    ASSUME ~Pipelining, ~BadUploads
    PROVE  Spec => []IdleIsTimed
  <1>1. ServerConstants
    BY HttpServerAssumption DEF ServerConstants
  <1>2. Init => HInv
    BY <1>1, HInitially
  <1>3. HInv /\ [Next]_vars => HInv'
    BY <1>1, HInvNext
  <1>4. HInv => IdleIsTimed
    BY <1>1, HInvSays
  <1> HIDE DEF HInv
  <1> QED
    BY <1>2, <1>3, <1>4, PTL DEF Spec

\* Under the same assumptions a handler that waits for space in the output is the one
\* that sends, and there is output whose writing tells it.
THEOREM ServerReadyComes ==
    ASSUME ~Pipelining, ~BadUploads
    PROVE  Spec => []ReadyComes
  <1>1. ServerConstants
    BY HttpServerAssumption DEF ServerConstants
  <1>2. Init => HInv
    BY <1>1, HInitially
  <1>3. HInv /\ [Next]_vars => HInv'
    BY <1>1, HInvNext
  <1>4. HInv => ReadyComes
    BY <1>1, HInvSays
  <1> HIDE DEF HInv
  <1> QED
    BY <1>2, <1>3, <1>4, PTL DEF Spec
=============================================================================
