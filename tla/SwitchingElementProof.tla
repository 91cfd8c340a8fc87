------------------------ MODULE SwitchingElementProof ------------------------
(***************************************************************************)
(* Safety of streaming::SwitchingElement for any number of clients and     *)
(* media and any depth of sources.  A turn is a function from states to    *)
(* states, so the inductive invariant is a predicate on a state, and there *)
(* is a lemma for each function that the turns are made of.                *)
(***************************************************************************)
EXTENDS SwitchingElement, FiniteSetTheorems, SequenceTheorems, TLAPS

NoClients(s) == \A c \in Clients : s.clients[c].at = "out"

\* A client that follows the sources "open": told of them when it is running,
\* of none before.
Follows(cl, open) ==
    /\ cl \in Client
    /\ ~cl.bad
    /\ cl.eos = "no" => cl.open = (IF cl.at = "running" THEN <<Own>> \o open ELSE <<>>)

AllFollow(s, open) == \A c \in Clients : Follows(s.clients[c], open)

\* The bootstrapper has what the upstream has open, and every client follows.
Nested(s) ==
    /\ s.tags = s.up
    /\ s.current = None => s.up = <<>>
    /\ AllFollow(s, s.up)

\* The element waits for its alarm, or for its first client, with no request;
\* a registration is put off only while there are no clients.
Registration(s) ==
    /\ s.register # None => s.current = None
    /\ s.reserved # None => s.used /\ NoClients(s) /\ s.current = None /\ s.register = None

\* What the policy switched to is there or on its way (MediaNotLost).
Kept(s) == ~s.used /\ ~s.removed /\ s.want # None => s.want \in {s.current, s.register}

\* The phases of Close(): InternalClose is posted once, ElementClosed is posted
\* when the last client has gone, and it runs on an element without a request
\* unless an alarm came in between.
Closing(s) ==
    /\ s.posted \in {<<>>, <<"InternalClose">>, <<"ElementClosed">>,
                     <<"InternalClose", "ElementClosed">>}
    /\ ~s.removed => s.posted = <<>> /\ ~s.closing
    /\ s.removed /\ ~s.deleted =>
          \/ s.closing /\ s.posted = <<>> /\ s.current = None
          \/ s.closing /\ s.posted = <<"InternalClose">>
          \/ ~s.closing /\ NoClients(s) /\ s.posted = <<"InternalClose", "ElementClosed">>
          \/ /\ ~s.closing /\ NoClients(s) /\ s.posted = <<"ElementClosed">>
             /\ s.current # None => s.late
    /\ s.failed => s.late \/ Debug

\* Core holds in the middle of a turn too, between a registration that is
\* given up and the next one.
Core(s) ==
    /\ s \in Element
    /\ Nested(s)
    /\ Registration(s)
    /\ Closing(s)

Inv(s) == Core(s) /\ Kept(s)

-----------------------------------------------------------------------------
(* What a client is told *)

\* No clients are counted exactly when every request is out.
LEMMA CountZero ==
    ASSUME NEW s
    PROVE  CountClients(s) = 0 <=> NoClients(s)
  <1> DEFINE In == {c \in Clients : s.clients[c].at # "out"}
  <1>1. IsFiniteSet(In)
    BY FS_Subset, SwitchingAssumption
  <1>2. Cardinality(In) = 0 <=> In = {}
    BY <1>1, FS_EmptySet
  <1> QED
    BY <1>2 DEF CountClients, NoClients

\* A suffix that is there can be cut off a sequence.
LEMMA CutSuffix ==
    ASSUME NEW S, NEW s \in Seq(S), NEW t \in Seq(S), NEW st, st = s \o t
    PROVE  /\ st \in Seq(S)
           /\ Len(st) - Len(t) = Len(s) /\ Len(s) >= 0
           /\ SubSeq(st, Len(s) + 1, Len(st)) = t
           /\ SubSeq(st, 1, Len(s)) = s
  <1> DEFINE front == SubSeq(st, 1, Len(s))
             back == SubSeq(st, Len(s) + 1, Len(st))
  <1>1. /\ st \in Seq(S) /\ Len(st) = Len(s) + Len(t)
        /\ \A i \in 1..Len(s) + Len(t) : st[i] = IF i <= Len(s) THEN s[i] ELSE t[i - Len(s)]
    BY ConcatProperties
  <1>2. Len(s) \in Nat /\ Len(t) \in Nat
    BY LenProperties
  <1>3. \A i \in 1..Len(st) : st[i] \in S
    BY <1>1, ElementOfSeq
  <1>4. /\ front \in Seq(S) /\ Len(front) = Len(s)
        /\ \A i \in 1..Len(s) : front[i] = st[i]
    <2>1. \A i \in 1..Len(s) : st[i] \in S
      BY <1>1, <1>2, <1>3
    <2> QED
      BY <2>1, <1>2, SubSeqProperties
  <1>5. /\ back \in Seq(S) /\ Len(back) = Len(t)
        /\ \A i \in 1..Len(t) : back[i] = st[Len(s) + i]
    <2>1. \A i \in Len(s) + 1..Len(st) : st[i] \in S
      BY <1>1, <1>2, <1>3
    <2>2. /\ back \in Seq(S)
          /\ Len(back) = IF Len(s) + 1 <= Len(st) THEN Len(st) - (Len(s) + 1) + 1 ELSE 0
          /\ \A i \in 1..Len(st) - (Len(s) + 1) + 1 : back[i] = st[(Len(s) + 1) + i - 1]
      BY <2>1, <1>1, <1>2, SubSeqProperties
    <2> QED
      BY <2>2, <1>1, <1>2
  <1>6. front = s
    BY <1>1, <1>2, <1>4, SeqEqual
  <1>7. back = t
    <2>1. \A i \in 1..Len(t) : back[i] = t[i]
      BY <1>1, <1>2, <1>5
    <2> HIDE DEF back
    <2> QED
      BY <2>1, <1>5, SeqEqual
  <1> QED
    BY <1>1, <1>2, <1>6, <1>7

\* Sources that are the last ones open end, and the ones before them stay open.
LEMMA EndSuffix ==
    ASSUME NEW cl \in Client, ~cl.bad,
           NEW low \in Seq({Own} \cup Sources), NEW ended \in Seq({Own} \cup Sources),
           cl.eos = "no" => cl.open = low \o ended
    PROVE  LET r == SourcesEnded(cl, ended) IN
           /\ r \in Client /\ ~r.bad /\ r.at = cl.at
           /\ r.eos = "no" => r.open = low
  <1>1. CASE cl.eos # "no"
    BY <1>1 DEF SourcesEnded, Told
  <1>2. CASE cl.eos = "no"
    <2> DEFINE S == {Own} \cup Sources
               open == cl.open
    <2>1. low \in Seq(S) /\ ended \in Seq(S) /\ open = low \o ended
      BY <1>2
    <2>2. /\ Len(open) - Len(ended) = Len(low) /\ Len(low) >= 0
          /\ SubSeq(open, Len(low) + 1, Len(open)) = ended
          /\ SubSeq(open, 1, Len(low)) = low
      <3> HIDE DEF S, open
      <3> QED
        BY <2>1, CutSuffix
    <2>3. SourcesEnded(cl, ended) = [cl EXCEPT !.open = low]
      BY <1>2, <2>2 DEF SourcesEnded, Told
    <2> QED
      BY <1>2, <2>3 DEF Client
  <1> QED
    BY <1>1, <1>2

\* A running client whose every source ends has none open.
LEMMA EndAll ==
    ASSUME NEW cl, NEW open \in Seq(Sources), Follows(cl, open), cl.at = "running"
    PROVE  LET r == SourcesEnded(cl, <<Own>> \o open) IN
           /\ r \in Client /\ ~r.bad /\ r.at = "running"
           /\ r.eos = "no" => r.open = <<>>
  <1> DEFINE S == {Own} \cup Sources
  <1>1. open \in Seq(S) /\ <<Own>> \in Seq(S) /\ <<>> \in Seq(S)
    BY SeqMonotonic
  <1>2. <<Own>> \o open \in Seq(S) /\ <<>> \o (<<Own>> \o open) = <<Own>> \o open
    BY <1>1, ConcatProperties, ConcatEmptySeq
  <1>3. cl \in Client /\ ~cl.bad /\ (cl.eos = "no" => cl.open = <<>> \o (<<Own>> \o open))
    BY <1>2 DEF Follows
  <1> QED
    BY <1>1, <1>2, <1>3, EndSuffix, Zenon

\* A running client for which the upstream's sources end keeps our own.
LEMMA EndUpstream ==
    ASSUME NEW cl, NEW open \in Seq(Sources), Follows(cl, open), cl.at = "running"
    PROVE  LET r == SourcesEnded(cl, open) IN Follows(r, <<>>) /\ r.at = "running"
  <1> DEFINE S == {Own} \cup Sources
  <1>1. open \in Seq(S) /\ <<Own>> \in Seq(S)
    BY SeqMonotonic
  <1>2. <<Own>> \o <<>> = <<Own>>
    BY <1>1, ConcatEmptySeq
  <1> QED
    BY <1>1, <1>2, EndSuffix DEF Follows

\* A client that is bootstrapped is brought to the state of the others.
LEMMA BootstrapOne ==
    ASSUME NEW cl, NEW open \in Seq(Sources), Follows(cl, open), cl.at = "to_bootstrap"
    PROVE  LET r == [SourcesStarted(cl, <<Own>> \o open) EXCEPT !.at = "running"] IN
           Follows(r, open) /\ r.at = "running"
  <1> DEFINE all == <<Own>> \o open
             S == {Own} \cup Sources
  <1>1. open \in Seq(S) /\ <<Own>> \in Seq(S)
    BY SeqMonotonic
  <1>2. all \in Seq(S) /\ <<>> \o all = all
    BY <1>1, ConcatProperties, ConcatEmptySeq
  <1>3. cl \in Client /\ ~cl.bad /\ (cl.eos = "no" => cl.open = <<>>)
    BY DEF Follows
  <1> HIDE DEF all
  <1> QED
    BY <1>2, <1>3 DEF SourcesStarted, Told, Client, Follows, all

\* A source starts inside the ones that are open.
LEMMA StartOne ==
    ASSUME NEW cl, NEW open \in Seq(Sources), NEW source \in Sources,
           Follows(cl, open), cl.at = "running"
    PROVE  LET r == SourcesStarted(cl, <<source>>) IN
           Follows(r, Append(open, source)) /\ r.at = "running"
  <1> DEFINE all == <<Own>> \o open
             S == {Own} \cup Sources
  <1>1. open \in Seq(S) /\ <<Own>> \in Seq(S) /\ <<source>> \in Seq(S)
    BY SeqMonotonic
  <1>2. all \in Seq(S) /\ all \o <<source>> \in Seq(S)
    BY <1>1, ConcatProperties
  <1>3. all \o <<source>> = <<Own>> \o Append(open, source)
    BY <1>1, ConcatAssociative, AppendIsConcat
  <1>4. cl \in Client /\ ~cl.bad /\ (cl.eos = "no" => cl.open = all)
    BY DEF Follows
  <1> HIDE DEF all
  <1> QED
    BY <1>2, <1>3, <1>4 DEF SourcesStarted, Told, Client, Follows

\* The innermost source ends.
LEMMA EndOne ==
    ASSUME NEW cl, NEW open \in Seq(Sources), open # <<>>,
           Follows(cl, open), cl.at = "running"
    PROVE  LET r == SourcesEnded(cl, <<open[Len(open)]>>) IN
           Follows(r, SubSeq(open, 1, Len(open) - 1)) /\ r.at = "running"
  <1> DEFINE S == {Own} \cup Sources
  <1>1. PICK front \in Seq(Sources), last \in Sources : open = Append(front, last)
    BY SequenceEmptyOrAppend
  <1>2. open = front \o <<last>>
    BY <1>1, AppendIsConcat
  <1>3. open[Len(open)] = last /\ SubSeq(open, 1, Len(open) - 1) = front
    <2>1. Len(open) = Len(front) + 1 /\ open[Len(front) + 1] = last
      BY <1>1, AppendProperties
    <2>2. SubSeq(open, 1, Len(front)) = front
      BY <1>2, CutSuffix
    <2> QED
      BY <2>1, <2>2, LenProperties
  <1>4. front \in Seq(S) /\ <<Own>> \in Seq(S) /\ <<last>> \in Seq(S)
    BY SeqMonotonic
  <1>5. <<Own>> \o front \in Seq(S) /\ <<Own>> \o open = (<<Own>> \o front) \o <<last>>
    BY <1>2, <1>4, ConcatProperties, ConcatAssociative
  <1>6. cl \in Client /\ ~cl.bad /\ (cl.eos = "no" => cl.open = (<<Own>> \o front) \o <<last>>)
    BY <1>5 DEF Follows
  <1>7. LET r == SourcesEnded(cl, <<last>>) IN
        r \in Client /\ ~r.bad /\ r.at = "running" /\ (r.eos = "no" => r.open = <<Own>> \o front)
    BY <1>4, <1>5, <1>6, EndSuffix, Zenon
  <1> QED
    BY <1>3, <1>7 DEF Follows

\* Media reaches a running client inside its sources.
LEMMA MediaOne ==
    ASSUME NEW cl, NEW open \in Seq(Sources), Follows(cl, open), cl.at = "running"
    PROVE  Follows(MediaTag(cl), open) /\ MediaTag(cl).at = "running"
  <1> DEFINE all == <<Own>> \o open
             S == {Own} \cup Sources
  <1>1. open \in Seq(S) /\ <<Own>> \in Seq(S) /\ <<Own>> # <<>>
    BY SeqMonotonic
  <1>2. all # <<>>
    BY <1>1, ConcatEqualIffEmpty
  <1>3. cl \in Client /\ ~cl.bad /\ (cl.eos = "no" => cl.open = all)
    BY DEF Follows
  <1> HIDE DEF all
  <1> QED
    BY <1>2, <1>3 DEF MediaTag, Told, Client, Follows, all

\* An EOS to a client with no source open is in order.
LEMMA EosOne ==
    ASSUME NEW cl \in Client, ~cl.bad, cl.eos = "no" => cl.open = <<>>, NEW forced \in BOOLEAN
    PROVE  LET r == Eos(cl, forced) IN r \in Client /\ ~r.bad /\ r.eos # "no" /\ r.at = cl.at
  BY DEF Eos, Client

-----------------------------------------------------------------------------
(* What the distributor does to a state *)

\* r is s after the clients were told of something: none has come or gone, the
\* bootstrapper has the sources "open" and the clients follow them.
Retold(s, r, open) ==
    /\ r = [s EXCEPT !.clients = r.clients, !.tags = open]
    /\ r.clients \in [Clients -> Client]
    /\ \A c \in Clients : /\ Follows(r.clients[c], open)
                          /\ r.clients[c].at = "out" <=> s.clients[c].at = "out"

\* What the distributor leaves alone.
LEMMA RetoldFrame ==
    ASSUME NEW s \in Element, NEW r, NEW open \in Seq(Sources), Retold(s, r, open)
    PROVE  /\ r \in Element
           /\ r.current = s.current /\ r.reserved = s.reserved /\ r.register = s.register
           /\ r.ended = s.ended /\ r.closing = s.closing /\ r.posted = s.posted
           /\ r.next = s.next /\ r.default = s.default /\ r.up = s.up /\ r.upEos = s.upEos
           /\ r.used = s.used /\ r.removed = s.removed /\ r.deleted = s.deleted
           /\ r.failed = s.failed /\ r.late = s.late /\ r.want = s.want
           /\ r.tags = open /\ AllFollow(r, open)
           /\ NoClients(r) <=> NoClients(s)
  BY ZenonT(60) DEF Retold, Element, AllFollow, NoClients

\* TagDistributor::Switch.
LEMMA SwitchRetells ==
    ASSUME NEW s \in Element, AllFollow(s, s.tags)
    PROVE  Retold(s, Switch(s), <<>>)
  <1> DEFINE cls == [c \in Clients |-> IF s.clients[c].at = "running"
                                       THEN SourcesEnded(s.clients[c], s.tags) ELSE s.clients[c]]
  <1>1. Switch(s) = [s EXCEPT !.clients = cls, !.tags = <<>>]
    BY DEF Switch, ClearBootstrap, EachRunning, Element
  <1>2. ASSUME NEW c \in Clients
        PROVE  Follows(cls[c], <<>>) /\ (cls[c].at = "out" <=> s.clients[c].at = "out")
    <2>1. Follows(s.clients[c], s.tags) /\ s.tags \in Seq(Sources)
      BY DEF AllFollow, Element
    <2>2. CASE s.clients[c].at = "running"
      BY <2>1, <2>2, EndUpstream
    <2>3. CASE s.clients[c].at # "running"
      BY <2>1, <2>3 DEF Follows
    <2> QED
      BY <2>2, <2>3
  <1>3. cls \in [Clients -> Client]
    BY <1>2 DEF Follows
  <1> HIDE DEF cls
  <1>4. Switch(s).clients = cls
    BY <1>1 DEF Element
  <1> QED
    BY <1>1, <1>2, <1>3, <1>4 DEF Retold

\* TagDistributor::Reset.
LEMMA ResetRetells ==
    ASSUME NEW s \in Element, AllFollow(s, s.tags)
    PROVE  Retold(s, Reset(s), <<>>)
  <1> DEFINE cls == [c \in Clients |->
                        IF s.clients[c].at = "running"
                        THEN [SourcesEnded(s.clients[c], <<Own>> \o s.tags) EXCEPT !.at = "to_bootstrap"]
                        ELSE s.clients[c]]
  <1>1. Reset(s) = [s EXCEPT !.clients = cls, !.tags = <<>>]
    BY DEF Reset, ClearBootstrap, EachRunning, Element
  <1>2. ASSUME NEW c \in Clients
        PROVE  Follows(cls[c], <<>>) /\ (cls[c].at = "out" <=> s.clients[c].at = "out")
    <2>1. Follows(s.clients[c], s.tags) /\ s.tags \in Seq(Sources)
      BY DEF AllFollow, Element
    <2>2. CASE s.clients[c].at = "running"
      <3> DEFINE r == SourcesEnded(s.clients[c], <<Own>> \o s.tags)
      <3>1. r \in Client /\ ~r.bad /\ (r.eos = "no" => r.open = <<>>)
        BY <2>1, <2>2, EndAll
      <3>2. cls[c] = [r EXCEPT !.at = "to_bootstrap"]
        BY <2>2
      <3> HIDE DEF r, cls
      <3> QED
        BY <2>2, <3>1, <3>2 DEF Follows, Client
    <2>3. CASE s.clients[c].at # "running"
      BY <2>1, <2>3 DEF Follows
    <2> QED
      BY <2>2, <2>3
  <1>3. cls \in [Clients -> Client]
    BY <1>2 DEF Follows
  <1> HIDE DEF cls
  <1>4. Reset(s).clients = cls
    BY <1>1 DEF Element
  <1> QED
    BY <1>1, <1>2, <1>3, <1>4 DEF Retold

\* TagDistributor::CloseAllCallbacks.
LEMMA CloseAllCallbacksRetells ==
    ASSUME NEW s \in Element, AllFollow(s, s.tags), NEW forced \in BOOLEAN
    PROVE  Retold(CheckNotDone(s), CloseAllCallbacks(s, forced), s.tags)
  <1> DEFINE cls == [c \in Clients |->
        CASE s.clients[c].at = "running" -> Eos(SourcesEnded(s.clients[c], <<Own>> \o s.tags), forced)
          [] s.clients[c].at = "to_bootstrap" -> Eos(s.clients[c], forced)
          [] OTHER -> s.clients[c]]
  <1> DEFINE m == CheckNotDone(s)
  <1>5. m \in Element /\ m.clients = s.clients /\ m.tags = s.tags
    BY SwitchingAssumption DEF CheckNotDone, Element
  <1>6. CloseAllCallbacks(s, forced) = [m EXCEPT !.clients = cls]
    BY <1>5 DEF CloseAllCallbacks
  <1> HIDE DEF m
  <1>1. CloseAllCallbacks(s, forced) = [m EXCEPT !.clients = cls, !.tags = s.tags]
    <2> HIDE DEF cls
    <2> QED
      BY <1>5, <1>6 DEF Element
  <1>2. ASSUME NEW c \in Clients
        PROVE  Follows(cls[c], s.tags) /\ (cls[c].at = "out" <=> s.clients[c].at = "out")
    <2>1. Follows(s.clients[c], s.tags) /\ s.tags \in Seq(Sources)
      BY DEF AllFollow, Element
    <2>2. CASE s.clients[c].at = "running"
      <3> DEFINE r == SourcesEnded(s.clients[c], <<Own>> \o s.tags)
      <3>1. r \in Client /\ ~r.bad /\ r.at = "running" /\ (r.eos = "no" => r.open = <<>>)
        BY <2>1, <2>2, EndAll
      <3>2. cls[c] = Eos(r, forced)
        BY <2>2
      <3> HIDE DEF r, cls
      <3> QED
        BY <2>2, <3>1, <3>2, EosOne DEF Follows
    <2>3. CASE s.clients[c].at = "to_bootstrap"
      <3>1. cls[c] = Eos(s.clients[c], forced)
        BY <2>3
      <3> QED
        BY <2>1, <2>3, <3>1, EosOne DEF Follows
    <2>4. CASE s.clients[c].at = "out"
      BY <2>1, <2>4 DEF Follows
    <2> QED
      BY <2>1, <2>2, <2>3, <2>4 DEF Follows, Client
  <1>3. cls \in [Clients -> Client]
    BY <1>2 DEF Follows
  <1> HIDE DEF cls
  <1>4. CloseAllCallbacks(s, forced).clients = cls
    BY <1>1, <1>5 DEF Element
  <1> QED
    BY <1>1, <1>2, <1>3, <1>4, <1>5 DEF Retold, m

\* Bootstrapper::PlayAtBegin for the clients that wait for it.
LEMMA BootstrapRetells ==
    ASSUME NEW s \in Element, AllFollow(s, s.tags)
    PROVE  Retold(s, Bootstrap(s), s.tags)
  <1> DEFINE cls == [c \in Clients |->
                        IF s.clients[c].at = "to_bootstrap"
                        THEN [SourcesStarted(s.clients[c], <<Own>> \o s.tags) EXCEPT !.at = "running"]
                        ELSE s.clients[c]]
  <1>1. Bootstrap(s) = [s EXCEPT !.clients = cls, !.tags = s.tags]
    BY DEF Bootstrap, Element
  <1>2. ASSUME NEW c \in Clients
        PROVE  Follows(cls[c], s.tags) /\ (cls[c].at = "out" <=> s.clients[c].at = "out")
    <2>1. Follows(s.clients[c], s.tags) /\ s.tags \in Seq(Sources)
      BY DEF AllFollow, Element
    <2>2. CASE s.clients[c].at = "to_bootstrap"
      BY <2>1, <2>2, BootstrapOne
    <2>3. CASE s.clients[c].at # "to_bootstrap"
      BY <2>1, <2>3 DEF Follows
    <2> QED
      BY <2>2, <2>3
  <1>3. cls \in [Clients -> Client]
    BY <1>2 DEF Follows
  <1> HIDE DEF cls
  <1>4. Bootstrap(s).clients = cls
    BY <1>1 DEF Element
  <1> QED
    BY <1>1, <1>2, <1>3, <1>4 DEF Retold

\* A source of the upstream starts for everybody.
LEMMA DistributeStartedRetells ==
    ASSUME NEW s \in Element, AllFollow(s, s.tags), NEW source \in Sources
    PROVE  Retold(s, DistributeStarted(s, source), Append(s.tags, source))
  <1> DEFINE b == Bootstrap(s)
             cls == [c \in Clients |-> IF b.clients[c].at = "running"
                                       THEN SourcesStarted(b.clients[c], <<source>>) ELSE b.clients[c]]
  <1>1. /\ b \in Element /\ b.tags = s.tags /\ b.clients \in [Clients -> Client]
        /\ b = [s EXCEPT !.clients = b.clients, !.tags = s.tags]
        /\ \A c \in Clients : /\ Follows(b.clients[c], s.tags)
                              /\ b.clients[c].at = "out" <=> s.clients[c].at = "out"
    <2>1. s.tags \in Seq(Sources)
      BY DEF Element
    <2>2. Retold(s, b, s.tags)
      BY BootstrapRetells
    <2>3. b \in Element /\ b.tags = s.tags
      BY <2>1, <2>2, RetoldFrame
    <2> QED
      BY <2>2, <2>3 DEF Retold
  <1>2. \A c \in Clients : b.clients[c].at # "to_bootstrap"
    BY DEF Bootstrap, Element, Client, SourcesStarted, Told
  <1> HIDE DEF b
  <1>3. DistributeStarted(s, source) = [s EXCEPT !.clients = cls, !.tags = Append(s.tags, source)]
    <2>1. DistributeStarted(s, source) = [b EXCEPT !.clients = cls, !.tags = Append(s.tags, source)]
      BY <1>1 DEF DistributeStarted, EachRunning, Element, b
    <2> HIDE DEF cls
    <2> QED
      BY <1>1, <2>1 DEF Element
  <1>4. ASSUME NEW c \in Clients
        PROVE  Follows(cls[c], Append(s.tags, source)) /\ (cls[c].at = "out" <=> s.clients[c].at = "out")
    <2>1. Follows(b.clients[c], s.tags) /\ s.tags \in Seq(Sources)
      BY <1>1 DEF Element
    <2>2. CASE b.clients[c].at = "running"
      <3>1. cls[c] = SourcesStarted(b.clients[c], <<source>>)
        BY <2>2
      <3>2. Follows(cls[c], Append(s.tags, source)) /\ cls[c].at = "running"
        <4> HIDE DEF cls
        <4> QED
          BY <2>1, <2>2, <3>1, StartOne
      <3> QED
        BY <1>1, <2>2, <3>2
    <2>3. CASE b.clients[c].at = "out"
      BY <1>1, <2>1, <2>3 DEF Follows
    <2> QED
      BY <1>1, <1>2, <2>2, <2>3 DEF Client
  <1>5. cls \in [Clients -> Client]
    BY <1>4 DEF Follows
  <1> HIDE DEF cls
  <1>6. DistributeStarted(s, source).clients = cls
    BY <1>3 DEF Element
  <1> QED
    BY <1>3, <1>4, <1>5, <1>6 DEF Retold

\* The innermost source of the upstream ends for everybody.
LEMMA DistributeEndedRetells ==
    ASSUME NEW s \in Element, AllFollow(s, s.tags), s.tags # <<>>,
           NEW source, source = s.tags[Len(s.tags)]
    PROVE  Retold(s, DistributeEnded(s, source), SubSeq(s.tags, 1, Len(s.tags) - 1))
  <1> DEFINE b == Bootstrap(s)
             cls == [c \in Clients |-> IF b.clients[c].at = "running"
                                       THEN SourcesEnded(b.clients[c], <<source>>) ELSE b.clients[c]]
  <1>1. /\ b \in Element /\ b.tags = s.tags /\ b.clients \in [Clients -> Client]
        /\ b = [s EXCEPT !.clients = b.clients, !.tags = s.tags]
        /\ \A c \in Clients : /\ Follows(b.clients[c], s.tags)
                              /\ b.clients[c].at = "out" <=> s.clients[c].at = "out"
    <2>1. s.tags \in Seq(Sources)
      BY DEF Element
    <2>2. Retold(s, b, s.tags)
      BY BootstrapRetells
    <2>3. b \in Element /\ b.tags = s.tags
      BY <2>1, <2>2, RetoldFrame
    <2> QED
      BY <2>2, <2>3 DEF Retold
  <1>2. \A c \in Clients : b.clients[c].at # "to_bootstrap"
    BY DEF Bootstrap, Element, Client, SourcesStarted, Told
  <1> HIDE DEF b
  <1>3. DistributeEnded(s, source) = [s EXCEPT !.clients = cls, !.tags = SubSeq(s.tags, 1, Len(s.tags) - 1)]
    <2>1. DistributeEnded(s, source) = [b EXCEPT !.clients = cls, !.tags = SubSeq(s.tags, 1, Len(s.tags) - 1)]
      BY <1>1 DEF DistributeEnded, EachRunning, Element, b
    <2> HIDE DEF cls
    <2> QED
      BY <1>1, <2>1 DEF Element
  <1>4. ASSUME NEW c \in Clients
        PROVE  Follows(cls[c], SubSeq(s.tags, 1, Len(s.tags) - 1)) /\ (cls[c].at = "out" <=> s.clients[c].at = "out")
    <2>1. Follows(b.clients[c], s.tags) /\ s.tags \in Seq(Sources)
      BY <1>1 DEF Element
    <2>2. CASE b.clients[c].at = "running"
      <3>1. cls[c] = SourcesEnded(b.clients[c], <<source>>)
        BY <2>2
      <3>2. Follows(cls[c], SubSeq(s.tags, 1, Len(s.tags) - 1)) /\ cls[c].at = "running"
        <4> HIDE DEF cls
        <4> QED
          BY <2>1, <2>2, <3>1, EndOne
      <3> QED
        BY <1>1, <2>2, <3>2
    <2>3. CASE b.clients[c].at = "out"
      BY <1>1, <2>1, <2>3 DEF Follows
    <2> QED
      BY <1>1, <1>2, <2>2, <2>3 DEF Client
  <1>5. cls \in [Clients -> Client]
    BY <1>4 DEF Follows
  <1> HIDE DEF cls
  <1>6. DistributeEnded(s, source).clients = cls
    BY <1>3 DEF Element
  <1> QED
    BY <1>3, <1>4, <1>5, <1>6 DEF Retold

\* Media reaches the clients that run.
LEMMA DistributeMediaRetells ==
    ASSUME NEW s \in Element, AllFollow(s, s.tags)
    PROVE  Retold(s, DistributeMedia(s), s.tags)
  <1> DEFINE b == Bootstrap(s)
             cls == [c \in Clients |-> IF b.clients[c].at = "running"
                                       THEN MediaTag(b.clients[c]) ELSE b.clients[c]]
  <1>1. /\ b \in Element /\ b.tags = s.tags /\ b.clients \in [Clients -> Client]
        /\ b = [s EXCEPT !.clients = b.clients, !.tags = s.tags]
        /\ \A c \in Clients : /\ Follows(b.clients[c], s.tags)
                              /\ b.clients[c].at = "out" <=> s.clients[c].at = "out"
    <2>1. s.tags \in Seq(Sources)
      BY DEF Element
    <2>2. Retold(s, b, s.tags)
      BY BootstrapRetells
    <2>3. b \in Element /\ b.tags = s.tags
      BY <2>1, <2>2, RetoldFrame
    <2> QED
      BY <2>2, <2>3 DEF Retold
  <1>2. \A c \in Clients : b.clients[c].at # "to_bootstrap"
    BY DEF Bootstrap, Element, Client, SourcesStarted, Told
  <1> HIDE DEF b
  <1>3. DistributeMedia(s) = [s EXCEPT !.clients = cls, !.tags = s.tags]
    <2>1. DistributeMedia(s) = [b EXCEPT !.clients = cls, !.tags = s.tags]
      BY <1>1 DEF DistributeMedia, EachRunning, Element, b
    <2> HIDE DEF cls
    <2> QED
      BY <1>1, <2>1 DEF Element
  <1>4. ASSUME NEW c \in Clients
        PROVE  Follows(cls[c], s.tags) /\ (cls[c].at = "out" <=> s.clients[c].at = "out")
    <2>1. Follows(b.clients[c], s.tags) /\ s.tags \in Seq(Sources)
      BY <1>1 DEF Element
    <2>2. CASE b.clients[c].at = "running"
      <3>1. cls[c] = MediaTag(b.clients[c])
        BY <2>2
      <3>2. Follows(cls[c], s.tags) /\ cls[c].at = "running"
        <4> HIDE DEF cls
        <4> QED
          BY <2>1, <2>2, <3>1, MediaOne
      <3> QED
        BY <1>1, <2>2, <3>2
    <2>3. CASE b.clients[c].at = "out"
      BY <1>1, <2>1, <2>3 DEF Follows
    <2> QED
      BY <1>1, <1>2, <2>2, <2>3 DEF Client
  <1>5. cls \in [Clients -> Client]
    BY <1>4 DEF Follows
  <1> HIDE DEF cls
  <1>6. DistributeMedia(s).clients = cls
    BY <1>3 DEF Element
  <1> QED
    BY <1>3, <1>4, <1>5, <1>6 DEF Retold

\* SwitchingElement::Unregister: the alarm is stopped, the request and the
\* sources are gone, the clients have seen them end.
LEMMA UnregisterEffect ==
    ASSUME NEW s \in Element, Nested(s), NEW sendSourceEnded \in BOOLEAN
    PROVE  LET u == Unregister(s, sendSourceEnded) IN
           /\ u \in Element /\ Nested(u)
           /\ u.register = None /\ u.current = None
           /\ u.reserved = s.reserved /\ u.ended = s.ended /\ u.closing = s.closing
           /\ u.posted = s.posted /\ u.next = s.next /\ u.default = s.default
           /\ u.used = s.used /\ u.removed = s.removed /\ u.deleted = s.deleted
           /\ u.failed = s.failed /\ u.late = s.late /\ u.want = s.want
           /\ NoClients(u) <=> NoClients(s)
  <1> DEFINE stopped == [s EXCEPT !.register = None]
             left == [stopped EXCEPT !.current = None, !.up = <<>>, !.upEos = FALSE]
             u == Unregister(s, sendSourceEnded)
  <1>1. CASE s.current = None
    <2>1. u = stopped
      BY <1>1 DEF Unregister
    <2> HIDE DEF u
    <2>2. u \in Element /\ \A f \in DOMAIN s : f # "register" => u[f] = s[f]
      BY <2>1 DEF Element
    <2>3. /\ u.register = None /\ u.current = s.current /\ u.clients = s.clients
          /\ u.tags = s.tags /\ u.up = s.up
          /\ u.reserved = s.reserved /\ u.ended = s.ended /\ u.closing = s.closing
          /\ u.posted = s.posted /\ u.next = s.next /\ u.default = s.default
          /\ u.used = s.used /\ u.removed = s.removed /\ u.deleted = s.deleted
          /\ u.failed = s.failed /\ u.late = s.late /\ u.want = s.want
      BY <2>1, <2>2 DEF Element
    <2> QED
      BY <1>1, <2>2, <2>3 DEF Nested, AllFollow, NoClients, u
  <1>2. CASE s.current # None
    <2>1. /\ left \in Element /\ left.tags = s.up /\ left.clients = s.clients
          /\ left.register = None /\ left.current = None /\ left.up = <<>>
          /\ left.reserved = s.reserved /\ left.ended = s.ended /\ left.closing = s.closing
          /\ left.posted = s.posted /\ left.next = s.next /\ left.default = s.default
          /\ left.used = s.used /\ left.removed = s.removed /\ left.deleted = s.deleted
          /\ left.failed = s.failed /\ left.late = s.late /\ left.want = s.want
      <3> DEFINE nothing == <<>>
      <3>1. /\ left = [s EXCEPT !.register = None, !.current = None, !.up = nothing, !.upEos = FALSE]
            /\ nothing \in Seq(Sources)
        BY DEF Element
      <3> HIDE DEF left, nothing
      <3>2. left \in Element
        BY <3>1 DEF Element
      <3>3. s.tags = s.up
        BY DEF Nested
      <3> QED
        BY <3>1, <3>2, <3>3 DEF Element, nothing
    <2>2. AllFollow(left, left.tags) /\ (NoClients(left) <=> NoClients(s))
      <3> HIDE DEF left
      <3> QED
        BY <2>1 DEF Nested, AllFollow, NoClients
    <2>3. u = Reset(left) \/ u = Switch(left)
      BY <1>2 DEF Unregister
    <2> HIDE DEF left, u
    <2>4. Retold(left, u, <<>>)
      BY <2>1, <2>3, <2>2, ResetRetells, SwitchRetells
    <2> DEFINE nothing == <<>>
    <2>5. nothing \in Seq(Sources) /\ Retold(left, u, nothing)
      BY <2>4
    <2> HIDE DEF nothing
    <2>6. /\ u \in Element
          /\ u.current = left.current /\ u.reserved = left.reserved /\ u.register = left.register
          /\ u.ended = left.ended /\ u.closing = left.closing /\ u.posted = left.posted
          /\ u.next = left.next /\ u.default = left.default /\ u.up = left.up
          /\ u.used = left.used /\ u.removed = left.removed /\ u.deleted = left.deleted
          /\ u.failed = left.failed /\ u.late = left.late /\ u.want = left.want
          /\ u.tags = nothing /\ AllFollow(u, nothing)
          /\ NoClients(u) <=> NoClients(left)
      BY <2>1, <2>5, RetoldFrame
    <2>7. Nested(u)
      BY <2>1, <2>6 DEF Nested, nothing
    <2> QED
      BY <2>1, <2>2, <2>6, <2>7 DEF u
  <1> QED
    BY <1>1, <1>2

\* SwitchCurrentMedia, and PlayMedia of a name: the media is on its way.
LEMMA SwitchCurrentMediaInv ==
    ASSUME NEW s, Core(s), NEW media \in Media
    PROVE  Inv(SwitchCurrentMedia(s, media))
  <1> DEFINE v == Unregister(s, FALSE)
             r == SwitchCurrentMedia(s, media)
  <1>1. /\ v \in Element /\ Nested(v)
        /\ v.register = None /\ v.current = None
        /\ v.reserved = s.reserved /\ v.closing = s.closing
        /\ v.posted = s.posted /\ v.used = s.used /\ v.removed = s.removed
        /\ v.deleted = s.deleted /\ v.failed = s.failed /\ v.late = s.late
        /\ NoClients(v) <=> NoClients(s)
    BY UnregisterEffect DEF Core
  <1>2. r = IF s.used /\ NoClients(s) THEN [v EXCEPT !.want = media, !.reserved = media]
                                      ELSE [v EXCEPT !.want = media, !.register = media]
    BY CountZero DEF SwitchCurrentMedia
  <1> HIDE DEF v, r
  <1>3. r \in Element /\ Nested(r)
    BY <1>1, <1>2, ZenonT(60) DEF Element, Nested, AllFollow
  <1>4. Registration(r)
    <2>1. NoClients(r) <=> NoClients(s)
      BY <1>1, <1>2 DEF NoClients, Element
    <2> QED
      BY <1>1, <1>2, <2>1 DEF Core, Registration, Element
  <1>5. Closing(r)
    <2>1. NoClients(r) <=> NoClients(s)
      BY <1>1, <1>2 DEF NoClients, Element
    <2> QED
      BY <1>1, <1>2, <2>1 DEF Core, Closing, Element
  <1>6. Kept(r)
    BY <1>1, <1>2 DEF Kept, Element
  <1> QED
    BY <1>3, <1>4, <1>5, <1>6 DEF Core, Inv, r

\* An element that has given up its registration.
LEMMA UnregisterCore ==
    ASSUME NEW s, Core(s), NEW sendSourceEnded \in BOOLEAN
    PROVE  Core(Unregister(s, sendSourceEnded))
  <1> DEFINE u == Unregister(s, sendSourceEnded)
  <1>1. /\ u \in Element /\ Nested(u)
        /\ u.register = None /\ u.current = None
        /\ u.reserved = s.reserved /\ u.closing = s.closing
        /\ u.posted = s.posted /\ u.used = s.used /\ u.removed = s.removed
        /\ u.deleted = s.deleted /\ u.failed = s.failed /\ u.late = s.late
        /\ NoClients(u) <=> NoClients(s)
    BY UnregisterEffect DEF Core
  <1> HIDE DEF u
  <1>2. Registration(u) /\ Closing(u)
    BY <1>1 DEF Core, Registration, Closing
  <1> QED
    BY <1>1, <1>2 DEF Core, u

\* Closing the clients of an element that stays: they get an EOS, nothing else.
LEMMA CloseAllCallbacksCore ==
    ASSUME NEW s, Core(s), NEW forced \in BOOLEAN
    PROVE  LET r == CloseAllCallbacks(s, forced) IN
           /\ Core(r) /\ r.want = s.want /\ r.current = s.current /\ r.register = s.register
           /\ r.used = s.used /\ r.removed = s.removed
  <1> DEFINE r == CloseAllCallbacks(s, forced)
             m == CheckNotDone(s)
             open == s.tags
  <1>1. s \in Element /\ s.tags = s.up /\ AllFollow(s, s.tags) /\ open \in Seq(Sources)
    BY DEF Core, Nested, Element
  <1>2. Retold(m, r, open)
    BY <1>1, CloseAllCallbacksRetells
  <1> HIDE DEF r
  <1>6. /\ m \in Element /\ m.clients = s.clients
        /\ m.current = s.current /\ m.reserved = s.reserved /\ m.register = s.register
        /\ m.closing = s.closing /\ m.posted = s.posted /\ m.up = s.up
        /\ m.used = s.used /\ m.removed = s.removed /\ m.deleted = s.deleted
        /\ m.failed \in {s.failed, Debug} /\ m.late = s.late /\ m.want = s.want
    <2> DEFINE again == \E c \in Clients : s.clients[c].at # "out" /\ s.clients[c].eos # "no"
               failed == s.failed \/ (Debug /\ again)
    <2>1. m = [s EXCEPT !.failed = failed]
      BY DEF CheckNotDone
    <2>2. failed \in {s.failed, Debug} /\ s.failed \in BOOLEAN /\ Debug \in BOOLEAN
      BY <1>1, SwitchingAssumption, Zenon DEF Element
    <2> HIDE DEF failed, m
    <2>3. failed \in BOOLEAN
      BY <2>2
    <2> QED
      BY <1>1, <2>1, <2>2, <2>3 DEF Element
  <1> HIDE DEF m
  <1>3. /\ r \in Element
        /\ r.current = m.current /\ r.reserved = m.reserved /\ r.register = m.register
        /\ r.closing = m.closing /\ r.posted = m.posted /\ r.up = m.up
        /\ r.used = m.used /\ r.removed = m.removed /\ r.deleted = m.deleted
        /\ r.failed = m.failed /\ r.late = m.late /\ r.want = m.want
        /\ r.tags = open /\ AllFollow(r, open)
        /\ NoClients(r) <=> NoClients(s)
    <2>1. NoClients(m) <=> NoClients(s)
      BY <1>6 DEF NoClients
    <2> QED
      BY <1>1, <1>2, <1>6, <2>1, RetoldFrame
  <1>4. Nested(r)
    BY <1>1, <1>3, <1>6 DEF Core, Nested
  <1>5. Registration(r) /\ Closing(r)
    BY <1>3, <1>6 DEF Core, Registration, Closing
  <1> QED
    BY <1>3, <1>4, <1>5, <1>6 DEF Core, r

\* Posting to a queue of no or one closure.
LEMMA AppendToShort ==
    ASSUME NEW a, NEW b
    PROVE  Append(<<>>, b) = <<b>> /\ Append(<<a>>, b) = <<a, b>>
  <1> DEFINE S == {a, b}
             p == Append(<<>>, b)
             q == <<b>>
             v == Append(<<a>>, b)
             w == <<a, b>>
  <1>1. p \in Seq(S) /\ Len(p) = 1 /\ p[1] = b /\ q \in Seq(S) /\ Len(q) = 1 /\ q[1] = b
    OBVIOUS
  <1>2. v \in Seq(S) /\ Len(v) = 2 /\ v[1] = a /\ v[2] = b
    OBVIOUS
  <1>3. w \in Seq(S) /\ Len(w) = 2 /\ w[1] = a /\ w[2] = b
    OBVIOUS
  <1> HIDE DEF p, q, v, w
  <1>4. p = q /\ v = w
    BY <1>1, <1>2, <1>3, SeqEqual
  <1> QED
    BY <1>4 DEF p, q, v, w

\* CloseCompleted: the last client of an element being closed has gone.
LEMMA CloseCompletedCore ==
    ASSUME NEW s, Core(s), ~s.deleted
    PROVE  LET r == CloseCompleted(s) IN
           /\ Core(r) /\ r.want = s.want /\ r.current = s.current /\ r.register = s.register
           /\ r.used = s.used /\ r.removed = s.removed
  <1> DEFINE r == CloseCompleted(s)
  <1>1. CASE ~(NoClients(s) /\ s.closing)
    BY <1>1, CountZero DEF CloseCompleted
  <1>2. CASE NoClients(s) /\ s.closing
    <2> DEFINE posted == Append(s.posted, "ElementClosed")
    <2>1. r = [s EXCEPT !.posted = posted, !.closing = FALSE]
      BY <1>2, CountZero DEF CloseCompleted, Post, Core, Element
    <2>2. /\ s.posted = <<>> => posted = <<"ElementClosed">>
          /\ s.posted = <<"InternalClose">> => posted = <<"InternalClose", "ElementClosed">>
      BY AppendToShort, Zenon
    <2>3. posted \in Seq({"InternalClose", "ElementClosed"})
      BY DEF Core, Element
    <2> HIDE DEF r, posted
    <2>4. /\ r \in Element /\ r.posted = posted /\ ~r.closing /\ r.clients = s.clients
          /\ r.current = s.current /\ r.reserved = s.reserved /\ r.register = s.register
          /\ r.up = s.up /\ r.tags = s.tags
          /\ r.used = s.used /\ r.removed = s.removed /\ r.deleted = s.deleted
          /\ r.failed = s.failed /\ r.late = s.late /\ r.want = s.want
      BY <2>1, <2>3 DEF Core, Element
    <2>5. Nested(r) /\ NoClients(r) /\ Registration(r)
      BY <1>2, <2>4 DEF Core, Nested, AllFollow, NoClients, Registration
    <2>6. Closing(r)
      BY <1>2, <2>2, <2>4, <2>5 DEF Core, Closing
    <2> QED
      BY <2>4, <2>5, <2>6 DEF Core, r
  <1> QED
    BY <1>1, <1>2

\* OnCommandPolicy::NotifyEos.
LEMMA NotifyEosInv ==
    ASSUME NEW s, Core(s), ~s.deleted
    PROVE  Inv(NotifyEos(s))
  <1> DEFINE n == [s EXCEPT !.next = None]
             w == [n EXCEPT !.want = None]
  <1>1. Core(n) /\ n.next = None /\ ~n.deleted
    BY DEF Core, Element, Nested, AllFollow, Registration, NoClients, Closing
  <1>2. Core(w) /\ w.want = None /\ ~w.deleted
    <2> HIDE DEF n
    <2> QED
      BY <1>1, ZenonT(60) DEF Core, Element, Nested, AllFollow, Registration, NoClients, Closing
  <1>3. CASE s.next = None /\ s.default = None
    <2>1. NotifyEos(s) = CloseAllClients(w, FALSE)
      BY <1>3 DEF NotifyEos
    <2> HIDE DEF w
    <2>2. NotifyEos(s) = CloseAllCallbacks(w, FALSE) \/ NotifyEos(s) = CloseCompleted(w)
      BY <2>1 DEF CloseAllClients
    <2>3. CASE NotifyEos(s) = CloseAllCallbacks(w, FALSE)
      BY <1>2, <2>3, CloseAllCallbacksCore DEF Inv, Kept
    <2>4. CASE NotifyEos(s) = CloseCompleted(w)
      BY <1>2, <2>4, CloseCompletedCore DEF Inv, Kept
    <2> QED
      BY <2>2, <2>3, <2>4
  <1>4. CASE ~(s.next = None /\ s.default = None)
    <2>1. PICK media \in Media : NotifyEos(s) = SwitchCurrentMedia(n, media)
      <3>1. s.next \in Media \cup {None} /\ s.default \in Media \cup {None}
        BY DEF Core, Element
      <3> QED
        BY <1>4, <3>1 DEF NotifyEos, PlayMedia
    <2> HIDE DEF n
    <2> QED
      BY <1>1, <2>1, SwitchCurrentMediaInv
  <1> QED
    BY <1>3, <1>4

-----------------------------------------------------------------------------
(* Turns *)

\* OnCommandPolicy::Initialize of an element without clients.
LEMMA InitInv == Init => Inv(e)
  <1> SUFFICES ASSUME Init PROVE Inv(e)
    OBVIOUS
  <1>1. PICK default, next, crt \in Media \cup {None}, used \in BOOLEAN :
          LET first == IF crt # None THEN crt ELSE IF next # None THEN next ELSE default
          IN /\ first # None
             /\ e = PlayMedia([current |-> None, reserved |-> None, register |-> None,
                               ended |-> FALSE, tags |-> <<>>, closing |-> FALSE,
                               posted |-> <<>>, clients |-> [c \in Clients |-> Out],
                               next |-> next, default |-> default, up |-> <<>>, upEos |-> FALSE,
                               used |-> used, removed |-> FALSE, deleted |-> FALSE,
                               failed |-> FALSE, late |-> FALSE, want |-> None], first)
    BY DEF Init
  <1> DEFINE first == IF crt # None THEN crt ELSE IF next # None THEN next ELSE default
             s == [current |-> None, reserved |-> None, register |-> None,
                   ended |-> FALSE, tags |-> <<>>, closing |-> FALSE,
                   posted |-> <<>>, clients |-> [c \in Clients |-> Out],
                   next |-> next, default |-> default, up |-> <<>>, upEos |-> FALSE,
                   used |-> used, removed |-> FALSE, deleted |-> FALSE,
                   failed |-> FALSE, late |-> FALSE, want |-> None]
  <1>2. first \in Media /\ e = SwitchCurrentMedia(s, first)
    BY <1>1 DEF PlayMedia
  <1>3. Out \in Client /\ Follows(Out, <<>>) /\ Out.at = "out"
    BY DEF Out, Client, Follows
  <1>4. s \in Element
    BY <1>3 DEF Element
  <1>5. NoClients(s) /\ Nested(s) /\ Registration(s) /\ Closing(s)
    BY <1>3 DEF NoClients, Nested, AllFollow, Registration, Closing
  <1> HIDE DEF s, first
  <1> QED
    BY <1>2, <1>4, <1>5, SwitchCurrentMediaInv DEF Core

\* AddRequest: a registration put off is made, on an element that has none.
LEMMA AddRequestInv ==
    ASSUME Inv(e), NEW c \in Clients, AddRequest(c)
    PROVE  Inv(e')
  <1>1. PICK r \in (IF e.reserved = None THEN {e} ELSE Register(e, e.reserved)) :
          e' = [r EXCEPT !.reserved = None, !.clients[c].at = "to_bootstrap"]
    BY DEF AddRequest
  <1>2. e \in Element /\ Nested(e) /\ Registration(e) /\ Closing(e) /\ ~e.removed /\ ~e.closing
    BY DEF Inv, Core, AddRequest, Closing
  <1>3. /\ r \in Element /\ r.clients = e.clients /\ Nested(r) /\ Closing(r) /\ ~r.removed
        /\ r.used = e.used
        /\ r.register # None => r.current = None
        /\ Kept(r)
    <2>1. CASE e.reserved = None
      BY <1>1, <1>2, <2>1 DEF Registration, Inv
    <2>2. CASE e.reserved # None
      <3> DEFINE nothing == <<>>
      <3>1. e.used /\ e.current = None /\ e.register = None /\ e.reserved \in Media
        BY <1>2, <2>2 DEF Registration, Element
      <3>2. \/ r = [e EXCEPT !.current = e.reserved, !.up = nothing, !.upEos = FALSE]
            \/ r = [e EXCEPT !.want = None]
        BY <1>1, <1>2, <2>2, <3>1 DEF Register
      <3>3. nothing = e.up /\ e.up \in Seq(Sources) /\ e.tags = e.up
        BY <1>2, <3>1 DEF Nested, Element
      <3> HIDE DEF nothing
      <3>4. /\ r \in Element /\ r.clients = e.clients /\ r.tags = e.tags /\ r.up = e.up
            /\ r.posted = e.posted /\ r.closing = e.closing /\ r.removed = e.removed
            /\ r.deleted = e.deleted /\ r.failed = e.failed /\ r.late = e.late /\ r.used = e.used
            /\ r.register = None
        BY <1>2, <3>1, <3>2, <3>3, ZenonT(60) DEF Element
      <3> QED
        BY <1>2, <3>1, <3>3, <3>4 DEF Nested, AllFollow, Closing, Kept, nothing
    <2> QED
      BY <2>1, <2>2
  <1>4. e.clients[c] \in Client /\ e.clients[c].at = "out" /\ Follows(e.clients[c], e.up)
    BY <1>2 DEF AddRequest, Element, Nested, AllFollow
  <1>5. /\ e' \in Element /\ e'.reserved = None
        /\ e'.clients = [e.clients EXCEPT ![c].at = "to_bootstrap"]
        /\ e'.current = r.current /\ e'.register = r.register /\ e'.tags = r.tags
        /\ e'.up = r.up /\ e'.posted = r.posted /\ e'.closing = r.closing
        /\ e'.removed = r.removed /\ e'.deleted = r.deleted /\ e'.failed = r.failed /\ e'.late = r.late
        /\ e'.used = r.used /\ e'.want = r.want
    BY <1>1, <1>3, <1>4, ZenonT(60) DEF Element, Client
  <1>6. ASSUME NEW d \in Clients
        PROVE  Follows(e'.clients[d], e'.up)
    <2>1. Follows(r.clients[d], r.up)
      BY <1>3 DEF Nested, AllFollow
    <2>2. CASE d = c
      <3>1. e'.clients[c] = [e.clients[c] EXCEPT !.at = "to_bootstrap"]
        BY <1>2, <1>5 DEF Element
      <3> QED
        BY <1>4, <2>2, <3>1 DEF Follows, Client
    <2>3. CASE d # c
      BY <1>2, <1>3, <1>5, <2>1, <2>3 DEF Element
    <2> QED
      BY <2>2, <2>3
  <1>7. Nested(e')
    BY <1>3, <1>5, <1>6 DEF Nested, AllFollow
  <1>8. Registration(e') /\ Closing(e') /\ Kept(e')
    BY <1>3, <1>5 DEF Registration, Closing, Kept
  <1> QED
    BY <1>5, <1>7, <1>8 DEF Inv, Core

\* RemoveRequest: the last client lets the media go, and the close complete.
LEMMA RemoveRequestInv ==
    ASSUME Inv(e), NEW c \in Clients, RemoveRequest(c)
    PROVE  Inv(e')
  <1> DEFINE s == [e EXCEPT !.clients[c] = Out]
             t == [s EXCEPT !.reserved = s.current]
             u == IF s.used /\ NoClients(s) THEN Unregister(t, TRUE) ELSE s
  <1>1. /\ e \in Element /\ Nested(e) /\ Registration(e) /\ Closing(e) /\ Kept(e)
        /\ ~e.deleted /\ ~e.failed /\ e.clients[c].at # "out"
    BY DEF Inv, Core, RemoveRequest, Alive
  <1>2. e' = CloseCompleted(u)
    <2> DEFINE v == IF s.used /\ CountClients(s) = 0 THEN Unregister(t, TRUE) ELSE s
    <2>1. e' = CloseCompleted(v)
      BY DEF RemoveRequest
    <2>2. v = u
      <3> HIDE DEF s, t
      <3> QED
        BY CountZero
    <2> HIDE DEF u, v
    <2> QED
      BY <2>1, <2>2
  <1>3. Out \in Client /\ Out.at = "out" /\ \A open : Follows(Out, open)
    <2>1. Out \in Client /\ Out.at = "out" /\ Out.open = <<>> /\ ~Out.bad
      BY DEF Out, Client
    <2>2. ASSUME NEW open
          PROVE  Follows(Out, open)
      BY <2>1 DEF Follows
    <2> QED
      BY <2>1, <2>2
  <1>4. /\ s \in Element /\ s.clients = [e.clients EXCEPT ![c] = Out]
        /\ s.current = e.current /\ s.reserved = e.reserved /\ s.register = e.register
        /\ s.up = e.up /\ s.tags = e.tags /\ s.posted = e.posted /\ s.closing = e.closing
        /\ s.used = e.used /\ s.removed = e.removed /\ s.deleted = e.deleted
        /\ s.failed = e.failed /\ s.late = e.late /\ s.want = e.want
    BY <1>1, <1>3 DEF Element
  <1>5. e.reserved = None /\ ~NoClients(e)
    BY <1>1 DEF Registration, NoClients
  <1>6. Nested(s)
    <2>1. \A d \in Clients : s.clients[d] = IF d = c THEN Out ELSE e.clients[d]
      BY <1>1, <1>4 DEF Element
    <2> HIDE DEF s
    <2> QED
      BY <1>1, <1>3, <1>4, <2>1 DEF Nested, AllFollow
  <1>7. Registration(s) /\ Closing(s) /\ Kept(s)
    <2> HIDE DEF s
    <2> QED
      BY <1>1, <1>4, <1>5 DEF Registration, Closing, Kept
  <1>8. Core(u) /\ ~u.deleted /\ Kept(u)
    <2>1. CASE s.used /\ NoClients(s)
      <3>1. /\ t \in Element /\ t.clients = s.clients /\ t.up = s.up /\ t.tags = s.tags
            /\ t.current = s.current /\ t.reserved = s.current
            /\ t.posted = s.posted /\ t.closing = s.closing
            /\ t.used = s.used /\ t.removed = s.removed /\ t.deleted = s.deleted
            /\ t.failed = s.failed /\ t.late = s.late
        <4> HIDE DEF s
        <4> QED
          BY <1>4 DEF Element
      <3> HIDE DEF s, t
      <3>2. Nested(t) /\ (NoClients(t) <=> NoClients(s))
        BY <1>6, <3>1 DEF Nested, AllFollow, NoClients
      <3>3. /\ u \in Element /\ Nested(u)
            /\ u.register = None /\ u.current = None
            /\ u.reserved = t.reserved /\ u.closing = t.closing
            /\ u.posted = t.posted /\ u.used = t.used /\ u.removed = t.removed
            /\ u.deleted = t.deleted /\ u.failed = t.failed /\ u.late = t.late
            /\ NoClients(u) <=> NoClients(t)
        BY <2>1, <3>1, <3>2, UnregisterEffect
      <3> HIDE DEF u
      <3>4. Registration(u) /\ Closing(u) /\ Kept(u)
        BY <1>7, <2>1, <3>1, <3>2, <3>3 DEF Registration, Closing, Kept
      <3> QED
        BY <1>1, <1>4, <3>1, <3>3, <3>4 DEF Core
    <2>2. CASE ~(s.used /\ NoClients(s))
      <3> HIDE DEF s, t
      <3> QED
        BY <1>1, <1>4, <1>6, <1>7, <2>2 DEF Core
    <2> QED
      BY <2>1, <2>2
  <1> HIDE DEF u
  <1> QED
    BY <1>2, <1>8, CloseCompletedCore DEF Inv, Kept

\* What a tag changes: the sources of the upstream, and what the clients see.
LEMMA TagInv ==
    ASSUME Inv(e), SourceStartedTag \/ SourceEndedTag \/ MediaTagReceived
    PROVE  Inv(e')
  <1>1. /\ e \in Element /\ Nested(e) /\ Registration(e) /\ Closing(e) /\ Kept(e)
        /\ e.current # None /\ e.current \in Media /\ e.up \in Seq(Sources)
        /\ e.tags = e.up /\ AllFollow(e, e.tags)
    BY DEF Inv, Core, Nested, Element, SourceStartedTag, SourceEndedTag, MediaTagReceived
  <1>2. \E s \in Element, open \in Seq(Sources) :
           /\ s = [e EXCEPT !.up = open]
           /\ Retold(s, e', open)
    <2>1. CASE SourceStartedTag
      <3> DEFINE source == <<e.current, Len(e.up) + 1>>
                 open == Append(e.up, source)
                 s == [e EXCEPT !.up = open]
      <3>1. source \in Sources
        BY <1>1, <2>1, SwitchingAssumption, LenProperties DEF SourceStartedTag, Sources
      <3>2. open \in Seq(Sources) /\ e' = DistributeStarted(s, source)
        BY <1>1, <2>1, <3>1, AppendProperties DEF SourceStartedTag
      <3> HIDE DEF source
      <3>3. s \in Element /\ s.tags = e.tags /\ s.clients = e.clients
        <4> HIDE DEF open
        <4> QED
          BY <1>1, <3>2 DEF Element
      <3>4. AllFollow(s, s.tags) /\ open = Append(s.tags, source)
        <4>1. AllFollow(s, s.tags)
          <5> HIDE DEF s, open
          <5> QED
            BY <1>1, <3>3 DEF AllFollow
        <4>2. open = Append(s.tags, source)
          <5> HIDE DEF s
          <5> QED
            BY <1>1, <3>3
        <4> QED
          BY <4>1, <4>2
      <3> HIDE DEF open
      <3>5. s = [e EXCEPT !.up = open]
        OBVIOUS
      <3> HIDE DEF s
      <3> QED
        BY <3>1, <3>2, <3>3, <3>4, <3>5, DistributeStartedRetells
    <2>2. CASE SourceEndedTag
      <3> DEFINE source == e.up[Len(e.up)]
                 open == SubSeq(e.up, 1, Len(e.up) - 1)
                 s == [e EXCEPT !.up = open]
      <3>1. e.up # <<>> /\ e' = DistributeEnded(s, source)
        BY <2>2 DEF SourceEndedTag
      <3>2. open \in Seq(Sources)
        BY <1>1, <3>1
      <3>3. s \in Element /\ s.tags = e.tags /\ s.clients = e.clients
        <4> HIDE DEF open
        <4> QED
          BY <1>1, <3>2 DEF Element
      <3>4. AllFollow(s, s.tags)
        <4> HIDE DEF s, open
        <4> QED
          BY <1>1, <3>3 DEF AllFollow
      <3>5. s.tags = e.up /\ s = [e EXCEPT !.up = open]
        BY <1>1, <3>3
      <3>6. open = SubSeq(s.tags, 1, Len(s.tags) - 1) /\ source = s.tags[Len(s.tags)]
        <4> HIDE DEF s
        <4> QED
          BY <3>5
      <3>7. Retold(s, e', open)
        <4> HIDE DEF s, open, source
        <4> QED
          BY <3>1, <3>3, <3>4, <3>5, <3>6, DistributeEndedRetells
      <3> HIDE DEF s, open
      <3> QED
        BY <3>2, <3>3, <3>5, <3>7
    <2>3. CASE MediaTagReceived
      <3>1. Retold(e, e', e.up)
        BY <1>1, <2>3, DistributeMediaRetells DEF MediaTagReceived
      <3>2. e = [e EXCEPT !.up = e.up]
        BY <1>1 DEF Element
      <3> QED
        BY <1>1, <3>1, <3>2
    <2> QED
      BY <2>1, <2>2, <2>3
  <1>3. PICK s \in Element, open \in Seq(Sources) : s = [e EXCEPT !.up = open] /\ Retold(s, e', open)
    BY <1>2
  <1>4. /\ s.current = e.current /\ s.reserved = e.reserved /\ s.register = e.register
        /\ s.closing = e.closing /\ s.posted = e.posted /\ s.clients = e.clients
        /\ s.used = e.used /\ s.removed = e.removed /\ s.deleted = e.deleted
        /\ s.failed = e.failed /\ s.late = e.late /\ s.want = e.want /\ s.up = open
    BY <1>1, <1>3 DEF Element
  <1>5. /\ e' \in Element
        /\ e'.current = s.current /\ e'.reserved = s.reserved /\ e'.register = s.register
        /\ e'.closing = s.closing /\ e'.posted = s.posted
        /\ e'.used = s.used /\ e'.removed = s.removed /\ e'.deleted = s.deleted
        /\ e'.failed = s.failed /\ e'.late = s.late /\ e'.want = s.want /\ e'.up = s.up
        /\ e'.tags = open /\ AllFollow(e', open)
        /\ NoClients(e') <=> NoClients(s)
    <2> DEFINE r == e'
    <2>1. Retold(s, r, open)
      BY <1>3
    <2> HIDE DEF r
    <2>2. /\ r \in Element
          /\ r.current = s.current /\ r.reserved = s.reserved /\ r.register = s.register
          /\ r.closing = s.closing /\ r.posted = s.posted
          /\ r.used = s.used /\ r.removed = s.removed /\ r.deleted = s.deleted
          /\ r.failed = s.failed /\ r.late = s.late /\ r.want = s.want /\ r.up = s.up
          /\ r.tags = open /\ AllFollow(r, open)
          /\ NoClients(r) <=> NoClients(s)
      BY <2>1, RetoldFrame
    <2> QED
      BY <2>2 DEF r
  <1>6. Nested(e') /\ (NoClients(e') <=> NoClients(e))
    BY <1>1, <1>4, <1>5 DEF Nested, NoClients
  <1>7. Registration(e') /\ Closing(e') /\ Kept(e')
    BY <1>1, <1>4, <1>5, <1>6 DEF Registration, Closing, Kept
  <1> QED
    BY <1>5, <1>6, <1>7 DEF Inv, Core

\* The EOS of the upstream starts an alarm.
LEMMA EosTagInv ==
    ASSUME Inv(e), EosTag
    PROVE  Inv(e')
  <1>1. e \in Element /\ e' = [e EXCEPT !.upEos = TRUE, !.ended = TRUE]
    BY DEF EosTag, Inv, Core
  <1>2. /\ e' \in Element /\ e'.clients = e.clients
        /\ e'.current = e.current /\ e'.reserved = e.reserved /\ e'.register = e.register
        /\ e'.up = e.up /\ e'.tags = e.tags /\ e'.posted = e.posted /\ e'.closing = e.closing
        /\ e'.used = e.used /\ e'.removed = e.removed /\ e'.deleted = e.deleted
        /\ e'.failed = e.failed /\ e'.late = e.late /\ e'.want = e.want
    BY <1>1 DEF Element
  <1> QED
    BY <1>2 DEF Inv, Core, Nested, AllFollow, Registration, NoClients, Closing, Kept

\* register_alarm_: the element has no request when it goes off, and an element
\* that is being closed makes none.
LEMMA RegisterAlarmInv ==
    ASSUME Inv(e), RegisterAlarm
    PROVE  Inv(e')
  <1> DEFINE nothing == <<>>
             s == [e EXCEPT !.register = None]
  <1>1. /\ e \in Element /\ Nested(e) /\ Registration(e) /\ Closing(e) /\ Kept(e)
        /\ ~e.deleted /\ ~e.failed /\ e.register # None
    BY DEF Inv, Core, RegisterAlarm, Alive
  <1>2. /\ e.current = None /\ e.register \in Media /\ e.reserved = None
        /\ e.up = nothing /\ e.up \in Seq(Sources)
    BY <1>1 DEF Registration, Element, Nested
  <1> DEFINE late(v) == v.late \/ (v.current # None /\ e.posted = <<"ElementClosed">>)
  <1>3. PICK v :
          /\ e' = [v EXCEPT !.late = late(v)]
          /\ \/ e.closing /\ v = s
             \/ ~e.closing /\ v = [s EXCEPT !.current = e.register, !.up = nothing, !.upEos = FALSE]
             \/ ~e.closing /\ v = [s EXCEPT !.want = None]
    <2>1. s.closing = e.closing /\ s.current = None
      BY <1>1, <1>2 DEF Element
    <2>2. PICK v \in Register(s, e.register) : e' = [v EXCEPT !.late = late(v)]
      BY DEF RegisterAlarm
    <2> QED
      BY <2>1, <2>2 DEF Register
  <1> HIDE DEF nothing
  <1>4. s \in Element /\ \A f \in DOMAIN e : f # "register" => s[f] = e[f]
    BY <1>1 DEF Element
  <1>5. /\ e' \in Element /\ e'.clients = e.clients
        /\ e'.reserved = e.reserved /\ e'.register = None
        /\ e'.up = e.up /\ e'.tags = e.tags /\ e'.posted = e.posted /\ e'.closing = e.closing
        /\ e'.used = e.used /\ e'.removed = e.removed /\ e'.deleted = e.deleted
        /\ e'.failed = e.failed
        /\ e.late => e'.late
        /\ e'.current # None /\ e.posted = <<"ElementClosed">> => e'.late
        /\ \/ e.closing /\ e'.current = e.current /\ e'.want = e.want
           \/ ~e.closing /\ e'.current = e.register /\ e'.want = e.want
           \/ ~e.closing /\ e'.current = e.current /\ e'.want = None
    <2>1. /\ v \in Element /\ v.clients = e.clients
          /\ v.reserved = e.reserved /\ v.register = None
          /\ v.up = e.up /\ v.tags = e.tags /\ v.posted = e.posted /\ v.closing = e.closing
          /\ v.used = e.used /\ v.removed = e.removed /\ v.deleted = e.deleted
          /\ v.failed = e.failed /\ v.late = e.late
          /\ \/ e.closing /\ v.current = e.current /\ v.want = e.want
             \/ ~e.closing /\ v.current = e.register /\ v.want = e.want
             \/ ~e.closing /\ v.current = e.current /\ v.want = None
      BY <1>1, <1>2, <1>3, ZenonT(60) DEF Element
    <2> DEFINE l == late(v)
    <2>2. l \in BOOLEAN /\ e' = [v EXCEPT !.late = l]
      BY <1>3, <2>1 DEF Element
    <2>3. v.late => l
      OBVIOUS
    <2>4. v.current # None /\ e.posted = <<"ElementClosed">> => l
      OBVIOUS
    <2> HIDE DEF l, late, s
    <2>5. e' \in Element /\ e'.late = l /\ \A f \in DOMAIN v : f # "late" => e'[f] = v[f]
      BY <2>1, <2>2 DEF Element
    <2> QED
      BY <1>1, <2>1, <2>2, <2>3, <2>4, <2>5 DEF Element
  <1>6. Nested(e') /\ (NoClients(e') <=> NoClients(e))
    BY <1>1, <1>2, <1>5 DEF Nested, AllFollow, NoClients, nothing
  <1>7. Registration(e') /\ Closing(e') /\ Kept(e')
    BY <1>1, <1>2, <1>5, <1>6 DEF Registration, Closing, Kept, nothing
  <1> QED
    BY <1>5, <1>6, <1>7 DEF Inv, Core

\* The end of the stream, from its alarm or from the tag timeout.
LEMMA StreamEndedInv ==
    ASSUME NEW s, Inv(s), ~s.deleted
    PROVE  Inv(StreamEnded(s))
  <1>1. CASE s.current = None
    BY <1>1 DEF StreamEnded
  <1>2. CASE s.current # None
    <2>2. Core(Unregister(s, FALSE)) /\ ~Unregister(s, FALSE).deleted
      BY UnregisterCore, UnregisterEffect DEF Inv, Core
    <2> QED
      BY <1>2, <2>2, NotifyEosInv DEF StreamEnded
  <1> QED
    BY <1>1, <1>2

\* stream_ended_alarm_ and tag_timeout_alarm_.
LEMMA EndAlarmsInv ==
    ASSUME Inv(e), StreamEndedAlarm \/ TagReceiveTimeout
    PROVE  Inv(e')
  <1>1. CASE StreamEndedAlarm
    <2> DEFINE s == [e EXCEPT !.ended = FALSE]
    <2>1. /\ s \in Element /\ s.clients = e.clients
          /\ s.current = e.current /\ s.reserved = e.reserved /\ s.register = e.register
          /\ s.up = e.up /\ s.tags = e.tags /\ s.posted = e.posted /\ s.closing = e.closing
          /\ s.used = e.used /\ s.removed = e.removed /\ s.deleted = e.deleted
          /\ s.failed = e.failed /\ s.late = e.late /\ s.want = e.want
      BY DEF Element, Inv, Core
    <2>2. e' = StreamEnded(s) /\ ~e.deleted
      BY <1>1 DEF StreamEndedAlarm, Alive
    <2> HIDE DEF s
    <2>3. Inv(s)
      BY <2>1 DEF Inv, Core, Nested, AllFollow, Registration, NoClients, Closing, Kept
    <2> QED
      BY <2>1, <2>2, <2>3, StreamEndedInv
  <1>2. CASE TagReceiveTimeout
    BY <1>2, StreamEndedInv DEF TagReceiveTimeout, Alive
  <1> QED
    BY <1>1, <1>2

\* OnCommandPolicy::SwitchPolicy, at any moment.
LEMMA SwitchPolicyInv ==
    ASSUME Inv(e), NEW media \in Media \cup {None}, NEW d \in BOOLEAN, NEW a \in BOOLEAN,
           SwitchPolicy(media, d, a)
    PROVE  Inv(e')
  <1> DEFINE s == [e EXCEPT !.default = IF d THEN media ELSE @,
                            !.next = IF d \/ ~a THEN media ELSE @]
  <1>1. /\ s \in Element /\ s.clients = e.clients
        /\ s.current = e.current /\ s.reserved = e.reserved /\ s.register = e.register
        /\ s.up = e.up /\ s.tags = e.tags /\ s.posted = e.posted /\ s.closing = e.closing
        /\ s.used = e.used /\ s.removed = e.removed /\ s.deleted = e.deleted
        /\ s.failed = e.failed /\ s.late = e.late /\ s.want = e.want
    <2> DEFINE default == IF d THEN media ELSE e.default
               next == IF d \/ ~a THEN media ELSE e.next
    <2>1. /\ e \in Element /\ s = [e EXCEPT !.default = default, !.next = next]
          /\ default \in Media \cup {None} /\ next \in Media \cup {None}
      BY DEF Element, Inv, Core
    <2> HIDE DEF default, next, s
    <2> QED
      BY <2>1 DEF Element
  <1>2. e' = IF a THEN PlayMedia(s, media) ELSE s
    BY DEF SwitchPolicy
  <1> HIDE DEF s
  <1>3. Inv(s)
    BY <1>1 DEF Inv, Core, Nested, AllFollow, Registration, NoClients, Closing, Kept
  <1> QED
    BY <1>2, <1>3, SwitchCurrentMediaInv DEF PlayMedia, Inv

\* Close(), which posts the rest.
LEMMA CloseInv ==
    ASSUME Inv(e), Close
    PROVE  Inv(e')
  <1> DEFINE posted == Append(e.posted, "InternalClose")
  <1>1. e \in Element /\ Closing(e) /\ ~e.removed /\ ~e.deleted /\ e.posted = <<>>
    BY DEF Inv, Core, Close, Alive, Closing
  <1>2. posted = <<"InternalClose">> /\ posted \in Seq({"InternalClose", "ElementClosed"})
    BY <1>1, AppendToShort
  <1>3. e' = [e EXCEPT !.removed = TRUE, !.closing = TRUE, !.posted = posted]
    BY <1>1 DEF Close, Post, Element
  <1> HIDE DEF posted
  <1>4. /\ e' \in Element /\ e'.clients = e.clients
        /\ e'.current = e.current /\ e'.reserved = e.reserved /\ e'.register = e.register
        /\ e'.up = e.up /\ e'.tags = e.tags /\ e'.posted = posted /\ e'.closing /\ e'.removed
        /\ e'.used = e.used /\ e'.deleted = e.deleted
        /\ e'.failed = e.failed /\ e'.late = e.late /\ e'.want = e.want
    BY <1>1, <1>2, <1>3 DEF Element
  <1>5. Nested(e') /\ Registration(e') /\ Kept(e')
    BY <1>4 DEF Inv, Core, Nested, AllFollow, Registration, NoClients, Kept
  <1>6. Closing(e')
    BY <1>1, <1>2, <1>4 DEF Closing
  <1> QED
    BY <1>4, <1>5, <1>6 DEF Inv, Core

\* InternalClose: the request is given up, the clients are closed.
LEMMA InternalCloseInv ==
    ASSUME Inv(e), InternalClose
    PROVE  Inv(e')
  <1> DEFINE posted == Tail(e.posted)
             s == [e EXCEPT !.posted = posted, !.want = None]
             u == Unregister(s, TRUE)
  <1>1. /\ e \in Element /\ Nested(e) /\ Registration(e) /\ Closing(e) /\ ~e.deleted /\ e.removed
        /\ e.posted # <<>> /\ Head(e.posted) = "InternalClose"
    BY DEF Inv, Core, InternalClose, Alive, Closing
  <1>2. /\ e.posted # <<"ElementClosed">>
        /\ e.posted = <<"InternalClose">> => posted = <<>>
        /\ e.posted = <<"InternalClose", "ElementClosed">> => posted = <<"ElementClosed">>
        /\ posted \in Seq({"InternalClose", "ElementClosed"})
    <2>1. /\ Head(<<"ElementClosed">>) = "ElementClosed" /\ "ElementClosed" # "InternalClose"
          /\ Tail(<<"InternalClose">>) = <<>>
          /\ Tail(<<"InternalClose", "ElementClosed">>) = <<"ElementClosed">>
      OBVIOUS
    <2>2. posted \in Seq({"InternalClose", "ElementClosed"})
      BY <1>1, HeadTailProperties DEF Element
    <2> QED
      BY <1>1, <2>1, <2>2, Zenon
  <1>3. e' = CloseAllClients(u, TRUE)
    BY DEF InternalClose
  <1> HIDE DEF posted
  <1>4. /\ s \in Element /\ s.clients = e.clients
        /\ s.current = e.current /\ s.reserved = e.reserved /\ s.register = e.register
        /\ s.up = e.up /\ s.tags = e.tags /\ s.posted = posted /\ s.closing = e.closing
        /\ s.used = e.used /\ s.removed = e.removed /\ s.deleted = e.deleted
        /\ s.failed = e.failed /\ s.late = e.late /\ s.want = None
    BY <1>1, <1>2 DEF Element
  <1> HIDE DEF s
  <1>5. Nested(s) /\ (NoClients(s) <=> NoClients(e))
    BY <1>1, <1>4 DEF Nested, AllFollow, NoClients
  <1>6. /\ u \in Element /\ Nested(u)
        /\ u.register = None /\ u.current = None
        /\ u.reserved = s.reserved /\ u.closing = s.closing
        /\ u.posted = s.posted /\ u.used = s.used /\ u.removed = s.removed
        /\ u.deleted = s.deleted /\ u.failed = s.failed /\ u.late = s.late /\ u.want = s.want
        /\ NoClients(u) <=> NoClients(s)
    BY <1>4, <1>5, UnregisterEffect
  <1> HIDE DEF u
  <1>7. Core(u) /\ ~u.deleted
    <2>1. Registration(u)
      BY <1>1, <1>4, <1>5, <1>6 DEF Registration
    <2>2. Closing(u)
      BY <1>1, <1>2, <1>4, <1>5, <1>6 DEF Closing
    <2> QED
      BY <1>1, <1>4, <1>6, <2>1, <2>2 DEF Core
  <1>8. e' = CloseCompleted(u) \/ e' = CloseAllCallbacks(u, TRUE)
    BY <1>3 DEF CloseAllClients
  <1>9. Core(e') /\ e'.want = u.want
    <2>1. CASE e' = CloseCompleted(u)
      BY <1>7, <2>1, CloseCompletedCore
    <2>2. CASE e' = CloseAllCallbacks(u, TRUE)
      BY <1>7, <2>2, CloseAllCallbacksCore
    <2> QED
      BY <1>8, <2>1, <2>2
  <1> QED
    BY <1>4, <1>6, <1>9 DEF Inv, Kept

\* ElementClosed: the destructor finds neither request nor clients.
LEMMA ElementClosedInv ==
    ASSUME Inv(e), ElementClosed
    PROVE  Inv(e')
  <1> DEFINE posted == Tail(e.posted)
             failed == e.current # None \/ CountClients(e) # 0
  <1>1. /\ e \in Element /\ Nested(e) /\ Registration(e) /\ Closing(e) /\ ~e.deleted /\ e.removed
        /\ e.posted # <<>> /\ Head(e.posted) = "ElementClosed"
    BY DEF Inv, Core, ElementClosed, Alive, Closing
  <1>2. /\ e.posted = <<"ElementClosed">>
        /\ posted = <<>>
        /\ posted \in Seq({"InternalClose", "ElementClosed"})
    <2>1. /\ Head(<<"InternalClose">>) = "InternalClose" /\ "ElementClosed" # "InternalClose"
          /\ Head(<<"InternalClose", "ElementClosed">>) = "InternalClose"
          /\ Tail(<<"ElementClosed">>) = <<>>
      OBVIOUS
    <2>2. posted \in Seq({"InternalClose", "ElementClosed"})
      BY <1>1, HeadTailProperties DEF Element
    <2>3. e.posted \in {<<>>, <<"InternalClose">>, <<"ElementClosed">>,
                        <<"InternalClose", "ElementClosed">>}
      BY <1>1 DEF Closing
    <2> QED
      BY <1>1, <2>1, <2>2, <2>3, Zenon
  <1>3. failed \in BOOLEAN /\ (failed => e.late)
    <2>1. (e.current # None => e.late) /\ NoClients(e)
      BY <1>1, <1>2 DEF Closing
    <2> QED
      BY <2>1, CountZero
  <1>4. e' = [e EXCEPT !.posted = posted, !.deleted = TRUE, !.register = None, !.ended = FALSE,
                       !.failed = failed]
    BY DEF ElementClosed
  <1> HIDE DEF posted, failed
  <1>5. /\ e' \in Element /\ e'.clients = e.clients
        /\ e'.current = e.current /\ e'.reserved = e.reserved /\ e'.register = None
        /\ e'.up = e.up /\ e'.tags = e.tags /\ e'.posted = posted
        /\ e'.used = e.used /\ e'.removed = e.removed /\ e'.deleted
        /\ e'.failed => e'.late
    <2>1. e' \in Element
      BY <1>1, <1>2, <1>3, <1>4, ZenonT(60) DEF Element
    <2>2. /\ e'.clients = e.clients
          /\ e'.current = e.current /\ e'.reserved = e.reserved /\ e'.register = None
          /\ e'.up = e.up /\ e'.tags = e.tags /\ e'.posted = posted
          /\ e'.used = e.used /\ e'.removed = e.removed /\ e'.deleted
          /\ e'.failed => e'.late
      BY <1>1, <1>3, <1>4, ZenonT(60) DEF Element
    <2> QED
      BY <2>1, <2>2
  <1>6. Nested(e') /\ Registration(e')
    BY <1>1, <1>5 DEF Nested, AllFollow, Registration, NoClients
  <1>7. Closing(e') /\ Kept(e')
    BY <1>1, <1>2, <1>5 DEF Closing, Kept
  <1> QED
    BY <1>5, <1>6, <1>7 DEF Inv, Core

\* Every turn keeps the invariant.
LEMMA NextInv == Inv(e) /\ [Next]_e => Inv(e)'
  <1> SUFFICES ASSUME Inv(e), [Next]_e PROVE Inv(e')
    BY DEF Inv
  <1>1. CASE \E c \in Clients : AddRequest(c) \/ RemoveRequest(c)
    BY <1>1, AddRequestInv, RemoveRequestInv
  <1>2. CASE SourceStartedTag \/ SourceEndedTag \/ MediaTagReceived
    BY <1>2, TagInv
  <1>3. CASE EosTag
    BY <1>3, EosTagInv
  <1>4. CASE RegisterAlarm
    BY <1>4, RegisterAlarmInv
  <1>5. CASE StreamEndedAlarm \/ TagReceiveTimeout
    BY <1>5, EndAlarmsInv
  <1>6. CASE \E media \in Media \cup {None}, d, a \in BOOLEAN : SwitchPolicy(media, d, a)
    BY <1>6, SwitchPolicyInv
  <1>7. CASE Close \/ InternalClose \/ ElementClosed
    BY <1>7, CloseInv, InternalCloseInv, ElementClosedInv
  <1>8. CASE UNCHANGED e
    BY <1>8
  <1> QED
    BY <1>1, <1>2, <1>3, <1>4, <1>5, <1>6, <1>7, <1>8 DEF Next

\* The inductive invariant holds throughout.
LEMMA SpecInv == Spec => []Inv(e)
  BY InitInv, NextInv, PTL DEF Spec

\* Every client of the element, in every order of commands, alarms, tags and
\* closes, has the sources nested and is where the upstream is.
THEOREM SourcesNest == Spec => []WellNested
  <1>1. Inv(e) => WellNested
    BY DEF Inv, Core, Nested, AllFollow, Follows, WellNested
  <1> QED
    BY <1>1, SpecInv, PTL

\* An element without media_only_when_used_, of which no registration was
\* refused since, has the media that the policy switched to, or its alarm runs,
\* until it is removed.
THEOREM MediaKept == Spec => []MediaNotLost
  <1>1. Inv(e) => MediaNotLost
    BY DEF Inv, Kept, MediaNotLost
  <1> QED
    BY <1>1, SpecInv, PTL

\* Where DCHECKs are left out, no CHECK fails but the destructor's, and that one
\* only when register_alarm_ went off between the end of Close() and ElementClosed.
THEOREM ChecksHold ==
    ASSUME ~Debug
    PROVE  Spec => []NoCheckFails
  <1>1. Inv(e) => NoCheckFails
    BY DEF Inv, Core, Closing, NoCheckFails
  <1> QED
    BY <1>1, SpecInv, PTL

\* The state has its type throughout.
THEOREM TypeCorrect == Spec => []TypeOK
  <1>1. Inv(e) => TypeOK
    BY DEF Inv, Core, TypeOK
  <1> QED
    BY <1>1, SpecInv, PTL
=============================================================================
