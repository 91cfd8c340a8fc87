------------------------- MODULE TcpConnectionProof -------------------------
(***************************************************************************)
(* Safety of one TCP connection for any number of chunks.  The theorems    *)
(* leave out the situations in which the code breaks its own CHECKs:       *)
(* socket() or Register failing, FlushAndClose before the connect is       *)
(* complete, a close racing a posted DNS answer, a write handler that      *)
(* calls ForceClose, and a close handler that connects again in the middle *)
(* of another handler.                                                     *)
(***************************************************************************)
EXTENDS TcpConnection, SequenceTheorems, TLAPS

-----------------------------------------------------------------------------
(* The inductive invariant *)

Open == {"CONNECTING", "CONNECTED", "FLUSHING"}

\* Only close handlers run: the second one when the first connected again and
\* closed.
Closing == {<<"close">>, <<"close", "close">>}

\* The handlers that run: at most one of an event, and the close handler it
\* called on top of it.
Frames == {<<>>, <<"connect">>, <<"read">>, <<"write">>, <<"close_read">>,
           <<"close", "connect">>, <<"close", "read">>, <<"close", "close_read">>} \cup Closing

\* What is left of an event: a part of error, read, write, in this order.
Todos == {<<>>, <<"write">>, <<"read">>, <<"read", "write">>, <<"error">>, <<"error", "read">>,
          <<"error", "write">>, <<"error", "read", "write">>}

\* One answer per query, and only a connection that resolves has a query.
DnsOnce ==
    /\ state_ # "RESOLVING" => ~pending[Conn] /\ posted[Conn] = 0
    /\ state_ = "RESOLVING" => posted[Conn] = (IF pending[Conn] THEN 0 ELSE 1)

\* A connection without a descriptor has no socket and nothing to send.
NoSocket ==
    ~fd_ => link = "none" /\ outbuf = 0 /\ ~linger /\ ~fin

\* An event is dispatched to an open connection; a handler that closed it, and
\* no other, is still running when it is not.
Dispatched ==
    /\ stack \in Frames /\ todo \in Todos
    /\ stack = <<>> /\ todo # <<>> => fd_
    /\ stack \in Closing => todo = <<>>
    /\ stack \notin {<<>>} \cup Closing => todo # <<>> /\ state_ \notin {"RESOLVING", "CONNECTING"}
    /\ stack = <<"write">> => fd_
    /\ stack \notin {<<>>} \cup Closing /\ Head(stack) = "close" => state_ = "DISCONNECTED"

ConnInv == TypeOK /\ DnsOnce /\ NoSocket /\ Dispatched /\ ResourcesMatchState /\ NoCheckFails

\* What the application was told fits the state, and a connection attempt fails
\* in HandleErrorEvent only by an error.
Told ==
    /\ state_ \in {"RESOLVING", "CONNECTING"} => told = "nothing"
    /\ state_ \in {"CONNECTED", "FLUSHING"} => told = "connected"
    /\ state_ = "CONNECTING" => ~fin
    /\ state_ = "CONNECTING" /\ todo # <<>> /\ Head(todo) = "error" => "ERR" \in rev

OrderInv == Told /\ HandlersInOrder


\* The frames: what is on top, and what is under it.
LEMMA FrameFacts ==
    /\ \A h : <<h>> \o <<>> = <<h>> /\ Tail(<<h>>) = <<>> /\ Head(<<h>>) = h /\ <<h>> # <<>>
    /\ \A h, g : <<h>> = <<g>> => h = g
    /\ \A h, g : <<h>> \o <<g>> = <<h, g>> /\ Tail(<<h, g>>) = <<g>> /\ Head(<<h, g>>) = h
    /\ \A h, g : <<h, g>> # <<>>
    /\ \A h, g, i : <<h, g>> # <<i>>
    /\ \A h, g, i, j : <<h, g>> = <<i, j>> => h = i /\ g = j
  <1>1. \A h : <<h>> \o <<>> = <<h>>
    OBVIOUS
  <1>2. \A h : Tail(<<h>>) = <<>> /\ Head(<<h>>) = h /\ <<h>> # <<>>
    OBVIOUS
  <1>3. \A h, g : <<h>> = <<g>> => h = g
    OBVIOUS
  <1>4. ASSUME NEW h, NEW g PROVE <<h>> \o <<g>> = <<h, g>>
    <2> DEFINE S == {h, g}
    <2>1. <<h>> \in Seq(S) /\ <<g>> \in Seq(S) /\ <<h, g>> \in Seq(S)
      OBVIOUS
    <2>2. Len(<<h>>) = 1 /\ Len(<<g>>) = 1 /\ Len(<<h, g>>) = 2 /\ <<h>>[1] = h /\ <<g>>[1] = g
          /\ <<h, g>>[1] = h /\ <<h, g>>[2] = g
      OBVIOUS
    <2> DEFINE s == <<h>>
               t == <<g>>
               u == <<h, g>>
               c == s \o t
    <2>3. s \in Seq(S) /\ t \in Seq(S) /\ u \in Seq(S) /\ Len(s) = 1 /\ Len(t) = 1 /\ Len(u) = 2
          /\ s[1] = h /\ t[1] = g /\ u[1] = h /\ u[2] = g
      BY <2>1, <2>2
    <2> HIDE DEF s, t, u, S
    <2>4. c \in Seq(S) /\ Len(c) = 2 /\ c[1] = h /\ c[2] = g
      BY <2>3, ConcatProperties
    <2> HIDE DEF c
    <2>5. \A i \in 1..Len(c) : c[i] = u[i]
      BY <2>3, <2>4
    <2>6. c = u
      BY <2>3, <2>4, <2>5, SeqEqual
    <2> QED
      BY <2>6 DEF c, s, t, u
  <1>5. \A h, g : Tail(<<h, g>>) = <<g>> /\ Head(<<h, g>>) = h
    OBVIOUS
  <1>6. \A h, g : <<h, g>> # <<>>
    OBVIOUS
  <1>7. \A h, g, i : <<h, g>> # <<i>>
    OBVIOUS
  <1>8. \A h, g, i, j : <<h, g>> = <<i, j>> => h = i /\ g = j
    OBVIOUS
  <1> QED
    BY <1>1, <1>2, <1>3, <1>4, <1>5, <1>6, <1>7, <1>8

\* The close handler on top of another one.
LEMMA CloseFrames ==
    ASSUME NEW frames \in {<<>>, <<"connect">>, <<"read">>, <<"close_read">>, <<"close">>},
           NEW s, s = <<"close">> \o frames
    PROVE  /\ s \in Frames /\ s # <<>> /\ s # <<"write">>
           /\ s \in Closing <=> frames \in {<<>>, <<"close">>}
           /\ Head(s) = "close"
  <1> DEFINE c == <<"close">>
  <1>1. CASE frames = <<>>
    <2>1. s = <<"close">>
      BY <1>1, FrameFacts
    <2> QED
      BY <1>1, <2>1 DEF Frames, Closing
  <1>2. ASSUME NEW h \in {"connect", "read", "close_read", "close"}, frames = <<h>> PROVE s = <<"close", h>>
    BY <1>2, FrameFacts
  <1>3. ASSUME NEW h \in {"connect", "read", "close_read"}, frames = <<h>>
        PROVE  /\ s \in Frames /\ s # <<>> /\ s # <<"write">> /\ s \notin Closing
               /\ frames \notin {<<>>, <<"close">>} /\ Head(s) = "close"
    <2>1. s = <<"close", h>>
      BY <1>2, <1>3
    <2>2. s \in Frames
      BY <2>1 DEF Frames, Closing
    <2>3. s # <<>> /\ s # <<"write">> /\ s # <<"close">> /\ Head(s) = "close"
      BY <2>1, SMTT(30)
    <2>4. frames # <<>> /\ frames # <<"close">>
      BY <1>3, FrameFacts
    <2>5. s # <<"close", "close">>
      BY <1>3, <2>1, FrameFacts
    <2> QED
      BY <2>2, <2>3, <2>4, <2>5 DEF Closing
  <1>4. CASE frames = <<"close">>
    <2>1. s = <<"close", "close">>
      BY <1>2, <1>4
    <2>2. Head(s) = "close" /\ s # <<>> /\ s # <<"write">>
      BY <2>1, SMTT(30)
    <2> QED
      BY <1>4, <2>1, <2>2 DEF Frames, Closing
  <1> QED
    BY <1>1, <1>3, <1>4

\* What is left of an event after its first part is done.
LEMMA TodoFacts ==
    /\ \A t \in Todos : t \in Seq({"error", "read", "write"})
    /\ \A t \in Todos : t # <<>> => Tail(t) \in Todos /\ Head(t) \in {"error", "read", "write"}
    /\ \A t \in Todos : t # <<>> /\ Head(t) # "error" => Tail(t) = <<>> \/ Head(Tail(t)) # "error"
    /\ \A t \in Todos : t # <<>> /\ Head(t) = "error" => Tail(t) = <<>> \/ Head(Tail(t)) # "error"
    /\ <<>> \in Todos
  BY DEF Todos

\* The handlers on the stack.
LEMMA StackFacts ==
    /\ \A s \in Frames : s \in Seq(AppHandlers) /\ Len(s) <= 2
    /\ \A h \in AppHandlers : <<h>> \in Frames
    /\ \A s \in Frames : s # <<>> /\ Head(s) = "close" =>
          /\ Tail(s) \in {<<>>, <<"connect">>, <<"read">>, <<"close_read">>, <<"close">>}
          /\ Tail(s) \in {<<>>, <<"close">>} <=> s \in Closing
    /\ <<>> \in Frames
  BY DEF Frames, AppHandlers, Closing


-----------------------------------------------------------------------------
(* Steps that many actions share *)

\* The parts of the type invariant, for the provers.
LEMMA Types ==
    ASSUME TypeOK
    PROVE  /\ fd_ \in BOOLEAN /\ registered \in BOOLEAN /\ read_closed_ \in BOOLEAN
           /\ write_closed_ \in BOOLEAN /\ linger \in BOOLEAN /\ fin \in BOOLEAN
           /\ aborted \in BOOLEAN /\ misordered \in BOOLEAN /\ flush \in BOOLEAN
           /\ outbuf \in Nat /\ rx \in Nat /\ MaxOut \in Nat /\ MaxIn \in Nat
           /\ pending[Conn] \in BOOLEAN /\ posted[Conn] \in Nat
  BY TcpAssumption DEF TypeOK

\* The connection is closed, on top of the handlers in frames, and the close
\* handler is called.
LEMMA Closed ==
    ASSUME ConnInv, posted[Conn] = 0, NEW frames, InternalClose(frames)
    PROVE  /\ state_ # "DISCONNECTED" /\ state_' = "DISCONNECTED" /\ stack' = <<"close">> \o frames
           /\ fd_' = FALSE /\ registered' = FALSE /\ linger' = FALSE /\ outbuf' = 0
           /\ link' = "none" /\ rx' = 0 /\ fin' = FALSE /\ flush' = FALSE
           /\ read_closed_' = TRUE /\ write_closed_' = TRUE /\ UNCHANGED <<want, posted>>
           /\ pending' \in [{Conn} -> BOOLEAN] /\ pending'[Conn] = FALSE
           /\ told' = "closed"
           /\ misordered' \in BOOLEAN /\ (misordered' => misordered \/ told = "closed")
  <1>1. pending \in [{Conn} -> BOOLEAN] /\ misordered \in BOOLEAN /\ registered = fd_
    BY Types DEF ConnInv, TypeOK, ResourcesMatchState
  <1>2. /\ pending' \in [{Conn} -> BOOLEAN] /\ pending'[Conn] = FALSE /\ UNCHANGED posted
    BY <1>1 DEF InternalClose, Dns!Cancel
  <1>3. /\ told' = "closed" /\ stack' = <<"close">> \o frames
        /\ misordered' \in BOOLEAN /\ (misordered' => misordered \/ told = "closed")
    BY <1>1 DEF InternalClose, Invoke
  <1> QED
    BY <1>1, <1>2, <1>3 DEF InternalClose, CloseNow

\* The type invariant after a step, from its parts.
LEMMA TypesNext ==
    ASSUME state_' \in States, fd_' \in BOOLEAN, registered' \in BOOLEAN, read_closed_' \in BOOLEAN,
           write_closed_' \in BOOLEAN, linger' \in BOOLEAN, fin' \in BOOLEAN, aborted' \in BOOLEAN,
           misordered' \in BOOLEAN, flush' \in BOOLEAN, want' \subseteq {"read", "write"},
           outbuf' \in 0..MaxOut, rx' \in 0..MaxIn, pending' \in [{Conn} -> BOOLEAN],
           posted' \in [{Conn} -> Nat], stack' \in Frames, todo' \in Todos, rev' \subseteq Bits,
           link' \in {"none", "syn", "up", "reset"}, told' \in {"nothing", "connected", "closed"}
    PROVE  TypeOK'
  <1>1. stack' \in Seq(AppHandlers) /\ Len(stack') <= 2 /\ todo' \in Seq({"error", "read", "write"})
    BY StackFacts, TodoFacts
  <1>2. /\ <<fd_', registered', read_closed_', write_closed_'>> \in BOOLEAN \X BOOLEAN \X BOOLEAN \X BOOLEAN
        /\ <<fin', aborted', misordered', flush'>> \in BOOLEAN \X BOOLEAN \X BOOLEAN \X BOOLEAN
    OBVIOUS
  <1> QED
    BY <1>1, <1>2 DEF TypeOK

\* A closed connection is well closed.
LEMMA CloseKeeps ==
    ASSUME ConnInv, posted[Conn] = 0, NEW frames, InternalClose(frames),
           frames \in {<<>>, <<"connect">>, <<"read">>, <<"close_read">>, <<"close">>},
           frames \in {<<>>, <<"close">>} => todo' = <<>>,
           frames \notin {<<>>, <<"close">>} => todo' = todo /\ todo # <<>>,
           UNCHANGED <<rev, aborted>>
    PROVE  ConnInv'
  <1>1. /\ state_ # "DISCONNECTED" /\ state_' = "DISCONNECTED" /\ stack' = <<"close">> \o frames
        /\ fd_' = FALSE /\ registered' = FALSE /\ linger' = FALSE /\ outbuf' = 0
        /\ link' = "none" /\ rx' = 0 /\ fin' = FALSE /\ flush' = FALSE
        /\ read_closed_' = TRUE /\ write_closed_' = TRUE /\ UNCHANGED <<want, posted>>
        /\ pending' \in [{Conn} -> BOOLEAN] /\ pending'[Conn] = FALSE
        /\ told' = "closed" /\ misordered' \in BOOLEAN
    BY Closed
  <1>2. /\ stack' \in Frames /\ stack' # <<>> /\ stack' # <<"write">>
        /\ stack' \in Closing <=> frames \in {<<>>, <<"close">>}
    BY <1>1, CloseFrames
  <1>3. todo' \in Todos
    BY TodoFacts DEF ConnInv, Dispatched, Closing
  <1>4. Dispatched'
    BY <1>1, <1>2, <1>3 DEF Dispatched, Closing
  <1>5. /\ state_' \in States /\ outbuf' \in 0..MaxOut /\ rx' \in 0..MaxIn /\ rev' \subseteq Bits
        /\ want' \subseteq {"read", "write"} /\ posted' \in [{Conn} -> Nat] /\ aborted' \in BOOLEAN
    BY <1>1, TcpAssumption, Types DEF ConnInv, TypeOK, States
  <1>6. TypeOK'
    BY <1>1, <1>2, <1>3, <1>5, TypesNext
  <1>7. DnsOnce' /\ NoSocket' /\ ResourcesMatchState' /\ NoCheckFails'
    BY <1>1 DEF ConnInv, DnsOnce, NoSocket, ResourcesMatchState, NoCheckFails
  <1> QED
    BY <1>4, <1>6, <1>7 DEF ConnInv


-----------------------------------------------------------------------------
(* Resources, CHECKs and the dispatching of events: one lemma per action *)

Tame == Situations \subseteq {"close_in_read", "early_peer"}

\* What a socket that is opened, or not, means for the connection.
LEMMA OpenSocketKeeps ==
    ASSUME ConnInv, Tame, ~fd_, NEW ok \in BOOLEAN, OpenSocket(ok)
    PROVE  /\ ok => /\ state_' = "CONNECTING" /\ fd_' = TRUE /\ registered' = TRUE /\ link' = "syn"
                    /\ read_closed_' = FALSE /\ write_closed_' = FALSE /\ want' = {"read", "write"}
                    /\ UNCHANGED <<outbuf, linger, rx, fin>>
           /\ ~ok => /\ state_' = "DISCONNECTED" /\ fd_' = FALSE /\ registered' = FALSE /\ link' = "none"
                     /\ read_closed_' = TRUE /\ write_closed_' = TRUE
                     /\ UNCHANGED <<want, outbuf, linger, rx, fin>>
           /\ outbuf = 0 /\ linger = FALSE
  <1>1. registered = FALSE /\ fd_ = FALSE /\ outbuf = 0 /\ linger = FALSE /\ link = "none"
    BY Types DEF ConnInv, ResourcesMatchState, NoSocket
  <1>2. "no_socket" \notin Situations /\ "no_register" \notin Situations
    BY DEF Tame
  <1>3. CASE ok
    BY <1>1, <1>3 DEF OpenSocket
  <1>4. CASE ~ok
    <2>1. state_' = "DISCONNECTED" /\ read_closed_' = TRUE /\ write_closed_' = TRUE
          /\ linger' = FALSE /\ outbuf' = 0 /\ UNCHANGED <<fd_, registered, want, link, rx, fin>>
      BY <1>2, <1>4 DEF OpenSocket, kernelVars
    <2> QED
      BY <1>1, <1>4, <2>1
  <1> QED
    BY <1>1, <1>3, <1>4

\* No event is being dispatched where the application connects.
LEMMA WhereToConnect ==
    ASSUME ConnInv, Tame, MayConnect
    PROVE  stack \in {<<>>} \cup Closing /\ todo = <<>>
  <1>1. CASE Idle
    BY <1>1 DEF Idle
  <1>2. CASE stack # <<>> /\ Head(stack) = "close" /\ Tail(stack) \in {<<>>, <<"close">>}
    BY <1>2, StackFacts DEF ConnInv, Dispatched
  <1> QED
    BY <1>1, <1>2 DEF MayConnect, Tame

\* Connect(address): Register's CHECK_NULL(registered_selector()) holds.
LEMMA ConnConnectAddress ==
    ASSUME ConnInv, Tame, ConnectAddress
    PROVE  ConnInv'
  <1>1. state_ = "DISCONNECTED" /\ ~fd_ /\ ~registered /\ stack \in {<<>>} \cup Closing /\ todo = <<>>
    BY WhereToConnect DEF ConnectAddress, ConnInv, ResourcesMatchState
  <1>2. PICK ok \in BOOLEAN : OpenSocket(ok)
    BY <1>1 DEF ConnectAddress
  <1>3. /\ ok => /\ state_' = "CONNECTING" /\ fd_' = TRUE /\ registered' = TRUE /\ link' = "syn"
                 /\ read_closed_' = FALSE /\ write_closed_' = FALSE /\ want' = {"read", "write"}
                 /\ UNCHANGED <<outbuf, linger, rx, fin>>
        /\ ~ok => /\ state_' = "DISCONNECTED" /\ fd_' = FALSE /\ registered' = FALSE /\ link' = "none"
                  /\ read_closed_' = TRUE /\ write_closed_' = TRUE
                  /\ UNCHANGED <<want, outbuf, linger, rx, fin>>
        /\ outbuf = 0 /\ linger = FALSE
    BY <1>1, <1>2, OpenSocketKeeps
  <1>4. told' = "nothing" /\ UNCHANGED <<pending, posted, stack, todo, rev, aborted, misordered, flush>>
    BY <1>1 DEF ConnectAddress, dnsVars, loopVars
  <1>5. TypeOK'
    BY <1>1, <1>3, <1>4, TypesNext, Types, TcpAssumption DEF ConnInv, TypeOK, States, Dispatched, Closing
  <1>6. DnsOnce' /\ NoSocket' /\ ResourcesMatchState' /\ NoCheckFails'
    BY <1>1, <1>3, <1>4 DEF ConnInv, DnsOnce, NoSocket, ResourcesMatchState, NoCheckFails
  <1>7. Dispatched'
    BY <1>1, <1>4 DEF ConnInv, Dispatched, Closing
  <1> QED
    BY <1>5, <1>6, <1>7 DEF ConnInv

\* Connect(host name): one query, which is answered now or later.
LEMMA ConnConnectName ==
    ASSUME ConnInv, Tame, ConnectName
    PROVE  ConnInv'
  <1>1. /\ state_ = "DISCONNECTED" /\ ~fd_ /\ ~registered /\ stack \in {<<>>} \cup Closing /\ todo = <<>>
        /\ outbuf = 0 /\ ~linger /\ ~pending[Conn] /\ posted[Conn] = 0
        /\ pending \in [{Conn} -> BOOLEAN] /\ posted \in [{Conn} -> Nat]
    BY WhereToConnect DEF ConnectName, ConnInv, ResourcesMatchState, DnsOnce, TypeOK
  <1>2. /\ state_' = "RESOLVING" /\ told' = "nothing"
        /\ UNCHANGED <<fd_, registered, want, read_closed_, write_closed_, outbuf, linger, stack, todo,
                       rev, aborted, link, rx, fin, misordered, flush>>
    BY DEF ConnectName, loopVars, kernelVars
  <1>3. /\ pending' \in [{Conn} -> BOOLEAN] /\ posted' \in [{Conn} -> Nat]
        /\ posted'[Conn] = (IF pending'[Conn] THEN 0 ELSE 1)
    <2>1. CASE Dns!Ask(Conn)
      <3>1. pending' = [pending EXCEPT ![Conn] = TRUE] /\ posted' = posted
        BY <2>1 DEF Dns!Ask
      <3>2. pending'[Conn] = TRUE /\ posted'[Conn] = 0
        BY <1>1, <3>1
      <3> QED
        BY <1>1, <3>1, <3>2
    <2>2. CASE Dns!AnswerAtOnce(Conn)
      <3>1. posted' = [posted EXCEPT ![Conn] = posted[Conn] + 1] /\ pending' = pending
        BY <2>2 DEF Dns!AnswerAtOnce
      <3>2. pending'[Conn] = FALSE /\ posted'[Conn] = 1
        BY <1>1, <3>1
      <3> QED
        BY <1>1, <3>1, <3>2
    <2> QED
      BY <2>1, <2>2 DEF ConnectName
  <1>4. TypeOK'
    BY <1>1, <1>2, <1>3, TypesNext, Types DEF ConnInv, TypeOK, States, Dispatched, Closing
  <1>5. DnsOnce' /\ NoSocket' /\ ResourcesMatchState' /\ NoCheckFails'
    BY <1>1, <1>2, <1>3 DEF ConnInv, DnsOnce, NoSocket, ResourcesMatchState, NoCheckFails
  <1>6. Dispatched'
    BY <1>1, <1>2 DEF ConnInv, Dispatched, Closing
  <1> QED
    BY <1>4, <1>5, <1>6 DEF ConnInv

\* Wrap: an accepted descriptor becomes a connected connection.
LEMMA ConnWrap == ASSUME ConnInv, Wrap PROVE ConnInv'
  <1>1. /\ state_ = "DISCONNECTED" /\ ~fd_ /\ stack = <<>> /\ todo = <<>>
        /\ outbuf = 0 /\ ~linger /\ ~pending[Conn] /\ posted[Conn] = 0
    BY DEF Wrap, ConnInv, ResourcesMatchState, Idle, DnsOnce
  <1>2. /\ state_' = "CONNECTED" /\ told' = "connected" /\ fd_' = TRUE /\ registered' = TRUE
        /\ read_closed_' = FALSE /\ write_closed_' = FALSE /\ want' = want \cup {"read"} /\ link' = "up"
        /\ UNCHANGED <<outbuf, linger, pending, posted, stack, todo, rev, aborted, rx, fin, misordered, flush>>
    BY DEF Wrap, dnsVars, loopVars
  <1>3. TypeOK'
    BY <1>1, <1>2, TypesNext, Types DEF ConnInv, TypeOK, States, Dispatched, Closing
  <1>4. DnsOnce' /\ NoSocket' /\ ResourcesMatchState' /\ NoCheckFails'
    BY <1>1, <1>2 DEF ConnInv, DnsOnce, NoSocket, ResourcesMatchState, NoCheckFails
  <1>5. Dispatched'
    BY <1>1, <1>2 DEF ConnInv, Dispatched, Closing
  <1> QED
    BY <1>3, <1>4, <1>5 DEF ConnInv

\* FlushAndClose of an open connection: its CHECK is not reached.
LEMMA ConnFlushAndClose == ASSUME ConnInv, Tame, FlushAndClose PROVE ConnInv'
  <1>1. /\ state_ \in {"CONNECTED", "FLUSHING"} /\ fd_
    BY DEF FlushAndClose, ConnInv, ResourcesMatchState, Tame
  <1>2. /\ state_' = IF write_closed_ THEN state_ ELSE "FLUSHING"
        /\ want' = IF write_closed_ THEN want ELSE want \cup {"write"}
        /\ flush' = TRUE
        /\ UNCHANGED <<fd_, registered, read_closed_, write_closed_, outbuf, linger, pending, posted,
                       stack, todo, rev, aborted, link, rx, fin, told, misordered>>
    BY <1>1 DEF FlushAndClose, CloseWrite, dnsVars, loopVars, kernelVars
  <1>3. TypeOK'
    BY <1>1, <1>2, TypesNext, Types DEF ConnInv, TypeOK, States, Dispatched, Closing
  <1>4. DnsOnce' /\ NoSocket' /\ ResourcesMatchState' /\ NoCheckFails'
    BY <1>1, <1>2, Types DEF ConnInv, DnsOnce, NoSocket, ResourcesMatchState, NoCheckFails
  <1>5. Dispatched'
    BY <1>1, <1>2 DEF ConnInv, Dispatched, Closing
  <1> QED
    BY <1>3, <1>4, <1>5 DEF ConnInv

\* Write and RequestReadEvents of an open connection.
LEMMA ConnWrite == ASSUME ConnInv, Write \/ \E b \in BOOLEAN : RequestReadEvents(b) PROVE ConnInv'
  <1> DEFINE Done ==
        /\ want' \subseteq {"read", "write"} /\ fd_ /\ outbuf' \in 0..MaxOut
        /\ outbuf' > 0 => "write" \in want'
        /\ UNCHANGED <<state_, fd_, registered, read_closed_, write_closed_, linger, pending, posted,
                       stack, todo, rev, aborted, link, rx, fin, told, misordered, flush>>
  <1>1. Done
    <2>1. CASE Write
      BY <2>1, Types DEF Write, dnsVars, loopVars, kernelVars, history, ConnInv, TypeOK
    <2>2. ASSUME NEW b \in BOOLEAN, RequestReadEvents(b) PROVE Done
      BY <2>2, Types DEF RequestReadEvents, dnsVars, loopVars, kernelVars, history, ConnInv, TypeOK, ResourcesMatchState
    <2> QED
      BY <2>1, <2>2
  <1>2. TypeOK'
    BY <1>1, TypesNext, Types DEF ConnInv, TypeOK, Dispatched, Closing
  <1>3. DnsOnce' /\ NoSocket' /\ ResourcesMatchState' /\ NoCheckFails'
    BY <1>1, Types DEF ConnInv, DnsOnce, NoSocket, ResourcesMatchState, NoCheckFails
  <1>4. Dispatched'
    BY <1>1 DEF ConnInv, Dispatched, Closing
  <1> QED
    BY <1>2, <1>3, <1>4 DEF ConnInv

\* The resolver answers, and the kernel receives: nothing the connection has changes.
LEMMA ConnOutside == ASSUME ConnInv, DnsAnswers \/ Network PROVE ConnInv'
  <1>1. UNCHANGED <<state_, fd_, registered, want, read_closed_, write_closed_, outbuf, linger, stack,
                    todo, rev, aborted, told, misordered, flush>>
    BY DEF DnsAnswers, Network, connVars, loopVars, history
  <1>2. /\ pending' \in [{Conn} -> BOOLEAN] /\ posted' \in [{Conn} -> Nat] /\ DnsOnce'
        /\ pending[Conn] \/ posted[Conn] > 0 <=> pending'[Conn] \/ posted'[Conn] > 0
        /\ pending'[Conn] => pending[Conn]
    <2>1. pending \in [{Conn} -> BOOLEAN] /\ posted \in [{Conn} -> Nat]
      BY DEF ConnInv, TypeOK
    <2>2. CASE DnsAnswers
      <3>1. pending[Conn] /\ pending' = [pending EXCEPT ![Conn] = FALSE]
            /\ posted' = [posted EXCEPT ![Conn] = posted[Conn] + 1]
        BY <2>2 DEF DnsAnswers, Dns!Answer
      <3>2. state_ = "RESOLVING" /\ posted[Conn] = 0
        BY <3>1 DEF ConnInv, DnsOnce
      <3>3. pending'[Conn] = FALSE /\ posted'[Conn] = 1
        BY <2>1, <3>1, <3>2
      <3> QED
        BY <1>1, <2>1, <3>1, <3>2, <3>3 DEF DnsOnce
    <2>3. CASE Network
      BY <1>1, <2>1, <2>3 DEF Network, dnsVars, ConnInv, DnsOnce
    <2> QED
      BY <2>2, <2>3
  <1>3. /\ link' \in {"none", "syn", "up", "reset"} /\ rx' \in 0..MaxIn /\ fin' \in BOOLEAN
        /\ link = "none" => link' = "none" /\ fin' = fin
    <2>1. link \in {"none", "syn", "up", "reset"} /\ rx \in 0..MaxIn /\ MaxIn \in Nat /\ fin \in BOOLEAN
      BY Types DEF ConnInv, TypeOK
    <2>2. CASE DnsAnswers
      BY <2>1, <2>2 DEF DnsAnswers, kernelVars
    <2>3. CASE Network
      <3>1. \/ link # "none" /\ link' \in {"up", "reset"} /\ UNCHANGED <<rx, fin>>
            \/ rx < MaxIn /\ rx' = rx + 1 /\ UNCHANGED <<link, fin>>
            \/ link # "none" /\ fin' = TRUE /\ UNCHANGED <<link, rx>>
        BY <2>3 DEF Network
      <3>2. rx < MaxIn => rx + 1 \in 0..MaxIn
        BY <2>1
      <3> QED
        BY <2>1, <3>1, <3>2
    <2> QED
      BY <2>2, <2>3
  <1>4. TypeOK'
    BY <1>1, <1>2, <1>3, TypesNext, Types DEF ConnInv, TypeOK, Dispatched, Closing
  <1>5. NoSocket' /\ ResourcesMatchState' /\ NoCheckFails'
    BY <1>1, <1>2, <1>3 DEF ConnInv, NoSocket, ResourcesMatchState, NoCheckFails
  <1>6. Dispatched'
    BY <1>1 DEF ConnInv, Dispatched, Closing
  <1> QED
    BY <1>2, <1>4, <1>5, <1>6 DEF ConnInv


\* What the loop dispatches: an event has at least one part.
LEMMA DispatchTodo ==
    ASSUME NEW a \in BOOLEAN, NEW b \in BOOLEAN, NEW c \in BOOLEAN, NEW t,
           t = (IF a THEN <<"error">> ELSE <<>>) \o (IF b THEN <<"read">> ELSE <<>>)
                 \o (IF c THEN <<"write">> ELSE <<>>)
    PROVE  /\ t \in Todos
           /\ t # <<>> /\ Head(t) = "error" => a
  <1> DEFINE x == IF a THEN <<"error">> ELSE <<>>
             y == IF b THEN <<"read">> ELSE <<>>
             z == IF c THEN <<"write">> ELSE <<>>
             S == {"error", "read", "write"}
  <1>1. /\ x \in Seq(S) /\ y \in Seq(S) /\ z \in Seq(S)
        /\ Len(x) = (IF a THEN 1 ELSE 0) /\ Len(y) = (IF b THEN 1 ELSE 0) /\ Len(z) = (IF c THEN 1 ELSE 0)
        /\ a => x[1] = "error"
        /\ b => y[1] = "read"
        /\ c => z[1] = "write"
    <2>1. ASSUME NEW d \in BOOLEAN, NEW h \in S, NEW w, w = IF d THEN <<h>> ELSE <<>>
          PROVE  w \in Seq(S) /\ Len(w) = (IF d THEN 1 ELSE 0) /\ (d => w[1] = h)
      <3>1. CASE d
        <4>1. w = <<h>>
          BY <2>1, <3>1
        <4> QED
          BY <3>1, <4>1
      <3>2. CASE ~d
        <4>1. w = <<>>
          BY <2>1, <3>2
        <4> QED
          BY <3>2, <4>1
      <3> QED
        BY <3>1, <3>2
    <2>2. "error" \in S /\ "read" \in S /\ "write" \in S
      OBVIOUS
    <2> HIDE DEF S
    <2>3. x \in Seq(S) /\ Len(x) = (IF a THEN 1 ELSE 0) /\ (a => x[1] = "error")
      BY <2>1, <2>2
    <2>4. y \in Seq(S) /\ Len(y) = (IF b THEN 1 ELSE 0) /\ (b => y[1] = "read")
      BY <2>1, <2>2
    <2>5. z \in Seq(S) /\ Len(z) = (IF c THEN 1 ELSE 0) /\ (c => z[1] = "write")
      BY <2>1, <2>2
    <2> HIDE DEF x, y, z
    <2> QED
      BY <2>3, <2>4, <2>5
  <1>2. t = (x \o y) \o z
    OBVIOUS
  <1> DEFINE u == x \o y
  <1>3. t = u \o z
    BY <1>2
  <1> HIDE DEF x, y, z, S
  <1>4. /\ u \in Seq(S) /\ Len(u) = Len(x) + Len(y)
        /\ \A i \in 1..Len(u) : u[i] = IF i <= Len(x) THEN x[i] ELSE y[i - Len(x)]
    <2>1. /\ u \in Seq(S) /\ Len(u) = Len(x) + Len(y)
          /\ \A i \in 1..(Len(x) + Len(y)) : u[i] = IF i <= Len(x) THEN x[i] ELSE y[i - Len(x)]
      BY <1>1, ConcatProperties, Zenon
    <2> HIDE DEF u
    <2> QED
      BY <2>1
  <1> HIDE DEF u
  <1>5. /\ t \in Seq(S) /\ Len(t) = Len(u) + Len(z)
        /\ \A i \in 1..Len(t) : t[i] = IF i <= Len(u) THEN u[i] ELSE z[i - Len(u)]
    BY <1>1, <1>3, <1>4, ConcatProperties
  <1>6. ASSUME NEW l \in Todos, Len(l) = Len(t), \A i \in 1..Len(t) : l[i] = t[i]
        PROVE  t \in Todos
    <2>1. l \in Seq(S)
      BY TodoFacts DEF S
    <2>2. l = t
      BY <1>5, <1>6, <2>1, SeqEqual
    <2> QED
      BY <2>2
  <1>7. t \in Todos
    <2>1. CASE a /\ b /\ c
      <3> DEFINE l == <<"error", "read", "write">>
      <3>1. l \in Todos /\ Len(l) = 3 /\ l[1] = "error" /\ l[2] = "read" /\ l[3] = "write"
        BY DEF Todos
      <3> HIDE DEF l
      <3> QED
        BY <1>1, <1>4, <1>5, <1>6, <2>1, <3>1
    <2>2. CASE a /\ b /\ ~c
      <3> DEFINE l == <<"error", "read">>
      <3>1. l \in Todos /\ Len(l) = 2 /\ l[1] = "error" /\ l[2] = "read"
        BY DEF Todos
      <3> HIDE DEF l
      <3> QED
        BY <1>1, <1>4, <1>5, <1>6, <2>2, <3>1
    <2>3. CASE a /\ ~b /\ c
      <3> DEFINE l == <<"error", "write">>
      <3>1. l \in Todos /\ Len(l) = 2 /\ l[1] = "error" /\ l[2] = "write"
        BY DEF Todos
      <3> HIDE DEF l
      <3> QED
        BY <1>1, <1>4, <1>5, <1>6, <2>3, <3>1
    <2>4. CASE a /\ ~b /\ ~c
      <3> DEFINE l == <<"error">>
      <3>1. l \in Todos /\ Len(l) = 1 /\ l[1] = "error"
        BY DEF Todos
      <3> HIDE DEF l
      <3> QED
        BY <1>1, <1>4, <1>5, <1>6, <2>4, <3>1
    <2>5. CASE ~a /\ b /\ c
      <3> DEFINE l == <<"read", "write">>
      <3>1. l \in Todos /\ Len(l) = 2 /\ l[1] = "read" /\ l[2] = "write"
        BY DEF Todos
      <3> HIDE DEF l
      <3> QED
        BY <1>1, <1>4, <1>5, <1>6, <2>5, <3>1
    <2>6. CASE ~a /\ b /\ ~c
      <3> DEFINE l == <<"read">>
      <3>1. l \in Todos /\ Len(l) = 1 /\ l[1] = "read"
        BY DEF Todos
      <3> HIDE DEF l
      <3> QED
        BY <1>1, <1>4, <1>5, <1>6, <2>6, <3>1
    <2>7. CASE ~a /\ ~b /\ c
      <3> DEFINE l == <<"write">>
      <3>1. l \in Todos /\ Len(l) = 1 /\ l[1] = "write"
        BY DEF Todos
      <3> HIDE DEF l
      <3> QED
        BY <1>1, <1>4, <1>5, <1>6, <2>7, <3>1
    <2>8. CASE ~a /\ ~b /\ ~c
      <3>1. Len(t) = 0
        BY <1>1, <1>4, <1>5, <2>8
      <3> QED
        BY <1>5, <3>1, EmptySeq, TodoFacts
    <2> QED
      BY <2>1, <2>2, <2>3, <2>4, <2>5, <2>6, <2>7, <2>8
  <1>8. ~a => t = <<>> \/ Head(t) # "error"
    <2> SUFFICES ASSUME ~a, t # <<>> PROVE Head(t) # "error"
      OBVIOUS
    <2>1. Len(t) \in Nat \ {0} /\ Head(t) = t[1]
      BY <1>5, EmptySeq
    <2>2. t[1] \in {"read", "write"}
      BY <1>1, <1>4, <1>5, <2>1
    <2> QED
      BY <2>1, <2>2
  <1> QED
    BY <1>7, <1>8

\* The loop polls an open connection.
LEMMA ConnPoll == ASSUME ConnInv, NEW room \in BOOLEAN, Poll(room) PROVE ConnInv'
  <1>1. /\ stack = <<>> /\ fd_ /\ rev' = Ready(room)
        /\ UNCHANGED <<state_, fd_, registered, want, read_closed_, write_closed_, outbuf, linger, pending,
                       posted, stack, aborted, link, rx, fin, told, misordered, flush>>
    BY DEF Poll, Idle, Dispatch, connVars, dnsVars, kernelVars, history
  <1>2. todo' \in Todos
    <2> DEFINE bits == Ready(room)
    <2>1. todo' = (IF bits \cap {"ERR", "HUP", "RDHUP"} # {} THEN <<"error">> ELSE <<>>)
                 \o (IF "IN" \in bits THEN <<"read">> ELSE <<>>)
                 \o (IF "OUT" \in bits THEN <<"write">> ELSE <<>>)
      BY DEF Poll, Dispatch
    <2> HIDE DEF bits
    <2> QED
      BY <2>1, DispatchTodo
  <1>3. rev' \subseteq Bits
    BY <1>1 DEF Ready, Bits
  <1>4. TypeOK'
    BY <1>1, <1>2, <1>3, TypesNext, Types DEF ConnInv, TypeOK, Dispatched, Closing
  <1>5. DnsOnce' /\ NoSocket' /\ ResourcesMatchState' /\ NoCheckFails'
    BY <1>1 DEF ConnInv, DnsOnce, NoSocket, ResourcesMatchState, NoCheckFails
  <1>6. Dispatched'
    BY <1>1, <1>2, FrameFacts DEF ConnInv, Dispatched, Closing
  <1> QED
    BY <1>4, <1>5, <1>6 DEF ConnInv

\* ForceClose, by the application outside the handlers or in one of them.
LEMMA ConnForceClose == ASSUME ConnInv, Tame, ForceClose PROVE ConnInv'
  <1>1. /\ posted[Conn] = 0 /\ InternalClose(stack) /\ state_ # "DISCONNECTED" /\ fd_ \in BOOLEAN
        /\ UNCHANGED <<todo, rev, aborted>>
        /\ stack = <<>> => todo = <<>>
    BY Types DEF ForceClose, Tame, InternalClose, ConnInv, AppRuns, Idle
  <1>2. stack # <<>> => Head(stack) # "write"
    BY DEF ForceClose, Tame
  <1>3. stack \in {<<>>, <<"connect">>, <<"read">>, <<"close_read">>, <<"close">>}
    <2>1. stack \in Frames /\ Len(stack) < 2
      BY DEF ForceClose, ConnInv, Dispatched
    <2> QED
      BY <1>2, <2>1 DEF Frames, Closing
  <1>4. /\ stack \in {<<>>, <<"close">>} => todo = <<>>
        /\ stack \notin {<<>>, <<"close">>} => todo # <<>>
    <2>1. stack \notin {<<>>, <<"close">>} => stack \notin Closing
      BY <1>3, FrameFacts DEF Closing
    <2> QED
      BY <1>1, <1>3, <2>1 DEF ConnInv, Dispatched, Closing
  <1> QED
    BY <1>1, <1>3, <1>4, CloseKeeps

\* The linger timeout of a connection that has flushed.
LEMMA ConnLingerTimeout == ASSUME ConnInv, LingerTimeout PROVE ConnInv'
  <1>1. /\ posted[Conn] = 0 /\ InternalClose(<<>>) /\ todo' = <<>> /\ UNCHANGED <<rev, aborted>>
    BY DEF LingerTimeout, Idle, ConnInv, DnsOnce, ResourcesMatchState
  <1> QED
    BY <1>1, CloseKeeps

\* HandleDnsResult: the connection still resolves, so its CHECK holds.
LEMMA ConnHandleDnsResult ==
    ASSUME ConnInv, Tame, NEW found \in BOOLEAN, HandleDnsResult(found)
    PROVE  ConnInv'
  <1>1. stack = <<>> /\ todo = <<>>
    BY DEF HandleDnsResult, Idle
  <1>2. state_ = "RESOLVING" /\ ~registered
    <2>1. posted[Conn] > 0
      BY DEF HandleDnsResult, Dns!Deliver
    <2>2. state_ = "RESOLVING"
      BY <2>1 DEF ConnInv, DnsOnce
    <2> QED
      BY <2>2, Types DEF ConnInv, ResourcesMatchState
  <1>3. /\ ~fd_ /\ outbuf = 0 /\ linger = FALSE /\ link = "none" /\ fd_ = FALSE /\ registered = FALSE
    BY <1>2, Types DEF ConnInv, ResourcesMatchState, NoSocket
  <1>4. Dns!Deliver(Conn) /\ UNCHANGED <<todo, rev, aborted, flush>>
    BY <1>2 DEF HandleDnsResult
  <1>5. /\ pending' = pending /\ posted' \in [{Conn} -> Nat]
        /\ pending[Conn] = FALSE /\ posted'[Conn] = 0
    <2>1. posted[Conn] > 0 /\ posted' = [posted EXCEPT ![Conn] = posted[Conn] - 1] /\ pending' = pending
      BY <1>4 DEF Dns!Deliver
    <2>2. pending[Conn] = FALSE /\ posted[Conn] = 1
      BY <1>2, <2>1, Types DEF ConnInv, DnsOnce
    <2>3. posted \in [{Conn} -> Nat]
      BY DEF ConnInv, TypeOK
    <2> QED
      BY <2>1, <2>2, <2>3
  <1> DEFINE Opened == /\ state_' = "CONNECTING" /\ fd_' = TRUE /\ registered' = TRUE /\ link' = "syn"
                       /\ stack' = <<>> /\ UNCHANGED <<told, misordered>>
             Failed == /\ state_' = "DISCONNECTED" /\ fd_' = FALSE /\ registered' = FALSE /\ link' = "none"
                       /\ stack' = <<"close">> /\ told' = "closed" /\ misordered' \in BOOLEAN
  <1>6. /\ Opened \/ Failed
        /\ read_closed_' \in BOOLEAN /\ write_closed_' \in BOOLEAN /\ want' \subseteq {"read", "write"}
        /\ UNCHANGED <<outbuf, linger, rx, fin>>
    <2>1. CASE found /\ OpenSocket(TRUE) /\ UNCHANGED <<stack, told, misordered>>
      BY <1>1, <1>3, <2>1, OpenSocketKeeps
    <2>2. ASSUME Invoke("close", <<>>) PROVE stack' = <<"close">> /\ told' = "closed" /\ misordered' \in BOOLEAN
      BY <2>2, FrameFacts, Types DEF Invoke, ConnInv
    <2>3. CASE found /\ OpenSocket(FALSE) /\ Invoke("close", <<>>)
      <3>1. want \subseteq {"read", "write"}
        BY DEF ConnInv, TypeOK
      <3> QED
        BY <1>3, <2>2, <2>3, <3>1, OpenSocketKeeps
    <2>4. CASE /\ ~found /\ state_' = "DISCONNECTED" /\ Invoke("close", <<>>)
               /\ UNCHANGED <<fd_, registered, want, read_closed_, write_closed_, outbuf, linger, kernelVars>>
      BY <1>3, <2>2, <2>4, Types DEF kernelVars, ConnInv, TypeOK
    <2> QED
      BY <1>2, <2>1, <2>3, <2>4 DEF HandleDnsResult
  <1>7. stack' \in Frames
    BY <1>6, FrameFacts DEF Frames, Closing
  <1>8. TypeOK'
    <2>1. /\ state_' \in States /\ fd_' \in BOOLEAN /\ registered' \in BOOLEAN /\ todo' \in Todos
          /\ link' \in {"none", "syn", "up", "reset"} /\ told' \in {"nothing", "connected", "closed"}
          /\ misordered' \in BOOLEAN
      BY <1>1, <1>4, <1>6, TodoFacts, Types DEF ConnInv, TypeOK, States
    <2> QED
      BY <1>4, <1>5, <1>6, <1>7, <2>1, TypesNext, Types DEF ConnInv, TypeOK
  <1>9. DnsOnce' /\ NoSocket' /\ ResourcesMatchState' /\ NoCheckFails'
    BY <1>3, <1>4, <1>5, <1>6 DEF ConnInv, DnsOnce, NoSocket, ResourcesMatchState, NoCheckFails
  <1>10. Dispatched'
    <2>1. todo' = <<>> /\ todo' \in Todos
      BY <1>1, <1>4, TodoFacts
    <2> QED
      BY <1>6, <1>7, <2>1, FrameFacts DEF Dispatched, Closing
  <1> QED
    BY <1>8, <1>9, <1>10 DEF ConnInv


\* A part of an event is handled by an open, registered connection.
LEMMA InEvent ==
    ASSUME ConnInv, NEW what, Handling(what)
    PROVE  /\ stack = <<>> /\ todo # <<>> /\ fd_ = TRUE /\ registered = TRUE /\ state_ \in Open
           /\ posted[Conn] = 0 /\ ~pending[Conn] /\ Tail(todo) \in Todos /\ aborted = FALSE
  <1>1. stack = <<>> /\ todo # <<>> /\ fd_ = TRUE /\ registered = TRUE /\ aborted = FALSE
    BY Types DEF Handling, ConnInv, Dispatched, ResourcesMatchState, Closing
  <1>2. Tail(todo) \in Todos
    BY <1>1, TodoFacts DEF ConnInv, Dispatched, Closing
  <1>3. state_ \in Open
    BY <1>1 DEF ConnInv, ResourcesMatchState, Open
  <1>4. posted[Conn] = 0 /\ ~pending[Conn]
    BY <1>3 DEF ConnInv, DnsOnce, Open
  <1> QED
    BY <1>1, <1>2, <1>3, <1>4

\* HandleErrorEvent closes, or leaves the rest to HandleReadEvent.
LEMMA ConnHandleErrorEvent == ASSUME ConnInv, HandleErrorEvent PROVE ConnInv'
  <1>1. Handling("error") /\ UNCHANGED <<rev, aborted>>
    BY DEF HandleErrorEvent
  <1>2. /\ stack = <<>> /\ todo # <<>> /\ fd_ = TRUE /\ registered = TRUE /\ state_ \in Open
        /\ posted[Conn] = 0 /\ ~pending[Conn] /\ Tail(todo) \in Todos
    BY <1>1, InEvent
  <1>3. CASE InternalClose(<<>>) /\ todo' = <<>>
    BY <1>1, <1>2, <1>3, CloseKeeps
  <1>4. CASE /\ ~("HUP" \in rev /\ state_ = "CONNECTING")
             /\ todo' = Tail(todo)
             /\ IF "HUP" \in rev
                  THEN write_closed_' = TRUE /\ UNCHANGED state_
                  ELSE state_' = "FLUSHING" /\ UNCHANGED write_closed_
             /\ UNCHANGED <<fd_, registered, want, read_closed_, outbuf, linger, dnsVars, stack,
                            kernelVars, history>>
    <2>1. /\ UNCHANGED <<fd_, registered, want, read_closed_, outbuf, linger, pending, posted, stack,
                         link, rx, fin, told, misordered, flush>>
          /\ state_' \in Open /\ (state_' # state_ => state_' = "FLUSHING")
          /\ write_closed_' \in BOOLEAN /\ (write_closed_ => write_closed_')
      BY <1>2, <1>4, Types DEF dnsVars, kernelVars, history, Open, ConnInv
    <2>2. TypeOK'
      BY <1>1, <1>2, <1>4, <2>1, TypesNext, Types DEF ConnInv, TypeOK, States, Dispatched, Open, Closing
    <2>3. DnsOnce' /\ NoSocket' /\ ResourcesMatchState' /\ NoCheckFails'
      BY <1>1, <1>2, <2>1, Types DEF ConnInv, DnsOnce, NoSocket, ResourcesMatchState, NoCheckFails, Open
    <2>4. Dispatched'
      BY <1>2, <1>4, <2>1 DEF ConnInv, Dispatched, Closing
    <2> QED
      BY <2>2, <2>3, <2>4 DEF ConnInv
  <1> QED
    BY <1>3, <1>4 DEF HandleErrorEvent

\* The connect is complete: the connect handler is called.
LEMMA ConnConnected == ASSUME ConnInv, NEW what, Connected(what) PROVE ConnInv'
  <1>1. Handling(what)
    BY DEF Connected
  <1>2. /\ stack = <<>> /\ todo # <<>> /\ fd_ = TRUE /\ registered = TRUE
        /\ posted[Conn] = 0 /\ ~pending[Conn]
    BY <1>1, InEvent
  <1>3. /\ state_ = "CONNECTING" /\ state_' = "CONNECTED" /\ stack' = <<"connect">>
        /\ told' = "connected" /\ misordered' \in BOOLEAN
        /\ UNCHANGED <<fd_, registered, want, read_closed_, write_closed_, outbuf, linger, pending, posted,
                       todo, rev, aborted, link, rx, fin, flush>>
    BY FrameFacts, Types DEF Connected, Invoke, dnsVars, kernelVars, ConnInv
  <1>4. stack' \in Frames /\ stack' # <<>> /\ stack' # <<"close">> /\ stack' # <<"write">> /\ Head(stack') # "close"
    BY <1>3 DEF Frames, Closing
  <1>5. TypeOK'
    BY <1>2, <1>3, <1>4, TypesNext, Types DEF ConnInv, TypeOK, States, Dispatched, Closing
  <1>6. DnsOnce' /\ NoSocket' /\ ResourcesMatchState' /\ NoCheckFails'
    BY <1>2, <1>3 DEF ConnInv, DnsOnce, NoSocket, ResourcesMatchState, NoCheckFails
  <1>7. Dispatched'
    BY <1>2, <1>3, <1>4 DEF ConnInv, Dispatched, Closing
  <1> QED
    BY <1>5, <1>6, <1>7 DEF ConnInv

\* The connect handler returns; the event goes on only if it left the connection open.
LEMMA ConnConnectHandlerReturns == ASSUME ConnInv, ConnectHandlerReturns PROVE ConnInv'
  <1>1. /\ stack = <<"connect">> /\ stack' = <<>>
        /\ todo' = IF state_ = "CONNECTED" THEN Tail(todo) ELSE <<>>
        /\ UNCHANGED <<state_, fd_, registered, want, read_closed_, write_closed_, outbuf, linger, pending,
                       posted, rev, aborted, link, rx, fin, told, misordered, flush>>
    BY DEF ConnectHandlerReturns, KeepProcessing, connVars, dnsVars, kernelVars, history
  <1>2. todo # <<>>
    BY <1>1 DEF ConnInv, Dispatched, Closing
  <1>3. todo' \in Todos /\ stack' \in Frames
    BY <1>1, <1>2, TodoFacts, StackFacts DEF ConnInv, Dispatched, Closing
  <1>4. TypeOK'
    BY <1>1, <1>3, TypesNext, Types DEF ConnInv, TypeOK
  <1>5. DnsOnce' /\ NoSocket' /\ ResourcesMatchState' /\ NoCheckFails'
    BY <1>1 DEF ConnInv, DnsOnce, NoSocket, ResourcesMatchState, NoCheckFails
  <1>6. Dispatched'
    <2>1. state_ = "CONNECTED" => fd_'
      BY <1>1 DEF ConnInv, ResourcesMatchState
    <2> QED
      BY <1>1, <1>3, <2>1, FrameFacts DEF Dispatched, Closing
  <1> QED
    BY <1>4, <1>5, <1>6 DEF ConnInv

\* HandleReadEvent: its CHECK holds; bytes, or the end of the stream.
LEMMA ConnHandleReadEvent == ASSUME ConnInv, HandleReadEvent PROVE ConnInv'
  <1>1. Handling("read") /\ state_ # "CONNECTING" /\ UNCHANGED rev
    BY DEF HandleReadEvent
  <1>2. /\ stack = <<>> /\ todo # <<>> /\ fd_ = TRUE /\ registered = TRUE /\ state_ \in {"CONNECTED", "FLUSHING"}
        /\ posted[Conn] = 0 /\ ~pending[Conn] /\ Tail(todo) \in Todos /\ aborted = FALSE
    BY <1>1, InEvent DEF Open
  <1>3. /\ rx' \in 0..MaxIn /\ misordered' \in BOOLEAN /\ read_closed_' \in BOOLEAN
        /\ told' = told
        /\ UNCHANGED <<state_, fd_, registered, want, write_closed_, outbuf, linger, pending, posted,
                       aborted, link, fin, flush>>
        /\ \/ stack' = <<"read">> /\ todo' = todo
           \/ stack' = <<"close_read">> /\ todo' = todo
           \/ stack' = <<>> /\ todo' = Tail(todo)
    <2>1. CASE rx > 0 /\ ReadSome
      <3>1. rx' \in 0..MaxIn
        BY <2>1, Types DEF ReadSome, ConnInv, TypeOK
      <3>2. stack' = <<"read">> /\ told' = told /\ misordered' \in BOOLEAN
        BY <2>1, FrameFacts, Types DEF ReadSome, Invoke, ConnInv
      <3> QED
        BY <2>1, <3>1, <3>2, Types DEF ReadSome, connVars, dnsVars, ConnInv
    <2>2. CASE ReadNothing
      <3>1. read_closed_' \in BOOLEAN
        BY <2>2, Types DEF ReadNothing, ConnInv
      <3>2. /\ \/ Invoke("close_read", <<>>) /\ todo' = todo
               \/ todo' = Tail(todo) /\ UNCHANGED <<stack, told, misordered>>
            /\ UNCHANGED <<state_, fd_, registered, want, write_closed_, outbuf, linger, pending, posted,
                           aborted, link, rx, fin, flush>>
        BY <2>2 DEF ReadNothing, dnsVars, kernelVars
      <3>3. Invoke("close_read", <<>>) => stack' = <<"close_read">> /\ told' = told /\ misordered' \in BOOLEAN
        BY FrameFacts, Types DEF Invoke, ConnInv
      <3>4. rx \in 0..MaxIn /\ misordered \in BOOLEAN
        BY Types DEF ConnInv, TypeOK
      <3> QED
        BY <1>2, <3>1, <3>2, <3>3, <3>4
    <2> QED
      BY <1>2, <2>1, <2>2 DEF HandleReadEvent
  <1>4. stack' \in Frames /\ todo' \in Todos
    BY <1>2, <1>3, StackFacts DEF ConnInv, Dispatched, AppHandlers, Closing
  <1>5. TypeOK'
    BY <1>1, <1>3, <1>4, TypesNext, Types DEF ConnInv, TypeOK
  <1>6. DnsOnce' /\ NoSocket' /\ ResourcesMatchState' /\ NoCheckFails'
    BY <1>2, <1>3 DEF ConnInv, DnsOnce, NoSocket, ResourcesMatchState, NoCheckFails
  <1>7. Dispatched'
    <2>1. stack' \in {<<"read">>, <<"close_read">>, <<>>} /\ (stack' # <<>> => todo' # <<>> /\ Head(stack') # "close")
      BY <1>2, <1>3, FrameFacts
    <2>2. stack' \notin Closing /\ stack' # <<"write">>
      BY <2>1, FrameFacts DEF Closing
    <2>3. fd_' = TRUE /\ state_' \notin {"RESOLVING", "CONNECTING"}
      BY <1>2, <1>3
    <2> QED
      BY <1>4, <2>1, <2>2, <2>3 DEF Dispatched
  <1> QED
    BY <1>5, <1>6, <1>7 DEF ConnInv


\* The read handler returns: it refused, it closed, or the event goes on.
LEMMA ConnReadHandlerReturns == ASSUME ConnInv, NEW ok \in BOOLEAN, ReadHandlerReturns(ok) PROVE ConnInv'
  <1>1. stack = <<"read">> /\ UNCHANGED <<rev, aborted>>
    BY DEF ReadHandlerReturns
  <1>2. todo # <<>> /\ Tail(todo) \in Todos /\ posted[Conn] = 0
    <2>1. stack \notin {<<>>} \cup Closing
      BY <1>1, FrameFacts DEF Closing
    <2>2. todo # <<>> /\ state_ # "RESOLVING"
      BY <2>1 DEF ConnInv, Dispatched, Closing
    <2> QED
      BY <2>2, TodoFacts DEF ConnInv, Dispatched, DnsOnce, Closing
  <1>3. CASE ~ok /\ InternalClose(<<>>) /\ todo' = <<>>
    BY <1>1, <1>2, <1>3, CloseKeeps
  <1> DEFINE Same == UNCHANGED <<state_, fd_, registered, want, read_closed_, write_closed_, outbuf, linger,
                                 pending, posted, link, rx, fin, told, flush>>
  <1>4. ASSUME Same, misordered' \in BOOLEAN, 
               \/ stack' = <<>> /\ todo' = <<>>
               \/ stack' = <<>> /\ todo' = Tail(todo) /\ fd_
               \/ stack' = <<"close_read">> /\ todo' = todo
        PROVE  ConnInv'
    <2>1. stack' \in Frames /\ todo' \in Todos
      BY <1>2, <1>4, StackFacts, TodoFacts DEF ConnInv, Dispatched, AppHandlers, Closing
    <2>2. TypeOK'
      BY <1>1, <1>4, <2>1, TypesNext, Types DEF ConnInv, TypeOK
    <2>3. DnsOnce' /\ NoSocket' /\ ResourcesMatchState' /\ NoCheckFails'
      BY <1>1, <1>4 DEF ConnInv, DnsOnce, NoSocket, ResourcesMatchState, NoCheckFails
    <2>4. Dispatched'
      <3>1. CASE stack' = <<>>
        BY <1>4, <2>1, <3>1, FrameFacts DEF Dispatched, Closing
      <3>2. CASE stack' = <<"close_read">>
        <4>1. /\ stack' # <<>> /\ stack' # <<"close">> /\ stack' # <<"write">> /\ Head(stack') # "close"
          BY <3>2
        <4>2. todo' # <<>> /\ state_' \notin {"RESOLVING", "CONNECTING"}
          <5>1. stack \notin {<<>>} \cup Closing
            BY <1>1, FrameFacts DEF Closing
          <5>2. stack' # <<>>
            BY <4>1
          <5> QED
            BY <1>2, <1>4, <5>1, <5>2 DEF ConnInv, Dispatched, Closing
        <4> QED
          BY <2>1, <4>1, <4>2 DEF Dispatched, Closing
      <3> QED
        BY <1>4, <3>1, <3>2
    <2> QED
      BY <2>2, <2>3, <2>4 DEF ConnInv
  <1>5. CASE /\ ~ok /\ stack' = <<>> /\ todo' = <<>> /\ UNCHANGED <<connVars, dnsVars, kernelVars, history>>
    <2>1. Same /\ misordered' \in BOOLEAN
      BY <1>5, Types DEF connVars, dnsVars, kernelVars, history, ConnInv
    <2> QED
      BY <1>4, <1>5, <2>1
  <1>6. CASE /\ ok /\ read_closed_ /\ Invoke("close_read", <<>>)
             /\ UNCHANGED <<connVars, dnsVars, todo, kernelVars, flush>>
    <2>1. stack' = <<"close_read">> /\ told' = told /\ misordered' \in BOOLEAN
      BY <1>6, FrameFacts, Types DEF Invoke, ConnInv
    <2>2. Same
      BY <1>6, <2>1 DEF connVars, dnsVars, kernelVars
    <2> QED
      BY <1>4, <1>6, <2>1, <2>2
  <1>7. CASE /\ ok /\ ~read_closed_ /\ stack' = <<>> /\ KeepProcessing(fd_)
             /\ UNCHANGED <<connVars, dnsVars, kernelVars, history>>
    <2>1. Same /\ misordered' \in BOOLEAN
      BY <1>7, Types DEF connVars, dnsVars, kernelVars, history, ConnInv
    <2> QED
      BY <1>4, <1>7, <2>1 DEF KeepProcessing
  <1> QED
    BY <1>3, <1>5, <1>6, <1>7 DEF ReadHandlerReturns

\* After the report of the closed read half: stop reading, close the write half.
LEMMA ConnCloseReadReturns == ASSUME ConnInv, CloseReadReturns PROVE ConnInv'
  <1>1. /\ stack = <<"close_read">> /\ stack' = <<>>
        /\ todo' = IF fd_ THEN Tail(todo) ELSE <<>>
        /\ IF fd_
             THEN /\ state_' = IF write_closed_ THEN state_ ELSE "FLUSHING"
                  /\ want' = (want \ {"read"}) \cup (IF write_closed_ THEN {} ELSE {"write"})
             ELSE UNCHANGED <<state_, want>>
        /\ UNCHANGED <<fd_, registered, read_closed_, write_closed_, outbuf, linger, pending, posted, rev,
                       aborted, link, rx, fin, told, misordered, flush>>
    BY DEF CloseReadReturns, KeepProcessing, dnsVars, kernelVars, history
  <1>2. todo # <<>> /\ state_ \notin {"RESOLVING", "CONNECTING"}
    BY <1>1 DEF ConnInv, Dispatched, Closing
  <1>3. todo' \in Todos /\ stack' \in Frames
    BY <1>1, <1>2, TodoFacts, StackFacts DEF ConnInv, Dispatched, Closing
  <1>4. TypeOK'
    <2>1. state_' \in States /\ want' \subseteq {"read", "write"}
      BY <1>1 DEF ConnInv, TypeOK, States
    <2> QED
      BY <1>1, <1>3, <2>1, TypesNext, Types DEF ConnInv, TypeOK
  <1>5. DnsOnce' /\ NoSocket' /\ NoCheckFails'
    BY <1>1, <1>2 DEF ConnInv, DnsOnce, NoSocket, NoCheckFails, ResourcesMatchState
  <1>6. ResourcesMatchState'
    BY <1>1, <1>2 DEF ConnInv, ResourcesMatchState
  <1>7. Dispatched'
    BY <1>1, <1>3, FrameFacts DEF Dispatched, Closing
  <1> QED
    BY <1>4, <1>5, <1>6, <1>7 DEF ConnInv

\* The end of HandleWriteEvent: the connection is still registered.
LEMMA WriteEndsKeeps ==
    ASSUME ConnInv, fd_, stack \in {<<>>, <<"write">>}, NEW left \in 0..outbuf, WriteEnds(left),
           UNCHANGED rev
    PROVE  ConnInv'
  <1>1. /\ registered = TRUE /\ fd_ = TRUE /\ posted[Conn] = 0 /\ ~pending[Conn] /\ state_ \in Open
    BY Types DEF ConnInv, ResourcesMatchState, DnsOnce, Open
  <1>2. CASE left = 0 /\ InternalClose(<<>>) /\ todo' = <<>> /\ UNCHANGED aborted
    BY <1>1, <1>2, CloseKeeps
  <1> DEFINE Rest == /\ outbuf' \in 0..MaxOut /\ want' \subseteq {"read", "write"}
                     /\ outbuf' > 0 => "write" \in want'
                     /\ write_closed_' \in BOOLEAN /\ linger' \in BOOLEAN
                     /\ write_closed_ => write_closed_'
                     /\ linger' => state_ = "FLUSHING" /\ write_closed_'
                     /\ stack' = <<>> /\ todo' = <<>>
                     /\ UNCHANGED <<state_, fd_, registered, read_closed_, pending, posted, aborted,
                                    link, rx, fin, told, misordered, flush>>
  <1>3. ASSUME Rest PROVE ConnInv'
    <2>1. stack' \in Frames /\ todo' \in Todos
      BY <1>3, StackFacts, TodoFacts
    <2>2. TypeOK'
      BY <1>3, <2>1, TypesNext, Types DEF ConnInv, TypeOK
    <2>3. DnsOnce' /\ NoSocket' /\ NoCheckFails'
      BY <1>1, <1>3 DEF ConnInv, DnsOnce, NoSocket, NoCheckFails
    <2>4. ResourcesMatchState'
      BY <1>1, <1>3 DEF ConnInv, ResourcesMatchState, Open
    <2>5. Dispatched'
      BY <1>3, <2>1, FrameFacts DEF Dispatched, Closing
    <2> QED
      BY <2>2, <2>3, <2>4, <2>5 DEF ConnInv
  <1>4. CASE /\ left > 0 /\ outbuf' = left /\ todo' = <<>> /\ stack' = <<>>
             /\ UNCHANGED <<state_, fd_, registered, want, read_closed_, write_closed_, linger, dnsVars,
                            aborted, kernelVars, history>>
    <2>1. left \in 0..MaxOut /\ outbuf > 0 /\ "write" \in want
      BY <1>1, <1>4, Types DEF ConnInv, TypeOK, ResourcesMatchState
    <2>2. Rest
      BY <1>4, <2>1, Types DEF dnsVars, kernelVars, history, ConnInv, TypeOK, ResourcesMatchState
    <2> QED
      BY <1>3, <2>2
  <1>5. CASE /\ left = 0
             /\ want' = want \ {"write"}
             /\ outbuf' = 0
             /\ write_closed_' = (write_closed_ \/ state_ = "FLUSHING")
             /\ linger' = (linger \/ state_ = "FLUSHING")
             /\ stack' = <<>> /\ todo' = <<>>
             /\ UNCHANGED <<state_, fd_, registered, read_closed_, dnsVars, kernelVars, history, aborted>>
    <2>1. /\ write_closed_' \in BOOLEAN /\ linger' \in BOOLEAN
          /\ write_closed_ => write_closed_'
          /\ linger' => state_ = "FLUSHING" /\ write_closed_'
      BY <1>5, Types DEF ConnInv, ResourcesMatchState
    <2>2. /\ UNCHANGED <<state_, fd_, registered, read_closed_, pending, posted, aborted,
                         link, rx, fin, told, misordered, flush>>
          /\ outbuf' \in 0..MaxOut /\ want' \subseteq {"read", "write"} /\ ~(outbuf' > 0)
      BY <1>5, Types DEF dnsVars, kernelVars, history, ConnInv, TypeOK
    <2>3. Rest
      BY <1>5, <2>1, <2>2
    <2> QED
      BY <1>3, <2>3
  <1> QED
    <2>1. left = 0 \/ left > 0
      BY Types DEF ConnInv
    <2>2. CASE left = 0
      <3> DEFINE Body(down) ==
                   IF state_ = "FLUSHING" /\ ~down
                     THEN InternalClose(<<>>)
                     ELSE /\ want' = want \ {"write"}
                          /\ outbuf' = 0
                          /\ write_closed_' = (write_closed_ \/ state_ = "FLUSHING")
                          /\ linger' = (linger \/ state_ = "FLUSHING")
                          /\ stack' = <<>>
                          /\ UNCHANGED <<state_, fd_, registered, read_closed_, dnsVars, kernelVars, history>>
      <3>1. /\ \E down \in {TRUE} \cup {link # "reset"} : Body(down)
            /\ todo' = <<>> /\ UNCHANGED aborted
        <4>1. ~(left > 0) /\ ~(left = 0 /\ ~registered)
          BY <1>1, <2>2
        <4> QED
          BY <4>1 DEF WriteEnds
      <3>2. PICK down \in {TRUE} \cup {link # "reset"} : Body(down)
        BY <3>1
      <3> QED
        BY <1>2, <1>5, <2>2, <3>1, <3>2
    <2>3. CASE left > 0
      <3>1. left # 0
        BY <2>3, Types DEF ConnInv
      <3> QED
        BY <1>4, <2>3, <3>1 DEF WriteEnds
    <2> QED
      BY <2>1, <2>2, <2>3

\* HandleWriteEvent: its CHECK holds; a failed write closes.
LEMMA ConnHandleWriteEvent == ASSUME ConnInv, HandleWriteEvent PROVE ConnInv'
  <1>1. Handling("write") /\ state_ # "CONNECTING" /\ UNCHANGED rev
    BY DEF HandleWriteEvent
  <1>2. /\ stack = <<>> /\ todo # <<>> /\ fd_ = TRUE /\ registered = TRUE /\ state_ \in {"CONNECTED", "FLUSHING"}
        /\ posted[Conn] = 0 /\ ~pending[Conn] /\ Tail(todo) \in Todos /\ aborted = FALSE
    BY <1>1, InEvent DEF Open
  <1>3. WriteSome
    BY <1>2 DEF HandleWriteEvent
  <1>4. CASE InternalClose(<<>>) /\ todo' = <<>> /\ UNCHANGED aborted
    BY <1>1, <1>2, <1>4, CloseKeeps
  <1>5. ASSUME NEW left \in 0..outbuf, outbuf > 0 => left < outbuf, state_ = "FLUSHING", WriteEnds(left)
        PROVE  ConnInv'
    BY <1>1, <1>2, <1>5, WriteEndsKeeps
  <1>6. ASSUME NEW left \in 0..outbuf, outbuf > 0 => left < outbuf, state_ # "FLUSHING",
               outbuf' = left, Invoke("write", <<>>),
               UNCHANGED <<state_, fd_, registered, want, read_closed_, write_closed_,
                           linger, dnsVars, todo, aborted, kernelVars, flush>>
        PROVE  ConnInv'
    <2>1. stack' = <<"write">> /\ told' = told /\ misordered' \in BOOLEAN
      BY <1>6, FrameFacts, Types DEF Invoke, ConnInv
    <2>2. left \in 0..MaxOut /\ (left > 0 => outbuf > 0)
      BY <1>6, Types DEF ConnInv, TypeOK
    <2>3. stack' \in Frames
      BY <2>1, StackFacts DEF AppHandlers
    <2>4. TypeOK'
      BY <1>1, <1>2, <1>6, <2>1, <2>2, <2>3, TypesNext, Types DEF ConnInv, TypeOK, Dispatched, dnsVars, kernelVars, Closing
    <2>5. DnsOnce' /\ NoSocket' /\ ResourcesMatchState' /\ NoCheckFails'
      BY <1>2, <1>6, <2>2 DEF ConnInv, DnsOnce, NoSocket, ResourcesMatchState, NoCheckFails, dnsVars, kernelVars
    <2>6. Dispatched'
      <3>1. stack' # <<>> /\ stack' # <<"close">> /\ Head(stack') # "close"
        BY <2>1
      <3>2. todo' = todo /\ state_' = state_ /\ fd_' = fd_
        BY <1>6
      <3> QED
        BY <1>2, <2>3, <3>1, <3>2 DEF ConnInv, Dispatched, Closing
    <2> QED
      BY <2>4, <2>5, <2>6 DEF ConnInv
  <1> QED
    BY <1>3, <1>4, <1>5, <1>6 DEF WriteSome

\* The write handler returns; it has not closed the connection itself.
LEMMA ConnWriteHandlerReturns == ASSUME ConnInv, NEW ok \in BOOLEAN, WriteHandlerReturns(ok) PROVE ConnInv'
  <1>1. stack = <<"write">> /\ UNCHANGED rev
    BY DEF WriteHandlerReturns
  <1>2. fd_ = TRUE /\ state_ \in Open /\ posted[Conn] = 0
    <2>1. fd_ = TRUE
      BY <1>1, Types DEF ConnInv, Dispatched, Closing
    <2> QED
      BY <2>1 DEF ConnInv, ResourcesMatchState, Open, DnsOnce
  <1>3. CASE ~ok
    <2>1. InternalClose(<<>>) /\ todo' = <<>> /\ UNCHANGED aborted
      BY <1>2, <1>3 DEF WriteHandlerReturns, Open
    <2> QED
      BY <1>1, <1>2, <2>1, CloseKeeps
  <1>4. CASE ok
    <2>1. outbuf \in 0..outbuf
      BY Types DEF ConnInv
    <2>2. WriteEnds(outbuf)
      BY <1>4 DEF WriteHandlerReturns
    <2> QED
      BY <1>1, <1>2, <2>1, <2>2, WriteEndsKeeps
  <1> QED
    BY <1>3, <1>4

\* The close handler returns to the handler that closed, or to the loop.
LEMMA ConnCloseHandlerReturns == ASSUME ConnInv, CloseHandlerReturns PROVE ConnInv'
  <1>1. /\ stack # <<>> /\ Head(stack) = "close" /\ stack' = Tail(stack)
        /\ UNCHANGED <<state_, fd_, registered, want, read_closed_, write_closed_, outbuf, linger, pending,
                       posted, todo, rev, aborted, link, rx, fin, told, misordered, flush>>
    BY DEF CloseHandlerReturns, connVars, dnsVars, kernelVars, history
  <1>2. stack \in Frames
    BY DEF ConnInv, Dispatched
  <1>3. /\ stack' \in {<<>>, <<"connect">>, <<"read">>, <<"close_read">>, <<"close">>}
        /\ stack' \in {<<>>, <<"close">>} <=> stack \in Closing
    BY <1>1, <1>2, StackFacts
  <1>4. stack' \in Frames
    BY <1>3, StackFacts DEF AppHandlers
  <1>5. TypeOK'
    BY <1>1, <1>4, TypesNext, Types DEF ConnInv, TypeOK, Dispatched
  <1>6. DnsOnce' /\ NoSocket' /\ ResourcesMatchState' /\ NoCheckFails'
    BY <1>1 DEF ConnInv, DnsOnce, NoSocket, ResourcesMatchState, NoCheckFails
  <1>7. Dispatched'
    <2>1. CASE stack' \in {<<>>, <<"close">>}
      <3>1. todo' = <<>> /\ todo' \in Todos
        BY <1>1, <1>3, <2>1 DEF ConnInv, Dispatched
      <3> QED
        BY <1>4, <2>1, <3>1, FrameFacts DEF Dispatched, Closing
    <2>2. CASE stack' \notin {<<>>, <<"close">>}
      <3>1. Head(stack') # "close" /\ stack' # <<>> /\ stack' # <<"write">>
        BY <1>3, <2>2
      <3>2. /\ todo' # <<>> /\ todo' \in Todos
            /\ state_' \notin {"RESOLVING", "CONNECTING"}
        BY <1>1, <1>3, <2>2 DEF ConnInv, Dispatched
      <3>3. stack' \notin Closing
        BY <3>1, FrameFacts DEF Closing
      <3> QED
        BY <1>4, <3>1, <3>2, <3>3 DEF Dispatched
    <2> QED
      BY <2>1, <2>2
  <1> QED
    BY <1>5, <1>6, <1>7 DEF ConnInv


-----------------------------------------------------------------------------
(* Theorems about resources and CHECKs *)

\* A new connection.
LEMMA InitConn == Init => ConnInv
  <1> SUFFICES ASSUME Init PROVE ConnInv
    OBVIOUS
  <1>1. /\ state_ = "DISCONNECTED" /\ fd_ = FALSE /\ registered = FALSE /\ want = {"read"}
        /\ read_closed_ = TRUE /\ write_closed_ = TRUE /\ outbuf = 0 /\ linger = FALSE
        /\ stack = <<>> /\ todo = <<>> /\ rev = {} /\ aborted = FALSE
        /\ link = "none" /\ rx = 0 /\ fin = FALSE
        /\ told = "nothing" /\ misordered = FALSE /\ flush = FALSE
    BY DEF Init
  <1>2. pending = [h \in {Conn} |-> FALSE] /\ posted = [h \in {Conn} |-> 0]
    BY DEF Init, Dns!Init
  <1>3. /\ pending \in [{Conn} -> BOOLEAN] /\ posted \in [{Conn} -> Nat]
        /\ pending[Conn] = FALSE /\ posted[Conn] = 0
    BY <1>2
  <1>4. stack \in Frames /\ todo \in Todos
    BY <1>1, StackFacts, TodoFacts
  <1>5. TypeOK
    <2>1. stack \in Seq(AppHandlers) /\ Len(stack) <= 2 /\ todo \in Seq({"error", "read", "write"})
      BY <1>4, StackFacts, TodoFacts
    <2>2. /\ <<fd_, registered, read_closed_, write_closed_>> \in BOOLEAN \X BOOLEAN \X BOOLEAN \X BOOLEAN
          /\ <<fin, aborted, misordered, flush>> \in BOOLEAN \X BOOLEAN \X BOOLEAN \X BOOLEAN
      BY <1>1
    <2>3. outbuf \in 0..MaxOut /\ rx \in 0..MaxIn
      BY <1>1, TcpAssumption
    <2> QED
      BY <1>1, <1>3, <2>1, <2>2, <2>3 DEF TypeOK, States
  <1>6. DnsOnce /\ NoSocket /\ ResourcesMatchState /\ NoCheckFails
    BY <1>1, <1>3 DEF DnsOnce, NoSocket, ResourcesMatchState, NoCheckFails
  <1>7. Dispatched
    BY <1>1, <1>4, FrameFacts DEF Dispatched, Closing
  <1> QED
    BY <1>5, <1>6, <1>7 DEF ConnInv

\* Every step keeps the connection's resources in order.
LEMMA NextConn == ASSUME Tame PROVE ConnInv /\ [Next]_vars => ConnInv'
  <1> SUFFICES ASSUME ConnInv, [Next]_vars PROVE ConnInv'
    OBVIOUS
  <1>1. CASE UNCHANGED vars
    <2>1. UNCHANGED <<state_, fd_, registered, want, read_closed_, write_closed_, outbuf, linger, pending,
                      posted, stack, todo, rev, aborted, link, rx, fin, told, misordered, flush>>
      BY <1>1 DEF vars, connVars, dnsVars, loopVars, kernelVars, history
    <2> QED
      BY <2>1 DEF ConnInv, TypeOK, DnsOnce, NoSocket, Dispatched, ResourcesMatchState, NoCheckFails, Closing
  <1>2. CASE App
    BY <1>2, ConnConnectAddress, ConnConnectName, ConnWrap, ConnForceClose, ConnFlushAndClose, ConnWrite DEF App
  <1>3. CASE HandlerReturns
    BY <1>3, ConnConnectHandlerReturns, ConnReadHandlerReturns, ConnWriteHandlerReturns,
       ConnCloseReadReturns, ConnCloseHandlerReturns DEF HandlerReturns
  <1>4. CASE LoopStep
    BY <1>3, <1>4, ConnHandleDnsResult, ConnHandleErrorEvent, ConnConnected, ConnHandleReadEvent,
       ConnHandleWriteEvent DEF LoopStep
  <1>5. ASSUME NEW room \in BOOLEAN, Poll(room) PROVE ConnInv'
    BY <1>5, ConnPoll
  <1> QED
    BY <1>1, <1>2, <1>4, <1>5, ConnLingerTimeout, ConnOutside DEF Next

\* Descriptor, registration, timeout, query and output buffer fit the state of the
\* connection, whatever handlers, peer and resolver do and in whatever order.
THEOREM ResourcesFit ==
    ASSUME Tame
    PROVE  Spec => []ResourcesMatchState
  <1>1. ConnInv => ResourcesMatchState
    BY DEF ConnInv
  <1> QED
    BY InitConn, NextConn, <1>1, PTL DEF Spec

\* The CHECKs of HandleDnsResult, HandleReadEvent, HandleWriteEvent, FlushAndClose
\* and those of the selector about registration hold.
THEOREM ChecksHold ==
    ASSUME Tame
    PROVE  Spec => []NoCheckFails
  <1>1. ConnInv => NoCheckFails
    BY DEF ConnInv
  <1> QED
    BY InitConn, NextConn, <1>1, PTL DEF Spec

\* The state of a connection stays well typed, and handlers nest at most twice.
THEOREM TypeCorrect ==
    ASSUME Tame
    PROVE  Spec => []TypeOK
  <1>1. ConnInv => TypeOK
    BY DEF ConnInv
  <1> QED
    BY InitConn, NextConn, <1>1, PTL DEF Spec

-----------------------------------------------------------------------------
(* The order of the handlers: in addition the peer does not close before the
   loop has seen the connect complete. *)

Orderly == Situations \subseteq {"close_in_read"}

\* The complete close is reported once.
LEMMA OrderClose ==
    ASSUME ConnInv, OrderInv, posted[Conn] = 0, NEW frames, InternalClose(frames)
    PROVE  OrderInv'
  <1>1. /\ state_ # "DISCONNECTED" /\ state_' = "DISCONNECTED"
        /\ misordered' \in BOOLEAN /\ (misordered' => misordered \/ told = "closed")
    BY Closed
  <1>2. told # "closed"
    BY <1>1 DEF ConnInv, TypeOK, States, OrderInv, Told
  <1> QED
    BY <1>1, <1>2, Types DEF ConnInv, OrderInv, Told, HandlersInOrder

\* Nothing is reported, and the connection goes on.
LEMMA OrderQuiet ==
    ASSUME OrderInv, UNCHANGED <<told, misordered, fin>>,
           \/ state_' = state_ \/ state_' = "DISCONNECTED"
           \/ {state_, state_'} \subseteq {"CONNECTED", "FLUSHING"},
           state_' = "CONNECTING" =>
              (todo' # <<>> /\ Head(todo') = "error" => "ERR" \in rev')
    PROVE  OrderInv'
  BY DEF OrderInv, Told, HandlersInOrder

\* What the application does.
LEMMA OrderApp == ASSUME ConnInv, OrderInv, Orderly, App PROVE OrderInv'
  <1>1. Tame
    BY DEF Orderly, Tame
  <1>2. CASE ForceClose
    <2>1. posted[Conn] = 0 /\ InternalClose(stack)
      BY <1>2 DEF ForceClose, Orderly
    <2> QED
      BY <2>1, OrderClose
  <1>3. CASE ConnectAddress
    <2>1. state_ = "DISCONNECTED" /\ ~fd_ /\ ~registered /\ todo = <<>>
      BY <1>1, <1>3, WhereToConnect DEF ConnectAddress, ConnInv, ResourcesMatchState
    <2>2. PICK ok \in BOOLEAN : OpenSocket(ok)
      BY <1>3, <2>1 DEF ConnectAddress
    <2>3. /\ ok => state_' = "CONNECTING"
          /\ ~ok => state_' = "DISCONNECTED"
          /\ fin' = fin
      BY <1>1, <2>1, <2>2, OpenSocketKeeps
    <2>4. told' = "nothing" /\ UNCHANGED <<todo, misordered>>
      BY <1>3, <2>1 DEF ConnectAddress, loopVars
    <2>5. ~fin
      BY <2>1 DEF ConnInv, NoSocket
    <2> QED
      BY <2>1, <2>3, <2>4, <2>5 DEF OrderInv, Told, HandlersInOrder
  <1>4. CASE ConnectName
    BY <1>4 DEF ConnectName, OrderInv, Told, HandlersInOrder
  <1>5. CASE Wrap
    BY <1>5 DEF Wrap, OrderInv, Told, HandlersInOrder
  <1>6. CASE FlushAndClose
    <2>1. /\ state_ \in {"CONNECTED", "FLUSHING"} /\ fd_
      BY <1>6 DEF FlushAndClose, ConnInv, ResourcesMatchState, Orderly
    <2>2. /\ state_' \in {"CONNECTED", "FLUSHING"}
          /\ UNCHANGED <<todo, rev, fin, told, misordered>>
      BY <1>6, <2>1 DEF FlushAndClose, CloseWrite, loopVars, kernelVars
    <2> QED
      BY <2>1, <2>2, OrderQuiet
  <1>7. CASE Write \/ \E b \in BOOLEAN : RequestReadEvents(b)
    <2>1. UNCHANGED <<state_, todo, rev, fin, told, misordered>>
      BY <1>7 DEF Write, RequestReadEvents, loopVars, kernelVars, history
    <2> QED
      BY <2>1 DEF OrderInv, Told, HandlersInOrder
  <1> QED
    BY <1>2, <1>3, <1>4, <1>5, <1>6, <1>7 DEF App


\* The end of HandleWriteEvent reports nothing, or the close after a failed shutdown.
LEMMA OrderWriteEnds ==
    ASSUME ConnInv, OrderInv, state_ \notin {"RESOLVING", "CONNECTING"}, posted[Conn] = 0,
           NEW left \in 0..outbuf, WriteEnds(left)
    PROVE  OrderInv'
  <1>1. CASE InternalClose(<<>>)
    BY <1>1, OrderClose
  <1>2. CASE UNCHANGED <<state_, told, misordered, fin>>
    BY <1>2, OrderQuiet
  <1>3. CASE left > 0 /\ UNCHANGED <<state_, kernelVars, history>>
    BY <1>2, <1>3 DEF kernelVars, history
  <1>4. CASE left = 0 /\ ~registered /\ Abort
    BY <1>2, <1>4 DEF Abort, connVars, kernelVars, history
  <1>5. CASE \E down \in {TRUE} \cup {link # "reset"} :
               \/ InternalClose(<<>>)
               \/ UNCHANGED <<state_, kernelVars, history>>
    BY <1>1, <1>2, <1>5 DEF kernelVars, history
  <1> QED
    BY <1>3, <1>4, <1>5 DEF WriteEnds

\* The answer of the resolver: a connection attempt begins, or the close is reported.
LEMMA OrderHandleDnsResult ==
    ASSUME ConnInv, OrderInv, Orderly, NEW found \in BOOLEAN, HandleDnsResult(found)
    PROVE  OrderInv'
  <1>1. Tame
    BY DEF Orderly, Tame
  <1>2. state_ = "RESOLVING" /\ ~registered /\ ~fd_ /\ todo = <<>> /\ ~fin
    <2>1. posted[Conn] > 0 /\ todo = <<>>
      BY DEF HandleDnsResult, Dns!Deliver, Idle
    <2>2. state_ = "RESOLVING"
      BY <2>1 DEF ConnInv, DnsOnce
    <2> QED
      BY <2>1, <2>2 DEF ConnInv, ResourcesMatchState, NoSocket
  <1>3. told = "nothing" /\ misordered = FALSE /\ todo' = todo
    BY <1>2, Types DEF OrderInv, Told, HandlersInOrder, ConnInv, HandleDnsResult
  <1>4. ASSUME Invoke("close", <<>>) PROVE misordered' = FALSE
    BY <1>3, <1>4 DEF Invoke
  <1>5. CASE found /\ OpenSocket(TRUE) /\ UNCHANGED <<stack, told, misordered>>
    <2>1. state_' = "CONNECTING" /\ fin' = fin
      BY <1>5 DEF OpenSocket
    <2> QED
      BY <1>2, <1>3, <1>5, <2>1 DEF OrderInv, Told, HandlersInOrder
  <1>6. CASE found /\ OpenSocket(FALSE) /\ Invoke("close", <<>>)
    <2>1. state_' = "DISCONNECTED"
      BY <1>1, <1>6 DEF OpenSocket, Tame
    <2> QED
      BY <1>4, <1>6, <2>1 DEF OrderInv, Told, HandlersInOrder
  <1>7. CASE ~found /\ state_' = "DISCONNECTED" /\ Invoke("close", <<>>)
    BY <1>4, <1>7 DEF OrderInv, Told, HandlersInOrder
  <1> QED
    BY <1>2, <1>5, <1>6, <1>7 DEF HandleDnsResult

\* The handlers of an event: connect first, then read, write and the close.
LEMMA OrderEvent ==
    ASSUME ConnInv, OrderInv,
           \/ HandleErrorEvent
           \/ \E what \in {"read", "write"} : Connected(what)
           \/ HandleReadEvent
           \/ HandleWriteEvent
    PROVE  OrderInv'
  <1>1. PICK what \in {"error", "read", "write"} : Handling(what)
    BY DEF HandleErrorEvent, Connected, HandleReadEvent, HandleWriteEvent
  <1>2. state_ \in Open /\ posted[Conn] = 0 /\ misordered = FALSE
    BY <1>1, InEvent, Types DEF ConnInv, OrderInv, HandlersInOrder
  <1>3. CASE InternalClose(<<>>)
    BY <1>2, <1>3, OrderClose
  <1>4. CASE HandleErrorEvent
    <2>1. CASE "ERR" \in rev \/ "IN" \notin rev \/ ("HUP" \in rev /\ state_ = "CONNECTING")
      BY <1>3, <1>4, <2>1 DEF HandleErrorEvent
    <2>2. CASE ~("ERR" \in rev \/ "IN" \notin rev \/ ("HUP" \in rev /\ state_ = "CONNECTING"))
      <3>1. state_ \in {"CONNECTED", "FLUSHING"}
        BY <1>2, <1>4, <2>2 DEF HandleErrorEvent, Handling, OrderInv, Told, Open
      <3>2. state_' \in {"CONNECTED", "FLUSHING"} /\ UNCHANGED <<told, misordered, fin>>
        BY <1>4, <2>2, <3>1 DEF HandleErrorEvent, history, kernelVars
      <3> QED
        BY <3>1, <3>2, OrderQuiet
    <2> QED
      BY <2>1, <2>2
  <1>5. CASE \E w \in {"read", "write"} : Connected(w)
    <2>1. state_ = "CONNECTING" /\ state_' = "CONNECTED" /\ Invoke("connect", <<>>)
      BY <1>5 DEF Connected
    <2>2. told = "nothing"
      BY <2>1 DEF OrderInv, Told
    <2>3. told' = "connected" /\ misordered' = FALSE
      BY <1>2, <2>1, <2>2 DEF Invoke
    <2> QED
      BY <2>1, <2>3 DEF OrderInv, Told, HandlersInOrder
  <1>6. ASSUME state_ \in {"CONNECTED", "FLUSHING"}, state_' = state_, fin' = fin,
               NEW h \in {"read", "write", "close_read"}, Invoke(h, <<>>)
        PROVE  OrderInv'
    <2>1. told = "connected"
      BY <1>6 DEF OrderInv, Told
    <2>2. told' = told /\ misordered' = misordered
      BY <1>2, <1>6, <2>1 DEF Invoke
    <2> QED
      BY <1>6, <2>2, OrderQuiet
  <1>7. CASE HandleReadEvent
    <2>1. state_ \in {"CONNECTED", "FLUSHING"}
      BY <1>2, <1>7 DEF HandleReadEvent, Open
    <2>2. CASE ReadSome
      <3>1. Invoke("read", <<>>) /\ state_' = state_ /\ fin' = fin
        BY <2>2 DEF ReadSome, connVars
      <3> QED
        BY <1>6, <2>1, <3>1
    <2>3. CASE ReadNothing
      <3>1. /\ Invoke("close_read", <<>>) \/ UNCHANGED <<told, misordered>>
            /\ state_' = state_ /\ fin' = fin
        BY <2>3 DEF ReadNothing, kernelVars
      <3> QED
        BY <1>6, <2>1, <3>1, OrderQuiet
    <2> QED
      BY <1>7, <2>1, <2>2, <2>3 DEF HandleReadEvent
  <1>8. CASE HandleWriteEvent
    <2>1. state_ \in {"CONNECTED", "FLUSHING"} /\ WriteSome
      BY <1>2, <1>8 DEF HandleWriteEvent, Open
    <2>2. ASSUME NEW left \in 0..outbuf, WriteEnds(left) PROVE OrderInv'
      BY <1>2, <2>1, <2>2, OrderWriteEnds
    <2>3. ASSUME Invoke("write", <<>>), UNCHANGED <<state_, kernelVars>> PROVE OrderInv'
      BY <1>6, <2>1, <2>3 DEF kernelVars
    <2> QED
      BY <1>3, <2>1, <2>2, <2>3 DEF WriteSome
  <1> QED
    BY <1>4, <1>5, <1>7, <1>8

\* A handler returns.
LEMMA OrderReturns == ASSUME ConnInv, OrderInv, HandlerReturns PROVE OrderInv'
  <1> DEFINE Handler == stack \in {<<"connect">>, <<"read">>, <<"write">>, <<"close_read">>}
  <1>1. Handler => stack \notin {<<>>} \cup Closing
    BY FrameFacts DEF Closing
  <1>2. Handler => state_ \notin {"RESOLVING", "CONNECTING"} /\ posted[Conn] = 0
    BY <1>1 DEF ConnInv, Dispatched, DnsOnce
  <1>3. CASE ConnectHandlerReturns \/ CloseHandlerReturns
    <2>1. UNCHANGED <<state_, told, misordered, fin>>
      BY <1>3 DEF ConnectHandlerReturns, CloseHandlerReturns, connVars, kernelVars, history
    <2>2. CASE ConnectHandlerReturns
      <3>1. Handler
        BY <2>2 DEF ConnectHandlerReturns
      <3> QED
        BY <1>2, <2>1, <3>1, OrderQuiet
    <2>3. CASE CloseHandlerReturns
      <3>1. stack # <<>> /\ todo' = todo
        BY <2>3 DEF CloseHandlerReturns
      <3>2. todo' = <<>> \/ state_ \notin {"RESOLVING", "CONNECTING"}
        BY <3>1 DEF ConnInv, Dispatched
      <3> QED
        BY <2>1, <3>2, OrderQuiet
    <2> QED
      BY <1>3, <2>2, <2>3
  <1>4. CASE CloseReadReturns
    <2>1. Handler /\ UNCHANGED <<told, misordered, fin>>
      BY <1>4 DEF CloseReadReturns, kernelVars, history
    <2>2. state_' = state_ \/ (fd_ /\ state_' = "FLUSHING")
      BY <1>4 DEF CloseReadReturns
    <2>3. fd_ => state_ \in {"CONNECTED", "FLUSHING"}
      BY <1>2, <2>1 DEF ConnInv, ResourcesMatchState
    <2> QED
      BY <1>2, <2>1, <2>2, <2>3, OrderQuiet
  <1>5. ASSUME NEW ok \in BOOLEAN, ReadHandlerReturns(ok) PROVE OrderInv'
    <2>1. Handler
      BY <1>5 DEF ReadHandlerReturns
    <2>2. \/ InternalClose(<<>>)
          \/ UNCHANGED <<state_, told, misordered, fin>>
      <3>1. ASSUME Invoke("close_read", <<>>) PROVE UNCHANGED <<told, misordered>>
        BY <3>1, Types DEF Invoke, ConnInv
      <3> QED
        BY <1>5, <3>1 DEF ReadHandlerReturns, connVars, kernelVars, history
    <2> QED
      BY <1>2, <2>1, <2>2, OrderClose, OrderQuiet
  <1>6. ASSUME NEW ok \in BOOLEAN, WriteHandlerReturns(ok) PROVE OrderInv'
    <2>1. Handler
      BY <1>6 DEF WriteHandlerReturns
    <2>2. CASE ~ok
      <3>1. InternalClose(<<>>) \/ UNCHANGED <<state_, told, misordered, fin>>
        BY <1>6, <2>2 DEF WriteHandlerReturns, connVars, kernelVars, history
      <3> QED
        BY <1>2, <2>1, <3>1, OrderClose, OrderQuiet
    <2>3. CASE ok
      <3>1. WriteEnds(outbuf) /\ outbuf \in 0..outbuf
        BY <1>6, <2>3, Types DEF WriteHandlerReturns, ConnInv
      <3> QED
        BY <1>2, <2>1, <3>1, OrderWriteEnds
    <2> QED
      BY <2>2, <2>3
  <1> QED
    BY <1>3, <1>4, <1>5, <1>6 DEF HandlerReturns

\* Polling, the resolver and the network report nothing.
LEMMA OrderOutside ==
    ASSUME ConnInv, OrderInv, Orderly, DnsAnswers \/ Network \/ \E room \in BOOLEAN : Poll(room)
    PROVE  OrderInv'
  <1>1. CASE DnsAnswers
    <2>1. UNCHANGED <<state_, todo, rev, fin, told, misordered>>
      BY <1>1 DEF DnsAnswers, connVars, loopVars, kernelVars, history
    <2> QED
      BY <2>1 DEF OrderInv, Told, HandlersInOrder
  <1>2. CASE Network
    <2>1. UNCHANGED <<state_, todo, rev, told, misordered>>
      BY <1>2 DEF Network, connVars, loopVars, history
    <2>2. state_ = "CONNECTING" => fin' = fin
      BY <1>2 DEF Network, Orderly
    <2> QED
      BY <2>1, <2>2 DEF OrderInv, Told, HandlersInOrder
  <1>3. ASSUME NEW room \in BOOLEAN, Poll(room) PROVE OrderInv'
    <2>1. rev' = Ready(room) /\ UNCHANGED <<state_, fin, told, misordered>>
      BY <1>3 DEF Poll, Dispatch, connVars, kernelVars, history
    <2> DEFINE bits == Ready(room)
    <2>2. todo' = (IF bits \cap {"ERR", "HUP", "RDHUP"} # {} THEN <<"error">> ELSE <<>>)
                 \o (IF "IN" \in bits THEN <<"read">> ELSE <<>>)
                 \o (IF "OUT" \in bits THEN <<"write">> ELSE <<>>)
      BY <1>3 DEF Poll, Dispatch
    <2>3. todo' # <<>> /\ Head(todo') = "error" => bits \cap {"ERR", "HUP", "RDHUP"} # {}
      <3> HIDE DEF bits
      <3> QED
        BY <2>2, DispatchTodo
    <2>4. ~fin /\ bits \cap {"ERR", "HUP", "RDHUP"} # {} => "ERR" \in bits
      BY DEF Ready
    <2>5. state_ = "CONNECTING" => ~fin
      BY DEF OrderInv, Told
    <2> QED
      BY <2>1, <2>3, <2>4, <2>5, OrderQuiet
  <1> QED
    BY <1>1, <1>2, <1>3

\* A new connection has told nothing.
LEMMA InitOrder == Init => OrderInv
  BY DEF Init, OrderInv, Told, HandlersInOrder

\* Every step keeps the handlers in order.
LEMMA NextOrder == ASSUME Orderly PROVE ConnInv /\ OrderInv /\ [Next]_vars => OrderInv'
  <1> SUFFICES ASSUME ConnInv, OrderInv, [Next]_vars PROVE OrderInv'
    OBVIOUS
  <1>1. CASE UNCHANGED vars
    <2>1. UNCHANGED <<state_, todo, rev, fin, told, misordered>>
      BY <1>1 DEF vars, connVars, loopVars, kernelVars, history
    <2> QED
      BY <2>1 DEF OrderInv, Told, HandlersInOrder
  <1>2. CASE App
    BY <1>2, OrderApp
  <1>3. CASE LoopStep
    BY <1>3, OrderHandleDnsResult, OrderEvent, OrderReturns DEF LoopStep
  <1>4. CASE LingerTimeout
    <2>1. posted[Conn] = 0 /\ InternalClose(<<>>)
      BY <1>4 DEF LingerTimeout, ConnInv, DnsOnce, ResourcesMatchState
    <2> QED
      BY <2>1, OrderClose
  <1>5. CASE DnsAnswers \/ Network \/ \E room \in BOOLEAN : Poll(room)
    BY <1>5, OrderOutside
  <1> QED
    BY <1>1, <1>2, <1>3, <1>4, <1>5 DEF Next

\* A connect handler comes first, read and write handlers between it and the report
\* of the complete close, and that report comes once: the contract of connection.h.
THEOREM HandlersComeInOrder ==
    ASSUME Orderly
    PROVE  Spec => []HandlersInOrder
  <1>1. Tame
    BY DEF Orderly, Tame
  <1>2. ConnInv /\ [Next]_vars => ConnInv'
    BY <1>1, NextConn
  <1>3. OrderInv => HandlersInOrder
    BY DEF OrderInv
  <1> QED
    BY InitConn, InitOrder, NextOrder, <1>2, <1>3, PTL DEF Spec
=============================================================================
