---------------------------- MODULE TcpConnection ----------------------------
(***************************************************************************)
(* net::TcpConnection (net/base/connection.cc): one connection, driven by  *)
(* its event loop.  The handlers of the application are called in the      *)
(* middle of the Handle*Event functions and call back into the connection; *)
(* stack holds the handlers that are running (the innermost first), todo   *)
(* what the loop still has to dispatch of the current event.  The resolver *)
(* is the DnsService that DnsResolver implements.  Bytes are counted in    *)
(* chunks.                                                                 *)
(***************************************************************************)
EXTENDS Naturals, Sequences

CONSTANTS
    Conn,        \* the connection, as a handler of the resolver
    MaxOut,      \* bound: chunks in outbuf
    MaxIn,       \* bound: chunks in the socket's receive buffer
    Situations   \* what may happen besides the ordinary, see below

\* late_close: the application closes while a DNS answer is already posted.
\* early_peer: the peer closes before the loop has seen the connect complete.
\* flush_early: FlushAndClose before the connect is complete.
\* no_socket, no_register: socket() or Selector::Register fails.
\* close_in_read, close_in_write: that handler calls ForceClose itself.
\* connect_in_close: and the close handler inside of it connects again.
AllSituations == {"late_close", "early_peer", "flush_early", "no_socket", "no_register",
                  "close_in_read", "close_in_write", "connect_in_close"}

ASSUME TcpAssumption ==
    /\ MaxOut \in Nat \ {0}
    /\ MaxIn \in Nat
    /\ Situations \subseteq AllSituations

VARIABLES
    state_,
    fd_,            \* is the descriptor valid?
    registered,     \* registered_selector() is set
    want,           \* desire_: the subset of {"read", "write"} asked for
    read_closed_,
    write_closed_,
    outbuf,
    linger,         \* the kShutdownTimeoutId timeout is set
    pending, posted,\* the resolver
    stack,
    todo,
    rev,            \* the event being dispatched: internal_event_
    aborted,        \* a CHECK failed
    link,           \* the socket: "none", "syn", "up" or "reset"
    rx,             \* chunks the kernel has received
    fin,            \* the peer has shut down its side
    told,           \* history: the last of connect and complete close reported
    misordered,     \* history: a handler was called that told rules out
    flush           \* history: FlushAndClose was called on this connection

connVars   == <<state_, fd_, registered, want, read_closed_, write_closed_, outbuf, linger>>
dnsVars    == <<pending, posted>>
loopVars   == <<stack, todo, rev, aborted>>
kernelVars == <<link, rx, fin>>
history    == <<told, misordered, flush>>
vars == <<connVars, dnsVars, loopVars, kernelVars, history>>

Dns == INSTANCE DnsService WITH Handlers <- {Conn}

States == {"DISCONNECTED", "RESOLVING", "CONNECTING", "CONNECTED", "FLUSHING"}
Bits == {"ERR", "HUP", "RDHUP", "IN", "OUT"}
AppHandlers == {"connect", "read", "write", "close_read", "close"}

TypeOK ==
    /\ state_ \in States
    /\ <<fd_, registered, read_closed_, write_closed_>> \in BOOLEAN \X BOOLEAN \X BOOLEAN \X BOOLEAN
    /\ want \subseteq {"read", "write"}
    /\ outbuf \in 0..MaxOut
    /\ linger \in BOOLEAN
    /\ pending \in [{Conn} -> BOOLEAN] /\ posted \in [{Conn} -> Nat]
    /\ stack \in Seq(AppHandlers) /\ Len(stack) <= 2
    /\ todo \in Seq({"error", "read", "write"})
    /\ rev \subseteq Bits
    /\ link \in {"none", "syn", "up", "reset"}
    /\ rx \in 0..MaxIn
    /\ <<fin, aborted, misordered, flush>> \in BOOLEAN \X BOOLEAN \X BOOLEAN \X BOOLEAN
    /\ told \in {"nothing", "connected", "closed"}

Init ==
    /\ state_ = "DISCONNECTED" /\ fd_ = FALSE /\ registered = FALSE
    /\ want = {"read"}
    /\ read_closed_ = TRUE /\ write_closed_ = TRUE
    /\ outbuf = 0 /\ linger = FALSE
    /\ Dns!Init
    /\ stack = <<>> /\ todo = <<>> /\ rev = {} /\ aborted = FALSE
    /\ link = "none" /\ rx = 0 /\ fin = FALSE
    /\ told = "nothing" /\ misordered = FALSE /\ flush = FALSE

Idle == stack = <<>> /\ todo = <<>> /\ ~aborted

\* Where the application's code runs: in a handler, or in a closure or alarm.
AppRuns == (Idle \/ stack # <<>>) /\ ~aborted

Abort ==
    /\ aborted' = TRUE
    /\ UNCHANGED <<connVars, dnsVars, stack, todo, rev, kernelVars, history>>

\* A handler is called on top of frames; what told must be for it to be right.
Invoke(handler, frames) ==
    /\ stack' = <<handler>> \o frames
    /\ told' = CASE handler = "connect" -> "connected"
                 [] handler = "close"   -> "closed"
                 [] OTHER -> told
    /\ misordered' = \/ misordered
                     \/ handler = "connect" /\ told # "nothing"
                     \/ handler \in {"read", "write"} /\ told # "connected"
                     \/ handler = "close" /\ told = "closed"

\* InternalClose of a connection that is not DISCONNECTED, up to its handler.
CloseNow ==
    /\ state_' = "DISCONNECTED"
    /\ fd_' = FALSE
    /\ registered' = (registered /\ ~fd_)
    /\ read_closed_' = TRUE /\ write_closed_' = TRUE
    /\ linger' = FALSE
    /\ outbuf' = 0
    /\ link' = "none" /\ rx' = 0 /\ fin' = FALSE
    /\ flush' = FALSE
    /\ UNCHANGED want

\* InternalClose(err, true)
InternalClose(frames) ==
    /\ state_ # "DISCONNECTED"
    /\ CloseNow
    /\ Dns!Cancel(Conn)
    /\ Invoke("close", frames)

\* Mutant of KeepProcessing: the descriptor is not looked at.
KeepProcessingAnyway(fd) == todo' = Tail(todo)

\* keep_processing && s->GetFd() != INVALID_FD_VALUE
KeepProcessing(fd) == todo' = IF fd THEN Tail(todo) ELSE <<>>

-----------------------------------------------------------------------------
(* Connecting *)

\* Connect() from the creation of the socket on; ok is what it returns.
OpenSocket(ok) ==
    \/ /\ ok
       /\ state_' = "CONNECTING"
       /\ fd_' = TRUE /\ registered' = TRUE
       /\ read_closed_' = FALSE /\ write_closed_' = FALSE
       /\ want' = {"read", "write"}
       /\ link' = "syn"
       /\ UNCHANGED <<outbuf, linger, rx, fin>>
    \/ /\ ~ok /\ "no_socket" \in Situations
       /\ UNCHANGED <<connVars, kernelVars>>
    \/ /\ ~ok /\ "no_register" \in Situations
       /\ registered' = TRUE
       /\ UNCHANGED <<state_, fd_, want, read_closed_, write_closed_, outbuf, linger, kernelVars>>
    \/ /\ ~ok                              \* ::connect fails: InternalClose(err, false)
       /\ state_' = "DISCONNECTED"
       /\ read_closed_' = TRUE /\ write_closed_' = TRUE
       /\ linger' = FALSE
       /\ outbuf' = 0
       /\ UNCHANGED <<fd_, registered, want, kernelVars>>

\* Where the application connects: outside of handlers, or again when it hears
\* of the close, be it in the middle of another handler.
MayConnect ==
    /\ ~aborted
    /\ \/ Idle
       \/ /\ stack # <<>> /\ Head(stack) = "close"
          /\ Tail(stack) \in {<<>>, <<"close">>} \/ "connect_in_close" \in Situations

\* Connect(address); Register does CHECK_NULL(s->registered_selector()).
ConnectAddress ==
    /\ MayConnect
    /\ state_ = "DISCONNECTED"
    /\ IF registered
         THEN Abort
         ELSE /\ \E ok \in BOOLEAN : OpenSocket(ok)
              /\ told' = "nothing"
              /\ UNCHANGED <<dnsVars, loopVars, misordered, flush>>

\* Connect(host name)
ConnectName ==
    /\ MayConnect
    /\ state_ = "DISCONNECTED"
    /\ "late_close" \in Situations \/ posted[Conn] = 0
    /\ posted[Conn] < 2
    /\ Dns!Ask(Conn) \/ Dns!AnswerAtOnce(Conn)
    /\ state_' = "RESOLVING"
    /\ told' = "nothing"
    /\ UNCHANGED <<fd_, registered, want, read_closed_, write_closed_, outbuf, linger, loopVars,
                   kernelVars, misordered, flush>>

\* CHECK_EQ(state(), RESOLVING); no address: the connection is closed.
HandleDnsResult(found) ==
    /\ Idle
    /\ IF state_ # "RESOLVING" \/ (found /\ registered)
         THEN posted[Conn] > 0 /\ Abort
         ELSE /\ Dns!Deliver(Conn)
              /\ \/ /\ found /\ OpenSocket(TRUE)
                    /\ UNCHANGED <<stack, told, misordered>>
                 \/ /\ found /\ OpenSocket(FALSE)
                    /\ Invoke("close", <<>>)
                 \/ /\ ~found
                    /\ state_' = "DISCONNECTED"
                    /\ Invoke("close", <<>>)
                    /\ UNCHANGED <<fd_, registered, want, read_closed_, write_closed_, outbuf, linger,
                                   kernelVars>>
              /\ UNCHANGED <<todo, rev, aborted, flush>>

\* The resolver's own step.
DnsAnswers ==
    /\ Dns!Answer(Conn)
    /\ UNCHANGED <<connVars, loopVars, kernelVars, history>>

\* Wrap: a new object, for a descriptor the acceptor hands over.
Wrap ==
    /\ Idle
    /\ state_ = "DISCONNECTED" /\ ~registered
    /\ told = "nothing" /\ want = {"read"} /\ posted[Conn] = 0
    /\ state_' = "CONNECTED"
    /\ fd_' = TRUE /\ registered' = TRUE
    /\ read_closed_' = FALSE /\ write_closed_' = FALSE
    /\ want' = want \cup {"read"}
    /\ link' = "up"
    /\ told' = "connected"
    /\ UNCHANGED <<outbuf, linger, dnsVars, loopVars, rx, fin, misordered, flush>>

-----------------------------------------------------------------------------
(* What the application calls *)

ForceClose ==
    /\ AppRuns
    /\ Len(stack) < 2                        \* bound: handlers nest twice
    /\ "late_close" \in Situations \/ posted[Conn] = 0
    /\ stack # <<>> /\ Head(stack) = "read"  => "close_in_read" \in Situations
    /\ stack # <<>> /\ Head(stack) = "write" => "close_in_write" \in Situations
    /\ InternalClose(stack)
    /\ UNCHANGED <<todo, rev, aborted>>

\* Mutant of CloseWrite: write events are not asked for.
CloseWriteWaits ==
    /\ state_' = IF write_closed_ THEN state_ ELSE "FLUSHING"
    /\ UNCHANGED want

\* Close(CLOSE_WRITE) of an open connection
CloseWrite ==
    /\ state_' = IF write_closed_ THEN state_ ELSE "FLUSHING"
    /\ want' = IF write_closed_ THEN want ELSE want \cup {"write"}

\* Without a descriptor: CHECK_EQ(state(), DISCONNECTED).
FlushAndClose ==
    /\ AppRuns
    /\ state_ \in {"CONNECTED", "FLUSHING"}
         \/ (state_ \in {"RESOLVING", "CONNECTING"} /\ "flush_early" \in Situations)
    /\ IF ~fd_
         THEN Abort
         ELSE /\ CloseWrite
              /\ flush' = TRUE
              /\ UNCHANGED <<fd_, registered, read_closed_, write_closed_, outbuf, linger, dnsVars,
                             loopVars, kernelVars, told, misordered>>

Write ==
    /\ AppRuns
    /\ registered /\ fd_
    /\ outbuf < MaxOut
    /\ outbuf' = outbuf + 1
    /\ want' = want \cup {"write"}
    /\ UNCHANGED <<state_, fd_, registered, read_closed_, write_closed_, linger, dnsVars, loopVars,
                   kernelVars, history>>

RequestReadEvents(enable) ==
    /\ AppRuns
    /\ registered /\ fd_
    /\ want' = IF enable THEN want \cup {"read"} ELSE want \ {"read"}
    /\ UNCHANGED <<state_, fd_, registered, read_closed_, write_closed_, outbuf, linger, dnsVars,
                   loopVars, kernelVars, history>>

-----------------------------------------------------------------------------
(* The event loop dispatches an event: error, then read, then write. *)

\* What the kernel reports, given what was asked for and the socket's state;
\* room: is there space in the send buffer?
Ready(room) ==
    LET eof == fin \/ link = "reset"
    IN  (IF link = "reset" THEN {"ERR", "HUP"} ELSE {})
          \cup (IF fin /\ write_closed_ THEN {"HUP"} ELSE {})
          \cup (IF eof /\ "read" \in want THEN {"RDHUP"} ELSE {})
          \cup (IF (eof \/ rx > 0) /\ "read" \in want THEN {"IN"} ELSE {})
          \cup (IF room /\ "write" \in want THEN {"OUT"} ELSE {})

Dispatch(bits) ==
    /\ rev' = bits
    /\ todo' = (IF bits \cap {"ERR", "HUP", "RDHUP"} # {} THEN <<"error">> ELSE <<>>)
                 \o (IF "IN" \in bits THEN <<"read">> ELSE <<>>)
                 \o (IF "OUT" \in bits THEN <<"write">> ELSE <<>>)

Poll(room) ==
    /\ Idle
    /\ registered /\ fd_
    /\ link \in {"up", "reset"}
    /\ Ready(room) # {}
    /\ Dispatch(Ready(room))
    /\ UNCHANGED <<connVars, dnsVars, stack, aborted, kernelVars, history>>

Handling(what) == stack = <<>> /\ todo # <<>> /\ Head(todo) = what /\ ~aborted

\* ERR; HUP or RDHUP without IN: close.  Otherwise the next HandleReadEvent
\* reads what is left.
HandleErrorEvent ==
    /\ Handling("error")
    /\ IF "ERR" \in rev \/ "IN" \notin rev \/ ("HUP" \in rev /\ state_ = "CONNECTING")
         THEN /\ InternalClose(<<>>)
              /\ todo' = <<>>
         ELSE /\ todo' = Tail(todo)
              /\ IF "HUP" \in rev
                   THEN write_closed_' = TRUE /\ UNCHANGED state_
                   ELSE state_' = "FLUSHING" /\ UNCHANGED write_closed_
              /\ UNCHANGED <<fd_, registered, want, read_closed_, outbuf, linger, dnsVars, stack,
                             kernelVars, history>>
    /\ UNCHANGED <<rev, aborted>>

\* Mutant of Connected: the state stays CONNECTING.
ConnectedAgain(what) ==
    /\ Handling(what)
    /\ what \in {"read", "write"}
    /\ state_ = "CONNECTING"
    /\ Invoke("connect", <<>>)
    /\ UNCHANGED <<connVars, dnsVars, todo, rev, aborted, kernelVars, flush>>

\* The first event of a connection that is CONNECTING.
Connected(what) ==
    /\ Handling(what)
    /\ what \in {"read", "write"}
    /\ state_ = "CONNECTING"
    /\ state_' = "CONNECTED"
    /\ Invoke("connect", <<>>)
    /\ UNCHANGED <<fd_, registered, want, read_closed_, write_closed_, outbuf, linger, dnsVars, todo,
                   rev, aborted, kernelVars, flush>>

\* return state() == CONNECTED
ConnectHandlerReturns ==
    /\ stack = <<"connect">> /\ ~aborted
    /\ stack' = <<>>
    /\ KeepProcessing(state_ = "CONNECTED")
    /\ UNCHANGED <<connVars, dnsVars, rev, aborted, kernelVars, history>>

\* Some bytes: the read handler.
ReadSome ==
    /\ \E left \in 0..(rx - 1) : rx' = left
    /\ Invoke("read", <<>>)
    /\ UNCHANGED <<connVars, dnsVars, todo, aborted, link, fin, flush>>

\* No bytes: the end of the stream, if the connection is closing or errno
\* holds an error, of this call or of an earlier one.
ReadNothing ==
    /\ \E stale_errno \in BOOLEAN :
         read_closed_' = (read_closed_ \/ write_closed_ \/ state_ = "FLUSHING" \/ stale_errno)
    /\ IF read_closed_'
         THEN Invoke("close_read", <<>>) /\ UNCHANGED todo
         ELSE todo' = Tail(todo) /\ UNCHANGED <<stack, told, misordered>>
    /\ UNCHANGED <<state_, fd_, registered, want, write_closed_, outbuf, linger, dnsVars, aborted,
                   kernelVars, flush>>

\* CHECK(state() == CONNECTED || state() == FLUSHING)
HandleReadEvent ==
    /\ Handling("read")
    /\ state_ # "CONNECTING"
    /\ IF state_ \notin {"CONNECTED", "FLUSHING"}
         THEN Abort
         ELSE IF rx > 0 THEN ReadSome ELSE ReadNothing
    /\ UNCHANGED rev

\* read_handler_ returns ok.  It may have closed the connection, and then the
\* close handler is called once more, for the read half.
ReadHandlerReturns(ok) ==
    /\ stack = <<"read">> /\ ~aborted
    /\ \/ /\ ~ok
          /\ IF state_ = "DISCONNECTED"
               THEN stack' = <<>> /\ UNCHANGED <<connVars, dnsVars, kernelVars, history>>
               ELSE InternalClose(<<>>)
          /\ todo' = <<>>
       \/ /\ ok /\ read_closed_
          /\ Invoke("close_read", <<>>)
          /\ UNCHANGED <<connVars, dnsVars, todo, kernelVars, flush>>
       \/ /\ ok /\ ~read_closed_
          /\ stack' = <<>>
          /\ KeepProcessing(fd_)
          /\ UNCHANGED <<connVars, dnsVars, kernelVars, history>>
    /\ UNCHANGED <<rev, aborted>>

\* RequestReadEvents(false); Close(CLOSE_WRITE)
CloseReadReturns ==
    /\ stack = <<"close_read">> /\ ~aborted
    /\ stack' = <<>>
    /\ KeepProcessing(fd_)
    /\ IF fd_
         THEN /\ state_' = IF write_closed_ THEN state_ ELSE "FLUSHING"
              /\ want' = (want \ {"read"}) \cup (IF write_closed_ THEN {} ELSE {"write"})
         ELSE UNCHANGED <<state_, want>>
    /\ UNCHANGED <<fd_, registered, read_closed_, write_closed_, outbuf, linger, dnsVars, rev, aborted,
                   kernelVars, history>>

\* Mutant of WriteEnds: write events are stopped whatever is left.
WriteEndsAlways(left) ==
    /\ outbuf' = left
    /\ want' = want \ {"write"}
    /\ todo' = <<>> /\ stack' = <<>>
    /\ UNCHANGED <<state_, fd_, registered, read_closed_, write_closed_, linger, dnsVars, aborted,
                   kernelVars, history>>

\* The end of HandleWriteEvent, with left chunks in outbuf: when there are
\* none, stop write events (Selector::UpdateDesire checks that the connection
\* is registered) and, when FLUSHING, shut down the write half and set the
\* linger timeout.
WriteEnds(left) ==
    \/ /\ left > 0
       /\ outbuf' = left
       /\ todo' = <<>> /\ stack' = <<>>
       /\ UNCHANGED <<state_, fd_, registered, want, read_closed_, write_closed_, linger, dnsVars,
                      aborted, kernelVars, history>>
    \/ left = 0 /\ ~registered /\ Abort
    \/ /\ left = 0 /\ registered
       /\ \E down \in {TRUE} \cup {link # "reset"} :      \* ::shutdown
            IF state_ = "FLUSHING" /\ ~down
              THEN InternalClose(<<>>)
              ELSE /\ want' = want \ {"write"}
                   /\ outbuf' = 0
                   /\ write_closed_' = (write_closed_ \/ state_ = "FLUSHING")
                   /\ linger' = (linger \/ state_ = "FLUSHING")
                   /\ stack' = <<>>
                   /\ UNCHANGED <<state_, fd_, registered, read_closed_, dnsVars, kernelVars, history>>
       /\ todo' = <<>>
       /\ UNCHANGED aborted

\* A write fails after a reset or a shutdown; otherwise something is sent.
WriteSome ==
    IF outbuf > 0 /\ (link = "reset" \/ write_closed_)
      THEN /\ InternalClose(<<>>)
           /\ todo' = <<>>
           /\ UNCHANGED aborted
      ELSE \E left \in 0..outbuf :
             /\ outbuf > 0 => left < outbuf
             /\ IF state_ = "FLUSHING"
                  THEN WriteEnds(left)
                  ELSE /\ outbuf' = left
                       /\ Invoke("write", <<>>)
                       /\ UNCHANGED <<state_, fd_, registered, want, read_closed_, write_closed_,
                                      linger, dnsVars, todo, aborted, kernelVars, flush>>

HandleWriteEvent ==
    /\ Handling("write")
    /\ state_ # "CONNECTING"
    /\ IF state_ \notin {"CONNECTED", "FLUSHING"} THEN Abort ELSE WriteSome
    /\ UNCHANGED rev

WriteHandlerReturns(ok) ==
    /\ stack = <<"write">> /\ ~aborted
    /\ \/ /\ ~ok
          /\ IF state_ = "DISCONNECTED"
               THEN stack' = <<>> /\ UNCHANGED <<connVars, dnsVars, kernelVars, history>>
               ELSE InternalClose(<<>>)
          /\ todo' = <<>>
          /\ UNCHANGED aborted
       \/ ok /\ WriteEnds(outbuf)
    /\ UNCHANGED rev

CloseHandlerReturns ==
    /\ stack # <<>> /\ Head(stack) = "close" /\ ~aborted
    /\ stack' = Tail(stack)
    /\ UNCHANGED <<connVars, dnsVars, todo, rev, aborted, kernelVars, history>>

\* HandleTimeoutEvent(kShutdownTimeoutId)
LingerTimeout ==
    /\ Idle
    /\ linger
    /\ InternalClose(<<>>)
    /\ UNCHANGED <<todo, rev, aborted>>

-----------------------------------------------------------------------------
(* The peer and the network *)

Network ==
    /\ \/ link = "syn" /\ link' \in {"up", "reset"} /\ UNCHANGED <<rx, fin>>
       \/ link = "up" /\ link' = "reset" /\ UNCHANGED <<rx, fin>>
       \/ link = "up" /\ ~fin /\ rx < MaxIn /\ rx' = rx + 1 /\ UNCHANGED <<link, fin>>
       \/ /\ link = "up" /\ ~fin /\ fin' = TRUE
          /\ state_ = "CONNECTING" => "early_peer" \in Situations
          /\ UNCHANGED <<link, rx>>
    /\ UNCHANGED <<connVars, dnsVars, loopVars, history>>

HandlerReturns ==
    \/ ConnectHandlerReturns
    \/ \E ok \in BOOLEAN : ReadHandlerReturns(ok) \/ WriteHandlerReturns(ok)
    \/ CloseReadReturns
    \/ CloseHandlerReturns

LoopStep ==
    \/ \E found \in BOOLEAN : HandleDnsResult(found)
    \/ HandleErrorEvent
    \/ \E what \in {"read", "write"} : Connected(what)
    \/ HandleReadEvent
    \/ HandleWriteEvent
    \/ HandlerReturns

App ==
    \/ ConnectAddress
    \/ ConnectName
    \/ Wrap
    \/ ForceClose
    \/ FlushAndClose
    \/ Write
    \/ \E b \in BOOLEAN : RequestReadEvents(b)

Next ==
    \/ App
    \/ LoopStep
    \/ \E room \in BOOLEAN : Poll(room)
    \/ LingerTimeout
    \/ DnsAnswers
    \/ Network

\* The loop is scheduled and handlers return; the resolver answers; a connect
\* attempt ends; a send buffer does not stay full for ever; the linger timeout
\* comes.  The last two compete with the other things an idle loop may do.
Fairness ==
    /\ WF_vars(LoopStep)
    /\ WF_vars(DnsAnswers)
    /\ WF_vars(link = "syn" /\ Network)
    /\ SF_vars(Poll(TRUE))
    /\ SF_vars(LingerTimeout)

Spec == Init /\ [][Next]_vars
FairSpec == Spec /\ Fairness

-----------------------------------------------------------------------------
(* Properties *)

\* No CHECK of the connection, or of the selector on its behalf, fails.
NoCheckFails == ~aborted

\* The connection's state and its resources go together: a descriptor is open
\* and registered exactly in the states that have one; a closed connection has
\* no timeout, no query and nothing to send; RESOLVING waits for an answer.  Data
\* waiting to be sent is never forgotten: write events are asked for.
ResourcesMatchState ==
    /\ fd_ <=> state_ \in {"CONNECTING", "CONNECTED", "FLUSHING"}
    /\ registered <=> fd_
    /\ state_ = "DISCONNECTED" => ~linger /\ ~pending[Conn] /\ outbuf = 0
    /\ state_ = "RESOLVING" => pending[Conn] \/ posted[Conn] > 0
    /\ linger => state_ = "FLUSHING" /\ write_closed_
    /\ fd_ /\ outbuf > 0 => "write" \in want

\* connection.h:302: a connect handler comes first, read and write handlers
\* between it and the report of the complete close, which comes once.
HandlersInOrder == ~misordered

\* FlushAndClose ends in a closed connection, whatever the peer does, unless the
\* application writes more and more to it, and every attempt to connect is
\* reported: connection.h:303 "connect pending. Later on: if the connect procedure
\* succeeds, the ConnectHandler will be called. If it fails, the CloseHandler will
\* be called."
EveryCallEnds ==
    /\ []<><<flush /\ Write>>_vars \/ (flush ~> state_ = "DISCONNECTED")
    /\ state_ \in {"RESOLVING", "CONNECTING"} ~> told \in {"connected", "closed"}
=============================================================================
