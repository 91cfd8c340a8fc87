--------------------------- MODULE SwitchingElement ---------------------------
(***************************************************************************)
(* streaming::SwitchingElement: one stream under one name, whose media the *)
(* policy changes underneath its clients.  It is composed of the element   *)
(* (switching_element.cc), the distributor of one flavour with its         *)
(* bootstrapper (tag_distributor.h, bootstrapper.cc), three util::Alarms   *)
(* (alarm.cc), the OnCommandPolicy that drives it (policy.cc), and what    *)
(* the mapper does when it removes the element (factory_based_mapper.cc).  *)
(*                                                                         *)
(* All of it runs in one event loop, in turns: an event, a closure or an   *)
(* alarm.  A turn is a function from states of the element to states, "e"  *)
(* is the state between turns.  The loop runs its alarms one after another, *)
(* and may leave closures to a later round (Selector): an alarm may go off  *)
(* with closures still posted.  A delay may be any.                        *)
(*                                                                         *)
(* Tags are told apart by what they do to the nesting of sources: started, *)
(* ended, media, EOS.  Clients are external: they take themselves out, at  *)
(* any time, never from inside a tag.                                      *)
(***************************************************************************)
EXTENDS Naturals, Sequences, FiniteSets

CONSTANTS Clients,    \* the requests that may be added
          Media,      \* names of media upstream
          None,       \* no name, the empty string
          Debug,      \* the build has its DCHECKs
          MaxDepth    \* bound on the sources the upstream nests

ASSUME SwitchingAssumption ==
    /\ None \notin Media
    /\ Debug \in BOOLEAN
    /\ MaxDepth \in Nat \ {0}
    /\ IsFiniteSet(Clients)

VARIABLE e

\* Sources are named by the media they belong to and their depth below it.
Own == <<None, 0>>
Sources == Media \X (1..MaxDepth)

Client == [at   : {"out", "to_bootstrap", "running"},
           open : Seq({Own} \cup Sources),   \* the sources it was told of, innermost last
           eos  : {"no", "yes", "forced"},   \* done_, and what the EOS said
           bad  : BOOLEAN]                   \* history: it was told something ill nested

Element == [current  : Media \cup {None},    \* current_media_; req_ is NULL when there is none
            reserved : Media \cup {None},    \* media_name_to_register_
            register : Media \cup {None},    \* register_alarm_, with the media it is for
            ended    : BOOLEAN,              \* stream_ended_alarm_ is started
            tags     : Seq(Sources),         \* source_started_tags_
            closing  : BOOLEAN,              \* close_completed_ is not NULL
            posted   : Seq({"InternalClose", "ElementClosed"}),
            clients  : [Clients -> Client],
            next     : Media \cup {None},    \* the policy's next_media_name_
            default  : Media \cup {None},    \* and default_media_name_
            up       : Seq(Sources),         \* the sources the upstream has open towards us
            upEos    : BOOLEAN,              \* it sent its EOS
            used     : BOOLEAN,              \* media_only_when_used_
            removed  : BOOLEAN,              \* the mapper has taken it off its map
            deleted  : BOOLEAN,
            failed   : BOOLEAN,              \* a CHECK failed
            late     : BOOLEAN,              \* history: an alarm registered it when only
                                             \* ElementClosed was left to run
            want     : Media \cup {None}]    \* history: what the policy last switched to

TypeOK == e \in Element

Out == [at |-> "out", open |-> <<>>, eos |-> "no", bad |-> FALSE]
CountClients(s) == Cardinality({c \in Clients : s.clients[c].at # "out"})

-----------------------------------------------------------------------------
(* What a client is told.  A client that had its EOS is no longer followed. *)

Told(cl, new) == IF cl.eos = "no" THEN new ELSE cl

SourcesStarted(cl, sources) == Told(cl, [cl EXCEPT !.open = @ \o sources])

\* SourceEnded for each of the sources, the last one first.
SourcesEnded(cl, sources) ==
    LET n == Len(cl.open) - Len(sources)
    IN Told(cl, IF n >= 0 /\ SubSeq(cl.open, n + 1, Len(cl.open)) = sources
                THEN [cl EXCEPT !.open = SubSeq(@, 1, n)]
                ELSE [cl EXCEPT !.bad = TRUE])

MediaTag(cl) == Told(cl, [cl EXCEPT !.bad = @ \/ cl.open = <<>>])

Eos(cl, forced) ==
    [cl EXCEPT !.eos = IF forced THEN "forced" ELSE IF @ = "no" THEN "yes" ELSE @,
               !.bad = @ \/ (cl.eos = "no" /\ cl.open # <<>>)]

-----------------------------------------------------------------------------
(* TagDistributor *)

EachRunning(s, Do(_)) ==
    [s EXCEPT !.clients = [c \in Clients |-> IF @[c].at = "running" THEN Do(@[c]) ELSE @[c]]]

ClearBootstrap(s) == [s EXCEPT !.tags = <<>>]

\* Mutant of Switch: the bootstrapper keeps the sources that have ended.
SwitchKeepsTags(s) == EachRunning(s, LAMBDA cl : SourcesEnded(cl, s.tags))

\* The sources of the upstream end for the clients; they keep running.
Switch(s) == ClearBootstrap(EachRunning(s, LAMBDA cl : SourcesEnded(cl, s.tags)))

\* Our own source ends too, and the clients are to be bootstrapped again.
Reset(s) ==
    ClearBootstrap(EachRunning(s, LAMBDA cl :
        [SourcesEnded(cl, <<Own>> \o s.tags) EXCEPT !.at = "to_bootstrap"]))

\* A client is not told of the end twice: DCHECK(!done_).
CheckNotDone(s) ==
    LET again == \E c \in Clients : s.clients[c].at # "out" /\ s.clients[c].eos # "no"
    IN [s EXCEPT !.failed = @ \/ (Debug /\ again)]

CloseAllCallbacks(s, forced) ==
    [CheckNotDone(s) EXCEPT !.clients = [c \in Clients |->
        CASE @[c].at = "running" -> Eos(SourcesEnded(@[c], <<Own>> \o s.tags), forced)
          [] @[c].at = "to_bootstrap" -> Eos(@[c], forced)
          [] OTHER -> @[c]]]

\* New clients are told of our source and of the ones open upstream.
Bootstrap(s) ==
    [s EXCEPT !.clients = [c \in Clients |->
        IF @[c].at = "to_bootstrap"
        THEN [SourcesStarted(@[c], <<Own>> \o s.tags) EXCEPT !.at = "running"]
        ELSE @[c]]]

DistributeStarted(s, source) ==
    EachRunning([Bootstrap(s) EXCEPT !.tags = Append(@, source)],
                LAMBDA cl : SourcesStarted(cl, <<source>>))

DistributeEnded(s, source) ==
    EachRunning([Bootstrap(s) EXCEPT !.tags = IF @ = <<>> THEN @ ELSE SubSeq(@, 1, Len(@) - 1)],
                LAMBDA cl : SourcesEnded(cl, <<source>>))

DistributeMedia(s) == EachRunning(Bootstrap(s), MediaTag)

-----------------------------------------------------------------------------
(* SwitchingElement: turns that call each other *)

\* Mutant of Register: closing is not looked at.
RegisterWhileClosing(s, media) ==
    {[s EXCEPT !.current = media, !.up = <<>>, !.upEos = FALSE, !.failed = @ \/ s.current # None],
     [s EXCEPT !.want = None]}

\* The mapper takes the request or refuses it; nobody is told of a refusal.
Register(s, media) ==
    IF s.closing THEN {s}
    ELSE IF s.current # None THEN {[s EXCEPT !.failed = TRUE]}
    ELSE {[s EXCEPT !.current = media, !.up = <<>>, !.upEos = FALSE],
          [s EXCEPT !.want = None]}

\* The alarms are stopped in any case.
Unregister(s, sendSourceEnded) ==
    LET stopped == [s EXCEPT !.register = None]
        left == [stopped EXCEPT !.current = None, !.up = <<>>, !.upEos = FALSE]
    IN IF s.current = None THEN stopped
       ELSE IF sendSourceEnded THEN Reset(left) ELSE Switch(left)

\* SwitchCurrentMedia with force_switch, of a name that is not empty.
SwitchCurrentMedia(s, media) ==
    LET u == [Unregister(s, FALSE) EXCEPT !.want = media]
    IN IF s.used /\ CountClients(s) = 0
       THEN [u EXCEPT !.reserved = media]
       ELSE [u EXCEPT !.register = media]

\* OnCommandPolicy::PlayMedia refuses the empty name and leaves things as they are.
PlayMedia(s, media) == IF media = None THEN s ELSE SwitchCurrentMedia(s, media)

Post(s, closure) == [s EXCEPT !.posted = Append(@, closure)]

CloseCompleted(s) ==
    IF CountClients(s) = 0 /\ s.closing
    THEN [Post(s, "ElementClosed") EXCEPT !.closing = FALSE] ELSE s

CloseAllClients(s, forced) ==
    IF CountClients(s) = 0 /\ s.closing THEN CloseCompleted(s) ELSE CloseAllCallbacks(s, forced)

\* OnCommandPolicy::NotifyEos: the next media, or the default one, or the end.
NotifyEos(s) ==
    LET media == IF s.next # None THEN s.next ELSE s.default
        n == [s EXCEPT !.next = None]
    IN IF media = None THEN CloseAllClients([n EXCEPT !.want = None], FALSE)
       ELSE PlayMedia(n, media)

\* Mutant of StreamEnded: the policy is asked first, and the alarm it sets is
\* stopped with the registration.
StreamEndedLate(s) == IF s.current = None THEN s ELSE Unregister(NotifyEos(s), FALSE)

StreamEnded(s) == IF s.current = None THEN s ELSE NotifyEos(Unregister(s, FALSE))

-----------------------------------------------------------------------------
(* Turns *)

\* OnCommandPolicy::Initialize plays the first name it has loaded: the current
\* one, the next one or the default.
Init ==
    \E default, next, crt \in Media \cup {None}, used \in BOOLEAN :
       LET first == IF crt # None THEN crt ELSE IF next # None THEN next ELSE default
       IN /\ first # None
          /\ e = PlayMedia([current |-> None, reserved |-> None, register |-> None,
                            ended |-> FALSE, tags |-> <<>>, closing |-> FALSE,
                            posted |-> <<>>, clients |-> [c \in Clients |-> Out],
                            next |-> next, default |-> default, up |-> <<>>, upEos |-> FALSE,
                            used |-> used, removed |-> FALSE, deleted |-> FALSE,
                            failed |-> FALSE, late |-> FALSE, want |-> None], first)

Alive == ~e.deleted /\ ~e.failed

\* AddRequest: a registration that was put off is made now.
AddRequest(c) ==
    /\ Alive /\ ~e.removed /\ e.clients[c].at = "out"
    /\ \E r \in (IF e.reserved = None THEN {e} ELSE Register(e, e.reserved)) :
          e' = [r EXCEPT !.reserved = None, !.clients[c].at = "to_bootstrap"]

\* Mutant of RemoveRequest: the end of Close() is not signalled.
RemoveRequestSilent(c) ==
    /\ Alive /\ e.clients[c].at # "out"
    /\ e' = [e EXCEPT !.clients[c] = Out]

\* RemoveRequest: without clients the media may be let go, and the element may
\* be closed at last.
RemoveRequest(c) ==
    /\ Alive /\ e.clients[c].at # "out"
    /\ LET s == [e EXCEPT !.clients[c] = Out]
       IN e' = CloseCompleted(IF s.used /\ CountClients(s) = 0
                              THEN Unregister([s EXCEPT !.reserved = s.current], TRUE) ELSE s)

\* ProcessTag, for the tags an upstream may send in its state.
SourceStartedTag ==
    /\ Alive /\ e.current # None /\ ~e.upEos /\ Len(e.up) < MaxDepth
    /\ LET source == <<e.current, Len(e.up) + 1>>
       IN e' = DistributeStarted([e EXCEPT !.up = Append(@, source)], source)

SourceEndedTag ==
    /\ Alive /\ e.current # None /\ e.up # <<>>
    /\ LET source == e.up[Len(e.up)]
       IN e' = DistributeEnded([e EXCEPT !.up = SubSeq(@, 1, Len(@) - 1)], source)

MediaTagReceived ==
    /\ Alive /\ e.current # None /\ e.up # <<>>
    /\ e' = DistributeMedia(e)

\* The EOS is acted upon later, from an alarm.
EosTag ==
    /\ Alive /\ e.current # None /\ e.up = <<>> /\ ~e.upEos
    /\ e' = [e EXCEPT !.upEos = TRUE, !.ended = TRUE]

RegisterAlarm ==
    /\ Alive /\ e.register # None
    /\ \E r \in Register([e EXCEPT !.register = None], e.register) :
          e' = [r EXCEPT !.late = @ \/ (r.current # None /\ e.posted = <<"ElementClosed">>)]

StreamEndedAlarm ==
    /\ Alive /\ e.ended
    /\ e' = StreamEnded([e EXCEPT !.ended = FALSE])

\* tag_timeout_alarm_ is started with every registration and stopped with it.
TagReceiveTimeout ==
    /\ Alive /\ e.current # None
    /\ e' = StreamEnded(e)

\* OnCommandPolicy::SwitchPolicy, a remote call.
SwitchPolicy(media, setAsDefault, alsoSwitch) ==
    /\ Alive
    /\ LET s == [e EXCEPT !.default = IF setAsDefault THEN media ELSE @,
                          !.next = IF setAsDefault \/ ~alsoSwitch THEN media ELSE @]
       IN e' = IF alsoSwitch THEN PlayMedia(s, media) ELSE s

\* FactoryBasedElementMapper::RemoveElement and SwitchingElement::Close.
Close ==
    /\ Alive /\ ~e.removed
    /\ e' = Post([e EXCEPT !.removed = TRUE, !.closing = TRUE], "InternalClose")

InternalClose ==
    /\ Alive /\ e.posted # <<>> /\ Head(e.posted) = "InternalClose"
    /\ e' = CloseAllClients(Unregister([e EXCEPT !.posted = Tail(@), !.want = None], TRUE), TRUE)

\* FactoryBasedElementMapper::ElementClosed deletes the policy and the element,
\* whose destructor checks that it has neither request nor clients.
ElementClosed ==
    /\ Alive /\ e.posted # <<>> /\ Head(e.posted) = "ElementClosed"
    /\ e' = [e EXCEPT !.posted = Tail(@), !.deleted = TRUE, !.register = None, !.ended = FALSE,
                      !.failed = e.current # None \/ CountClients(e) # 0]

Next ==
    \/ StreamEndedAlarm
    \/ \E c \in Clients : AddRequest(c) \/ RemoveRequest(c)
    \/ SourceStartedTag \/ SourceEndedTag \/ MediaTagReceived \/ EosTag
    \/ RegisterAlarm \/ TagReceiveTimeout
    \/ \E media \in Media \cup {None}, d, a \in BOOLEAN : SwitchPolicy(media, d, a)
    \/ Close \/ InternalClose \/ ElementClosed

\* The loop runs its closures, and a client whose connection is closed (the EOS
\* was forced) takes itself out.
Fairness ==
    /\ WF_e(InternalClose \/ ElementClosed)
    /\ \A c \in Clients : WF_e(e.clients[c].eos = "forced" /\ RemoveRequest(c))

Spec == Init /\ [][Next]_e /\ Fairness

-----------------------------------------------------------------------------
\* Whatever the order of switches, ends and closes, each client sees sources
\* that nest (a source that ends is the innermost one open), media inside a
\* source only, and its EOS with no source left open (TagDistributor::Switch,
\* Reset, CloseAllCallbacks and DistributeTag with the Bootstrapper).  A client
\* that is bootstrapped late is brought to the state of the others: between
\* turns it has open our source and the ones the upstream has.
WellNested ==
    \A c \in Clients :
       LET cl == e.clients[c]
       IN /\ ~cl.bad
          /\ cl.eos = "no" => cl.open = (IF cl.at = "running" THEN <<Own>> \o e.up ELSE <<>>)

\* "false => Keep registered always." (switching_element.h): the media the
\* policy switched to is the current one or about to be registered, through
\* every end of stream, timeout, command and client that comes or goes.  An
\* element with media_only_when_used_ does not promise it, nor one whose mapper
\* refused the registration.
MediaNotLost ==
    ~e.used /\ ~e.removed /\ e.want # None => e.want \in {e.current, e.register}

\* "A previous Close() should have cleaned everything" (the destructor's
\* CHECKs), and CHECK(!is_registered()) << " Double register": commands, alarms
\* and tags that come while the element closes do not register it again.  Only
\* register_alarm_ can, in the round of alarms in which the end of Close() was
\* signalled: Register no longer sees that the element closes, and ElementClosed
\* deletes an element that is registered.
NoCheckFails == e.failed => e.late

\* "There we check if we are completely closed, and call close_completed_"
\* (CloseAllClients): an element that the mapper removed is deleted in the end,
\* with clients that were told EOS before and commands that come late.
CloseCompletes == e.removed ~> e.deleted
=============================================================================
