---------------------------- MODULE AioFileElement ----------------------------
(***************************************************************************)
(* streaming::AioFileElement and its AioFileReadingStruct, one reader per  *)
(* request (aio_file_element.cc): files are read block by block into the   *)
(* shared buffers of a BufferManager, cut into tags and sent to the        *)
(* client, who may pause, seek and take the request out.                   *)
(*                                                                         *)
(* Everything but the reads runs in one event loop.  A turn of the loop is *)
(* a stack of calls, "work", whose top frame <<call, reader, ...>> the     *)
(* next step executes; the loop starts a turn when the stack is empty.     *)
(* The threads of io::AioManager (aio_file.cc) complete reads in any order *)
(* and post the answers to the loop.                                       *)
(*                                                                         *)
(* All readers read one file of FileTags media tags, TagsPerBlock to a     *)
(* block, after a tag of cue points (one for each block) if HasCues.  The  *)
(* time of a tag is its number.  Clients are external: between turns they  *)
(* may call Pause, Seek and RemoveRequest, inside a tag Pause and, for the *)
(* kinds of tag in RemovesIn, RemoveRequest.                               *)
(***************************************************************************)
EXTENDS BufferManager, Sequences, SequencesExt

CONSTANTS FileTags,
          HasCues,            \* has the file cue points?
          Controllers,        \* readers whose clients pause and seek
          RemovesIn,          \* the kinds of tag inside which clients remove themselves
          AddsWhenExhausted,  \* are requests added when there is no buffer left?
          Requests,           \* <<seek_pos_ms_, limit_ms_>> of requests, 0 for none
          MaxPauses, MaxSeeks \* bounds on what the clients of a reader do

ASSUME AioAssumption ==
    /\ FileTags \in Nat \ {0} /\ HasCues \in BOOLEAN
    /\ Controllers \subseteq Readers
    /\ RemovesIn \subseteq {"started", "seek", "media", "ended", "eos"}
    /\ AddsWhenExhausted \in BOOLEAN
    /\ Requests \subseteq (0..FileTags) \X (0..FileTags)
    /\ MaxPauses \in Nat /\ MaxSeeks \in Nat
    /\ Keys = 1..(FileTags + 1)

VARIABLES frs,      \* reader -> its AioFileReadingStruct
          pool,     \* the BufferManager
          aio,      \* the readers whose read is with the AioManager
          posted,   \* closures posted to the loop
          work,     \* what is left of the turn
          element,  \* "open", "closing" (call_on_close_ is set), "closed", "deleted"
          failed    \* a CHECK failed, or a reader went with its read under way

aioVars == <<frs, pool, aio, posted, work, element, failed>>

TagsPerBlock == MaxSize
CuePoint == 0
Size(block) ==
    LET left == FileTags - (block - 1) * TagsPerBlock
    IN IF left <= 0 THEN 0 ELSE IF left >= TagsPerBlock THEN TagsPerBlock ELSE left
Contents(block) ==
    (IF block = 1 /\ HasCues THEN <<CuePoint>> ELSE <<>>)
      \o [i \in 1..Size(block) |-> (block - 1) * TagsPerBlock + i]
GetCueForTime(t) == (t - 1) \div TagsPerBlock + 1

\* Times and blocks count from 1: 0 stands for the -1 of the code.
Reader == [at      : {"new", "registering", "open", "gone"},   \* "open": in file_ops_
           io      : BOOLEAN,                  \* in_io_operation_
           buffer  : Buffers \cup {Null},
           data    : Seq(0..FileTags),         \* buf_
           pos     : Keys,
           seekPos : 0..FileTags,              \* seek_pos_ms_
           seekOff : Keys \cup {0},            \* seek_offset_
           first   : BOOLEAN,                  \* is_first_tag_
           boot    : BOOLEAN,                  \* bootstrapping_
           cues    : BOOLEAN,                  \* cue_points_ is not NULL
           orphan  : BOOLEAN,
           pauses  : Nat,                      \* pause_count_
           eof     : BOOLEAN,
           close   : BOOLEAN,                  \* should_close_
           control : BOOLEAN,                  \* the request's controller() is set
           alarm   : {"no", "pending", "firing"},   \* unpause_alarm_
           start   : 0..FileTags,              \* the request's seek_pos_ms_
           limit   : 0..FileTags,              \* the request's limit_ms_, 0 for none
           told    : {"nothing", "started", "ended", "eos"},
           next    : Nat,                      \* history: the media tag that is to come
           want    : 0..FileTags,              \* history: the seek that is to be performed
           bad     : BOOLEAN,                  \* history: it was told something amiss
           left    : BOOLEAN,                  \* history: it stopped, paused, after its client left
           npause  : 0..MaxPauses, nseek : 0..MaxSeeks]

Fresh == [at |-> "new", io |-> FALSE, buffer |-> Null, data |-> <<>>, pos |-> 1, seekPos |-> 0,
          seekOff |-> 0, first |-> TRUE, boot |-> TRUE, cues |-> FALSE, orphan |-> FALSE,
          pauses |-> 0, eof |-> FALSE, close |-> FALSE, control |-> FALSE, alarm |-> "no",
          start |-> 0, limit |-> 0, told |-> "nothing", next |-> 1, want |-> 0, bad |-> FALSE,
          left |-> FALSE, npause |-> 0, nseek |-> 0]

AioTypeOK ==
    /\ frs \in [Readers -> Reader]
    /\ pool \in Pool
    /\ aio \subseteq Readers
    /\ element \in {"open", "closing", "closed", "deleted"}
    /\ failed \in BOOLEAN

FileOps == {r \in Readers : frs[r].at = "open"}

AioInit ==
    /\ frs = [r \in Readers |-> Fresh]
    /\ pool = EmptyPool
    /\ aio = {}
    /\ posted = <<>>
    /\ work = <<>>
    /\ element = "open"
    /\ failed = FALSE

Alive == ~failed /\ element # "deleted"
BetweenTurns == Alive /\ work = <<>>
Runs(closure) == BetweenTurns /\ posted # <<>> /\ Head(posted)[1] = closure
Executes(call) == Alive /\ work # <<>> /\ Head(work)[1] = call

\* The step ends its call and goes on with these.
Then(calls) == work' = calls \o (IF work = <<>> THEN <<>> ELSE Tail(work))

Set(r, f) == frs' = [frs EXCEPT ![r] = f]

-----------------------------------------------------------------------------
(* AioFileReadingStruct: the reads *)

\* StopElement: SourceEnded if the stream was started, then EOS.
StopElement(f, r) ==
    (IF f.boot THEN <<>> ELSE <<<<"tag", r, "ended", 0>>>>) \o <<<<"tag", r, "eos", 0>>>>

\* ClearFileOperation and NotifyFrsClosed; the alarm may not be firing when the
\* reader is deleted, nor its read be under way (it would call a reader that is
\* gone, and "failed" stands for that too).  What was true of a reader that is
\* gone stays on record.
ClearFileOperation(r, f) ==
    /\ Set(r, [Fresh EXCEPT !.at = "gone", !.bad = f.bad, !.orphan = f.orphan,
                            !.alarm = IF f.alarm = "firing" THEN "firing" ELSE "no"])
    /\ pool' = IF f.buffer = Null THEN pool ELSE EndUsage(pool, f.buffer, r)
    /\ failed' = (f.alarm = "firing" \/ f.io)
    /\ IF FileOps = {r} /\ element = "closing"
         THEN posted' = Append(posted, <<"closed">>) /\ element' = "closed"
         ELSE UNCHANGED <<posted, element>>
    /\ UNCHANGED aio

\* Mutant of MakeSeek: what was read before the seek is still used.
MakeSeekKeepsData(f) ==
    IF f.seekOff = 0 THEN f ELSE [f EXCEPT !.pos = f.seekOff, !.seekOff = 0]

MakeSeek(f) ==
    IF f.seekOff = 0 THEN f ELSE [f EXCEPT !.pos = f.seekOff, !.seekOff = 0, !.data = <<>>]

\* The seek that is pending is made first; whoever finds the buffer NEW reads.
InitiateAioRequest ==
    /\ Executes("read")
    /\ LET r == Head(work)[2]
           old == frs[r]
           f == MakeSeek(old)
       IN \/ /\ old.buffer # Null          \* "will get called.."
             /\ Then(<<>>)
             /\ failed' = old.io
             /\ UNCHANGED <<frs, pool, aio, posted>>
          \/ /\ old.buffer = Null
             /\ GetBuffer(pool, f.pos) = {}
             /\ Set(r, f)
             /\ failed' = (f.io \/ f.at = "registering")   \* its controller is still set
             /\ Then(StopElement(f, r))
             /\ UNCHANGED <<pool, aio, posted>>
          \/ /\ old.buffer = Null
             /\ \E b \in GetBuffer(pool, f.pos) :
                  LET taken == Taken(pool, b, f.pos)
                      state == taken[b].state
                  IN /\ pool' = BeginUsage(taken, b, r)
                     /\ aio' = IF state = "NEW" THEN aio \cup {r} ELSE aio
                     /\ posted' = IF state = "VALID_DATA" THEN Append(posted, <<"full", r>>)
                                  ELSE posted
                     /\ Set(r, [f EXCEPT !.at = "open", !.io = TRUE, !.buffer = b])
             /\ Then(<<>>)
             /\ failed' = f.io
    /\ UNCHANGED element

\* AioManager: a read completes, or fails, and its closure is posted.
AioCompletes(r, size) ==
    /\ BetweenTurns /\ r \in aio
    /\ size \in {0, Size(frs[r].pos)}
    /\ aio' = aio \ {r}
    /\ pool' = [pool EXCEPT ![frs[r].buffer].content = frs[r].pos]
    /\ posted' = Append(posted, <<"aio", r, size>>)
    /\ UNCHANGED <<frs, work, element, failed>>

\* Mutant of AioOperationCompleted: who waits for the buffer is not called.
AioOperationCompletedAlone ==
    /\ Runs("aio")
    /\ LET r == Head(posted)[2]
       IN /\ pool' = MarkValidData(pool, frs[r].buffer, Head(posted)[3])
          /\ Then(<<<<"op", r>>>>)
    /\ posted' = Tail(posted)
    /\ UNCHANGED <<frs, aio, element, failed>>

\* The ones who wait for the buffer are called, in some order, and then we are.
AioOperationCompleted ==
    /\ Runs("aio")
    /\ LET r == Head(posted)[2]
           b == frs[r].buffer
       IN /\ failed' = (~frs[r].io \/ pool[b].state # "IN_LOOKUP")
          /\ pool' = MarkValidData(pool, b, Head(posted)[3])
          /\ \E waiters \in SetToSeqs(pool[b].done) :
                Then([i \in DOMAIN waiters |-> <<"op", waiters[i]>>] \o <<<<"op", r>>>>)
    /\ posted' = Tail(posted)
    /\ UNCHANGED <<frs, aio, element>>

FullCallback ==
    /\ Runs("full")
    /\ Then(<<<<"op", Head(posted)[2]>>>>)
    /\ posted' = Tail(posted)
    /\ UNCHANGED <<frs, pool, aio, element, failed>>

\* What has been read is used, unless nobody wants it any more.
ProcessAioOperation ==
    /\ Executes("op")
    /\ LET r == Head(work)[2]
           f == [frs[r] EXCEPT !.io = FALSE]
           b == pool[f.buffer]
           done == [f EXCEPT !.buffer = Null]
       IN \/ /\ f.orphan
             /\ ClearFileOperation(r, f)
             /\ Then(<<>>)
          \/ /\ ~f.orphan /\ f.close
             /\ Set(r, f)
             /\ Then(StopElement(f, r))
             /\ failed' = ~frs[r].io
             /\ UNCHANGED <<pool, aio, posted, element>>
          \/ /\ ~f.orphan /\ ~f.close
             /\ pool' = EndUsage(pool, f.buffer, r)
             /\ IF f.seekOff # 0
                  THEN Set(r, done) /\ Then(<<<<"read", r>>>>)
                  ELSE /\ Set(r, IF b.data_size = 0 THEN [done EXCEPT !.eof = TRUE]
                                 ELSE [done EXCEPT !.data = @ \o Contents(b.content),
                                                   !.pos = @ + 1,
                                                   !.eof = b.data_size < MaxSize])
                       /\ Then(<<<<"data", r>>>>)
             /\ failed' = ~frs[r].io
             /\ UNCHANGED <<aio, posted, element>>

-----------------------------------------------------------------------------
(* AioFileReadingStruct: the tags *)

\* The step leaves the reader as f and goes on with these calls.
Continue(r, f, calls) == Set(r, f) /\ Then(calls)

\* After the loop of ProcessData: the end of the file, or the next read.
AfterLoop(f, r) == IF f.eof /\ f.seekOff = 0 THEN StopElement(f, r) ELSE <<<<"read", r>>>>

\* Seek, from the client or for the position the request starts at.
Seek(f, t) ==
    [f EXCEPT !.seekPos = t, !.seekOff = IF f.cues THEN GetCueForTime(t) ELSE 1]

\* EndBootstrapping, or a seek that is performed; then the media tag, unless it
\* is over the limit.
TagsFor(f, r, t) ==
    (IF f.boot THEN <<<<"tag", r, "started", 0>>>> ELSE <<>>)
      \o (IF f.seekPos # 0 THEN <<<<"tag", r, "seek", 0>>>> ELSE <<>>)
      \o (IF f.limit # 0 /\ t >= f.limit THEN StopElement([f EXCEPT !.boot = FALSE], r)
          ELSE <<<<"tag", r, "media", t>>, <<"sent", r>>>>)

\* A round of the loop for a media tag.  The first one makes the initial seek or
\* ends the bootstrapping; what comes before the position sought is dropped.
ProcessMediaTag(r, f, t) ==
    IF f.first /\ f.start > 0
    THEN LET g == Seek([f EXCEPT !.first = FALSE], f.start)
         IN Continue(r, g, AfterLoop(g, r))
    ELSE LET starts == IF f.first THEN <<<<"tag", r, "started", 0>>>> ELSE <<>>
             g == [f EXCEPT !.first = FALSE, !.boot = f.boot /\ ~f.first]
             dropped == IF g.seekPos = 0 THEN g.boot ELSE t < g.seekPos
         IN IF g.seekOff # 0 THEN Continue(r, g, starts \o AfterLoop(g, r))
            ELSE IF dropped THEN Continue(r, g, starts \o <<<<"data", r>>>>)
            ELSE Continue(r, [g EXCEPT !.boot = FALSE, !.seekPos = 0], starts \o TagsFor(g, r, t))

\* A round of the loop; the tag may turn out to be corrupted.
ProcessData ==
    /\ Executes("data")
    /\ LET r == Head(work)[2]
           f == frs[r]
           t == Head(f.data)
           g == [f EXCEPT !.data = Tail(@)]
       IN \/ f.orphan /\ ClearFileOperation(r, f) /\ Then(<<>>)
          \/ /\ ~f.orphan
             /\ \/ f.data = <<>> /\ Continue(r, f, AfterLoop(f, r))
                \/ f.data # <<>> /\ Continue(r, g, StopElement(f, r))
                \/ /\ f.data # <<>> /\ t = CuePoint
                   /\ Continue(r, [g EXCEPT !.cues = TRUE], <<<<"data", r>>>>)
                \/ f.data # <<>> /\ t # CuePoint /\ ProcessMediaTag(r, g, t)
             /\ UNCHANGED <<pool, aio, posted, element, failed>>

\* A reader that is paused stops here, unless it has a seek to make; when its
\* client left inside the tag nothing will clear it.
TagSent ==
    /\ Executes("sent")
    /\ LET r == Head(work)[2]
           f == frs[r]
           stops == f.pauses > 0 /\ f.seekPos = 0
       IN Continue(r, [f EXCEPT !.left = stops /\ f.orphan],
                   IF f.pauses = 0 THEN <<<<"data", r>>>>
                   ELSE IF stops THEN <<>> ELSE AfterLoop(f, r))
    /\ UNCHANGED <<pool, aio, posted, element, failed>>

\* SendTag: what the client is told, and what it may do meanwhile.  A client
\* that had its EOS is no longer followed, nor is one that left a paused reader
\* behind, which InternalClose will stop.
Told(f, kind, t) ==
    LET amiss == \/ f.orphan
                 \/ kind = "started" /\ f.told # "nothing"
                 \/ kind \in {"seek", "media", "ended"} /\ f.told # "started"
                 \/ kind = "seek" /\ f.want = 0
                 \/ kind = "media" /\ (f.want # 0 \/ t # f.next)
                 \/ kind = "eos" /\ f.told = "started"
    IN IF f.told = "eos" \/ f.left THEN f
       ELSE [f EXCEPT !.told = IF kind \in {"started", "ended", "eos"} THEN kind ELSE @,
                      !.next = IF kind = "seek" THEN f.want
                               ELSE IF kind = "media" THEN t + 1 ELSE @,
                      !.want = IF kind = "seek" THEN 0 ELSE @,
                      !.bad = @ \/ amiss]

SendTag ==
    /\ Executes("tag")
    /\ LET r == Head(work)[2]
           kind == Head(work)[3]
           ends == kind = "eos"     \* set_controller(NULL), bootstrapping_ = false
           f == Told([frs[r] EXCEPT !.control = @ /\ ~ends, !.boot = @ /\ ~ends], kind, Head(work)[4])
       IN \/ Set(r, f)
          \/ /\ r \in Controllers /\ f.control /\ f.npause < MaxPauses /\ ~f.orphan
             /\ Set(r, [f EXCEPT !.pauses = @ + 1, !.npause = @ + 1])
          \/ /\ f.pauses > 0 /\ f.control /\ ~f.orphan
             /\ Set(r, [f EXCEPT !.pauses = @ - 1])
          \/ /\ kind \in RemovesIn /\ ~f.orphan
             /\ Set(r, [f EXCEPT !.orphan = TRUE])
    /\ Then(<<>>)
    /\ UNCHANGED <<pool, aio, posted, element, failed>>

-----------------------------------------------------------------------------
(* What the client does between turns *)

\* The client has its request, and the element controls it.
Controls(r) ==
    BetweenTurns /\ r \in Controllers /\ frs[r].at = "open" /\ ~frs[r].orphan /\ frs[r].control

Pause(r) ==
    /\ Controls(r) /\ frs[r].npause < MaxPauses
    /\ Set(r, [frs[r] EXCEPT !.pauses = @ + 1, !.npause = @ + 1])
    /\ UNCHANGED <<pool, aio, posted, work, element, failed>>

\* Pause(false)
Unpause(r) ==
    /\ Controls(r) /\ frs[r].pauses > 0
    /\ Set(r, [frs[r] EXCEPT !.pauses = @ - 1,
                             !.alarm = IF frs[r].pauses = 1 /\ ~frs[r].io THEN "pending" ELSE @])
    /\ UNCHANGED <<pool, aio, posted, work, element, failed>>

\* A client seeks in a stream it was told of.
SeekTo(r, t) ==
    /\ Controls(r) /\ frs[r].told = "started" /\ frs[r].nseek < MaxSeeks
    /\ Set(r, [Seek(frs[r], t) EXCEPT !.want = t, !.nseek = @ + 1])
    /\ Then(IF frs[r].cues /\ ~frs[r].io THEN <<<<"read", r>>>> ELSE <<>>)
    /\ UNCHANGED <<pool, aio, posted, element, failed>>

\* unpause_alarm_ and ProcessDataResume.
AlarmFires(r) ==
    /\ BetweenTurns /\ frs[r].alarm = "pending" /\ frs[r].at = "open"
    /\ Set(r, [frs[r] EXCEPT !.alarm = "firing"])
    /\ Then((IF frs[r].io THEN <<>> ELSE <<<<"data", r>>>>) \o <<<<"fired", r>>>>)
    /\ UNCHANGED <<pool, aio, posted, element, failed>>

AlarmFired ==
    /\ Executes("fired")
    /\ LET r == Head(work)[2] IN Set(r, [frs[r] EXCEPT !.alarm = "no"])
    /\ Then(<<>>)
    /\ UNCHANGED <<pool, aio, posted, element, failed>>

-----------------------------------------------------------------------------
(* AioFileElement *)

AddRequest(r, start, limit) ==
    /\ BetweenTurns /\ element = "open" /\ frs[r].at = "new"
    /\ AddsWhenExhausted \/ GetBuffer(pool, 1) # {}
    /\ Set(r, [Fresh EXCEPT !.at = "registering", !.control = TRUE, !.start = start,
                            !.want = start, !.limit = limit])
    /\ Then(<<<<"read", r>>>>)
    /\ UNCHANGED <<pool, aio, posted, element, failed>>

\* Mutant of RemoveRequest: the reader goes although its read is under way.
RemoveRequestAtOnce(r) ==
    /\ BetweenTurns /\ frs[r].at = "open" /\ ~frs[r].orphan
    /\ ClearFileOperation(r, frs[r])
    /\ UNCHANGED work

RemoveRequest(r) ==
    /\ BetweenTurns /\ frs[r].at = "open" /\ ~frs[r].orphan
    /\ IF frs[r].io
         THEN /\ Set(r, [frs[r] EXCEPT !.orphan = TRUE])
              /\ UNCHANGED <<pool, aio, posted, element, failed>>
         ELSE ClearFileOperation(r, frs[r])
    /\ UNCHANGED work

\* The mapper has taken the element off its map.
Close ==
    /\ BetweenTurns /\ element = "open"
    /\ element' = "closing"
    /\ posted' = Append(posted, <<"InternalClose">>)
    /\ UNCHANGED <<frs, pool, aio, work, failed>>

\* Readers that wait for data stop when it comes, the others at once.
InternalClose ==
    /\ Runs("InternalClose")
    /\ frs' = [r \in Readers |->
                  IF r \in FileOps THEN [frs[r] EXCEPT !.close = TRUE] ELSE frs[r]]
    /\ \E order \in SetToSeqs({r \in FileOps : ~frs[r].io}) :
          Then([i \in DOMAIN order |-> <<"stop", order[i]>>])
    /\ IF element = "closing" /\ FileOps = {}
         THEN element' = "closed" /\ posted' = Append(Tail(posted), <<"closed">>)
         ELSE posted' = Tail(posted) /\ UNCHANGED element
    /\ UNCHANGED <<pool, aio, failed>>

StopReader ==
    /\ Executes("stop")
    /\ LET r == Head(work)[2] IN Then(StopElement(frs[r], r))
    /\ UNCHANGED <<frs, pool, aio, posted, element, failed>>

\* call_on_close_: the element is deleted, and checks that it has no reader.
ElementClosed ==
    /\ Runs("closed")
    /\ element' = "deleted"
    /\ failed' = (FileOps # {})
    /\ posted' = Tail(posted)
    /\ UNCHANGED <<frs, pool, aio, work>>

-----------------------------------------------------------------------------
AioLoopStep ==
    \/ InitiateAioRequest \/ ProcessAioOperation \/ ProcessData \/ TagSent \/ SendTag
    \/ AlarmFired \/ AioOperationCompleted \/ FullCallback \/ InternalClose \/ StopReader
    \/ ElementClosed
    \/ \E r \in Readers : AlarmFires(r)

ClientStep(r) ==
    \/ \E req \in Requests : AddRequest(r, req[1], req[2])
    \/ RemoveRequest(r) \/ Pause(r) \/ Unpause(r)
    \/ \E t \in 1..FileTags : SeekTo(r, t)

AioNext ==
    \/ AioLoopStep
    \/ \E r \in Readers : ClientStep(r) \/ \E size \in 0..MaxSize : AioCompletes(r, size)
    \/ Close

\* The loop runs, reads complete, a client goes on in the end and takes its
\* request out when it was told EOS.
AioFairness ==
    /\ WF_aioVars(AioLoopStep)
    /\ \A r \in Readers :
         /\ WF_aioVars(\E size \in 0..MaxSize : AioCompletes(r, size))
         /\ WF_aioVars(Unpause(r))
         /\ WF_aioVars(frs[r].told = "eos" /\ RemoveRequest(r))

AioSpec == AioInit /\ [][AioNext]_aioVars /\ AioFairness

-----------------------------------------------------------------------------
\* Where the code does abort (CHECK(!firing_), alarm.cc:50): unpause_alarm_ fires,
\* the client removes itself inside a tag of this turn, and the next round of
\* ProcessData deletes the reader, and the alarm with it (aio_file_element.cc:369).
ClearedInAlarm ==
    \E r \in Readers : frs[r].at = "gone" /\ frs[r].orphan /\ frs[r].alarm = "firing"

\* The CHECKs on the way of a read: one operation at a time for a reader, a
\* buffer marked valid by the one who looks it up, every reader gone when the
\* element is deleted; no reader is deleted while the AioManager or another
\* reader has its callback, nor with its alarm firing but as ClearedInAlarm says.
NoCheckFails == failed => ClearedInAlarm

\* Between the readers that come, go, seek and fail, a buffer is used by whom it
\* counts, no two are for the same data, one that is looked up has exactly one
\* read under way, who waits for it will be called, and data marked valid is
\* the data of its key (BufferManager with InitiateAioRequest and EndUsage).
BuffersAccounted ==
    LET Users(b) == {r \in Readers : frs[r].buffer = b}
        Reading(r) == r \in aio \/ \E i \in DOMAIN posted : posted[i][1] = "aio" /\ posted[i][2] = r
    IN /\ \A b \in Buffers :
            /\ pool[b].use_count = Cardinality(Users(b))
            /\ pool[b].done \subseteq Users(b)
            /\ pool[b].use_count > 0 => pool[b].state # "NEW"
            /\ pool[b].state = "IN_LOOKUP" =>
                 Cardinality({r \in Users(b) : Reading(r)}) = 1
                   /\ {r \in Users(b) : ~Reading(r)} = pool[b].done
            /\ pool[b].state = "VALID_DATA" /\ pool[b].data_size > 0 =>
                 pool[b].content = pool[b].data_key
       /\ \A b, c \in Buffers : pool[b].data_key = pool[c].data_key /\ b # c =>
                                   pool[b].data_key = Null

\* A client is told of a source that starts, its media in the order of the file
\* and without a gap, from the position of each seek once that was performed
\* (and of nothing in between), its end, and EOS; nothing once it has left,
\* unless it left its reader paused, and InternalClose stops that.
StreamInOrder == \A r \in Readers : ~frs[r].bad

\* A request comes to its end, through pauses, seeks, failed reads and missing
\* buffers, and so does the element when it is closed ("No more active FRS,
\* completing close..").  The code never clears a reader that is paused when its
\* client leaves inside a tag (aio_file_element.cc:489), and the element that has
\* one never completes its close: these, and an abort, are the only exceptions.
EveryReaderEnds ==
    LET Left(r) == frs[r].left
    IN /\ \A r \in Readers : frs[r].at = "open" ~> frs[r].at # "open" \/ Left(r) \/ failed
       /\ element \in {"closing", "closed"} ~>
              element = "deleted" \/ failed \/ \E r \in Readers : Left(r)
=============================================================================
