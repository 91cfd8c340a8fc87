----------------------------- MODULE StateKeeper -----------------------------
(***************************************************************************)
(* io::StateKeeper (common/io/checkpoint): a map in memory whose changes   *)
(* go to a log, and now and then whole to a checkpoint, through a writer   *)
(* thread.  The process may die at any time and start again from the disk. *)
(*                                                                         *)
(* A change (one call, or the calls of one transaction) is one record of   *)
(* the log and is named by its number; the map is the sequence of the      *)
(* changes it has seen.                                                    *)
(***************************************************************************)
EXTENDS RecordLog, FiniteSets

CONSTANTS
    checkpoints_to_keep_,
    MaxRecords,           \* bounds
    MaxCheckpoints,
    MaxQueue,
    MaxCrashes,
    MaxErrors,            \* writes and opens that fail
    Failures              \* where a write to the log may fail: see WriteFails

ASSUME KeeperAssumption ==
    /\ checkpoints_to_keep_ \in Nat \ {0, 1}    \* kMinNumCheckpointsToKeep
    /\ {MaxRecords, MaxCheckpoints, MaxQueue, MaxCrashes, MaxErrors} \subseteq Nat
    /\ Failures \subseteq {"before", "within", "between"}

VARIABLES
    data_,
    op_buf_,           \* the change of the open transaction, or 0
    in_transaction_,
    records,           \* number of records so far
    writer_queue_,     \* commands: [log |-> record], [checkpoint |-> map] or [exit |-> 0]
    writer,            \* where the writer thread is
    after,             \* where it goes on when WriteBuffer returns true
    content_,          \* the recorder's incomplete block
    buf_,              \* complete blocks that are not written yet
    file_num_,
    file_,             \* the log file: "open", "closed", or "bad": cut within a block
    chained,           \* a block of this process is in the log
    dropped,           \* history: records that WriteRecord refused
    saving,            \* the map of CheckpointInternal, until BeginCheckpoint
    opened,            \* CheckpointWriter's file_ is open
    cleaning,          \* the position of the checkpoint that CleanOldState removed
    logs,              \* disk: file number -> blocks
    checkpoints,       \* disk: file number -> [complete, pos, data]
    crashes, errors

appVars    == <<data_, op_buf_, in_transaction_, records>>
recorder   == <<content_, buf_>>
fileVars   == <<file_num_, file_, chained, dropped>>
writerVars == <<writer, after, recorder, fileVars, saving, opened, cleaning>>
diskVars   == <<logs, checkpoints>>
bounds     == <<crashes, errors>>
vars == <<appVars, writer_queue_, writerVars, diskVars, bounds>>

Records == 0..MaxRecords
Maps == {d \in UNION {[1..n -> Records \ {0}] : n \in 0..MaxRecords} : \A i, j \in DOMAIN d : i < j => d[i] < d[j]}
Commands == [log : Records] \cup [checkpoint : Maps] \cup [exit : {0}]
Pieces == [record : Records, first : BOOLEAN, cont : BOOLEAN, broken : BOOLEAN]
Blocks == UNION {[1..n -> Pieces] : n \in 1..(MaxPieces + 1)}
Positions == [file : Nat, block : 0..blocks_per_file_]

TypeOK ==
    /\ data_ \in Maps
    /\ op_buf_ \in Records
    /\ in_transaction_ \in BOOLEAN
    /\ records \in Records
    /\ writer_queue_ \in Seq(Commands)
    /\ writer \in {"get", "write", "begin", "fill", "clean", "cleanlog", "close", "gone", "dead"}
    /\ after \in {"get", "begin", "close", "gone"}
    /\ content_ \in {<<>>} \cup Blocks
    /\ buf_ \in Seq(Blocks)
    /\ file_num_ \in Nat
    /\ file_ \in {"open", "closed", "bad"} /\ (file_ # "closed" => file_num_ \in DOMAIN logs)
    /\ chained \in BOOLEAN /\ dropped \subseteq Records
    /\ saving \in Maps
    /\ opened \in BOOLEAN
    /\ cleaning \in Positions
    /\ DOMAIN logs \subseteq Nat
    /\ \A f \in DOMAIN logs : logs[f] \in Seq(Blocks) /\ Len(logs[f]) <= blocks_per_file_
    /\ DOMAIN checkpoints \subseteq Nat
    /\ \A c \in DOMAIN checkpoints :
         checkpoints[c] \in [complete : BOOLEAN, pos : Positions, data : Maps]
    /\ crashes \in 0..MaxCrashes /\ errors \in 0..MaxErrors

\* StateKeeper in an empty directory, initialized.
Init ==
    /\ data_ = <<>> /\ op_buf_ = 0 /\ in_transaction_ = FALSE /\ records = 0
    /\ writer_queue_ = <<>>
    /\ writer = "get" /\ after = "get"
    /\ content_ = <<>> /\ buf_ = <<>>
    /\ file_num_ = 0 /\ file_ = "open" /\ chained = FALSE /\ dropped = {}
    /\ saving = <<>> /\ opened = FALSE /\ cleaning = [file |-> 0, block |-> 0]
    /\ logs = [f \in {0} |-> <<>>]
    /\ checkpoints = [c \in {} |-> <<>>]
    /\ crashes = 0 /\ errors = 0

-----------------------------------------------------------------------------
(* The owner's thread.  It waits when the queue is full. *)

Put(commands) ==
    /\ Len(writer_queue_) + Len(commands) <= MaxQueue
    /\ writer_queue_' = writer_queue_ \o commands

NewRecord(r) ==
    /\ records < MaxRecords
    /\ records' = records + 1
    /\ r \in {0, records + 1}

Change(c) ==
    /\ NewRecord(c)
    /\ c # 0
    /\ data_' = Append(data_, c)

Queued(what) == {i \in DOMAIN writer_queue_ : what \in DOMAIN writer_queue_[i]}

\* The object is in use, not in its destructor.
Running == writer \notin {"close", "gone", "dead"} /\ after \notin {"close", "gone"} /\ Queued("exit") = {}

\* SetValue, DeleteValue or DeletePrefix that changes the map.
Update ==
    /\ Running
    /\ ~in_transaction_
    /\ \E c \in Records : Change(c) /\ Put(<<[log |-> c]>>)
    /\ UNCHANGED <<op_buf_, in_transaction_, writerVars, diskVars, bounds>>

BeginTransaction ==
    /\ Running
    /\ ~in_transaction_
    /\ in_transaction_' = TRUE
    /\ UNCHANGED <<data_, op_buf_, records, writer_queue_, writerVars, diskVars, bounds>>

\* The first change in a transaction; later ones join it in op_buf_.
UpdateInTransaction ==
    /\ Running
    /\ in_transaction_ /\ op_buf_ = 0
    /\ \E c \in Records : Change(c) /\ op_buf_' = c
    /\ UNCHANGED <<in_transaction_, writer_queue_, writerVars, diskVars, bounds>>

\* QueueWrite: the record is empty when nothing was changed.
CommitTransaction ==
    /\ Running
    /\ in_transaction_
    /\ Put(<<[log |-> op_buf_]>>)
    /\ in_transaction_' = FALSE
    /\ op_buf_' = 0
    /\ IF op_buf_ = 0 THEN NewRecord(0) ELSE UNCHANGED records
    /\ UNCHANGED <<data_, writerVars, diskVars, bounds>>

CheckpointNumbers == DOMAIN checkpoints \cup {0}
LastCheckpoint == CHOOSE n \in CheckpointNumbers : \A m \in CheckpointNumbers : m <= n

\* Checkpoints made or asked for: bounded.
MoreCheckpoints ==
    LastCheckpoint + Cardinality(Queued("checkpoint")) + (IF "begin" \in {writer, after} THEN 1 ELSE 0)
      < MaxCheckpoints

\* ExpireTimeoutedKeys commits a transaction, empty or not, before the map is
\* copied.
Checkpoint ==
    /\ Running
    /\ MoreCheckpoints
    /\ ~in_transaction_
    /\ \E r \in Records :
         /\ (NewRecord(0) /\ r = 0 /\ UNCHANGED data_) \/ Change(r)
         /\ Put(<<[log |-> r], [checkpoint |-> data_']>>)
    /\ UNCHANGED <<op_buf_, in_transaction_, writerVars, diskVars, bounds>>

\* ~StateKeeper: an open transaction is dropped.
Close ==
    /\ Running
    /\ Put(<<[exit |-> 0]>>)
    /\ in_transaction_' = FALSE
    /\ op_buf_' = 0
    /\ data_' = SelectSeq(data_, LAMBDA c : c # op_buf_)
    /\ UNCHANGED <<records, writerVars, diskVars, bounds>>

-----------------------------------------------------------------------------
(* The writer thread *)

\* LogWriter::Flush, on the way to a place in WriterThread.
Flush(next) ==
    /\ buf_' = buf_ \o FinalizeContent(content_)
    /\ content_' = <<>>
    /\ after' = IF buf_' = <<>> THEN "get" ELSE next
    /\ writer' = IF buf_' = <<>> THEN next ELSE "write"

\* OpenNextLog leaves a full file behind.
Opened(files) ==
    IF Len(files[LastFile(files)]) = blocks_per_file_
      THEN [f \in DOMAIN files \cup {LastFile(files) + 1} |-> IF f \in DOMAIN files THEN files[f] ELSE <<>>]
      ELSE files

Fail ==
    /\ errors < MaxErrors
    /\ errors' = errors + 1
    /\ UNCHANGED crashes

Queue(what) == writer_queue_ # <<>> /\ what \in DOMAIN Head(writer_queue_)

WriteRecord ==
    /\ writer = "get"
    /\ Queue("log")
    /\ writer_queue_' = Tail(writer_queue_)
    /\ \E r \in AppendRecord(content_, Head(writer_queue_).log) :
         /\ content_' = r.content
         /\ buf_' = buf_ \o r.out
         /\ writer' = IF r.out = <<>> THEN "get" ELSE "write"
    /\ after' = "get"
    /\ logs' = IF file_ = "closed" THEN Opened(logs) ELSE logs
    /\ file_' = IF file_ = "closed" THEN "open" ELSE file_
    /\ UNCHANGED <<appVars, file_num_, chained, dropped, saving, opened, cleaning, checkpoints, bounds>>

\* OpenNextLog fails once more (the same error, for the bound's sake), and nobody
\* looks at what WriteRecord returns.
WriteRecordFails ==
    /\ writer = "get" /\ file_ = "closed"
    /\ Queue("log")
    /\ writer_queue_' = Tail(writer_queue_)
    /\ dropped' = dropped \cup {Head(writer_queue_).log}
    /\ UNCHANGED <<appVars, writer, after, recorder, file_num_, file_, chained, saving, opened, cleaning,
                   diskVars, bounds>>

CheckpointInternal ==
    /\ writer = "get"
    /\ Queue("checkpoint")
    /\ writer_queue_' = Tail(writer_queue_)
    /\ saving' = Head(writer_queue_).checkpoint
    /\ Flush("begin")
    /\ UNCHANGED <<appVars, fileVars, opened, cleaning, diskVars, bounds>>

ExitWriter ==
    /\ writer = "get"
    /\ Queue("exit")
    /\ writer_queue_' = Tail(writer_queue_)
    /\ Flush("close")
    /\ UNCHANGED <<appVars, fileVars, saving, opened, cleaning, diskVars, bounds>>

\* Mutant of CloseLog: what is left is not written.
CloseLogOnly ==
    /\ writer = "close"
    /\ writer' = "gone" /\ after' = "get"
    /\ UNCHANGED <<appVars, writer_queue_, recorder, fileVars, saving, opened, cleaning, diskVars, bounds>>

\* ~LogWriter, when the thread has ended; CHECK(buf_.IsEmpty()).
CloseLog ==
    /\ writer = "close"
    /\ IF file_ # "closed"
         THEN Flush("gone")
         ELSE /\ writer' = IF recorder = <<<<>>, <<>>>> THEN "gone" ELSE "dead"
              /\ UNCHANGED <<after, recorder>>
    /\ UNCHANGED <<appVars, writer_queue_, fileVars, saving, opened, cleaning, diskVars, bounds>>

\* Mutant of IdleFlush: the incomplete block stays in memory.
IdleFlushWritesNothing ==
    /\ writer = "get"
    /\ writer_queue_ = <<>>
    /\ buf_ # <<>>
    /\ writer' = "write" /\ after' = "get"
    /\ UNCHANGED <<recorder, writer_queue_, appVars, fileVars, saving, opened, cleaning, diskVars, bounds>>

\* Get(kFlushIntervalMs) returns NULL.
IdleFlush ==
    /\ writer = "get"
    /\ writer_queue_ = <<>>
    /\ content_ # <<>> \/ buf_ # <<>>
    /\ Flush("get")
    /\ UNCHANGED <<appVars, writer_queue_, fileVars, saving, opened, cleaning, diskVars, bounds>>

\* What the current file has room for.
ToWrite ==
    LET room == blocks_per_file_ - Len(logs[file_num_])
    IN  IF Len(buf_) < room THEN Len(buf_) ELSE room

\* The file with n blocks of buf_ more.
WithBlocks(n) == [logs EXCEPT ![file_num_] = @ \o SubSeq(buf_, 1, n)]

\* WriteBuffer returns false.  ~LogWriter then aborts if something is left.
GiveUp ==
    /\ writer' = CASE after = "close" -> "close"
                   [] after = "gone"  -> IF buf_' = <<>> THEN "gone" ELSE "dead"
                   [] OTHER           -> "get"
    /\ after' = "get"
    /\ saving' = <<>>

\* One turn of LogWriter::WriteBuffer's loop; a full file is followed by the
\* next one, if OpenNextLog succeeds.
WriteBuffer ==
    /\ writer = "write" /\ file_ = "open"
    /\ buf_' = SubSeq(buf_, ToWrite + 1, Len(buf_))
    /\ chained' = TRUE
    /\ LET files == WithBlocks(ToWrite)
           next  == Opened(files)
       IN  /\ file_num_' = LastFile(next)
           /\ \/ /\ logs' = next
                 /\ writer' = IF buf_' = <<>> THEN after ELSE "write"
                 /\ after' = IF buf_' = <<>> THEN "get" ELSE after
                 /\ UNCHANGED <<saving, file_, bounds>>
              \/ /\ next # files
                 /\ logs' = files
                 /\ file_' = "closed"
                 /\ GiveUp
                 /\ Fail
    /\ UNCHANGED <<content_, dropped, opened, cleaning, checkpoints, appVars, writer_queue_>>

\* CHECK(file_.is_open()), and the error for a file that was cut.
WriteRefused ==
    /\ writer = "write"
    /\ UNCHANGED <<recorder, fileVars, opened, cleaning, diskVars, appVars, writer_queue_, bounds>>
    /\ \/ file_ = "closed" /\ writer' = "dead" /\ UNCHANGED <<after, saving>>
       \/ file_ = "bad" /\ GiveUp

\* File::Write fails after n whole blocks of buf_: before it wrote anything,
\* within a block, or between two.  All of buf_ is kept for the next time.
WriteFails ==
    /\ writer = "write" /\ file_ = "open"
    /\ Fail
    /\ \E where \in Failures, n \in 0..(ToWrite - 1) :
         /\ where = "before" => n = 0
         /\ where = "between" => n > 0
         /\ logs' = WithBlocks(n)
         /\ file_' = IF where = "within" THEN "bad" ELSE "open"
         /\ buf_' = IF where = "between" THEN [buf_ EXCEPT ![1][1].broken = chained] ELSE buf_
         /\ chained' = (chained \/ n > 0)
    /\ GiveUp
    /\ UNCHANGED <<content_, file_num_, dropped, opened, cleaning, checkpoints, appVars, writer_queue_>>

\* CHECK(!file_.is_open()) aborts after a failed AddRecord, and Tell's
\* CHECK(file_.is_open()) after a failed OpenNextLog: see Abort.
BeginCheckpoint ==
    /\ writer = "begin"
    /\ ~opened /\ file_ = "open"
    /\ opened' = TRUE
    /\ checkpoints' =
         [c \in DOMAIN checkpoints \cup {LastCheckpoint + 1} |->
            IF c = LastCheckpoint + 1
              THEN [complete |-> FALSE, pos |-> Tell(logs, file_num_), data |-> saving]
              ELSE checkpoints[c]]
    /\ writer' = "fill"
    /\ saving' = <<>>
    /\ UNCHANGED <<after, recorder, fileVars, cleaning, logs, appVars, writer_queue_, bounds>>

\* The file of the checkpoint is not opened.
BeginCheckpointFails ==
    /\ writer = "begin"
    /\ ~opened /\ file_ = "open"
    /\ Fail
    /\ writer' = "get"
    /\ saving' = <<>>
    /\ UNCHANGED <<after, recorder, fileVars, opened, cleaning, diskVars, appVars, writer_queue_>>

Abort ==
    /\ writer = "begin" /\ (opened \/ file_ # "open")
    /\ writer' = "dead"
    /\ UNCHANGED <<after, recorder, fileVars, saving, opened, cleaning, diskVars, appVars, writer_queue_, bounds>>

\* A write of AddRecord fails: the file stays open.
AddRecordFails ==
    /\ writer = "fill"
    /\ Fail
    /\ writer' = "get"
    /\ UNCHANGED <<after, recorder, fileVars, saving, opened, cleaning, diskVars, appVars, writer_queue_>>

\* All records of the map were added; the last write succeeds or fails.
EndCheckpoint(ok) ==
    /\ writer = "fill"
    /\ IF ok THEN UNCHANGED bounds ELSE Fail
    /\ checkpoints' = [checkpoints EXCEPT ![LastCheckpoint].complete = ok]
    /\ opened' = FALSE
    /\ writer' = IF ok THEN "clean" ELSE "get"
    /\ UNCHANGED <<after, recorder, fileVars, saving, cleaning, logs, appVars, writer_queue_>>

\* CleanOldState: first the corrupted checkpoints go, then the old ones, each
\* with the logs before its position.
Corrupted == {c \in DOMAIN checkpoints : ~checkpoints[c].complete}
OldestCheckpoint == CHOOSE c \in DOMAIN checkpoints : \A d \in DOMAIN checkpoints : c <= d

RemoveCheckpoint(c) == checkpoints' = [d \in DOMAIN checkpoints \ {c} |-> checkpoints[d]]

CleanOldState ==
    /\ writer = "clean"
    /\ \/ /\ \E c \in Corrupted : RemoveCheckpoint(c)
          /\ UNCHANGED <<writer, cleaning>>
       \/ /\ Corrupted = {}
          /\ Cardinality(DOMAIN checkpoints) > checkpoints_to_keep_
          /\ RemoveCheckpoint(OldestCheckpoint)
          /\ cleaning' = checkpoints[OldestCheckpoint].pos
          /\ writer' = "cleanlog"
       \/ /\ Corrupted = {}
          /\ Cardinality(DOMAIN checkpoints) <= checkpoints_to_keep_
          /\ writer' = "get"
          /\ UNCHANGED <<checkpoints, cleaning>>
    /\ UNCHANGED <<after, recorder, fileVars, saving, opened, logs, appVars, writer_queue_, bounds>>

\* Mutant of CleanLog: everything that is full goes.
CleanLogTooMuch ==
    /\ writer = "cleanlog"
    /\ logs' = [f \in {file_num_} |-> logs[f]]
    /\ writer' = "clean"
    /\ UNCHANGED <<after, recorder, fileVars, saving, opened, cleaning, checkpoints, appVars, writer_queue_, bounds>>

\* One file, the oldest first, or the end.
CleanLog ==
    /\ writer = "cleanlog"
    /\ IF FirstFile(logs) < cleaning.file
         THEN /\ logs' = [f \in DOMAIN logs \ {FirstFile(logs)} |-> logs[f]]
              /\ UNCHANGED <<writer, cleaning>>
         ELSE /\ writer' = "clean"
              /\ cleaning' = [file |-> 0, block |-> 0]
              /\ UNCHANGED logs
    /\ UNCHANGED <<after, recorder, fileVars, saving, opened, checkpoints, appVars, writer_queue_, bounds>>

-----------------------------------------------------------------------------
(* The process starts again *)

Complete == {c \in DOMAIN checkpoints : checkpoints[c].complete}

\* The map that checkpoint c (0: none) and the log files lead to.
ReadFrom(c, files) ==
    IF c = 0
      THEN ReadRecords(<<>>, PiecesFrom(files, Start(files)))
      ELSE ReadRecords(checkpoints[c].data, PiecesFrom(files, checkpoints[c].pos))

\* ReadCheckpoint takes the last complete one.
ReadState(files) ==
    ReadFrom(CHOOSE c \in Complete \cup {0} : \A d \in Complete : d <= c, files)

\* Initialize, with these log files on the disk.  LogWriter cuts off a part of a
\* block and goes on in the last file, or in a new one when it is full.
Initialize(files) ==
    /\ data_' = ReadState(files)
    /\ logs' = Opened(files)
    /\ file_num_' = LastFile(logs') /\ file_' = "open"
    /\ chained' = FALSE /\ dropped' = {}
    /\ op_buf_' = 0 /\ in_transaction_' = FALSE
    /\ writer_queue_' = <<>>
    /\ writer' = "get" /\ after' = "get"
    /\ content_' = <<>> /\ buf_' = <<>>
    /\ saving' = <<>> /\ opened' = FALSE /\ cleaning' = [file |-> 0, block |-> 0]
    /\ UNCHANGED <<records, checkpoints, errors>>

\* The process dies, in the middle of a write too, and is started again.
Crash ==
    /\ crashes < MaxCrashes
    /\ crashes' = crashes + 1
    /\ IF writer = "write" /\ file_ = "open"
         THEN \E n \in 0..ToWrite : Initialize(WithBlocks(n))
         ELSE Initialize(logs)

\* It is started again after an orderly end, or after Abort.
Restart ==
    /\ writer \in {"gone", "dead"}
    /\ Initialize(logs)
    /\ UNCHANGED crashes

WriterStep ==
    \/ WriteRecord
    \/ CheckpointInternal
    \/ ExitWriter
    \/ CloseLog
    \/ IdleFlush
    \/ WriteBuffer
    \/ WriteRefused
    \/ BeginCheckpoint
    \/ Abort
    \/ EndCheckpoint(TRUE)
    \/ CleanOldState
    \/ CleanLog

Next ==
    \/ Update
    \/ BeginTransaction
    \/ UpdateInTransaction
    \/ CommitTransaction
    \/ Checkpoint
    \/ Close
    \/ WriterStep
    \/ WriteRecordFails
    \/ WriteFails
    \/ BeginCheckpointFails
    \/ AddRecordFails
    \/ EndCheckpoint(FALSE)
    \/ Crash
    \/ Restart

\* The writer thread is scheduled.
Fairness == WF_vars(WriterStep)

Spec == Init /\ [][Next]_vars
FairSpec == Spec /\ Fairness

-----------------------------------------------------------------------------
(* Properties *)

Changes(pieces) == {pieces[i].record : i \in DOMAIN pieces}

\* Changes that are not on the disk, or not yet.
InFlight ==
    {op_buf_}
      \cup dropped
      \cup {writer_queue_[i].log : i \in Queued("log")}
      \cup Changes(content_) \cup Changes(FlattenSeq(buf_))

Durable == ToSet(data_) \ InFlight

\* Records the reader drops because a crash left the beginning of another one
\* right before them.
AfterTorn ==
    LET p == PiecesFrom(logs, Start(logs))
    IN  {p[i].record : i \in {j \in 2..Len(p) : p[j].first /\ p[j - 1].cont}}

\* From every checkpoint that is kept, not only the last one, the log leads to
\* a map with all changes that were flushed (but for the one after a torn
\* record), in their order, and with nothing that was not committed.
Recoverable ==
    \A c \in Complete \cup (IF Complete = {} THEN {0} ELSE {}) :
      LET read == ReadFrom(c, logs)
      IN  /\ Durable \ AfterTorn \subseteq ToSet(read)
          /\ ToSet(read) \subseteq ToSet(data_) \ {op_buf_}
          /\ \A i, j \in DOMAIN read : i < j => read[i] < read[j]

\* state_keeper.h:83 Initialize "to actually read the previous data saved in
\* the state": whatever was flushed is read again.
FlushedIsRead == Durable \subseteq ToSet(ReadState(logs))

\* An orderly end loses nothing that WriteRecord took: what a new process reads
\* is the old map.
CloseKeepsAll ==
    [][writer = "gone" /\ AfterTorn = {} /\ dropped = {} /\ writer' = "get" => data_' = data_]_vars

\* A change reaches the disk, unless the process dies first, the file was cut
\* within a block, after which nothing is written any more, or WriteRecord could
\* not open the next file.
EventuallyDurable ==
    \A c \in 1..MaxRecords :
      (c \in ToSet(data_) /\ c # op_buf_)
        ~> (c \in Durable \/ c \notin ToSet(data_) \/ writer = "dead" \/ file_ = "bad" \/ c \in dropped)
=============================================================================
