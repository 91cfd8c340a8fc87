------------------------------ MODULE RecordLog ------------------------------
(***************************************************************************)
(* The format of the logs (common/io/logio): a log is a row of numbered    *)
(* files of blocks_per_file_ blocks; a block holds pieces of records; a    *)
(* record that does not fit the current block continues in the next one.   *)
(* A record is named by its number, 0 is an empty record; byte sizes are   *)
(* left out: every way of filling blocks is possible, with a record in at  *)
(* most two of them.  Of the checksums only the chain is here: broken marks *)
(* the first piece of a block that does not follow the one it was made     *)
(* after.                                                                  *)
(***************************************************************************)
EXTENDS Integers, Sequences, SequencesExt

CONSTANTS
    blocks_per_file_,
    MaxPieces          \* bound: pieces in a block

ASSUME LogAssumption ==
    /\ blocks_per_file_ \in Nat \ {0}
    /\ MaxPieces \in Nat \ {0}

Piece(r, first, cont) == [record |-> r, first |-> first, cont |-> cont, broken |-> FALSE]

\* RecordWriter::AppendRecord and FinalizeContent: what may become of the
\* current block, content, and which blocks are complete, out.  A block is
\* complete when the record does not fit it or when it is nearly full.
AppendRecord(content, r) ==
    LET whole == Append(content, Piece(r, TRUE, FALSE))
        head  == Append(content, Piece(r, TRUE, TRUE))
        rest  == <<Piece(r, FALSE, FALSE)>>
    IN  {[content |-> <<>>, out |-> <<whole>>]}
          \cup (IF Len(whole) < MaxPieces THEN {[content |-> whole, out |-> <<>>]} ELSE {})
          \cup (IF r = 0 THEN {} ELSE {[content |-> rest, out |-> <<head>>],
                                       [content |-> <<>>, out |-> <<head, rest>>]})

FinalizeContent(content) == IF content = <<>> THEN <<>> ELSE <<content>>

\* The changes of a record are made again: its keys have its values, as if it
\* had come last.
Again(map, r) == SelectSeq(map, LAMBDA x : x # r) \o <<r>>

\* RecordReader::ReadRecord for one piece; part: the record that is being put
\* together.  A first piece in the middle of a record is an error: both are
\* dropped.  A continuation without a beginning is skipped.  When the chain
\* breaks in the middle of a record, one whole row of pieces is skipped.
ReadPiece(acc, p) ==
    CASE acc.skip \/ (p.broken /\ acc.part # {}) -> [acc EXCEPT !.skip = p.cont]
      [] ~acc.skip /\ p.first /\ acc.part # {} /\ ~p.broken -> [acc EXCEPT !.part = {}]
      [] ~acc.skip /\ ~p.first /\ acc.part = {} -> acc
      [] OTHER ->
           IF p.cont
             THEN [acc EXCEPT !.part = @ \cup {p.record}]
             ELSE [acc EXCEPT !.part = {},
                              !.out = FoldLeft(Again, @, SetToSeq((acc.part \cup {p.record}) \ {0}))]

\* LogReader::GetNextRecord until it fails, for a map that was read before.
ReadRecords(map, pieces) ==
    FoldLeft(ReadPiece, [part |-> {}, skip |-> FALSE, out |-> map], pieces).out

\* LogWriter::Tell, with nothing pending in the recorder.
Tell(logs, file) ==
    IF Len(logs[file]) = blocks_per_file_
      THEN [file |-> file + 1, block |-> 0]
      ELSE [file |-> file, block |-> Len(logs[file])]

LastFile(logs)  == CHOOSE f \in DOMAIN logs : \A g \in DOMAIN logs : g <= f
FirstFile(logs) == CHOOSE f \in DOMAIN logs : \A g \in DOMAIN logs : g >= f

\* LogReader: the pieces from pos on.  When there is no such file the log is
\* not read (the seek fails or the log ends there).
PiecesFrom(logs, pos) ==
    IF pos.file \notin DOMAIN logs
      THEN <<>>
      ELSE LET blocks(f) == SubSeq(logs[f], IF f = pos.file THEN pos.block + 1 ELSE 1, Len(logs[f]))
               n == LastFile(logs) - pos.file + 1
           IN  FlattenSeq(FlattenSeq([i \in 1..n |-> blocks(pos.file + i - 1)]))

\* LogReader::Rewind
Start(logs) == [file |-> FirstFile(logs), block |-> 0]
=============================================================================
