---------------------------- MODULE BufferManager ----------------------------
(***************************************************************************)
(* io::BufferManager (common/io/file/buffer_manager.cc): a pool of file    *)
(* buffers shared by the readers.  A buffer is looked up by the key of the *)
(* data it is for; one that nobody uses any more keeps its data until its  *)
(* memory is needed.  The first user of a NEW buffer fills it, the others  *)
(* wait in done_callbacks_.                                                *)
(*                                                                         *)
(* The operators map a pool (a function from Buffers to their records) to  *)
(* the pool after the call.  A buffer is its memory: without a key it is   *)
(* in freelist_, which hands out at most Cardinality(Buffers).             *)
(***************************************************************************)
EXTENDS Naturals, FiniteSets

CONSTANTS Buffers,
          Readers,    \* who uses them, each with a callback of its own
          Keys,       \* what they are for
          MaxSize,    \* data_capacity_
          Null        \* no buffer, no key

ASSUME BufferAssumption ==
    /\ IsFiniteSet(Readers)
    /\ MaxSize \in Nat \ {0}
    /\ Null \notin Buffers \cup Keys

BufferStates == {"NEW", "IN_LOOKUP", "VALID_DATA"}

Buffer == [data_key  : Keys \cup {Null},
           state     : BufferStates,
           use_count : Nat,
           data_size : 0..MaxSize,
           done      : SUBSET Readers,         \* done_callbacks_
           content   : Keys \cup {Null}]       \* what data_ really holds

Pool == [Buffers -> Buffer]

NewBuffer(key, content) ==
    [data_key |-> key, state |-> "NEW", use_count |-> 1, data_size |-> 0, done |-> {},
     content |-> content]

FreeListed(content) == [NewBuffer(Null, content) EXCEPT !.use_count = 0]

EmptyPool == [b \in Buffers |-> FreeListed(Null)]

\* active_buffers_, free_buffers_ and the memory still in freelist_
ActiveBuffers(pool) == {b \in Buffers : pool[b].use_count > 0}
FreeBuffers(pool) == {b \in Buffers : pool[b].data_key # Null /\ pool[b].use_count = 0}
Unallocated(pool) == {b \in Buffers : pool[b].data_key = Null}

\* The buffers GetBuffer(key) may return; none when it returns NULL.  Free ones
\* are redesignated oldest first, and the clock may not tell two of them apart.
GetBuffer(pool, key) ==
    LET found == {b \in Buffers : pool[b].data_key = key}
    IN IF found # {} THEN found
       ELSE IF Unallocated(pool) # {} THEN Unallocated(pool)
       ELSE FreeBuffers(pool)

\* Mutant of Taken: a buffer with a new key keeps its old state.
TakenStale(pool, b, key) ==
    [pool EXCEPT ![b].data_key = key, ![b].use_count = @ + 1]

\* Use is counted; a buffer that was for another key becomes NEW, and keeps its
\* data_size_ when it is redesignated.
Used(buf, key) ==
    IF buf.data_key = key THEN [buf EXCEPT !.use_count = @ + 1]
    ELSE IF buf.data_key = Null THEN NewBuffer(key, buf.content)
    ELSE [buf EXCEPT !.data_key = key, !.state = "NEW", !.use_count = 1]

Taken(pool, b, key) == [pool EXCEPT ![b] = Used(@, key)]

\* The state it returns is the one before the call.
BeginUsage(pool, b, r) ==
    CASE pool[b].state = "NEW" -> [pool EXCEPT ![b].state = "IN_LOOKUP"]
      [] pool[b].state = "IN_LOOKUP" -> [pool EXCEPT ![b].done = @ \cup {r}]
      [] OTHER -> pool

\* done_callbacks_ is copied before it is run; the callbacks take themselves out.
MarkValidData(pool, b, size) ==
    [pool EXCEPT ![b].data_size = size, ![b].state = "VALID_DATA"]

\* DoneBuffer: without data there is nothing to keep.
Released(buf, r) ==
    IF buf.use_count > 1 THEN [buf EXCEPT !.use_count = @ - 1, !.done = @ \ {r}]
    ELSE IF buf.data_size = 0 THEN FreeListed(buf.content)
    ELSE [buf EXCEPT !.use_count = 0, !.done = @ \ {r}]

EndUsage(pool, b, r) == [pool EXCEPT ![b] = Released(@, r)]
=============================================================================
