---------------------------- MODULE SelectorBase ----------------------------
(***************************************************************************)
(* The registered descriptors of the event loop: Selector::Register,       *)
(* Unregister and UpdateDesire, the dispatch of one batch of events, and   *)
(* the poll(2) build of net::SelectorBase (selector_base.cc), which keeps  *)
(* its own table fds_ and compacts it lazily.  Closures, alarms and        *)
(* shutdown are in Selector.                                               *)
(*                                                                         *)
(* A handler may open, close and re-arm any object.  The kernel hands out  *)
(* any free descriptor number, so a number is reused as soon as it was     *)
(* closed.                                                                 *)
(***************************************************************************)
EXTENDS Integers, Sequences

CONSTANTS
    Selectables,
    Pipe,           \* the user data of the wake-up descriptor (NULL in the code)
    Fds,            \* descriptor numbers the kernel may return
    PipeFd,
    kMaxFds,
    ReopenInBatch   \* may an object be opened again while a batch is handled?

ASSUME BaseAssumption ==
    /\ Pipe \notin Selectables
    /\ Fds \subseteq Nat /\ PipeFd \in Nat \ Fds
    /\ kMaxFds \in Nat \ {0}
    /\ ReopenInBatch \in BOOLEAN

VARIABLES
    phase,                \* "events" (a handler may run), "compact" or "aborted"
    fds_,                 \* the pollfd array: index -> [fd, write]
    fds_size_,
    fd_data_,             \* fd -> [index, data]
    indices_to_compact_,
    fd,                   \* object -> its descriptor, -1 when closed
    registered_,
    desire_,              \* object -> does it want write events?
    events,               \* the batch: <<object, descriptor that was polled>>
    handled,              \* the event whose handler was called last
    closed                \* objects closed since the last poll

tableVars  == <<fds_, fds_size_, fd_data_, indices_to_compact_>>
objectVars == <<fd, registered_, desire_>>
batchVars  == <<events, handled>>
baseVars == <<phase, tableVars, objectVars, batchVars, closed>>

Indices == 0..(kMaxFds - 1)
Slot == [fd : Fds \cup {PipeFd, -1}, write : BOOLEAN]
NoEvent == <<Pipe, PipeFd>>

BaseTypeOK ==
    /\ phase \in {"events", "compact", "aborted"}
    /\ fds_ \in [Indices -> Slot]
    /\ fds_size_ \in 0..kMaxFds
    /\ DOMAIN fd_data_ \subseteq Fds \cup {PipeFd}
    /\ \A f \in DOMAIN fd_data_ :
         fd_data_[f] \in [index : Indices, data : Selectables \cup {Pipe}]
    /\ indices_to_compact_ \in Seq(Indices)
    /\ fd \in [Selectables -> Fds \cup {-1}]
    /\ registered_ \subseteq Selectables
    /\ desire_ \in [Selectables -> BOOLEAN]
    /\ events \subseteq (Selectables \cup {Pipe}) \X (Fds \cup {PipeFd})
    /\ handled \in (Selectables \cup {Pipe}) \X (Fds \cup {PipeFd})
    /\ closed \subseteq Selectables

\* The constructor adds the wake-up descriptor.
BaseInit ==
    /\ phase = "events"
    /\ fds_ = [i \in Indices |-> [fd |-> IF i = 0 THEN PipeFd ELSE -1, write |-> FALSE]]
    /\ fds_size_ = 1
    /\ fd_data_ = [f \in {PipeFd} |-> [index |-> 0, data |-> Pipe]]
    /\ indices_to_compact_ = <<>>
    /\ fd = [s \in Selectables |-> -1]
    /\ registered_ = {}
    /\ desire_ = [s \in Selectables |-> FALSE]
    /\ events = {}
    /\ handled = NoEvent
    /\ closed = {}

-----------------------------------------------------------------------------
(* SelectorBase::Add, Update, Delete *)

Add(f, s, write) ==
    IF fds_size_ >= kMaxFds
    THEN UNCHANGED tableVars
    ELSE /\ fds_' = [fds_ EXCEPT ![fds_size_] = [fd |-> f, write |-> write]]
         /\ fd_data_' = [g \in DOMAIN fd_data_ \cup {f} |->
                           IF g = f THEN [index |-> fds_size_, data |-> s] ELSE fd_data_[g]]
         /\ fds_size_' = fds_size_ + 1
         /\ UNCHANGED indices_to_compact_

Update(f, write) ==
    IF f \notin DOMAIN fd_data_
    THEN UNCHANGED tableVars
    ELSE /\ fds_' = [fds_ EXCEPT ![fd_data_[f].index].write = write]
         /\ UNCHANGED <<fds_size_, fd_data_, indices_to_compact_>>

Delete(f) ==
    IF f \notin DOMAIN fd_data_
    THEN UNCHANGED tableVars
    ELSE /\ indices_to_compact_' = Append(indices_to_compact_, fd_data_[f].index)
         /\ fds_' = [fds_ EXCEPT ![fd_data_[f].index].fd = -1]
         /\ fd_data_' = [g \in DOMAIN fd_data_ \ {f} |-> fd_data_[g]]
         /\ UNCHANGED fds_size_

-----------------------------------------------------------------------------
(* What handlers do *)

\* An object gets a descriptor and is registered.
Register(s, f) ==
    /\ phase = "events"
    /\ s \notin registered_
    /\ s \in closed => ReopenInBatch
    /\ \A r \in Selectables : fd[r] # f
    /\ fd' = [fd EXCEPT ![s] = f]
    /\ registered_' = registered_ \cup {s}
    /\ desire_' = [desire_ EXCEPT ![s] = FALSE]
    /\ Add(f, s, FALSE)
    /\ UNCHANGED <<phase, batchVars, closed>>

\* An object is unregistered, then its descriptor is closed.
Unregister(s) ==
    /\ phase = "events"
    /\ s \in registered_
    /\ Delete(fd[s])
    /\ fd' = [fd EXCEPT ![s] = -1]
    /\ registered_' = registered_ \ {s}
    /\ closed' = closed \cup {s}
    /\ UNCHANGED <<phase, desire_, batchVars>>

\* UpdateDesire(s, enable, kWantWrite).
UpdateDesire(s, enable) ==
    /\ phase = "events"
    /\ s \in registered_
    /\ desire_[s] # enable
    /\ desire_' = [desire_ EXCEPT ![s] = enable]
    /\ Update(fd[s], enable)
    /\ UNCHANGED <<phase, fd, registered_, batchVars, closed>>

-----------------------------------------------------------------------------
(* The loop *)

\* Mutant of DispatchEvent: registered_selector() is not looked at.
DispatchUnchecked(e) ==
    /\ phase = "events"
    /\ e \in events
    /\ events' = events \ {e}
    /\ handled' = e
    /\ UNCHANGED <<phase, tableVars, objectVars, closed>>

\* One element of the batch: the wake-up descriptor and objects that have been
\* unregistered are skipped, the others get their handler called.
DispatchEvent(e) ==
    /\ phase = "events"
    /\ e \in events
    /\ events' = events \ {e}
    /\ handled' = IF e[1] # Pipe /\ e[1] \in registered_ THEN e ELSE NoEvent
    /\ UNCHANGED <<phase, tableVars, objectVars, closed>>

\* The next LoopStep: Compact() ...
EnterLoopStep ==
    /\ phase = "events"
    /\ events = {}
    /\ phase' = "compact"
    /\ UNCHANGED <<tableVars, objectVars, batchVars, closed>>

\* Mutant of CompactOne: the moved entry keeps its old index.
CompactForgetsIndex ==
    LET index == Head(indices_to_compact_)
        last  == fds_size_ - 1
    IN  /\ phase = "compact"
        /\ indices_to_compact_ # <<>>
        /\ fds_size_' = last
        /\ indices_to_compact_' = Tail(indices_to_compact_)
        /\ fds_' = IF last > 0 /\ index # last THEN [fds_ EXCEPT ![index] = fds_[last]] ELSE fds_
        /\ UNCHANGED <<phase, fd_data_, objectVars, batchVars, closed>>

\* ... one freed index at a time: the last entry moves into the hole;
\* CHECK(it != fd_data_.end()).
CompactOne ==
    LET index == Head(indices_to_compact_)
        last  == fds_size_ - 1
        moved == fds_[last].fd
    IN  /\ phase = "compact"
        /\ indices_to_compact_ # <<>>
        /\ fds_size_' = last
        /\ indices_to_compact_' = Tail(indices_to_compact_)
        /\ IF last > 0 /\ index # last
             THEN IF moved \in DOMAIN fd_data_
                    THEN /\ fd_data_' = [fd_data_ EXCEPT ![moved].index = index]
                         /\ fds_' = [fds_ EXCEPT ![index] = fds_[last]]
                         /\ UNCHANGED phase
                    ELSE /\ phase' = "aborted"
                         /\ UNCHANGED <<fds_, fd_data_>>
             ELSE UNCHANGED <<phase, fds_, fd_data_>>
        /\ UNCHANGED <<objectVars, batchVars, closed>>

\* ... and poll, which skips negative descriptors: some of the others have
\* events; CHECK(it != fd_data_.end()).
Poll ==
    /\ phase = "compact"
    /\ indices_to_compact_ = <<>>
    /\ \E ready \in SUBSET ({fds_[i].fd : i \in 0..(fds_size_ - 1)} \ {-1}) :
         IF ready \subseteq DOMAIN fd_data_
           THEN /\ events' = {<<fd_data_[f].data, f>> : f \in ready}
                /\ phase' = "events"
           ELSE /\ phase' = "aborted"
                /\ UNCHANGED events
    /\ handled' = NoEvent
    /\ closed' = {}
    /\ UNCHANGED <<tableVars, objectVars>>

BaseNext ==
    \/ \E s \in Selectables, f \in Fds : Register(s, f)
    \/ \E s \in Selectables : Unregister(s)
    \/ \E s \in Selectables, b \in BOOLEAN : UpdateDesire(s, b)
    \/ \E e \in events : DispatchEvent(e)
    \/ EnterLoopStep
    \/ CompactOne
    \/ Poll

BaseSpec == BaseInit /\ [][BaseNext]_baseVars

-----------------------------------------------------------------------------
(* Properties *)

\* Compact() looked up the entry of the last slot while that slot was itself a
\* hole whose turn had not come: an object in the last slot was closed after
\* another one in the same batch.
LastSlotClosed ==
    \E k \in 1..Len(indices_to_compact_) : indices_to_compact_[k] = fds_size_

\* Whatever is closed and opened between two polls, and after every compaction,
\* each entry of fd_data_ points to the slot that holds its descriptor, two
\* entries never share a slot, the dead slots are exactly the ones waiting for
\* compaction, and what the kernel is asked for is what the object wants.  Of the
\* two CHECK(it != fd_data_.end()) the one in LoopStep (selector_base.cc:269)
\* never fails, and the one in Compact (selector_base.cc:223) only when the last
\* slot of the table was closed too, later than the hole it should fill.
TableConsistent ==
    /\ phase = "aborted" => LastSlotClosed
    /\ phase = "events" =>
      /\ \A f \in DOMAIN fd_data_ :
           fd_data_[f].index < fds_size_ /\ fds_[fd_data_[f].index].fd = f
      /\ \A i \in 0..(fds_size_ - 1) :
           fds_[i].fd = -1 <=> \E k \in 1..Len(indices_to_compact_) : indices_to_compact_[k] = i
      /\ \A f \in DOMAIN fd_data_ \ {PipeFd} :
           LET s == fd_data_[f].data
           IN  s \in registered_ /\ fd[s] = f /\ fds_[fd_data_[f].index].write = desire_[s]

\* An event reaches the object it was polled for while that object still has
\* the descriptor (selector.cc:144 "already unregistered").
EventReachesItsDescriptor ==
    [][handled' # handled /\ handled' # NoEvent => fd[handled'[1]] = handled'[2]]_baseVars
=============================================================================
