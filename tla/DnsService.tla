----------------------------- MODULE DnsService -----------------------------
(***************************************************************************)
(* What the asynchronous resolver promises to one result handler           *)
(* (net/base/dns_resolver.h:46): a query is pending until it is answered   *)
(* or cancelled; an answer is posted to the handler's selector and run     *)
(* there.  An answer that was posted can no longer be cancelled.           *)
(***************************************************************************)
EXTENDS Naturals

CONSTANTS Handlers

VARIABLES
    pending,   \* handler -> has it a query that is neither answered nor cancelled?
    posted     \* handler -> how many answers wait in its selector

serviceVars == <<pending, posted>>

Init ==
    /\ pending = [h \in Handlers |-> FALSE]
    /\ posted = [h \in Handlers |-> 0]

\* DnsResolve: the query is queued ...
Ask(h) ==
    /\ ~pending[h]
    /\ pending' = [pending EXCEPT ![h] = TRUE]
    /\ UNCHANGED posted

\* ... or answered at once (from the cache, or with NULL when there are too
\* many queries).
AnswerAtOnce(h) ==
    /\ ~pending[h]
    /\ posted' = [posted EXCEPT ![h] = @ + 1]
    /\ UNCHANGED pending

Answer(h) ==
    /\ pending[h]
    /\ pending' = [pending EXCEPT ![h] = FALSE]
    /\ posted' = [posted EXCEPT ![h] = @ + 1]

\* DnsCancel: a pending query is forgotten.
Cancel(h) ==
    /\ pending' = [pending EXCEPT ![h] = FALSE]
    /\ UNCHANGED posted

\* The selector runs result_handler->Run(info).
Deliver(h) ==
    /\ posted[h] > 0
    /\ posted' = [posted EXCEPT ![h] = @ - 1]
    /\ UNCHANGED pending

Next ==
    \E h \in Handlers : Ask(h) \/ AnswerAtOnce(h) \/ Answer(h) \/ Cancel(h) \/ Deliver(h)

FairTo(h) == WF_serviceVars(Answer(h)) /\ WF_serviceVars(Deliver(h))

Spec == Init /\ [][Next]_serviceVars
FairSpec == Spec /\ \A h \in Handlers : FairTo(h)
=============================================================================
