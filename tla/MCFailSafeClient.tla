-------------------------- MODULE MCFailSafeClient --------------------------
(* Two requests on two servers, with retries left for the requeue.           *)
EXTENDS FailSafeClient
=============================================================================
