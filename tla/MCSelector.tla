----------------------------- MODULE MCSelector -----------------------------
(* Two posting threads and a callback over more closures than one batch.      *)
EXTENDS Selector
=============================================================================
