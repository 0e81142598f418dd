------------------------------- MODULE MCMLock -------------------------------
(* Small instances of MLock; there is always a channel that is not in use.  *)
EXTENDS MLock
=============================================================================
