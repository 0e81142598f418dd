----------------------------- MODULE MCListener -----------------------------
(* Small instances of Listener: a connection and the one before it.         *)
EXTENDS Listener
=============================================================================
