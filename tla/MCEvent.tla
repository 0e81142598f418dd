------------------------------- MODULE MCEvent -------------------------------
(* Small instances of Event.                                                *)
EXTENDS Event
=============================================================================
