------------------------------ MODULE MCRotate ------------------------------
(* Small instances of Rotate.                                               *)
EXTENDS Rotate
=============================================================================
