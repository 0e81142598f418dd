-------------------------------- MODULE MCTx --------------------------------
(* Small instances of Tx.                                                   *)
EXTENDS Tx
=============================================================================
