------------------------- MODULE MCCheckpointExchange -------------------------
(* TLC instance of CheckpointExchange: the constants are given in the cfg. *)
EXTENDS CheckpointExchange
=============================================================================
