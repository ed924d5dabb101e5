--------------------------- MODULE MCEventJournal ---------------------------
(* TLC instances of EventJournal. *)
EXTENDS EventJournal, TLC

CONSTANTS e1, e2, h1
=============================================================================
