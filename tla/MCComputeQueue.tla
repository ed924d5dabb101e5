--------------------------- MODULE MCComputeQueue ---------------------------
(* TLC instances of ComputeQueue. *)
EXTENDS ComputeQueue, TLC

CONSTANTS a1, a2, a3, m1, m2

OneSlot == "cpu" :> 1

\* a1 lost its supervisor after it was queued.
OneLost == Spec /\ Polling(Attempts \ {a1})

\* Every queued entry gets its turn although one supervisor is lost, if claimed
\* and lost reservations are settled in the end and arms stop being reopened.
TurnComesIfReconciled == Reconciled(Attempts \ {a1}) /\ ReopeningsEnd => TurnComes

\* An entry of a permitted arm gets its turn even if nothing is ever settled.
PermittedTurnComesAfterLoss == PermittedTurnComes(Attempts \ {a1})
=============================================================================
