----------------------------- MODULE MCManagedJob -----------------------------
(* Instance of ManagedJob for TLC. *)
EXTENDS ManagedJob
=============================================================================
