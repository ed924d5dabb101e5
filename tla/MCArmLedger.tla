---------------------------- MODULE MCArmLedger ----------------------------
(* TLC instances of ArmLedger. *)
EXTENDS ArmLedger, TLC

CONSTANTS r1, r2, r3, a1, a2, a3, a4, m1, m2, ap1

OneArm == [r \in Runs |-> m1]
AttemptSymmetry == Permutations(Attempts)
RunSymmetry == AttemptSymmetry \cup Permutations(Runs \ Declared)
=============================================================================
