-------------------------- MODULE MCJobSupervisor --------------------------
(* TLC instances of JobSupervisor. *)
EXTENDS JobSupervisor, TLC

CONSTANTS o1, o2, a1, a2, r1, r2, m1, ap1

OneArm == r1 :> m1 @@ r2 :> m1
OneCellArm == r1 :> m1
OneCell == a1 :> r1
AllPermissible == Arms \X Resources
OwnJobs == o1 :> a1 @@ o2 :> a2
SameJob == o1 :> a1 @@ o2 :> a1
AskOne == [o \in Owners |-> 1]
OwnCells == a1 :> r1 @@ a2 :> r2
CpuOnly == [r \in Runs |-> "cpu"]
OneSlot == "cpu" :> 1
=============================================================================
