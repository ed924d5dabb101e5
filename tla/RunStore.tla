------------------------------ MODULE RunStore ------------------------------
(***************************************************************************)
(* What a store of run directories promises (AtomicRunStore.commit): a     *)
(* record appears under its id at once and whole, from the staging         *)
(* directory of one committer, and stays as it is.  Committers race: both  *)
(* may find the id free, and the rename of the second one meets a          *)
(* directory that is not empty.                                            *)
(***************************************************************************)
CONSTANTS Committers, Ids, Records, Absent

VARIABLES
    stored, \* run id -> its record
    staging \* committer -> the directory it prepares, as [id, record]

vars == <<stored, staging>>

Init ==
    /\ stored = [id \in Ids |-> Absent]
    /\ staging = [c \in Committers |-> Absent]

\* Refused at once if the id is taken.
Stage(c, id, record) ==
    /\ staging[c] = Absent
    /\ stored[id] = Absent
    /\ staging' = [staging EXCEPT ![c] = [id |-> id, record |-> record]]
    /\ UNCHANGED stored

Replace(c) ==
    /\ staging[c] # Absent
    /\ stored[staging[c].id] = Absent
    /\ stored' = [stored EXCEPT ![staging[c].id] = staging[c].record]
    /\ staging' = [staging EXCEPT ![c] = Absent]

\* The rename or a check before it fails, or the committer dies: nothing of its
\* directory is ever found under the id.
Abandon(c) ==
    /\ staging' = [staging EXCEPT ![c] = Absent]
    /\ UNCHANGED stored

Next ==
    \E c \in Committers :
        \/ \E id \in Ids, record \in Records : Stage(c, id, record)
        \/ Replace(c) \/ Abandon(c)

Spec == Init /\ [][Next]_vars
=============================================================================
