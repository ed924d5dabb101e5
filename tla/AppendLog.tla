----------------------------- MODULE AppendLog -----------------------------
(***************************************************************************)
(* What the event journal of ResearchStore promises its callers: one       *)
(* growing sequence of events without repetition, and an acknowledged      *)
(* event is never forgotten.  EventJournal implements it with files.       *)
(***************************************************************************)
EXTENDS Sequences, FiniteSets, SequencesExt

CONSTANT Ids \* event ids

VARIABLES
    log, acked,
    held,   \* an operator declared the history unreliable
    broken  \* somebody changed the files behind the program

vars == <<log, acked, held, broken>>

Init ==
    /\ log = <<>>
    /\ acked = {}
    /\ held = FALSE /\ broken = FALSE

Add(id) ==
    /\ id \notin ToSet(log)
    /\ log' = Append(log, id)
    /\ UNCHANGED <<acked, held, broken>>

\* One return may acknowledge every event of a transaction.
Acknowledge ==
    /\ acked' \in SUBSET ToSet(log)
    /\ acked \subseteq acked'
    /\ UNCHANGED <<log, held, broken>>

\* A failed call or a crash may lose the newest events no caller relies on;
\* what survives a crash is safe.
Forget ==
    /\ log' \in {SubSeq(log, 1, n) : n \in 0 .. Len(log)}
    /\ acked' \in SUBSET ToSet(log')
    /\ acked \subseteq acked'
    /\ UNCHANGED <<held, broken>>

\* An operator declares the history unreliable, for good.
Hold ==
    /\ held' = TRUE
    /\ UNCHANGED <<log, acked, broken>>

\* From then on nothing is promised but that the hold stays.
Break ==
    /\ broken' = TRUE
    /\ held => held'

Next ==
    \/ \E id \in Ids : Add(id)
    \/ Acknowledge \/ Forget \/ Hold
    \/ Break

Spec == Init /\ [][Next]_vars
=============================================================================
