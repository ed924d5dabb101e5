---------------------------- MODULE CampaignRuns ----------------------------
(***************************************************************************)
(* A resumable benchmark campaign (experiments/pirc22): runners walk the   *)
(* cube of candidates, folds and seeds in one order, take what they find   *)
(* on disk, compute what is missing, and commit each cell as a directory.  *)
(* Runners die and are started again, and nothing keeps two of them from   *)
(* running at once: there is no lock.  The selection compares candidates   *)
(* on the records, fold by fold, so the records of a fold must rest on one *)
(* control (base model, data and targets); a provider may drift.           *)
(*                                                                         *)
(* A record is "failed" or the control of a success.  Metrics are a        *)
(* function of the cell.  The records of other protocols have other ids    *)
(* and are left out, and so are artifacts changed behind the program.      *)
(***************************************************************************)
EXTENDS Integers, Sequences

CONSTANTS
    Runners,
    ProviderOf, \* the provider identity a runner is started with
    Size,       \* the number of cells, 1 .. Size in the order of the cube
    FoldOf,     \* cell -> fold
    Folds,
    CandidateOf, \* cell -> candidate, a number that orders them by complexity
    Score,      \* cell -> its validation metric, lower is better
    Slack,      \* the standard error of the best candidate
    Controls,
    Offers,     \* runner, cell -> the controls its provider may prepare
    MaxStarts   \* bound on the starts of each runner

CONSTANTS Absent, None, Inconclusive

Cells == 1 .. Size
Records == Controls \cup {"failed"}
Candidates == {CandidateOf[n] : n \in Cells}

ASSUME CampaignAssumption ==
    /\ Size \in Nat
    /\ FoldOf \in [Cells -> Folds]
    /\ "failed" \notin Controls /\ None \notin Controls
    /\ Absent \notin Records \cup [id : Cells, record : Records]
    /\ Offers \in [Runners -> [Cells -> SUBSET Controls]]

VARIABLES
    manifest,  \* the provider named by manifest.json
    cell,      \* cells/<run id>/record.json
    summary,   \* summary.json: the records it lists
    selection, \* the selection file: a candidate, or Inconclusive
    phase,     \* what a runner does
    records,   \* the records it collected, of the cells 1, 2, ...
    control,   \* control_identities of its process
    draft,     \* the record it commits
    starts

runnerVars == <<phase, records, control, draft, starts>>
vars == <<manifest, cell, summary, selection, runnerVars>>

Init ==
    /\ manifest = None
    /\ cell = [n \in Cells |-> Absent]
    /\ summary = None /\ selection = None
    /\ phase = [r \in Runners |-> "off"]
    /\ records = [r \in Runners |-> <<>>]
    /\ control = [r \in Runners |-> [f \in Folds |-> None]]
    /\ draft = [r \in Runners |-> "failed"]
    /\ starts = [r \in Runners |-> 0]

At(r, p) == phase[r] = p
Go(r, p) == phase' = [phase EXCEPT ![r] = p]
This(r) == Len(records[r]) + 1
Pending(r) == This(r) \in Cells
Found(r) == cell[This(r)]
Known(r) == control[r][FoldOf[This(r)]]

-----------------------------------------------------------------------------
(* run_all *)

\* _initialize: a manifest that names another provider stops the runner.
Start(r) ==
    /\ At(r, "off") /\ starts[r] < MaxStarts
    /\ manifest \in {None, ProviderOf[r]}
    /\ starts' = [starts EXCEPT ![r] = @ + 1]
    /\ records' = [records EXCEPT ![r] = <<>>]
    /\ control' = [control EXCEPT ![r] = [f \in Folds |-> None]]
    /\ Go(r, IF manifest = None THEN "naming" ELSE "cell")
    /\ UNCHANGED <<manifest, cell, summary, selection, draft>>

\* Whoever renames last has named the provider.
Name(r) ==
    /\ At(r, "naming")
    /\ manifest' = ProviderOf[r]
    /\ Go(r, "cell")
    /\ UNCHANGED <<cell, summary, selection, records, control, draft, starts>>

\* setdefault
Noted(r, c) == [control EXCEPT ![r][FoldOf[This(r)]] = IF @ = None THEN c ELSE @]

\* Mutant of Reuse: takes a record and does not look at its control.
ReuseBlindly(r) ==
    /\ At(r, "cell") /\ Pending(r) /\ Found(r) # Absent
    /\ records' = [records EXCEPT ![r] = Append(@, Found(r))]
    /\ UNCHANGED <<manifest, cell, summary, selection, phase, control, draft, starts>>

\* A committed cell is taken as it is, also a failure.
Reuse(r) ==
    LET record == Found(r) IN
    /\ At(r, "cell") /\ Pending(r) /\ record # Absent
    /\ record # "failed" => Known(r) \in {None, record}
    /\ records' = [records EXCEPT ![r] = Append(@, record)]
    /\ control' = IF record = "failed" THEN control ELSE Noted(r, record)
    /\ UNCHANGED <<manifest, cell, summary, selection, phase, draft, starts>>

\* A missing one is prepared and fitted.  Another control than the fold's, or
\* any exception, also a passing one, makes it a failure.
Compute(r) ==
    /\ At(r, "cell") /\ Pending(r) /\ Found(r) = Absent
    /\ \/ draft' = [draft EXCEPT ![r] = "failed"] /\ UNCHANGED control
       \/ \E c \in Offers[r][This(r)] :
             /\ control' = Noted(r, c)
             /\ \E record \in {"failed", c} :
                   /\ record = c => Known(r) \in {None, c}
                   /\ draft' = [draft EXCEPT ![r] = record]
    /\ Go(r, "computed")
    /\ UNCHANGED <<manifest, cell, summary, selection, records, starts>>

\* _commit: the id must be free, the artifacts and the record are staged.
Stage(r) ==
    /\ At(r, "computed") /\ Found(r) = Absent
    /\ Go(r, "staged")
    /\ UNCHANGED <<manifest, cell, summary, selection, records, control, draft, starts>>

Placed(r) ==
    /\ cell' = [cell EXCEPT ![This(r)] = draft[r]]
    /\ records' = [records EXCEPT ![r] = Append(@, draft[r])]
    /\ Go(r, "cell")
    /\ UNCHANGED <<manifest, summary, selection, control, draft, starts>>

\* Mutant of Replace: the rename of a file, which replaces what it meets.
ReplaceAny(r) == At(r, "staged") /\ Placed(r)

Replace(r) == At(r, "staged") /\ Found(r) = Absent /\ Placed(r)

Summarize(r) ==
    /\ At(r, "cell") /\ ~Pending(r)
    /\ summary' = records[r]
    /\ Go(r, "off")
    /\ UNCHANGED <<manifest, cell, selection, records, control, draft, starts>>

\* A directory is in the way, a control differs from that of a committed cell, a
\* write fails, or the process dies.
Stops(r) ==
    /\ ~At(r, "off")
    /\ Go(r, "off")
    /\ UNCHANGED <<manifest, cell, summary, selection, records, control, draft, starts>>

-----------------------------------------------------------------------------
(* Selection. *)

\* Mutant of Loads: takes the records it finds.
LoadsAny == manifest # None /\ \E n \in Cells : cell[n] # Absent

\* load_benchmark_evidence: what it reads is final once there is a summary, so
\* the order of its reads does not matter.
Loads ==
    /\ manifest # None /\ summary # None
    /\ \A n \in Cells : cell[n] # Absent

CellsOf(candidate) == {n \in Cells : CandidateOf[n] = candidate}
Complete == {k \in Candidates : \A n \in CellsOf(k) : cell[n] \in Controls}
Total(candidate) ==
    LET sum[n \in 0 .. Size] ==
            IF n = 0 THEN 0 ELSE sum[n - 1] + (IF CandidateOf[n] = candidate THEN Score[n] ELSE 0)
    IN sum[Size]

\* The one-standard-error rule: the least complex candidate within the error of
\* the best one.
Eligible == {k \in Complete : \A other \in Complete : Total(k) <= Total(other) + Slack}
Choice ==
    IF Complete = {} THEN Inconclusive ELSE CHOOSE k \in Eligible : \A other \in Eligible : k <= other

\* write_benchmark_selection: what is there is never replaced.
Select ==
    /\ selection = None /\ Loads
    /\ selection' = Choice
    /\ UNCHANGED <<manifest, cell, summary, runnerVars>>

-----------------------------------------------------------------------------
Next ==
    \/ \E r \in Runners :
          \/ Start(r) \/ Name(r) \/ Reuse(r) \/ Compute(r) \/ Stage(r) \/ Replace(r)
          \/ Summarize(r) \/ Stops(r)
    \/ Select

Spec == Init /\ [][Next]_vars

-----------------------------------------------------------------------------
(* Properties. *)

\* The successes of a fold rest on one control, whoever computed them: runners
\* that were restarted, that ran at once, or whose providers differ or drift.
\* load_benchmark_evidence does not compare controls; the selection relies on it.
OneControlPerFold ==
    \A m, n \in Cells :
        cell[m] \in Controls /\ cell[n] \in Controls /\ FoldOf[m] = FoldOf[n] => cell[m] = cell[n]

\* A published selection, and a summary, are what the records say for good.
SelectionStands ==
    /\ selection # None => selection = Choice
    /\ summary # None => summary = cell

(* Refinement: the cells are a store of runs. *)

Staging(r) == IF At(r, "staged") THEN [id |-> This(r), record |-> draft[r]] ELSE Absent
S == INSTANCE RunStore WITH
        Committers <- Runners, Ids <- Cells, stored <- cell, staging <- [r \in Runners |-> Staging(r)]
ImplementsRunStore == S!Spec
=============================================================================
