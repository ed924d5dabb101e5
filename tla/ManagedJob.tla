------------------------------ MODULE ManagedJob ------------------------------
(***************************************************************************)
(* The numerical job a supervised worker runs (pirc26_worker): train with  *)
(* patience, forecast every origin in chunks of paths, evaluate, publish.  *)
(* A session may end at any time; a checkpoint requested by the owner is   *)
(* answered at the job's own save points, and a later attempt continues    *)
(* from any checkpoint on record.  Numbers are abstracted to where they    *)
(* come from: a model is the number of its updates, and a world fixes what *)
(* the monitor says of it and at which step a path leaves the finite       *)
(* domain.                                                                 *)
(***************************************************************************)
EXTENDS Integers, Sequences, FiniteSets

CONSTANTS
    MaxSteps, Patience, Tolerance,  \* the training plan
    Values,                         \* what the monitor may say
    NonFinite,                      \* what it says of a diverged model
    Origins, Samples, Chunk, Grid,  \* origins, paths of each, chunk size, steps
    MaxBroken,                      \* bound: broken paths of a world
    MaxAttempts                     \* sessions, over all attempts of the cell

ASSUME PlanAssumption ==
    /\ MaxSteps \in Nat \ {0} /\ Patience \in 1 .. MaxSteps /\ Tolerance \in Nat
    /\ Values \subseteq Int /\ NonFinite \in Int \ Values
    /\ Origins \in Nat \ {0} /\ Samples \in Nat \ {0} /\ Chunk \in 1 .. Samples
    /\ Grid \in Nat \ {0} /\ MaxBroken \in Nat /\ MaxAttempts \in Nat

VARIABLES
    monitor,   \* updates -> what the monitor says after them
    breaks,    \* origin, path -> the step that breaks it, 0: none
    operation, \* "fit-and-forecast" or "forecast"
    sessions,  \* sessions begun
    saved,     \* checkpoints on record
    outcome,   \* the published result
    phase,     \* where the worker is
    model,     \* the worker's model
    train,     \* the state of train_loop
    fit,       \* the finished training
    finished,  \* results of the origins that are complete
    active     \* the state of the current forecast

world == <<monitor, breaks, operation>>
job == <<model, train, fit, finished, active>>
vars == <<world, sessions, saved, outcome, phase, job>>

NoBest == 0 - 1000
NoResult == [steps |-> 0]
Untrained == [step |-> 0, stale |-> 0, best |-> NoBest, bestModel |-> 0, history |-> <<>>]
Unfitted == [status |-> "NONE", steps |-> 0, best |-> NoBest, model |-> 0, history |-> <<>>]
Frozen == [Unfitted EXCEPT !.status = "FROZEN"]
Fresh == [first |-> 0, step |-> 0, ids |-> <<>>, failed |-> <<>>, open |-> FALSE, alive |-> {}]

Index == Len(finished) + 1
BatchOf(f) == f.first + 1 .. (IF f.first + Chunk > Samples THEN Samples ELSE f.first + Chunk)

Init ==
    /\ monitor \in [1 .. MaxSteps -> Values \cup {NonFinite}]
    /\ breaks \in [(1 .. Origins) \X (1 .. Samples) -> 0 .. Grid]
    /\ Cardinality({p \in DOMAIN breaks : breaks[p] # 0}) <= MaxBroken
    /\ operation \in {"fit-and-forecast", "forecast"}
    /\ sessions = 0 /\ saved = {} /\ outcome = NoResult /\ phase = "stopped"
    /\ model = 0 /\ train = Untrained /\ fit = Unfitted /\ finished = <<>> /\ active = Fresh

\* The process and all it computed are gone.
Stops ==
    /\ phase' = "stopped"
    /\ model' = 0 /\ train' = Untrained /\ fit' = Unfitted /\ finished' = <<>> /\ active' = Fresh

-----------------------------------------------------------------------------
(* Sessions and checkpoints. *)

Checkpoint(kind) ==
    [kind |-> kind, model |-> IF kind = "training" THEN model ELSE fit.model,
     train |-> train, fit |-> fit, finished |-> finished, active |-> active]

Increasing(s) == \A i, j \in DOMAIN s : i < j => s[i] < s[j]
Members(s) == {s[i] : i \in DOMAIN s}

\* validate_saved_job and restore; inspect_training_envelope.
AcceptedForecast(c) ==
    /\ Len(c.finished) < Origins
    /\ \A i \in DOMAIN c.finished :
          c.finished[i].ids = [k \in 1 .. Samples |-> k] /\ c.finished[i].failed = <<>>
    /\ \/ c.fit.status = "FROZEN"
       \/ c.fit.steps \in 1 .. MaxSteps /\ Len(c.fit.history) = c.fit.steps
    /\ LET f == c.active IN
          /\ f.first \in 0 .. Samples /\ (f.first = Samples \/ f.first % Chunk = 0)
          /\ Increasing(f.ids) /\ Increasing(f.failed)
          /\ Members(f.ids) \cap Members(f.failed) = {}
          /\ Members(f.ids) \cup Members(f.failed) = 1 .. f.first
          /\ IF f.open
             THEN f.first < Samples /\ f.step \in 0 .. Grid /\ (f.step = 0 => f.alive = BatchOf(f))
             ELSE f.step = 0

AcceptedTraining(c) ==
    /\ c.train.step \in 1 .. MaxSteps /\ c.train.stale \in 0 .. c.train.step
    /\ Len(c.train.history) = c.train.step

Accepted(c) == IF c.kind = "training" THEN AcceptedTraining(c) ELSE AcceptedForecast(c)

\* The owner records the checkpoint or the worker dies without an answer; either
\* way this session does no more.
Save(kind) ==
    /\ saved' \in {saved} \cup
         (IF Accepted(Checkpoint(kind)) THEN {saved \cup {Checkpoint(kind)}} ELSE {})
    /\ Stops
    /\ UNCHANGED <<world, sessions, outcome>>

MayBegin == phase = "stopped" /\ sessions < MaxAttempts /\ outcome = NoResult

BeginAnew ==
    /\ MayBegin
    /\ sessions' = sessions + 1
    /\ phase' = IF operation = "forecast" THEN "forecasting" ELSE "training"
    /\ fit' = IF operation = "forecast" THEN Frozen ELSE Unfitted
    /\ UNCHANGED <<world, saved, outcome, model, train, finished, active>>

\* Mutant of Restored: every path of the open chunk counts as alive.
RestoredUnmasked(c) ==
    /\ model' = c.model /\ train' = c.train /\ fit' = c.fit /\ finished' = c.finished
    /\ active' = [c.active EXCEPT !.alive = IF c.active.open THEN BatchOf(c.active) ELSE {}]

Restored(c) ==
    /\ model' = c.model /\ train' = c.train /\ fit' = c.fit /\ finished' = c.finished
    /\ active' = c.active

Resume ==
    /\ MayBegin
    /\ sessions' = sessions + 1
    /\ \E c \in saved :
          /\ Restored(c)
          /\ phase' = IF c.kind = "training" THEN "training" ELSE "forecasting"
    /\ UNCHANGED <<world, saved, outcome>>

\* A crash, the deadline, or an exception on the worker's side.
Dies ==
    /\ phase \notin {"stopped", "published"}
    /\ Stops
    /\ UNCHANGED <<world, sessions, saved, outcome>>

-----------------------------------------------------------------------------
(* train_loop. *)

Improves(t, value) == t.best = NoBest \/ value < t.best - Tolerance

Updated(t, value, m) ==
    [step |-> t.step + 1,
     stale |-> IF Improves(t, value) THEN 0 ELSE t.stale + 1,
     best |-> IF Improves(t, value) THEN value ELSE t.best,
     bestModel |-> IF Improves(t, value) THEN m ELSE t.bestModel,
     history |-> Append(t.history, value)]

Update ==
    /\ phase = "training" /\ train.step < MaxSteps /\ train.stale < Patience
    /\ monitor[model + 1] # NonFinite
    /\ model' = model + 1
    /\ train' = Updated(train, monitor[model + 1], model + 1)
    /\ phase' = "updated"
    /\ UNCHANGED <<world, sessions, saved, outcome, fit, finished, active>>

Diverges ==
    /\ phase = "training" /\ train.step < MaxSteps /\ train.stale < Patience
    /\ monitor[model + 1] = NonFinite
    /\ Stops
    /\ UNCHANGED <<world, sessions, saved, outcome>>

SaveTraining == phase = "updated" /\ Save("training")

\* The best model is what is published and what forecasts.
FinishTraining(status) ==
    /\ fit' = [status |-> status, steps |-> Len(train.history), best |-> train.best,
               model |-> train.bestModel, history |-> train.history]
    /\ model' = train.bestModel
    /\ phase' = "forecasting"
    /\ UNCHANGED <<world, sessions, saved, outcome, train, finished, active>>

NoRequest ==
    /\ phase = "updated" /\ train.stale < Patience
    /\ phase' = "training"
    /\ UNCHANGED <<world, sessions, saved, outcome, job>>

Converges ==
    \/ phase = "updated" /\ train.stale >= Patience /\ FinishTraining("CONVERGED")
    \/ phase = "training" /\ train.step < MaxSteps /\ train.stale >= Patience /\ FinishTraining("CONVERGED")

Exhausts == phase = "training" /\ train.step = MaxSteps /\ FinishTraining("MAX_STEPS")

-----------------------------------------------------------------------------
(* _forecast, one origin after the other. *)

Forecasting == phase = "forecasting"

\* Asked at the top of a chunk, before each step and after the last chunk.
SavePoint == Forecasting /\ (active.open => active.step < Grid)

SaveForecast == SavePoint /\ Save("forecast")

OpenChunk ==
    /\ Forecasting /\ ~active.open /\ active.first < Samples
    /\ active' = [active EXCEPT !.open = TRUE, !.alive = BatchOf(active)]
    /\ UNCHANGED <<world, sessions, saved, outcome, phase, model, train, fit, finished>>

Advance ==
    /\ Forecasting /\ active.open /\ active.step < Grid
    /\ active' = [active EXCEPT !.step = @ + 1,
                                !.alive = {i \in @ : breaks[<<Index, i>>] # active.step + 1}]
    /\ UNCHANGED <<world, sessions, saved, outcome, phase, model, train, fit, finished>>

\* The members of a chunk in the order of their ids.
Chosen(members) ==
    CHOOSE s \in [1 .. Cardinality(members) -> members] : Increasing(s)

\* Mutant of CloseChunk: the cursor of the chunk is not reset.
CloseChunkAtStep ==
    /\ Forecasting /\ active.open /\ active.step = Grid
    /\ active' = [active EXCEPT !.first = @ + Cardinality(BatchOf(active)), !.open = FALSE, !.alive = {},
                                !.ids = @ \o Chosen(active.alive),
                                !.failed = @ \o Chosen(BatchOf(active) \ active.alive)]
    /\ UNCHANGED <<world, sessions, saved, outcome, phase, model, train, fit, finished>>

CloseChunk ==
    /\ Forecasting /\ active.open /\ active.step = Grid
    /\ active' = [first |-> active.first + Cardinality(BatchOf(active)), step |-> 0,
                  open |-> FALSE, alive |-> {},
                  ids |-> active.ids \o Chosen(active.alive),
                  failed |-> active.failed \o Chosen(BatchOf(active) \ active.alive)]
    /\ UNCHANGED <<world, sessions, saved, outcome, phase, model, train, fit, finished>>

Predicted ==
    /\ Forecasting /\ ~active.open /\ active.first = Samples
    /\ phase' = "evaluating"
    /\ UNCHANGED <<world, sessions, saved, outcome, job>>

\* A request that cancels the evaluation saves the complete forecast instead.
SaveCompletion == phase = "evaluating" /\ Save("forecast")

EvaluationFails ==
    /\ phase = "evaluating" /\ active.failed # <<>>
    /\ Stops
    /\ UNCHANGED <<world, sessions, saved, outcome>>

Evaluated ==
    /\ phase = "evaluating" /\ active.failed = <<>>
    /\ finished' = Append(finished, [ids |-> active.ids, failed |-> active.failed, model |-> model])
    /\ active' = Fresh
    /\ phase' = IF Index = Origins THEN "publishing" ELSE "forecasting"
    /\ UNCHANGED <<world, sessions, saved, outcome, model, train, fit>>

Publish ==
    /\ phase = "publishing"
    /\ outcome' = [steps |-> fit.steps, status |-> fit.status, best |-> fit.best,
                   model |-> fit.model, history |-> fit.history, forecasts |-> finished]
    /\ phase' = "published"
    /\ UNCHANGED <<world, sessions, saved, job>>

-----------------------------------------------------------------------------
Next ==
    \/ BeginAnew \/ Resume \/ Dies
    \/ Update \/ Diverges \/ SaveTraining \/ NoRequest \/ Converges \/ Exhausts
    \/ SaveForecast \/ OpenChunk \/ Advance \/ CloseChunk \/ Predicted
    \/ SaveCompletion \/ EvaluationFails \/ Evaluated \/ Publish

Spec == Init /\ [][Next]_vars

-----------------------------------------------------------------------------
(* Properties. *)

\* The training of a worker that is never interrupted.
OneRun ==
    LET after[k \in 0 .. MaxSteps] ==
          IF k = 0 THEN Untrained
          ELSE IF after[k - 1].stale >= Patience THEN after[k - 1]
          ELSE Updated(after[k - 1], monitor[k], k)
    IN after[MaxSteps]

Result(fitted, m) ==
    [steps |-> fitted.step, best |-> fitted.best, model |-> m, history |-> fitted.history,
     forecasts |-> [o \in 1 .. Origins |->
                      [ids |-> [k \in 1 .. Samples |-> k], failed |-> <<>>, model |-> m]]]

\* However often the job was stopped, saved and continued, from whichever of its
\* checkpoints, what it publishes is what one uninterrupted run computes, and a
\* job whose run would fail publishes nothing. (The status of the fit, which
\* does differ, is not compared: see the README.)
SameAsOneRun ==
    outcome # NoResult =>
        LET one == IF operation = "forecast" THEN Untrained ELSE OneRun IN
        /\ \A p \in DOMAIN breaks : breaks[p] = 0
        /\ \A k \in 1 .. one.step : monitor[k] # NonFinite
        /\ \A field \in {"steps", "best", "model", "history", "forecasts"} :
              outcome[field] = Result(one, one.bestModel)[field]

\* Whenever a request may come, the state the worker would hand over passes the
\* checks of owner and resumption: a session is never lost to its own checkpoint.
SavesAreAccepted ==
    /\ phase = "updated" => Accepted(Checkpoint("training"))
    /\ SavePoint \/ phase = "evaluating" => Accepted(Checkpoint("forecast"))
=============================================================================
