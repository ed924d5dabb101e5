# Verification of the shared research runtime

This directory models the part of the repository on which everything else
relies for its correctness: the shared runtime that funds, queues, launches,
checkpoints, stops, settles and resumes research jobs over one crash-tolerant
event journal, and that controls who may read what (`application/research_*.py`,
`infrastructure/research_store.py`, `infrastructure/research_control.py`,
`infrastructure/research_worker.py`, `infrastructure/process_tree.py`; the contract is
`docs/pirc-38-shared-engineering.md`); the control of the long numerical job
that runs under it (`infrastructure/pirc26_worker.py`,
`estimation/phase_space_checkpoint.py`, `inference/phase_space*.py`); and the
resumable benchmark campaign beside it (`experiments/pirc22`). Arithmetic
(stochastic differential equations, losses, scores) is not modelled.

Contents: [the system](#the-system) ·
[components](#components-state-and-hard-behaviour) ·
[modules](#modules-and-how-they-correspond-to-the-code) ·
[runs](#runs-bounds-and-what-they-show) · [fairness](#fairness) ·
[proofs](#proofs) · [findings](#where-documentation-and-code-disagree) ·
[not modelled](#what-is-not-modelled) · [plan](#plan)

## The system

A *store* is a directory: `events/<sequence>.json` (a hash chain), `head.json`
(the certified length and hash), `manifests/`, `artifacts/`. All changes happen
under one operating-system file lock; there is no server and no cached state.
Every call folds the chain again and appends events, so the state of the
budget, of the queue and of an attempt is a function of the chain.

    command line, campaigns
            |  register, new_attempt, run, recover_unknown, continue_arm
            v
    ResearchSupervisor.run  --spawn, GO, kill-->  wrapper + command (process group)
       |  reserve, settle, transition   |  enqueue, claim
       v                                v
    BudgetLedger  <--- reads funding --- ResearchQueue  <-- dispatch policies
       |  _append under the writer lock
       v
    ResearchStore journal  (events, head, recovery hold)
       ^                                ^
       |  READ_STARTED, READ_COMPLETED  |  CHECKPOINT, CHECKPOINT_SAVED
    read_artifact, data gate        owner  <--three files-->  worker control
    (grants, plans, scopes)                                      |  save points
                                                             numerical job

    experiments/pirc22: runners --commit--> cells/<run id>/ --> summary, selection

Calls run in many processes at once: owners (calls of `run`), operators
(recovery, continuation, quarantine), readers. They meet only through the
chain, through the worker's processes, and through three files of an attempt's
directory: a request for a checkpoint, the worker's response, and the owner's
acknowledgement. Campaign runners share nothing but directories, without a lock.

## Components, state and hard behaviour

| component | state | operations | hard behaviour | correct when |
|---|---|---|---|---|
| Event journal (`ResearchStore._append`, `_events`, `_read_transaction`, `_checkpoint_publication`, `quarantine_tail`) | event files, head, hold, snapshot of the call | append, replay, transaction, deferred head, quarantine | crash between event and head, failed directory flush, power loss, damaged files | it opens after every crash, records nothing twice, loses nothing silently |
| Attempts (`new_attempt`, `_transition`, `record_declared_refusal`) | attempt → state | register, retry, transition, refuse | crash between two events of one call, retries | one live or successful attempt per cell; terminal states are final |
| Budget ledger (`BudgetLedger`) | reservations, charges, closed arms, continuation receipts | reserve, refuse, settle, close, recover, continue | races for the last capacity, unknown cost, overrun, reopening | never promises more than the arm has; unknown cost closes the arm |
| Compute queue (`ResearchQueue`, `research_dispatch_policy`) | queued entries, claims, last served arm, activated policies | enqueue, claim, activate | FIFO and rotation, shared and permitted claims, lost supervisors | a slot is never used twice; order is kept; everybody gets a turn |
| Supervisor (`ResearchSupervisor.run`) | locals of the call, wrapper process, deadline timer | reserve → queue → prepare → launch → poll → stop → judge → settle → end | duplicate calls, exit/deadline/closure races, unconfirmed stop, death of the owner, operator recovery at any point | running work stays funded; a success is whole; every call returns |
| Worker wrapper (`research_worker`, `process_tree`) | process group | wait for GO, watchdog, parent watch | descendants that outlive the wrapper | no work without GO; stops at the deadline or with its owner |
| Checkpoint exchange and recovery (`research_control`, `_run` of the supervisor, `research_recovery`) | three frames, soft timer, CHECKPOINT and CHECKPOINT_SAVED events | request, save, record, acknowledge, judge, prepare, resume | timer, worker, owner and other callers interleave; deadline between any two steps; an arm that closes after the acknowledgement; a tree that outlives its owner | what is acknowledged is recorded while funded; no step is repeated or lost by a resumption; one attempt of a cell works |
| Managed numerical job (`pirc26_worker`, `phase_space_checkpoint`, `phase_space_resume`) | optimizer state, best model, patience, forecast chunks and masks | train, forecast, save, restore, publish | stops anywhere, checkpoints from any save point, broken paths | the result is that of one uninterrupted run; no checkpoint of the job is refused by its owner |
| Continuation and grants (`research_continuation`) | approvals, grants, receipts | approve, renew | expiry, crash between grant and receipt | renewal keeps scope and can be finished |
| Artifact access and exposure audit (`read_artifact`, `research_data`, `research_preregistration`) | exposure events, plans, grants | authorize, read, read in a scope, freeze a plan | audit before disclosure, expiry during I/O, failed reads, torn events | no blind test on data that was open before; nothing is given after its grant |
| Index (`research_index`, `research_query`) | SQLite projection, watermark | rebuild, query | stale or damaged projection | never answers for another authority |
| Run store (`runs.py`) | run directories | commit, read | two committers, crash in the staging directory | a run is there entirely or not at all |
| Benchmark campaign (`pirc22/runner`, `pirc22/selection`) | manifest, cells, summary, selection | run all, resume, select | unlocked runners, drifting providers, restarts | a fold rests on one control; a selection stays true |
| Registry, admission, evidence, qualification campaigns, numerics, data, command line | documents, arrays | validation, computation | size | out of scope, see below |

## Modules and how they correspond to the code

**`ArmLedger`** — attempts and the budget authority. The code stores no balance:
a variable of the module is what one fold of the chain returns
(`BudgetLedger._state`, `_attempts`), and a step is *one event appended under
the writer lock*. A call that appends several events (settlement and closure;
attestation, settlement, closure and terminal state of a recovery; attempt and
refusal) is several steps: `txn` names the call that holds the lock and still
has events to append, no other call is enabled meanwhile, and `Crash` forgets
it. `reserve` is one step, since capacity check, refusal and reservation are
one event under one lock. `alive`, `started`, `stopped` are what the ledger
reads of processes. `overrun` is a history variable (what settlements charged
beyond reservations), read by `CapHeld` only. The two `ARM_CLOSED` events of one
recovery are one step (the second changes nothing).

**`ComputeQueue`** — `enqueue` and `claim`. The fold is atomic under the lock, so
a claim is one step with the three rules of the code: ordered (FIFO inside an
arm, rotation between arms), shared CPU (a logical slot beyond the configured
ones), permitted (an activated dispatch policy; the ticket is the least number
not in use). The budget is an environment here. `overtaken` is a history
variable, read by `NeverPassedTwice` only.

**`JobSupervisor`** — one call of `run` per owner, over both authorities:
`L == INSTANCE ArmLedger WITH alive <- Alive` and
`Q == INSTANCE ComputeQueue WITH funded <- Funded`. `Alive` (a recorded process
group with a running member) and `Funded` (the fold of RESERVE/SETTLE) are the
refinement mapping, and `ImplementsLedger`/`ImplementsQueue` are checked: every
step of the composition is a step of the ledger and of the queue, or leaves
them alone. `pc` follows the code:

| `pc` | code (`application/research_supervisor.py`) |
|---|---|
| idle → reserved | `budget.reserve`, 28 |
| reserved → queued → claimed | `enqueue`, `claim`, 33–46 |
| claimed → launching → spawned → polling | prepare 47–63, RUNNING 247, `Popen` 257–267, WORKER_STARTED and GO 273–279 |
| polling → stopping → stopped → deciding | loop 281–344, `stop_tree` 351, `record_tree_stopped` 352 |
| deciding → finishing | verdict 358–403, with what is raised after the publication 404–410 |
| finishing → recording → settling → ending → done | `finally` 411–472 |
| dead | the process of the owner was killed |

`proc` is the wrapper with its group: `waiting` (no GO yet), `working`,
`orphans` (the wrapper exited, descendants run), `gone`. `due` holds the
attempts whose monotonic deadline passed; the deadline of wrapper and owner is
the same number, so one set serves both. `cost` is the elapsed time of the first
confirmed stop; before the deadline it lies within the reservation. What is left
out: the wrapper for which no `ProcessTree` could be built (264): it gets no GO,
the cleanup kills it and records no stop, so for the model it was never spawned
(`Fails` from `launching`); the checkpoint channel (`checkpoint_handler` is None here; it is
`CheckpointExchange`), calls refused without an event, the content of results (a validated result is a
nondeterministic success or failure), the moment between WORKER_STARTED and the
wrapper's reading of GO. An operator may attest a stop whenever the code lets
him; the model does not assume the attestation true. WORKER_STOP_UNCONFIRMED and
ARM_CLOSED (467–470) are one step although the lock is released between them: no
fold reads the first, so what happens between them happens before both.

**`CheckpointExchange`** — the same call of `run`, seen from its checkpoint: one
cell, attempts 1, 2, … of which the latest may be live. `timer` is the thread
`signal_checkpoint` (armed at 80% of the time, issuing, sent, quiet or failed);
`request`, `response`, `ack` are the frames; `worker` and `code` the worker and
what its exit says; `pc` the owner:

| `pc` | code (`application/research_supervisor.py`) |
|---|---|
| polling | the loop, and the final collection after it (`leaving`) |
| scope → handling → stored → noted → recorded | `collect_checkpoint` under the writer lock: budget, response, artifact, CHECKPOINT, CHECKPOINT_SAVED |
| acking | the acknowledgement, outside of the lock |
| stopping → judging → finally → settling → ending → idle | stop, verdict, `finally`, settlement, terminal state |
| dead | the process of the owner was killed, its timer with it |

`journal` holds the events that matter; whether the arm is open is folded from
it (`ClosedAt`), so a property can ask whether it was open *when an event was
written*. `Closed` is read where the code reads the budget, and not where it has
read it before. A method is the number of its steps: a resumed attempt starts
with the step of the CHECKPOINT event that `prepare` found. `Exit`, `Fuse` and
`StrayEnds` are the three ways a tree ends (by itself, by the hard fuse, after
its session). The framing and hashing of the files is left out; a response is
the step it stands for.

**`ManagedJob`** — what that worker computes. A *world* (what the monitor says
after each update, which path breaks at which step) is fixed at the start and
read by every session, because seeds are; a model is the number of updates it
has behind it. `Update`, the chunks of a forecast and the masks of paths follow
the code line by line; `Checkpoint` is what it writes, `Accepted` what the
validators of owner and resumption demand, `Restore` what comes back.

**`ResearchReads`** — the decisions of reads and grants as predicates over the
log, which the code folds again each time. `scope` is the owner of the lock with
the reads it still has to do; an item is a block or an artifact of a source.
`exposures` (what was opened, with the plans frozen by then) and `given` (what a
caller received, with the last I/O before it) are history variables read by
properties only. `Tear` and `Quarantine` damage and cut the end of the log,
`Spoil` changes bytes, `Dies` ends the owner.

**`RunStore`** — what `AtomicRunStore.commit` promises about a directory of runs.

**`CampaignRuns`** — `run_all` of several runners over one directory, record by
record in the order of the cube, and the selection that reads the records.
`Offers` is what a provider may prepare for a cell: more than one control means
that it drifts. `S == INSTANCE RunStore` maps `cell` to `stored` and the draft of
a committing runner to its staging directory.

**`AppendLog`** — what the journal promises: one growing sequence without
repetition; what was acknowledged and flushed stays; other events may vanish;
once files were changed from outside, anything may (`broken`).

**`EventJournal`** — how it is kept in files. Hashes do not collide, so the file
of an event *is* the chain that ends with it and the head *is* the chain it
certifies. `atomic_write` is two steps, rename (visible) and directory flush
(durable). `job` is the call that holds the lock: single appends read the chain
anew, transactions build on the snapshot they verified until an append fails,
checkpoint phases defer their head. `Crash` is the death of the process or an
exception nobody catches; `AppendFails`/`HeadFails` are exceptions that the
caller catches inside its transaction. A quarantine runs on its own, or inside a
transaction that goes on behind it without its snapshot (472–476). `PowerLoss` loses renames that no flush
confirmed, from some point on; `TearFile`, `LoseFile`, `TearHead` are outside
changes of the files. Assumptions: renames of one directory reach the disk in
order, the hold file is written atomically, moves into quarantine are durable,
the copy of the old head in quarantine is left out. `NoSilentLoss` excepts
events that were appended again on a retry (`Replays`); the section on
disagreements says why.

**`MC*`** — TLC instances: values for the constants, nothing else.
**`ArmLedger_proofs`, `ComputeQueue_proofs`, `JobSupervisor_proofs`,
`CheckpointExchange_proofs`, `ManagedJob_proofs`, `EventJournal_proofs`,
`ResearchReads_proofs`, `CampaignRuns_proofs`** — theorems, see below.

Beside each mapped definition that a property is tested with stands a *mutant*:
the same definition with a plausible mistake (a dropped guard, an off-by-one, a
missing reset). No specification uses a mutant; substituting it for its
original must violate the property named in PROJECT.json, which shows that the
property depends on that code.

## Runs, bounds and what they show

Deadlock checking is off everywhere: calls end, bounded sets of attempts and
event ids run out, and a store may simply be left alone.

| run | instance | shows |
|---|---|---|
| `ledger_arm` | 3 cells (one declared non-executable), 2 attempts, 1 arm of 2 units, requests 1–2, measured 0 or 2, 1 approval | `TypeOK`, `OneCurrentAttempt`, `CapHeld`, `UnknownCostCloses`; `FinalStaysFinal`, `ReopenedOncePerApproval` |
| `queue_turn` | 3 attempts (one without supervisor, one with a shared-CPU cell), 2 arms, 1 slot, fair | `TypeOK`, `SlotsExclusive`; `FifoInArm`, `NeverPassedTwice`, `TurnComesIfReconciled`, `PermittedTurnComesAfterLoss` |
| `supervisor_pair` | 2 owners with own attempts, 1 slot; one owner may die or time out at the lock; fair | `WorkersWithinSlots`, `UnsettledEndClosesArm`; `ImplementsQueue`, `EveryCallReturns` |
| `supervisor_same` | 2 owners called for one attempt, both may die; hold, continuation, policy | `WorkIsFunded`, `SuccessIsWhole`, `StopPrecedesRelease`; `LaunchedOnce`, `NoReopenOverWork`, `ImplementsLedger` |
| `checkpoint_resume` | 2 attempts of a cell, methods of 1 step, 1 continuation, fair | `AckIsFundedAndDurable`, `OneWorkerOfLineage`, `NothingRepeated`; `SavedEndIsGenuine`, `SessionEnds` |
| `job_resume` | 4 updates with patience 2 and tolerance 1, monitor values 1, 3 or not finite, 2 origins of 3 paths in chunks of 2, 2 steps, at most 1 broken path, 3 sessions | `SameAsOneRun`, `SavesAreAccepted` |
| `reads_scopes` | 1 source read through 2 test blocks and an artifact, an exploratory and a blind plan, 3 grants, clock to 2, 2 scopes, 1 torn event | `BlindWhileWhole`, `PermittedToTheEnd`, `RenewalCanBeRepeated` |
| `journal_files` | 2 events (one deferrable, the other retried), failed flushes, power loss, 1 change of a file, 1 quarantine | `AlwaysOpens`, `NoSilentLoss`; `HeadNeverRegresses`, `ImplementsLog`, `NothingOverwritten` |
| `campaign_cube` | 2 runners (one drifts), 2 starts each, 2 candidates × 2 folds, 2 controls | `OneControlPerFold`, `SelectionStands`; `ImplementsRunStore` |
| `ledger_busy`, `supervisor_duplicate`, `reads_forgotten` | small | violations, see [below](#where-documentation-and-code-disagree) |

The largest of them has about 3.3 million states and every run ends within
four minutes on two cores.

Why the bounds are enough to be of interest. An arm of two units with requests
of one or two distinguishes every answer of `reserve` (funded, busy, exhausted,
closed), and measured costs of 0 and 2 lie below, at and above a reservation;
two attempts suffice for a race, for a retry of one cell and for a reopening
over another's reservation (the limit of three attempts per cell, a constant in
the code, is then out of reach: it is a guard no property depends on). One
resource class suffices for the queue: classes share only the closed arms.
Three queue entries of two arms are the fewest with which an entry could be
passed twice. Two owners give every duplicate and every competition for a slot;
three owners add only repetitions of these. Two events give a deferred head
before or behind an immediate one and an event after a failure; the one that may
be deferred is never retried, so `NoSilentLoss` speaks of it. Two attempts
give a parent and its resumption, with one step a checkpoint can lie before or
behind it, and one continuation is what brings an arm back to life behind an
orphan. Four updates with patience two let the best model be the first, the last
or one in between, a checkpoint lie before, at and after it, and a resumed
training find its patience already spent; three paths in chunks of two give a full and a partial chunk. Two scopes
give a read before a plan froze and a test after it. Two candidates over two
folds give an incomplete, a winning and an inconclusive comparison. What the
small numbers leave open is settled for the safety of every component by the
[proofs](#proofs), which have no bounds; liveness rests on the runs, and for
sessions and permitted entries on proofs from named steps.

Bounds in the models themselves: `Attempts` (each used once, as the code's
uuid4), `Approvals`, `HoldIds` (quarantines), `MaxDamage` (outside changes),
`Ids` (events), `MaxAttempts`, `TotalSteps`, `Continuations` (checkpoints),
`MaxSteps`, `MaxBroken`, `MaxAttempts` (job), `MaxTime`, `MaxScopes`, `MaxTail`
(reads), `MaxStarts` (campaign). All other state is bounded by these. Symmetry
is used for cells in `ledger_arm`, where no definition tells them apart.

`supervisor_same` excludes lock time-outs of duplicate callers, which
`supervisor_duplicate` shows to break `WorkIsFunded`, and kills a recovery only
while no call of `run` for its attempt goes on (`RecoveryDies = "lost"`; see the
first of the [further disagreements](#where-documentation-and-code-disagree)).

## Fairness

`queue_turn` (`OneLost`): supervisors poll `claim` every 50 ms while they wait
(`research_supervisor.py:35-40`), so an enabled claim is made, except for one
attempt whose supervisor is lost. `TurnComesIfReconciled` assumes in addition
that *claimed* reservations are settled in the end, by their supervisors behind
the deadline or by an operator (`recover_unknown`), that the operator reconciles
the lost entry, and that arms stop being reopened (each reopening uses up an
approval). Waiting entries are not settled by anybody's fairness: they must get
their turn. Both assumptions are needed: arms that close and reopen for ever
starve an entry. `PermittedTurnComesAfterLoss` does without either.

`supervisor_pair` (`FairSpec`): an owner that runs takes its next step (`Progress`); the
deadline passes; wrapper and owner timers fire; a closed pipe is noticed; an
operator reconciles attempts that lost their owner and finishes what he
started. No fairness for exits of commands or of orphaned descendants: nothing
in the code makes them end. If an owner died and descendants escaped both
timers, their slot stays occupied by design (`process_may_be_alive` vetoes
recovery) and others wait: that is the escape clause of `EveryCallReturns`.

`checkpoint_resume` (`FairSpec`): the clock runs, and the owner takes its next
step. Nothing is assumed of the worker, of the soft timer or of the operator:
`SessionEnds` says that a session returns although none of them answers, which
rests on the deadline being looked at in every wait. Once the owner died, it is
`dead` and owes nothing. `job_resume`, `reads_scopes`, `journal_files` and
`campaign_cube` check safety only and assume no fairness.

## Proofs

All constants are arbitrary, under the assumptions the modules name; TLC
evaluates each of them on the runs, and the proof modules assume nothing more.

| module | assumptions |
|---|---|
| `ArmLedger` | `ArmOfAssumption` (every cell has an arm), `CostAssumption` (costs are natural), `OutcomeAssumption` (outcomes are terminal states), `NullAssumption` |
| `ComputeQueue` | `SlotsAssumption`, `NoSlotAssumption` |
| `JobSupervisor` | `LedgerAssumption`, `QueueAssumption` (those of the two authorities), `CallAssumption` (calls name attempts and requests, every verdict of the code is an outcome, a withdrawn attempt costs 0), `SlotsConfiguredAssumption` |
| `CheckpointExchange` | `BoundsAssumption` (natural numbers of attempts, steps and continuations) |
| `ManagedJob` | `PlanAssumption` (sizes of the plan are natural, patience and chunk lie within them, "not finite" is no value) |
| `EventJournal` | `IdAssumption` (finitely many events and quarantines, apart from each other), `ValueAssumption` (an absent, torn or unread file is no chain) |
| `ResearchReads` | `ReadsAssumption` (plans are not grants, a renewal keeps the scope and moves the expiry, a request asks for something; nothing was published twice before the start, and no renewal without its base) |
| `CampaignRuns` | `CampaignAssumption` (each cell has a fold; controls are neither failures nor absent) |

Sets need not be finite where the table does not say so. Some theorems have
hypotheses besides. Four about the supervisor, because the code breaks what they
say without them:

- `SoleImpatience`: every attempt is `Alone`: a call whose wait for the lock may
  time out has its attempt to itself. Without it a duplicate caller settles the
  work of another, which `supervisor_duplicate` shows. It is a condition on one
  attempt, and `SoleWorkStaysSafe` uses it so: what the callers of *other*
  attempts do is then of no consequence. `WorkStaysFunded`,
  `StopsPrecedeReleases` and `SlotsAreNotExceeded` are the case in which all
  attempts are alone.
- `RecoveryEnds`: a recovery is not killed while a call of `run` for its attempt
  goes on (`RecoveryDies` is not "always"). Without it the call launches on a
  reservation that the recovery has settled (the first of the
  [further observations](#where-documentation-and-code-disagree)).
  `ReleasesFollowStops` does without it: the *step* that settles launched work
  always follows its recorded stop.

Two about liveness (`SessionsEnd`, `PermittedTurn`) assume that the actions with
weak fairness are enabled where they must be (`StepsExist`, and the last premise
of `PermittedTurn`), because ENABLED is an uninterpreted name to the provers.
These are facts about the model and not about its environment: the lemmas
`OwnerHasAStep` and `ClockHasAStep` and the theorem `PermittedIsServedAtOnce`
give the step itself, with the next value of every variable.

`supervisor_pair` and `supervisor_same` are instances that satisfy both: the first
has an impatient call, the second two calls of one attempt and recoveries that die.

| theorem | states |
|---|---|
| `ArmLedger_proofs!TypeCorrect` | `Spec => []TypeOK` |
| `ArmLedger_proofs!CapIsHeld` | `Spec => []CapHeld` |
| `ArmLedger_proofs!OneCurrent` | `Spec => []OneCurrentAttempt` |
| `ArmLedger_proofs!UnknownCost` | `Spec => []UnknownCostCloses` |
| `ArmLedger_proofs!FinalIsFinal` | `Spec => FinalStaysFinal` |
| `ArmLedger_proofs!ReopeningsAreApproved` | `Spec => ReopenedOncePerApproval` |
| `ArmLedger_proofs!BalancesAreSums` | the running totals that decide about capacity are the sums over the reservations |
| `ComputeQueue_proofs!TypeCorrect` | `Spec => []TypeOK` |
| `ComputeQueue_proofs!SlotsAreExclusive` | `Spec => []SlotsExclusive` |
| `ComputeQueue_proofs!ClaimsAreOnce` | a claim is made once, of a queued, funded entry of an open arm without a hold, and never moves |
| `ComputeQueue_proofs!ArmsAreFifo` | `Spec => FifoInArm` |
| `ComputeQueue_proofs!RotationIsFair` | `Spec => NeverPassedTwice` |
| `ComputeQueue_proofs!QueuesMoveOn` | `Spec => []SomebodyIsNext`: where entries wait, one is next |
| `ComputeQueue_proofs!FreeSlotIsGranted` | with a free slot and a waiting entry, a claim exists (the step is given) |
| `ComputeQueue_proofs!PermittedIsServedAtOnce` | a permitted, unanswered entry has a claim (the step is given) |
| `ComputeQueue_proofs!PermittedTurn` | a polled, permitted entry is answered, if that claim is enabled |
| `JobSupervisor_proofs!LedgerIsImplemented` | `Spec => ImplementsLedger` (a refinement) |
| `JobSupervisor_proofs!QueueIsImplemented` | `Spec => ImplementsQueue` (a refinement) |
| `JobSupervisor_proofs!AuthorityIsKept` | cap, sums, one current attempt and closure at unknown cost hold of the composition |
| `JobSupervisor_proofs!AuthorityOnlyMovesOn` | so do finality and approved reopening |
| `JobSupervisor_proofs!OrderIsKept` | so do exclusive slots, single claims, order, rotation and `SomebodyIsNext` |
| `JobSupervisor_proofs!CallsOnlyAdvance` | no call of `run` returns to a stage it left; at most fifteen steps of its own |
| `JobSupervisor_proofs!ReleasesFollowStops` | launched work of an attempt that is `Alone` is settled after its recorded stop (a step property, no hypothesis on recoveries) |
| `JobSupervisor_proofs!SoleWorkStaysSafe` | under `RecoveryEnds`, work of an attempt that is `Alone` is funded, claimed, and settled only when stopped |
| `JobSupervisor_proofs!WorkerIsLaunchedOnce` | `Spec => LaunchedOnce` |
| `JobSupervisor_proofs!NothingRunsAtReopening` | `Spec => NoReopenOverWork` |
| `JobSupervisor_proofs!UnsettledEndIsClosed` | `Spec => []UnsettledEndClosesArm` |
| `JobSupervisor_proofs!SuccessesAreWhole` | `Spec => []SuccessIsWhole` |
| `JobSupervisor_proofs!WorkStaysFunded` | under the two hypotheses, `Spec => []WorkIsFunded` |
| `JobSupervisor_proofs!StopsPrecedeReleases` | under the two hypotheses, `Spec => []StopPrecedesRelease` |
| `JobSupervisor_proofs!SlotsAreNotExceeded` | under the two hypotheses, `Spec => []WorkersWithinSlots` |
| `CheckpointExchange_proofs!OneWorker` | `Spec => []OneWorkerOfLineage` |
| `CheckpointExchange_proofs!AcknowledgedIsDurable` | `Spec => []AckIsFundedAndDurable` |
| `CheckpointExchange_proofs!ResumesWhereItStopped` | `Spec => []NothingRepeated` |
| `CheckpointExchange_proofs!SavedVerdictIsGenuine` | `Spec => SavedEndIsGenuine` |
| `CheckpointExchange_proofs!LateCallsOnlyAdvance` | past the deadline each owner step is nearer to the return, and no other step takes it back |
| `CheckpointExchange_proofs!SessionsEnd` | `FairSpec /\ StepsExist => SessionEnds` |
| `ManagedJob_proofs!SessionsAreInvisible` | `Spec => []SameAsOneRun` |
| `ManagedJob_proofs!NoCheckpointIsRefused` | `Spec => []SavesAreAccepted` |
| `EventJournal_proofs!JournalOpens` | `Spec => []AlwaysOpens` |
| `EventJournal_proofs!NothingIsLostSilently` | `Spec => []NoSilentLoss` (events of `Replays` excepted) |
| `EventJournal_proofs!FilesAreNeverOverwritten` | `Spec => NothingOverwritten` |
| `EventJournal_proofs!HeadsOnlyGrow` | `Spec => HeadNeverRegresses` |
| `EventJournal_proofs!LogIsImplemented` | `Spec => ImplementsLog` (a refinement) |
| `ResearchReads_proofs!BlindTestsStayBlind` | `Spec => []BlindWhileWhole` |
| `ResearchReads_proofs!GivenInTime` | `Spec => []PermittedToTheEnd` |
| `ResearchReads_proofs!InterruptedRenewalsMayFinish` | `Spec => []RenewalCanBeRepeated` |
| `CampaignRuns_proofs!FoldsRestOnOneControl` | `Spec => []OneControlPerFold` |
| `CampaignRuns_proofs!WhatWasSelectedStands` | `Spec => []SelectionStands` |
| `CampaignRuns_proofs!CellsAreARunStore` | `Spec => ImplementsRunStore` (a refinement) |

*Types of the ledger.* `TypeOK` is not inductive: steps of an open transaction
index by `txn.attempt`, and reservations by the arm of their cell. The
strengthening `Shape` adds that an open transaction names a registered attempt,
that exactly registered attempts have a cell, and that what is reserved is
registered.

*Cap.* `CapHeld` is inductive with the types alone, because `outstanding` and
`charged` are the running totals: a reservation adds at most what remains, and a
settlement moves a reservation from one total to the other and adds to `overrun`
what exceeds it.

*One current attempt.* Inductive with `Shape` and the fact that an open
transaction which still has a terminal state to append names a live attempt.
Registration needs all attempts of the cell terminal and unsuccessful; success
needs RUNNING, so no terminal attempt becomes current again.

*Unknown cost.* An unmeasured settlement adds its arm to `closed` in the same
step. Arms leave `closed` only in `ContinueArm`, which requires all reservations
settled and puts them into `retained`; a later settlement without measure
closes again.

*Sums.* The ledger keeps `outstanding` and `charged` as running totals, where the
code folds the chain again. Nothing here can define a sum by recursion and prove
about it, so `TotalsAreSums` says it with relations: a number is the sum of a
finite family if every relation that is closed under adding an element relates
the two. Each step changes one element, and the total by the same amount.

*Finality and reopening.* Both are action properties. Every action that writes
a state demands a live attempt, or ends a transaction whose attempt is still
live because nobody else could append meanwhile (`PendingEndIsLive`). Only
`ContinueArm` takes an arm out of `closed`; that it leaves capacity is its guard on
what was charged *and* the sums: where nothing is held, nothing is outstanding.

*Queue.* The least free slot of the offered set is not occupied: each of the
three sets is disjoint from `Occupied`, and settlements only shrink it. Order
and rotation are action properties: an ordered claim takes the oldest claimable
entry of its arm, and an arm that was just served is only served again when no
other arm had a claimable entry. That nothing blocks a queue needs that an attempt is
queued once (`EnteredOnce`): of the entries that need not yield, one stands first.
That a ticket is left needs that finitely many were claimed (`FewClaims`), since the
code offers one more number than is in use.

*Supervisor.* Both refinements go action by action: what is left to show is that
the guards of the authority follow from where the call stands (`InLine`: a call
past `enqueue` has its entry in the queue, only the driver of an entry claims its slot, and
an entry has one driver), and that a step of a wrapper is a step of the ledger's processes.
With them the theorems of the ledger hold of the composition (`AuthorityIsKept`),
without being proved again. `WorkerFollowsCall` ties the wrapper to its call, hence
one launch. Calls never go back (`Depth`), whoever steps. `EndingClosed`: a call
that reports an attempt it did not settle closed
the arm before. `VerdictIsEarned`: a call that will report success has
published, stopped and measured. `WorkIsFunded` is far from inductive. One must know
that one call of an attempt is past the queue (`OneCallPast`, if the attempt is `Alone`),
that a call settles only what never started or has its stop on record
(`Contained`), that a recovery does likewise (`RecoveredIsOver`), and that the
attempt of a call before its launch is not settled unless a recovery holds the lock
and will end it (`SettledIsPending`, from `RecoveryEnds`). The number of workers
follows without another invariant: working trees hold distinct claims below the
number of slots.

*Checkpoint.* The invariant has five parts beside the types. `Order`: attempts
are registered one after the other, those before the latest have ended, and a
session belongs to a running one. `Contained`: a tree that runs holds its
reservation, and if its attempt has ended it holds the arm closed — so the arm
cannot be continued, hence nothing launched, before the tree stopped
(`OneWorker`). `Frozen`: the worker does not work on behind its response, so each
CHECKPOINT event names the step its attempt stays at (`ResumesWhereItStopped`).
`Scoped`: inside the scope nobody else writes, so what was open when the budget
was read is open when the event is written (`AcknowledgedIsDurable`).
`Judged`: what the verdict remembers of exit and acknowledgement is still so.
That the journal only grows, and that whether the arm was open at an event never
changes afterwards, is a lemma about the fold (`OnlyGrows`).

*Sessions end.* Behind the deadline the stages of a call are ordered (`StagesFollow`:
exchanging, looping, leaving the loop, stopping, judging, `finally`, settling,
ending, over): a step of the owner leaves each of them for a later one, and no other
step goes back, whatever worker, timer and callers do. Weak fairness of the clock
brings the deadline, weak fairness of the owner one stage after the other. Each
stage is one application of the rule for weak fairness; the wait for a request that
the timer never finishes is the place where the argument would fail (the mutant
`LeaveLoopUnlessWriting`).

*Managed job.* The reference is the recursive function that applies `Updated` once
per update. `Path` names it, `PathExists` shows that the recursion has a solution:
a set of naturals where it fails would have a least member. The invariant
says where every piece of work stands in that one run: the state of training is
`Path` at its number of updates, a forecast is the set of paths of its closed
chunks that no step broke, and both are said of every checkpoint on record too
(`SavedSound`). `Restore` of a sound checkpoint is a sound state, so a session that
stops and one that goes on cannot be told apart.

*Journal.* The pure part comes first: what a scan of the files finds after a file
was added at the end of the chain (`Extends`) and after files were lost from some point on
(`Cuts`). Then two halves. Whatever happened to the files, the durable head,
the head, the snapshot of the call and its event are prefixes of one another
in this order (`Heads`), and callers were told only what the durable
head certifies (`Told`): this bears `NoSilentLoss`, since a history that opens
extends its head. While nobody touched the files, they are one chain whose
unconfirmed files are its end (`Whole`), and no head certifies one of
these (`Backed`), so power loss cuts behind every head: this bears
`AlwaysOpens`. `ImplementsLog` uses both, with the scan as the log. The
invariant was checked by TLC on `journal_files` before it was proved.

*Reads.* While nothing was quarantined the log only grows; an exposure was
announced by a READ_STARTED that precedes every plan not frozen by then
(`Recalled`), and the plan of a blind test that was opened was published. The
last comparison of all clocks comes after the last input or output, and clocks
do not run back. A renewal follows its base in the log, and a quarantine drops
an end of the log, so a renewal without receipt always finds its base (`Based`):
the guard of the repetition holds, and the receipt is the one event it appends.

*Campaign.* What a runner collected is a prefix of the cube that agrees with the
cells (`Collected`), and a draft agrees with every success of its fold
before it (`Drafted`); a cell is written where nothing is, so two runners that
race for a fold find each other's first success before they commit the next.

Only model-checked: the liveness properties `TurnComesIfReconciled` and
`EveryCallReturns`. Their arguments descend along data (the entries before one in the
queue, the calls and slots others hold), by an induction the provers cannot do, and
rest on many enabled steps. Their safety cores are theorems: `QueuesMoveOn`,
`FreeSlotIsGranted`, `RotationIsFair`; `CallsOnlyAdvance`. Also `SessionEnds` and
`PermittedTurnComesAfterLoss` are checked *without* the premises on ENABLED, which
only TLC evaluates. Every other property of a passing run is the statement of a
theorem.

## Where documentation and code disagree

Each of these has a run that checks one property and finds it violated.

1. `ledger_busy` — reserved capacity is announced as only temporarily busy, but
   a settlement that finds nothing left *because others reserved it* closes the
   arm (`research_budget.py:238`).
2. `supervisor_duplicate` — "A duplicate caller must not release the original
   worker's claim" (`research_supervisor.py:42`), but a duplicate caller that
   loses the wait for the lock does (line 43).
3. `reads_forgotten` — "Blind mode also rejects previous imported exposure and
   controlled reads" (`docs/pirc-38-shared-engineering.md:63-64`) and "an
   unsuccessful response cannot erase an earlier read" (760-761), but a quarantine
   of damaged events erases them, and the hold it leaves behind stops budgets
   only (`research_preregistration.py:152`).

Two more are built into properties that hold. Settlements "cannot oversubscribe
the arm" (same document, 344-345), but a measured cost above its reservation is
charged in full (`research_budget.py:229`): `CapHeld` adds the measured overrun
to the cap. "Content is flushed and atomically published before success"
(314-315), but the retry of an event is answered from the files, without a flush
and without a head (`research_store.py:510`): `ImplementsLog` counts an
acknowledged event as safe from the flush that covers its file, and
`NoSilentLoss` excepts events appended again, whose loss nobody notices when
the first call died between event and head.

Further observations from reading the code for the models, not separate runs:

- A recovery that dies between settlement and terminal state leaves an attempt
  that can still be launched on its settled reservation: the launch checks the
  attempt and not the reservation (`research_supervisor.py:274`).
- What is raised when the read transaction around the publication closes (401–403)
  leaves the attempt INTERRUPTED with the id of its published result: line 409
  resets the outcome and not the artifact.
- A training checkpoint saved when patience is spent, at the last permitted
  step, is resumed to status MAX_STEPS where one run says CONVERGED
  (`phase_space_checkpoint.py:308-311,359`); `SameAsOneRun` compares everything
  but that status.
- A renewed grant whose receipt was never written is still honoured by
  `read_artifact`, which looks at the grant only.
- The watermark of a query cursor is the largest sequence number
  (`research_query.py:44-48`); a quarantine reuses numbers, so a cursor from
  before it can pass as current.
- When two first campaign runners race, the manifest may name another provider
  than the one whose cells are there (`experiments/pirc22/runner.py:302`), a
  transient exception leaves a failed cell for good, and of two selections the
  later file replaces the earlier one.

## What is not modelled

Only a few percent of the repository's lines are mapped, and the rest is
left out by its nature, not for lack of time:

- Arithmetic: stochastic differential equations, estimation, scores, priors
  (`models`, `inference`, `estimation`, `evaluation`, most of `experiments`), the
  bulk of the code. Its *control* is in `ManagedJob` where a job can be
  interrupted; elsewhere it is straight-line floating-point code.
- Experiments (`experiments/nex326*`, `pirc15`–`pirc27`, `backend.py`) and the
  command line: sequential scripts over the layers above, most of them reading,
  fitting and writing one result. `CampaignRuns` models the one kind that is
  resumed and may race.
- Validation of immutable documents (registry, admission, evidence, comparison,
  qualification): predicates over JSON without state of their own beyond
  manifests.
- The file handles, directory identities and JSON quotas below `atomic_write` and
  `_json`: pure I/O, represented by what they achieve. Windows job objects and
  POSIX process groups are one notion of process tree. Clock arithmetic is
  reduced to "deadline passed" and "expired".
- The research index: a disposable projection, rebuilt from the chain whenever
  it differs, on which no decision rests.
- Creation of a store, reveal mode of exposures, and the qualified source
  transition of PIRC-27, which exempts a cell from the limit of three attempts.

## Plan

Done: ledger, queue, supervisor over both, journal and its abstract
specification, checkpoint exchange with resumption, the managed job, reads with
grants and plans, campaigns over an abstract run store; every safety property and
every refinement of the passing runs as a theorem, and the end of a session and
the turn of a permitted entry from their enabled steps.

Worth doing next, in this order: the creation of a store with a crash at every
write; the composition of `CheckpointExchange` with the journal's deferred heads,
so that what is acknowledged is durable down to the flush; the step
that every call of `run` has or waits for, given as `OwnerHasAStep` gives the owner's;
the refinement of the ledger's runs of events by
the journal's chain.
