--------------------------- MODULE JobSupervisor ---------------------------
(***************************************************************************)
(* ResearchSupervisor.run: one owner drives one attempt from reservation   *)
(* to its terminal state, over the budget authority (ArmLedger), the       *)
(* compute queue (ComputeQueue) and a worker process behind a wrapper.     *)
(*                                                                         *)
(* An owner is one call of run in one process.  Two owners may be called   *)
(* for the same attempt.  Between two locked steps anything may happen:    *)
(* other owners, the deadline, the worker's exit, an operator's            *)
(* recovery, the owner's death.  A step that appends to the journal needs  *)
(* the writer lock: the ledger's Free.                                     *)
(*                                                                         *)
(* No checkpoint channel is modelled here: checkpoint_handler is None.     *)
(***************************************************************************)
EXTENDS Integers, FiniteSets, Sequences

CONSTANTS   \* of ArmLedger and ComputeQueue
    Runs, Attempts, Arms, ArmOf, Declared, Cap, Requests, AllocationOnly,
    Elapsed, Outcomes, Approvals, NoRun, NoAttempt, NoApproval,
    Resources, Slots, SharedLimit, Sharing, NoArm, NoResource, NoSlot

CONSTANTS
    Owners,     \* calls of ResearchSupervisor.run
    JobOf,      \* owner -> the attempt it runs
    Ask,        \* owner -> its job budget
    CellOf,     \* attempt -> its registered cell
    ResourceOf, \* cell -> the resource class it was registered with
    Impatient,  \* owners whose lock wait may time out or be interrupted
    MayDie,     \* owners that may be killed
    RecoveryDies, \* when a recovery may be killed: "never", "lost" (only of an
                  \* attempt without a running call), "always"
    MayHold,    \* the journal's tail may be quarantined
    Permissible, \* <<arm, resource>> pairs whose dispatch policy may be activated
    Operator, Nobody

\* No cell asks for a resource class without a slot.
ASSUME SlotsConfiguredAssumption == \A r \in Runs : Slots[ResourceOf[r]] > 0

\* What the two authorities assume of their constants.
ASSUME LedgerAssumption ==
    /\ ArmOf \in [Runs -> Arms]
    /\ Cap \in Nat /\ Requests \subseteq Nat \ {0} /\ Elapsed \subseteq Nat
    /\ AllocationOnly \subseteq Requests
    /\ NoRun \notin Runs /\ NoAttempt \notin Attempts /\ NoApproval \notin Approvals
ASSUME QueueAssumption ==
    /\ Slots \in [Resources -> Nat] /\ SharedLimit \in Nat /\ NoSlot \notin Nat
    /\ Permissible \subseteq Arms \X Resources

\* Calls name registered work; a withdrawn attempt is settled at no cost.
ASSUME CallAssumption ==
    /\ JobOf \in [Owners -> Attempts] /\ Ask \in [Owners -> Requests]
    /\ CellOf \in [Attempts -> Runs] /\ ResourceOf \in [Runs -> Resources]
    /\ 0 \in Elapsed
    /\ Outcomes \subseteq {"SUCCEEDED", "FAILED", "INTERRUPTED", "TIMEOUT",
                           "BUDGET_EXHAUSTED", "PREFLIGHT_FAILED", "CANCELLED"}
    /\ {"SUCCEEDED", "FAILED", "INTERRUPTED", "TIMEOUT",
        "BUDGET_EXHAUSTED", "PREFLIGHT_FAILED"} \subseteq Outcomes
    /\ Operator \notin Owners /\ Nobody \notin Owners /\ Operator # Nobody

VARIABLES   \* of ArmLedger and ComputeQueue
    runOf, state, resv, outstanding, charged, closed, retained, receipts,
    policy, expired, hold, started, stopped, txn, overrun,
    permitted, queue, slot, lastArm, overtaken

VARIABLES
    pc,        \* owner -> where its call is
    verdict,   \* owner -> the outcome it will report
    seen,      \* owner -> the wrapper's exit code was read before the stop
    cost,      \* owner -> elapsed time at the confirmed stop
    proc,      \* attempt -> its wrapper and the wrapper's descendants
    due,       \* attempts past their monotonic deadline
    published, \* attempts with a published result artifact
    holder     \* who holds the lock for `txn`

attemptVars == <<runOf, state>>
ledgerVars == <<attemptVars, resv, outstanding, charged, closed, retained,
                receipts, policy, expired, hold, started, stopped, txn, overrun>>
queueVars == <<permitted, queue, slot, lastArm, overtaken>>
jobVars == <<verdict, seen, cost>>
vars == <<ledgerVars, queueVars, pc, jobVars, proc, due, published, holder>>

\* The recorded process, its group and its descendants.
Running(a) == proc[a] \in {"waiting", "working", "orphans"}
\* Mutant of Alive: looks at the wrapper and not at its group.
AliveLeaders == {a \in Attempts : proc[a] \in {"waiting", "working"}}

Alive == {a \in Attempts : Running(a)}

Funded == [a \in Attempts |->
    IF resv[a].phase = "none"
    THEN [phase |-> "none", arm |-> NoArm, resource |-> NoResource]
    ELSE [phase |-> resv[a].phase, arm |-> ArmOf[runOf[a]], resource |-> ResourceOf[runOf[a]]]]

L == INSTANCE ArmLedger WITH alive <- Alive
Q == INSTANCE ComputeQueue WITH funded <- Funded

-----------------------------------------------------------------------------
\* stopped_at is None: no stop of this call's worker was confirmed yet.
Unmeasured == -1

Init ==
    /\ proc = [a \in Attempts |-> "none"]
    /\ L!Init
    /\ Q!Init
    /\ pc = [o \in Owners |-> "idle"]
    /\ verdict = [o \in Owners |-> "FAILED"]
    /\ seen = [o \in Owners |-> FALSE]
    /\ cost = [o \in Owners |-> Unmeasured]
    /\ due = {}
    /\ published = {}
    /\ holder = Nobody

Goto(o, from, to) == pc[o] \in from /\ pc' = [pc EXCEPT ![o] = to]

\* The locals of a call end with it.
Leave(o, from, to) ==
    /\ Goto(o, from, to)
    /\ verdict' = [verdict EXCEPT ![o] = "FAILED"]
    /\ seen' = [seen EXCEPT ![o] = FALSE]
    /\ cost' = [cost EXCEPT ![o] = Unmeasured]

Judge(o, outcome) == verdict' = [verdict EXCEPT ![o] = outcome]
ArmBarred(a) == hold \/ L!Arm(a) \in closed

-----------------------------------------------------------------------------
(* Reservation and queue. *)

Submit(a) ==
    /\ UNCHANGED <<queueVars, pc, jobVars, proc, due, published, holder>>
    /\ L!NewAttempt(a, CellOf[a])

\* A call rejected without an event changes nothing and is left out.  A
\* replay of the same request returns the reservation of the first call.
Reserve(o) ==
    LET a == JobOf[o] IN
    /\ UNCHANGED <<queueVars, jobVars, proc, due, published, holder>>
    /\ \/ L!Reserve(a, Ask[o]) /\ Goto(o, {"idle"}, "reserved")
       \/ (L!RefuseReserve(a, Ask[o]) \/ L!ReserveDeclared(a)) /\ Goto(o, {"idle"}, "done")
       \/ /\ L!Free /\ ~hold /\ L!Held(a) /\ resv[a].reserved = Ask[o]
          /\ Goto(o, {"idle"}, "reserved")
          /\ UNCHANGED ledgerVars

\* Mutant of Enqueue: a duplicate caller withdraws the worker's reservation.
EnqueueOrWithdraw(o) ==
    LET a == JobOf[o] IN
    /\ L!Free
    /\ UNCHANGED <<ledgerVars, seen, proc, due, published, holder>>
    /\ \/ Q!Enqueue(a) /\ Goto(o, {"reserved"}, "queued") /\ UNCHANGED <<verdict, cost>>
       \/ /\ Q!Queued(a) /\ Goto(o, {"reserved"}, "settling")
          /\ Judge(o, "PREFLIGHT_FAILED")
          /\ cost' = [cost EXCEPT ![o] = 0]
          /\ UNCHANGED queueVars

\* The second owner of an attempt meets IDENTITY_CONFLICT here.
Enqueue(o) ==
    LET a == JobOf[o] IN
    /\ L!Free
    /\ UNCHANGED <<ledgerVars, jobVars, proc, due, published, holder>>
    /\ \/ Q!Enqueue(a) /\ Goto(o, {"reserved"}, "queued")
       \/ Q!Queued(a) /\ Goto(o, {"reserved"}, "done") /\ UNCHANGED queueVars

\* Mutant of Claim: takes a slot without looking at the claims of others.
ClaimAtOnce(o) ==
    LET a == JobOf[o] IN
    /\ L!Free
    /\ Goto(o, {"queued"}, "claimed")
    /\ UNCHANGED <<ledgerVars, jobVars, proc, due, published, holder, permitted, queue, overtaken>>
    /\ Q!MayClaim(a)
    /\ Q!Take(a, 0 .. Slots[ResourceOf[runOf[a]]] - 1)

Claim(o) ==
    /\ L!Free
    /\ Goto(o, {"queued"}, "claimed")
    /\ UNCHANGED <<ledgerVars, jobVars, proc, due, published, holder>>
    /\ Q!Claim(JobOf[o])

\* What the code does on any exception but IDENTITY_CONFLICT before a worker
\* exists: settle at no cost, then PREFLIGHT_FAILED.
Withdraw(o, from) ==
    /\ Goto(o, from, "settling")
    /\ Judge(o, "PREFLIGHT_FAILED")
    /\ cost' = [cost EXCEPT ![o] = 0]
    /\ UNCHANGED <<ledgerVars, queueVars, seen, proc, due, published, holder>>

\* Held, closed, settled by somebody else, or past the execution window.
Rejected(o) ==
    LET a == JobOf[o] IN
    /\ Withdraw(o, {"queued"})
    /\ L!Free
    /\ \/ ArmBarred(a) \/ L!Settled(a)
       \/ L!Soft(L!Arm(a)) /\ policy[L!Arm(a)] \in expired

\* Mutant of PrepareFails: gives the slot back before the settlement.
PrepareReturnsSlot(o) ==
    /\ Goto(o, {"claimed"}, "settling")
    /\ Judge(o, "PREFLIGHT_FAILED")
    /\ slot' = [slot EXCEPT ![JobOf[o]] = NoSlot]
    /\ cost' = [cost EXCEPT ![o] = 0]
    /\ UNCHANGED <<ledgerVars, permitted, queue, lastArm, overtaken, seen,
                   proc, due, published, holder>>

PrepareFails(o) == Withdraw(o, {"claimed"})

\* WRITER_BUSY or an interrupt of the wait for the lock.
LosesPatience(o) == o \in Impatient /\ Withdraw(o, {"reserved", "queued"})

-----------------------------------------------------------------------------
(* Launch. *)

\* An error of this transition escapes run: nothing is settled.
Launch(o) ==
    LET a == JobOf[o] IN
    /\ UNCHANGED <<queueVars, jobVars, proc, due, published, holder>>
    /\ \/ Goto(o, {"claimed"}, "launching") /\ L!Transition(a, "RUNNING")
       \/ /\ L!Free /\ state[a] # "REGISTERED"
          /\ Goto(o, {"claimed"}, "done")
          /\ UNCHANGED ledgerVars

\* An Exception past the deadline reports the deadline; an interrupt does not.
ErrorVerdict(a) == IF a \in due THEN "TIMEOUT" ELSE "INTERRUPTED"

\* Popen and the tree that contains the wrapper.  A wrapper without its tree
\* gets no GO, and the cleanup kills it without a record: Fails covers it.
Spawn(o) ==
    LET a == JobOf[o] IN
    /\ Goto(o, {"launching"}, "spawned")
    /\ proc' = [proc EXCEPT ![a] = "waiting"]
    /\ L!ProcessSpawned(a)
    /\ UNCHANGED <<queueVars, jobVars, due, published, holder>>

\* Mutant of StartWorker: trusts the state it read before the wrapper was spawned.
StartUnchecked(o) ==
    LET a == JobOf[o] IN
    /\ L!Free
    /\ proc[a] = "waiting"
    /\ proc' = [proc EXCEPT ![a] = "working"]
    /\ Goto(o, {"spawned"}, "polling")
    /\ started' = started \cup {a}
    /\ UNCHANGED <<attemptVars, resv, outstanding, charged, closed, retained, receipts,
                   policy, expired, hold, stopped, txn, overrun,
                   queueVars, jobVars, due, published, holder>>

\* WORKER_STARTED and GO under one lock, after the state was read again.  The
\* wrapper may be gone, or the pipe broken: then GO is never read.
StartWorker(o) ==
    LET a == JobOf[o] IN
    /\ \/ /\ proc[a] = "waiting"
          /\ proc' = [proc EXCEPT ![a] = "working"]
          /\ Goto(o, {"spawned"}, "polling")
          /\ UNCHANGED verdict
       \/ /\ Goto(o, {"spawned"}, "finishing")
          /\ Judge(o, ErrorVerdict(a))
          /\ UNCHANGED proc
    /\ L!WorkerStarted(a)
    /\ UNCHANGED <<queueVars, seen, cost, due, published, holder>>

\* Mutant of LaunchRefused: knows only one way to be overtaken.
LaunchRefusedIfCancelled(o) ==
    /\ Goto(o, {"spawned"}, "finishing")
    /\ L!Free /\ state[JobOf[o]] = "CANCELLED"
    /\ Judge(o, ErrorVerdict(JobOf[o]))
    /\ UNCHANGED <<ledgerVars, queueVars, seen, cost, proc, due, published, holder>>

\* "attempt reconciled before worker launch"
LaunchRefused(o) ==
    /\ Goto(o, {"spawned"}, "finishing")
    /\ L!Free /\ state[JobOf[o]] # "RUNNING"
    /\ Judge(o, ErrorVerdict(JobOf[o]))
    /\ UNCHANGED <<ledgerVars, queueVars, seen, cost, proc, due, published, holder>>

-----------------------------------------------------------------------------
(* The poll loop and the verdict. *)

Exited(a) == proc[a] \in {"orphans", "gone"}

LeaveLoop(o, outcome) ==
    /\ Goto(o, {"polling"}, "stopping")
    /\ Judge(o, outcome)
    /\ seen' = [seen EXCEPT ![o] = Exited(JobOf[o])]
    /\ UNCHANGED <<ledgerVars, queueVars, cost, proc, due, published, holder>>

SeeExit(o) == Exited(JobOf[o]) /\ LeaveLoop(o, verdict[o])
SeeDeadline(o) == JobOf[o] \in due /\ LeaveLoop(o, "TIMEOUT")
SeeClosure(o) == LeaveLoop(o, "BUDGET_EXHAUSTED") /\ L!Free /\ ArmBarred(JobOf[o])
HeartbeatLost(o) == LeaveLoop(o, "INTERRUPTED")

\* The slot's cost ends at the confirmed stop; before the deadline it is
\* within the reservation.
CostAt(a) == {e \in Elapsed : a \notin due => e <= resv[a].reserved}

StopTree(o) ==
    LET a == JobOf[o] IN
    /\ Goto(o, {"stopping"}, "stopped")
    /\ proc' = [proc EXCEPT ![a] = "gone"]
    /\ \E e \in CostAt(a) : cost' = [cost EXCEPT ![o] = e]
    /\ L!ProcessGone(a)
    /\ UNCHANGED <<queueVars, verdict, seen, due, published, holder>>

Record(o) ==
    /\ Goto(o, {"stopped"}, "deciding")
    /\ UNCHANGED <<queueVars, jobVars, proc, due, published, holder>>
    /\ L!WorkerTreeStopped(JobOf[o])

\* Mutant of Decide: an exit code of zero is enough.
DecideUnpublished(o) ==
    /\ Goto(o, {"deciding"}, "finishing")
    /\ \/ ~seen[o] /\ UNCHANGED verdict
       \/ seen[o] /\ Judge(o, "TIMEOUT")
       \/ seen[o] /\ JobOf[o] \notin due /\ Judge(o, "SUCCEEDED")
    /\ seen' = [seen EXCEPT ![o] = FALSE]
    /\ UNCHANGED <<ledgerVars, queueVars, cost, proc, due, published, holder>>

\* An exit read before the stop overrides why the loop was left.  The exit code
\* may be the wrapper's own TIMEOUT.  Something may be raised between the
\* publication and the end of its read transaction; that the deadline passes
\* there is left to Settle.
Decide(o) ==
    LET a == JobOf[o] IN
    /\ Goto(o, {"deciding"}, "finishing")
    /\ \/ ~seen[o] /\ UNCHANGED <<verdict, published>>
       \/ seen[o] /\ Judge(o, "TIMEOUT") /\ UNCHANGED published
       \/ seen[o] /\ a \notin due /\ Judge(o, "FAILED") /\ UNCHANGED published
       \/ /\ seen[o] /\ a \notin due /\ L!Free
          /\ Judge(o, "SUCCEEDED") \/ Judge(o, "INTERRUPTED")
          /\ published' = published \cup {a}
    /\ seen' = [seen EXCEPT ![o] = FALSE]
    /\ UNCHANGED <<ledgerVars, queueVars, cost, proc, due, holder>>

\* Any exception of the monitored part, an unconfirmed stop included.
Fails(o) ==
    /\ Goto(o, {"launching", "spawned", "polling", "stopping", "stopped", "deciding"}, "finishing")
    /\ Judge(o, "INTERRUPTED") \/ Judge(o, ErrorVerdict(JobOf[o]))
    /\ seen' = [seen EXCEPT ![o] = FALSE]
    /\ UNCHANGED <<ledgerVars, queueVars, cost, proc, due, published, holder>>

-----------------------------------------------------------------------------
(* Containment, settlement, terminal state: the finally block. *)

\* Mutant of Confirm: settles a confirmed stop without recording it.
ConfirmUnrecorded(o) ==
    LET a == JobOf[o] IN
    /\ Goto(o, {"finishing"}, "settling")
    /\ proc' = [proc EXCEPT ![a] = IF @ = "none" THEN @ ELSE "gone"]
    /\ \E e \in CostAt(a) : cost' = [cost EXCEPT ![o] = e]
    /\ L!ProcessGone(a)
    /\ UNCHANGED <<queueVars, verdict, seen, due, published, holder>>

\* A stop confirmed earlier keeps its cost.  It is recorded if a tree was built.
Confirm(o) ==
    LET a == JobOf[o]
        costs == IF cost[o] = Unmeasured THEN CostAt(a) ELSE {cost[o]}
    IN
    /\ Goto(o, {"finishing"}, IF proc[a] = "none" THEN "settling" ELSE "recording")
    /\ proc' = [proc EXCEPT ![a] = IF @ = "none" THEN @ ELSE "gone"]
    /\ \E e \in costs : cost' = [cost EXCEPT ![o] = e]
    /\ L!ProcessGone(a)
    /\ UNCHANGED <<queueVars, verdict, seen, due, published, holder>>

RecordStop(o) ==
    /\ Goto(o, {"recording"}, "settling")
    /\ UNCHANGED <<queueVars, jobVars, proc, due, published, holder>>
    /\ L!WorkerTreeStopped(JobOf[o])

\* A settlement that differs from the recorded one is refused; the identical
\* replay appends nothing.
Settle(o) ==
    LET a == JobOf[o]
        late == verdict[o] = "SUCCEEDED" /\ (a \in due \/ cost[o] > resv[a].reserved)
        outcome == IF late THEN "TIMEOUT" ELSE verdict[o]
    IN
    /\ UNCHANGED <<queueVars, proc, due, published>>
    /\ \/ /\ Goto(o, {"settling"}, "ending")
          /\ Judge(o, outcome)
          /\ L!Settle(a, cost[o], TRUE, outcome)
          /\ holder' = IF txn'.phase = "idle" THEN holder ELSE o
          /\ UNCHANGED <<seen, cost>>
       \/ /\ L!Free /\ L!Settled(a)
          /\ \/ Leave(o, {"settling"}, "done")
             \/ /\ resv[a].measured /\ resv[a].charged = cost[o]
                /\ Goto(o, {"settling"}, "ending")
                /\ Judge(o, outcome)
                /\ UNCHANGED <<seen, cost>>
          /\ UNCHANGED <<ledgerVars, holder>>

AppendArmClosed(o) ==
    /\ holder = o
    /\ holder' = Nobody
    /\ UNCHANGED <<queueVars, pc, jobVars, proc, due, published>>
    /\ L!AppendArmClosed

\* Mutant of Unconfirmed: leaves the arm open.
UnconfirmedOpen(o) ==
    /\ Goto(o, {"finishing"}, "ending")
    /\ Judge(o, "INTERRUPTED")
    /\ UNCHANGED <<ledgerVars, queueVars, seen, cost, proc, due, published, holder>>

\* A stop nobody could confirm keeps the reservation and closes the arm.  Nobody
\* folds WORKER_STOP_UNCONFIRMED, appended before: to die after it is to die here.
Unconfirmed(o) ==
    /\ Goto(o, {"finishing"}, "ending")
    /\ Judge(o, "INTERRUPTED")
    /\ UNCHANGED <<queueVars, seen, cost, proc, due, published, holder>>
    /\ L!CloseArm(L!Arm(JobOf[o]))

\* Mutant of End: overwrites the terminal state an operator recorded.
EndOver(o) ==
    LET a == JobOf[o] IN
    /\ Leave(o, {"ending"}, "done")
    /\ L!Free
    /\ state' = [state EXCEPT ![a] = verdict[o]]
    /\ UNCHANGED <<runOf, resv, outstanding, charged, closed, retained, receipts,
                   policy, expired, hold, started, stopped, txn, overrun,
                   queueVars, proc, due, published, holder>>

\* A terminal state somebody else appended stays.
End(o) ==
    LET a == JobOf[o] IN
    /\ Leave(o, {"ending"}, "done")
    /\ UNCHANGED <<queueVars, proc, due, published, holder>>
    /\ \/ L!Transition(a, verdict[o])
       \/ L!Free /\ ~L!Allowed(state[a], verdict[o]) /\ UNCHANGED ledgerVars

-----------------------------------------------------------------------------
(* Failures. *)

\* A lock error outside the guarded blocks, or in the cleanup itself, escapes run.
GivesUp(o) ==
    /\ o \in Impatient /\ holder # o
    /\ Leave(o, {"reserved", "claimed", "finishing", "recording", "settling", "ending"}, "done")
    /\ UNCHANGED <<ledgerVars, queueVars, proc, due, published, holder>>

Underway == {"reserved", "queued", "claimed", "launching", "spawned", "polling", "stopping",
             "stopped", "deciding", "finishing", "recording", "settling", "ending"}

OwnerDies(o) ==
    /\ o \in MayDie
    /\ Leave(o, Underway, "dead")
    /\ UNCHANGED <<queueVars, proc, due, published>>
    /\ IF holder = o THEN L!Crash /\ holder' = Nobody ELSE UNCHANGED <<ledgerVars, holder>>

-----------------------------------------------------------------------------
(* The worker: a wrapper that owns a process group. *)

\* The owner holds the control pipe open and its deadline timer runs.
Watched(a) == \E o \in Owners :
    JobOf[o] = a /\ pc[o] \in {"spawned", "polling", "stopping", "stopped", "deciding"}
Attached(a) == Watched(a) \/ \E o \in Owners : JobOf[o] = a /\ pc[o] = "finishing"

Becomes(a, p) ==
    /\ proc' = [proc EXCEPT ![a] = p]
    /\ UNCHANGED <<queueVars, pc, jobVars, due, published, holder>>

\* The command ended and the wrapper with it; descendants may run on.
Exits(a) ==
    /\ proc[a] = "working"
    /\ \/ Becomes(a, "gone") /\ L!ProcessGone(a)
       \/ Becomes(a, "orphans") /\ UNCHANGED ledgerVars

\* The wrapper's own timer, and the owner's one while it monitors.
Fuse(a) ==
    /\ a \in due
    /\ proc[a] = "working" \/ (Watched(a) /\ Running(a))
    /\ Becomes(a, "gone")
    /\ L!ProcessGone(a)

\* End of file on the control pipe: no GO, or stop the group.
PipeClosed(a) ==
    /\ ~Attached(a)
    /\ proc[a] \in {"waiting", "working"}
    /\ Becomes(a, "gone")
    /\ L!ProcessGone(a)

OrphansEnd(a) ==
    /\ proc[a] = "orphans"
    /\ Becomes(a, "gone")
    /\ L!ProcessGone(a)

Lost(a) == \A o \in Owners : JobOf[o] = a => pc[o] \in {"idle", "done", "dead"}

\* Read only while a call or a worker of the attempt goes on.
Deadline(a) ==
    /\ Q!Claimed(a)
    /\ ~Lost(a) \/ Running(a)
    /\ due' = due \cup {a}
    /\ UNCHANGED <<ledgerVars, queueVars, pc, jobVars, proc, published, holder>>

-----------------------------------------------------------------------------
(* The operator. *)

Reconcile(a) ==
    /\ holder' = Operator
    /\ UNCHANGED <<queueVars, pc, jobVars, proc, due, published>>
    /\ L!RecoverHeld(a) \/ L!RecoverSettled(a)

ReconcileAppends ==
    /\ holder = Operator
    /\ UNCHANGED <<queueVars, pc, jobVars, proc, due, published>>
    /\ \/ L!AppendRecoverySettle \/ L!AppendRecoveryClosed
       \/ L!AppendInterrupted \/ L!AppendArmClosed
    /\ holder' = IF txn'.phase = "idle" THEN Nobody ELSE Operator

OperatorDies ==
    /\ holder = Operator
    /\ RecoveryDies = "always" \/ (RecoveryDies = "lost" /\ Lost(txn.attempt))
    /\ holder' = Nobody
    /\ UNCHANGED <<queueVars, pc, jobVars, proc, due, published>>
    /\ L!Crash

Govern ==
    /\ UNCHANGED <<pc, jobVars, proc, due, published, holder>>
    /\ \/ /\ UNCHANGED queueVars
          /\ \/ \E m \in Arms, ap \in Approvals : L!ContinueArm(m, ap)
             \/ \E ap \in Approvals : L!ExpireApproval(ap)
             \/ MayHold /\ L!PlaceHold
       \/ /\ L!Free
          /\ UNCHANGED ledgerVars
          /\ \E pair \in Permissible : Q!ActivatePolicy(pair[1], pair[2])

-----------------------------------------------------------------------------
\* Steps a running owner takes without help from anybody.
Progress(o) ==
    \/ Enqueue(o) \/ Claim(o) \/ Rejected(o)
    \/ Launch(o) \/ Spawn(o) \/ StartWorker(o) \/ LaunchRefused(o)
    \/ SeeExit(o) \/ SeeDeadline(o) \/ SeeClosure(o)
    \/ StopTree(o) \/ Record(o) \/ Decide(o)
    \/ Confirm(o) \/ RecordStop(o) \/ Settle(o) \/ AppendArmClosed(o)
    \/ Unconfirmed(o) \/ End(o)

Disturbance(o) ==
    \/ Reserve(o) \/ PrepareFails(o) \/ LosesPatience(o)
    \/ HeartbeatLost(o) \/ Fails(o) \/ GivesUp(o) \/ OwnerDies(o)

WorkerStep(a) == Exits(a) \/ Fuse(a) \/ PipeClosed(a) \/ OrphansEnd(a) \/ Deadline(a)

Next ==
    \/ \E o \in Owners : Progress(o) \/ Disturbance(o)
    \/ \E a \in Attempts : Submit(a) \/ WorkerStep(a) \/ Reconcile(a)
    \/ ReconcileAppends \/ OperatorDies \/ Govern

Spec == Init /\ [][Next]_vars

\* Owners run, deadlines pass, timers fire and pipes close; an operator
\* reconciles attempts that lost their owner.  Nothing makes a command or
\* its descendants end by themselves.
Fairness ==
    /\ \A o \in Owners : WF_vars(Progress(o))
    /\ \A a \in Attempts :
          /\ WF_vars(Deadline(a)) /\ WF_vars(Fuse(a)) /\ WF_vars(PipeClosed(a))
          /\ WF_vars(Lost(a) /\ Reconcile(a))
    /\ WF_vars(ReconcileAppends)

FairSpec == Spec /\ Fairness

-----------------------------------------------------------------------------
(* Safety. *)

\* While anything a worker started can still run, its reservation is neither
\* settled nor unclaimed: the slot and the budget it uses stay its own,
\* across duplicate owners, recovery, lost owners and unconfirmed stops.
WorkIsFunded ==
    \A a \in Attempts :
        proc[a] \in {"working", "orphans"} => L!Held(a) /\ Q!Claimed(a)

\* So no more workers run at once than the machine has slots for.
WorkersWithinSlots ==
    \A r \in Resources :
        Cardinality({a \in Attempts : /\ proc[a] \in {"working", "orphans"}
                                      /\ ResourceOf[runOf[a]] = r
                                      /\ a \notin Sharing /\ ~Q!Permitted(a)}) <= Slots[r]

\* A success is whole: published, stopped on record, settled at a measured
\* cost within its reservation.
SuccessIsWhole ==
    \A a \in Attempts : state[a] = "SUCCEEDED" =>
        /\ a \in published
        /\ a \in stopped /\ ~Running(a)
        /\ resv[a].phase = "settled" /\ resv[a].measured
        /\ resv[a].charged <= resv[a].reserved

\* A measured cost is released only after the stop of a launched worker was
\* confirmed and recorded.
StopPrecedesRelease ==
    \A a \in Attempts :
        a \in started /\ L!Settled(a) => a \in stopped /\ ~Running(a)

\* An attempt that ended without a settlement leaves its arm closed until
\* the unknown cost is reconciled.
UnsettledEndClosesArm ==
    \A a \in Attempts :
        state[a] \in L!Terminal /\ L!Held(a) => L!Arm(a) \in closed

(* Action properties. *)

\* A worker is launched at most once for an attempt, whoever calls run.
LaunchedOnce ==
    [][\A a \in Attempts :
          /\ proc[a] # "none" => proc'[a] # "waiting" \/ proc[a] = "waiting"
          /\ proc[a] # "working" /\ proc'[a] = "working" =>
                proc[a] = "waiting" /\ state[a] = "RUNNING"]_vars

\* No arm reopens while a worker of one of its attempts may run.
NoReopenOverWork ==
    [][\A m \in closed \ closed' : \A a \in Attempts :
          runOf[a] # NoRun /\ L!Arm(a) = m => proc[a] \notin {"working", "orphans"}]_vars

(* Refinement: the composition is a behaviour of both authorities. *)

ImplementsLedger == L!Spec
ImplementsQueue == Q!Spec

(* Liveness. *)

Returned(o) == pc[o] \in {"idle", "done", "dead"}

\* Descendants that outlived both their wrapper and their owner.
Strays(a) == proc[a] = "orphans" /\ ~Attached(a)

\* Every call of run returns, unless strays of a lost owner hold a slot.
EveryCallReturns ==
    \A o \in Owners : ~Returned(o) ~> Returned(o) \/ \E a \in Attempts : Strays(a)
=============================================================================
