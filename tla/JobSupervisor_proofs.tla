------------------------ MODULE JobSupervisor_proofs ------------------------
(* Proofs about JobSupervisor, for any calls, attempts, costs and deaths.   *)
EXTENDS JobSupervisor, FiniteSetTheorems, TLAPS

(* The theorems about the two authorities, read over this module's state.   *)
LP == INSTANCE ArmLedger_proofs WITH alive <- Alive
QP == INSTANCE ComputeQueue_proofs WITH funded <- Funded

-----------------------------------------------------------------------------
(* The two instances of the ledger have the same steps. *)

LEMMA SameAssumptions ==
    /\ LP!ArmOfAssumption /\ LP!CostAssumption /\ LP!OutcomeAssumption /\ LP!NullAssumption
BY LedgerAssumption, CallAssumption
   DEF LP!ArmOfAssumption, LP!CostAssumption, LP!OutcomeAssumption, LP!NullAssumption

LEMMA SameInit == L!Init => LP!Init
BY DEF L!Init, LP!Init, L!NoReservation, LP!NoReservation, L!Idle, LP!Idle

LEMMA SameSteps == [L!Next]_L!vars => [LP!Next]_LP!vars
<1> USE DEF L!attemptVars, LP!attemptVars, L!budgetVars, LP!budgetVars, L!armVars, LP!armVars,
            L!workerVars, LP!workerVars, L!Free, LP!Free, L!Idle, LP!Idle, L!Registered, LP!Registered,
            L!Held, LP!Held, L!Settled, LP!Settled, L!Live, LP!Live, L!Arm, LP!Arm, L!Terminal, LP!Terminal,
            L!Soft, LP!Soft
<1>1. ASSUME NEW a \in Attempts, L!AttemptStep(a) PROVE LP!Next
  <2>1. ASSUME NEW r \in Runs, L!Register(a, r) PROVE LP!Register(a, r)
    <3>1. L!AttemptsOf(r) = LP!AttemptsOf(r)
        BY DEF L!AttemptsOf, LP!AttemptsOf
    <3>2. L!MayTry(r) => LP!MayTry(r)
        BY <3>1 DEF L!MayTry, LP!MayTry, L!Cardinality, LP!Cardinality
    <3> QED
        BY <2>1, <3>2 DEF L!Register, LP!Register
  <2>2. ASSUME NEW r \in Runs, L!NewAttempt(a, r) PROVE LP!NewAttempt(a, r)
      BY <2>1, <2>2 DEF L!NewAttempt, LP!NewAttempt
  <2>3. ASSUME NEW r \in Runs, L!RecordDeclaredRefusal(a, r) PROVE LP!RecordDeclaredRefusal(a, r)
      BY <2>1, <2>3 DEF L!RecordDeclaredRefusal, LP!RecordDeclaredRefusal, L!AttemptsOf, LP!AttemptsOf
  <2>4. ASSUME NEW s \in Outcomes \cup {"RUNNING"}, L!Transition(a, s) PROVE LP!Transition(a, s)
      BY <2>4 DEF L!Transition, LP!Transition, L!Allowed, LP!Allowed
  <2> QED
      BY <1>1, <2>2, <2>3, <2>4 DEF L!AttemptStep, LP!Next, LP!AttemptStep
<1>2. ASSUME NEW a \in Attempts, L!BudgetStep(a) PROVE LP!Next
  <2> USE DEF L!MayReserve, LP!MayReserve, L!Executable, LP!Executable, L!Fundable, LP!Fundable,
              L!Remaining, LP!Remaining, L!Committed, LP!Committed, L!NoReservation, LP!NoReservation
  <2>1. CASE L!ReserveDeclared(a)
    <3>1. LP!ReserveDeclared(a)
        BY <2>1 DEF L!ReserveDeclared, LP!ReserveDeclared
    <3> QED
        BY <3>1 DEF LP!Next, LP!BudgetStep
  <2>2. ASSUME NEW ms \in Requests, L!Reserve(a, ms) PROVE LP!Reserve(a, ms)
      BY <2>2 DEF L!Reserve, LP!Reserve
  <2>3. ASSUME NEW ms \in Requests, L!RefuseReserve(a, ms) PROVE LP!RefuseReserve(a, ms)
      BY <2>3 DEF L!RefuseReserve, LP!RefuseReserve
  <2>4. ASSUME NEW e \in Elapsed, NEW measured \in BOOLEAN, NEW s \in Outcomes, L!Settle(a, e, measured, s)
        PROVE  LP!Settle(a, e, measured, s)
      BY <2>4 DEF L!Settle, LP!Settle, L!SettleEvent, LP!SettleEvent, L!ClosesArm, LP!ClosesArm,
         L!ClosureDue, LP!ClosureDue
  <2>5. CASE L!RecoverHeld(a) \/ L!RecoverSettled(a)
    <3>1. LP!RecoverHeld(a) \/ LP!RecoverSettled(a)
        BY <2>5 DEF L!RecoverHeld, LP!RecoverHeld, L!RecoverSettled, LP!RecoverSettled,
           L!PossiblyLaunched, LP!PossiblyLaunched
    <3> QED
        BY <3>1 DEF LP!Next, LP!BudgetStep
  <2> QED
      BY <1>2, <2>1, <2>2, <2>3, <2>4, <2>5 DEF L!BudgetStep, LP!Next, LP!BudgetStep
<1>3. ASSUME NEW a \in Attempts, L!WorkerStep(a) PROVE LP!Next
  <2>1. LP!WorkerStep(a)
      BY <1>3 DEF L!WorkerStep, LP!WorkerStep, L!ProcessSpawned, LP!ProcessSpawned,
         L!WorkerStarted, LP!WorkerStarted, L!ProcessGone, LP!ProcessGone,
         L!WorkerTreeStopped, LP!WorkerTreeStopped
  <2> QED
      BY <2>1 DEF LP!Next
<1>4. ASSUME NEW m \in Arms, L!ArmStep(m) PROVE LP!Next
  <2>1. L!CloseArm(m) => LP!CloseArm(m)
      BY DEF L!CloseArm, LP!CloseArm
  <2>2. ASSUME NEW ap \in Approvals, L!ContinueArm(m, ap) PROVE LP!ContinueArm(m, ap)
      BY <2>2 DEF L!ContinueArm, LP!ContinueArm, L!Costs, LP!Costs
  <2> QED
      BY <1>4, <2>1, <2>2 DEF L!ArmStep, LP!ArmStep, LP!Next
<1>5. CASE L!AppendNext
  <2>1. L!AppendRecoverySettle => LP!AppendRecoverySettle
      BY DEF L!AppendRecoverySettle, LP!AppendRecoverySettle, L!SettleEvent, LP!SettleEvent,
         L!ClosesArm, LP!ClosesArm
  <2>2. LP!AppendNext
      BY <1>5, <2>1 DEF L!AppendNext, LP!AppendNext, L!AppendRefusal, LP!AppendRefusal,
         L!AppendArmClosed, LP!AppendArmClosed, L!AppendRecoveryClosed, LP!AppendRecoveryClosed,
         L!AppendInterrupted, LP!AppendInterrupted
  <2> QED
      BY <2>2 DEF LP!Next
<1>6. ASSUME NEW ap \in Approvals, L!ExpireApproval(ap) PROVE LP!Next
  <2>1. LP!ExpireApproval(ap)
      BY <1>6 DEF L!ExpireApproval, LP!ExpireApproval
  <2> QED
      BY <2>1 DEF LP!Next
<1>7. CASE L!PlaceHold \/ L!Crash
  <2>1. LP!PlaceHold \/ LP!Crash
      BY <1>7 DEF L!PlaceHold, LP!PlaceHold, L!Crash, LP!Crash
  <2> QED
      BY <2>1 DEF LP!Next
<1>8. CASE UNCHANGED L!vars
    BY <1>8 DEF L!vars, LP!vars
<1> QED
    BY <1>1, <1>2, <1>3, <1>4, <1>5, <1>6, <1>7, <1>8 DEF L!Next

-----------------------------------------------------------------------------
(* What a call remembers is typed: it reports an outcome, and once a stop   *)
(* was confirmed or the work withdrawn, it knows a cost.                    *)

Stages == {"idle", "reserved", "queued", "claimed", "launching", "spawned", "polling",
           "stopping", "stopped", "deciding", "finishing", "recording", "settling", "ending",
           "done", "dead"}
Processes == {"none", "waiting", "working", "orphans", "gone"}
Measured == {"stopped", "deciding", "recording", "settling"}

CallsTyped ==
    /\ pc \in [Owners -> Stages]
    /\ verdict \in [Owners -> Outcomes]
    /\ cost \in [Owners -> Elapsed \cup {Unmeasured}]
    /\ proc \in [Attempts -> Processes]
    /\ \A o \in Owners : pc[o] \in Measured => cost[o] \in Elapsed

LEMMA OutcomesKnown ==
    /\ {"SUCCEEDED", "FAILED", "INTERRUPTED", "TIMEOUT", "BUDGET_EXHAUSTED",
        "PREFLIGHT_FAILED"} \subseteq Outcomes
    /\ \A o \in Owners : JobOf[o] \in Attempts /\ Ask[o] \in Requests
BY CallAssumption

LEMMA InitTyped == Init => CallsTyped
BY CallAssumption DEF Init, CallsTyped, Stages, Processes, Measured, Unmeasured

LEMMA StepTyped == CallsTyped /\ [Next]_vars => CallsTyped'
<1> SUFFICES ASSUME CallsTyped, [Next]_vars PROVE CallsTyped'
    OBVIOUS
<1> USE OutcomesKnown, CallAssumption DEF CallsTyped, Measured
<1>1. ASSUME NEW o \in Owners, Progress(o) PROVE CallsTyped'
  <2> USE DEF Goto, Leave, Judge
  <2>1. CASE Enqueue(o) \/ Claim(o) \/ Launch(o) \/ Record(o) \/ RecordStop(o)
      BY <2>1 DEF Enqueue, Claim, Launch, Record, RecordStop, jobVars, Stages
  <2>2. CASE Rejected(o)
      BY <2>2 DEF Rejected, Withdraw, Stages
  <2>3. CASE Spawn(o)
      BY <2>3 DEF Spawn, jobVars, Stages, Processes
  <2>4. CASE StartWorker(o) \/ LaunchRefused(o)
      BY <2>4 DEF StartWorker, LaunchRefused, ErrorVerdict, Stages, Processes
  <2>5. CASE SeeExit(o) \/ SeeDeadline(o) \/ SeeClosure(o)
      BY <2>5 DEF SeeExit, SeeDeadline, SeeClosure, LeaveLoop, Exited, Stages
  <2>6. CASE StopTree(o)
      BY <2>6 DEF StopTree, CostAt, Stages, Processes
  <2>7. CASE Decide(o)
      BY <2>7 DEF Decide, Stages
  <2>8. CASE Confirm(o)
      BY <2>8 DEF Confirm, CostAt, Stages, Processes
  <2>9. CASE Settle(o)
    <3>1. \E v \in Outcomes : verdict' = [verdict EXCEPT ![o] = v]
        BY <2>9 DEF Settle
    <3>2. cost' = cost \/ cost' = [cost EXCEPT ![o] = Unmeasured]
        BY <2>9 DEF Settle
    <3>3. pc' = [pc EXCEPT ![o] = "ending"] \/ pc' = [pc EXCEPT ![o] = "done"]
        BY <2>9 DEF Settle
    <3>4. proc' = proc
        BY <2>9 DEF Settle
    <3> QED
        BY <3>1, <3>2, <3>3, <3>4 DEF Stages
  <2>10. CASE AppendArmClosed(o)
      BY <2>10 DEF AppendArmClosed, jobVars
  <2>11. CASE Unconfirmed(o)
      BY <2>11 DEF Unconfirmed, Stages
  <2>12. CASE End(o)
      BY <2>12 DEF End, Stages
  <2> QED
      BY <1>1, <2>1, <2>2, <2>3, <2>4, <2>5, <2>6, <2>7, <2>8, <2>9, <2>10, <2>11, <2>12 DEF Progress
<1>2. ASSUME NEW o \in Owners, Disturbance(o) PROVE CallsTyped'
  <2> USE DEF Goto, Leave, Judge
  <2>1. CASE Reserve(o)
      BY <2>1 DEF Reserve, jobVars, Stages
  <2>2. CASE PrepareFails(o) \/ LosesPatience(o)
      BY <2>2 DEF PrepareFails, LosesPatience, Withdraw, Stages
  <2>3. CASE HeartbeatLost(o)
      BY <2>3 DEF HeartbeatLost, LeaveLoop, Exited, Stages
  <2>4. CASE Fails(o)
      BY <2>4 DEF Fails, ErrorVerdict, Stages
  <2>5. CASE GivesUp(o) \/ OwnerDies(o)
    <3>1. /\ verdict' = [verdict EXCEPT ![o] = "FAILED"]
          /\ cost' = [cost EXCEPT ![o] = Unmeasured]
          /\ pc' = [pc EXCEPT ![o] = "done"] \/ pc' = [pc EXCEPT ![o] = "dead"]
          /\ proc' = proc
        BY <2>5 DEF GivesUp, OwnerDies
    <3> QED
        BY <3>1 DEF Stages
  <2> QED
      BY <1>2, <2>1, <2>2, <2>3, <2>4, <2>5 DEF Disturbance
<1>3. ASSUME NEW a \in Attempts, WorkerStep(a) PROVE CallsTyped'
    BY <1>3 DEF WorkerStep, Exits, Fuse, PipeClosed, OrphansEnd, Becomes, Deadline, jobVars, Processes
<1>4. ASSUME NEW a \in Attempts, Submit(a) \/ Reconcile(a) PROVE CallsTyped'
    BY <1>4 DEF Submit, Reconcile, jobVars
<1>5. CASE ReconcileAppends \/ OperatorDies \/ Govern
    BY <1>5 DEF ReconcileAppends, OperatorDies, Govern, jobVars
<1>6. CASE UNCHANGED vars
    BY <1>6 DEF vars, jobVars
<1> QED
    BY <1>1, <1>2, <1>3, <1>4, <1>5, <1>6 DEF Next

-----------------------------------------------------------------------------
(* The composition implements the ledger. *)

\* Who was called with an attempt found it registered.
CallsRegistered == \A o \in Owners : pc[o] # "idle" => L!Registered(JobOf[o])

Typed == CallsTyped /\ CallsRegistered /\ LP!Shape

LEMMA HasRun ==
    ASSUME LP!Shape, NEW a \in Attempts
    PROVE  /\ L!Registered(a) <=> runOf[a] \in Runs
           /\ resv[a].phase # "none" => L!Registered(a)
BY DEF LP!Shape, LP!RegisteredHasRun, LP!ReservedIsRegistered, LP!Registered, L!Registered

LEMMA StepLedger == Typed /\ [Next]_vars => [L!Next]_L!vars
<1> SUFFICES ASSUME Typed, [Next]_vars PROVE [L!Next]_L!vars
    OBVIOUS
<1>0. CallsTyped /\ CallsRegistered /\ LP!Shape
    BY DEF Typed
<1> USE <1>0, OutcomesKnown, CallAssumption DEF CallsTyped, Measured, Goto, Leave, Judge
<1>n. ASSUME UNCHANGED <<ledgerVars, proc>> PROVE UNCHANGED L!vars
    BY <1>n DEF L!vars, L!attemptVars, L!budgetVars, L!armVars, L!workerVars,
       ledgerVars, attemptVars, Alive, Running
<1>1. ASSUME NEW o \in Owners, Progress(o) PROVE [L!Next]_L!vars
  <2>1. CASE Enqueue(o) \/ Claim(o) \/ Rejected(o) \/ LaunchRefused(o)
      BY <2>1, <1>n DEF Enqueue, Claim, Rejected, Withdraw, LaunchRefused
  <2>2. CASE SeeExit(o) \/ SeeDeadline(o) \/ SeeClosure(o) \/ Decide(o)
      BY <2>2, <1>n DEF SeeExit, SeeDeadline, SeeClosure, LeaveLoop, Decide
  <2>3. CASE Launch(o)
    <3>1. L!Transition(JobOf[o], "RUNNING") => L!Next
        BY DEF L!Next, L!AttemptStep
    <3> QED
        BY <2>3, <3>1, <1>n DEF Launch
  <2>4. CASE Spawn(o) \/ StartWorker(o) \/ StopTree(o) \/ Record(o) \/ Confirm(o) \/ RecordStop(o)
    <3>1. L!WorkerStep(JobOf[o])
        BY <2>4 DEF Spawn, StartWorker, StopTree, Record, Confirm, RecordStop, L!WorkerStep
    <3> QED
        BY <3>1 DEF L!Next
  <2>5. CASE Settle(o)
    <3>1. CASE UNCHANGED ledgerVars
        BY <2>5, <3>1, <1>n DEF Settle
    <3>2. ASSUME NEW outcome \in Outcomes, pc[o] = "settling", L!Settle(JobOf[o], cost[o], TRUE, outcome)
          PROVE  L!Next
        BY <3>2 DEF L!Next, L!BudgetStep
    <3>3. \/ UNCHANGED ledgerVars
          \/ \E outcome \in Outcomes : L!Settle(JobOf[o], cost[o], TRUE, outcome)
        BY <2>5 DEF Settle
    <3>4. pc[o] = "settling"
        BY <2>5 DEF Settle
    <3> QED
        BY <3>1, <3>2, <3>3, <3>4
  <2>6. CASE AppendArmClosed(o)
      BY <2>6 DEF AppendArmClosed, L!Next, L!AppendNext
  <2>7. CASE Unconfirmed(o)
    <3>1. L!Arm(JobOf[o]) \in Arms
        BY <2>7, HasRun, LedgerAssumption DEF Unconfirmed, CallsRegistered, L!Arm
    <3> QED
        BY <2>7, <3>1 DEF Unconfirmed, L!Next, L!ArmStep
  <2>8. CASE End(o)
    <3>1. ASSUME NEW s \in Outcomes, L!Transition(JobOf[o], s) PROVE L!Next
        BY <3>1 DEF L!Next, L!AttemptStep
    <3> QED
        BY <2>8, <3>1, <1>n DEF End
  <2> QED
      BY <1>1, <2>1, <2>2, <2>3, <2>4, <2>5, <2>6, <2>7, <2>8 DEF Progress
<1>2. ASSUME NEW o \in Owners, Disturbance(o) PROVE [L!Next]_L!vars
  <2>1. CASE Reserve(o)
      BY <2>1, <1>n DEF Reserve, L!Next, L!BudgetStep
  <2>2. CASE PrepareFails(o) \/ LosesPatience(o) \/ HeartbeatLost(o) \/ Fails(o) \/ GivesUp(o)
      BY <2>2, <1>n DEF PrepareFails, LosesPatience, Withdraw, HeartbeatLost, LeaveLoop, Fails, GivesUp
  <2>3. CASE OwnerDies(o)
      BY <2>3, <1>n DEF OwnerDies, L!Next
  <2> QED
      BY <1>2, <2>1, <2>2, <2>3 DEF Disturbance
<1>3. ASSUME NEW a \in Attempts, WorkerStep(a) PROVE [L!Next]_L!vars
  <2>1. CASE L!ProcessGone(a)
      BY <2>1 DEF L!Next, L!WorkerStep
  <2>2. CASE UNCHANGED ledgerVars /\ proc[a] = "working" /\ Becomes(a, "orphans")
    <3>1. Alive' = Alive
        BY <2>2 DEF Alive, Running, Becomes
    <3> QED
        BY <2>2, <3>1 DEF L!vars, L!attemptVars, L!budgetVars, L!armVars, L!workerVars,
           ledgerVars, attemptVars
  <2>3. CASE Deadline(a)
      BY <2>3, <1>n DEF Deadline
  <2> QED
      BY <1>3, <2>1, <2>2, <2>3 DEF WorkerStep, Exits, Fuse, PipeClosed, OrphansEnd
<1>4. ASSUME NEW a \in Attempts, Submit(a) \/ Reconcile(a) PROVE [L!Next]_L!vars
    BY <1>4 DEF Submit, Reconcile, L!Next, L!AttemptStep, L!BudgetStep
<1>5. CASE ReconcileAppends \/ OperatorDies
    BY <1>5 DEF ReconcileAppends, OperatorDies, L!Next, L!AppendNext
<1>6. CASE Govern
    BY <1>6, <1>n DEF Govern, L!Next, L!ArmStep
<1>7. CASE UNCHANGED vars
    BY <1>7, <1>n DEF vars
<1> QED
    BY <1>1, <1>2, <1>3, <1>4, <1>5, <1>6, <1>7 DEF Next

\* A call begins with its reservation.
LEMMA CallBegins ==
    ASSUME CallsTyped, [Next]_vars, NEW o \in Owners, pc[o] = "idle", pc'[o] # "idle"
    PROVE  Reserve(o)
<1> USE DEF CallsTyped, Goto, Leave
<1>1. ASSUME NEW p \in Owners, Progress(p) PROVE pc'[o] = pc[o]
    BY <1>1 DEF Progress, Enqueue, Claim, Rejected, Withdraw, Launch, Spawn, StartWorker,
       LaunchRefused, SeeExit, SeeDeadline, SeeClosure, LeaveLoop, StopTree, Record, Decide,
       Confirm, RecordStop, Settle, AppendArmClosed, Unconfirmed, End
<1>2. ASSUME NEW p \in Owners, Disturbance(p), ~Reserve(p) PROVE pc'[o] = pc[o]
    BY <1>2 DEF Disturbance, PrepareFails, LosesPatience, Withdraw, HeartbeatLost, LeaveLoop,
       Fails, GivesUp, OwnerDies, Underway
<1>3. ASSUME NEW p \in Owners, Reserve(p), p # o PROVE pc'[o] = pc[o]
    BY <1>3 DEF Reserve
<1>4. ASSUME NEW a \in Attempts, WorkerStep(a) \/ Submit(a) \/ Reconcile(a) PROVE pc'[o] = pc[o]
    BY <1>4 DEF WorkerStep, Exits, Fuse, PipeClosed, OrphansEnd, Becomes, Deadline, Submit, Reconcile
<1>5. CASE ReconcileAppends \/ OperatorDies \/ Govern \/ UNCHANGED vars
    BY <1>5 DEF ReconcileAppends, OperatorDies, Govern, vars
<1> QED
    BY <1>1, <1>2, <1>3, <1>4, <1>5 DEF Next

LEMMA LedgerMoves == Typed /\ [Next]_vars => [LP!Next]_LP!vars
BY StepLedger, SameSteps

\* Registered attempts and their cells stay what they are.
LEMMA CellStays ==
    ASSUME Typed, [Next]_vars, NEW a \in Attempts, L!Registered(a)
    PROVE  runOf'[a] = runOf[a] /\ L!Registered(a)'
<1>1. LP!Shape /\ LP!Shape' /\ [LP!Next]_LP!vars
    BY LedgerMoves, LP!StepShape, SameAssumptions DEF Typed
<1>2. LP!Registered(a)
    BY DEF LP!Registered, L!Registered
<1>3. runOf'[a] = runOf[a]
    BY <1>1, <1>2, LP!CellKept, SameAssumptions
<1>4. runOf[a] \in Runs
    BY <1>1, HasRun
<1>5. L!Registered(a)'
    BY <1>1, <1>3, <1>4 DEF LP!Shape, LP!RegisteredHasRun, LP!Registered, L!Registered
<1> QED
    BY <1>3, <1>5

LEMMA InitAll == Init => Typed
<1> SUFFICES ASSUME Init PROVE Typed
    OBVIOUS
<1>1. LP!Shape
    BY SameInit, LP!InitShape, SameAssumptions DEF Init
<1>2. CallsRegistered
    BY DEF Init, CallsRegistered
<1> QED
    BY <1>1, <1>2, InitTyped DEF Typed

LEMMA StepAll == Typed /\ [Next]_vars => Typed'
<1> SUFFICES ASSUME Typed, [Next]_vars PROVE Typed'
    OBVIOUS
<1>1. CallsTyped' /\ LP!Shape'
    BY StepTyped, LedgerMoves, LP!StepShape, SameAssumptions DEF Typed
<1>2. ASSUME NEW o \in Owners, pc'[o] # "idle" PROVE L!Registered(JobOf[o])'
  <2>1. JobOf[o] \in Attempts
      BY OutcomesKnown
  <2>2. CASE pc[o] = "idle"
    <3>1. Reserve(o)
        BY <1>2, <2>2, CallBegins DEF Typed
    <3>2. L!Registered(JobOf[o])
        BY <2>1, <3>1, HasRun DEF Reserve, L!Reserve, L!RefuseReserve, L!ReserveDeclared,
           L!MayReserve, L!Held, Typed
    <3> QED
        BY <2>1, <3>2, CellStays
  <2>3. CASE pc[o] # "idle"
      BY <2>1, <2>3, CellStays DEF Typed, CallsRegistered
  <2> QED
      BY <2>2, <2>3
<1> QED
    BY <1>1, <1>2 DEF Typed, CallsRegistered

\* Every step of owners, workers, timers and operators is a step of the budget
\* authority or leaves it alone.
THEOREM LedgerIsImplemented == Spec => ImplementsLedger
<1>1. Init => L!Init
    BY DEF Init
<1>2. Spec => L!Init /\ [][L!Next]_L!vars
    BY <1>1, InitAll, StepAll, StepLedger, PTL DEF Spec
<1> QED
    BY <1>2 DEF ImplementsLedger, L!Spec

-----------------------------------------------------------------------------
(* One call per queue entry, one wrapper per claim. *)

\* Stages in which the call that enqueued an attempt drives it.
Driving == {"queued", "claimed", "launching", "spawned", "polling", "stopping", "stopped",
            "deciding", "finishing", "recording"}
Quiet == {"idle", "done", "dead"}

QueueTyped == queue \in Seq(Attempts) /\ slot \in [Attempts -> Nat \cup {NoSlot}]

\* Calls in line: who drives an attempt enqueued it, nobody else did, and only
\* the driver of a queued attempt claims its slot.
InLine ==
    /\ \A a \in Attempts :
          /\ Q!Claimed(a) => Q!Queued(a)
          /\ Q!Queued(a) => resv[a].phase # "none"
    /\ \A o \in Owners :
          /\ pc[o] \in Driving => Q!Queued(JobOf[o])
          /\ pc[o] \in Driving \ {"queued"} => Q!Claimed(JobOf[o])
          /\ pc[o] = "queued" => ~Q!Claimed(JobOf[o])
          /\ pc[o] \notin Quiet => resv[JobOf[o]].phase # "none"
    /\ \A o, p \in Owners :
          pc[o] \in Driving /\ pc[p] \in Driving /\ JobOf[o] = JobOf[p] => o = p

Lined == Typed /\ QueueTyped /\ InLine

LEMMA PhaseKept ==
    ASSUME Typed, [Next]_vars, NEW a \in Attempts, resv[a].phase # "none"
    PROVE  resv'[a].phase # "none"
<1>1. LP!Shape /\ [LP!Next]_LP!vars
    BY LedgerMoves DEF Typed
<1>2. UNCHANGED LP!budgetVars \/ LP!ReservesSomething \/ LP!SettlesSomething
    BY <1>1, LP!CostMoves, SameAssumptions
<1>3. resv \in [Attempts -> LP!Reservation]
    BY <1>1 DEF LP!Shape, LP!TypeOK
<1>4. CASE LP!ReservesSomething
    BY <1>3, <1>4 DEF LP!ReservesSomething, LP!Reserve, LP!MayReserve
<1>5. CASE LP!SettlesSomething
  <2>1. PICK b \in Attempts, e \in Nat, measured \in BOOLEAN, s \in LP!Terminal :
            LP!SettleEvent(b, e, measured, s)
      BY <1>5 DEF LP!SettlesSomething
  <2>2. \A c \in Attempts \ {b} : resv'[c] = resv[c]
      BY <1>3, <2>1 DEF LP!SettleEvent
  <2>3. resv'[b].phase = "settled"
      BY <1>3, <2>1 DEF LP!SettleEvent, LP!Reservation
  <2> QED
      BY <2>2, <2>3
<1> QED
    BY <1>2, <1>4, <1>5 DEF LP!budgetVars

\* A step of a call that is past its reservation and neither enqueues nor claims.
Onward(o) ==
    /\ pc[o] \notin Quiet
    /\ \E s \in Stages \ {"idle", "reserved", "queued"} :
          /\ pc' = [pc EXCEPT ![o] = s]
          /\ s \in Driving => pc[o] \in Driving \ {"queued"}

LEMMA CallMoves ==
    ASSUME CallsTyped, [Next]_vars
    PROVE  \/ \E o \in Owners : Reserve(o)
           \/ \E o \in Owners : Enqueue(o) /\ Q!Enqueue(JobOf[o])
           \/ \E o \in Owners : Claim(o)
           \/ UNCHANGED <<queue, slot>> /\ (UNCHANGED pc \/ \E o \in Owners : Onward(o))
<1> USE DEF CallsTyped, Goto, Leave, Judge, queueVars
<1>1. ASSUME NEW o \in Owners, Progress(o), ~Claim(o), ~(Enqueue(o) /\ Q!Enqueue(JobOf[o]))
      PROVE  UNCHANGED <<queue, slot>> /\ (UNCHANGED pc \/ Onward(o))
  <2> USE DEF Onward, Stages, Driving, Quiet
  <2>1. CASE Enqueue(o) \/ Rejected(o)
      BY <1>1, <2>1 DEF Enqueue, Rejected, Withdraw
  <2>2. CASE Launch(o) \/ Spawn(o) \/ StartWorker(o) \/ LaunchRefused(o)
      BY <2>2 DEF Launch, Spawn, StartWorker, LaunchRefused
  <2>3. CASE SeeExit(o) \/ SeeDeadline(o) \/ SeeClosure(o)
      BY <2>3 DEF SeeExit, SeeDeadline, SeeClosure, LeaveLoop
  <2>4. CASE StopTree(o) \/ Record(o) \/ Decide(o) \/ Confirm(o) \/ RecordStop(o)
      BY <2>4 DEF StopTree, Record, Decide, Confirm, RecordStop
  <2>5. CASE Settle(o)
    <3>1. /\ pc[o] = "settling" /\ UNCHANGED <<queue, slot>>
          /\ pc' = [pc EXCEPT ![o] = "ending"] \/ pc' = [pc EXCEPT ![o] = "done"]
        BY <2>5 DEF Settle
    <3> QED
        BY <3>1
  <2>6. CASE AppendArmClosed(o) \/ Unconfirmed(o) \/ End(o)
      BY <2>6 DEF AppendArmClosed, Unconfirmed, End
  <2> QED
      BY <1>1, <2>1, <2>2, <2>3, <2>4, <2>5, <2>6 DEF Progress
<1>2. ASSUME NEW o \in Owners, Disturbance(o), ~Reserve(o)
      PROVE  UNCHANGED <<queue, slot>> /\ Onward(o)
    BY <1>2 DEF Disturbance, PrepareFails, LosesPatience, Withdraw, HeartbeatLost, LeaveLoop,
       Fails, GivesUp, OwnerDies, Underway, Onward, Stages, Driving, Quiet
<1>3. ASSUME NEW a \in Attempts, WorkerStep(a) \/ Submit(a) \/ Reconcile(a)
      PROVE  UNCHANGED <<queue, slot, pc>>
    BY <1>3 DEF WorkerStep, Exits, Fuse, PipeClosed, OrphansEnd, Becomes, Deadline, Submit, Reconcile
<1>4. CASE ReconcileAppends \/ OperatorDies \/ UNCHANGED vars
    BY <1>4 DEF ReconcileAppends, OperatorDies, vars
<1>5. CASE Govern
    BY <1>5 DEF Govern, Q!ActivatePolicy
<1> QED
    BY <1>1, <1>2, <1>3, <1>4, <1>5 DEF Next

\* Where a queue event puts an attempt.
LEMMA Entering ==
    ASSUME QueueTyped, NEW a \in Attempts, Q!Enqueue(a)
    PROVE  /\ \A b \in Attempts : Q!Queued(b)' <=> Q!Queued(b) \/ b = a
           /\ ~Q!Queued(a) /\ resv[a].phase # "none"
           /\ queue' \in Seq(Attempts) /\ UNCHANGED slot
<1>1. /\ queue' = Append(queue, a) /\ slot' = slot /\ ~Q!Queued(a)
      /\ Funded[a].phase # "none"
    BY DEF Q!Enqueue
<1>2. resv[a].phase # "none"
    BY <1>1 DEF Funded
<1>3. /\ queue' \in Seq(Attempts) /\ DOMAIN queue' = 1 .. Len(queue) + 1
      /\ DOMAIN queue = 1 .. Len(queue)
      /\ \A i \in 1 .. Len(queue) : queue'[i] = queue[i]
      /\ queue'[Len(queue) + 1] = a
    BY <1>1 DEF QueueTyped
<1>4. ASSUME NEW b \in Attempts PROVE Q!Queued(b)' <=> Q!Queued(b) \/ b = a
  <2>0. Len(queue) \in Nat
      BY DEF QueueTyped
  <2>1. Q!Queued(b)' <=> \E i \in DOMAIN queue' : queue'[i] = b
      BY DEF Q!Queued, Q!Position
  <2>2. Q!Queued(b) <=> \E i \in DOMAIN queue : queue[i] = b
      BY DEF Q!Queued, Q!Position
  <2> QED
      BY <1>3, <2>0, <2>1, <2>2
<1> QED
    BY <1>1, <1>2, <1>3, <1>4

LEMMA Claiming ==
    ASSUME QueueTyped, QueueAssumption, NEW a \in Attempts, Q!Claim(a), resv[a].phase # "none" => L!Registered(a) /\ runOf[a] \in Runs
    PROVE  /\ ~Q!Claimed(a) /\ Q!Queued(a) /\ L!Held(a) /\ L!Arm(a) \notin closed
           /\ Q!Claimed(a)'
           /\ \A b \in Attempts \ {a} : slot'[b] = slot[b]
           /\ slot' \in [Attempts -> Nat \cup {NoSlot}] /\ UNCHANGED queue
<1>1. Q!MayClaim(a) /\ UNCHANGED queue
    BY DEF Q!Claim, Q!ClaimPermitted, Q!ClaimInTurn
<1>2. /\ ~Q!Claimed(a) /\ Q!Queued(a) /\ Funded[a].phase = "held" /\ Funded[a].arm \notin closed
    BY <1>1 DEF Q!MayClaim, Q!Waiting, Q!Held
<1>3. resv[a].phase = "held" /\ Funded[a].arm = ArmOf[runOf[a]]
    BY <1>2 DEF Funded
<1>4. \E offered \in {Q!Tickets(Funded[a].resource), Q!FreeSlots(Funded[a].resource),
                      Q!SharedSlots(Funded[a].resource)} : Q!Take(a, offered)
    BY DEF Q!Claim, Q!ClaimPermitted, Q!ClaimInTurn
<1>5. PICK s \in Q!Tickets(Funded[a].resource) \cup Q!FreeSlots(Funded[a].resource)
                 \cup Q!SharedSlots(Funded[a].resource) : slot' = [slot EXCEPT ![a] = s]
    BY <1>4 DEF Q!Take
<1>6. s \in Nat
    BY <1>5 DEF Q!Tickets, Q!FreeSlots, Q!SharedSlots
<1> QED
    BY <1>1, <1>2, <1>3, <1>5, <1>6, QueueAssumption DEF QueueTyped, L!Held, L!Arm, Q!Claimed

LEMMA InitLined == Init => Lined
<1> SUFFICES ASSUME Init PROVE Lined
    OBVIOUS
<1>1. QueueTyped
    BY QueueAssumption DEF Init, Q!Init, QueueTyped
<1>2. InLine
    BY CallAssumption, QueueAssumption
       DEF Init, Q!Init, InLine, Q!Claimed, Q!Queued, Q!Position, Driving, Quiet
<1> QED
    BY <1>1, <1>2, InitAll DEF Lined

LEMMA StepLined == Lined /\ [Next]_vars => Lined'
<1> SUFFICES ASSUME Lined, [Next]_vars PROVE Lined'
    OBVIOUS
<1>0. Typed /\ CallsTyped /\ QueueTyped /\ InLine /\ Typed'
    BY StepAll DEF Lined, Typed
<1>1. \A a \in Attempts : resv[a].phase # "none" => resv'[a].phase # "none"
    BY <1>0, PhaseKept
<1> USE <1>0, OutcomesKnown DEF CallsTyped, Quiet, Driving
<1>2. ASSUME NEW o \in Owners, Reserve(o) PROVE QueueTyped' /\ InLine'
  <2>1. /\ UNCHANGED <<queue, slot>> /\ pc[o] = "idle"
        /\ pc' = [pc EXCEPT ![o] = "reserved"] \/ pc' = [pc EXCEPT ![o] = "done"]
      BY <1>2 DEF Reserve, queueVars, Goto
  <2>2. pc'[o] = "reserved" => resv'[JobOf[o]].phase # "none"
    <3>1. resv \in [Attempts -> L!Reservation]
        BY DEF Typed, LP!Shape, LP!TypeOK, LP!Reservation, L!Reservation
    <3>2. CASE L!Reserve(JobOf[o], Ask[o])
        BY <3>1, <3>2 DEF L!Reserve, L!NoReservation
    <3>3. CASE L!Held(JobOf[o])
        BY <1>1, <3>3 DEF L!Held
    <3>4. CASE pc' = [pc EXCEPT ![o] = "done"]
        BY <3>4
    <3> QED
        BY <1>2, <3>2, <3>3, <3>4 DEF Reserve, Goto
  <2>3. QueueTyped' /\ \A a \in Attempts : /\ Q!Queued(a)' <=> Q!Queued(a)
                                           /\ Q!Claimed(a)' <=> Q!Claimed(a)
      BY <2>1 DEF QueueTyped, Q!Queued, Q!Position, Q!Claimed
  <2>4. \A p \in Owners \ {o} : pc'[p] = pc[p]
      BY <2>1
  <2>5. pc'[o] \in {"reserved", "done"}
      BY <2>1
  <2> QED
      BY <1>1, <2>2, <2>3, <2>4, <2>5 DEF InLine
<1>3. ASSUME NEW o \in Owners, Enqueue(o), Q!Enqueue(JobOf[o]) PROVE QueueTyped' /\ InLine'
  <2>1. \/ /\ pc[o] = "reserved" /\ pc' = [pc EXCEPT ![o] = "queued"]
        \/ Q!Queued(JobOf[o])
      BY <1>3 DEF Enqueue, Goto
  <2>2. /\ \A b \in Attempts : /\ Q!Queued(b)' <=> Q!Queued(b) \/ b = JobOf[o]
                               /\ Q!Claimed(b)' <=> Q!Claimed(b)
        /\ ~Q!Queued(JobOf[o]) /\ resv[JobOf[o]].phase # "none"
        /\ QueueTyped'
      BY <1>3, Entering DEF QueueTyped, Q!Claimed
  <2>3. pc'[o] = "queued" /\ \A p \in Owners \ {o} : pc'[p] = pc[p]
      BY <2>1, <2>2
  <2> QED
      BY <1>1, <2>2, <2>3 DEF InLine
<1>4. ASSUME NEW o \in Owners, Claim(o) PROVE QueueTyped' /\ InLine'
  <2>1. pc[o] = "queued" /\ pc' = [pc EXCEPT ![o] = "claimed"] /\ Q!Claim(JobOf[o])
      BY <1>4 DEF Claim, Goto
  <2>2. /\ \A b \in Attempts : /\ Q!Queued(b)' <=> Q!Queued(b)
                               /\ Q!Claimed(b)' <=> Q!Claimed(b) \/ b = JobOf[o]
        /\ Q!Queued(JobOf[o]) /\ QueueTyped'
    <3>1. resv[JobOf[o]].phase # "none" => L!Registered(JobOf[o]) /\ runOf[JobOf[o]] \in Runs
        BY HasRun DEF Typed
    <3>2. /\ Q!Queued(JobOf[o]) /\ Q!Claimed(JobOf[o])'
          /\ \A b \in Attempts \ {JobOf[o]} : slot'[b] = slot[b]
          /\ slot' \in [Attempts -> Nat \cup {NoSlot}] /\ UNCHANGED queue
        BY <2>1, <3>1, Claiming, QueueAssumption
    <3> QED
        BY <3>2 DEF QueueTyped, Q!Claimed, Q!Queued, Q!Position
  <2>3. pc'[o] = "claimed" /\ \A p \in Owners \ {o} : pc'[p] = pc[p]
      BY <2>1
  <2> QED
      BY <1>1, <2>1, <2>2, <2>3 DEF InLine
<1>5. ASSUME UNCHANGED <<queue, slot>> /\ (UNCHANGED pc \/ \E o \in Owners : Onward(o))
      PROVE  QueueTyped' /\ InLine'
  <2>1. QueueTyped' /\ \A a \in Attempts : /\ Q!Queued(a)' <=> Q!Queued(a)
                                           /\ Q!Claimed(a)' <=> Q!Claimed(a)
      BY <1>5 DEF QueueTyped, Q!Queued, Q!Position, Q!Claimed
  <2>2. CASE UNCHANGED pc
      BY <1>1, <2>1, <2>2 DEF InLine
  <2>3. ASSUME NEW o \in Owners, Onward(o) PROVE InLine'
    <3>1. /\ pc[o] \notin Quiet /\ pc'[o] \notin {"idle", "reserved", "queued"}
          /\ pc'[o] \in Driving => pc[o] \in Driving \ {"queued"}
          /\ \A p \in Owners \ {o} : pc'[p] = pc[p]
        BY <2>3 DEF Onward
    <3> QED
        BY <1>1, <2>1, <3>1 DEF InLine
  <2> QED
      BY <1>5, <2>1, <2>2, <2>3
<1> QED
    BY <1>2, <1>3, <1>4, <1>5, CallMoves DEF Lined

\* The stage of a call changes by the call's own steps.
LEMMA OwnStep ==
    ASSUME CallsTyped, [Next]_vars, NEW o \in Owners, pc'[o] # pc[o]
    PROVE  Progress(o) \/ Disturbance(o)
<1> USE DEF CallsTyped, Goto, Leave
<1>1. ASSUME NEW p \in Owners, Progress(p), p # o PROVE pc'[o] = pc[o]
    BY <1>1 DEF Progress, Enqueue, Claim, Rejected, Withdraw, Launch, Spawn, StartWorker,
       LaunchRefused, SeeExit, SeeDeadline, SeeClosure, LeaveLoop, StopTree, Record, Decide,
       Confirm, RecordStop, Settle, AppendArmClosed, Unconfirmed, End
<1>2. ASSUME NEW p \in Owners, Disturbance(p), p # o PROVE pc'[o] = pc[o]
    BY <1>2 DEF Disturbance, Reserve, PrepareFails, LosesPatience, Withdraw, HeartbeatLost, LeaveLoop,
       Fails, GivesUp, OwnerDies, Underway
<1>3. ASSUME NEW a \in Attempts, WorkerStep(a) \/ Submit(a) \/ Reconcile(a) PROVE pc'[o] = pc[o]
    BY <1>3 DEF WorkerStep, Exits, Fuse, PipeClosed, OrphansEnd, Becomes, Deadline, Submit, Reconcile
<1>4. CASE ReconcileAppends \/ OperatorDies \/ Govern \/ UNCHANGED vars
    BY <1>4 DEF ReconcileAppends, OperatorDies, Govern, vars
<1> QED
    BY <1>1, <1>2, <1>3, <1>4 DEF Next

\* By which step a call comes to a stage of its worker.
LEMMA Reaches ==
    ASSUME CallsTyped, [Next]_vars, NEW o \in Owners, pc'[o] # pc[o]
    PROVE  /\ pc'[o] = "claimed" => Claim(o)
           /\ pc'[o] = "launching" => pc[o] = "claimed"
           /\ pc'[o] = "spawned" => Spawn(o)
           /\ pc'[o] = "stopped" => StopTree(o)
           /\ pc'[o] = "deciding" => pc[o] = "stopped"
           /\ pc'[o] = "recording" => Confirm(o)
<1> USE DEF CallsTyped, Goto, Leave
<1>1. Progress(o) \/ Disturbance(o)
    BY OwnStep
<1>2. CASE Disturbance(o)
    BY <1>2 DEF Disturbance, Reserve, PrepareFails, LosesPatience, Withdraw, HeartbeatLost, LeaveLoop,
       Fails, GivesUp, OwnerDies, Underway
<1>3. CASE Progress(o)
    BY <1>3 DEF Progress, Enqueue, Claim, Rejected, Withdraw, Launch, Spawn, StartWorker,
       LaunchRefused, SeeExit, SeeDeadline, SeeClosure, LeaveLoop, StopTree, Record, Decide,
       Confirm, RecordStop, Settle, AppendArmClosed, Unconfirmed, End
<1> QED
    BY <1>1, <1>2, <1>3

\* What happens to a wrapper or to the record of its start.
Ends(a) ==
    /\ \/ Running(a) /\ proc' = [proc EXCEPT ![a] = "gone"]
       \/ proc[a] = "working" /\ proc' = [proc EXCEPT ![a] = "orphans"]
    /\ UNCHANGED <<pc, started, slot, txn, resv, stopped, state>>

LEMMA WorkMoves ==
    ASSUME CallsTyped, [Next]_vars
    PROVE  \/ UNCHANGED <<proc, started>>
           \/ \E o \in Owners : Spawn(o) \/ StartWorker(o) \/ StopTree(o) \/ Confirm(o)
           \/ \E a \in Attempts : Ends(a)
<1> USE DEF ledgerVars
<1>1. ASSUME NEW o \in Owners, Progress(o), ~(Spawn(o) \/ StartWorker(o) \/ StopTree(o) \/ Confirm(o))
      PROVE  UNCHANGED <<proc, started>>
  <2>1. CASE Enqueue(o) \/ Claim(o) \/ Rejected(o) \/ Launch(o) \/ LaunchRefused(o)
      BY <2>1 DEF Enqueue, Claim, Rejected, Withdraw, Launch, LaunchRefused, L!Transition, L!workerVars
  <2>2. CASE SeeExit(o) \/ SeeDeadline(o) \/ SeeClosure(o) \/ Record(o) \/ Decide(o) \/ RecordStop(o)
      BY <2>2 DEF SeeExit, SeeDeadline, SeeClosure, LeaveLoop, Record, Decide, RecordStop, L!WorkerTreeStopped
  <2>3. CASE Settle(o)
      BY <2>3 DEF Settle, L!Settle, L!SettleEvent, L!workerVars
  <2>4. CASE AppendArmClosed(o) \/ Unconfirmed(o) \/ End(o)
      BY <2>4 DEF AppendArmClosed, Unconfirmed, End, L!AppendArmClosed, L!CloseArm, L!Transition, L!workerVars
  <2> QED
      BY <1>1, <2>1, <2>2, <2>3, <2>4 DEF Progress
<1>2. ASSUME NEW o \in Owners, Disturbance(o) PROVE UNCHANGED <<proc, started>>
    BY <1>2 DEF Disturbance, Reserve, PrepareFails, LosesPatience, Withdraw, HeartbeatLost, LeaveLoop,
       Fails, GivesUp, OwnerDies, L!Reserve, L!RefuseReserve, L!ReserveDeclared, L!Crash, L!workerVars
<1>3. ASSUME NEW a \in Attempts, WorkerStep(a) PROVE UNCHANGED <<proc, started>> \/ Ends(a)
    BY <1>3 DEF WorkerStep, Exits, Fuse, PipeClosed, OrphansEnd, Becomes, Deadline, Ends, Running,
       L!ProcessGone, L!attemptVars, L!budgetVars, attemptVars, queueVars
<1>4. ASSUME NEW a \in Attempts, Submit(a) \/ Reconcile(a) PROVE UNCHANGED <<proc, started>>
    BY <1>4 DEF Submit, Reconcile, L!NewAttempt, L!Register, L!RecoverHeld, L!RecoverSettled, L!workerVars
<1>5. CASE ReconcileAppends \/ OperatorDies \/ Govern \/ UNCHANGED vars
    BY <1>5 DEF ReconcileAppends, OperatorDies, Govern, vars, L!AppendRecoverySettle, L!SettleEvent,
       L!AppendRecoveryClosed, L!AppendInterrupted, L!AppendArmClosed, L!Crash, L!ContinueArm,
       L!ExpireApproval, L!PlaceHold, L!workerVars
<1> QED
    BY <1>1, <1>2, <1>3, <1>4, <1>5 DEF Next

\* A wrapper is spawned by the call that claimed its slot, records its start
\* before it works, and is gone before its stop is recorded.
WorkerFollowsCall ==
    /\ \A a \in Attempts :
          /\ proc[a] # "none" => Q!Claimed(a)
          /\ proc[a] \in {"working", "orphans"} => a \in started
          /\ a \in started => proc[a] # "none"
    /\ \A o \in Owners :
          /\ pc[o] \in {"claimed", "launching"} => proc[JobOf[o]] = "none"
          /\ pc[o] = "spawned" => proc[JobOf[o]] \in {"waiting", "gone"}
          /\ pc[o] \in {"stopped", "deciding", "recording"} => proc[JobOf[o]] = "gone"

LEMMA ClaimKept ==
    ASSUME Lined, [Next]_vars, NEW a \in Attempts
    PROVE  Q!Claimed(a) => Q!Claimed(a)'
<1>1. ASSUME NEW o \in Owners, Claim(o), Q!Claimed(a) PROVE Q!Claimed(a)'
  <2>1. Q!Claim(JobOf[o]) /\ JobOf[o] \in Attempts
      BY <1>1, OutcomesKnown DEF Claim
  <2>2. resv[JobOf[o]].phase # "none" => L!Registered(JobOf[o]) /\ runOf[JobOf[o]] \in Runs
      BY <2>1, HasRun DEF Lined, Typed
  <2> QED
      BY <1>1, <2>1, <2>2, Claiming, QueueAssumption DEF Lined, Q!Claimed
<1>2. CASE UNCHANGED slot
    BY <1>2 DEF Q!Claimed
<1> QED
    BY <1>1, <1>2, CallMoves DEF Lined, Typed, Reserve, queueVars, Q!Enqueue, Enqueue

LEMMA InitFollows == Init => WorkerFollowsCall
BY CallAssumption DEF Init, L!Init, WorkerFollowsCall

LEMMA StepFollows == Lined /\ WorkerFollowsCall /\ [Next]_vars => WorkerFollowsCall'
<1> SUFFICES ASSUME Lined, WorkerFollowsCall, [Next]_vars PROVE WorkerFollowsCall'
    OBVIOUS
<1>0. CallsTyped /\ InLine /\ \A a \in Attempts : Q!Claimed(a) => Q!Claimed(a)'
    BY ClaimKept DEF Lined, Typed
<1>c. \A o \in Owners : Claim(o) => ~Q!Claimed(JobOf[o]) /\ UNCHANGED <<proc, started>>
    BY <1>0 DEF Claim, Goto, InLine, ledgerVars
<1> USE <1>0, OutcomesKnown DEF CallsTyped, Driving
<1>1. CASE UNCHANGED <<proc, started>>
  <2>1. ASSUME NEW o \in Owners
        PROVE  /\ pc'[o] \in {"claimed", "launching"} => proc[JobOf[o]] = "none"
               /\ pc'[o] = "spawned" => proc[JobOf[o]] \in {"waiting", "gone"}
               /\ pc'[o] \in {"stopped", "deciding", "recording"} => proc[JobOf[o]] = "gone"
    <3>1. CASE pc'[o] = pc[o]
        BY <3>1 DEF WorkerFollowsCall
    <3>2. CASE Claim(o)
        BY <1>c, <3>2 DEF Claim, Goto, WorkerFollowsCall
    <3>3. CASE pc'[o] # pc[o] /\ ~Claim(o)
      <4>1. ~Spawn(o) /\ (StopTree(o) \/ Confirm(o) => proc[JobOf[o]] \in {"none", "gone"})
          BY <1>1 DEF Spawn, StopTree, Confirm, Goto, WorkerFollowsCall
      <4>2. StopTree(o) => proc[JobOf[o]] = "gone"
          BY <1>1 DEF StopTree
      <4>3. Confirm(o) /\ pc'[o] = "recording" => proc[JobOf[o]] = "gone"
          BY <1>1 DEF Confirm, Goto
      <4> QED
          BY <3>3, <4>1, <4>2, <4>3, Reaches DEF WorkerFollowsCall
    <3> QED
        BY <3>1, <3>2, <3>3
  <2> QED
      BY <1>1, <2>1 DEF WorkerFollowsCall
<1>2. ASSUME NEW a \in Attempts, Ends(a) PROVE WorkerFollowsCall'
    BY <1>2 DEF Ends, Running, Processes, WorkerFollowsCall
<1>3. ASSUME NEW o \in Owners, Spawn(o) \/ StartWorker(o) \/ StopTree(o) \/ Confirm(o)
      PROVE  WorkerFollowsCall'
  <2> DEFINE a == JobOf[o]
  <2>1. /\ pc[o] \in Driving \ {"queued"} /\ Q!Claimed(a)
        /\ \A p \in Owners \ {o} : pc'[p] = pc[p] /\ (pc[p] \in Driving => JobOf[p] # a)
        /\ \A b \in Attempts \ {a} : proc'[b] = proc[b] /\ (b \in started' <=> b \in started)
    <3>1. pc[o] \in Driving \ {"queued"} /\ \A p \in Owners \ {o} : pc'[p] = pc[p]
        BY <1>3 DEF Spawn, StartWorker, StopTree, Confirm, Goto
    <3>2. \A b \in Attempts \ {a} : proc'[b] = proc[b] /\ (b \in started' <=> b \in started)
        BY <1>3 DEF Spawn, StartWorker, StopTree, Confirm, L!ProcessSpawned, L!WorkerStarted, L!ProcessGone
    <3> QED
        BY <3>1, <3>2 DEF InLine
  <2>2. /\ Q!Claimed(a)
        /\ proc'[a] \in {"working", "orphans"} => a \in started'
        /\ a \in started' => proc'[a] # "none"
        /\ pc'[o] \in {"claimed", "launching"} => proc'[a] = "none"
        /\ pc'[o] = "spawned" => proc'[a] \in {"waiting", "gone"}
        /\ pc'[o] \in {"stopped", "deciding", "recording"} => proc'[a] = "gone"
    <3>1. CASE Spawn(o)
        BY <2>1, <3>1 DEF Spawn, Goto, L!ProcessSpawned, WorkerFollowsCall
    <3>2. CASE StartWorker(o)
        BY <2>1, <3>2 DEF StartWorker, Goto, L!WorkerStarted, WorkerFollowsCall
    <3>3. CASE StopTree(o) \/ Confirm(o)
        BY <2>1, <3>3 DEF StopTree, Confirm, Goto, L!ProcessGone, WorkerFollowsCall
    <3> QED
        BY <1>3, <3>1, <3>2, <3>3
  <2>3. ASSUME NEW b \in Attempts
        PROVE  /\ proc'[b] # "none" => Q!Claimed(b)'
               /\ proc'[b] \in {"working", "orphans"} => b \in started'
               /\ b \in started' => proc'[b] # "none"
      BY <2>1, <2>2 DEF WorkerFollowsCall
  <2>4. ASSUME NEW p \in Owners
        PROVE  /\ pc'[p] \in {"claimed", "launching"} => proc'[JobOf[p]] = "none"
               /\ pc'[p] = "spawned" => proc'[JobOf[p]] \in {"waiting", "gone"}
               /\ pc'[p] \in {"stopped", "deciding", "recording"} => proc'[JobOf[p]] = "gone"
      BY <2>1, <2>2 DEF WorkerFollowsCall
  <2> QED
      BY <2>3, <2>4 DEF WorkerFollowsCall
<1> QED
    BY <1>1, <1>2, <1>3, WorkMoves

Driven == Lined /\ WorkerFollowsCall

LEMMA DrivenAlways == Spec => []Driven
<1>1. Init => Driven
    BY InitLined, InitFollows DEF Driven
<1>2. Driven /\ [Next]_vars => Driven'
    BY StepLined, StepFollows DEF Driven
<1> QED
    BY <1>1, <1>2, PTL DEF Spec

\* Whoever calls run, and however often: a wrapper is spawned once for an
\* attempt, and gets its GO once, in state RUNNING.
THEOREM WorkerIsLaunchedOnce == Spec => LaunchedOnce
<1>1. ASSUME Driven, [Next]_vars, NEW a \in Attempts
      PROVE  /\ proc[a] # "none" => proc'[a] # "waiting" \/ proc[a] = "waiting"
             /\ proc[a] # "working" /\ proc'[a] = "working" =>
                   proc[a] = "waiting" /\ state[a] = "RUNNING"
  <2>0. CallsTyped /\ InLine /\ WorkerFollowsCall
      BY <1>1 DEF Driven, Lined, Typed
  <2> USE <2>0 DEF CallsTyped
  <2>1. CASE UNCHANGED <<proc, started>>
      BY <2>1
  <2>2. ASSUME NEW b \in Attempts, Ends(b)
        PROVE  proc'[a] # proc[a] => proc'[a] \in {"gone", "orphans"}
      BY <2>2 DEF Ends
  <2>3. ASSUME NEW o \in Owners, Spawn(o)
        PROVE  proc'[a] # proc[a] => proc[a] = "none" /\ proc'[a] = "waiting"
      BY <2>3 DEF Spawn, Goto, WorkerFollowsCall
  <2>4. ASSUME NEW o \in Owners, StartWorker(o)
        PROVE  proc'[a] # proc[a] => proc[a] = "waiting" /\ proc'[a] = "working" /\ state[a] = "RUNNING"
      BY <2>4 DEF StartWorker, L!WorkerStarted
  <2>5. ASSUME NEW o \in Owners, StopTree(o) \/ Confirm(o)
        PROVE  proc'[a] # proc[a] => proc'[a] = "gone"
      BY <2>5 DEF StopTree, Confirm
  <2> QED
      BY <1>1, <2>1, <2>2, <2>3, <2>4, <2>5, WorkMoves
<1>2. ASSUME Driven, [Next]_vars
      PROVE  \A a \in Attempts :
                /\ proc[a] # "none" => proc'[a] # "waiting" \/ proc[a] = "waiting"
                /\ proc[a] # "working" /\ proc'[a] = "working" =>
                      proc[a] = "waiting" /\ state[a] = "RUNNING"
    BY <1>1, <1>2
<1> QED
    BY <1>2, DrivenAlways, PTL DEF Spec, LaunchedOnce

\* A continuation never finds a worker of its arm that may still run: started
\* workers have a reservation, so the code asks for their confirmed stop.
THEOREM NothingRunsAtReopening == Spec => NoReopenOverWork
<1>1. ASSUME Driven, [Next]_vars, NEW m \in closed \ closed', NEW a \in Attempts,
             runOf[a] # NoRun, L!Arm(a) = m
      PROVE  proc[a] \notin {"working", "orphans"}
  <2>0. Typed /\ InLine /\ WorkerFollowsCall
      BY <1>1 DEF Driven, Lined
  <2>1. PICK n \in Arms, ap \in Approvals : LP!ContinueArm(n, ap)
      BY <1>1, <2>0, LedgerMoves, LP!ClosureMoves, SameAssumptions
  <2>2. n = m
      BY <1>1, <2>1 DEF LP!ContinueArm
  <2>3. ASSUME proc[a] \in {"working", "orphans"} PROVE FALSE
    <3>1. a \in started /\ resv[a].phase # "none" /\ a \in Alive
        BY <2>0, <2>3 DEF WorkerFollowsCall, InLine, Alive, Running
    <3>2. a \in LP!Costs(m) \cap started
        BY <1>1, <3>1 DEF LP!Costs, LP!Arm, L!Arm
    <3> QED
        BY <2>1, <2>2, <3>1, <3>2 DEF LP!ContinueArm
  <2> QED
      BY <2>3
<1>2. ASSUME Driven, [Next]_vars
      PROVE  \A m \in closed \ closed' : \A a \in Attempts :
                runOf[a] # NoRun /\ L!Arm(a) = m => proc[a] \notin {"working", "orphans"}
    BY <1>1, <1>2
<1> QED
    BY <1>2, DrivenAlways, PTL DEF Spec, NoReopenOverWork

-----------------------------------------------------------------------------
(* Which steps change the state, the reservation and the pending call. *)

LEMMA StateMoves ==
    ASSUME Typed, [Next]_vars, NEW a \in Attempts, state'[a] # state[a]
    PROVE  \/ ~L!Registered(a) /\ state'[a] = "REGISTERED"
           \/ resv[a].phase = "none" /\ resv' = resv /\ state'[a] # "SUCCEEDED"
           \/ state[a] = "REGISTERED" /\ state'[a] = "RUNNING"
           \/ \E o \in Owners : JobOf[o] = a /\ End(o) /\ state'[a] = verdict[o] /\ UNCHANGED <<resv, closed>>
           \/ /\ txn.phase = "interrupt" /\ txn.attempt = a /\ L!AppendInterrupted
              /\ state'[a] = "INTERRUPTED" /\ UNCHANGED pc
<1>0. state \in [Attempts -> L!States]
    BY DEF Typed, LP!Shape, LP!TypeOK, LP!States, L!States, LP!Terminal, L!Terminal
<1> USE <1>0, OutcomesKnown DEF ledgerVars, attemptVars
<1>1. ASSUME NEW o \in Owners, Progress(o)
      PROVE  \/ state' = state \/ (state[a] = "REGISTERED" /\ state'[a] = "RUNNING")
             \/ JobOf[o] = a /\ End(o) /\ state'[a] = verdict[o] /\ UNCHANGED <<resv, closed>>
  <2>1. CASE Enqueue(o) \/ Claim(o) \/ Rejected(o) \/ Spawn(o) \/ StartWorker(o) \/ LaunchRefused(o)
      BY <2>1 DEF Enqueue, Claim, Rejected, Withdraw, Spawn, StartWorker, LaunchRefused,
         L!ProcessSpawned, L!WorkerStarted, L!attemptVars
  <2>2. CASE SeeExit(o) \/ SeeDeadline(o) \/ SeeClosure(o) \/ StopTree(o) \/ Record(o) \/ Decide(o)
      BY <2>2 DEF SeeExit, SeeDeadline, SeeClosure, LeaveLoop, StopTree, Record, Decide,
         L!ProcessGone, L!WorkerTreeStopped, L!attemptVars
  <2>3. CASE Confirm(o) \/ RecordStop(o) \/ AppendArmClosed(o) \/ Unconfirmed(o)
      BY <2>3 DEF Confirm, RecordStop, AppendArmClosed, Unconfirmed, L!ProcessGone,
         L!WorkerTreeStopped, L!AppendArmClosed, L!CloseArm, L!attemptVars
  <2>4. CASE Settle(o)
      BY <2>4 DEF Settle, L!Settle, L!SettleEvent, L!attemptVars
  <2>5. CASE Launch(o) \/ End(o)
      BY <2>5 DEF Launch, End, L!Transition, L!Allowed, L!Terminal, L!budgetVars, L!armVars
  <2> QED
      BY <1>1, <2>1, <2>2, <2>3, <2>4, <2>5 DEF Progress
<1>2. ASSUME NEW o \in Owners, Disturbance(o)
      PROVE  state' = state \/ (resv[a].phase = "none" /\ resv' = resv /\ state'[a] # "SUCCEEDED")
  <2>1. CASE Reserve(o)
      BY <2>1 DEF Reserve, L!Reserve, L!RefuseReserve, L!ReserveDeclared, L!MayReserve,
         L!attemptVars, L!budgetVars
  <2> QED
      BY <1>2, <2>1 DEF Disturbance, PrepareFails, LosesPatience, Withdraw, HeartbeatLost, LeaveLoop,
         Fails, GivesUp, OwnerDies, L!Crash, L!attemptVars
<1>3. ASSUME NEW b \in Attempts, WorkerStep(b) PROVE state' = state
    BY <1>3 DEF WorkerStep, Exits, Fuse, PipeClosed, OrphansEnd, Becomes, Deadline,
       L!ProcessGone, L!attemptVars
<1>4. ASSUME NEW b \in Attempts, Submit(b) \/ Reconcile(b)
      PROVE  state' = state \/ (~L!Registered(a) /\ state'[a] = "REGISTERED")
    BY <1>4 DEF Submit, Reconcile, L!NewAttempt, L!Register, L!RecoverHeld, L!RecoverSettled, L!attemptVars
<1>5. CASE ReconcileAppends
  <2>1. CASE L!AppendInterrupted
      BY <1>5, <2>1 DEF ReconcileAppends, L!AppendInterrupted
  <2> QED
      BY <1>5, <2>1 DEF ReconcileAppends, L!AppendRecoverySettle, L!SettleEvent,
         L!AppendRecoveryClosed, L!AppendArmClosed, L!attemptVars
<1>6. CASE OperatorDies \/ Govern \/ UNCHANGED vars
    BY <1>6 DEF OperatorDies, Govern, vars, L!Crash, L!ContinueArm, L!ExpireApproval, L!PlaceHold, L!attemptVars
<1> QED
    BY <1>1, <1>2, <1>3, <1>4, <1>5, <1>6 DEF Next

\* A reservation is made by its call, and settled by its call or a recovery.
LEMMA ReservationMoves ==
    ASSUME Typed, [Next]_vars, NEW a \in Attempts, resv'[a] # resv[a]
    PROVE  \/ \E o \in Owners : JobOf[o] = a /\ Reserve(o) /\ L!Reserve(a, Ask[o])
           \/ \E o \in Owners, outcome \in Outcomes :
                 /\ JobOf[o] = a /\ Settle(o) /\ verdict'[o] = outcome
                 /\ pc[o] = "settling" /\ L!Settle(a, cost[o], TRUE, outcome)
           \/ txn.attempt = a /\ ReconcileAppends /\ L!AppendRecoverySettle
<1>0. resv \in [Attempts -> L!Reservation]
    BY DEF Typed, LP!Shape, LP!TypeOK, LP!Reservation, L!Reservation
<1> USE <1>0, OutcomesKnown DEF ledgerVars
<1>1. ASSUME NEW o \in Owners, Progress(o), ~Settle(o) PROVE resv' = resv
  <2>1. CASE Enqueue(o) \/ Claim(o) \/ Rejected(o) \/ Spawn(o) \/ StartWorker(o) \/ LaunchRefused(o)
      BY <2>1 DEF Enqueue, Claim, Rejected, Withdraw, Spawn, StartWorker, LaunchRefused,
         L!ProcessSpawned, L!WorkerStarted, L!budgetVars
  <2>2. CASE SeeExit(o) \/ SeeDeadline(o) \/ SeeClosure(o) \/ StopTree(o) \/ Record(o) \/ Decide(o)
      BY <2>2 DEF SeeExit, SeeDeadline, SeeClosure, LeaveLoop, StopTree, Record, Decide,
         L!ProcessGone, L!WorkerTreeStopped, L!budgetVars
  <2>3. CASE Confirm(o) \/ RecordStop(o) \/ AppendArmClosed(o) \/ Unconfirmed(o)
      BY <2>3 DEF Confirm, RecordStop, AppendArmClosed, Unconfirmed, L!ProcessGone,
         L!WorkerTreeStopped, L!AppendArmClosed, L!CloseArm, L!budgetVars
  <2>4. CASE Launch(o) \/ End(o)
      BY <2>4 DEF Launch, End, L!Transition, L!budgetVars
  <2> QED
      BY <1>1, <2>1, <2>2, <2>3, <2>4 DEF Progress
<1>2. ASSUME NEW o \in Owners, Settle(o)
      PROVE  \E outcome \in Outcomes :
                /\ JobOf[o] = a /\ Settle(o) /\ verdict'[o] = outcome
                /\ pc[o] = "settling" /\ L!Settle(a, cost[o], TRUE, outcome)
  <2>1. PICK outcome \in Outcomes :
            /\ Goto(o, {"settling"}, "ending") /\ Judge(o, outcome)
            /\ L!Settle(JobOf[o], cost[o], TRUE, outcome)
      BY <1>2, OutcomesKnown DEF Settle, Typed, CallsTyped
  <2>2. JobOf[o] = a
      BY <2>1 DEF L!Settle, L!SettleEvent
  <2> QED
      BY <1>2, <2>1, <2>2 DEF Goto, Judge, Typed, CallsTyped
<1>3. ASSUME NEW o \in Owners, Disturbance(o)
      PROVE  resv' = resv \/ (JobOf[o] = a /\ Reserve(o) /\ L!Reserve(a, Ask[o]))
  <2>1. CASE Reserve(o)
      BY <2>1 DEF Reserve, L!Reserve, L!RefuseReserve, L!ReserveDeclared, L!budgetVars
  <2> QED
      BY <1>3, <2>1 DEF Disturbance, PrepareFails, LosesPatience, Withdraw, HeartbeatLost, LeaveLoop,
         Fails, GivesUp, OwnerDies, L!Crash, L!budgetVars
<1>4. ASSUME NEW b \in Attempts, WorkerStep(b) \/ Submit(b) \/ Reconcile(b) PROVE resv' = resv
    BY <1>4 DEF WorkerStep, Exits, Fuse, PipeClosed, OrphansEnd, Becomes, Deadline, L!ProcessGone,
       Submit, Reconcile, L!NewAttempt, L!Register, L!RecoverHeld, L!RecoverSettled, L!budgetVars
<1>5. CASE ReconcileAppends
  <2>1. CASE L!AppendRecoverySettle
      BY <1>5, <2>1 DEF L!AppendRecoverySettle, L!SettleEvent
  <2> QED
      BY <1>5, <2>1 DEF ReconcileAppends, L!AppendInterrupted, L!AppendRecoveryClosed,
         L!AppendArmClosed, L!budgetVars
<1>6. CASE OperatorDies \/ Govern \/ UNCHANGED vars
    BY <1>6 DEF OperatorDies, Govern, vars, L!Crash, L!ContinueArm, L!ExpireApproval, L!PlaceHold, L!budgetVars
<1> QED
    BY <1>1, <1>2, <1>3, <1>4, <1>5, <1>6 DEF Next

\* A call with events still to append holds the lock: the operator's recovery
\* of one attempt, or the owner whose settlement closes its arm.
LEMMA PendingMoves ==
    ASSUME Typed, [Next]_vars, txn' # txn
    PROVE  \/ txn'.phase = "idle"
           \/ \E o \in Owners : /\ Settle(o) /\ L!Settled(JobOf[o])'
                                /\ txn' = [phase |-> "close", attempt |-> JobOf[o]]
           \/ \E a \in Attempts :
                 /\ UNCHANGED <<pc, proc, started, resv, queueVars, state>> /\ holder' = Operator /\ L!Free
                 /\ \/ L!RecoverHeld(a) /\ txn' = [phase |-> "settle", attempt |-> a]
                    \/ L!RecoverSettled(a) /\ txn' = [phase |-> "closeRecovered", attempt |-> a]
           \/ /\ ReconcileAppends /\ holder' = Operator /\ UNCHANGED stopped
              /\ txn'.attempt = txn.attempt /\ txn.attempt \in Attempts
              /\ \/ txn.phase = "settle" /\ L!AppendRecoverySettle /\ txn'.phase \in {"closeRecovered", "close"}
                    /\ (L!Live(txn.attempt) => txn'.phase = "closeRecovered")
                 \/ txn.phase = "closeRecovered" /\ txn'.phase = "interrupt" /\ UNCHANGED resv
<1>0. /\ resv \in [Attempts -> L!Reservation] /\ txn \in L!Txn
      /\ txn.phase # "idle" => txn.attempt \in Attempts
    BY DEF Typed, LP!Shape, LP!TypeOK, LP!Reservation, L!Reservation, LP!Txn, L!Txn, LP!TxnNamesAttempt
<1> USE <1>0, OutcomesKnown DEF ledgerVars
<1>1. ASSUME NEW o \in Owners, Progress(o), ~Settle(o) PROVE txn' = txn \/ txn'.phase = "idle"
  <2>1. CASE Enqueue(o) \/ Claim(o) \/ Rejected(o) \/ Spawn(o) \/ StartWorker(o) \/ LaunchRefused(o)
      BY <2>1 DEF Enqueue, Claim, Rejected, Withdraw, Spawn, StartWorker, LaunchRefused,
         L!ProcessSpawned, L!WorkerStarted
  <2>2. CASE SeeExit(o) \/ SeeDeadline(o) \/ SeeClosure(o) \/ StopTree(o) \/ Record(o) \/ Decide(o)
      BY <2>2 DEF SeeExit, SeeDeadline, SeeClosure, LeaveLoop, StopTree, Record, Decide,
         L!ProcessGone, L!WorkerTreeStopped
  <2>3. CASE Confirm(o) \/ RecordStop(o) \/ AppendArmClosed(o) \/ Unconfirmed(o)
      BY <2>3 DEF Confirm, RecordStop, AppendArmClosed, Unconfirmed, L!ProcessGone,
         L!WorkerTreeStopped, L!AppendArmClosed, L!CloseArm, L!Idle
  <2>4. CASE Launch(o) \/ End(o)
      BY <2>4 DEF Launch, End, L!Transition
  <2> QED
      BY <1>1, <2>1, <2>2, <2>3, <2>4 DEF Progress
<1>2. ASSUME NEW o \in Owners, Settle(o)
      PROVE  txn'.phase = "idle" \/ /\ L!Settled(JobOf[o])'
                                    /\ txn' = [phase |-> "close", attempt |-> JobOf[o]]
  <2>1. PICK outcome \in Outcomes : L!Settle(JobOf[o], cost[o], TRUE, outcome)
      BY <1>2, OutcomesKnown DEF Settle, Typed, CallsTyped
  <2>2. L!Settled(JobOf[o])'
      BY <2>1 DEF L!Settle, L!SettleEvent, L!Settled, L!Reservation
  <2> QED
      BY <2>1, <2>2 DEF L!Settle, L!Idle
<1>3. ASSUME NEW o \in Owners, Disturbance(o) PROVE txn' = txn \/ txn'.phase = "idle"
  <2>1. CASE Reserve(o)
      BY <2>1 DEF Reserve, L!Reserve, L!RefuseReserve, L!ReserveDeclared
  <2> QED
      BY <1>3, <2>1 DEF Disturbance, PrepareFails, LosesPatience, Withdraw, HeartbeatLost, LeaveLoop,
         Fails, GivesUp, OwnerDies, L!Crash, L!Idle
<1>4. ASSUME NEW b \in Attempts, WorkerStep(b) \/ Submit(b) PROVE txn' = txn
    BY <1>4 DEF WorkerStep, Exits, Fuse, PipeClosed, OrphansEnd, Becomes, Deadline, L!ProcessGone,
       Submit, L!NewAttempt
<1>5. ASSUME NEW b \in Attempts, Reconcile(b)
      PROVE  /\ UNCHANGED <<pc, proc, started, resv, queueVars, state>> /\ holder' = Operator /\ L!Free
             /\ \/ L!RecoverHeld(b) /\ txn' = [phase |-> "settle", attempt |-> b]
                \/ L!RecoverSettled(b) /\ txn' = [phase |-> "closeRecovered", attempt |-> b]
    BY <1>5 DEF Reconcile, L!RecoverHeld, L!RecoverSettled, L!budgetVars, L!attemptVars, L!workerVars
<1>6. CASE ReconcileAppends
  <2>1. CASE L!AppendRecoverySettle
    <3>1. /\ txn.phase = "settle" /\ txn.attempt \in Attempts /\ UNCHANGED stopped
          /\ txn' = [txn EXCEPT !.phase = IF L!Live(txn.attempt) THEN "closeRecovered" ELSE "close"]
        BY <2>1 DEF L!AppendRecoverySettle, L!SettleEvent, L!workerVars
    <3>2. txn'.attempt = txn.attempt /\ txn'.phase = IF L!Live(txn.attempt) THEN "closeRecovered" ELSE "close"
        BY <3>1 DEF L!Txn
    <3>3. holder' = Operator
        BY <1>6, <3>2 DEF ReconcileAppends
    <3> QED
        BY <1>6, <2>1, <3>1, <3>2, <3>3
  <2>2. CASE L!AppendRecoveryClosed
      BY <1>6, <2>2 DEF ReconcileAppends, L!AppendRecoveryClosed, L!Txn, L!budgetVars, L!workerVars
  <2> QED
      BY <1>6, <2>1, <2>2 DEF ReconcileAppends, L!AppendInterrupted, L!AppendArmClosed, L!Idle
<1>7. CASE OperatorDies
    BY <1>7 DEF OperatorDies, L!Crash, L!Idle
<1>8. CASE Govern \/ UNCHANGED vars
    BY <1>8 DEF Govern, vars, L!ContinueArm, L!ExpireApproval, L!PlaceHold
<1> QED
    BY <1>1, <1>2, <1>3, <1>4, <1>5, <1>6, <1>7, <1>8 DEF Next

-----------------------------------------------------------------------------
(* An end without a settlement leaves the arm closed. *)

\* A call that reports an attempt it did not settle closed the arm before.
EndingClosed ==
    \A o \in Owners : pc[o] = "ending" /\ L!Held(JobOf[o]) => L!Arm(JobOf[o]) \in closed

Closing == EndingClosed /\ LP!PendingIsSettled /\ UnsettledEndClosesArm

\* A held reservation keeps a closed arm closed.
LEMMA HeldKeepsClosed ==
    ASSUME Typed, [Next]_vars, NEW a \in Attempts, L!Held(a), L!Arm(a) \in closed
    PROVE  L!Arm(a)' \in closed'
<1>1. LP!Shape /\ [LP!Next]_LP!vars
    BY LedgerMoves DEF Typed
<1>2. L!Registered(a)
    BY <1>1, HasRun DEF L!Held
<1>3. L!Arm(a)' = L!Arm(a)
    BY <1>2, CellStays DEF L!Arm
<1>4. ASSUME NEW m \in Arms, NEW ap \in Approvals, LP!ContinueArm(m, ap) PROVE m # L!Arm(a)
  <2>1. m = L!Arm(a) => a \in LP!Costs(m)
      BY DEF LP!Costs, LP!Arm, L!Arm, L!Held
  <2> QED
      BY <1>4, <2>1 DEF LP!ContinueArm, LP!Settled, L!Held
<1>5. closed \subseteq closed' \/ \E m \in Arms, ap \in Approvals : LP!ContinueArm(m, ap)
    BY <1>1, LP!ClosureMoves, SameAssumptions
<1> QED
    BY <1>3, <1>4, <1>5 DEF LP!ContinueArm

LEMMA StepClosing == Driven /\ Closing /\ [Next]_vars => Closing'
<1> SUFFICES ASSUME Driven, Closing, [Next]_vars PROVE Closing'
    OBVIOUS
<1>0. /\ Typed /\ CallsTyped /\ InLine /\ InLine' /\ LP!Shape /\ [LP!Next]_LP!vars
      /\ EndingClosed /\ LP!PendingIsSettled /\ UnsettledEndClosesArm
    BY LedgerMoves, StepLined DEF Driven, Lined, Typed, Closing
<1> USE <1>0, OutcomesKnown DEF CallsTyped
<1>1. LP!PendingIsSettled'
    BY LP!StepPendingSettled, SameAssumptions
\* Nothing that was reserved becomes held again.
<1>2. ASSUME NEW a \in Attempts, L!Held(a)', ~L!Held(a)
      PROVE  \E o \in Owners : JobOf[o] = a /\ Reserve(o) /\ L!Reserve(a, Ask[o])
  <2>1. resv'[a] # resv[a]
      BY <1>2 DEF L!Held
  <2>2. ASSUME L!SettleEvent(a, 0, FALSE, "INTERRUPTED")
               \/ \E e, s : L!SettleEvent(a, e, TRUE, s)
        PROVE  FALSE
      BY <1>2, <2>2 DEF L!SettleEvent
  <2> QED
      BY <2>1, <2>2, ReservationMoves DEF L!Settle, L!AppendRecoverySettle
<1>3. ASSUME NEW o \in Owners, pc'[o] = "ending", L!Held(JobOf[o])'
      PROVE  L!Arm(JobOf[o])' \in closed'
  <2>1. L!Held(JobOf[o])
    <3>1. CASE Reserve(o)
        BY <1>3, <3>1 DEF Reserve, Goto
    <3>2. CASE ~Reserve(o)
      <4>1. pc[o] \notin Quiet
        <5>1. pc[o] = pc'[o] \/ Progress(o) \/ Disturbance(o)
            BY OwnStep
        <5> QED
            BY <1>3, <3>2, <5>1, CallMoves DEF Quiet, Onward, Enqueue, Claim, Reserve, Goto
      <4>2. resv[JobOf[o]].phase # "none"
          BY <4>1 DEF InLine
      <4> QED
          BY <1>2, <1>3, <4>2 DEF L!Reserve, L!MayReserve, L!Held
    <3> QED
        BY <3>1, <3>2
  <2>2. CASE pc[o] = "ending"
      BY <2>1, <2>2, HeldKeepsClosed DEF EndingClosed
  <2>3. CASE pc[o] # "ending"
    <3>1. Settle(o) \/ Unconfirmed(o)
      <4>1. Progress(o) \/ Disturbance(o)
          BY <1>3, <2>3, OwnStep
      <4>2. CASE Disturbance(o)
          BY <1>3, <2>3, <4>2 DEF Disturbance, Reserve, PrepareFails, LosesPatience, Withdraw,
             HeartbeatLost, LeaveLoop, Fails, GivesUp, OwnerDies, Goto, Leave
      <4>3. CASE Progress(o)
          BY <1>3, <2>3, <4>3 DEF Progress, Enqueue, Claim, Rejected, Withdraw, Launch, Spawn,
             StartWorker, LaunchRefused, SeeExit, SeeDeadline, SeeClosure, LeaveLoop, StopTree,
             Record, Decide, Confirm, RecordStop, AppendArmClosed, End, Goto, Leave
      <4> QED
          BY <4>1, <4>2, <4>3
    <3>2. ~Settle(o)
      <4>1. resv \in [Attempts -> L!Reservation]
          BY DEF LP!Shape, LP!TypeOK, LP!Reservation, L!Reservation
      <4>2. ASSUME NEW s, L!Settle(JobOf[o], cost[o], TRUE, s) PROVE ~L!Held(JobOf[o])'
          BY <4>1, <4>2 DEF L!Settle, L!SettleEvent, L!Held, L!Reservation
      <4> QED
          BY <1>3, <2>1, <4>2 DEF Settle, ledgerVars, L!Settled, L!Held
    <3>3. Unconfirmed(o)
        BY <3>1, <3>2
    <3>4. closed' = closed \cup {L!Arm(JobOf[o])} /\ runOf' = runOf
        BY <3>3 DEF Unconfirmed, L!CloseArm, L!attemptVars
    <3> QED
        BY <3>4 DEF L!Arm
  <2> QED
      BY <2>2, <2>3
<1>4. ASSUME NEW a \in Attempts, state'[a] \in L!Terminal, L!Held(a)'
      PROVE  L!Arm(a)' \in closed'
  <2>1. L!Held(a)
    <3>1. ASSUME NEW o \in Owners, L!Reserve(a, Ask[o]) PROVE state'[a] = "REGISTERED"
        BY <3>1 DEF L!Reserve, L!Executable, L!attemptVars
    <3> QED
        BY <1>2, <1>4, <3>1 DEF L!Terminal
  <2>2. CASE state'[a] = state[a]
      BY <1>4, <2>1, <2>2, HeldKeepsClosed DEF UnsettledEndClosesArm
  <2>3. CASE state'[a] # state[a]
    <3>1. \/ \E o \in Owners : JobOf[o] = a /\ End(o) /\ UNCHANGED <<resv, closed>>
          \/ txn.phase = "interrupt" /\ txn.attempt = a
        BY <1>4, <2>1, <2>3, StateMoves DEF L!Terminal, L!Held
    <3>2. ~(txn.phase = "interrupt" /\ txn.attempt = a)
        BY <2>1 DEF LP!PendingIsSettled, LP!Settled, L!Held
    <3>3. L!Arm(a) \in closed
        BY <2>1, <3>1, <3>2 DEF End, Leave, Goto, EndingClosed
    <3> QED
        BY <2>1, <3>3, HeldKeepsClosed
  <2> QED
      BY <2>2, <2>3
<1> QED
    BY <1>1, <1>3, <1>4 DEF Closing, EndingClosed, UnsettledEndClosesArm

LEMMA InitClosing == Init => Closing
BY CallAssumption
   DEF Init, L!Init, L!Idle, L!Terminal, Closing, EndingClosed, LP!PendingIsSettled, UnsettledEndClosesArm

\* An attempt that ended while its cost is still reserved leaves its arm closed,
\* whatever happened to its call and whoever recovers what.
THEOREM UnsettledEndIsClosed == Spec => []UnsettledEndClosesArm
<1>1. Spec => []Closing
    BY InitClosing, StepClosing, DrivenAlways, PTL DEF Spec
<1>2. Closing => UnsettledEndClosesArm
    BY DEF Closing
<1> QED
    BY <1>1, <1>2, PTL

-----------------------------------------------------------------------------
(* A reported success is a whole one. *)

Whole(a) ==
    /\ a \in published /\ a \in stopped /\ proc[a] = "gone"
    /\ resv[a].phase = "settled" /\ resv[a].measured /\ resv[a].charged <= resv[a].reserved

\* The verdict SUCCEEDED is given once the result is published and the tree
\* gone, and is settled after the stop was recorded.
VerdictIsEarned ==
    \A o \in Owners : verdict[o] = "SUCCEEDED" =>
        /\ pc[o] \in {"finishing", "recording", "settling", "ending"}
        /\ JobOf[o] \in published /\ proc[JobOf[o]] = "gone"
        /\ pc[o] \in {"settling", "ending"} => JobOf[o] \in stopped
        /\ pc[o] = "ending" => Whole(JobOf[o])

Earned == VerdictIsEarned /\ \A a \in Attempts : state[a] = "SUCCEEDED" => Whole(a)

\* What a success rests on stays.
LEMMA EvidenceKept ==
    ASSUME Driven, [Next]_vars, NEW a \in Attempts
    PROVE  /\ a \in published => a \in published'
           /\ a \in stopped => a \in stopped'
           /\ proc[a] = "gone" => proc'[a] = "gone"
           /\ L!Settled(a) => resv'[a] = resv[a]
<1>0. CallsTyped /\ WorkerFollowsCall /\ LP!Shape /\ [LP!Next]_LP!vars
    BY LedgerMoves DEF Driven, Lined, Typed
<1> USE <1>0 DEF CallsTyped
<1>1. L!Settled(a) => resv'[a] = resv[a]
    BY LP!CostStays, SameAssumptions DEF L!Settled, LP!Settled
<1>2. proc[a] = "gone" => proc'[a] = "gone"
  <2>1. ASSUME NEW o \in Owners, Spawn(o), proc[a] = "gone" PROVE proc'[a] = "gone"
      BY <2>1 DEF Spawn, Goto, WorkerFollowsCall
  <2>2. ASSUME NEW o \in Owners, StartWorker(o), proc[a] = "gone" PROVE proc'[a] = "gone"
      BY <2>2 DEF StartWorker
  <2>3. ASSUME NEW o \in Owners, StopTree(o) \/ Confirm(o), proc[a] = "gone" PROVE proc'[a] = "gone"
      BY <2>3 DEF StopTree, Confirm
  <2>4. ASSUME NEW b \in Attempts, Ends(b), proc[a] = "gone" PROVE proc'[a] = "gone"
      BY <2>4 DEF Ends
  <2> QED
      BY <2>1, <2>2, <2>3, <2>4, WorkMoves
<1>3. a \in stopped => a \in stopped'
  <2>1. ASSUME NEW b \in Attempts, LP!AttemptStep(b) \/ LP!BudgetStep(b) \/ LP!WorkerStep(b)
        PROVE  stopped \subseteq stopped'
      BY <2>1 DEF LP!AttemptStep, LP!NewAttempt, LP!RecordDeclaredRefusal, LP!Register, LP!Transition,
         LP!BudgetStep, LP!ReserveDeclared, LP!Reserve, LP!RefuseReserve, LP!Settle, LP!SettleEvent,
         LP!RecoverHeld, LP!RecoverSettled, LP!WorkerStep, LP!ProcessSpawned, LP!WorkerStarted,
         LP!ProcessGone, LP!WorkerTreeStopped, LP!workerVars
  <2>2. ASSUME NEW m \in Arms, LP!ArmStep(m) PROVE stopped' = stopped
      BY <2>2 DEF LP!ArmStep, LP!CloseArm, LP!ContinueArm, LP!workerVars
  <2>3. CASE LP!AppendNext
      BY <2>3 DEF LP!AppendNext, LP!AppendRefusal, LP!AppendArmClosed, LP!AppendRecoverySettle,
         LP!SettleEvent, LP!AppendRecoveryClosed, LP!AppendInterrupted, LP!workerVars
  <2>4. CASE (\E ap \in Approvals : LP!ExpireApproval(ap)) \/ LP!PlaceHold \/ LP!Crash \/ UNCHANGED LP!vars
      BY <2>4 DEF LP!ExpireApproval, LP!PlaceHold, LP!Crash, LP!vars, LP!workerVars
  <2> QED
      BY <2>1, <2>2, <2>3, <2>4 DEF LP!Next
<1>4. published \subseteq published'
  <2>1. ASSUME NEW o \in Owners, Progress(o) PROVE published \subseteq published'
      BY <2>1 DEF Progress, Enqueue, Claim, Rejected, Withdraw, Launch, Spawn, StartWorker,
         LaunchRefused, SeeExit, SeeDeadline, SeeClosure, LeaveLoop, StopTree, Record, Decide,
         Confirm, RecordStop, Settle, AppendArmClosed, Unconfirmed, End
  <2>2. ASSUME NEW o \in Owners, Disturbance(o) PROVE published' = published
      BY <2>2 DEF Disturbance, Reserve, PrepareFails, LosesPatience, Withdraw, HeartbeatLost,
         LeaveLoop, Fails, GivesUp, OwnerDies
  <2>3. ASSUME NEW b \in Attempts, WorkerStep(b) \/ Submit(b) \/ Reconcile(b) PROVE published' = published
      BY <2>3 DEF WorkerStep, Exits, Fuse, PipeClosed, OrphansEnd, Becomes, Deadline, Submit, Reconcile
  <2>4. CASE ReconcileAppends \/ OperatorDies \/ Govern \/ UNCHANGED vars
      BY <2>4 DEF ReconcileAppends, OperatorDies, Govern, vars
  <2> QED
      BY <2>1, <2>2, <2>3, <2>4 DEF Next
<1> QED
    BY <1>1, <1>2, <1>3, <1>4

LEMMA WholeKept ==
    ASSUME Driven, [Next]_vars, NEW a \in Attempts, Whole(a)
    PROVE  Whole(a)'
BY EvidenceKept DEF Whole, L!Settled

\* How a call comes to the verdict of success, and what it does with it.
LEMMA VerdictMoves ==
    ASSUME CallsTyped, [Next]_vars, VerdictIsEarned,
           NEW o \in Owners, verdict'[o] = "SUCCEEDED"
    PROVE  \/ Decide(o)
           \/ /\ verdict[o] = "SUCCEEDED"
              /\ pc'[o] = pc[o] \/ Confirm(o) \/ RecordStop(o) \/ Settle(o)
<1> USE DEF CallsTyped, Goto, Judge, Leave, jobVars
<1>0. verdict[o] = "SUCCEEDED" => pc[o] \in {"finishing", "recording", "settling", "ending"}
    BY DEF VerdictIsEarned
<1>1. ASSUME NEW p \in Owners, Progress(p), p # o PROVE verdict'[o] = verdict[o] /\ pc'[o] = pc[o]
  <2>1. CASE Settle(p)
    <3>1. /\ \E v : verdict' = [verdict EXCEPT ![p] = v]
          /\ \E v : pc' = [pc EXCEPT ![p] = v]
        BY <2>1 DEF Settle
    <3> QED
        BY <1>1, <3>1
  <2> QED
      BY <1>1, <2>1 DEF Progress, Enqueue, Claim, Rejected, Withdraw, Launch, Spawn, StartWorker,
         LaunchRefused, SeeExit, SeeDeadline, SeeClosure, LeaveLoop, StopTree, Record, Decide,
         Confirm, RecordStop, AppendArmClosed, Unconfirmed, End
<1>2. ASSUME NEW p \in Owners, Disturbance(p), p # o PROVE verdict'[o] = verdict[o] /\ pc'[o] = pc[o]
    BY <1>2 DEF Disturbance, Reserve, PrepareFails, LosesPatience, Withdraw, HeartbeatLost, LeaveLoop,
       Fails, GivesUp, OwnerDies, Underway
<1>3. ASSUME NEW a \in Attempts, WorkerStep(a) \/ Submit(a) \/ Reconcile(a)
      PROVE  verdict'[o] = verdict[o] /\ pc'[o] = pc[o]
    BY <1>3 DEF WorkerStep, Exits, Fuse, PipeClosed, OrphansEnd, Becomes, Deadline, Submit, Reconcile
<1>4. CASE ReconcileAppends \/ OperatorDies \/ Govern \/ UNCHANGED vars
    BY <1>4 DEF ReconcileAppends, OperatorDies, Govern, vars
<1>5. CASE Progress(o)
  <2>1. CASE Enqueue(o) \/ Claim(o) \/ Rejected(o) \/ Launch(o) \/ Spawn(o) \/ Record(o)
      BY <1>0, <2>1 DEF Enqueue, Claim, Rejected, Withdraw, Launch, Spawn, Record
  <2>2. CASE StartWorker(o) \/ LaunchRefused(o)
      BY <1>0, <2>2 DEF StartWorker, LaunchRefused, ErrorVerdict
  <2>3. CASE SeeExit(o) \/ SeeDeadline(o) \/ SeeClosure(o) \/ StopTree(o)
      BY <1>0, <2>3 DEF SeeExit, SeeDeadline, SeeClosure, LeaveLoop, StopTree
  <2>4. CASE Confirm(o) \/ RecordStop(o) \/ AppendArmClosed(o) \/ Unconfirmed(o) \/ End(o)
      BY <2>4 DEF Confirm, RecordStop, AppendArmClosed, Unconfirmed, End
  <2>5. CASE Settle(o)
      BY <2>5 DEF Settle
  <2> QED
      BY <1>5, <2>1, <2>2, <2>3, <2>4, <2>5 DEF Progress
<1>6. CASE Disturbance(o)
  <2>1. CASE Fails(o)
      BY <2>1 DEF Fails, ErrorVerdict
  <2> QED
      BY <1>0, <1>6, <2>1 DEF Disturbance, Reserve, PrepareFails, LosesPatience, Withdraw, HeartbeatLost,
         LeaveLoop, GivesUp, OwnerDies
<1> QED
    BY <1>1, <1>2, <1>3, <1>4, <1>5, <1>6 DEF Next

LEMMA StepEarned == Driven /\ Earned /\ [Next]_vars => Earned'
<1> SUFFICES ASSUME Driven, Earned, [Next]_vars PROVE Earned'
    OBVIOUS
<1>0. /\ Typed /\ CallsTyped /\ InLine /\ WorkerFollowsCall /\ VerdictIsEarned
      /\ resv \in [Attempts -> L!Reservation] /\ stopped \subseteq Attempts
      /\ \A a \in Attempts : Whole(a) => Whole(a)'
    BY WholeKept DEF Driven, Lined, Typed, Earned, LP!Shape, LP!TypeOK, LP!Reservation, L!Reservation
<1> USE <1>0, OutcomesKnown DEF CallsTyped
<1>1. ASSUME NEW a \in Attempts, state'[a] = "SUCCEEDED" PROVE Whole(a)'
  <2>1. CASE state[a] = "SUCCEEDED"
      BY <2>1 DEF Earned
  <2>2. CASE state[a] # "SUCCEEDED"
    <3>1. PICK o \in Owners : JobOf[o] = a /\ End(o) /\ verdict[o] = "SUCCEEDED"
        BY <1>1, <2>2, StateMoves
    <3>2. Whole(a)
        BY <3>1 DEF End, Leave, Goto, VerdictIsEarned
    <3> QED
        BY <3>2
  <2> QED
      BY <2>1, <2>2
<1>2. ASSUME NEW o \in Owners, verdict'[o] = "SUCCEEDED"
      PROVE  /\ pc'[o] \in {"finishing", "recording", "settling", "ending"}
             /\ JobOf[o] \in published' /\ proc'[JobOf[o]] = "gone"
             /\ pc'[o] \in {"settling", "ending"} => JobOf[o] \in stopped'
             /\ pc'[o] = "ending" => Whole(JobOf[o])'
  <2>0. /\ JobOf[o] \in published => JobOf[o] \in published'
        /\ JobOf[o] \in stopped => JobOf[o] \in stopped'
        /\ proc[JobOf[o]] = "gone" => proc'[JobOf[o]] = "gone"
      BY EvidenceKept
  <2>1. CASE Decide(o)
      BY <1>2, <2>0, <2>1 DEF Decide, Goto, Judge, WorkerFollowsCall, VerdictIsEarned
  <2>2. CASE verdict[o] = "SUCCEEDED" /\ pc'[o] = pc[o]
      BY <2>0, <2>2 DEF VerdictIsEarned
  <2>3. CASE verdict[o] = "SUCCEEDED" /\ Confirm(o)
      BY <2>0, <2>3 DEF Confirm, Goto, VerdictIsEarned
  <2>4. CASE verdict[o] = "SUCCEEDED" /\ RecordStop(o)
      BY <2>0, <2>4 DEF RecordStop, Goto, L!WorkerTreeStopped, VerdictIsEarned
  <2>5. CASE verdict[o] = "SUCCEEDED" /\ Settle(o)
    <3>1. /\ pc[o] = "settling" /\ JobOf[o] \in stopped /\ JobOf[o] \in published
          /\ proc[JobOf[o]] = "gone" /\ cost[o] \in Nat
        BY <2>5, LedgerAssumption DEF Settle, Goto, Leave, VerdictIsEarned, Measured
    <3>2. CASE \E s \in Outcomes : verdict' = [verdict EXCEPT ![o] = s] /\ L!Settle(JobOf[o], cost[o], TRUE, s)
                                   /\ (s = "SUCCEEDED" => cost[o] <= resv[JobOf[o]].reserved)
      <4>1. /\ resv'[JobOf[o]].phase = "settled" /\ resv'[JobOf[o]].measured
            /\ resv'[JobOf[o]].charged = cost[o] /\ resv'[JobOf[o]].reserved = resv[JobOf[o]].reserved
          BY <3>2 DEF L!Settle, L!SettleEvent, L!Reservation
      <4>2. cost[o] <= resv[JobOf[o]].reserved
          BY <1>2, <3>2
      <4>3. pc'[o] \in {"ending", "done"}
          BY <2>5 DEF Settle, Goto, Leave
      <4>4. pc'[o] = "ending"
          BY <1>2, <2>5, <4>3 DEF Settle, Goto, Leave
      <4> QED
          BY <2>0, <3>1, <4>1, <4>2, <4>4 DEF Whole
    <3>3. CASE L!Settled(JobOf[o]) /\ UNCHANGED ledgerVars
      <4>1. /\ pc'[o] = "ending" /\ resv[JobOf[o]].measured /\ resv[JobOf[o]].charged = cost[o]
            /\ cost[o] <= resv[JobOf[o]].reserved
        <5>1. resv[JobOf[o]].reserved \in Nat
            BY DEF L!Reservation
        <5>2. L!Settle(JobOf[o], cost[o], TRUE, verdict'[o]) => FALSE
            BY <3>3 DEF L!Settle, L!SettleEvent, L!Settled, L!Held
        <5> QED
            BY <1>2, <2>5, <3>1, <3>3, <5>1 DEF Settle, Goto, Leave, Judge, L!Settle, L!SettleEvent, L!Settled, L!Held
      <4> QED
          BY <2>0, <3>1, <3>3, <4>1 DEF Whole, L!Settled, ledgerVars
    <3> QED
      <4>1. resv[JobOf[o]].reserved \in Nat
          BY DEF L!Reservation
      <4>2. DEFINE late == verdict[o] = "SUCCEEDED" /\ (JobOf[o] \in due \/ cost[o] > resv[JobOf[o]].reserved)
                   out == IF late THEN "TIMEOUT" ELSE verdict[o]
      <4>3. out \in Outcomes /\ (out = "SUCCEEDED" => cost[o] <= resv[JobOf[o]].reserved)
          BY <3>1, <4>1
      <4>4. \/ Judge(o, out) /\ L!Settle(JobOf[o], cost[o], TRUE, out)
            \/ L!Settled(JobOf[o]) /\ UNCHANGED ledgerVars
          BY <2>5 DEF Settle
      <4> HIDE DEF out
      <4> QED
          BY <3>2, <3>3, <4>3, <4>4 DEF Judge
  <2> QED
      BY <1>2, <2>1, <2>2, <2>3, <2>4, <2>5, VerdictMoves
<1> QED
    BY <1>1, <1>2 DEF Earned, VerdictIsEarned

LEMMA InitEarned == Init => Earned
BY CallAssumption DEF Init, L!Init, Earned, VerdictIsEarned

\* A success recorded by any call is whole: published, stopped on record and
\* settled at a measured cost within its reservation.
THEOREM SuccessesAreWhole == Spec => []SuccessIsWhole
<1>1. Spec => []Earned
    BY InitEarned, StepEarned, DrivenAlways, PTL DEF Spec
<1>2. Earned => SuccessIsWhole
    BY DEF Earned, Whole, SuccessIsWhole, Running
<1> QED
    BY <1>1, <1>2, PTL

-----------------------------------------------------------------------------
(* Work is funded. *)

\* A call of the attempt whose wait for the lock may end early is its only one.
Alone(a) == \A o \in Impatient, p \in Owners : JobOf[o] = a /\ JobOf[p] = a => o = p

SoleImpatience == \A a \in Attempts : Alone(a)

\* A recovery is not cut short under a living call.
RecoveryEnds == RecoveryDies # "always"

Past == Driving \cup {"settling", "ending"}

\* What is queued was queued by a call that went on, one call at most of an
\* attempt that is Alone is past the queue, with the entry or impatient.
OneCallPast ==
    /\ \A a \in Attempts : Q!Queued(a) =>
          \E o \in Owners : JobOf[o] = a /\ pc[o] \notin {"idle", "reserved"}
    /\ \A o, p \in Owners :
          Alone(JobOf[o]) /\ pc[o] \in Past /\ pc[p] \in Past /\ JobOf[o] = JobOf[p] => o = p
    /\ \A o \in Owners : pc[o] \in Past => Q!Queued(JobOf[o]) \/ o \in Impatient

LEMMA QueueGrows ==
    ASSUME Lined, [Next]_vars
    PROVE  \A a \in Attempts : Q!Queued(a)' <=>
               Q!Queued(a) \/ \E o \in Owners : Enqueue(o) /\ Q!Enqueue(a) /\ JobOf[o] = a
<1>0. Typed /\ CallsTyped /\ QueueTyped
    BY DEF Lined, Typed
<1>1. ASSUME NEW o \in Owners, Enqueue(o), Q!Enqueue(JobOf[o]), NEW a \in Attempts
      PROVE  Q!Queued(a)' <=> Q!Queued(a) \/ \E p \in Owners : Enqueue(p) /\ Q!Enqueue(a) /\ JobOf[p] = a
  <2>1. Q!Queued(a)' <=> Q!Queued(a) \/ a = JobOf[o]
      BY <1>0, <1>1, Entering, OutcomesKnown
  <2>2. ASSUME NEW p \in Owners, Q!Enqueue(a), JobOf[p] = a PROVE Q!Queued(a)'
      BY <1>0, <2>2, Entering
  <2> QED
      BY <1>1, <2>1, <2>2
<1>2. ASSUME queue' = queue, NEW a \in Attempts
      PROVE  /\ Q!Queued(a)' <=> Q!Queued(a)
             /\ ~Q!Enqueue(a)
    BY <1>0, <1>2 DEF Q!Queued, Q!Position, Q!Enqueue, QueueTyped
<1>3. (\E o \in Owners : Enqueue(o) /\ Q!Enqueue(JobOf[o])) \/ queue' = queue
    BY <1>0, CallMoves DEF Reserve, queueVars, Claim, Q!Claim, Q!ClaimPermitted, Q!ClaimInTurn
<1> QED
    BY <1>1, <1>2, <1>3

\* The two ways past the queue.
LEMMA ComesPast ==
    ASSUME CallsTyped, [Next]_vars, NEW o \in Owners, pc'[o] \in Past, pc[o] \notin Past
    PROVE  /\ pc[o] = "reserved"
           /\ \/ Enqueue(o) /\ Q!Enqueue(JobOf[o]) /\ pc'[o] = "queued"
              \/ LosesPatience(o) /\ pc'[o] = "settling"
<1> USE DEF CallsTyped, Goto, Leave, Past, Driving
<1>1. Progress(o) \/ Disturbance(o)
    BY OwnStep
<1>2. CASE Progress(o)
    BY <1>2 DEF Progress, Enqueue, Claim, Rejected, Withdraw, Launch, Spawn, StartWorker,
       LaunchRefused, SeeExit, SeeDeadline, SeeClosure, LeaveLoop, StopTree, Record, Decide,
       Confirm, RecordStop, Settle, AppendArmClosed, Unconfirmed, End
<1>3. CASE Disturbance(o)
    BY <1>3 DEF Disturbance, Reserve, PrepareFails, LosesPatience, Withdraw, HeartbeatLost, LeaveLoop,
       Fails, GivesUp, OwnerDies
<1> QED
    BY <1>1, <1>2, <1>3

LEMMA StepAlone ==
    ASSUME Lined, OneCallPast, [Next]_vars
    PROVE  OneCallPast'
<1>0. CallsTyped /\ InLine /\ JobOf \in [Owners -> Attempts]
    BY OutcomesKnown, CallAssumption DEF Lined, Typed
<1> USE <1>0
<1>q. \A a \in Attempts : Q!Queued(a)' <=>
          Q!Queued(a) \/ \E o \in Owners : Enqueue(o) /\ Q!Enqueue(a) /\ JobOf[o] = a
    BY QueueGrows
<1>1. ASSUME NEW a \in Attempts, Q!Queued(a)'
      PROVE  \E o \in Owners : JobOf[o] = a /\ pc'[o] \notin {"idle", "reserved"}
  <2>1. ASSUME NEW o \in Owners, pc[o] \notin {"idle", "reserved"} PROVE pc'[o] \notin {"idle", "reserved"}
      BY <2>1, CallMoves DEF CallsTyped, Reserve, Enqueue, Claim, Goto, Onward
  <2>2. ASSUME NEW o \in Owners, Enqueue(o), Q!Enqueue(a), JobOf[o] = a
        PROVE  pc'[o] = "queued"
      BY <2>2 DEF Enqueue, Goto, CallsTyped, Q!Enqueue
  <2>3. CASE Q!Queued(a)
      BY <2>1, <2>3 DEF OneCallPast
  <2>4. CASE \E o \in Owners : Enqueue(o) /\ Q!Enqueue(a) /\ JobOf[o] = a
      BY <2>2, <2>4
  <2> QED
      BY <1>1, <1>q, <2>3, <2>4
<1>2. ASSUME NEW o \in Owners, NEW p \in Owners, o # p, JobOf[o] = JobOf[p],
             Alone(JobOf[o]), pc'[o] \in Past, pc[o] \notin Past
      PROVE  pc[p] \notin Past /\ pc'[p] = pc[p]
  <2>1. /\ pc[o] = "reserved"
        /\ \/ Enqueue(o) /\ Q!Enqueue(JobOf[o])
           \/ LosesPatience(o)
      BY <1>2, ComesPast
  <2>2. pc'[p] = pc[p]
      BY <1>2, <2>1 DEF Enqueue, LosesPatience, Withdraw, Goto, CallsTyped
  <2>3. pc[p] \notin Past
      BY <1>2, <2>1 DEF OneCallPast, LosesPatience, Alone, Q!Enqueue
  <2> QED
      BY <2>2, <2>3
<1>3. ASSUME NEW o \in Owners, NEW p \in Owners, JobOf[o] = JobOf[p], Alone(JobOf[o]),
             pc'[o] \in Past, pc'[p] \in Past
      PROVE  o = p
    BY <1>2, <1>3 DEF OneCallPast
<1>4. ASSUME NEW o \in Owners, pc'[o] \in Past PROVE Q!Queued(JobOf[o])' \/ o \in Impatient
  <2>1. CASE pc[o] \in Past
      BY <1>q, <2>1 DEF OneCallPast
  <2>2. CASE pc[o] \notin Past
      BY <1>4, <1>q, <2>2, ComesPast DEF LosesPatience
  <2> QED
      BY <2>1, <2>2
<1> QED
    BY <1>1, <1>3, <1>4 DEF OneCallPast

\* A call settles only what never started or has a stop on record.
Contained ==
    \A o \in Owners : Alone(JobOf[o]) /\ pc[o] = "settling" =>
        /\ proc[JobOf[o]] \in {"none", "gone"}
        /\ JobOf[o] \in started => JobOf[o] \in stopped

LEMMA ReachesSettling ==
    ASSUME CallsTyped, [Next]_vars, NEW o \in Owners, pc'[o] = "settling", pc[o] # "settling"
    PROVE  Rejected(o) \/ PrepareFails(o) \/ LosesPatience(o) \/ RecordStop(o)
           \/ (Confirm(o) /\ proc[JobOf[o]] = "none")
<1> USE DEF CallsTyped, Goto, Leave
<1>1. Progress(o) \/ Disturbance(o)
    BY OwnStep
<1>2. CASE Progress(o)
    BY <1>2 DEF Progress, Enqueue, Claim, Launch, Spawn, StartWorker,
       LaunchRefused, SeeExit, SeeDeadline, SeeClosure, LeaveLoop, StopTree, Record, Decide,
       Confirm, Settle, AppendArmClosed, Unconfirmed, End
<1>3. CASE Disturbance(o)
    BY <1>3 DEF Disturbance, Reserve, HeartbeatLost, LeaveLoop, Fails, GivesUp, OwnerDies
<1> QED
    BY <1>1, <1>2, <1>3

LEMMA StepContained ==
    ASSUME Driven, OneCallPast, Contained, [Next]_vars
    PROVE  Contained'
<1>0. CallsTyped /\ InLine /\ WorkerFollowsCall
    BY DEF Driven, Lined, Typed
<1>1. \A a \in Attempts : a \in stopped => a \in stopped'
    BY EvidenceKept
<1> USE <1>0, <1>1, OutcomesKnown
<1>2. ASSUME NEW o \in Owners, Alone(JobOf[o]), pc'[o] = "settling", pc[o] = "settling"
      PROVE  /\ proc'[JobOf[o]] \in {"none", "gone"}
             /\ JobOf[o] \in started' => JobOf[o] \in stopped'
  <2>1. /\ proc[JobOf[o]] \in {"none", "gone"}
        /\ JobOf[o] \in started => JobOf[o] \in stopped
      BY <1>2 DEF Contained
  <2>2. ASSUME NEW p \in Owners, Spawn(p) \/ StartWorker(p) \/ StopTree(p) \/ Confirm(p)
        PROVE  /\ proc'[JobOf[o]] = proc[JobOf[o]]
               /\ JobOf[o] \in started' => JobOf[o] \in started
    <3>1. pc[p] \in Driving
        BY <2>2 DEF Spawn, StartWorker, StopTree, Confirm, Goto, Driving
    <3>2. JobOf[p] # JobOf[o]
        BY <1>2, <3>1 DEF OneCallPast, Past, Driving
    <3> QED
        BY <2>2, <3>2 DEF Spawn, StartWorker, StopTree, Confirm, L!ProcessSpawned,
           L!WorkerStarted, L!ProcessGone, CallsTyped
  <2>3. ASSUME NEW b \in Attempts, Ends(b) PROVE proc'[JobOf[o]] = proc[JobOf[o]] /\ started' = started
      BY <2>1, <2>3 DEF Ends, Running, CallsTyped
  <2> QED
      BY <2>1, <2>2, <2>3, WorkMoves
<1>3. ASSUME NEW o \in Owners, Alone(JobOf[o]), pc'[o] = "settling", pc[o] # "settling"
      PROVE  /\ proc'[JobOf[o]] \in {"none", "gone"}
             /\ JobOf[o] \in started' => JobOf[o] \in stopped'
  <2>1. CASE Rejected(o) \/ PrepareFails(o) \/ LosesPatience(o)
    <3>1. /\ UNCHANGED <<proc, started>>
          /\ pc[o] \in {"queued", "claimed"} \/ (pc[o] = "reserved" /\ o \in Impatient)
        BY <2>1 DEF Rejected, PrepareFails, LosesPatience, Withdraw, Goto, ledgerVars
    <3>2. proc[JobOf[o]] = "none"
      <4>1. CASE pc[o] = "queued"
          BY <4>1 DEF InLine, WorkerFollowsCall
      <4>2. CASE pc[o] = "claimed"
          BY <4>2 DEF WorkerFollowsCall
      <4>3. CASE pc[o] = "reserved" /\ o \in Impatient
        <5>1. ~Q!Queued(JobOf[o])
            BY <1>3, <4>3 DEF OneCallPast, Alone
        <5> QED
            BY <5>1 DEF InLine, WorkerFollowsCall
      <4> QED
          BY <3>1, <4>1, <4>2, <4>3
    <3> QED
        BY <3>1, <3>2 DEF WorkerFollowsCall
  <2>2. CASE RecordStop(o)
      BY <2>2 DEF RecordStop, Goto, L!WorkerTreeStopped, WorkerFollowsCall
  <2>3. CASE Confirm(o) /\ proc[JobOf[o]] = "none"
      BY <2>3 DEF Confirm, L!ProcessGone, WorkerFollowsCall, CallsTyped
  <2> QED
      BY <1>3, <2>1, <2>2, <2>3, ReachesSettling
<1> QED
    BY <1>2, <1>3 DEF Contained

\* A recovery settles no worker that may run, and no started one without its
\* stop on record.
RecoveredIsOver ==
    txn.phase = "settle" =>
        /\ Running(txn.attempt) => txn.attempt \notin started
        /\ txn.attempt \in started => txn.attempt \in stopped

LEMMA StepRecovered ==
    ASSUME Driven, RecoveredIsOver, [Next]_vars
    PROVE  RecoveredIsOver'
<1>0. CallsTyped /\ Typed /\ WorkerFollowsCall
    BY DEF Driven, Lined, Typed
<1>1. \A a \in Attempts : a \in stopped => a \in stopped'
    BY EvidenceKept
<1> USE <1>0, <1>1
<1>2. ASSUME txn' = txn, txn.phase = "settle"
      PROVE  /\ Running(txn.attempt)' => txn.attempt \notin started'
             /\ txn.attempt \in started' => txn.attempt \in stopped'
  <2>0. txn.attempt \in Attempts
      BY <1>2 DEF Typed, LP!Shape, LP!TxnNamesAttempt
  <2>1. CASE UNCHANGED <<proc, started>>
      BY <1>2, <2>0, <2>1 DEF RecoveredIsOver, Running
  <2>2. ASSUME NEW o \in Owners, Spawn(o) \/ StartWorker(o) \/ StopTree(o) \/ Confirm(o)
        PROVE  /\ started' = started
               /\ Running(txn.attempt)' => Running(txn.attempt) \/ txn.attempt \notin started
      BY <1>2, <2>0, <2>2 DEF Spawn, StartWorker, StopTree, Confirm, L!ProcessSpawned, L!WorkerStarted,
         L!ProcessGone, L!Free, Running, CallsTyped
  <2>3. ASSUME NEW b \in Attempts, Ends(b)
        PROVE  started' = started /\ (Running(txn.attempt)' => Running(txn.attempt))
      BY <2>0, <2>3 DEF Ends, Running, CallsTyped
  <2> QED
      BY <1>2, <2>0, <2>1, <2>2, <2>3, WorkMoves DEF RecoveredIsOver
<1>3. ASSUME txn' # txn, txn'.phase = "settle"
      PROVE  RecoveredIsOver'
  <2>1. PICK a \in Attempts : /\ L!RecoverHeld(a) /\ txn' = [phase |-> "settle", attempt |-> a]
                              /\ UNCHANGED <<proc, started>>
    <3>1. ASSUME NEW b \in Attempts, txn' = [phase |-> "closeRecovered", attempt |-> b] PROVE FALSE
        BY <1>3, <3>1
    <3>2. ASSUME NEW o \in Owners, txn' = [phase |-> "close", attempt |-> JobOf[o]] PROVE FALSE
        BY <1>3, <3>2
    <3> QED
        BY <1>3, <3>1, <3>2, PendingMoves
  <2>2. txn'.attempt = a
      BY <2>1
  <2>3. Running(a)' => a \notin started'
      BY <2>1 DEF L!RecoverHeld, Alive, Running
  <2>4. a \in started' => a \in stopped'
      BY <2>1 DEF L!RecoverHeld, L!PossiblyLaunched
  <2> QED
      BY <2>2, <2>3, <2>4 DEF RecoveredIsOver, Running
<1> QED
    BY <1>2, <1>3 DEF RecoveredIsOver, Running

\* A recovery under way goes on, or dies.
LEMMA RecoveryGoesOn ==
    ASSUME CallsTyped, [Next]_vars, holder = Operator,
           txn \in L!Txn, txn.phase \in {"closeRecovered", "interrupt"}
    PROVE  \/ UNCHANGED <<txn, holder>>
           \/ txn' = [txn EXCEPT !.phase = "interrupt"] /\ holder' = Operator
           \/ L!AppendInterrupted
           \/ OperatorDies
<1> USE CallAssumption DEF ledgerVars, L!Free
<1>1. ASSUME NEW o \in Owners, Progress(o) PROVE UNCHANGED <<txn, holder>>
  <2>1. CASE Enqueue(o) \/ Claim(o) \/ Rejected(o) \/ Spawn(o) \/ StartWorker(o) \/ LaunchRefused(o)
      BY <2>1 DEF Enqueue, Claim, Rejected, Withdraw, Spawn, StartWorker, LaunchRefused,
         L!ProcessSpawned, L!WorkerStarted
  <2>2. CASE SeeExit(o) \/ SeeDeadline(o) \/ SeeClosure(o) \/ StopTree(o) \/ Record(o) \/ Decide(o)
      BY <2>2 DEF SeeExit, SeeDeadline, SeeClosure, LeaveLoop, StopTree, Record, Decide,
         L!ProcessGone, L!WorkerTreeStopped
  <2>3. CASE Confirm(o) \/ RecordStop(o) \/ AppendArmClosed(o) \/ Unconfirmed(o)
      BY <2>3 DEF Confirm, RecordStop, AppendArmClosed, Unconfirmed, L!ProcessGone,
         L!WorkerTreeStopped, L!AppendArmClosed, L!CloseArm
  <2>4. CASE Launch(o) \/ End(o) \/ Settle(o)
      BY <2>4 DEF Launch, End, L!Transition, Settle, L!Settle
  <2> QED
      BY <1>1, <2>1, <2>2, <2>3, <2>4 DEF Progress
<1>2. ASSUME NEW o \in Owners, Disturbance(o) PROVE UNCHANGED <<txn, holder>>
  <2>1. CASE Reserve(o)
      BY <2>1 DEF Reserve, L!Reserve, L!RefuseReserve, L!ReserveDeclared
  <2> QED
      BY <1>2, <2>1 DEF Disturbance, PrepareFails, LosesPatience, Withdraw, HeartbeatLost, LeaveLoop,
         Fails, GivesUp, OwnerDies
<1>3. ASSUME NEW b \in Attempts, WorkerStep(b) PROVE UNCHANGED <<txn, holder>>
    BY <1>3 DEF WorkerStep, Exits, Fuse, PipeClosed, OrphansEnd, Becomes, Deadline, L!ProcessGone
<1>4. ASSUME NEW b \in Attempts, Submit(b) \/ Reconcile(b) PROVE UNCHANGED <<txn, holder>>
    BY <1>4 DEF Submit, L!NewAttempt, Reconcile, L!RecoverHeld, L!RecoverSettled
<1>5. CASE ReconcileAppends
  <2>1. CASE L!AppendRecoveryClosed
    <3>1. txn' = [txn EXCEPT !.phase = "interrupt"]
        BY <2>1 DEF L!AppendRecoveryClosed
    <3>2. txn'.phase = "interrupt"
        BY <3>1 DEF L!Txn
    <3> QED
        BY <1>5, <3>1, <3>2 DEF ReconcileAppends
  <2> QED
      BY <1>5, <2>1 DEF ReconcileAppends, L!AppendRecoverySettle, L!AppendArmClosed
<1>6. CASE Govern
    BY <1>6 DEF Govern, L!ContinueArm, L!ExpireApproval, L!PlaceHold
<1>7. CASE UNCHANGED vars
    BY <1>7 DEF vars
<1> QED
    BY <1>1, <1>2, <1>3, <1>4, <1>5, <1>6, <1>7 DEF Next

\* A call that may still launch its worker.
Early(o) == \/ pc[o] \in {"queued", "claimed", "launching", "spawned"}
            \/ pc[o] = "reserved" /\ ~Q!Queued(JobOf[o])

\* Its attempt is not settled, unless a recovery still holds the lock and will
\* end the attempt with it.
SettledIsPending ==
    \A o \in Owners : Alone(JobOf[o]) /\ Early(o) /\ L!Live(JobOf[o]) /\ L!Settled(JobOf[o]) =>
        txn.attempt = JobOf[o] /\ txn.phase \in {"closeRecovered", "interrupt"} /\ holder = Operator

LEMMA StepSettledPending ==
    ASSUME RecoveryEnds, Lined, OneCallPast, SettledIsPending, [Next]_vars
    PROVE  SettledIsPending'
<1>0. /\ Typed /\ CallsTyped /\ QueueTyped /\ InLine /\ txn \in L!Txn
      /\ resv \in [Attempts -> L!Reservation] /\ state \in [Attempts -> L!States]
    BY DEF Lined, Typed, LP!Shape, LP!TypeOK, LP!Txn, L!Txn, LP!Reservation, L!Reservation,
       LP!States, L!States, LP!Terminal, L!Terminal
<1>q. \A a \in Attempts : Q!Queued(a) => Q!Queued(a)'
    BY QueueGrows
<1> USE <1>0, <1>q, OutcomesKnown
<1>1. SUFFICES ASSUME NEW o \in Owners, Alone(JobOf[o]), Early(o)', L!Live(JobOf[o])', L!Settled(JobOf[o])'
               PROVE  txn'.attempt = JobOf[o] /\ txn'.phase \in {"closeRecovered", "interrupt"}
                      /\ holder' = Operator
    BY DEF SettledIsPending
<1>2. ASSUME ~L!Settled(JobOf[o])
      PROVE  txn'.attempt = JobOf[o] /\ txn'.phase \in {"closeRecovered", "interrupt"}
             /\ holder' = Operator
  <2>1. resv'[JobOf[o]] # resv[JobOf[o]]
      BY <1>1, <1>2 DEF L!Settled
  <2>2. ASSUME NEW p \in Owners, JobOf[p] = JobOf[o], L!Reserve(JobOf[o], Ask[p]) PROVE FALSE
      BY <1>1, <2>2 DEF L!Reserve, L!NoReservation, L!Settled
  <2>3. ASSUME NEW p \in Owners, NEW outcome \in Outcomes, JobOf[p] = JobOf[o], Settle(p),
               pc[p] = "settling"
        PROVE  FALSE
    <3>1. /\ queue' = queue /\ \A r \in Owners \ {p} : pc'[r] = pc[r]
          /\ pc'[p] \in {"ending", "done"}
        BY <2>3 DEF Settle, Goto, Leave, CallsTyped, queueVars
    <3>2. o # p
        BY <1>1, <3>1 DEF Early
    <3>3. Early(o)
        BY <1>1, <3>1, <3>2 DEF Early, Q!Queued, Q!Position
    <3>4. p \notin Impatient
        BY <1>1, <2>3, <3>2 DEF Alone
    <3> QED
        BY <1>1, <2>3, <3>2, <3>3, <3>4 DEF OneCallPast, Early, Past, Driving
  <2>4. CASE txn.attempt = JobOf[o] /\ ReconcileAppends /\ L!AppendRecoverySettle
    <3>1. /\ txn' = [txn EXCEPT !.phase = IF L!Live(txn.attempt) THEN "closeRecovered" ELSE "close"]
          /\ state' = state
        BY <2>4 DEF L!AppendRecoverySettle, L!SettleEvent, L!attemptVars
    <3>2. L!Live(txn.attempt)
        BY <1>1, <2>4, <3>1 DEF L!Live
    <3>3. txn'.attempt = JobOf[o] /\ txn'.phase = "closeRecovered"
        BY <2>4, <3>1, <3>2 DEF L!Txn
    <3> QED
        BY <2>4, <3>3 DEF ReconcileAppends
  <2> QED
      BY <2>1, <2>2, <2>3, <2>4, ReservationMoves
<1>3. ASSUME L!Settled(JobOf[o]), Early(o), L!Live(JobOf[o])
      PROVE  txn'.attempt = JobOf[o] /\ txn'.phase \in {"closeRecovered", "interrupt"}
             /\ holder' = Operator
  <2>1. txn.attempt = JobOf[o] /\ txn.phase \in {"closeRecovered", "interrupt"} /\ holder = Operator
      BY <1>1, <1>3 DEF SettledIsPending
  <2>2. CASE txn' = [txn EXCEPT !.phase = "interrupt"] /\ holder' = Operator
      BY <2>1, <2>2 DEF L!Txn
  <2>3. ~L!AppendInterrupted
      BY <1>1, <2>1 DEF L!AppendInterrupted, L!Live
  <2>4. ~OperatorDies
      BY <1>3, <2>1 DEF OperatorDies, RecoveryEnds, Lost, Early
  <2> QED
      BY <2>1, <2>2, <2>3, <2>4, RecoveryGoesOn
<1>4. ASSUME L!Settled(JobOf[o]) PROVE L!Live(JobOf[o])
  <2>1. L!Registered(JobOf[o])
      BY <1>4, HasRun DEF Typed, L!Settled
  <2>2. CASE state'[JobOf[o]] = state[JobOf[o]]
      BY <1>1, <2>2 DEF L!Live
  <2>3. CASE state'[JobOf[o]] # state[JobOf[o]]
    <3>1. ASSUME NEW p \in Owners, state'[JobOf[o]] = verdict[p] PROVE FALSE
        BY <1>1, <3>1, CallAssumption DEF CallsTyped, L!Live
    <3>2. resv[JobOf[o]].phase # "none"
        BY <1>4 DEF L!Settled
    <3> QED
        BY <1>1, <2>1, <2>3, <3>1, <3>2, StateMoves DEF L!Live
  <2> QED
      BY <2>2, <2>3
<1>5. ASSUME L!Settled(JobOf[o]) PROVE Early(o)
  <2>1. CASE pc'[o] = pc[o]
      BY <1>1, <2>1 DEF Early
  <2>2. CASE pc'[o] # pc[o]
    <3>1. CASE pc'[o] = "reserved"
      <4>1. Reserve(o)
        <5>1. Progress(o) \/ Disturbance(o)
            BY <2>2, OwnStep
        <5>2. CASE Progress(o)
            BY <2>2, <3>1, <5>2 DEF Progress, Enqueue, Claim, Rejected, Withdraw, Launch, Spawn,
               StartWorker, LaunchRefused, SeeExit, SeeDeadline, SeeClosure, LeaveLoop, StopTree,
               Record, Decide, Confirm, RecordStop, Settle, AppendArmClosed, Unconfirmed, End,
               Goto, Leave, CallsTyped
        <5>3. CASE Disturbance(o)
            BY <2>2, <3>1, <5>3 DEF Disturbance, PrepareFails, LosesPatience, Withdraw,
               HeartbeatLost, LeaveLoop, Fails, GivesUp, OwnerDies, Goto, Leave, CallsTyped
        <5> QED
            BY <5>1, <5>2, <5>3
      <4> QED
          BY <1>5, <3>1, <4>1 DEF Reserve, L!Reserve, L!MayReserve, L!Held, L!Settled, Goto, CallsTyped
    <3>2. CASE pc'[o] = "queued"
      <4>1. pc[o] \notin Past
        <5>1. CASE Progress(o)
            BY <2>2, <3>2, <5>1 DEF Progress, Enqueue, Claim, Rejected, Withdraw, Launch, Spawn,
               StartWorker, LaunchRefused, SeeExit, SeeDeadline, SeeClosure, LeaveLoop, StopTree,
               Record, Decide, Confirm, RecordStop, Settle, AppendArmClosed, Unconfirmed, End,
               Goto, Leave, CallsTyped, Past, Driving
        <5>2. CASE Disturbance(o)
            BY <2>2, <3>2, <5>2 DEF Disturbance, Reserve, PrepareFails, LosesPatience, Withdraw,
               HeartbeatLost, LeaveLoop, Fails, GivesUp, OwnerDies, Goto, Leave, CallsTyped
        <5> QED
            BY <2>2, <5>1, <5>2, OwnStep
      <4>2. pc[o] = "reserved" /\ Q!Enqueue(JobOf[o])
          BY <3>2, <4>1, ComesPast DEF Past, Driving
      <4> QED
          BY <4>2 DEF Early, Q!Enqueue
    <3>3. CASE pc'[o] = "claimed"
      <4>1. Q!Claim(JobOf[o])
          BY <2>2, <3>3, Reaches DEF Claim
      <4>2. L!Held(JobOf[o])
          BY <4>1, Claiming, HasRun, QueueAssumption DEF Typed
      <4> QED
          BY <1>5, <4>2 DEF L!Held, L!Settled
    <3>4. CASE pc'[o] \in {"launching", "spawned"}
        BY <2>2, <3>4, Reaches DEF Early, Spawn, Goto
    <3> QED
        BY <1>1, <3>1, <3>2, <3>3, <3>4 DEF Early
  <2> QED
      BY <2>1, <2>2
<1> QED
    BY <1>2, <1>3, <1>4, <1>5

\* Holds whoever dies and whatever a recovery leaves behind.
Containment == OneCallPast /\ Contained /\ RecoveredIsOver

WorkHeld == \A a \in Attempts : Alone(a) /\ proc[a] \in {"working", "orphans"} => L!Held(a)
StopRecorded ==
    \A a \in Attempts :
        Alone(a) /\ a \in started /\ L!Settled(a) => a \in stopped /\ proc[a] = "gone"

Funding == SettledIsPending /\ WorkHeld /\ StopRecorded

\* What is settled never started, or has its stop on record and is gone.
LEMMA SettlesTheStopped ==
    ASSUME Driven, Containment, [Next]_vars,
           NEW a \in Attempts, Alone(a), L!Settled(a)', ~L!Settled(a)
    PROVE  /\ UNCHANGED <<proc, started>>
           /\ proc[a] \notin {"working", "orphans"}
           /\ a \in started => a \in stopped /\ proc[a] = "gone"
<1>0. /\ Typed /\ CallsTyped /\ WorkerFollowsCall /\ Contained /\ RecoveredIsOver
      /\ proc[a] \in Processes
    BY DEF Driven, Lined, Typed, CallsTyped, Containment
<1> USE <1>0, OutcomesKnown
<1>1. resv'[a] # resv[a]
    BY DEF L!Settled
<1>2. ASSUME NEW o \in Owners, L!Reserve(a, Ask[o]) PROVE FALSE
  <2>1. resv \in [Attempts -> L!Reservation]
      BY DEF Typed, LP!Shape, LP!TypeOK, LP!Reservation, L!Reservation
  <2> QED
      BY <1>2, <2>1 DEF L!Reserve, L!NoReservation, L!Settled
<1>3. ASSUME NEW o \in Owners, NEW s \in Outcomes, JobOf[o] = a, Settle(o), pc[o] = "settling",
             L!Settle(a, cost[o], TRUE, s)
      PROVE  /\ UNCHANGED <<proc, started>>
             /\ proc[a] \notin {"working", "orphans"}
             /\ a \in started => a \in stopped /\ proc[a] = "gone"
    BY <1>3 DEF Settle, L!Settle, L!SettleEvent, L!workerVars, Contained, WorkerFollowsCall
<1>4. ASSUME txn.attempt = a, ReconcileAppends, L!AppendRecoverySettle
      PROVE  /\ UNCHANGED <<proc, started>>
             /\ proc[a] \notin {"working", "orphans"}
             /\ a \in started => a \in stopped /\ proc[a] = "gone"
  <2>1. txn.phase = "settle" /\ UNCHANGED <<proc, started>>
      BY <1>4 DEF ReconcileAppends, L!AppendRecoverySettle, L!SettleEvent, L!workerVars
  <2> QED
      BY <1>4, <2>1 DEF RecoveredIsOver, Running, WorkerFollowsCall, Processes
<1> QED
    BY <1>1, <1>2, <1>3, <1>4, ReservationMoves

\* A worker gets its GO over a reservation that is still held.
LEMMA StartsHeld ==
    ASSUME Driven, Funding, NEW o \in Owners, Alone(JobOf[o]), StartWorker(o)
    PROVE  L!Held(JobOf[o])
<1>0. /\ Typed /\ InLine /\ SettledIsPending
      /\ resv \in [Attempts -> L!Reservation]
    BY DEF Driven, Lined, Funding, Typed, LP!Shape, LP!TypeOK, LP!Reservation, L!Reservation
<1>1. pc[o] = "spawned" /\ L!Free /\ L!Live(JobOf[o])
    BY DEF StartWorker, Goto, L!WorkerStarted, L!Live
<1>2. ~L!Settled(JobOf[o])
    BY <1>0, <1>1 DEF SettledIsPending, Early, L!Free
<1>3. resv[JobOf[o]].phase \in {"held", "settled"}
    BY <1>0, <1>1, OutcomesKnown DEF InLine, Quiet, L!Reservation
<1> QED
    BY <1>2, <1>3 DEF L!Settled, L!Held

LEMMA StepContainment ==
    ASSUME Driven, Containment, [Next]_vars
    PROVE  Containment'
BY StepAlone, StepContained, StepRecovered DEF Driven, Containment

LEMMA StepFunding ==
    ASSUME RecoveryEnds, Driven, Containment, Funding, [Next]_vars
    PROVE  Funding'
<1>0. /\ Typed /\ CallsTyped /\ Lined /\ WorkerFollowsCall /\ WorkHeld /\ StopRecorded
      /\ resv' \in [Attempts -> L!Reservation]
    BY StepAll DEF Driven, Lined, Typed, Funding, LP!Shape, LP!TypeOK, LP!Reservation, L!Reservation
<1> USE <1>0
<1>1. SettledIsPending'
    BY StepSettledPending DEF Containment, Funding
<1>2. ASSUME NEW a \in Attempts, L!Held(a), ~L!Held(a)' PROVE L!Settled(a)' /\ ~L!Settled(a)
    BY <1>2, PhaseKept DEF L!Held, L!Settled, L!Reservation
<1>3. ASSUME NEW a \in Attempts, Alone(a), proc'[a] \in {"working", "orphans"} PROVE L!Held(a)'
  <2>1. CASE proc[a] \in {"working", "orphans"}
      BY <1>2, <1>3, <2>1, SettlesTheStopped DEF WorkHeld
  <2>2. CASE proc[a] \notin {"working", "orphans"}
    <3>1. PICK o \in Owners : StartWorker(o) /\ JobOf[o] = a
      <4>1. ASSUME NEW b \in Attempts, Ends(b) PROVE FALSE
          BY <1>3, <2>2, <4>1 DEF Ends, CallsTyped
      <4>2. ASSUME NEW o \in Owners, Spawn(o) \/ StopTree(o) \/ Confirm(o) PROVE FALSE
          BY <1>3, <2>2, <4>2, OutcomesKnown DEF Spawn, StopTree, Confirm, CallsTyped
      <4>3. ASSUME NEW o \in Owners, StartWorker(o) PROVE JobOf[o] = a
          BY <1>3, <2>2, <4>3, OutcomesKnown DEF StartWorker, CallsTyped
      <4> QED
          BY <1>3, <2>2, <4>1, <4>2, <4>3, WorkMoves
    <3>2. L!Held(a)
        BY <1>3, <3>1, StartsHeld
    <3>3. resv' = resv
        BY <3>1 DEF StartWorker, L!WorkerStarted, L!budgetVars
    <3> QED
        BY <3>2, <3>3 DEF L!Held
  <2> QED
      BY <2>1, <2>2
<1>4. ASSUME NEW a \in Attempts, Alone(a), a \in started', L!Settled(a)'
      PROVE  a \in stopped' /\ proc'[a] = "gone"
  <2>1. CASE ~L!Settled(a)
      BY <1>4, <2>1, SettlesTheStopped, EvidenceKept
  <2>2. CASE L!Settled(a) /\ a \in started
      BY <1>4, <2>2, EvidenceKept DEF StopRecorded
  <2>3. CASE L!Settled(a) /\ a \notin started
    <3>1. ASSUME NEW b \in Attempts, Ends(b) PROVE FALSE
        BY <1>4, <2>3, <3>1 DEF Ends
    <3>2. ASSUME NEW o \in Owners, Spawn(o) \/ StopTree(o) \/ Confirm(o) PROVE FALSE
        BY <1>4, <2>3, <3>2 DEF Spawn, StopTree, Confirm, L!ProcessSpawned, L!ProcessGone
    <3>3. ASSUME NEW o \in Owners, StartWorker(o) PROVE L!Held(a)
        BY <1>4, <2>3, <3>3, StartsHeld DEF StartWorker, L!WorkerStarted
    <3>4. ~L!Held(a)
        BY <2>3 DEF L!Held, L!Settled
    <3> QED
        BY <1>4, <2>3, <3>1, <3>2, <3>3, <3>4, WorkMoves
  <2> QED
      BY <2>1, <2>2, <2>3
<1> QED
    BY <1>1, <1>3, <1>4 DEF Funding, WorkHeld, StopRecorded

LEMMA InitFunding == Init => Containment /\ Funding
BY CallAssumption
   DEF Init, L!Init, L!Idle, L!NoReservation, Q!Init, Q!Queued, Q!Position, Containment, Funding,
       OneCallPast, Past, Driving, Contained, RecoveredIsOver, SettledIsPending, Early, WorkHeld,
       StopRecorded

LEMMA ContainmentAlways == Spec => [](Driven /\ Containment)
<1>1. Driven /\ Containment /\ [Next]_vars => Containment'
    BY StepContainment
<1> QED
    BY <1>1, InitFunding, DrivenAlways, PTL DEF Spec

LEMMA FundingAlways ==
    ASSUME RecoveryEnds
    PROVE  Spec => [](Driven /\ Funding)
<1>1. Init => Funding
    BY InitFunding
<1>2. Driven /\ Containment /\ Funding /\ [Next]_vars => Funding'
    BY StepFunding
<1> QED
    BY <1>1, <1>2, ContainmentAlways, PTL DEF Spec

\* Whoever dies, a recovery included: at the step that releases the budget of an
\* attempt whose impatient call is its only one, nothing it started runs, and
\* what was started has its stop on record.
ReleaseFollowsStop(a) ==
    Alone(a) /\ ~L!Settled(a) /\ L!Settled(a)' =>
        /\ proc[a] \notin {"working", "orphans"} /\ proc'[a] = proc[a]
        /\ a \in started => a \in stopped /\ proc[a] = "gone"

THEOREM ReleasesFollowStops == Spec => [][\A a \in Attempts : ReleaseFollowsStop(a)]_vars
<1>1. Driven /\ Containment /\ [Next]_vars => [\A a \in Attempts : ReleaseFollowsStop(a)]_vars
  <2> SUFFICES ASSUME Driven, Containment, [Next]_vars, NEW a \in Attempts PROVE ReleaseFollowsStop(a)
      OBVIOUS
  <2> QED
      BY SettlesTheStopped DEF ReleaseFollowsStop
<1> QED
    BY <1>1, ContainmentAlways, PTL DEF Spec

\* While recoveries end under living calls: the budget and the slot of what a
\* started worker still runs stay its own, and no started worker is settled
\* before its recorded stop, for every attempt whose impatient call is its only
\* one, whatever the callers of other attempts do.
SoleWorkIsSafe ==
    \A a \in Attempts : Alone(a) =>
        /\ proc[a] \in {"working", "orphans"} => L!Held(a) /\ Q!Claimed(a)
        /\ a \in started /\ L!Settled(a) => a \in stopped /\ ~Running(a)

THEOREM SoleWorkStaysSafe ==
    ASSUME RecoveryEnds
    PROVE  Spec => []SoleWorkIsSafe
<1>1. Driven /\ Funding => SoleWorkIsSafe
    BY DEF Driven, Funding, WorkHeld, StopRecorded, WorkerFollowsCall, SoleWorkIsSafe, Running
<1> QED
    BY <1>1, FundingAlways, PTL

\* So with no impatient duplicate anywhere, all work is funded and claimed.
THEOREM WorkStaysFunded ==
    ASSUME SoleImpatience, RecoveryEnds
    PROVE  Spec => []WorkIsFunded
<1>1. SoleWorkIsSafe => WorkIsFunded
    BY DEF SoleImpatience, SoleWorkIsSafe, WorkIsFunded
<1> QED
    BY <1>1, SoleWorkStaysSafe, PTL

\* And no started worker is settled before its stop was confirmed and recorded.
THEOREM StopsPrecedeReleases ==
    ASSUME SoleImpatience, RecoveryEnds
    PROVE  Spec => []StopPrecedesRelease
<1>1. SoleWorkIsSafe => StopPrecedesRelease
    BY DEF SoleImpatience, SoleWorkIsSafe, StopPrecedesRelease
<1> QED
    BY <1>1, SoleWorkStaysSafe, PTL

-----------------------------------------------------------------------------
(* The composition implements the queue. *)

LEMMA SameQueueAssumptions == QP!SlotsAssumption /\ QP!NoSlotAssumption
BY QueueAssumption DEF QP!SlotsAssumption, QP!NoSlotAssumption

LEMMA SameQueueInit == Q!Init => QP!Init
BY DEF Q!Init, QP!Init, Q!Unfunded, QP!Unfunded

LEMMA SameQueueSteps == [Q!Next]_Q!vars => [QP!Next]_QP!vars
<1> USE DEF Q!ledgerView, QP!ledgerView, Q!queueVars, QP!queueVars, Q!Held, QP!Held,
            Q!Claimed, QP!Claimed, Q!Permitted, QP!Permitted, Q!Position, QP!Position,
            Q!Queued, QP!Queued
<1>1. ASSUME NEW a \in Attempts, Q!Enqueue(a) PROVE QP!Enqueue(a)
    BY <1>1 DEF Q!Enqueue, QP!Enqueue
<1>2. ASSUME NEW a \in Attempts, Q!Claim(a) PROVE QP!Claim(a)
  <2>1. \A b, r : Q!Waiting(b, r) <=> QP!Waiting(b, r)
      BY DEF Q!Waiting, QP!Waiting
  <2>2. \A b, c : Q!Before(b, c) <=> QP!Before(b, c)
      BY DEF Q!Before, QP!Before
  <2>3. \A r : Q!Occupied(r) = QP!Occupied(r)
      BY DEF Q!Occupied, QP!Occupied
  <2>4. \A b, r : Q!Yields(b, r) <=> QP!Yields(b, r)
      BY <2>1 DEF Q!Yields, QP!Yields
  <2>5. \A b, r : Q!IsNext(b, r) <=> QP!IsNext(b, r)
      BY <2>1, <2>2, <2>4 DEF Q!IsNext, QP!IsNext
  <2>6. \A b, r : Q!Passed(b, r) = QP!Passed(b, r)
      BY <2>1, <2>2 DEF Q!Passed, QP!Passed
  <2>7. \A r : /\ Q!FreeSlots(r) = QP!FreeSlots(r) /\ Q!SharedSlots(r) = QP!SharedSlots(r)
               /\ Q!Tickets(r) = QP!Tickets(r)
      BY <2>3 DEF Q!FreeSlots, QP!FreeSlots, Q!SharedSlots, QP!SharedSlots, Q!Tickets, QP!Tickets,
         Q!Cardinality, QP!Cardinality
  <2>8. \A b, s : Q!Take(b, s) => QP!Take(b, s)
      BY DEF Q!Take, QP!Take
  <2>9. Q!MayClaim(a) => QP!MayClaim(a)
      BY <2>1 DEF Q!MayClaim, QP!MayClaim
  <2>10. Q!ClaimPermitted(a) => QP!ClaimPermitted(a)
      BY <2>7, <2>8, <2>9 DEF Q!ClaimPermitted, QP!ClaimPermitted
  <2>11. Q!ClaimInTurn(a) => QP!ClaimInTurn(a)
      BY <2>5, <2>6, <2>7, <2>8, <2>9 DEF Q!ClaimInTurn, QP!ClaimInTurn
  <2> QED
      BY <1>2, <2>10, <2>11 DEF Q!Claim, QP!Claim
<1>3. ASSUME NEW a \in Attempts, Q!LedgerStep(a) PROVE QP!LedgerStep(a)
    BY <1>3 DEF Q!LedgerStep, QP!LedgerStep, Q!Release, QP!Release, Q!Fund, QP!Fund
<1>4. ASSUME NEW m \in Arms, NEW r \in Resources, Q!ActivatePolicy(m, r) PROVE QP!ActivatePolicy(m, r)
    BY <1>4 DEF Q!ActivatePolicy, QP!ActivatePolicy
<1>5. ASSUME NEW m \in Arms, Q!SetClosed(m) PROVE QP!SetClosed(m)
    BY <1>5 DEF Q!SetClosed, QP!SetClosed
<1>6. CASE Q!PlaceHold
    BY <1>6 DEF Q!PlaceHold, QP!PlaceHold, QP!Next
<1>7. CASE UNCHANGED Q!vars
    BY <1>7 DEF Q!vars, QP!vars
<1> QED
    BY <1>1, <1>2, <1>3, <1>4, <1>5, <1>6, <1>7 DEF Q!Next, Q!QueueStep, QP!Next, QP!QueueStep

\* A step of the ledger that leaves the queue alone is one of the queue's
\* environment, or changes nothing the queue reads.
LEMMA LedgerStepsSeen ==
    ASSUME LP!Shape, [LP!Next]_LP!vars, UNCHANGED queueVars
    PROVE  [Q!Next]_Q!vars
<1> USE LedgerAssumption, CallAssumption
    DEF queueVars, Q!queueVars, LP!attemptVars, LP!budgetVars, LP!armVars, LP!workerVars
<1>t. /\ resv \in [Attempts -> LP!Reservation] /\ runOf \in [Attempts -> Runs \cup {NoRun}]
      /\ closed \subseteq Arms
      /\ \A a \in Attempts : resv[a].phase # "none" => runOf[a] \in Runs
    BY DEF LP!Shape, LP!TypeOK, LP!RegisteredHasRun, LP!ReservedIsRegistered
<1>n. ASSUME UNCHANGED <<resv, runOf, closed, hold>> PROVE UNCHANGED Q!vars
    BY <1>n DEF Funded, Q!vars, Q!ledgerView
<1>1. ASSUME NEW a \in Attempts, LP!AttemptStep(a) PROVE [Q!Next]_Q!vars
  <2>1. UNCHANGED <<resv, closed, hold>> /\ \A b \in Attempts : resv[b].phase # "none" => runOf'[b] = runOf[b]
      BY <1>1, <1>t DEF LP!AttemptStep, LP!NewAttempt, LP!RecordDeclaredRefusal, LP!Register, LP!Transition,
         LP!Shape, LP!ReservedIsRegistered
  <2>2. Funded' = Funded
      BY <2>1 DEF Funded
  <2> QED
      BY <2>1, <2>2 DEF Q!vars, Q!ledgerView
\* The SETTLE event.
<1>2. ASSUME NEW a \in Attempts, NEW e \in Nat, NEW measured \in BOOLEAN, NEW s,
             LP!SettleEvent(a, e, measured, s)
      PROVE  [Q!Next]_Q!vars
  <2>1. /\ resv[a].phase = "held" /\ resv'[a].phase = "settled"
        /\ \A b \in Attempts \ {a} : resv'[b] = resv[b]
        /\ UNCHANGED <<runOf, hold>>
        /\ closed' \in {closed, closed \cup {LP!Arm(a)}}
      BY <1>2, <1>t DEF LP!SettleEvent, LP!Held, LP!Reservation
  <2>2. Funded' = [Funded EXCEPT ![a].phase = "settled"]
      BY <1>t, <2>1 DEF Funded
  <2>3. Funded[a].phase = "held" /\ Funded[a].arm = LP!Arm(a)
      BY <2>1 DEF Funded, LP!Arm
  <2>4. Q!Release(a)
      BY <2>1, <2>2, <2>3 DEF Q!Release, Q!Held
  <2> QED
      BY <2>4 DEF Q!Next, Q!LedgerStep
<1>3. ASSUME NEW a \in Attempts, NEW ms \in Requests, LP!Reserve(a, ms) PROVE [Q!Next]_Q!vars
  <2>1. /\ resv[a].phase = "none" /\ resv'[a].phase = "held"
        /\ \A b \in Attempts \ {a} : resv'[b] = resv[b]
        /\ UNCHANGED <<runOf, hold, closed>> /\ ~hold /\ LP!Arm(a) \notin closed
        /\ runOf[a] \in Runs
      BY <1>3, <1>t DEF LP!Reserve, LP!MayReserve, LP!Fundable, LP!NoReservation, LP!Shape, LP!RegisteredHasRun
  <2>2. Funded' = [Funded EXCEPT ![a] = [phase |-> "held", arm |-> ArmOf[runOf[a]],
                                         resource |-> ResourceOf[runOf[a]]]]
      BY <2>1 DEF Funded
  <2>3. Q!Fund(a, ArmOf[runOf[a]], ResourceOf[runOf[a]])
      BY <2>1, <2>2 DEF Q!Fund, Funded, LP!Arm
  <2> QED
      BY <2>1, <2>3 DEF Q!Next, Q!LedgerStep
<1>4. ASSUME NEW a \in Attempts, LP!BudgetStep(a) PROVE [Q!Next]_Q!vars
  <2>1. ASSUME NEW e \in Elapsed, NEW measured \in BOOLEAN, NEW s \in Outcomes, LP!Settle(a, e, measured, s)
        PROVE  [Q!Next]_Q!vars
      BY <1>2, <2>1 DEF LP!Settle
  <2>2. ASSUME LP!ReserveDeclared(a) \/ (\E ms \in Requests : LP!RefuseReserve(a, ms))
               \/ LP!RecoverHeld(a) \/ LP!RecoverSettled(a)
        PROVE  [Q!Next]_Q!vars
      BY <1>n, <2>2 DEF LP!ReserveDeclared, LP!RefuseReserve, LP!RecoverHeld, LP!RecoverSettled
  <2> QED
      BY <1>3, <1>4, <2>1, <2>2 DEF LP!BudgetStep
<1>5. ASSUME NEW a \in Attempts, LP!WorkerStep(a) PROVE [Q!Next]_Q!vars
    BY <1>n, <1>5 DEF LP!WorkerStep, LP!ProcessSpawned, LP!WorkerStarted, LP!ProcessGone, LP!WorkerTreeStopped
\* Arms close and reopen.
<1>6. ASSUME NEW m \in Arms, closed' = closed \cup {m} \/ closed' = closed \ {m},
             UNCHANGED <<resv, runOf, hold>>
      PROVE  [Q!Next]_Q!vars
  <2>1. Q!SetClosed(m)
      BY <1>6 DEF Q!SetClosed, Funded
  <2> QED
      BY <2>1 DEF Q!Next
<1>7. ASSUME NEW m \in Arms, LP!ArmStep(m) PROVE [Q!Next]_Q!vars
    BY <1>6, <1>7 DEF LP!ArmStep, LP!CloseArm, LP!ContinueArm
<1>8. CASE LP!AppendNext
  <2>1. txn.phase # "idle" => txn.attempt \in Attempts /\ LP!Arm(txn.attempt) \in Arms
      BY LP!ArmTyped, SameAssumptions DEF LP!Shape, LP!TxnNamesAttempt
  <2>2. CASE LP!AppendRecoverySettle
      BY <1>2, <2>1, <2>2 DEF LP!AppendRecoverySettle
  <2>3. CASE LP!AppendArmClosed \/ LP!AppendRecoveryClosed
      BY <1>6, <2>1, <2>3 DEF LP!AppendArmClosed, LP!AppendRecoveryClosed
  <2>4. CASE LP!AppendRefusal \/ LP!AppendInterrupted
      BY <1>n, <2>4 DEF LP!AppendRefusal, LP!AppendInterrupted
  <2> QED
      BY <1>8, <2>2, <2>3, <2>4 DEF LP!AppendNext
<1>9. CASE LP!PlaceHold
  <2>1. Q!PlaceHold
      BY <1>9 DEF LP!PlaceHold, Q!PlaceHold, Funded
  <2> QED
      BY <2>1 DEF Q!Next
<1>10. CASE (\E ap \in Approvals : LP!ExpireApproval(ap)) \/ LP!Crash \/ UNCHANGED LP!vars
    BY <1>10, <1>n DEF LP!ExpireApproval, LP!Crash, LP!vars
<1> QED
    BY <1>1, <1>4, <1>5, <1>7, <1>8, <1>9, <1>10 DEF LP!Next

LEMMA StepQueue == Typed /\ [Next]_vars => [Q!Next]_Q!vars
<1> SUFFICES ASSUME Typed, [Next]_vars PROVE [Q!Next]_Q!vars
    OBVIOUS
<1>0. LP!Shape /\ [LP!Next]_LP!vars
    BY LedgerMoves DEF Typed
<1>1. ASSUME NEW o \in Owners, Enqueue(o) \/ Claim(o) PROVE UNCHANGED queueVars \/ Q!Next
    BY <1>1, OutcomesKnown DEF Enqueue, Claim, Q!Next, Q!QueueStep
<1>2. ASSUME NEW o \in Owners, Progress(o), ~Enqueue(o), ~Claim(o) PROVE UNCHANGED queueVars
    BY <1>2 DEF Progress, Rejected, Withdraw, Launch, Spawn, StartWorker, LaunchRefused,
       SeeExit, SeeDeadline, SeeClosure, LeaveLoop, StopTree, Record, Decide, Confirm, RecordStop,
       Settle, AppendArmClosed, Unconfirmed, End
<1>3. ASSUME NEW o \in Owners, Disturbance(o) PROVE UNCHANGED queueVars
    BY <1>3 DEF Disturbance, Reserve, PrepareFails, LosesPatience, Withdraw, HeartbeatLost,
       LeaveLoop, Fails, GivesUp, OwnerDies
<1>4. ASSUME NEW a \in Attempts, WorkerStep(a) \/ Submit(a) \/ Reconcile(a) PROVE UNCHANGED queueVars
    BY <1>4 DEF WorkerStep, Exits, Fuse, PipeClosed, OrphansEnd, Becomes, Deadline, Submit, Reconcile
<1>5. ReconcileAppends \/ OperatorDies \/ UNCHANGED vars => UNCHANGED queueVars
    BY DEF ReconcileAppends, OperatorDies, vars
<1>6. ASSUME Govern PROVE UNCHANGED queueVars \/ Q!Next
  <2>1. ASSUME NEW pair \in Permissible, Q!ActivatePolicy(pair[1], pair[2]) PROVE Q!Next
    <3>1. pair[1] \in Arms /\ pair[2] \in Resources
        BY QueueAssumption
    <3> QED
        BY <2>1, <3>1 DEF Q!Next
  <2> QED
      BY <1>6, <2>1 DEF Govern
<1>7. UNCHANGED queueVars => [Q!Next]_Q!vars
    BY <1>0, LedgerStepsSeen
<1>8. UNCHANGED queueVars \/ Q!Next
    BY <1>1, <1>2, <1>3, <1>4, <1>5, <1>6 DEF Next
<1> QED
    BY <1>7, <1>8

\* Every step of owners, workers, timers and operators is a step of the queue
\* or of the budget authority it watches, or leaves both alone.
THEOREM QueueIsImplemented == Spec => ImplementsQueue
<1>1. Spec => Q!Init /\ [][Q!Next]_Q!vars
    BY InitAll, StepAll, StepQueue, PTL DEF Spec, Init
<1> QED
    BY <1>1 DEF ImplementsQueue, Q!Spec

\* What is proved of the queue alone holds of the queue in the composition.
LEMMA QueueAlways == Spec => [](QP!Inv /\ QP!OrdinarySlotExists)
<1>1. Init => QP!Inv /\ QP!OrdinarySlotExists
  <2>1. Init => QP!Init
      BY SameQueueInit DEF Init
  <2>2. QP!Init => QP!OrdinarySlotExists
      BY DEF QP!Init, QP!OrdinarySlotExists, QP!Claimed
  <2> QED
      BY <2>1, <2>2, QP!InitInv, SameQueueAssumptions
<1>2. Typed /\ QP!Inv /\ QP!OrdinarySlotExists /\ [Next]_vars => (QP!Inv /\ QP!OrdinarySlotExists)'
    BY StepQueue, SameQueueSteps, QP!StepInv, QP!StepOrdinary, SameQueueAssumptions
<1> QED
    BY <1>1, <1>2, InitAll, StepAll, PTL DEF Spec

LEMMA SlotsHold ==
    ASSUME WorkIsFunded, QP!Inv, QP!OrdinarySlotExists
    PROVE  WorkersWithinSlots
<1>1. SUFFICES ASSUME NEW r \in Resources
               PROVE  Cardinality({a \in Attempts : /\ proc[a] \in {"working", "orphans"}
                                                    /\ ResourceOf[runOf[a]] = r
                                                    /\ a \notin Sharing /\ ~Q!Permitted(a)}) <= Slots[r]
    BY DEF WorkersWithinSlots
<1> DEFINE W == {a \in Attempts : /\ proc[a] \in {"working", "orphans"}
                                  /\ ResourceOf[runOf[a]] = r
                                  /\ a \notin Sharing /\ ~Q!Permitted(a)}
           N == Slots[r]
           f == [a \in W |-> slot[a]]
<1>2. N \in Nat
    BY QueueAssumption
<1>3. ASSUME NEW a \in W
      PROVE  /\ QP!Claimed(a) /\ QP!Held(a) /\ Funded[a].resource = r
             /\ slot[a] \in 0 .. N - 1
  <2>1. L!Held(a) /\ Q!Claimed(a)
      BY DEF WorkIsFunded
  <2>2. Funded[a].phase = "held" /\ Funded[a].resource = r
      BY <2>1 DEF Funded, L!Held
  <2>3. QP!Claimed(a) /\ ~QP!Permitted(a)
      BY <2>1 DEF Q!Claimed, QP!Claimed, Q!Permitted, QP!Permitted
  <2> QED
      BY <2>2, <2>3 DEF QP!OrdinarySlotExists, QP!Held
<1>4. \A a, b \in W : f[a] = f[b] => a = b
    BY <1>3 DEF QP!Inv, QP!SlotsExclusive
<1>5. f \in Injection(W, 0 .. N - 1)
    BY <1>3, <1>4 DEF Injection, IsInjective
<1> HIDE DEF W, N, f
<1>6. IsFiniteSet(0 .. N - 1) /\ Cardinality(0 .. N - 1) = N
  <2>1. N - 1 \in Int /\ (0 > N - 1 => N = 0) /\ (N - 1) - 0 + 1 = N
      BY <1>2
  <2>2. /\ IsFiniteSet(0 .. N - 1)
        /\ Cardinality(0 .. N - 1) = IF 0 > N - 1 THEN 0 ELSE (N - 1) - 0 + 1
      BY <2>1, FS_Interval
  <2> QED
      BY <2>1, <2>2
<1>7. Cardinality(W) <= Cardinality(0 .. N - 1)
    BY <1>5, <1>6, FS_Injection
<1> QED
    BY <1>6, <1>7 DEF W, N

\* Under the two conditions no more workers run at once than the machine
\* has slots for, however many calls, attempts and arms there are.
THEOREM SlotsAreNotExceeded ==
    ASSUME SoleImpatience, RecoveryEnds
    PROVE  Spec => []WorkersWithinSlots
BY SlotsHold, QueueAlways, WorkStaysFunded, PTL

-----------------------------------------------------------------------------
(* What both authorities promise, they promise to every call. *)

LEMMA LedgerSpecHolds == Spec => LP!Spec
<1>1. Spec => LP!Init /\ [][LP!Next]_LP!vars
    BY SameInit, InitAll, StepAll, LedgerMoves, PTL DEF Spec, Init
<1> QED
    BY <1>1 DEF LP!Spec

\* The cap of every arm, its balances, the one current attempt of every cell and
\* the closure by unknown costs hold under any interleaving of calls, workers,
\* deaths and recoveries.
THEOREM AuthorityIsKept ==
    Spec => [](LP!CapHeld /\ LP!TotalsAreSums /\ LP!OneCurrentAttempt /\ LP!UnknownCostCloses)
BY LedgerSpecHolds, LP!CapIsHeld, LP!BalancesAreSums, LP!OneCurrent, LP!UnknownCost, SameAssumptions, PTL

\* No call and no recovery changes what is final, lowers a charge, or reopens an
\* arm without an approval of its own.
THEOREM AuthorityOnlyMovesOn == Spec => LP!FinalStaysFinal /\ LP!ReopenedOncePerApproval
BY LedgerSpecHolds, LP!FinalIsFinal, LP!ReopeningsAreApproved, SameAssumptions, PTL

LEMMA QueueSpecHolds == Spec => QP!Spec
<1>1. Typed /\ [Next]_vars => [QP!Next]_QP!vars
    BY StepQueue, SameQueueSteps
<1>2. Spec => QP!Init /\ [][QP!Next]_QP!vars
    BY <1>1, SameQueueInit, InitAll, StepAll, PTL DEF Spec, Init
<1> QED
    BY <1>2 DEF QP!Spec

\* Calls that race, die or withdraw never share a slot, claim twice, overtake
\* inside an arm, or pass an entry twice for another arm; and as long as entries
\* of a resource wait, one of them is next.
THEOREM OrderIsKept ==
    Spec => /\ [](QP!SlotsExclusive /\ QP!SomebodyIsNext)
            /\ QP!ClaimIsOnce /\ QP!FifoInArm /\ QP!NeverPassedTwice
BY QueueSpecHolds, QP!SlotsAreExclusive, QP!QueuesMoveOn, QP!ClaimsAreOnce, QP!ArmsAreFifo,
   QP!RotationIsFair, SameQueueAssumptions, PTL
-----------------------------------------------------------------------------
(* No call goes back: what EveryCallReturns rests on, for any number of     *)
(* calls, deaths and recoveries.                                            *)

\* How far a call has come.
Depth(stage) ==
    CASE stage = "idle" -> 0 [] stage = "reserved" -> 1 [] stage = "queued" -> 2
      [] stage = "claimed" -> 3 [] stage = "launching" -> 4 [] stage = "spawned" -> 5
      [] stage = "polling" -> 6 [] stage = "stopping" -> 7 [] stage = "stopped" -> 8
      [] stage = "deciding" -> 9 [] stage = "finishing" -> 10 [] stage = "recording" -> 11
      [] stage = "settling" -> 12 [] stage = "ending" -> 13
      [] OTHER -> 14

\* A step of a call takes it further, or gives the lock of its settlement back.
Advances(o) ==
    \/ Depth(pc[o]) < Depth(pc'[o])
    \/ pc'[o] = pc[o] /\ holder = o /\ holder' # o

LEMMA OwnStepsAdvance ==
    ASSUME CallsTyped, NEW o \in Owners, Progress(o) \/ Disturbance(o)
    PROVE  Advances(o)
<1> USE DEF CallsTyped, Goto, Leave
<1>1. ASSUME NEW s \in Stages, NEW t \in Stages,
             \/ s = "idle" /\ t \in {"reserved", "done"}
             \/ s = "reserved" /\ t \in {"queued", "settling", "done", "dead"}
             \/ s = "queued" /\ t \in {"claimed", "settling", "dead"}
             \/ s = "claimed" /\ t \in {"launching", "settling", "done", "dead"}
             \/ s = "launching" /\ t \in {"spawned", "finishing", "dead"}
             \/ s = "spawned" /\ t \in {"polling", "finishing", "dead"}
             \/ s = "polling" /\ t \in {"stopping", "finishing", "dead"}
             \/ s = "stopping" /\ t \in {"stopped", "finishing", "dead"}
             \/ s = "stopped" /\ t \in {"deciding", "finishing", "dead"}
             \/ s = "deciding" /\ t \in {"finishing", "dead"}
             \/ s = "finishing" /\ t \in {"recording", "settling", "ending", "done", "dead"}
             \/ s = "recording" /\ t \in {"settling", "done", "dead"}
             \/ s = "settling" /\ t \in {"ending", "done", "dead"}
             \/ s = "ending" /\ t \in {"done", "dead"}
      PROVE  Depth(s) < Depth(t)
    BY <1>1 DEF Depth, Stages
<1>2. CASE AppendArmClosed(o)
    BY <1>2, CallAssumption DEF AppendArmClosed, Advances
<1>3. CASE Disturbance(o)
  <2>1. pc'[o] \in Stages
      BY <1>3 DEF Disturbance, Reserve, PrepareFails, LosesPatience, Withdraw, HeartbeatLost,
         LeaveLoop, Fails, GivesUp, OwnerDies, Stages
  <2>2. CASE Reserve(o) \/ PrepareFails(o) \/ LosesPatience(o) \/ HeartbeatLost(o)
      BY <1>1, <2>1, <2>2 DEF Reserve, PrepareFails, LosesPatience, Withdraw, HeartbeatLost, LeaveLoop,
         Advances
  <2>3. CASE Fails(o)
      BY <1>1, <2>1, <2>3 DEF Fails, Advances
  <2>4. CASE GivesUp(o) \/ OwnerDies(o)
      BY <1>1, <2>1, <2>4 DEF GivesUp, OwnerDies, Underway, Advances
  <2> QED
      BY <1>3, <2>2, <2>3, <2>4 DEF Disturbance
<1>4. CASE Progress(o) /\ ~AppendArmClosed(o)
  <2>1. pc'[o] \in Stages
      BY <1>4 DEF Progress, Enqueue, Claim, Rejected, Withdraw, Launch, Spawn, StartWorker,
         LaunchRefused, SeeExit, SeeDeadline, SeeClosure, LeaveLoop, StopTree, Record, Decide,
         Confirm, RecordStop, Settle, Unconfirmed, End, Stages
  <2>2. CASE Enqueue(o) \/ Claim(o) \/ Rejected(o) \/ Launch(o) \/ Spawn(o) \/ StartWorker(o)
             \/ LaunchRefused(o)
      BY <1>1, <2>1, <2>2 DEF Enqueue, Claim, Rejected, Withdraw, Launch, Spawn, StartWorker,
         LaunchRefused, Advances
  <2>3. CASE SeeExit(o) \/ SeeDeadline(o) \/ SeeClosure(o) \/ StopTree(o) \/ Record(o) \/ Decide(o)
      BY <1>1, <2>1, <2>3 DEF SeeExit, SeeDeadline, SeeClosure, LeaveLoop, StopTree, Record, Decide,
         Advances
  <2>4. CASE Confirm(o) \/ RecordStop(o) \/ Settle(o) \/ Unconfirmed(o) \/ End(o)
      BY <1>1, <2>1, <2>4 DEF Confirm, RecordStop, Settle, Unconfirmed, End, Advances
  <2> QED
      BY <1>4, <2>2, <2>3, <2>4 DEF Progress
<1> QED
    BY <1>2, <1>3, <1>4

\* The lock of a settlement is only taken by the settlement of a call.
LEMMA LockIsTakenBySettling ==
    ASSUME CallsTyped, [Next]_vars, NEW o \in Owners, holder # o, holder' = o
    PROVE  pc[o] = "settling" /\ pc'[o] = "ending"
<1> USE CallAssumption DEF CallsTyped, Goto, Leave
<1>1. ASSUME NEW p \in Owners, Progress(p), ~Settle(p) PROVE holder' \in {holder, Nobody}
    BY <1>1 DEF Progress, Enqueue, Claim, Rejected, Withdraw, Launch, Spawn, StartWorker,
       LaunchRefused, SeeExit, SeeDeadline, SeeClosure, LeaveLoop, StopTree, Record, Decide,
       Confirm, RecordStop, AppendArmClosed, Unconfirmed, End
<1>2. ASSUME NEW p \in Owners, Disturbance(p) PROVE holder' \in {holder, Nobody}
    BY <1>2 DEF Disturbance, Reserve, PrepareFails, LosesPatience, Withdraw, HeartbeatLost, LeaveLoop,
       Fails, GivesUp, OwnerDies
<1>3. ASSUME NEW a \in Attempts, WorkerStep(a) \/ Submit(a) \/ Reconcile(a)
      PROVE  holder' \in {holder, Operator}
    BY <1>3 DEF WorkerStep, Exits, Fuse, PipeClosed, OrphansEnd, Becomes, Deadline, Submit, Reconcile
<1>4. CASE ReconcileAppends \/ OperatorDies \/ Govern \/ UNCHANGED vars
    BY <1>4 DEF ReconcileAppends, OperatorDies, Govern, vars
<1>5. ASSUME NEW p \in Owners, Settle(p)
      PROVE  \/ holder' = holder
             \/ holder' = p /\ pc[p] = "settling" /\ pc'[p] = "ending"
    BY <1>5 DEF Settle
<1> QED
    BY <1>1, <1>2, <1>3, <1>4, <1>5 DEF Next

\* Whatever callers, workers, timers and operators do, a call of run never
\* returns to a stage it has left: each step of its own takes it further, the
\* one exception is the ARM_CLOSED event it appends once, after its settlement,
\* and nobody else's step moves it.  So a call takes at most fifteen steps of its
\* own.
THEOREM CallsOnlyAdvance ==
    Spec => [][\A o \in Owners :
                  /\ Progress(o) \/ Disturbance(o) => Advances(o)
                  /\ pc'[o] # pc[o] => Progress(o) \/ Disturbance(o)
                  /\ holder # o /\ holder' = o => pc[o] = "settling" /\ pc'[o] = "ending"]_vars
<1>1. ASSUME CallsTyped, [Next]_vars, NEW o \in Owners
      PROVE  /\ Progress(o) \/ Disturbance(o) => Advances(o)
             /\ pc'[o] # pc[o] => Progress(o) \/ Disturbance(o)
             /\ holder # o /\ holder' = o => pc[o] = "settling" /\ pc'[o] = "ending"
    BY <1>1, OwnStepsAdvance, OwnStep, LockIsTakenBySettling
<1>2. CallsTyped /\ [Next]_vars =>
          [\A o \in Owners :
              /\ Progress(o) \/ Disturbance(o) => Advances(o)
              /\ pc'[o] # pc[o] => Progress(o) \/ Disturbance(o)
              /\ holder # o /\ holder' = o => pc[o] = "settling" /\ pc'[o] = "ending"]_vars
    BY <1>1
<1> QED
    BY <1>2, InitTyped, StepTyped, PTL DEF Spec
=============================================================================
