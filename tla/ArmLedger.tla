------------------------------ MODULE ArmLedger ------------------------------
(***************************************************************************)
(* The shared budget authority: attempts (ResearchStore), reservations,    *)
(* settlements, arm closure, recovery and continuation (BudgetLedger).     *)
(*                                                                         *)
(* The code keeps no mutable budget: every call takes the writer lock and  *)
(* folds the event chain again (BudgetLedger._state, _attempts).  A        *)
(* variable below is the value of one such fold, and an action is one      *)
(* event appended to the chain under the lock.  A call that appends        *)
(* several events is several actions: `txn` is the call that holds the     *)
(* lock and still has events to append, and Crash forgets it.              *)
(***************************************************************************)
EXTENDS Integers, FiniteSets

CONSTANTS
    Runs,       \* registered cells
    Attempts,   \* attempt identities (uuid4 in the code: never used twice)
    Arms,       \* budget arms
    ArmOf,      \* the arm each cell was registered in
    Declared,   \* cells registered with an execution_disposition
    Cap,        \* arm_seconds in milliseconds (86 400 000)
    Requests,   \* job budgets in milliseconds a caller may ask for
    AllocationOnly, \* those a caller may ask for only as soft allocation
    Elapsed,    \* measured slot times in milliseconds
    Outcomes,   \* terminal states callers report (all seven in the code)
    Approvals   \* published continuation approvals

CONSTANTS NoRun, NoAttempt, NoApproval

ASSUME ArmOfAssumption == ArmOf \in [Runs -> Arms]
ASSUME CostAssumption ==
    /\ Cap \in Nat
    /\ Requests \subseteq Nat \ {0}
    /\ Elapsed \subseteq Nat
    /\ AllocationOnly \subseteq Requests
ASSUME OutcomeAssumption ==
    Outcomes \subseteq {"SUCCEEDED", "FAILED", "INTERRUPTED", "TIMEOUT",
                        "BUDGET_EXHAUSTED", "PREFLIGHT_FAILED", "CANCELLED"}
ASSUME NullAssumption ==
    /\ NoRun \notin Runs
    /\ NoAttempt \notin Attempts
    /\ NoApproval \notin Approvals

VARIABLES
    runOf,       \* attempt -> the cell it tries
    state,       \* attempt -> its lifecycle state
    resv,        \* attempt -> its reservation (one id per attempt)
    outstanding, \* arm -> reserved cost of its unsettled reservations
    charged,     \* arm -> charged cost of its settled reservations
    closed,      \* arms that fund nothing more
    retained,    \* arm -> the settled reservations a continuation receipt covers
    receipts,    \* <<arm, approval>> pairs that already reopened an arm
    policy,      \* arm -> the approval of its latest continuation
    expired,     \* approvals whose execution window has passed
    hold,        \* recovery-hold.json exists
    started,     \* attempts with a WORKER_STARTED event
    stopped,     \* attempts with a tree-stop or stop-attestation event
    alive,       \* attempts whose recorded process may still be alive
    txn,         \* the locked call with events still to append
    overrun      \* history: arm -> cost charged beyond what was reserved

attemptVars == <<runOf, state>>
budgetVars == <<resv, outstanding, charged, overrun>>
armVars == <<closed, retained, receipts, policy>>
workerVars == <<started, stopped, alive>>
vars == <<attemptVars, budgetVars, armVars, workerVars, expired, hold, txn>>

-----------------------------------------------------------------------------
Terminal == {"SUCCEEDED", "FAILED", "INTERRUPTED", "TIMEOUT",
             "BUDGET_EXHAUSTED", "PREFLIGHT_FAILED", "CANCELLED"}
States == Terminal \cup {"UNREGISTERED", "REGISTERED", "RUNNING"}

NoReservation == [phase |-> "none", reserved |-> 0, charged |-> 0, measured |-> FALSE]
Reservation == [phase : {"none", "held", "settled"}, reserved : Nat,
                charged : Nat, measured : BOOLEAN]

Idle == [phase |-> "idle", attempt |-> NoAttempt]
Txn == [phase : {"idle", "close", "settle", "closeRecovered", "interrupt", "refuse"},
        attempt : Attempts \cup {NoAttempt}]

TypeOK ==
    /\ runOf \in [Attempts -> Runs \cup {NoRun}]
    /\ state \in [Attempts -> States]
    /\ resv \in [Attempts -> Reservation]
    /\ outstanding \in [Arms -> Int]
    /\ charged \in [Arms -> Int]
    /\ overrun \in [Arms -> Nat]
    /\ closed \subseteq Arms
    /\ retained \in [Arms -> SUBSET Attempts]
    /\ receipts \subseteq Arms \X Approvals
    /\ policy \in [Arms -> Approvals \cup {NoApproval}]
    /\ expired \subseteq Approvals
    /\ hold \in BOOLEAN
    /\ started \subseteq Attempts
    /\ stopped \subseteq Attempts
    /\ alive \subseteq Attempts
    /\ txn \in Txn

Init ==
    /\ runOf = [a \in Attempts |-> NoRun]
    /\ state = [a \in Attempts |-> "UNREGISTERED"]
    /\ resv = [a \in Attempts |-> NoReservation]
    /\ outstanding = [m \in Arms |-> 0]
    /\ charged = [m \in Arms |-> 0]
    /\ overrun = [m \in Arms |-> 0]
    /\ closed = {}
    /\ retained = [m \in Arms |-> {}]
    /\ receipts = {}
    /\ policy = [m \in Arms |-> NoApproval]
    /\ expired = {}
    /\ hold = FALSE
    /\ started = {}
    /\ stopped = {}
    /\ alive = {}
    /\ txn = Idle

-----------------------------------------------------------------------------

(* What the fold of the chain says. *)

Free == txn.phase = "idle"
Registered(a) == state[a] # "UNREGISTERED"
Live(a) == state[a] \in {"REGISTERED", "RUNNING"}
Held(a) == resv[a].phase = "held"
Settled(a) == resv[a].phase = "settled"
AttemptsOf(r) == {a \in Attempts : runOf[a] = r}
Arm(a) == ArmOf[runOf[a]]

\* Arms with a continuation receipt: a deadline no longer closes them.
Soft(m) == retained[m] # {}

Committed(m) == outstanding[m] + charged[m]
Remaining(m) == IF Committed(m) < Cap THEN Cap - Committed(m) ELSE 0

\* Mutant of ClosesArm: forgets that an unknown cost closes the arm.
ClosesArmIfKnown(m, measured, outcome) ==
    \/ outcome = "BUDGET_EXHAUSTED"
    \/ ~Soft(m) /\ outcome \in {"TIMEOUT", "INTERRUPTED"}

\* A SETTLE event that closes its arm by itself, whatever is appended next.
ClosesArm(m, measured, outcome) ==
    \/ ~measured
    \/ outcome = "BUDGET_EXHAUSTED"
    \/ ~Soft(m) /\ outcome \in {"TIMEOUT", "INTERRUPTED"}

-----------------------------------------------------------------------------
(* ResearchStore: the attempt lifecycle. *)

\* Mutant of MayTry: retries a cell that succeeded.
MayTryUnlessLive(r) ==
    /\ \A a \in AttemptsOf(r) : state[a] \in Terminal
    /\ Cardinality(AttemptsOf(r)) < 3

\* At most two explicit retries, one live attempt, none after a success.
MayTry(r) ==
    /\ \A a \in AttemptsOf(r) : state[a] \in Terminal \ {"SUCCEEDED"}
    /\ Cardinality(AttemptsOf(r)) < 3

Register(a, r) ==
    /\ ~Registered(a)
    /\ MayTry(r)
    /\ runOf' = [runOf EXCEPT ![a] = r]
    /\ state' = [state EXCEPT ![a] = "REGISTERED"]
    /\ UNCHANGED <<budgetVars, armVars, workerVars, expired, hold>>

NewAttempt(a, r) ==
    /\ Free
    /\ Register(a, r)
    /\ UNCHANGED txn

\* record_declared_refusal appends the attempt and then its terminal state.
RecordDeclaredRefusal(a, r) ==
    /\ Free
    /\ r \in Declared
    /\ AttemptsOf(r) = {}
    /\ Register(a, r)
    /\ txn' = [phase |-> "refuse", attempt |-> a]

AppendRefusal ==
    /\ txn.phase = "refuse"
    /\ state' = [state EXCEPT ![txn.attempt] = "PREFLIGHT_FAILED"]
    /\ txn' = Idle
    /\ UNCHANGED <<runOf, budgetVars, armVars, workerVars, expired, hold>>

\* Mutant of Allowed: a failure overwrites a terminal state.
AllowedOver(from, to) ==
    \/ to = "RUNNING" /\ from = "REGISTERED"
    \/ to = "SUCCEEDED" /\ from = "RUNNING"
    \/ to \in Terminal \ {"SUCCEEDED"} /\ from # "UNREGISTERED"

\* A terminal state never changes; its identical replay appends nothing.
Allowed(from, to) ==
    \/ to = "RUNNING" /\ from = "REGISTERED"
    \/ to = "SUCCEEDED" /\ from = "RUNNING"
    \/ to \in Terminal \ {"SUCCEEDED"} /\ from \in {"REGISTERED", "RUNNING"}

Transition(a, s) ==
    /\ Free
    /\ Allowed(state[a], s)
    /\ state' = [state EXCEPT ![a] = s]
    /\ UNCHANGED <<runOf, budgetVars, armVars, workerVars, expired, hold, txn>>

-----------------------------------------------------------------------------
(* BudgetLedger.reserve: capacity check, refusal and reservation are one   *)
(* locked step.  A replay that finds the reservation appends nothing.      *)

MayReserve(a) ==
    /\ Free
    /\ ~hold
    /\ Registered(a)
    /\ resv[a].phase = "none"

\* The authority of a continued arm must still be live, closed or not.
Executable(a, ms) ==
    /\ state[a] = "REGISTERED"
    /\ runOf[a] \notin Declared
    /\ Soft(Arm(a)) => policy[Arm(a)] \notin expired
    /\ ms \in AllocationOnly => Soft(Arm(a))

\* Mutant of Fundable: counts what is charged, not what is promised.
FundableFromCharged(a, ms) == Arm(a) \notin closed /\ ms <= Cap - charged[Arm(a)]

Fundable(a, ms) == Arm(a) \notin closed /\ ms <= Remaining(Arm(a))

ReserveDeclared(a) ==
    /\ MayReserve(a)
    /\ runOf[a] \in Declared
    /\ state[a] = "REGISTERED"
    /\ state' = [state EXCEPT ![a] = "PREFLIGHT_FAILED"]
    /\ UNCHANGED <<runOf, budgetVars, armVars, workerVars, expired, hold, txn>>

Reserve(a, ms) ==
    /\ MayReserve(a)
    /\ Executable(a, ms)
    /\ Fundable(a, ms)
    /\ resv' = [resv EXCEPT ![a] = [NoReservation EXCEPT !.phase = "held", !.reserved = ms]]
    /\ outstanding' = [outstanding EXCEPT ![Arm(a)] = @ + ms]
    /\ UNCHANGED <<attemptVars, charged, overrun, armVars, workerVars, expired, hold, txn>>

\* BUDGET_EXHAUSTED if no settlement could ever free enough, else BUDGET_BUSY.
RefuseReserve(a, ms) ==
    /\ MayReserve(a)
    /\ Executable(a, ms)
    /\ ~Fundable(a, ms)
    /\ LET final == Arm(a) \in closed \/ ms > Cap - charged[Arm(a)]
       IN  state' = [state EXCEPT ![a] = IF final THEN "BUDGET_EXHAUSTED" ELSE "PREFLIGHT_FAILED"]
    /\ UNCHANGED <<runOf, budgetVars, armVars, workerVars, expired, hold, txn>>

-----------------------------------------------------------------------------
(* BudgetLedger._settle: the SETTLE event, then ARM_CLOSED if it is due.   *)
(* An unmeasured settlement charges the full reservation; a measured one   *)
(* charges what was measured, even above the reservation.                  *)

\* Mutant of SettleEvent: charges only what exceeds the reservation.
SettleOverrunOnly(a, elapsed, measured, outcome) ==
    LET m == Arm(a)
        cost == elapsed - resv[a].reserved
    IN  /\ Held(a)
        /\ resv' = [resv EXCEPT ![a] =
              [@ EXCEPT !.phase = "settled", !.charged = cost, !.measured = measured]]
        /\ outstanding' = [outstanding EXCEPT ![m] = @ - resv[a].reserved]
        /\ charged' = [charged EXCEPT ![m] = @ + cost]
        /\ closed' = IF ClosesArm(m, measured, outcome) THEN closed \cup {m} ELSE closed
        /\ UNCHANGED <<attemptVars, overrun, retained, receipts, policy, workerVars, expired, hold>>

SettleEvent(a, elapsed, measured, outcome) ==
    LET m == Arm(a)
        cost == IF measured THEN elapsed ELSE resv[a].reserved
    IN  /\ Held(a)
        /\ resv' = [resv EXCEPT ![a] =
              [@ EXCEPT !.phase = "settled", !.charged = cost, !.measured = measured]]
        /\ outstanding' = [outstanding EXCEPT ![m] = @ - resv[a].reserved]
        /\ charged' = [charged EXCEPT ![m] = @ + cost]
        /\ overrun' = [overrun EXCEPT ![m] =
              @ + IF cost > resv[a].reserved THEN cost - resv[a].reserved ELSE 0]
        /\ closed' = IF ClosesArm(m, measured, outcome) THEN closed \cup {m} ELSE closed
        /\ UNCHANGED <<attemptVars, retained, receipts, policy, workerVars, expired, hold>>

\* Reads the balance after its own SETTLE event.
ClosureDue(a, measured, outcome) ==
    \/ ClosesArm(Arm(a), measured, outcome)
    \/ Remaining(Arm(a))' = 0

Settle(a, elapsed, measured, outcome) ==
    /\ Free
    /\ SettleEvent(a, elapsed, measured, outcome)
    /\ txn' = IF ClosureDue(a, measured, outcome)
              THEN [phase |-> "close", attempt |-> a] ELSE Idle

AppendArmClosed ==
    /\ txn.phase = "close"
    /\ closed' = closed \cup {Arm(txn.attempt)}
    /\ txn' = Idle
    /\ UNCHANGED <<attemptVars, budgetVars, retained, receipts, policy,
                   workerVars, expired, hold>>

\* ARM_CLOSED appended by the supervisor that could not confirm a stop.
CloseArm(m) ==
    /\ Free
    /\ closed' = closed \cup {m}
    /\ UNCHANGED <<attemptVars, budgetVars, retained, receipts, policy,
                   workerVars, expired, hold, txn>>

-----------------------------------------------------------------------------
(* BudgetLedger.recover_unknown: attestation, full-cost settlement,        *)
(* closure and terminal state under one lock, one event at a time.         *)

PossiblyLaunched(a) == a \in started \/ state[a] # "REGISTERED"

\* Never over a recorded worker that may be alive; a possibly launched
\* attempt also needs the operator's attestation, recorded first.
RecoverHeld(a) ==
    /\ Free
    /\ Held(a)
    /\ ~(a \in started /\ a \in alive)
    /\ stopped' = IF PossiblyLaunched(a) THEN stopped \cup {a} ELSE stopped
    /\ txn' = [phase |-> "settle", attempt |-> a]
    /\ UNCHANGED <<attemptVars, budgetVars, armVars, started, alive, expired, hold>>

\* Settled already, but its caller died before the terminal transition.
RecoverSettled(a) ==
    /\ Free
    /\ Settled(a)
    /\ Live(a)
    /\ txn' = [phase |-> "closeRecovered", attempt |-> a]
    /\ UNCHANGED <<attemptVars, budgetVars, armVars, workerVars, expired, hold>>

\* The ARM_CLOSED of the settlement and the one of the recovery are one step.
AppendRecoverySettle ==
    /\ txn.phase = "settle"
    /\ SettleEvent(txn.attempt, 0, FALSE, "INTERRUPTED")
    /\ txn' = [txn EXCEPT !.phase = IF Live(txn.attempt) THEN "closeRecovered" ELSE "close"]

AppendRecoveryClosed ==
    /\ txn.phase = "closeRecovered"
    /\ closed' = closed \cup {Arm(txn.attempt)}
    /\ txn' = [txn EXCEPT !.phase = "interrupt"]
    /\ UNCHANGED <<attemptVars, budgetVars, retained, receipts, policy,
                   workerVars, expired, hold>>

AppendInterrupted ==
    /\ txn.phase = "interrupt"
    /\ state' = [state EXCEPT ![txn.attempt] = "INTERRUPTED"]
    /\ txn' = Idle
    /\ UNCHANGED <<runOf, budgetVars, armVars, workerVars, expired, hold>>

-----------------------------------------------------------------------------
(* BudgetLedger.continue_arm: reopen an arm at its accumulated cost.       *)

\* Mutant of Costs: overlooks reservations that are not settled.
SettledCosts(m) == {a \in Attempts : Settled(a) /\ Arm(a) = m}

Costs(m) == {a \in Attempts : resv[a].phase # "none" /\ Arm(a) = m}

ContinueArm(m, ap) ==
    /\ Free
    /\ ap \notin expired
    /\ ~hold
    /\ <<m, ap>> \notin receipts
    /\ Costs(m) # {}
    /\ \A a \in Costs(m) : Settled(a)
    /\ charged[m] < Cap
    /\ \A a \in Costs(m) \cap started :
          a \in stopped /\ state[a] \in Terminal /\ a \notin alive
    /\ closed' = closed \ {m}
    /\ retained' = [retained EXCEPT ![m] = Costs(m)]
    /\ receipts' = receipts \cup {<<m, ap>>}
    /\ policy' = [policy EXCEPT ![m] = ap]
    /\ UNCHANGED <<attemptVars, budgetVars, workerVars, expired, hold, txn>>

-----------------------------------------------------------------------------
(* Events of the supervisor that the ledger reads, and the environment. *)

\* A wrapper process exists; it waits for GO until WORKER_STARTED is appended.
\* Nobody checks the attempt's state before the wrapper is spawned.
ProcessSpawned(a) ==
    /\ Registered(a)
    /\ a \notin started
    /\ alive' = alive \cup {a}
    /\ UNCHANGED <<attemptVars, budgetVars, armVars, started, stopped, expired, hold, txn>>

\* The state is checked again under the lock that appends the event.
WorkerStarted(a) ==
    /\ Free
    /\ state[a] = "RUNNING"
    /\ started' = started \cup {a}
    /\ UNCHANGED <<attemptVars, budgetVars, armVars, stopped, alive, expired, hold, txn>>

ProcessGone(a) ==
    /\ alive' = alive \ {a}
    /\ UNCHANGED <<attemptVars, budgetVars, armVars, started, stopped, expired, hold, txn>>

WorkerTreeStopped(a) ==
    /\ Free
    /\ Registered(a)
    /\ a \notin alive
    /\ stopped' = stopped \cup {a}
    /\ UNCHANGED <<attemptVars, budgetVars, armVars, started, alive, expired, hold, txn>>

ExpireApproval(ap) ==
    /\ expired' = expired \cup {ap}
    /\ UNCHANGED <<attemptVars, budgetVars, armVars, workerVars, hold, txn>>

\* quarantine_tail wrote recovery-hold.json; nothing in the code removes it.
PlaceHold ==
    /\ Free
    /\ hold' = TRUE
    /\ UNCHANGED <<attemptVars, budgetVars, armVars, workerVars, expired, txn>>

\* The process that holds the lock dies; the kernel releases the lock.
Crash ==
    /\ ~Free
    /\ txn' = Idle
    /\ UNCHANGED <<attemptVars, budgetVars, armVars, workerVars, expired, hold>>

-----------------------------------------------------------------------------
AttemptStep(a) ==
    \/ \E r \in Runs : NewAttempt(a, r) \/ RecordDeclaredRefusal(a, r)
    \/ \E s \in Outcomes \cup {"RUNNING"} : Transition(a, s)

BudgetStep(a) ==
    \/ ReserveDeclared(a)
    \/ \E ms \in Requests : Reserve(a, ms) \/ RefuseReserve(a, ms)
    \/ \E e \in Elapsed, measured \in BOOLEAN, s \in Outcomes : Settle(a, e, measured, s)
    \/ RecoverHeld(a) \/ RecoverSettled(a)

WorkerStep(a) ==
    ProcessSpawned(a) \/ WorkerStarted(a) \/ ProcessGone(a) \/ WorkerTreeStopped(a)

ArmStep(m) == CloseArm(m) \/ \E ap \in Approvals : ContinueArm(m, ap)

AppendNext ==
    \/ AppendRefusal \/ AppendArmClosed
    \/ AppendRecoverySettle \/ AppendRecoveryClosed \/ AppendInterrupted

Next ==
    \/ \E a \in Attempts : AttemptStep(a) \/ BudgetStep(a) \/ WorkerStep(a)
    \/ \E m \in Arms : ArmStep(m)
    \/ \E ap \in Approvals : ExpireApproval(ap)
    \/ AppendNext
    \/ PlaceHold
    \/ Crash

Spec == Init /\ [][Next]_vars

-----------------------------------------------------------------------------
(* Safety. *)

\* Reservations never promise more than the arm has: what it has committed
\* exceeds the cap at most by the slot time jobs really overran.
CapHeld == \A m \in Arms : Committed(m) <= Cap + overrun[m]

\* A cell has at most one attempt that is live or has succeeded, so no second
\* worker computes a cell another worker computes or has computed.
Current(a) == Live(a) \/ state[a] = "SUCCEEDED"
OneCurrentAttempt ==
    \A a, b \in Attempts :
        Current(a) /\ Current(b) /\ runOf[a] = runOf[b] => a = b

\* A reservation of unknown cost leaves its arm closed from the SETTLE event
\* on, also when the caller dies before ARM_CLOSED; only a continuation
\* receipt that retains its full charge reopens the arm.
UnknownCostCloses ==
    \A a \in Attempts :
        Settled(a) /\ ~resv[a].measured =>
            /\ resv[a].charged = resv[a].reserved
            /\ Arm(a) \in closed \/ a \in retained[Arm(a)]

(* Action properties. *)

\* What is final stays: a terminal state, a settled cost, an attempt's cell;
\* and no step, recovery and continuation included, lowers an arm's charge.
FinalStaysFinal ==
    [][/\ \A a \in Attempts :
            /\ state[a] \in Terminal => state'[a] = state[a]
            /\ Settled(a) => resv'[a] = resv[a]
            /\ Registered(a) => runOf'[a] = runOf[a]
       /\ \A m \in Arms : charged'[m] >= charged[m]]_vars

\* Every approval reopens an arm at most once, and never under an unsettled
\* reservation or a spent cap: closing again after a continuation is final
\* until somebody approves again.
ReopenedOncePerApproval ==
    [][\A m \in closed \ closed' :
          /\ \E ap \in Approvals \ expired :
                <<m, ap>> \in receipts' \ receipts
          /\ \A a \in Attempts : Held(a) => Arm(a) # m
          /\ Committed(m) < Cap]_vars

(* What the documentation says and the code does not do. *)

\* Capacity other attempts hold only for now never ends an arm: a settlement
\* that does not close its arm by outcome closes it only at a spent cap.
BusyArmStaysOpen ==
    [][\A m \in closed' \ closed : txn.phase = "close" => charged[m] >= Cap]_vars
=============================================================================
