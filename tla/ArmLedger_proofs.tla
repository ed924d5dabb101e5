-------------------------- MODULE ArmLedger_proofs --------------------------
(* Proofs about ArmLedger, for any cells, attempts, arms, cap and costs.   *)
EXTENDS ArmLedger, TLAPS

-----------------------------------------------------------------------------
(* A call in progress names a registered attempt, exactly the registered   *)
(* attempts have a cell, and only they have a reservation.                 *)
TxnNamesAttempt == txn.phase # "idle" => txn.attempt \in Attempts /\ Registered(txn.attempt)
RegisteredHasRun == \A a \in Attempts : Registered(a) <=> runOf[a] \in Runs
ReservedIsRegistered == \A a \in Attempts : resv[a].phase # "none" => Registered(a)

Shape == TypeOK /\ TxnNamesAttempt /\ RegisteredHasRun /\ ReservedIsRegistered

\* Registered attempts have an arm: the cell's.
LEMMA ArmTyped ==
    ASSUME Shape, NEW a \in Attempts, Registered(a)
    PROVE  Arm(a) \in Arms
BY ArmOfAssumption DEF Shape, RegisteredHasRun, Arm

LEMMA OutcomesTerminal == Outcomes \subseteq Terminal
BY OutcomeAssumption DEF Terminal

\* Every state an attempt may be moved to is a state.
LEMMA TerminalIsState == Terminal \subseteq States /\ "REGISTERED" \in States
                         /\ "RUNNING" \in States /\ "UNREGISTERED" \notin Terminal
BY DEF States, Terminal

\* The initial state is well shaped.
LEMMA InitShape == Init => Shape
<1> SUFFICES ASSUME Init PROVE Shape
    OBVIOUS
<1> USE DEF Init
<1>1. state \in [Attempts -> States]
    BY DEF States
<1>2. resv \in [Attempts -> Reservation]
    BY DEF Reservation, NoReservation
<1>3. txn \in Txn
    BY DEF Txn, Idle
<1>4. TypeOK
  <2>1. /\ outstanding \in [Arms -> Int] /\ charged \in [Arms -> Int]
        /\ overrun \in [Arms -> Nat]
    OBVIOUS
  <2>2. runOf \in [Attempts -> Runs \cup {NoRun}]
    OBVIOUS
  <2>3. retained \in [Arms -> SUBSET Attempts]
    OBVIOUS
  <2>4. policy \in [Arms -> Approvals \cup {NoApproval}]
    OBVIOUS
  <2>5. /\ closed \subseteq Arms /\ receipts \subseteq Arms \X Approvals
        /\ expired \subseteq Approvals /\ hold \in BOOLEAN
        /\ started \subseteq Attempts /\ stopped \subseteq Attempts /\ alive \subseteq Attempts
    OBVIOUS
  <2> HIDE DEF Init
  <2> QED
    BY <1>1, <1>2, <1>3, <2>1, <2>2, <2>3, <2>4, <2>5 DEF TypeOK
<1>5. TxnNamesAttempt /\ RegisteredHasRun /\ ReservedIsRegistered
    BY NullAssumption DEF TxnNamesAttempt, RegisteredHasRun, ReservedIsRegistered,
       Registered, Idle, NoReservation
<1> QED
    BY <1>4, <1>5 DEF Shape

\* What a SETTLE event does to the shape, whoever appends it.
LEMMA SettleShape ==
    ASSUME Shape, NEW a \in Attempts, NEW e \in Nat, NEW measured \in BOOLEAN,
           NEW s, SettleEvent(a, e, measured, s)
    PROVE  /\ resv' \in [Attempts -> Reservation]
           /\ outstanding' \in [Arms -> Int]
           /\ charged' \in [Arms -> Int]
           /\ overrun' \in [Arms -> Nat]
           /\ closed' \subseteq Arms
           /\ \A b \in Attempts : resv'[b].phase # "none" => resv[b].phase # "none"
           /\ UNCHANGED <<attemptVars, retained, receipts, policy, workerVars, expired, hold>>
<1> USE DEF Shape, TypeOK
<1>1. Registered(a)
    BY DEF SettleEvent, Held, ReservedIsRegistered
<1>2. Arm(a) \in Arms
    BY <1>1, ArmTyped
<1>3. resv[a].reserved \in Nat /\ resv[a] \in Reservation
    BY DEF Reservation
<1> DEFINE m == Arm(a)
           cost == IF measured THEN e ELSE resv[a].reserved
           excess == IF cost > resv[a].reserved THEN cost - resv[a].reserved ELSE 0
<1>4. cost \in Nat /\ excess \in Nat
    BY <1>3
<1>5. /\ resv' = [resv EXCEPT ![a] =
            [@ EXCEPT !.phase = "settled", !.charged = cost, !.measured = measured]]
      /\ outstanding' = [outstanding EXCEPT ![m] = @ - resv[a].reserved]
      /\ charged' = [charged EXCEPT ![m] = @ + cost]
      /\ overrun' = [overrun EXCEPT ![m] = @ + excess]
    BY DEF SettleEvent
<1> HIDE DEF m, cost, excess
<1>6. resv' \in [Attempts -> Reservation]
    BY <1>3, <1>4, <1>5 DEF Reservation
<1>7. /\ outstanding' \in [Arms -> Int] /\ charged' \in [Arms -> Int]
      /\ overrun' \in [Arms -> Nat]
    BY <1>2, <1>3, <1>4, <1>5 DEF m
<1>8. closed' \subseteq Arms
    BY <1>2 DEF SettleEvent
<1>9. \A b \in Attempts : resv'[b].phase # "none" => resv[b].phase # "none"
    BY DEF SettleEvent, Held
<1> QED
    BY <1>6, <1>7, <1>8, <1>9 DEF SettleEvent

\* Every step keeps the shape: one case for each action of Next.
LEMMA StepShape == Shape /\ [Next]_vars => Shape'
<1> SUFFICES ASSUME Shape, [Next]_vars PROVE Shape'
    OBVIOUS
<1> USE DEF Shape, TxnNamesAttempt, RegisteredHasRun, ReservedIsRegistered,
        Registered, Free, attemptVars, budgetVars, armVars, workerVars
<1>r. ASSUME NEW a \in Attempts, NEW r \in Runs, Register(a, r),
             txn' = txn \/ txn' = [phase |-> "refuse", attempt |-> a]
      PROVE  Shape'
  <2>1. state' \in [Attempts -> States] /\ runOf' \in [Attempts -> Runs \cup {NoRun}]
      BY <1>r, TerminalIsState DEF TypeOK, Register
  <2>2. txn' \in Txn
      BY <1>r DEF TypeOK, Txn
  <2>3. TypeOK'
      BY <1>r, <2>1, <2>2 DEF TypeOK, Register
  <2>4. (TxnNamesAttempt /\ RegisteredHasRun /\ ReservedIsRegistered)'
      BY <1>r DEF TypeOK, Register
  <2> QED
      BY <2>3, <2>4
<1>s. ASSUME NEW a \in Attempts, Registered(a), NEW t \in Terminal \cup {"RUNNING"},
             state' = [state EXCEPT ![a] = t], txn' = txn \/ txn' = Idle,
             UNCHANGED <<runOf, budgetVars, armVars, workerVars, expired, hold>>
      PROVE  Shape'
  <2>1. state' \in [Attempts -> States] /\ t # "UNREGISTERED"
      BY <1>s, TerminalIsState DEF TypeOK
  <2>2. txn' \in Txn
      BY <1>s DEF TypeOK, Txn, Idle
  <2>3. TypeOK'
      BY <1>s, <2>1, <2>2 DEF TypeOK
  <2>4. (TxnNamesAttempt /\ RegisteredHasRun /\ ReservedIsRegistered)'
      BY <1>s, <2>1 DEF TypeOK, Idle
  <2> QED
      BY <2>3, <2>4
<1>c. ASSUME NEW C \in SUBSET Arms, closed' = C, txn' \in Txn,
             txn'.phase # "idle" => txn'.attempt \in Attempts /\ Registered(txn'.attempt),
             UNCHANGED <<attemptVars, budgetVars, retained, receipts, policy, workerVars, expired, hold>>
      PROVE  Shape'
  <2>1. TypeOK'
      BY <1>c DEF TypeOK
  <2> QED
      BY <1>c, <2>1
<1>v. ASSUME NEW a \in Attempts, NEW e \in Nat, NEW measured \in BOOLEAN, NEW o,
             SettleEvent(a, e, measured, o), txn' \in Txn,
             txn'.phase # "idle" => txn'.attempt \in Attempts /\ Registered(txn'.attempt)
      PROVE  Shape'
  <2>1. /\ resv' \in [Attempts -> Reservation]
        /\ outstanding' \in [Arms -> Int] /\ charged' \in [Arms -> Int]
        /\ overrun' \in [Arms -> Nat] /\ closed' \subseteq Arms
        /\ \A b \in Attempts : resv'[b].phase # "none" => resv[b].phase # "none"
        /\ UNCHANGED <<attemptVars, retained, receipts, policy, workerVars, expired, hold>>
      BY <1>v, SettleShape
  <2>2. TypeOK'
      BY <1>v, <2>1 DEF TypeOK
  <2> QED
      BY <1>v, <2>1, <2>2
<1>1. ASSUME NEW a \in Attempts, AttemptStep(a) PROVE Shape'
  <2>1. ASSUME NEW r \in Runs, NewAttempt(a, r) \/ RecordDeclaredRefusal(a, r) PROVE Shape'
      BY <2>1, <1>r DEF NewAttempt, RecordDeclaredRefusal
  <2>2. ASSUME NEW t \in Outcomes \cup {"RUNNING"}, Transition(a, t) PROVE Shape'
    <3>1. Registered(a) /\ t \in Terminal \cup {"RUNNING"}
        BY <2>2, OutcomesTerminal DEF Transition, Allowed
    <3> QED
        BY <2>2, <3>1, <1>s DEF Transition
  <2> QED
      BY <1>1, <2>1, <2>2 DEF AttemptStep
<1>2. ASSUME NEW a \in Attempts, BudgetStep(a) PROVE Shape'
  <2>1. CASE ReserveDeclared(a)
      BY <2>1, <1>s, TerminalIsState DEF ReserveDeclared, Terminal
  <2>2. ASSUME NEW ms \in Requests, Reserve(a, ms) PROVE Shape'
    <3>1. Registered(a) /\ Arm(a) \in Arms /\ ms \in Nat
        BY <2>2, ArmTyped, CostAssumption DEF Reserve, MayReserve
    <3>2. resv' \in [Attempts -> Reservation]
        BY <2>2, <3>1 DEF Reserve, TypeOK, Reservation, NoReservation
    <3>3. outstanding' \in [Arms -> Int]
        BY <2>2, <3>1 DEF Reserve, TypeOK
    <3>4. TypeOK'
        BY <2>2, <3>2, <3>3 DEF Reserve, TypeOK
    <3> QED
        BY <2>2, <3>1, <3>4 DEF Reserve, TypeOK
  <2>3. ASSUME NEW ms \in Requests, RefuseReserve(a, ms) PROVE Shape'
    <3> DEFINE t == IF Arm(a) \in closed \/ ms > Cap - charged[Arm(a)]
                    THEN "BUDGET_EXHAUSTED" ELSE "PREFLIGHT_FAILED"
    <3>1. state' = [state EXCEPT ![a] = t] /\ t \in Terminal
        BY <2>3 DEF RefuseReserve, Terminal
    <3> HIDE DEF t
    <3> QED
        BY <2>3, <3>1, <1>s DEF RefuseReserve, MayReserve
  <2>4. ASSUME NEW e \in Elapsed, NEW measured \in BOOLEAN, NEW o \in Outcomes,
               Settle(a, e, measured, o)
        PROVE  Shape'
    <3>1. e \in Nat /\ Registered(a)
        BY <2>4, CostAssumption DEF Settle, SettleEvent, Held
    <3>2. txn' \in Txn /\ (txn'.phase # "idle" => txn'.attempt = a)
        BY <2>4 DEF Settle, Txn, Idle
    <3> QED
        BY <2>4, <3>1, <3>2, <1>v DEF Settle
  <2>5. CASE RecoverHeld(a)
    <3>1. txn' = [phase |-> "settle", attempt |-> a] /\ txn' \in Txn /\ Registered(a)
        BY <2>5 DEF RecoverHeld, Txn, Held
    <3>2. stopped' \in SUBSET Attempts
        BY <2>5 DEF RecoverHeld, TypeOK
    <3>3. TypeOK'
        BY <2>5, <3>1, <3>2 DEF RecoverHeld, TypeOK
    <3> QED
        BY <2>5, <3>1, <3>3 DEF RecoverHeld
  <2>6. CASE RecoverSettled(a)
    <3>1. txn' = [phase |-> "closeRecovered", attempt |-> a] /\ txn' \in Txn /\ Registered(a)
        BY <2>6 DEF RecoverSettled, Txn, Settled
    <3>2. TypeOK'
        BY <2>6, <3>1 DEF RecoverSettled, TypeOK
    <3> QED
        BY <2>6, <3>1, <3>2 DEF RecoverSettled
  <2> QED
      BY <1>2, <2>1, <2>2, <2>3, <2>4, <2>5, <2>6 DEF BudgetStep
<1>3. ASSUME NEW a \in Attempts, WorkerStep(a) PROVE Shape'
  <2>1. /\ started' \subseteq Attempts /\ stopped' \subseteq Attempts /\ alive' \subseteq Attempts
        /\ UNCHANGED <<attemptVars, budgetVars, armVars, expired, hold, txn>>
      BY <1>3 DEF WorkerStep, ProcessSpawned, WorkerStarted, ProcessGone, WorkerTreeStopped, TypeOK
  <2>2. TypeOK'
      BY <2>1 DEF TypeOK
  <2> QED
      BY <2>1, <2>2
<1>4. ASSUME NEW m \in Arms, ArmStep(m) PROVE Shape'
  <2>1. CASE CloseArm(m)
      BY <2>1, <1>c DEF CloseArm, TypeOK
  <2>2. ASSUME NEW ap \in Approvals, ContinueArm(m, ap) PROVE Shape'
    <3>1. retained' \in [Arms -> SUBSET Attempts]
        BY <2>2 DEF ContinueArm, TypeOK, Costs
    <3>2. /\ policy' \in [Arms -> Approvals \cup {NoApproval}]
          /\ receipts' \subseteq Arms \X Approvals /\ closed' \subseteq Arms
        BY <2>2 DEF ContinueArm, TypeOK
    <3>3. TypeOK'
        BY <2>2, <3>1, <3>2 DEF ContinueArm, TypeOK
    <3> QED
        BY <2>2, <3>3 DEF ContinueArm
  <2> QED
      BY <1>4, <2>1, <2>2 DEF ArmStep
<1>5. CASE AppendNext
  <2>1. CASE AppendRefusal
      BY <2>1, <1>s DEF AppendRefusal, Terminal
  <2>2. CASE AppendArmClosed
    <3>1. Arm(txn.attempt) \in Arms
        BY <2>2, ArmTyped DEF AppendArmClosed
    <3> QED
        BY <2>2, <3>1, <1>c DEF AppendArmClosed, TypeOK, Txn, Idle
  <2>3. CASE AppendRecoverySettle
    <3>1. txn' \in Txn /\ txn'.attempt = txn.attempt /\ txn.attempt \in Attempts
        BY <2>3 DEF AppendRecoverySettle, TypeOK, Txn
    <3>2. SettleEvent(txn.attempt, 0, FALSE, "INTERRUPTED")
        BY <2>3 DEF AppendRecoverySettle
    <3>3. Registered(txn.attempt)
        BY <2>3 DEF AppendRecoverySettle
    <3> QED
        BY <3>1, <3>2, <3>3, <1>v
  <2>4. CASE AppendRecoveryClosed
    <3>1. Arm(txn.attempt) \in Arms /\ Registered(txn.attempt) /\ txn.attempt \in Attempts
        BY <2>4, ArmTyped DEF AppendRecoveryClosed
    <3>2. txn' \in Txn /\ txn'.attempt = txn.attempt
        BY <2>4 DEF AppendRecoveryClosed, TypeOK, Txn
    <3> QED
        BY <2>4, <3>1, <3>2, <1>c DEF AppendRecoveryClosed, TypeOK
  <2>5. CASE AppendInterrupted
      BY <2>5, <1>s DEF AppendInterrupted, Terminal
  <2> QED
      BY <1>5, <2>1, <2>2, <2>3, <2>4, <2>5 DEF AppendNext
<1>6. CASE \E ap \in Approvals : ExpireApproval(ap)
  <2>1. expired' \subseteq Approvals
      BY <1>6 DEF ExpireApproval, TypeOK
  <2>2. TypeOK'
      BY <1>6, <2>1 DEF ExpireApproval, TypeOK
  <2> QED
      BY <1>6, <2>2 DEF ExpireApproval
<1>7. CASE PlaceHold
  <2>1. TypeOK'
      BY <1>7 DEF PlaceHold, TypeOK
  <2> QED
      BY <1>7, <2>1 DEF PlaceHold
<1>9. CASE Crash
  <2>1. txn' \in Txn /\ txn'.phase = "idle"
      BY <1>9 DEF Crash, Txn, Idle
  <2>2. TypeOK'
      BY <1>9, <2>1 DEF Crash, TypeOK
  <2> QED
      BY <1>9, <2>1, <2>2 DEF Crash
<1>8. CASE UNCHANGED vars
  <2>1. TypeOK'
      BY <1>8 DEF vars, TypeOK
  <2> QED
      BY <1>8, <2>1 DEF vars
<1> QED
    BY <1>1, <1>2, <1>3, <1>4, <1>5, <1>6, <1>7, <1>8, <1>9 DEF Next

\* Type correctness: no operation, recovery or crash leaves an ill-formed
\* ledger, and only registered attempts are ever funded.
THEOREM TypeCorrect == Spec => []TypeOK
<1>1. Shape => TypeOK
    BY DEF Shape
<1> QED
    BY <1>1, InitShape, StepShape, PTL DEF Spec

-----------------------------------------------------------------------------
(* Costs move in two ways only: a reservation and a SETTLE event. *)

SettlesSomething ==
    \E a \in Attempts, e \in Nat, measured \in BOOLEAN, o \in Terminal :
        SettleEvent(a, e, measured, o)
ReservesSomething == \E a \in Attempts, ms \in Requests : Reserve(a, ms)

LEMMA CostMoves ==
    Shape /\ [Next]_vars => UNCHANGED budgetVars \/ ReservesSomething \/ SettlesSomething
<1> SUFFICES ASSUME Shape, [Next]_vars
             PROVE  UNCHANGED budgetVars \/ ReservesSomething \/ SettlesSomething
    OBVIOUS
<1>1. ASSUME NEW a \in Attempts, AttemptStep(a) \/ WorkerStep(a) PROVE UNCHANGED budgetVars
    BY <1>1 DEF AttemptStep, NewAttempt, RecordDeclaredRefusal, Register, Transition,
       WorkerStep, ProcessSpawned, WorkerStarted, ProcessGone, WorkerTreeStopped
<1>2. ASSUME NEW a \in Attempts, BudgetStep(a)
      PROVE  UNCHANGED budgetVars \/ ReservesSomething \/ SettlesSomething
  <2>1. ASSUME NEW e \in Elapsed, NEW measured \in BOOLEAN, NEW o \in Outcomes,
               Settle(a, e, measured, o)
        PROVE  SettlesSomething
      BY <2>1, CostAssumption, OutcomesTerminal DEF Settle, SettlesSomething
  <2> QED
      BY <1>2, <2>1 DEF BudgetStep, ReserveDeclared, RefuseReserve, RecoverHeld,
         RecoverSettled, ReservesSomething
<1>3. ASSUME NEW m \in Arms, ArmStep(m) PROVE UNCHANGED budgetVars
    BY <1>3 DEF ArmStep, CloseArm, ContinueArm
<1>4. CASE AppendNext
  <2>1. CASE AppendRecoverySettle
    <3>1. txn.attempt \in Attempts
        BY <2>1 DEF AppendRecoverySettle, Shape, TxnNamesAttempt
    <3>2. SettleEvent(txn.attempt, 0, FALSE, "INTERRUPTED")
        BY <2>1 DEF AppendRecoverySettle
    <3>3. "INTERRUPTED" \in Terminal
        BY DEF Terminal
    <3> QED
        BY <3>1, <3>2, <3>3 DEF SettlesSomething
  <2> QED
      BY <1>4, <2>1 DEF AppendNext, AppendRefusal, AppendArmClosed,
         AppendRecoveryClosed, AppendInterrupted
<1>5. CASE (\E ap \in Approvals : ExpireApproval(ap)) \/ PlaceHold \/ Crash
    BY <1>5 DEF ExpireApproval, PlaceHold, Crash
<1>6. CASE UNCHANGED vars
    BY <1>6 DEF vars
<1> QED
    BY <1>1, <1>2, <1>3, <1>4, <1>5, <1>6 DEF Next

-----------------------------------------------------------------------------
(* The cap. *)

LEMMA StepCap == Shape /\ CapHeld /\ [Next]_vars => CapHeld'
<1> SUFFICES ASSUME Shape, CapHeld, [Next]_vars, NEW n \in Arms
             PROVE  (Committed(n) <= Cap + overrun[n])'
    BY DEF CapHeld
<1> USE DEF Shape, TypeOK, CapHeld, Committed
<1>1. CASE UNCHANGED budgetVars
    BY <1>1 DEF budgetVars
<1>2. ASSUME NEW a \in Attempts, NEW ms \in Requests, Reserve(a, ms)
      PROVE  (Committed(n) <= Cap + overrun[n])'
  <2>1. Arm(a) \in Arms /\ ms \in Nat \ {0}
      BY <1>2, ArmTyped, CostAssumption DEF Reserve, MayReserve
  <2>2. ms <= Remaining(Arm(a))
      BY <1>2 DEF Reserve, Fundable
  <2>3. Committed(Arm(a)) + ms <= Cap
      BY <2>1, <2>2, CostAssumption DEF Remaining
  <2>4. /\ outstanding' = [outstanding EXCEPT ![Arm(a)] = @ + ms]
        /\ charged' = charged /\ overrun' = overrun
      BY <1>2 DEF Reserve
  <2>5. CASE n = Arm(a)
      BY <2>1, <2>3, <2>4, <2>5, CostAssumption
  <2>6. CASE n # Arm(a)
      BY <2>1, <2>4, <2>6
  <2> QED
      BY <2>5, <2>6
<1>3. ASSUME NEW a \in Attempts, NEW e \in Nat, NEW measured \in BOOLEAN, NEW o \in Terminal,
             SettleEvent(a, e, measured, o)
      PROVE  (Committed(n) <= Cap + overrun[n])'
  <2> DEFINE m == Arm(a)
             held == resv[a].reserved
             cost == IF measured THEN e ELSE held
             excess == IF cost > held THEN cost - held ELSE 0
  <2>1. m \in Arms
      BY <1>3, ArmTyped DEF SettleEvent, Held, ReservedIsRegistered
  <2>2. held \in Nat
      BY DEF Reservation
  <2>3. /\ outstanding' = [outstanding EXCEPT ![m] = @ - held]
        /\ charged' = [charged EXCEPT ![m] = @ + cost]
        /\ overrun' = [overrun EXCEPT ![m] = @ + excess]
      BY <1>3 DEF SettleEvent
  <2>4. cost \in Nat /\ excess \in Nat /\ cost - held <= excess
      BY <2>2
  <2> HIDE DEF m, held, cost, excess
  <2>5. CASE n = m
    <3>1. /\ outstanding'[n] = outstanding[n] - held /\ charged'[n] = charged[n] + cost
          /\ overrun'[n] = overrun[n] + excess
        BY <2>1, <2>3, <2>5
    <3>2. outstanding[n] + charged[n] <= Cap + overrun[n]
        OBVIOUS
    <3>3. outstanding[n] \in Int /\ charged[n] \in Int /\ overrun[n] \in Nat
        OBVIOUS
    <3> QED
        BY <3>1, <3>2, <3>3, <2>2, <2>4, CostAssumption
  <2>6. CASE n # m
      BY <2>1, <2>3, <2>6
  <2> QED
      BY <2>5, <2>6
<1> QED
    BY <1>1, <1>2, <1>3, CostMoves DEF ReservesSomething, SettlesSomething

\* Reservations never promise more than the arm has, for any number of
\* attempts, arms, costs and crashes: the committed cost exceeds the cap at
\* most by the time settled jobs really ran beyond their reservations.
THEOREM CapIsHeld == Spec => []CapHeld
<1>1. Init => CapHeld
    BY CostAssumption DEF Init, CapHeld, Committed
<1> QED
    BY <1>1, InitShape, StepShape, StepCap, PTL DEF Spec

-----------------------------------------------------------------------------
(* One current attempt per cell. *)

LEMMA StepOneCurrent == Shape /\ OneCurrentAttempt /\ [Next]_vars => OneCurrentAttempt'
<1> SUFFICES ASSUME Shape, OneCurrentAttempt, [Next]_vars PROVE OneCurrentAttempt'
    OBVIOUS
<1> USE DEF Shape, TypeOK, RegisteredHasRun, Registered, Current, Live
\* A step that changes one state, and not into a new current one, is harmless.
<1>u. ASSUME NEW a \in Attempts, NEW t, state' = [state EXCEPT ![a] = t], runOf' = runOf,
             t = "RUNNING" \/ t = "SUCCEEDED" => Live(a), t # "REGISTERED"
      PROVE  OneCurrentAttempt'
    BY <1>u DEF OneCurrentAttempt
<1>n. ASSUME UNCHANGED attemptVars PROVE OneCurrentAttempt'
    BY <1>n DEF attemptVars, OneCurrentAttempt
<1>1. ASSUME NEW a \in Attempts, NEW r \in Runs, Register(a, r) PROVE OneCurrentAttempt'
  <2>1. \A b \in Attempts : runOf[b] = r => ~Current(b)
      BY <1>1 DEF Register, MayTry, AttemptsOf, Terminal
  <2>2. /\ runOf' = [runOf EXCEPT ![a] = r] /\ state' = [state EXCEPT ![a] = "REGISTERED"]
      BY <1>1 DEF Register
  <2>3. ASSUME NEW b \in Attempts, NEW c \in Attempts, Current(b)', Current(c)',
               runOf'[b] = runOf'[c], b # c
        PROVE  FALSE
    <3>1. b # a => Current(b) /\ runOf[b] = runOf'[b]
        BY <2>2, <2>3
    <3>2. c # a => Current(c) /\ runOf[c] = runOf'[c]
        BY <2>2, <2>3
    <3>3. runOf'[a] = r
        BY <2>2
    <3> QED
        BY <2>1, <2>3, <3>1, <3>2, <3>3 DEF OneCurrentAttempt
  <2> QED
      BY <2>3 DEF OneCurrentAttempt
<1>2. ASSUME NEW a \in Attempts, AttemptStep(a) PROVE OneCurrentAttempt'
  <2>1. ASSUME NEW t \in Outcomes \cup {"RUNNING"}, Transition(a, t) PROVE OneCurrentAttempt'
    <3>1. t # "REGISTERED"
        BY OutcomesTerminal DEF Terminal
    <3> QED
        BY <2>1, <3>1, <1>u DEF Transition, Allowed
  <2> QED
      BY <1>1, <1>2, <2>1 DEF AttemptStep, NewAttempt, RecordDeclaredRefusal
<1>3. ASSUME NEW a \in Attempts, BudgetStep(a) PROVE OneCurrentAttempt'
  <2>1. CASE ReserveDeclared(a)
      BY <2>1, <1>u DEF ReserveDeclared
  <2>2. ASSUME NEW ms \in Requests, RefuseReserve(a, ms) PROVE OneCurrentAttempt'
      BY <2>2, <1>u DEF RefuseReserve
  <2> QED
      BY <1>3, <2>1, <2>2, <1>n DEF BudgetStep, Reserve, Settle, SettleEvent,
         RecoverHeld, RecoverSettled
<1>4. ASSUME NEW a \in Attempts, WorkerStep(a) PROVE OneCurrentAttempt'
    BY <1>4, <1>n DEF WorkerStep, ProcessSpawned, WorkerStarted, ProcessGone, WorkerTreeStopped
<1>5. ASSUME NEW m \in Arms, ArmStep(m) PROVE OneCurrentAttempt'
    BY <1>5, <1>n DEF ArmStep, CloseArm, ContinueArm
<1>6. CASE AppendNext
  <2>1. CASE AppendRefusal
      BY <2>1, <1>u DEF AppendRefusal, TxnNamesAttempt
  <2>2. CASE AppendInterrupted
      BY <2>2, <1>u DEF AppendInterrupted, TxnNamesAttempt
  <2> QED
      BY <1>6, <2>1, <2>2, <1>n DEF AppendNext, AppendArmClosed, AppendRecoverySettle,
         SettleEvent, AppendRecoveryClosed
<1>7. CASE (\E ap \in Approvals : ExpireApproval(ap)) \/ PlaceHold \/ Crash
    BY <1>7, <1>n DEF ExpireApproval, PlaceHold, Crash
<1>8. CASE UNCHANGED vars
    BY <1>8, <1>n DEF vars, attemptVars
<1> QED
    BY <1>2, <1>3, <1>4, <1>5, <1>6, <1>7, <1>8 DEF Next

\* No cell ever has two attempts that are live or successful, whatever calls
\* callers make and wherever they die.
THEOREM OneCurrent == Spec => []OneCurrentAttempt
<1>1. Init => OneCurrentAttempt
    BY DEF Init, OneCurrentAttempt, Current, Live
<1> QED
    BY <1>1, InitShape, StepShape, StepOneCurrent, PTL DEF Spec

-----------------------------------------------------------------------------
(* Unknown cost. *)

\* Arms reopen, and receipts are rewritten, by continuations alone.
LEMMA ClosureMoves ==
    [Next]_vars =>
        \/ closed \subseteq closed' /\ retained' = retained
        \/ \E m \in Arms, ap \in Approvals : ContinueArm(m, ap)
<1> SUFFICES ASSUME [Next]_vars, \A m \in Arms, ap \in Approvals : ~ContinueArm(m, ap)
             PROVE  closed \subseteq closed' /\ retained' = retained
    OBVIOUS
<1> USE DEF armVars
<1>1. ASSUME NEW a \in Attempts, AttemptStep(a) \/ WorkerStep(a)
      PROVE  closed \subseteq closed' /\ retained' = retained
    BY <1>1 DEF AttemptStep, NewAttempt, RecordDeclaredRefusal, Register, Transition,
       WorkerStep, ProcessSpawned, WorkerStarted, ProcessGone, WorkerTreeStopped
<1>2. ASSUME NEW a \in Attempts, BudgetStep(a)
      PROVE  closed \subseteq closed' /\ retained' = retained
    BY <1>2 DEF BudgetStep, ReserveDeclared, Reserve, RefuseReserve, Settle, SettleEvent,
       RecoverHeld, RecoverSettled
<1>3. ASSUME NEW m \in Arms, ArmStep(m)
      PROVE  closed \subseteq closed' /\ retained' = retained
    BY <1>3 DEF ArmStep, CloseArm
<1>4. CASE AppendNext
    BY <1>4 DEF AppendNext, AppendRefusal, AppendArmClosed, AppendRecoverySettle,
       SettleEvent, AppendRecoveryClosed, AppendInterrupted
<1>5. CASE (\E ap \in Approvals : ExpireApproval(ap)) \/ PlaceHold \/ Crash
    BY <1>5 DEF ExpireApproval, PlaceHold, Crash
<1>6. CASE UNCHANGED vars
    BY <1>6 DEF vars
<1> QED
    BY <1>1, <1>2, <1>3, <1>4, <1>5, <1>6 DEF Next

\* A reserved attempt keeps its arm.
LEMMA ArmKept ==
    ASSUME Shape, [Next]_vars, NEW a \in Attempts, Registered(a)
    PROVE  Arm(a)' = Arm(a)
<1> USE DEF Arm
<1>n. ASSUME UNCHANGED runOf PROVE Arm(a)' = Arm(a)
    BY <1>n
<1>1. ASSUME NEW b \in Attempts, AttemptStep(b) PROVE Arm(a)' = Arm(a)
    BY <1>1, <1>n DEF AttemptStep, NewAttempt, RecordDeclaredRefusal, Register, Transition,
       Shape, TypeOK
<1>2. ASSUME NEW b \in Attempts, BudgetStep(b) \/ WorkerStep(b) PROVE Arm(a)' = Arm(a)
    BY <1>2, <1>n DEF BudgetStep, ReserveDeclared, Reserve, RefuseReserve, Settle, SettleEvent,
       RecoverHeld, RecoverSettled, WorkerStep, ProcessSpawned, WorkerStarted, ProcessGone,
       WorkerTreeStopped, attemptVars
<1>3. ASSUME NEW m \in Arms, ArmStep(m) PROVE Arm(a)' = Arm(a)
    BY <1>3, <1>n DEF ArmStep, CloseArm, ContinueArm, attemptVars
<1>4. CASE AppendNext
    BY <1>4, <1>n DEF AppendNext, AppendRefusal, AppendArmClosed, AppendRecoverySettle,
       SettleEvent, AppendRecoveryClosed, AppendInterrupted, attemptVars
<1>5. CASE (\E ap \in Approvals : ExpireApproval(ap)) \/ PlaceHold \/ Crash \/ UNCHANGED vars
    BY <1>5, <1>n DEF ExpireApproval, PlaceHold, Crash, attemptVars, vars
<1> QED
    BY <1>1, <1>2, <1>3, <1>4, <1>5 DEF Next

LEMMA StepUnknownCost == Shape /\ UnknownCostCloses /\ [Next]_vars => UnknownCostCloses'
<1> SUFFICES ASSUME Shape, UnknownCostCloses, [Next]_vars,
                    NEW a \in Attempts, Settled(a)', ~resv'[a].measured
             PROVE  /\ resv'[a].charged = resv'[a].reserved
                    /\ Arm(a)' \in closed' \/ a \in retained'[Arm(a)']
    BY DEF UnknownCostCloses
<1> USE DEF Shape, TypeOK, Settled
\* Settled before the step and untouched by it.
<1>1. ASSUME resv'[a] = resv[a] PROVE /\ resv'[a].charged = resv'[a].reserved
                                      /\ Arm(a)' \in closed' \/ a \in retained'[Arm(a)']
  <2>1. Registered(a) /\ Arm(a)' = Arm(a)
      BY <1>1, ArmKept DEF ReservedIsRegistered
  <2>2. /\ resv[a].charged = resv[a].reserved
        /\ Arm(a) \in closed \/ a \in retained[Arm(a)]
      BY <1>1 DEF UnknownCostCloses
  <2>3. ASSUME NEW m \in Arms, NEW ap \in Approvals, ContinueArm(m, ap)
        PROVE  Arm(a) \in closed' \/ a \in retained'[Arm(a)]
    <3>1. CASE Arm(a) = m
        BY <1>1, <2>3, <3>1 DEF ContinueArm, Costs
    <3>2. CASE Arm(a) # m
        BY <2>2, <2>3, <3>2 DEF ContinueArm
    <3> QED
        BY <3>1, <3>2
  <2>4. Arm(a) \in closed' \/ a \in retained'[Arm(a)]
      BY <2>2, <2>3, ClosureMoves
  <2> QED
      BY <1>1, <2>1, <2>2, <2>4
<1>2. CASE UNCHANGED budgetVars
    BY <1>1, <1>2 DEF budgetVars
<1>3. ASSUME NEW b \in Attempts, NEW ms \in Requests, Reserve(b, ms)
      PROVE  resv'[a] = resv[a]
    BY <1>3 DEF Reserve
<1>4. ASSUME NEW b \in Attempts, NEW e \in Nat, NEW measured \in BOOLEAN, NEW o \in Terminal,
             SettleEvent(b, e, measured, o), b # a
      PROVE  resv'[a] = resv[a]
    BY <1>4 DEF SettleEvent
\* Settled by this very step: its SETTLE event closes the arm.
<1>5. ASSUME NEW e \in Nat, NEW measured \in BOOLEAN, NEW o \in Terminal,
             SettleEvent(a, e, measured, o)
      PROVE  /\ resv'[a].charged = resv'[a].reserved
             /\ Arm(a)' \in closed'
  <2>1. ~measured /\ resv'[a].charged = resv'[a].reserved
      BY <1>5 DEF SettleEvent, Reservation
  <2>2. Arm(a) \in closed'
      BY <1>5, <2>1 DEF SettleEvent, ClosesArm
  <2>3. Registered(a)
      BY <1>5 DEF SettleEvent, Held, ReservedIsRegistered
  <2> QED
      BY <2>1, <2>2, <2>3, ArmKept
<1>6. CASE SettlesSomething
    BY <1>1, <1>4, <1>5, <1>6 DEF SettlesSomething
<1>7. CASE ReservesSomething
    BY <1>1, <1>3, <1>7 DEF ReservesSomething
<1> QED
    BY <1>2, <1>6, <1>7, CostMoves

\* A reservation whose cost nobody measured is charged in full and keeps its
\* arm closed until a continuation receipt retains it: no crash between the
\* SETTLE and the ARM_CLOSED event leaves the arm open.
THEOREM UnknownCost == Spec => []UnknownCostCloses
<1>1. Init => UnknownCostCloses
    BY DEF Init, UnknownCostCloses, Settled, NoReservation
<1> QED
    BY <1>1, InitShape, StepShape, StepUnknownCost, PTL DEF Spec

-----------------------------------------------------------------------------
(* What is final. *)

\* A call with a terminal state still to append found its attempt live.
PendingEndIsLive == txn.phase \in {"refuse", "closeRecovered", "interrupt"} => Live(txn.attempt)

LEMMA StepPending == Shape /\ PendingEndIsLive /\ [Next]_vars => PendingEndIsLive'
<1> SUFFICES ASSUME Shape, PendingEndIsLive, [Next]_vars PROVE PendingEndIsLive'
    OBVIOUS
<1> USE DEF Shape, TypeOK, PendingEndIsLive, Free, Live, attemptVars
<1>i. ASSUME txn'.phase = "idle" PROVE PendingEndIsLive'
    BY <1>i
<1>n. ASSUME UNCHANGED <<state, txn>> PROVE PendingEndIsLive'
    BY <1>n
<1>1. ASSUME NEW a \in Attempts, AttemptStep(a) PROVE PendingEndIsLive'
    BY <1>1 DEF AttemptStep, NewAttempt, RecordDeclaredRefusal, Register, Transition
<1>2. ASSUME NEW a \in Attempts, BudgetStep(a) PROVE PendingEndIsLive'
  <2>1. CASE RecoverSettled(a)
      BY <2>1 DEF RecoverSettled
  <2>2. ASSUME NEW e \in Elapsed, NEW measured \in BOOLEAN, NEW o \in Outcomes,
               Settle(a, e, measured, o)
        PROVE  PendingEndIsLive'
      BY <2>2 DEF Settle, Idle
  <2>3. CASE RecoverHeld(a)
      BY <2>3 DEF RecoverHeld
  <2>4. ASSUME Free, UNCHANGED txn PROVE PendingEndIsLive'
      BY <2>4
  <2> QED
      BY <1>2, <2>1, <2>2, <2>3, <2>4 DEF BudgetStep, ReserveDeclared, Reserve, RefuseReserve,
         MayReserve
<1>3. ASSUME NEW a \in Attempts, WorkerStep(a) PROVE PendingEndIsLive'
    BY <1>3, <1>n DEF WorkerStep, ProcessSpawned, WorkerStarted, ProcessGone, WorkerTreeStopped
<1>4. ASSUME NEW m \in Arms, ArmStep(m) PROVE PendingEndIsLive'
    BY <1>4, <1>n DEF ArmStep, CloseArm, ContinueArm
<1>5. CASE AppendNext
  <2>1. CASE AppendRecoverySettle
      BY <2>1 DEF AppendRecoverySettle, SettleEvent, Txn
  <2>2. CASE AppendRecoveryClosed
      BY <2>2 DEF AppendRecoveryClosed, Txn
  <2> QED
      BY <1>5, <2>1, <2>2 DEF AppendNext, AppendRefusal, AppendArmClosed, AppendInterrupted, Idle
<1>6. CASE (\E ap \in Approvals : ExpireApproval(ap)) \/ PlaceHold \/ Crash
    BY <1>6 DEF ExpireApproval, PlaceHold, Crash, Idle
<1>7. CASE UNCHANGED vars
    BY <1>7, <1>n DEF vars
<1> QED
    BY <1>1, <1>2, <1>3, <1>4, <1>5, <1>6, <1>7 DEF Next

\* A terminal state is left by no step.
LEMMA StateStays ==
    ASSUME Shape, PendingEndIsLive, [Next]_vars, NEW a \in Attempts, state[a] \in Terminal
    PROVE  state'[a] = state[a]
<1> USE DEF Shape, TypeOK, PendingEndIsLive, Live, Terminal, attemptVars
<1>n. ASSUME UNCHANGED state PROVE state'[a] = state[a]
    BY <1>n
<1>1. ASSUME NEW b \in Attempts, AttemptStep(b) PROVE state'[a] = state[a]
    BY <1>1 DEF AttemptStep, NewAttempt, RecordDeclaredRefusal, Register, Registered, Transition, Allowed
<1>2. ASSUME NEW b \in Attempts, BudgetStep(b) PROVE state'[a] = state[a]
    BY <1>2 DEF BudgetStep, ReserveDeclared, Reserve, RefuseReserve, Settle, SettleEvent,
       RecoverHeld, RecoverSettled, Executable
<1>3. ASSUME NEW b \in Attempts, WorkerStep(b) PROVE state'[a] = state[a]
    BY <1>3, <1>n DEF WorkerStep, ProcessSpawned, WorkerStarted, ProcessGone, WorkerTreeStopped
<1>4. ASSUME NEW m \in Arms, ArmStep(m) PROVE state'[a] = state[a]
    BY <1>4, <1>n DEF ArmStep, CloseArm, ContinueArm
<1>5. CASE AppendNext
    BY <1>5 DEF AppendNext, AppendRefusal, AppendArmClosed, AppendRecoverySettle, SettleEvent,
       AppendRecoveryClosed, AppendInterrupted
<1>6. CASE (\E ap \in Approvals : ExpireApproval(ap)) \/ PlaceHold \/ Crash \/ UNCHANGED vars
    BY <1>6, <1>n DEF ExpireApproval, PlaceHold, Crash, vars
<1> QED
    BY <1>1, <1>2, <1>3, <1>4, <1>5, <1>6 DEF Next

\* Only reserved attempts are settled, and each of them once; costs are natural.
LEMMA CostStays ==
    ASSUME Shape, [Next]_vars
    PROVE  /\ \A a \in Attempts : Settled(a) => resv'[a] = resv[a]
           /\ \A m \in Arms : charged'[m] >= charged[m]
<1> USE DEF Shape, TypeOK, Settled
<1>1. CASE UNCHANGED budgetVars
    BY <1>1 DEF budgetVars
<1>2. CASE ReservesSomething
    BY <1>2 DEF ReservesSomething, Reserve, MayReserve
<1>3. ASSUME NEW a \in Attempts, NEW e \in Nat, NEW measured \in BOOLEAN, NEW o \in Terminal,
             SettleEvent(a, e, measured, o)
      PROVE  /\ \A b \in Attempts : Settled(b) => resv'[b] = resv[b]
             /\ \A m \in Arms : charged'[m] >= charged[m]
  <2>1. Held(a) /\ (IF measured THEN e ELSE resv[a].reserved) \in Nat
      BY <1>3 DEF SettleEvent, Reservation
  <2>2. charged' = [charged EXCEPT ![Arm(a)] = @ + IF measured THEN e ELSE resv[a].reserved]
      BY <1>3 DEF SettleEvent
  <2>3. \A b \in Attempts : Settled(b) => resv'[b] = resv[b]
      BY <1>3, <2>1 DEF SettleEvent, Held
  <2> QED
      BY <2>1, <2>2, <2>3
<1> QED
    BY <1>1, <1>2, <1>3, CostMoves DEF SettlesSomething

\* A call that still has to close an arm or to end an attempt settled it first.
PendingIsSettled == txn.phase \in {"close", "closeRecovered", "interrupt"} => Settled(txn.attempt)

LEMMA StepPendingSettled == Shape /\ PendingIsSettled /\ [Next]_vars => PendingIsSettled'
<1> SUFFICES ASSUME Shape, PendingIsSettled, [Next]_vars PROVE PendingIsSettled'
    OBVIOUS
<1> USE DEF Shape, TypeOK, PendingIsSettled, Free, Settled, budgetVars
<1>n. ASSUME UNCHANGED resv, UNCHANGED txn \/ txn'.phase \in {"idle", "refuse", "settle"} PROVE PendingIsSettled'
    BY <1>n
<1>1. ASSUME NEW a \in Attempts, AttemptStep(a) PROVE PendingIsSettled'
    BY <1>1 DEF AttemptStep, NewAttempt, RecordDeclaredRefusal, Register, Transition
<1>2. ASSUME NEW a \in Attempts, BudgetStep(a) PROVE PendingIsSettled'
  <2>1. CASE RecoverSettled(a) \/ RecoverHeld(a)
      BY <2>1 DEF RecoverSettled, RecoverHeld
  <2>2. ASSUME NEW e \in Elapsed, NEW measured \in BOOLEAN, NEW o \in Outcomes,
               Settle(a, e, measured, o)
        PROVE  PendingIsSettled'
      BY <2>2 DEF Settle, SettleEvent, Idle, Reservation
  <2>3. ASSUME Free, UNCHANGED txn PROVE PendingIsSettled'
      BY <2>3
  <2> QED
      BY <1>2, <2>1, <2>2, <2>3 DEF BudgetStep, ReserveDeclared, Reserve, RefuseReserve, MayReserve
<1>3. ASSUME NEW a \in Attempts, WorkerStep(a) PROVE PendingIsSettled'
    BY <1>3, <1>n DEF WorkerStep, ProcessSpawned, WorkerStarted, ProcessGone, WorkerTreeStopped
<1>4. ASSUME NEW m \in Arms, ArmStep(m) PROVE PendingIsSettled'
    BY <1>4, <1>n DEF ArmStep, CloseArm, ContinueArm
<1>5. CASE AppendNext
  <2>1. CASE AppendRecoverySettle
      BY <2>1 DEF AppendRecoverySettle, SettleEvent, Txn, Reservation, TxnNamesAttempt
  <2>2. CASE AppendRecoveryClosed
      BY <2>2 DEF AppendRecoveryClosed, Txn
  <2> QED
      BY <1>5, <2>1, <2>2 DEF AppendNext, AppendRefusal, AppendArmClosed, AppendInterrupted, Idle
<1>6. CASE (\E ap \in Approvals : ExpireApproval(ap)) \/ PlaceHold \/ Crash
    BY <1>6, <1>n DEF ExpireApproval, PlaceHold, Crash, Idle
<1>7. CASE UNCHANGED vars
    BY <1>7, <1>n DEF vars
<1> QED
    BY <1>1, <1>2, <1>3, <1>4, <1>5, <1>6, <1>7 DEF Next

\* The cell of a registered attempt never changes.
LEMMA CellKept ==
    ASSUME Shape, [Next]_vars, NEW a \in Attempts, Registered(a)
    PROVE  runOf'[a] = runOf[a]
<1>n. ASSUME UNCHANGED runOf PROVE runOf'[a] = runOf[a]
    BY <1>n
<1>1. ASSUME NEW b \in Attempts, AttemptStep(b) PROVE runOf'[a] = runOf[a]
    BY <1>1, <1>n DEF AttemptStep, NewAttempt, RecordDeclaredRefusal, Register, Transition,
       Shape, TypeOK
<1>2. ASSUME NEW b \in Attempts, BudgetStep(b) \/ WorkerStep(b) PROVE runOf'[a] = runOf[a]
    BY <1>2, <1>n DEF BudgetStep, ReserveDeclared, Reserve, RefuseReserve, Settle, SettleEvent,
       RecoverHeld, RecoverSettled, WorkerStep, ProcessSpawned, WorkerStarted, ProcessGone,
       WorkerTreeStopped, attemptVars
<1>3. ASSUME NEW m \in Arms, ArmStep(m) PROVE runOf'[a] = runOf[a]
    BY <1>3, <1>n DEF ArmStep, CloseArm, ContinueArm, attemptVars
<1>4. CASE AppendNext
    BY <1>4, <1>n DEF AppendNext, AppendRefusal, AppendArmClosed, AppendRecoverySettle,
       SettleEvent, AppendRecoveryClosed, AppendInterrupted, attemptVars
<1>5. CASE (\E ap \in Approvals : ExpireApproval(ap)) \/ PlaceHold \/ Crash \/ UNCHANGED vars
    BY <1>5, <1>n DEF ExpireApproval, PlaceHold, Crash, attemptVars, vars
<1> QED
    BY <1>1, <1>2, <1>3, <1>4, <1>5 DEF Next

\* What is final stays final for any number of attempts and crashes: terminal
\* states, settled costs and cells, and the charge of an arm never falls.
THEOREM FinalIsFinal == Spec => FinalStaysFinal
<1>1. Init => PendingEndIsLive
    BY DEF Init, Idle, PendingEndIsLive
<1>2. Shape /\ PendingEndIsLive /\ [Next]_vars =>
          [/\ \A a \in Attempts :
                /\ state[a] \in Terminal => state'[a] = state[a]
                /\ Settled(a) => resv'[a] = resv[a]
                /\ Registered(a) => runOf'[a] = runOf[a]
           /\ \A m \in Arms : charged'[m] >= charged[m]]_vars
    BY StateStays, CostStays, CellKept
<1> QED
    BY <1>1, <1>2, InitShape, StepShape, StepPending, PTL DEF Spec, FinalStaysFinal

-----------------------------------------------------------------------------
(* Sums.  A set of costs <<attempt, amount>> adds up to t if <<set, t>> is  *)
(* in every relation that has <<{}, 0>> and grows by one cost at a time.    *)

Cost == Attempts \X Int
Totals == (SUBSET Cost) \X Int
Additive(G) ==
    /\ <<{}, 0>> \in G
    /\ \A S \in SUBSET Cost, t \in Int, c \in Cost :
          <<S, t>> \in G /\ c \notin S => <<S \cup {c}, t + c[2]>> \in G
AddsUp(S, t) == \A G \in SUBSET Totals : Additive(G) => <<S, t>> \in G

LEMMA NothingAddsUp == AddsUp({}, 0)
BY DEF AddsUp, Additive

LEMMA OneMore ==
    ASSUME NEW S \in SUBSET Cost, NEW t \in Int, AddsUp(S, t), NEW c \in Cost, c \notin S
    PROVE  AddsUp(S \cup {c}, t + c[2])
BY DEF AddsUp, Additive

LEMMA EmptyIsZero ==
    ASSUME NEW t \in Int, AddsUp({}, t)
    PROVE  t = 0
<1> DEFINE G == {T \in Totals : T[1] = {} => T[2] = 0}
<1>1. Additive(G)
  <2>1. <<{}, 0>> \in G
      BY DEF Totals
  <2>2. ASSUME NEW S \in SUBSET Cost, NEW u \in Int, NEW c \in Cost, c \notin S
        PROVE  <<S \cup {c}, u + c[2]>> \in G
      BY <2>2 DEF Totals, Cost
  <2> QED
      BY <2>1, <2>2 DEF Additive
<1>2. <<{}, t>> \in G
    BY <1>1 DEF AddsUp
<1> QED
    BY <1>2

LEMMA OneLess ==
    ASSUME NEW S \in SUBSET Cost, NEW t \in Int, AddsUp(S, t), NEW c \in Cost, c \in S
    PROVE  AddsUp(S \ {c}, t - c[2])
<1> DEFINE G == {T \in Totals : AddsUp(T[1], T[2]) /\ \A d \in T[1] : AddsUp(T[1] \ {d}, T[2] - d[2])}
<1>1. <<{}, 0>> \in G
    BY NothingAddsUp DEF Totals
<1>2. ASSUME NEW U \in SUBSET Cost, NEW u \in Int, NEW e \in Cost, <<U, u>> \in G, e \notin U
      PROVE  <<U \cup {e}, u + e[2]>> \in G
  <2>1. AddsUp(U, u) /\ \A d \in U : AddsUp(U \ {d}, u - d[2])
      BY <1>2
  <2>2. AddsUp(U \cup {e}, u + e[2])
      BY <1>2, <2>1, OneMore
  <2>3. ASSUME NEW d \in U \cup {e}
        PROVE  AddsUp((U \cup {e}) \ {d}, (u + e[2]) - d[2])
    <3> HIDE DEF G
    <3>1. e[2] \in Int /\ d[2] \in Int
        BY DEF Cost
    <3>2. CASE d = e
      <4>1. (U \cup {e}) \ {d} = U /\ (u + e[2]) - d[2] = u
          BY <1>2, <3>1, <3>2
      <4> QED
          BY <2>1, <4>1
    <3>3. CASE d # e
      <4>0. (u + e[2]) - d[2] = (u - d[2]) + e[2]
          BY <3>1
      <4>1. (U \cup {e}) \ {d} = (U \ {d}) \cup {e}
          BY <3>3
      <4>2. AddsUp(U \ {d}, u - d[2])
          BY <2>1, <2>3, <3>3
      <4>4. u - d[2] \in Int /\ U \ {d} \in SUBSET Cost /\ e \notin U \ {d}
          BY <1>2, <3>1
      <4>3. AddsUp((U \ {d}) \cup {e}, (u - d[2]) + e[2])
          BY <4>2, <4>4, OneMore
      <4> QED
          BY <4>0, <4>1, <4>3
    <3> QED
        BY <3>2, <3>3
  <2>4. <<U \cup {e}, u + e[2]>> \in Totals
      BY DEF Totals, Cost
  <2> QED
      BY <2>2, <2>3, <2>4
<1>3. Additive(G) /\ G \in SUBSET Totals
  <2> HIDE DEF G
  <2>1. Additive(G)
      BY <1>1, <1>2 DEF Additive
  <2> USE DEF G
  <2> QED
      BY <2>1
<1>4. <<S, t>> \in G
  <2> HIDE DEF G
  <2> QED
      BY <1>3 DEF AddsUp
<1> QED
    BY <1>4

(* The two totals of an arm are the sums the code folds. *)
HeldCosts(m) == {c \in Cost : Held(c[1]) /\ Arm(c[1]) = m /\ c[2] = resv[c[1]].reserved}
PaidCosts(m) == {c \in Cost : Settled(c[1]) /\ Arm(c[1]) = m /\ c[2] = resv[c[1]].charged}

TotalsAreSums ==
    \A m \in Arms : AddsUp(HeldCosts(m), outstanding[m]) /\ AddsUp(PaidCosts(m), charged[m])

LEMMA StepSums == Shape /\ TotalsAreSums /\ [Next]_vars => TotalsAreSums'
<1> SUFFICES ASSUME Shape, TotalsAreSums, [Next]_vars, NEW m \in Arms
             PROVE  /\ AddsUp(HeldCosts(m)', outstanding'[m])
                    /\ AddsUp(PaidCosts(m)', charged'[m])
    BY DEF TotalsAreSums
<1> USE DEF Shape, TypeOK
<1>0. AddsUp(HeldCosts(m), outstanding[m]) /\ AddsUp(PaidCosts(m), charged[m])
    BY DEF TotalsAreSums
\* A reservation keeps its arm.
<1>k. ASSUME NEW a \in Attempts, resv[a].phase # "none" PROVE Arm(a)' = Arm(a)
    BY <1>k, ArmKept DEF ReservedIsRegistered
<1>t. HeldCosts(m) \in SUBSET Cost /\ PaidCosts(m) \in SUBSET Cost
    BY DEF HeldCosts, PaidCosts
<1>1. CASE UNCHANGED budgetVars
  <2>1. HeldCosts(m)' = HeldCosts(m) /\ PaidCosts(m)' = PaidCosts(m)
      BY <1>1, <1>k DEF HeldCosts, PaidCosts, Held, Settled, budgetVars, Cost
  <2> QED
      BY <1>0, <1>1, <2>1 DEF budgetVars
<1>2. ASSUME NEW a \in Attempts, NEW ms \in Requests, Reserve(a, ms)
      PROVE  /\ AddsUp(HeldCosts(m)', outstanding'[m])
             /\ AddsUp(PaidCosts(m)', charged'[m])
  <2>1. /\ Arm(a) \in Arms /\ ms \in Nat /\ resv[a].phase = "none"
        /\ \A b \in Attempts : Arm(b)' = Arm(b)
      BY <1>2, ArmTyped, CostAssumption DEF Reserve, MayReserve, attemptVars, Arm
  <2>2. /\ resv'[a].phase = "held" /\ resv'[a].reserved = ms
        /\ \A b \in Attempts \ {a} : resv'[b] = resv[b]
      BY <1>2 DEF Reserve, NoReservation
  <2>3. PaidCosts(m)' = PaidCosts(m) /\ charged' = charged
      BY <1>2, <2>1, <2>2 DEF PaidCosts, Settled, Reserve, Cost
  <2>4. CASE Arm(a) # m
    <3>1. HeldCosts(m)' = HeldCosts(m) /\ outstanding'[m] = outstanding[m]
        BY <1>2, <2>1, <2>2, <2>4 DEF HeldCosts, Held, Reserve, Cost
    <3> QED
        BY <1>0, <2>3, <3>1
  <2>5. CASE Arm(a) = m
    <3> DEFINE c == <<a, ms>>
    <3>1. HeldCosts(m)' = HeldCosts(m) \cup {c}
        BY <2>1, <2>2, <2>5 DEF HeldCosts, Held, Cost
    <3>2. c \notin HeldCosts(m) /\ c \in Cost /\ c[2] = ms
        BY <2>1 DEF HeldCosts, Held, Cost
    <3>3. outstanding'[m] = outstanding[m] + ms /\ outstanding[m] \in Int
        BY <1>2, <2>1, <2>5 DEF Reserve
    <3> HIDE DEF c
    <3>4. AddsUp(HeldCosts(m) \cup {c}, outstanding[m] + c[2])
        BY <1>0, <1>t, <3>2, <3>3, OneMore
    <3> QED
        BY <2>3, <1>0, <3>1, <3>2, <3>3, <3>4
  <2> QED
      BY <2>4, <2>5
<1>3. ASSUME NEW a \in Attempts, NEW e \in Nat, NEW measured \in BOOLEAN, NEW o \in Terminal,
             SettleEvent(a, e, measured, o)
      PROVE  /\ AddsUp(HeldCosts(m)', outstanding'[m])
             /\ AddsUp(PaidCosts(m)', charged'[m])
  <2> DEFINE old == resv[a].reserved
             new == IF measured THEN e ELSE old
  <2>1. /\ Arm(a) \in Arms /\ old \in Nat /\ new \in Nat /\ Held(a)
        /\ \A b \in Attempts : Arm(b)' = Arm(b)
      BY <1>3, ArmTyped DEF SettleEvent, Held, ReservedIsRegistered, Reservation, attemptVars, Arm
  <2>2. /\ resv'[a].phase = "settled" /\ resv'[a].charged = new
        /\ \A b \in Attempts \ {a} : resv'[b] = resv[b]
        /\ outstanding' = [outstanding EXCEPT ![Arm(a)] = @ - old]
        /\ charged' = [charged EXCEPT ![Arm(a)] = @ + new]
      BY <1>3 DEF SettleEvent, Reservation
  <2> HIDE DEF old, new
  <2>4. CASE Arm(a) # m
    <3>1. HeldCosts(m)' = HeldCosts(m) /\ PaidCosts(m)' = PaidCosts(m)
        BY <2>1, <2>2, <2>4 DEF HeldCosts, PaidCosts, Held, Settled, Cost
    <3>2. outstanding'[m] = outstanding[m] /\ charged'[m] = charged[m]
        BY <2>1, <2>2, <2>4
    <3> QED
        BY <1>0, <3>1, <3>2
  <2>5. CASE Arm(a) = m
    <3> DEFINE before == <<a, old>>
               after == <<a, new>>
    <3>1. HeldCosts(m)' = HeldCosts(m) \ {before} /\ before \in HeldCosts(m)
        BY <2>1, <2>2, <2>5 DEF HeldCosts, Held, Cost, old
    <3>2. PaidCosts(m)' = PaidCosts(m) \cup {after} /\ after \notin PaidCosts(m)
        BY <2>1, <2>2, <2>5 DEF PaidCosts, Held, Settled, Cost
    <3>3. before \in Cost /\ before[2] = old /\ after \in Cost /\ after[2] = new
        BY <2>1 DEF Cost
    <3>4. /\ outstanding'[m] = outstanding[m] - old /\ outstanding[m] \in Int
          /\ charged'[m] = charged[m] + new /\ charged[m] \in Int
        BY <2>1, <2>2, <2>5
    <3> HIDE DEF before, after
    <3>5. AddsUp(HeldCosts(m) \ {before}, outstanding[m] - before[2])
        BY <1>0, <1>t, <3>1, <3>3, <3>4, OneLess
    <3>6. AddsUp(PaidCosts(m) \cup {after}, charged[m] + after[2])
        BY <1>0, <1>t, <3>2, <3>3, <3>4, OneMore
    <3> QED
        BY <3>1, <3>2, <3>3, <3>4, <3>5, <3>6
  <2> QED
      BY <2>4, <2>5
<1> QED
    BY <1>1, <1>2, <1>3, CostMoves DEF ReservesSomething, SettlesSomething

LEMMA InitSums == Init => TotalsAreSums
<1> SUFFICES ASSUME Init, NEW m \in Arms
             PROVE  AddsUp(HeldCosts(m), outstanding[m]) /\ AddsUp(PaidCosts(m), charged[m])
    BY DEF TotalsAreSums
<1>1. HeldCosts(m) = {} /\ PaidCosts(m) = {} /\ outstanding[m] = 0 /\ charged[m] = 0
    BY DEF Init, HeldCosts, PaidCosts, Held, Settled, NoReservation, Cost
<1> QED
    BY <1>1, NothingAddsUp

\* The balances the code keeps as running totals are exact: what an arm has
\* outstanding is the sum of its unsettled reservations, what it has charged is
\* the sum of its settled costs, after any calls and crashes.
THEOREM BalancesAreSums == Spec => []TotalsAreSums
BY InitSums, InitShape, StepShape, StepSums, PTL DEF Spec

\* Only a continuation opens an arm: with a receipt of its own, an approval in
\* force, nothing held in the arm and capacity left.
THEOREM ReopeningsAreApproved == Spec => ReopenedOncePerApproval
<1>1. ASSUME Shape, TotalsAreSums, [Next]_vars, NEW m \in closed \ closed'
      PROVE  /\ \E ap \in Approvals \ expired : <<m, ap>> \in receipts' \ receipts
             /\ \A a \in Attempts : Held(a) => Arm(a) # m
             /\ Committed(m) < Cap
  <2>1. PICK n \in Arms, ap \in Approvals : ContinueArm(n, ap)
      BY <1>1, ClosureMoves
  <2>2. n = m
      BY <1>1, <2>1 DEF ContinueArm
  <2>3. \A a \in Attempts : Held(a) => Arm(a) # m
      BY <2>1, <2>2 DEF ContinueArm, Costs, Held, Settled
  <2>4. HeldCosts(m) = {}
      BY <2>3 DEF HeldCosts, Cost
  <2>5. outstanding[m] = 0 /\ charged[m] \in Int
    <3>1. m \in Arms /\ outstanding[m] \in Int /\ charged[m] \in Int
        BY <1>1, <2>2 DEF Shape, TypeOK
    <3>2. AddsUp({}, outstanding[m])
        BY <1>1, <2>4, <3>1 DEF TotalsAreSums
    <3> QED
        BY <3>1, <3>2, EmptyIsZero
  <2> QED
      BY <2>1, <2>2, <2>3, <2>5, CostAssumption DEF ContinueArm, Committed
<1>2. Shape /\ TotalsAreSums /\ [Next]_vars =>
          [\A m \in closed \ closed' :
              /\ \E ap \in Approvals \ expired : <<m, ap>> \in receipts' \ receipts
              /\ \A a \in Attempts : Held(a) => Arm(a) # m
              /\ Committed(m) < Cap]_vars
    BY <1>1
<1>3. Init => TotalsAreSums
    BY InitSums
<1> QED
    BY <1>2, <1>3, InitShape, StepShape, StepSums, PTL DEF Spec, ReopenedOncePerApproval
=============================================================================
