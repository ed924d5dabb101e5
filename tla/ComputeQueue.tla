---------------------------- MODULE ComputeQueue ----------------------------
(***************************************************************************)
(* ResearchQueue: durable compute claims over funded reservations.         *)
(*                                                                         *)
(* enqueue and claim each append one event under the writer lock, after    *)
(* folding the chain again; only a settlement releases a claimed slot.     *)
(* The budget authority is an environment here: `funded` is what the fold  *)
(* says of each reservation, and ArmLedger is the module that changes it.  *)
(***************************************************************************)
EXTENDS Integers, FiniteSets, Sequences

CONSTANTS
    Attempts,    \* reservations, one per attempt
    Arms,
    Resources,   \* {"cpu", "gpu"}
    Slots,       \* the immutable runtime-resources manifest
    SharedLimit, \* logical slots a shared-CPU cell may use (64)
    Sharing      \* attempts whose frozen cell opted into shared CPU

CONSTANTS NoArm, NoResource, NoSlot

ASSUME SlotsAssumption == Slots \in [Resources -> Nat] /\ SharedLimit \in Nat
ASSUME NoSlotAssumption == NoSlot \notin Nat

VARIABLES
    funded,    \* attempt -> phase, arm and resource class of its reservation
    closed,    \* closed arms
    hold,      \* recovery-hold.json exists
    permitted, \* <<arm, resource>> pairs with an activated dispatch policy
    queue,     \* QUEUED events, in order
    slot,      \* attempt -> the slot of its QUEUE_CLAIMED event
    lastArm,   \* resource -> arm of the latest claim
    overtaken  \* history: resource -> entries the latest ordered claim passed

ledgerView == <<funded, closed, hold>>
vars == <<ledgerView, permitted, queue, slot, lastArm, overtaken>>

Funding == [phase : {"none", "held", "settled"},
            arm : Arms \cup {NoArm}, resource : Resources \cup {NoResource}]
Unfunded == [phase |-> "none", arm |-> NoArm, resource |-> NoResource]

TypeOK ==
    /\ funded \in [Attempts -> Funding]
    /\ closed \subseteq Arms
    /\ hold \in BOOLEAN
    /\ permitted \subseteq Arms \X Resources
    /\ queue \in Seq(Attempts)
    /\ slot \in [Attempts -> Nat \cup {NoSlot}]
    /\ lastArm \in [Resources -> Arms \cup {NoArm}]
    /\ overtaken \in [Resources -> SUBSET Attempts]

Init ==
    /\ funded = [a \in Attempts |-> Unfunded]
    /\ closed = {}
    /\ hold = FALSE
    /\ permitted = {}
    /\ queue = <<>>
    /\ slot = [a \in Attempts |-> NoSlot]
    /\ lastArm = [r \in Resources |-> NoArm]
    /\ overtaken = [r \in Resources |-> {}]

-----------------------------------------------------------------------------
Held(a) == funded[a].phase = "held"
Claimed(a) == slot[a] # NoSlot
Position(a) == {i \in DOMAIN queue : queue[i] = a}
Queued(a) == Position(a) # {}
Before(b, a) == \E i \in Position(b), j \in Position(a) : i < j
Permitted(a) == <<funded[a].arm, funded[a].resource>> \in permitted

\* Mutant of Occupied: overlooks the slots of shared cells.
OccupiedUnshared(r) ==
    {slot[a] : a \in {b \in Attempts \ Sharing : Claimed(b) /\ Held(b) /\ funded[b].resource = r}}

\* Mutant of Occupied: a settlement does not give the slot back.
OccupiedForGood(r) ==
    {slot[a] : a \in {b \in Attempts : Claimed(b) /\ funded[b].resource = r}}

\* Slots of unsettled claims; a crash of their supervisor does not free them.
Occupied(r) == {slot[a] : a \in {b \in Attempts : Claimed(b) /\ Held(b) /\ funded[b].resource = r}}

Waiting(a, r) ==
    /\ Queued(a) /\ ~Claimed(a)
    /\ Held(a)
    /\ funded[a].resource = r
    /\ funded[a].arm \notin closed

\* FIFO inside an arm; after a claim, other arms come before its arm again.
Yields(a, r) == funded[a].arm = lastArm[r] /\ \E b \in Attempts : Waiting(b, r) /\ funded[b].arm # lastArm[r]
\* Mutant of IsNext: rotates the arms and ignores the order inside them.
IsAnyNext(a, r) == Waiting(a, r) /\ ~Yields(a, r)

IsNext(a, r) ==
    /\ Waiting(a, r)
    /\ ~Yields(a, r)
    /\ \A b \in Attempts : Waiting(b, r) /\ ~Yields(b, r) => ~Before(b, a)

Passed(a, r) == {b \in Attempts : Waiting(b, r) /\ Before(b, a)}

FreeSlots(r) == (0 .. Slots[r] - 1) \ Occupied(r)
SharedSlots(r) == (0 .. SharedLimit - 1) \ Occupied(r)
Tickets(r) == (0 .. Cardinality(Occupied(r))) \ Occupied(r)

-----------------------------------------------------------------------------
Enqueue(a) ==
    LET r == funded[a].resource IN
    /\ funded[a].phase # "none"
    /\ ~Queued(a)
    /\ r \in Resources
    /\ Slots[r] > 0 \/ Permitted(a)
    /\ queue' = Append(queue, a)
    /\ UNCHANGED <<ledgerView, permitted, slot, lastArm, overtaken>>

\* Mutant of Take: records the resource as the arm served last.
TakeForResource(a, offered) ==
    \E s \in offered :
        /\ \A t \in offered : s <= t
        /\ slot' = [slot EXCEPT ![a] = s]
        /\ lastArm' = [lastArm EXCEPT ![funded[a].resource] = funded[a].resource]

\* The least free slot of the set the dispatch rule offers.
Take(a, offered) ==
    \E s \in offered :
        /\ \A t \in offered : s <= t
        /\ slot' = [slot EXCEPT ![a] = s]
        /\ lastArm' = [lastArm EXCEPT ![funded[a].resource] = funded[a].arm]

MayClaim(a) ==
    /\ ~hold
    /\ Waiting(a, funded[a].resource)

\* Mutant of ClaimPermitted: a permitted arm still waits for its turn.
ClaimPermittedInTurn(a) ==
    LET r == funded[a].resource IN
    /\ MayClaim(a)
    /\ Permitted(a)
    /\ IsNext(a, r)
    /\ Take(a, Tickets(r))
    /\ UNCHANGED <<ledgerView, permitted, queue, overtaken>>

\* A permitted arm waits for nobody: its ticket names a claim, not a CPU.
ClaimPermitted(a) ==
    LET r == funded[a].resource IN
    /\ MayClaim(a)
    /\ Permitted(a)
    /\ Take(a, Tickets(r))
    /\ UNCHANGED <<ledgerView, permitted, queue, overtaken>>

ClaimInTurn(a) ==
    LET r == funded[a].resource IN
    /\ MayClaim(a)
    /\ ~Permitted(a)
    /\ IsNext(a, r)
    /\ \/ Take(a, FreeSlots(r))
       \/ /\ FreeSlots(r) = {}
          /\ a \in Sharing /\ r = "cpu"
          /\ Take(a, SharedSlots(r))
    /\ overtaken' = [overtaken EXCEPT ![r] = Passed(a, r)]
    /\ UNCHANGED <<ledgerView, permitted, queue>>

Claim(a) == ClaimPermitted(a) \/ ClaimInTurn(a)

\* activate_policy: activations compose and are never withdrawn.
ActivatePolicy(m, r) ==
    /\ ~hold
    /\ permitted' = permitted \cup {<<m, r>>}
    /\ UNCHANGED <<ledgerView, queue, slot, lastArm, overtaken>>

-----------------------------------------------------------------------------
(* The budget authority. *)

queueVars == <<permitted, queue, slot, lastArm, overtaken>>

Fund(a, m, r) ==
    /\ funded[a].phase = "none"
    /\ ~hold /\ m \notin closed
    /\ funded' = [funded EXCEPT ![a] = [phase |-> "held", arm |-> m, resource |-> r]]
    /\ UNCHANGED <<closed, hold, queueVars>>

\* The SETTLE event may close the arm as well.
Release(a) ==
    /\ Held(a)
    /\ funded' = [funded EXCEPT ![a].phase = "settled"]
    /\ closed' \in {closed, closed \cup {funded[a].arm}}
    /\ UNCHANGED <<hold, queueVars>>

SetClosed(m) ==
    /\ \/ closed' = closed \cup {m}
       \/ closed' = closed \ {m}
    /\ UNCHANGED <<funded, hold, queueVars>>

PlaceHold ==
    /\ hold' = TRUE
    /\ UNCHANGED <<funded, closed, queueVars>>

-----------------------------------------------------------------------------
QueueStep(a) == Enqueue(a) \/ Claim(a)
LedgerStep(a) == Release(a) \/ \E m \in Arms, r \in Resources : Fund(a, m, r)

Next ==
    \/ \E a \in Attempts : QueueStep(a) \/ LedgerStep(a)
    \/ \E m \in Arms, r \in Resources : ActivatePolicy(m, r)
    \/ \E m \in Arms : SetClosed(m)
    \/ PlaceHold

Spec == Init /\ [][Next]_vars

\* Owners poll: a supervisor enqueues and then calls claim every 50 ms until
\* it answers.  An attempt outside `polling` lost its supervisor.
Polling(polling) == \A a \in polling : WF_vars(Claim(a))

\* Every claimed reservation is settled in the end, by its supervisor after
\* the deadline or by an operator, who also reconciles entries whose
\* supervisor is lost.  A waiting entry of a living supervisor is left alone.
Reconciled(polling) ==
    \A a \in Attempts : WF_vars((Claimed(a) \/ a \notin polling) /\ Release(a))

\* An approval reopens an arm once, so arms reopen only finitely often.
ReopeningsEnd == <>[][closed \subseteq closed']_vars

-----------------------------------------------------------------------------
(* Safety. *)

\* No two workers that may be running use the same slot of a resource, across
\* ordered, shared and permitted claims, crashes and late settlements.
SlotsExclusive ==
    \A a, b \in Attempts :
        /\ Claimed(a) /\ Claimed(b)
        /\ Held(a) /\ Held(b)
        /\ funded[a].resource = funded[b].resource
        /\ slot[a] = slot[b]
        => a = b

(* Action properties. *)

Granted(a) == ~Claimed(a) /\ Claimed(a)'

\* A claim is made once, of a funded entry of an open arm, and never moves.
ClaimIsOnce ==
    [][\A a \in Attempts :
          /\ Claimed(a) => slot'[a] = slot[a]
          /\ Granted(a) => Queued(a) /\ Held(a) /\ funded[a].arm \notin closed /\ ~hold]_vars

\* Within an arm, claims follow the order of the queue.
FifoInArm ==
    [][\A a, b \in Attempts :
          Granted(a) /\ ~Permitted(a) /\ Waiting(b, funded[a].resource)
          /\ funded[b].arm = funded[a].arm => ~Before(b, a)]_vars

\* Rotation cannot starve an older entry: two ordered claims in a row never
\* pass the same waiting entry.
NeverPassedTwice ==
    [][\A a, b \in Attempts :
          Granted(a) /\ ~Permitted(a) /\ ~Permitted(b)
          /\ b \in Passed(a, funded[a].resource) => b \notin overtaken[funded[a].resource]]_vars

(* Liveness. *)

Answered(a) == Claimed(a) \/ ~Held(a) \/ funded[a].arm \in closed \/ hold

\* Every queued entry gets its turn once older work is settled, unless its own
\* reservation is settled, its arm closed or every budget held.
TurnComes == \A a \in Attempts : Queued(a) ~> Answered(a)

\* An entry of a permitted arm is served even if every earlier entry lost its
\* supervisor and nothing is ever settled.
PermittedTurnComes(polling) ==
    \A a \in polling : Queued(a) /\ Permitted(a) ~> Answered(a)
=============================================================================
