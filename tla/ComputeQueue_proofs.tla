------------------------- MODULE ComputeQueue_proofs -------------------------
(* Proofs about ComputeQueue, for any attempts, arms, resources and slots. *)
EXTENDS ComputeQueue, FiniteSetTheorems, WellFoundedInduction, TLAPS

\* A reservation names an arm and a resource class.
FundedNamesArm ==
    \A a \in Attempts : funded[a].phase # "none" =>
        funded[a].arm \in Arms /\ funded[a].resource \in Resources

\* A claim is made over a reservation, and a reservation is never unmade.
ClaimedWasFunded == \A a \in Attempts : Claimed(a) => funded[a].phase # "none"

Inv == TypeOK /\ FundedNamesArm /\ ClaimedWasFunded /\ SlotsExclusive

\* The three sets a slot is taken from hold natural numbers in no use.
LEMMA OfferedFree ==
    ASSUME TypeOK, NEW r \in Resources
    PROVE  \A s \in FreeSlots(r) \cup SharedSlots(r) \cup Tickets(r) :
               s \in Nat /\ s \notin Occupied(r)
BY SlotsAssumption DEF FreeSlots, SharedSlots, Tickets

\* A claim takes one slot that no unsettled claim of its resource occupies.
LEMMA ClaimTakesFree ==
    ASSUME TypeOK, FundedNamesArm, NEW a \in Attempts, Claim(a)
    PROVE  /\ ~Claimed(a) /\ Held(a)
           /\ funded[a].resource \in Resources /\ funded[a].arm \in Arms
           /\ \E s \in Nat \ Occupied(funded[a].resource) :
                 /\ slot' = [slot EXCEPT ![a] = s]
                 /\ lastArm' = [lastArm EXCEPT ![funded[a].resource] = funded[a].arm]
           /\ UNCHANGED <<ledgerView, permitted, queue>>
<1> DEFINE r == funded[a].resource
<1>1. ~Claimed(a) /\ Held(a) /\ Queued(a)
    BY DEF Claim, ClaimPermitted, ClaimInTurn, MayClaim, Waiting
<1>2. r \in Resources /\ funded[a].arm \in Arms
    BY <1>1 DEF Held, FundedNamesArm
<1> QED
    BY <1>1, <1>2, OfferedFree DEF Claim, ClaimPermitted, ClaimInTurn, Take

LEMMA InitInv == Init => Inv
<1> SUFFICES ASSUME Init PROVE Inv
    OBVIOUS
<1> USE DEF Init
<1>1. funded \in [Attempts -> Funding]
    BY DEF Unfunded, Funding
<1>2. TypeOK
  <2>1. slot \in [Attempts -> Nat \cup {NoSlot}] /\ lastArm \in [Resources -> Arms \cup {NoArm}]
      OBVIOUS
  <2>2. overtaken \in [Resources -> SUBSET Attempts] /\ queue \in Seq(Attempts)
      OBVIOUS
  <2> QED
      BY <1>1, <2>1, <2>2 DEF TypeOK
<1>3. FundedNamesArm /\ ClaimedWasFunded /\ SlotsExclusive
    BY DEF FundedNamesArm, ClaimedWasFunded, SlotsExclusive, Claimed, Unfunded
<1> QED
    BY <1>2, <1>3 DEF Inv

LEMMA StepInv == Inv /\ [Next]_vars => Inv'
<1> SUFFICES ASSUME Inv, [Next]_vars PROVE Inv'
    OBVIOUS
<1> USE DEF Inv, ledgerView, queueVars
\* Steps that change neither reservations nor claims.
<1>q. ASSUME UNCHANGED <<funded, slot>>, TypeOK' PROVE Inv'
    BY <1>q DEF FundedNamesArm, ClaimedWasFunded, SlotsExclusive, Claimed, Held
<1>1. ASSUME NEW a \in Attempts, Enqueue(a) PROVE Inv'
  <2>1. TypeOK'
      BY <1>1 DEF Enqueue, TypeOK
  <2> QED
      BY <1>1, <2>1, <1>q DEF Enqueue
<1>2. ASSUME NEW a \in Attempts, Claim(a) PROVE Inv'
  <2> DEFINE r == funded[a].resource
  <2>1. /\ ~Claimed(a) /\ Held(a) /\ r \in Resources /\ funded[a].arm \in Arms
        /\ UNCHANGED <<funded, closed, hold, permitted, queue>>
      BY <1>2, ClaimTakesFree
  <2>2. PICK s \in Nat \ Occupied(r) :
            /\ slot' = [slot EXCEPT ![a] = s]
            /\ lastArm' = [lastArm EXCEPT ![r] = funded[a].arm]
      BY <1>2, ClaimTakesFree
  <2>3. overtaken' \in [Resources -> SUBSET Attempts]
      BY <1>2, <2>1 DEF Claim, ClaimPermitted, ClaimInTurn, Passed, TypeOK
  <2>4. TypeOK'
      BY <2>1, <2>2, <2>3 DEF TypeOK
  <2>5. FundedNamesArm' /\ ClaimedWasFunded'
      BY <2>1, <2>2 DEF FundedNamesArm, ClaimedWasFunded, Claimed, Held, TypeOK
  <2>6. \A b \in Attempts : b # a /\ Claimed(b) /\ Held(b) /\ funded[b].resource = r => slot[b] # s
      BY <2>2 DEF Occupied
  <2>7. SlotsExclusive'
      BY <2>1, <2>2, <2>6 DEF SlotsExclusive, Claimed, Held, TypeOK
  <2> QED
      BY <2>4, <2>5, <2>7
<1>3. ASSUME NEW a \in Attempts, NEW m \in Arms, NEW r \in Resources, Fund(a, m, r) PROVE Inv'
  <2>1. ~Claimed(a)
      BY <1>3 DEF Fund, ClaimedWasFunded
  <2>2. funded' \in [Attempts -> Funding]
      BY <1>3 DEF Fund, TypeOK, Funding
  <2>3. TypeOK'
      BY <1>3, <2>2 DEF Fund, TypeOK
  <2>4. FundedNamesArm' /\ ClaimedWasFunded'
      BY <1>3 DEF Fund, FundedNamesArm, ClaimedWasFunded, Claimed, TypeOK
  <2>5. SlotsExclusive'
      BY <1>3, <2>1 DEF Fund, SlotsExclusive, Claimed, Held, TypeOK
  <2> QED
      BY <2>3, <2>4, <2>5
<1>4. ASSUME NEW a \in Attempts, Release(a) PROVE Inv'
  <2>1. funded' \in [Attempts -> Funding]
    <3>0. funded[a] \in Funding
        BY DEF TypeOK
    <3>1. [funded[a] EXCEPT !.phase = "settled"] \in Funding
        BY <3>0 DEF Funding
    <3>2. funded' = [funded EXCEPT ![a] = [funded[a] EXCEPT !.phase = "settled"]]
        BY <1>4 DEF Release
    <3> QED
        BY <3>1, <3>2 DEF TypeOK
  <2>0. funded[a].arm \in Arms
      BY <1>4 DEF Release, Held, FundedNamesArm
  <2>2. TypeOK'
      BY <1>4, <2>0, <2>1 DEF Release, TypeOK
  <2>3. /\ \A b \in Attempts : funded'[b].arm = funded[b].arm /\ funded'[b].resource = funded[b].resource
        /\ \A b \in Attempts : funded'[b].phase = IF b = a THEN "settled" ELSE funded[b].phase
        /\ slot' = slot /\ funded[a].phase = "held"
      BY <1>4 DEF Release, TypeOK, Funding, Held
  <2>4. FundedNamesArm' /\ ClaimedWasFunded'
      BY <2>3 DEF FundedNamesArm, ClaimedWasFunded, Claimed
  <2>5. SlotsExclusive'
      BY <2>3 DEF SlotsExclusive, Claimed, Held
  <2> QED
      BY <2>2, <2>4, <2>5
<1>5. ASSUME NEW m \in Arms, NEW r \in Resources, ActivatePolicy(m, r) PROVE Inv'
  <2>1. TypeOK'
      BY <1>5 DEF ActivatePolicy, TypeOK
  <2> QED
      BY <1>5, <2>1, <1>q DEF ActivatePolicy
<1>6. CASE (\E m \in Arms : SetClosed(m)) \/ PlaceHold \/ UNCHANGED vars
  <2>1. TypeOK'
      BY <1>6 DEF SetClosed, PlaceHold, vars, TypeOK
  <2> QED
      BY <1>6, <2>1, <1>q DEF SetClosed, PlaceHold, vars
<1> QED
    BY <1>1, <1>2, <1>3, <1>4, <1>5, <1>6 DEF Next, QueueStep, LedgerStep

\* Type correctness of the queue.
THEOREM TypeCorrect == Spec => []TypeOK
<1>1. Inv => TypeOK
    BY DEF Inv
<1> QED
    BY <1>1, InitInv, StepInv, PTL DEF Spec

\* Two unsettled claims of a resource never hold the same slot, for any
\* number of attempts and slots and any mix of the three dispatch rules.
THEOREM SlotsAreExclusive == Spec => []SlotsExclusive
<1>1. Inv => SlotsExclusive
    BY DEF Inv
<1> QED
    BY <1>1, InitInv, StepInv, PTL DEF Spec

\* An attempt that neither shares nor runs under a dispatch policy holds a slot
\* of its resource.
OrdinarySlotExists ==
    \A a \in Attempts :
        Claimed(a) /\ a \notin Sharing /\ ~Permitted(a) =>
            slot[a] \in 0 .. Slots[funded[a].resource] - 1

LEMMA StepOrdinary == Inv /\ OrdinarySlotExists /\ [Next]_vars => OrdinarySlotExists'
<1> SUFFICES ASSUME Inv, OrdinarySlotExists, [Next]_vars,
                    NEW a \in Attempts, Claimed(a)', a \notin Sharing, ~Permitted(a)'
             PROVE  slot'[a] \in 0 .. Slots[funded'[a].resource] - 1
    BY DEF OrdinarySlotExists
<1>0. TypeOK /\ ClaimedWasFunded
    BY DEF Inv
<1> USE <1>0 DEF ledgerView, queueVars
<1>1. CASE Claimed(a)
  <2>1. slot'[a] = slot[a]
    <3>1. ASSUME NEW b \in Attempts, Claim(b) PROVE slot'[a] = slot[a]
        BY <1>1, <3>1, ClaimTakesFree DEF Inv, TypeOK
    <3> QED
        BY <3>1 DEF Next, QueueStep, Enqueue, LedgerStep, Fund, Release, ActivatePolicy, SetClosed,
           PlaceHold, vars
  <2>2. /\ funded'[a].arm = funded[a].arm /\ funded'[a].resource = funded[a].resource
        /\ permitted \subseteq permitted'
    <3>1. ASSUME NEW b \in Attempts, Claim(b) PROVE UNCHANGED <<funded, permitted>>
        BY <3>1 DEF Claim, ClaimPermitted, ClaimInTurn
    <3>2. ASSUME NEW b \in Attempts, NEW m, NEW r, Fund(b, m, r) PROVE funded'[a] = funded[a]
        BY <1>1, <3>2 DEF Fund, ClaimedWasFunded, TypeOK
    <3>3. ASSUME NEW b \in Attempts, Release(b)
          PROVE  funded'[a].arm = funded[a].arm /\ funded'[a].resource = funded[a].resource
        BY <3>3 DEF Release, TypeOK, Funding
    <3>4. ASSUME NEW b \in Attempts, LedgerStep(b)
          PROVE  /\ funded'[a].arm = funded[a].arm /\ funded'[a].resource = funded[a].resource
                 /\ permitted' = permitted
        BY <3>2, <3>3, <3>4 DEF LedgerStep, Fund, Release
    <3> QED
        BY <3>1, <3>4 DEF Next, QueueStep, Enqueue, ActivatePolicy, SetClosed, PlaceHold, vars
  <2>3. ~Permitted(a)
      BY <2>2 DEF Permitted
  <2> QED
      BY <1>1, <2>1, <2>2, <2>3 DEF OrdinarySlotExists
<1>2. CASE ~Claimed(a)
  <2>1. PICK b \in Attempts : Claim(b)
      BY <1>2 DEF Next, QueueStep, Enqueue, LedgerStep, Fund, Release, ActivatePolicy, SetClosed,
         PlaceHold, vars, Claimed
  <2>2. b = a /\ UNCHANGED <<funded, permitted>>
    <3>1. UNCHANGED <<funded, permitted>>
        BY <2>1, ClaimTakesFree DEF Inv
    <3>2. \E s : slot' = [slot EXCEPT ![b] = s]
        BY <2>1, ClaimTakesFree DEF Inv
    <3> QED
        BY <1>2, <3>1, <3>2 DEF Claimed, TypeOK
  <2>3. ~Permitted(a)
      BY <2>2 DEF Permitted
  <2>4. Take(a, FreeSlots(funded[a].resource))
      BY <2>1, <2>2, <2>3 DEF Claim, ClaimPermitted, ClaimInTurn
  <2> QED
      BY <2>2, <2>4 DEF Take, FreeSlots, TypeOK
<1> QED
    BY <1>1, <1>2

-----------------------------------------------------------------------------
(* Who may be claimed, and in which order. *)

\* What was passed by the latest ordered claim of a resource belongs to another
\* arm than the one served last, unless its own arm was permitted since.
PassedByOtherArm ==
    \A r \in Resources : \A b \in overtaken[r] :
        /\ funded[b].phase # "none" /\ funded[b].resource = r
        /\ Permitted(b) \/ funded[b].arm # lastArm[r]

\* Whether an entry yields depends on its arm alone.
LEMMA YieldsByArm ==
    ASSUME NEW a, NEW b, NEW r, funded[a].arm = funded[b].arm
    PROVE  Yields(a, r) <=> Yields(b, r)
BY DEF Yields

\* An ordered claim passes only entries of the arm served before it, and serves
\* another arm itself.
LEMMA PassedYields ==
    ASSUME NEW a \in Attempts, NEW r, IsNext(a, r), NEW b \in Passed(a, r)
    PROVE  funded[b].arm = lastArm[r] /\ funded[a].arm # funded[b].arm
<1>1. b \in Attempts /\ Waiting(b, r) /\ Before(b, a)
    BY DEF Passed
<1>2. Yields(b, r) /\ ~Yields(a, r)
    BY <1>1 DEF IsNext
<1> QED
    BY <1>2, YieldsByArm DEF Yields

\* A step that claims an attempt is one of the two claims of that attempt.
LEMMA GrantIsClaim ==
    ASSUME Inv, [Next]_vars, NEW a \in Attempts, Granted(a)
    PROVE  Claim(a)
<1> USE DEF Inv, ledgerView, queueVars, Granted
<1>1. ASSUME NEW b \in Attempts, Claim(b) PROVE Claim(a)
  <2>1. PICK s \in Nat : slot' = [slot EXCEPT ![b] = s]
      BY <1>1, ClaimTakesFree
  <2>2. CASE a # b
      BY <2>1, <2>2 DEF Claimed, TypeOK
  <2> QED
      BY <1>1, <2>2
<1>2. ASSUME slot' = slot PROVE FALSE
    BY <1>2 DEF Claimed
<1> QED
    BY <1>1, <1>2 DEF Next, QueueStep, LedgerStep, Enqueue, Release, Fund, ActivatePolicy,
        SetClosed, PlaceHold, vars

LEMMA InitPassed == Init => PassedByOtherArm
BY DEF Init, PassedByOtherArm

LEMMA StepPassed == Inv /\ PassedByOtherArm /\ [Next]_vars => PassedByOtherArm'
<1> SUFFICES ASSUME Inv, PassedByOtherArm, [Next]_vars,
                    NEW r \in Resources, NEW b \in overtaken'[r]
             PROVE  /\ funded'[b].phase # "none" /\ funded'[b].resource = r
                    /\ Permitted(b)' \/ funded'[b].arm # lastArm'[r]
    BY DEF PassedByOtherArm
<1> USE DEF Inv, ledgerView, queueVars
<1>q. ASSUME b \in overtaken[r], permitted \subseteq permitted', lastArm' = lastArm,
             \/ funded' = funded
             \/ \E a \in Attempts, p \in {"held", "settled"} :
                    funded' = [funded EXCEPT ![a].phase = p]
      PROVE  /\ funded'[b].phase # "none" /\ funded'[b].resource = r
             /\ Permitted(b)' \/ funded'[b].arm # lastArm'[r]
  <2>1. b \in Attempts /\ funded[b] \in Funding
      BY <1>q DEF TypeOK
  <2>2. /\ funded'[b].phase # "none" /\ funded'[b].resource = funded[b].resource
        /\ funded'[b].arm = funded[b].arm
      BY <1>q, <2>1 DEF PassedByOtherArm, TypeOK, Funding
  <2> QED
      BY <1>q, <2>2 DEF PassedByOtherArm, Permitted
<1>1. ASSUME NEW a \in Attempts, ClaimInTurn(a)
      PROVE  /\ funded'[b].phase # "none" /\ funded'[b].resource = r
             /\ Permitted(b)' \/ funded'[b].arm # lastArm'[r]
  <2> DEFINE q == funded[a].resource
  <2>1. /\ q \in Resources /\ funded' = funded /\ permitted' = permitted
        /\ lastArm' = [lastArm EXCEPT ![q] = funded[a].arm]
        /\ overtaken' = [overtaken EXCEPT ![q] = Passed(a, q)] /\ IsNext(a, q)
      BY <1>1, ClaimTakesFree DEF Claim, ClaimInTurn
  <2>2. CASE r = q
    <3>1. b \in Passed(a, q)
        BY <2>1, <2>2 DEF TypeOK
    <3>2. Waiting(b, q) /\ funded[a].arm # funded[b].arm
        BY <3>1, <2>1, PassedYields DEF Passed
    <3> QED
        BY <2>1, <2>2, <3>2 DEF Waiting, Held, TypeOK
  <2>3. CASE r # q
      BY <2>1, <2>3 DEF PassedByOtherArm, Permitted, TypeOK
  <2> QED
      BY <2>2, <2>3
<1>2. ASSUME NEW a \in Attempts, ClaimPermitted(a)
      PROVE  /\ funded'[b].phase # "none" /\ funded'[b].resource = r
             /\ Permitted(b)' \/ funded'[b].arm # lastArm'[r]
  <2> DEFINE q == funded[a].resource
  <2>1. /\ q \in Resources /\ funded' = funded /\ permitted' = permitted
        /\ lastArm' = [lastArm EXCEPT ![q] = funded[a].arm]
        /\ overtaken' = overtaken /\ <<funded[a].arm, q>> \in permitted
      BY <1>2, ClaimTakesFree DEF Claim, ClaimPermitted, Permitted
  <2> QED
      BY <2>1 DEF PassedByOtherArm, Permitted, TypeOK
<1>3. ASSUME NEW a \in Attempts, NEW m \in Arms, NEW c \in Resources, Fund(a, m, c)
      PROVE  /\ funded'[b].phase # "none" /\ funded'[b].resource = r
             /\ Permitted(b)' \/ funded'[b].arm # lastArm'[r]
  <2>1. b \in overtaken[r] /\ b # a
      BY <1>3 DEF Fund, PassedByOtherArm
  <2> QED
      BY <1>3, <2>1 DEF Fund, PassedByOtherArm, Permitted, TypeOK
<1>4. CASE \E a \in Attempts : Release(a)
    BY <1>4, <1>q DEF Release
<1>5. CASE (\E a \in Attempts : Enqueue(a)) \/ (\E m \in Arms : SetClosed(m)) \/ PlaceHold
           \/ (\E m \in Arms, c \in Resources : ActivatePolicy(m, c)) \/ UNCHANGED vars
    BY <1>5, <1>q DEF Enqueue, SetClosed, PlaceHold, ActivatePolicy, vars
<1> QED
    BY <1>1, <1>2, <1>3, <1>4, <1>5 DEF Next, QueueStep, LedgerStep, Claim

\* A claim is made once, of a queued and funded entry of an open arm while no
\* hold stands, and never moves afterwards.
THEOREM ClaimsAreOnce == Spec => ClaimIsOnce
<1>1. ASSUME Inv, [Next]_vars, NEW a \in Attempts
      PROVE  /\ Claimed(a) => slot'[a] = slot[a]
             /\ Granted(a) => Queued(a) /\ Held(a) /\ funded[a].arm \notin closed /\ ~hold
  <2> USE <1>1 DEF Inv, ledgerView, queueVars
  <2>1. ASSUME NEW b \in Attempts, Claim(b), Claimed(a) PROVE slot'[a] = slot[a]
      BY <2>1, ClaimTakesFree DEF TypeOK
  <2>2. Claimed(a) => slot'[a] = slot[a]
      BY <2>1 DEF Next, QueueStep, LedgerStep, Enqueue, Release, Fund, ActivatePolicy,
          SetClosed, PlaceHold, vars
  <2>3. Granted(a) => Queued(a) /\ Held(a) /\ funded[a].arm \notin closed /\ ~hold
      BY GrantIsClaim DEF Claim, ClaimPermitted, ClaimInTurn, MayClaim, Waiting
  <2> QED
      BY <2>2, <2>3
<1>2. Inv /\ [Next]_vars => [\A a \in Attempts :
          /\ Claimed(a) => slot'[a] = slot[a]
          /\ Granted(a) => Queued(a) /\ Held(a) /\ funded[a].arm \notin closed /\ ~hold]_vars
    BY <1>1
<1> QED
    BY <1>2, InitInv, StepInv, PTL DEF Spec, ClaimIsOnce

\* Inside an arm, ordered claims follow the queue, whatever other arms do.
THEOREM ArmsAreFifo == Spec => FifoInArm
<1>1. ASSUME Inv, [Next]_vars, NEW a \in Attempts, NEW b \in Attempts,
             Granted(a), ~Permitted(a), Waiting(b, funded[a].resource),
             funded[b].arm = funded[a].arm
      PROVE  ~Before(b, a)
  <2>1. IsNext(a, funded[a].resource)
      BY <1>1, GrantIsClaim DEF Claim, ClaimPermitted, ClaimInTurn
  <2> QED
      BY <1>1, <2>1, YieldsByArm DEF IsNext
<1>2. Inv /\ [Next]_vars => [\A a, b \in Attempts :
          Granted(a) /\ ~Permitted(a) /\ Waiting(b, funded[a].resource)
          /\ funded[b].arm = funded[a].arm => ~Before(b, a)]_vars
    BY <1>1
<1> QED
    BY <1>2, InitInv, StepInv, PTL DEF Spec, FifoInArm

\* Rotation between any number of arms never passes a waiting entry twice in a
\* row.
THEOREM RotationIsFair == Spec => NeverPassedTwice
<1>1. ASSUME Inv, PassedByOtherArm, [Next]_vars, NEW a \in Attempts, NEW b \in Attempts,
             Granted(a), ~Permitted(a), ~Permitted(b), b \in Passed(a, funded[a].resource)
      PROVE  b \notin overtaken[funded[a].resource]
  <2> DEFINE r == funded[a].resource
  <2>1. Claim(a)
      BY <1>1, GrantIsClaim
  <2>2. IsNext(a, r) /\ r \in Resources
      BY <1>1, <2>1, ClaimTakesFree DEF Inv, Claim, ClaimPermitted, ClaimInTurn
  <2>3. funded[b].arm = lastArm[r]
      BY <1>1, <2>2, PassedYields
  <2> QED
      BY <1>1, <2>2, <2>3 DEF PassedByOtherArm
<1>2. Inv /\ PassedByOtherArm /\ [Next]_vars => [\A a, b \in Attempts :
          Granted(a) /\ ~Permitted(a) /\ ~Permitted(b)
          /\ b \in Passed(a, funded[a].resource) => b \notin overtaken[funded[a].resource]]_vars
    BY <1>1
<1> QED
    BY <1>2, InitInv, StepInv, InitPassed, StepPassed, PTL DEF Spec, NeverPassedTwice
-----------------------------------------------------------------------------
(* Nobody blocks a queue. *)

\* An attempt is queued once, and only finitely many ever claimed a slot.
EnteredOnce == \A i, j \in DOMAIN queue : queue[i] = queue[j] => i = j
FewClaims == IsFiniteSet({a \in Attempts : Claimed(a)})

LEMMA StepEntered == TypeOK /\ EnteredOnce /\ [Next]_vars => EnteredOnce'
<1> SUFFICES ASSUME TypeOK, EnteredOnce, [Next]_vars PROVE EnteredOnce'
    OBVIOUS
<1>1. ASSUME NEW a \in Attempts, Enqueue(a) PROVE EnteredOnce'
  <2>1. queue \in Seq(Attempts) /\ queue' = Append(queue, a) /\ \A i \in DOMAIN queue : queue[i] # a
      BY <1>1 DEF TypeOK, Enqueue, Queued, Position
  <2> QED
      BY <2>1 DEF EnteredOnce
<1>2. ASSUME queue' = queue PROVE EnteredOnce'
    BY <1>2 DEF EnteredOnce
<1> QED
    BY <1>1, <1>2 DEF Next, QueueStep, LedgerStep, Claim, ClaimPermitted, ClaimInTurn, Fund, Release,
        ActivatePolicy, SetClosed, PlaceHold, queueVars, vars

LEMMA StepFewClaims == Inv /\ FewClaims /\ [Next]_vars => FewClaims'
<1> SUFFICES ASSUME Inv, FewClaims, [Next]_vars PROVE FewClaims'
    OBVIOUS
<1> DEFINE C == {a \in Attempts : Claimed(a)}
<1>1. ASSUME NEW a \in Attempts, Claim(a) PROVE FewClaims'
  <2>1. PICK s \in Nat : slot' = [slot EXCEPT ![a] = s]
      BY <1>1, ClaimTakesFree DEF Inv
  <2>2. C' \subseteq C \cup {a}
      BY <2>1 DEF Claimed, Inv, TypeOK
  <2>3. IsFiniteSet(C \cup {a})
      BY FS_AddElement DEF FewClaims
  <2> QED
      BY <2>2, <2>3, FS_Subset DEF FewClaims
<1>2. ASSUME slot' = slot PROVE FewClaims'
    BY <1>2 DEF FewClaims, Claimed
<1> QED
    BY <1>1, <1>2 DEF Next, QueueStep, LedgerStep, Enqueue, Fund, Release, ActivatePolicy, SetClosed,
        PlaceHold, queueVars, vars

LEMMA QueueAlways == Spec => [](Inv /\ EnteredOnce /\ FewClaims)
<1>1. Init => EnteredOnce
    BY DEF Init, EnteredOnce
<1>2. Init => FewClaims
  <2> SUFFICES ASSUME Init PROVE FewClaims
      OBVIOUS
  <2>1. {a \in Attempts : Claimed(a)} = {}
      BY DEF Init, Claimed
  <2> QED
      BY <2>1, FS_EmptySet DEF FewClaims
<1>3. Inv => TypeOK
    BY DEF Inv
<1> QED
    BY <1>1, <1>2, <1>3, InitInv, StepInv, StepEntered, StepFewClaims, PTL DEF Spec

\* A nonempty set of naturals has a least member.
LEMMA LeastNatural ==
    ASSUME NEW S \in SUBSET Nat, S # {}
    PROVE  \E s \in S : \A t \in S : s <= t
<1>1. PICK s \in S : \A t \in S : ~(<<t, s>> \in OpToRel(<, Nat))
    BY NatLessThanWellFounded, WFMin
<1>2. \A t \in S : ~(t < s)
    BY <1>1 DEF OpToRel
<1> QED
    BY <1>2

\* Whatever was claimed, lost and settled: as long as entries of a resource
\* wait, one of them is the next to be served, so the rotation of the arms and
\* the order inside them never wait for each other.
SomebodyIsNext ==
    \A r \in Resources :
        (\E a \in Attempts : Waiting(a, r)) => \E a \in Attempts : IsNext(a, r)

LEMMA NextExists == TypeOK /\ EnteredOnce => SomebodyIsNext
<1> SUFFICES ASSUME TypeOK, EnteredOnce, NEW r \in Resources, \E a \in Attempts : Waiting(a, r)
             PROVE  \E a \in Attempts : IsNext(a, r)
    BY DEF SomebodyIsNext
<1> DEFINE W == {a \in Attempts : Waiting(a, r) /\ ~Yields(a, r)}
           P == {i \in DOMAIN queue : queue[i] \in W}
<1>1. W # {}
    BY DEF Yields
<1>2. P # {} /\ P \subseteq Nat
  <2>1. PICK a \in W : TRUE
      BY <1>1
  <2>2. \E i \in DOMAIN queue : queue[i] = a
      BY <2>1 DEF Waiting, Queued, Position
  <2>3. DOMAIN queue \subseteq Nat
      BY DEF TypeOK
  <2> QED
      BY <2>1, <2>2, <2>3
<1>3. PICK i \in P : \A j \in P : i <= j
    BY <1>2, LeastNatural
<1>4. queue[i] \in W
    OBVIOUS
<1>5. ASSUME NEW b \in W, Before(b, queue[i]) PROVE FALSE
  <2>1. PICK j \in Position(b), k \in Position(queue[i]) : j < k
      BY <1>5 DEF Before
  <2>2. k = i /\ j \in P
      BY <2>1 DEF Position, EnteredOnce
  <2>3. i \in Nat /\ j \in Nat /\ i <= j
      BY <1>2, <1>3, <2>2
  <2> QED
      BY <2>1, <2>2, <2>3
<1> HIDE DEF P
<1> QED
    BY <1>4, <1>5 DEF IsNext

THEOREM QueuesMoveOn == Spec => []SomebodyIsNext
<1>1. Inv => TypeOK
    BY DEF Inv
<1> QED
    BY <1>1, QueueAlways, NextExists, PTL
-----------------------------------------------------------------------------
(* A claim can be granted. *)

LEMMA OccupiedIsFinite ==
    ASSUME FewClaims, NEW r
    PROVE  IsFiniteSet(Occupied(r)) /\ Cardinality(Occupied(r)) \in Nat
<1> DEFINE C == {a \in Attempts : Claimed(a)}
           B == {b \in Attempts : Claimed(b) /\ Held(b) /\ funded[b].resource = r}
           f == [a \in B |-> slot[a]]
<1>1. IsFiniteSet(B)
    BY FS_Subset, B \in SUBSET C DEF FewClaims
<1>2. f \in Surjection(B, Occupied(r))
    BY DEF Surjection, Occupied
<1>3. IsFiniteSet(Occupied(r))
    BY <1>1, <1>2, FS_Surjection
<1> QED
    BY <1>3, FS_CardinalityType

\* There is always a ticket left: one more number is on offer than is in use.
LEMMA TicketIsFree ==
    ASSUME FewClaims, NEW r
    PROVE  Tickets(r) # {}
<1> DEFINE O == Occupied(r)
           k == Cardinality(O)
<1>1. IsFiniteSet(O) /\ k \in Nat
    BY OccupiedIsFinite
<1>2. IsFiniteSet(0 .. k) /\ Cardinality(0 .. k) = k + 1
    BY <1>1, FS_Interval
<1>3. CASE Tickets(r) = {}
  <2>1. 0 .. k \in SUBSET O
      BY <1>3 DEF Tickets
  <2>2. Cardinality(0 .. k) <= k
      BY <1>1, <2>1, FS_Subset
  <2> QED
      BY <1>1, <1>2, <2>2
<1> QED
    BY <1>3

\* The next state in which a holds slot s, and nothing else has changed.
Grants(a, s) ==
    /\ slot' = [slot EXCEPT ![a] = s]
    /\ lastArm' = [lastArm EXCEPT ![funded[a].resource] = funded[a].arm]
    /\ UNCHANGED <<ledgerView, permitted, queue>>

\* A permitted entry that still waits for its answer is granted a ticket at
\* once, whoever stands before it and whatever is claimed.
THEOREM PermittedIsServedAtOnce ==
    ASSUME TypeOK, FewClaims, NEW a \in Attempts, Queued(a), Permitted(a), ~Answered(a)
    PROVE  \E s \in Nat \ Occupied(funded[a].resource) :
               Grants(a, s) /\ UNCHANGED overtaken => <<Claim(a)>>_vars
<1> DEFINE r == funded[a].resource
<1>1. Tickets(r) # {} /\ Tickets(r) \subseteq Nat \ Occupied(r)
  <2>1. Cardinality(Occupied(r)) \in Nat
      BY OccupiedIsFinite
  <2> QED
      BY <2>1, TicketIsFree DEF Tickets
<1>2. PICK s \in Tickets(r) : \A t \in Tickets(r) : s <= t
    BY <1>1, LeastNatural
<1>3. MayClaim(a)
    BY DEF MayClaim, Waiting, Answered
<1>4. s \in Nat \ Occupied(r)
    BY <1>1, <1>2
<1>5. ASSUME Grants(a, s), UNCHANGED overtaken PROVE <<Claim(a)>>_vars
  <2>1. Take(a, Tickets(r))
      BY <1>2, <1>5 DEF Grants, Take
  <2>2. Claim(a)
      BY <1>3, <1>5, <2>1 DEF Claim, ClaimPermitted, Grants
  <2>3. slot' # slot
      BY <1>3, <1>4, <1>5, NoSlotAssumption DEF Grants, MayClaim, Waiting, Claimed, TypeOK
  <2> QED
      BY <2>2, <2>3 DEF vars
<1> QED
    BY <1>4, <1>5
\* A free slot is never withheld: while an entry of its resource waits and no
\* hold stands, some entry that is next is granted a slot or a ticket.
THEOREM FreeSlotIsGranted ==
    ASSUME TypeOK, EnteredOnce, FewClaims, NEW r \in Resources, ~hold, FreeSlots(r) # {},
           \E a \in Attempts : Waiting(a, r)
    PROVE  \E a \in Attempts : \E s \in Nat \ Occupied(r) :
               /\ IsNext(a, r)
               /\ /\ Grants(a, s)
                  /\ overtaken' = IF Permitted(a) THEN overtaken
                                  ELSE [overtaken EXCEPT ![r] = Passed(a, r)]
                  => <<Claim(a)>>_vars
<1>1. PICK a \in Attempts : IsNext(a, r)
    BY NextExists DEF SomebodyIsNext
<1>2. Waiting(a, r) /\ funded[a].resource = r /\ MayClaim(a)
    BY <1>1 DEF IsNext, Waiting, MayClaim
<1>3. CASE Permitted(a)
  <2>1. Queued(a) /\ ~Answered(a)
      BY <1>2 DEF Waiting, Answered
  <2>2. PICK s \in Nat \ Occupied(r) : Grants(a, s) /\ UNCHANGED overtaken => <<Claim(a)>>_vars
      BY <1>2, <1>3, <2>1, PermittedIsServedAtOnce
  <2> QED
      BY <1>1, <1>3, <2>2
<1>4. CASE ~Permitted(a)
  <2>1. FreeSlots(r) \subseteq Nat \ Occupied(r)
      BY SlotsAssumption DEF FreeSlots
  <2>2. PICK s \in FreeSlots(r) : \A t \in FreeSlots(r) : s <= t
      BY <2>1, LeastNatural
  <2>3. ASSUME Grants(a, s), overtaken' = [overtaken EXCEPT ![r] = Passed(a, r)]
        PROVE  <<Claim(a)>>_vars
    <3>1. Take(a, FreeSlots(r))
        BY <1>2, <2>2, <2>3 DEF Grants, Take
    <3>2. Claim(a)
        BY <1>1, <1>2, <1>4, <2>3, <3>1 DEF Claim, ClaimInTurn, Grants
    <3>3. slot' # slot
        BY <1>2, <2>1, <2>3, NoSlotAssumption DEF Grants, Waiting, Claimed, TypeOK
    <3> QED
        BY <3>2, <3>3 DEF vars
  <2> QED
      BY <1>1, <1>4, <2>1, <2>2, <2>3
<1> QED
    BY <1>3, <1>4

-----------------------------------------------------------------------------
(* The turn of a permitted entry comes. *)

Unanswered(a) == Queued(a) /\ Permitted(a) /\ ~Answered(a)

\* Nobody takes a permitted entry out of the queue: its reservation, its place
\* and the permission of its arm stay until it is answered.
LEMMA UnansweredStays ==
    ASSUME TypeOK, FundedNamesArm, NEW a \in Attempts, Unanswered(a), [Next]_vars
    PROVE  Unanswered(a)' \/ Answered(a)'
<1> USE DEF Unanswered, Answered, ledgerView, queueVars
<1>1. Queued(a)'
  <2>1. ASSUME NEW b \in Attempts, Enqueue(b) PROVE Queued(a)'
      BY <2>1 DEF Enqueue, Queued, Position, TypeOK
  <2>2. ASSUME queue' = queue PROVE Queued(a)'
      BY <2>2 DEF Queued, Position
  <2> QED
      BY <2>1, <2>2 DEF Next, QueueStep, LedgerStep, Claim, ClaimPermitted, ClaimInTurn, Fund, Release,
          ActivatePolicy, SetClosed, PlaceHold, vars
<1>2. permitted \subseteq permitted'
    BY DEF Next, QueueStep, Enqueue, LedgerStep, Claim, ClaimPermitted, ClaimInTurn, Fund, Release,
       ActivatePolicy, SetClosed, PlaceHold, vars
<1>3. Held(a)' => funded'[a].arm = funded[a].arm /\ funded'[a].resource = funded[a].resource
  <2>1. ASSUME NEW b \in Attempts, NEW m, NEW r, Fund(b, m, r) PROVE funded'[a] = funded[a]
      BY <2>1 DEF Fund, Held, TypeOK
  <2>2. ASSUME NEW b \in Attempts, Release(b)
        PROVE  funded'[a].arm = funded[a].arm /\ funded'[a].resource = funded[a].resource
      BY <2>2 DEF Release, TypeOK, Funding
  <2> QED
      BY <2>1, <2>2 DEF Next, QueueStep, Enqueue, LedgerStep, Claim, ClaimPermitted, ClaimInTurn,
         ActivatePolicy, SetClosed, PlaceHold, vars
<1> QED
    BY <1>1, <1>2, <1>3 DEF Permitted

\* Its claim answers it.
LEMMA ClaimAnswers ==
    ASSUME TypeOK, FundedNamesArm, NEW a \in Attempts, Claim(a)
    PROVE  Answered(a)'
<1>1. PICK s \in Nat : slot' = [slot EXCEPT ![a] = s]
    BY ClaimTakesFree
<1> QED
    BY <1>1, NoSlotAssumption DEF Answered, Claimed, TypeOK

\* A supervisor that polls gets the answer of its permitted entry, although
\* every other supervisor may be lost and nothing is ever settled. The provers
\* read ENABLED as a name: that the claim can be made is the hypothesis, and
\* PermittedIsServedAtOnce shows the step.
THEOREM PermittedTurn ==
    ASSUME NEW a \in Attempts
    PROVE  /\ Spec
           /\ WF_vars(Claim(a))
           /\ [](Unanswered(a) => ENABLED <<Claim(a)>>_vars)
           => (Queued(a) /\ Permitted(a) ~> Answered(a))
<1> DEFINE Known == TypeOK /\ FundedNamesArm
<1>1. Known /\ Unanswered(a) /\ [Next]_vars => Unanswered(a)' \/ Answered(a)'
    BY UnansweredStays
<1>2. Known /\ <<Claim(a)>>_vars => Answered(a)'
    BY ClaimAnswers
<1>3. Queued(a) /\ Permitted(a) => Unanswered(a) \/ Answered(a)
    BY DEF Unanswered
<1>4. Inv => Known
    BY DEF Inv
<1> HIDE DEF Known
<1> QED
    BY <1>1, <1>2, <1>3, <1>4, QueueAlways, PTL DEF Spec
=============================================================================
