-------------------------- MODULE ManagedJob_proofs --------------------------
(***************************************************************************)
(* Proofs about the managed numerical job: for every plan, every monitor,  *)
(* every path that breaks and any number of sessions, a published result   *)
(* is what one uninterrupted run computes (SameAsOneRun), and the state a  *)
(* worker may be asked to hand over is accepted by owner and resumption    *)
(* (SavesAreAccepted).                                                     *)
(*                                                                         *)
(* The invariant says where each piece of work stands in the one run: the  *)
(* state of training is that run after as many updates (Path), a forecast  *)
(* holds exactly the paths of its closed chunks that no step broke, and    *)
(* the same is said of every checkpoint on record, so that resuming any of *)
(* them is no different from never having stopped.                         *)
(***************************************************************************)
EXTENDS ManagedJob, FiniteSetTheorems, WellFoundedInduction, TLAPS

-----------------------------------------------------------------------------
(* Induction: a set of naturals has a least element, so a property that    *)
(* fails somewhere fails first somewhere.                                  *)

\* The form in which the lemmas below use the well-foundedness of <.
LEMMA LeastNatural ==
    ASSUME NEW S \in SUBSET Nat, S # {}
    PROVE  \E n \in S : \A m \in S : n <= m
<1>1. PICK n \in S : \A m \in S : ~(<<m, n>> \in OpToRel(<, Nat))
  BY NatLessThanWellFounded, WFMin
<1>2. ASSUME NEW m \in S PROVE n <= m
  <2>1. ~(m < n)
    BY <1>1 DEF OpToRel
  <2> QED
    BY <2>1
<1> QED
  BY <1>2

-----------------------------------------------------------------------------
(* The one run: the recursive function of OneRun, for the monitor mon.     *)

Computes(mon, a) ==
    a = [k \in 0 .. MaxSteps |->
           IF k = 0 THEN Untrained
           ELSE IF a[k - 1].stale >= Patience THEN a[k - 1]
           ELSE Updated(a[k - 1], mon[k], k)]
Path(mon) == CHOOSE a : Computes(mon, a)

\* OneRun is the last value of that function.
LEMMA OneRunIsPath == OneRun = Path(monitor)[MaxSteps]
BY DEF OneRun, Path, Computes

\* The same function, up to n.
ComputesTo(mon, n, a) ==
    a = [k \in 0 .. n |->
           IF k = 0 THEN Untrained
           ELSE IF a[k - 1].stale >= Patience THEN a[k - 1]
           ELSE Updated(a[k - 1], mon[k], k)]

\* The recursion has a solution of every length.
LEMMA PathExists ==
    ASSUME NEW mon, NEW n \in Nat
    PROVE  \E a : ComputesTo(mon, n, a)
<1> DEFINE Bad == {m \in Nat : ~ \E a : ComputesTo(mon, m, a)}
<1>1. SUFFICES ASSUME Bad # {} PROVE FALSE
  OBVIOUS
<1>2. PICK m \in Bad : \A k \in Bad : m <= k
  BY <1>1, LeastNatural
<1>3. m # 0
  <2>1. ComputesTo(mon, 0, [k \in 0 .. 0 |-> Untrained])
    BY DEF ComputesTo
  <2> QED
    BY <2>1
<1>4. PICK a : ComputesTo(mon, m - 1, a)
  BY <1>2, <1>3
<1> DEFINE b == [k \in 0 .. m |->
                   IF k < m THEN a[k]
                   ELSE IF a[m - 1].stale >= Patience THEN a[m - 1]
                   ELSE Updated(a[m - 1], mon[m], m)]
<1>5. \A k \in 0 .. m : b[k] = IF k = 0 THEN Untrained
                               ELSE IF b[k - 1].stale >= Patience THEN b[k - 1]
                               ELSE Updated(b[k - 1], mon[k], k)
  <2> TAKE k \in 0 .. m
  <2>1. CASE k < m
    <3>1. a[k] = IF k = 0 THEN Untrained
                 ELSE IF a[k - 1].stale >= Patience THEN a[k - 1]
                 ELSE Updated(a[k - 1], mon[k], k)
      BY <1>4, <2>1 DEF ComputesTo
    <3> QED
      BY <3>1, <2>1
  <2>2. CASE k = m
    BY <2>2, <1>3
  <2> QED
    BY <2>1, <2>2
<1>6. ComputesTo(mon, m, b)
  <2> HIDE DEF b
  <2> SUFFICES b = [k \in 0 .. m |-> b[k]]
    BY <1>5 DEF ComputesTo
  <2> QED
    BY DEF b
<1> QED
  BY <1>2, <1>6

\* The equations of train_loop hold of the path.
LEMMA PathSteps ==
    ASSUME NEW mon
    PROVE  /\ Path(mon)[0] = Untrained
           /\ \A k \in 1 .. MaxSteps :
                 Path(mon)[k] = IF Path(mon)[k - 1].stale >= Patience
                                THEN Path(mon)[k - 1]
                                ELSE Updated(Path(mon)[k - 1], mon[k], k)
<1>1. MaxSteps \in Nat
  BY PlanAssumption
<1>2. PICK a : Computes(mon, a)
  BY <1>1, PathExists DEF ComputesTo, Computes
<1>3. Computes(mon, Path(mon))
  BY <1>2 DEF Path
<1> HIDE DEF Path
<1> QED
  BY <1>1, <1>3 DEF Computes

\* Once patience is exhausted nothing changes any more.
LEMMA PathStays ==
    ASSUME NEW mon, NEW n \in 0 .. MaxSteps, Path(mon)[n].stale >= Patience
    PROVE  Path(mon)[MaxSteps] = Path(mon)[n]
<1> DEFINE Bad == {m \in n .. MaxSteps : Path(mon)[m] # Path(mon)[n]}
<1>0. MaxSteps \in Nat
  BY PlanAssumption
<1>1. SUFFICES ASSUME Bad # {} PROVE FALSE
  BY <1>0
<1>2. PICK m \in Bad : \A k \in Bad : m <= k
  <2>1. Bad \in SUBSET Nat
    BY <1>0
  <2> HIDE DEF Bad
  <2> QED
    BY <1>1, <2>1, LeastNatural
<1>3. m - 1 \in n .. MaxSteps /\ m - 1 \notin Bad
  BY <1>2, <1>0
<1>4. Path(mon)[m - 1] = Path(mon)[n]
  BY <1>3
<1> QED
  BY <1>2, <1>3, <1>4, <1>0, PathSteps

-----------------------------------------------------------------------------
(* Sequences in increasing order. *)

\* Every finite set of path numbers can be listed in increasing order.
LEMMA OrderExists ==
    ASSUME NEW n \in Nat, NEW M \in SUBSET (1 .. n)
    PROVE  /\ IsFiniteSet(M) /\ Cardinality(M) \in Nat
           /\ \E s \in [1 .. Cardinality(M) -> M] : Increasing(s)
<1> DEFINE Has(T) == \E s \in [1 .. Cardinality(T) -> T] : Increasing(s)
           Bad == {m \in Nat : ~ \A T \in SUBSET (1 .. m) : Has(T)}
<1>1. ASSUME NEW m \in Nat, NEW T \in SUBSET (1 .. m)
      PROVE  IsFiniteSet(T) /\ Cardinality(T) \in Nat
  <2>1. IsFiniteSet(1 .. m)
    BY FS_Interval
  <2> QED
    BY <2>1, FS_Subset, FS_CardinalityType
<1>2. SUFFICES ASSUME Bad # {} PROVE FALSE
  BY <1>1
<1>3. PICK m \in Bad : \A k \in Bad : m <= k
  <2>1. Bad \in SUBSET Nat
    OBVIOUS
  <2> HIDE DEF Bad
  <2> QED
    BY <1>2, <2>1, LeastNatural
<1>4. PICK T \in SUBSET (1 .. m) : ~Has(T)
  BY <1>3
<1>5. m # 0
  <2>1. ASSUME m = 0 PROVE FALSE
    <3>0. T = {}
      BY <2>1
    <3>1. T = {} /\ Cardinality(T) = 0
      BY <3>0, FS_EmptySet
    <3>2. <<>> \in [1 .. 0 -> {}] /\ Increasing(<<>>)
      BY DEF Increasing
    <3> QED
      BY <3>1, <3>2, <1>4
  <2> QED
    BY <2>1
<1>6. \A U \in SUBSET (1 .. m - 1) : Has(U)
  <2>1. m - 1 \in Nat /\ ~(m <= m - 1)
    BY <1>5
  <2>2. m - 1 \notin Bad
    BY <1>3, <2>1
  <2> QED
    BY <2>1, <2>2
<1>7. m \in T
  BY <1>4, <1>6, <1>5, <1>3
<1> DEFINE U == T \ {m}
<1>8. U \in SUBSET (1 .. m - 1)
  BY <1>4, <1>3
<1>9. PICK s \in [1 .. Cardinality(U) -> U] : Increasing(s)
  BY <1>6, <1>8
<1>10. Cardinality(T) \in Nat \ {0} /\ Cardinality(U) = Cardinality(T) - 1
  <2>1. IsFiniteSet(T) /\ Cardinality(T) \in Nat
    BY <1>1, <1>3
  <2>2. Cardinality(U) = Cardinality(T) - 1
    BY <2>1, <1>7, FS_RemoveElement
  <2>3. Cardinality(T) # 0
    BY <2>1, <1>7, FS_EmptySet
  <2> QED
    BY <2>1, <2>2, <2>3
<1> DEFINE c == Cardinality(T)
           r == [i \in 1 .. c |-> IF i < c THEN s[i] ELSE m]
<1>11. r \in [1 .. c -> T]
  <2>1. ASSUME NEW i \in 1 .. c, i < c PROVE s[i] \in T
    <3>1. i \in 1 .. Cardinality(U) /\ U \subseteq T
      BY <2>1, <1>10
    <3> HIDE DEF U
    <3> QED
      BY <3>1, <1>9
  <2> HIDE DEF c, U
  <2> QED
    BY <2>1, <1>7
<1>12. Increasing(r)
  <2>1. SUFFICES ASSUME NEW i \in 1 .. c, NEW j \in 1 .. c, i < j PROVE r[i] < r[j]
    BY DEF Increasing
  <2>0. i \in 1 .. c - 1
    BY <2>1, <1>10
  <2>2. i \in 1 .. c - 1 /\ r[i] = s[i] /\ s[i] \in 1 .. m - 1
    <3>1. s[i] \in U
      BY <2>0, <1>9, <1>10
    <3>2. s[i] \in 1 .. m - 1
      BY <3>1, <1>8
    <3>3. r[i] = s[i]
      BY <2>0, <1>10
    <3> QED
      BY <3>2, <3>3, <2>0
  <2>3. CASE j = c
    BY <2>2, <2>3, <1>3
  <2>4. CASE j # c
    <3>1. j \in 1 .. c - 1 /\ r[j] = s[j]
      BY <2>4, <1>10
    <3> QED
      BY <3>1, <2>2, <2>1, <1>9, <1>10 DEF Increasing
  <2> QED
    BY <2>3, <2>4
<1> QED
  BY <1>4, <1>11, <1>12

\* What CloseChunk appends: the members, each once, in order.
LEMMA ChosenIsOrdered ==
    ASSUME NEW n \in Nat, NEW M \in SUBSET (1 .. n)
    PROVE  /\ Chosen(M) \in Seq(Nat)
           /\ Increasing(Chosen(M))
           /\ Members(Chosen(M)) = M
           /\ Len(Chosen(M)) = Cardinality(M)
<1>0. M \subseteq Nat
  OBVIOUS
<1>1. IsFiniteSet(M) /\ Cardinality(M) \in Nat
  BY OrderExists
<1> DEFINE c == Cardinality(M)
           s == Chosen(M)
<1>2. s \in [1 .. c -> M] /\ Increasing(s)
  BY OrderExists DEF Chosen
<1> HIDE DEF s
<1>3. s \in Injection(1 .. c, M)
  <2>1. ASSUME NEW i \in 1 .. c, NEW j \in 1 .. c, s[i] = s[j] PROVE i = j
    <3>1. s[i] \in Nat /\ s[j] \in Nat
      <4>1. s[i] \in M /\ s[j] \in M
        BY <1>2
      <4> QED
        BY <1>0, <4>1
    <3>2. ~(i < j) /\ ~(j < i)
      BY <3>1, <2>1, <1>2 DEF Increasing
    <3> QED
      BY <3>2
  <2> QED
    BY <2>1, <1>2 DEF Injection, IsInjective
<1>4. s \in Surjection(1 .. c, M)
  BY <1>1, <1>3, FS_Injection, FS_Interval
<1>5. Members(s) = M
  BY <1>2, <1>4 DEF Members, Surjection
<1>6. s \in Seq(Nat) /\ Len(s) = c
  <2>1. s \in [1 .. c -> Nat]
    BY <1>0, <1>2
  <2> QED
    BY <2>1, <1>1
<1> QED
  BY <1>2, <1>5, <1>6 DEF s

\* Two ordered lists, the second beyond the first, make an ordered list.
LEMMA Joined ==
    ASSUME NEW s \in Seq(Nat), NEW t \in Seq(Nat), Increasing(s), Increasing(t),
           NEW n \in Nat, \A x \in Members(s) : x <= n, \A x \in Members(t) : x > n
    PROVE  /\ s \o t \in Seq(Nat)
           /\ Increasing(s \o t)
           /\ Members(s \o t) = Members(s) \cup Members(t)
<1> DEFINE u == s \o t
<1>1. /\ u \in Seq(Nat) /\ Len(u) = Len(s) + Len(t)
      /\ \A i \in 1 .. Len(u) : u[i] = IF i <= Len(s) THEN s[i] ELSE t[i - Len(s)]
      /\ Len(s) \in Nat /\ Len(t) \in Nat
      /\ DOMAIN s = 1 .. Len(s) /\ DOMAIN t = 1 .. Len(t) /\ DOMAIN u = 1 .. Len(u)
  OBVIOUS
<1> HIDE DEF u
<1>0. /\ \A i \in 1 .. Len(s) : s[i] \in Members(s)
      /\ \A i \in 1 .. Len(t) : t[i] \in Members(t)
  BY <1>1 DEF Members
<1>2. ASSUME NEW i \in 1 .. Len(s) PROVE u[i] = s[i] /\ s[i] <= n /\ i \in 1 .. Len(u)
  <2>1. i \in 1 .. Len(u)
    BY <1>1
  <2> QED
    BY <2>1, <1>1, <1>0
<1>3. ASSUME NEW i \in 1 .. Len(t) PROVE u[Len(s) + i] = t[i] /\ t[i] > n
  <2>1. Len(s) + i \in 1 .. Len(u) /\ ~(Len(s) + i <= Len(s)) /\ (Len(s) + i) - Len(s) = i
    BY <1>1
  <2>2. u[Len(s) + i] = t[(Len(s) + i) - Len(s)]
    BY <2>1, <1>1
  <2> QED
    BY <2>1, <2>2, <1>0
<1>4. Increasing(u)
  <2>1. SUFFICES ASSUME NEW i \in 1 .. Len(u), NEW j \in 1 .. Len(u), i < j PROVE u[i] < u[j]
    BY <1>1 DEF Increasing
  <2>2. CASE j <= Len(s)
    <3>1. i \in 1 .. Len(s) /\ j \in 1 .. Len(s)
      BY <2>1, <2>2, <1>1
    <3>2. s[i] < s[j]
      BY <3>1, <2>1, <1>1 DEF Increasing
    <3> QED
      BY <3>1, <3>2, <1>2
  <2>3. CASE i > Len(s)
    <3>1. i - Len(s) \in 1 .. Len(t) /\ j - Len(s) \in 1 .. Len(t) /\ i - Len(s) < j - Len(s)
      BY <2>1, <2>3, <1>1
    <3>2. t[i - Len(s)] < t[j - Len(s)]
      BY <3>1, <1>1 DEF Increasing
    <3> QED
      BY <3>2, <2>1, <2>3, <1>1
  <2>4. CASE i <= Len(s) /\ j > Len(s)
    <3>1. j - Len(s) \in 1 .. Len(t) /\ Len(s) + (j - Len(s)) = j
      BY <2>4, <1>1
    <3>2. u[j] > n
      <4>1. u[Len(s) + (j - Len(s))] > n
        BY <3>1, <1>3
      <4> QED
        BY <3>1, <4>1
    <3>3. u[i] <= n
      <4>1. i \in 1 .. Len(s)
        BY <2>4, <1>1
      <4> QED
        BY <4>1, <1>2
    <3>4. u[i] \in Nat /\ u[j] \in Nat
      <4>1. u \in Seq(Nat)
        BY <1>1
      <4> QED
        BY <4>1
    <3> QED
      BY <3>2, <3>3, <3>4
  <2> QED
    BY <2>2, <2>3, <2>4, <1>1
<1>5. Members(u) = Members(s) \cup Members(t)
  <2>1. ASSUME NEW x \in Members(u) PROVE x \in Members(s) \cup Members(t)
    <3>1. PICK i \in 1 .. Len(u) : x = u[i]
      BY <1>1 DEF Members
    <3>2. CASE i <= Len(s)
      <4>1. i \in 1 .. Len(s)
        BY <3>2, <1>1
      <4> QED
        BY <4>1, <3>1, <1>2, <1>0
    <3>3. CASE i > Len(s)
      <4>1. i - Len(s) \in 1 .. Len(t) /\ x = t[i - Len(s)]
        BY <3>3, <3>1, <1>1
      <4> QED
        BY <4>1, <1>0
    <3> QED
      BY <3>2, <3>3, <1>1
  <2>2. ASSUME NEW x \in Members(s) PROVE x \in Members(u)
    <3>1. PICK i \in 1 .. Len(s) : x = s[i]
      BY <1>1 DEF Members
    <3> QED
      BY <3>1, <1>1, <1>2 DEF Members
  <2>3. ASSUME NEW x \in Members(t) PROVE x \in Members(u)
    <3>1. PICK i \in 1 .. Len(t) : x = t[i]
      BY <1>1 DEF Members
    <3>2. Len(s) + i \in 1 .. Len(u)
      BY <3>1, <1>1
    <3> QED
      BY <3>1, <3>2, <1>1, <1>3 DEF Members
  <2> QED
    BY <2>1, <2>2, <2>3
<1> QED
  BY <1>1, <1>4, <1>5 DEF u

\* An increasing list of all of 1 .. n is the identity.
LEMMA AllInOrder ==
    ASSUME NEW n \in Nat, NEW s \in Seq(Nat), Increasing(s), Members(s) = 1 .. n
    PROVE  s = [k \in 1 .. n |-> k]
<1>1. Len(s) \in Nat /\ DOMAIN s = 1 .. Len(s) /\ \A i \in 1 .. Len(s) : s[i] \in 1 .. n
  BY DEF Members
<1>2. \A k \in 1 .. Len(s) : s[k] >= k
  <2> DEFINE Bad == {k \in 1 .. Len(s) : ~(s[k] >= k)}
  <2>1. SUFFICES ASSUME Bad # {} PROVE FALSE
    OBVIOUS
  <2>2. PICK k \in Bad : \A m \in Bad : k <= m
    <3>1. Bad \in SUBSET Nat
      BY <1>1
    <3> HIDE DEF Bad
    <3> QED
      BY <2>1, <3>1, LeastNatural
  <2>3. k # 1
    BY <2>2, <1>1
  <2>4. k - 1 \in 1 .. Len(s) /\ s[k - 1] >= k - 1
    BY <2>2, <2>3, <1>1
  <2>5. s[k - 1] < s[k]
    <3>1. k - 1 \in DOMAIN s /\ k \in DOMAIN s /\ k - 1 < k
      BY <2>4, <2>2, <1>1
    <3> QED
      BY <3>1, <1>1 DEF Increasing
  <2>6. k \in Nat /\ s[k] \in Int /\ s[k - 1] \in Int /\ ~(s[k] >= k)
    BY <2>2, <2>4, <1>1
  <2> QED
    BY <2>4, <2>5, <2>6
<1>3. \A k \in 1 .. n : k \in 1 .. Len(s) /\ s[k] = k
  <2> DEFINE Bad == {k \in 1 .. n : ~(k \in 1 .. Len(s) /\ s[k] = k)}
  <2>1. SUFFICES ASSUME Bad # {} PROVE FALSE
    OBVIOUS
  <2>2. PICK k \in Bad : \A m \in Bad : k <= m
    <3>1. Bad \in SUBSET Nat
      OBVIOUS
    <3> HIDE DEF Bad
    <3> QED
      BY <2>1, <3>1, LeastNatural
  <2>3. PICK i \in 1 .. Len(s) : s[i] = k
    BY <2>2, <1>1 DEF Members
  <2>4. i <= k
    BY <2>3, <1>2, <2>2
  <2>5. CASE i = k
    BY <2>5, <2>3, <2>2
  <2>6. CASE i < k
    <3>1. i \in 1 .. n /\ i \notin Bad
      BY <2>6, <2>2, <2>3, <1>1
    <3> QED
      BY <3>1, <2>3, <2>6
  <2> QED
    BY <2>4, <2>5, <2>6, <2>3, <2>2
<1>4. Len(s) = n
  <2>1. ASSUME Len(s) > n PROVE FALSE
    <3>0. Len(s) \in 1 .. Len(s)
      BY <1>1, <2>1
    <3>1. s[Len(s)] \in 1 .. n /\ s[Len(s)] >= Len(s)
      BY <3>0, <1>1, <1>2
    <3> QED
      BY <3>1, <2>1, <1>1
  <2>2. ASSUME Len(s) < n PROVE FALSE
    <3>1. n \in 1 .. n
      BY <2>2, <1>1
    <3> QED
      BY <3>1, <2>2, <1>3, <1>1
  <2>3. Len(s) \in Nat
    BY <1>1
  <2>4. ~(Len(s) > n) /\ ~(Len(s) < n)
    BY <2>1, <2>2
  <2> QED
    BY <2>3, <2>4
<1> QED
  BY <1>1, <1>3, <1>4

-----------------------------------------------------------------------------
(* The inductive invariant. *)

\* The inputs of a job.
WorldTyped ==
    /\ monitor \in [1 .. MaxSteps -> Values \cup {NonFinite}]
    /\ breaks \in [(1 .. Origins) \X (1 .. Samples) -> 0 .. Grid]
    /\ operation \in {"fit-and-forecast", "forecast"}

\* t is where the one run stands after t.step updates, none of them diverged.
TrainSound(mon, t) ==
    /\ t \in [step : 0 .. MaxSteps, stale : Nat, best : Int, bestModel : Nat,
              history : Seq(Int)]
    /\ t.stale <= t.step
    /\ Len(t.history) = t.step
    /\ t = Path(mon)[t.step]
    /\ \A k \in 1 .. t.step : mon[k] # NonFinite

\* What FinishTraining makes of a training state.
FitOf(status, t) ==
    [status |-> status, steps |-> t.step, best |-> t.best, model |-> t.bestModel,
     history |-> t.history]

\* The fit is the end of the one run, or the frozen model of a forecast job.
FitSound(mon, op, f) ==
    \/ op = "forecast" /\ f = Frozen
    \/ /\ op # "forecast"
       /\ TrainSound(mon, Path(mon)[MaxSteps])
       /\ Path(mon)[MaxSteps].step >= 1
       /\ \E status : f = FitOf(status, Path(mon)[MaxSteps])

\* The result of an origin none of whose paths broke.
Whole(m) == [ids |-> [k \in 1 .. Samples |-> k], failed |-> <<>>, model |-> m]

\* Origins are finished in order, whole, and by the fitted model.
FinishedSound(brk, m, fin) ==
    /\ Len(fin) \in 0 .. Origins
    /\ fin = [o \in 1 .. Len(fin) |-> Whole(m)]
    /\ \A o \in 1 .. Len(fin), i \in 1 .. Samples : brk[<<o, i>>] = 0

\* The type of the state of a forecast.
ActiveTyped(f) ==
    f \in [first : 0 .. Samples, step : 0 .. Grid, ids : Seq(Nat), failed : Seq(Nat),
           open : BOOLEAN, alive : SUBSET Nat]

\* The forecast of origin o: closed chunks are split by who broke, the open one
\* is masked by who broke so far.
ActiveSound(brk, o, f) ==
    /\ ActiveTyped(f)
    /\ f.first = Samples \/ f.first % Chunk = 0
    /\ Increasing(f.ids) /\ Increasing(f.failed)
    /\ Members(f.ids) = {i \in 1 .. f.first : brk[<<o, i>>] = 0}
    /\ Members(f.failed) = {i \in 1 .. f.first : brk[<<o, i>>] # 0}
    /\ f.open => /\ f.first < Samples
                 /\ f.alive = {i \in BatchOf(f) : brk[<<o, i>>] = 0 \/ brk[<<o, i>>] > f.step}
    /\ ~f.open => f.step = 0 /\ f.alive = {}

\* A worker, or a checkpoint, in training.
TrainingSound(mon, op, m, t, fin, a) ==
    /\ op = "fit-and-forecast"
    /\ TrainSound(mon, t)
    /\ m = t.step
    /\ fin = <<>> /\ a = Fresh

\* A worker, or a checkpoint, in forecasting.
ForecastSound(mon, brk, op, m, f, fin, a) ==
    /\ m = f.model
    /\ FitSound(mon, op, f)
    /\ FinishedSound(brk, m, fin)
    /\ Len(fin) < Origins
    /\ ActiveSound(brk, Len(fin) + 1, a)

\* A checkpoint on record.
CheckpointSound(mon, brk, op, c) ==
    \/ /\ c.kind = "training"
       /\ TrainingSound(mon, op, c.model, c.train, c.finished, c.active)
       /\ c.train.step >= 1
    \/ /\ c.kind = "forecast"
       /\ ForecastSound(mon, brk, op, c.model, c.fit, c.finished, c.active)

\* A published result.
ResultSound(mon, brk, op, r) ==
    \E f, fin :
       /\ FitSound(mon, op, f)
       /\ FinishedSound(brk, f.model, fin) /\ Len(fin) = Origins
       /\ r = [steps |-> f.steps, status |-> f.status, best |-> f.best,
               model |-> f.model, history |-> f.history, forecasts |-> fin]

\* Conjuncts: what the worker holds in each phase, what is saved and published.
Idle ==
    phase = "stopped" =>
       /\ model = 0 /\ train = Untrained /\ fit = Unfitted
       /\ finished = <<>> /\ active = Fresh
Trains ==
    phase \in {"training", "updated"} =>
       TrainingSound(monitor, operation, model, train, finished, active)
HasUpdated == phase = "updated" => train.step >= 1
Forecasts ==
    phase \in {"forecasting", "evaluating"} =>
       ForecastSound(monitor, breaks, operation, model, fit, finished, active)
Evaluates == phase = "evaluating" => ~active.open /\ active.first = Samples
Publishes ==
    phase = "publishing" =>
       /\ FitSound(monitor, operation, fit)
       /\ FinishedSound(breaks, fit.model, finished) /\ Len(finished) = Origins
SavedSound == \A c \in saved : CheckpointSound(monitor, breaks, operation, c)
OutcomeSound == outcome # NoResult => ResultSound(monitor, breaks, operation, outcome)

Inv == /\ WorldTyped /\ Idle /\ Trains /\ HasUpdated /\ Forecasts /\ Evaluates
       /\ Publishes /\ SavedSound /\ OutcomeSound

-----------------------------------------------------------------------------
(* Training. *)

\* The one run starts where a new worker starts.
LEMMA UntrainedIsSound == ASSUME NEW mon PROVE TrainSound(mon, Untrained)
<1>1. MaxSteps \in Nat
  BY PlanAssumption
<1>2. Untrained.step = 0 /\ Untrained.stale = 0 /\ Untrained.history = <<>>
  BY DEF Untrained
<1>3. Untrained \in [step : 0 .. MaxSteps, stale : Nat, best : Int, bestModel : Nat,
                     history : Seq(Int)]
  BY <1>1 DEF Untrained, NoBest
<1>4. Path(mon)[0] = Untrained
  BY PathSteps
<1> QED
  BY <1>1, <1>2, <1>3, <1>4 DEF TrainSound

\* Update follows the one run.
LEMMA UpdateIsSound ==
    ASSUME NEW mon \in [1 .. MaxSteps -> Values \cup {NonFinite}], NEW t, TrainSound(mon, t),
           t.step < MaxSteps, t.stale < Patience, mon[t.step + 1] # NonFinite
    PROVE  LET u == Updated(t, mon[t.step + 1], t.step + 1)
           IN  TrainSound(mon, u) /\ u.step = t.step + 1
<1> DEFINE n == t.step
           v == mon[n + 1]
           u == Updated(t, v, n + 1)
<1>1. /\ MaxSteps \in Nat /\ Patience \in Nat /\ n \in Nat /\ n + 1 \in 1 .. MaxSteps
      /\ n < MaxSteps /\ t.stale \in Nat /\ t.stale <= n
      /\ t.best \in Int /\ t.bestModel \in Nat /\ t.history \in Seq(Int) /\ Len(t.history) = n
  BY PlanAssumption DEF TrainSound
<1>2. v \in Int
  BY <1>1, PlanAssumption
<1> HIDE DEF n, v
<1>3. /\ u.step = n + 1 /\ u.stale \in {0, t.stale + 1}
      /\ u.best \in {v, t.best} /\ u.bestModel \in {n + 1, t.bestModel}
      /\ u.history = Append(t.history, v)
  <2>1. u.step = n + 1 /\ u.history = Append(t.history, v)
    BY DEF Updated, n
  <2>2. u.stale = (IF Improves(t, v) THEN 0 ELSE t.stale + 1)
    BY DEF Updated
  <2>3. u.best = (IF Improves(t, v) THEN v ELSE t.best)
    BY DEF Updated
  <2>4. u.bestModel = (IF Improves(t, v) THEN n + 1 ELSE t.bestModel)
    BY DEF Updated
  <2> HIDE DEF u
  <2> QED
    BY <2>1, <2>2, <2>3, <2>4
<1>4. u \in [step : 0 .. MaxSteps, stale : Nat, best : Int, bestModel : Nat,
             history : Seq(Int)]
  <2>1. Append(t.history, v) \in Seq(Int)
    BY <1>1, <1>2
  <2>2. u = [step |-> u.step, stale |-> u.stale, best |-> u.best, bestModel |-> u.bestModel,
             history |-> u.history]
    BY DEF Updated
  <2>3. u.history \in Seq(Int)
    BY <2>1, <1>3
  <2> HIDE DEF u
  <2>4. u.step \in 0 .. MaxSteps
    BY <1>1, <1>3
  <2>5. u.stale \in Nat
    BY <1>1, <1>3
  <2>6. u.best \in Int /\ u.bestModel \in Nat
    BY <1>1, <1>2, <1>3
  <2> QED
    BY <2>2, <2>3, <2>4, <2>5, <2>6
<1>5. u.stale <= u.step
  BY <1>1, <1>3
<1>6. Len(u.history) = n + 1
  BY <1>1, <1>2, <1>3
<1>7. u = Path(mon)[n + 1]
  <2>1. t = Path(mon)[n] /\ ~(t.stale >= Patience) /\ (n + 1) - 1 = n
    BY <1>1 DEF TrainSound, n
  <2>2. Path(mon)[n + 1] = Updated(Path(mon)[n], mon[n + 1], n + 1)
    BY <2>1, <1>1, PathSteps
  <2> QED
    BY <2>1, <2>2 DEF v
<1>8. \A k \in 1 .. n + 1 : mon[k] # NonFinite
  <2> TAKE k \in 1 .. n + 1
  <2>1. k \in 1 .. n \/ k = n + 1
    BY <1>1
  <2> QED
    BY <2>1 DEF TrainSound, n
<1> HIDE DEF u
<1>9. TrainSound(mon, u)
  BY <1>3, <1>4, <1>5, <1>6, <1>7, <1>8 DEF TrainSound
<1> QED
  BY <1>3, <1>9 DEF u, n, v

\* Training that ends is where the one run ends.
LEMMA EndIsSound ==
    ASSUME NEW mon, NEW t, TrainSound(mon, t), NEW status,
           t.stale >= Patience \/ t.step = MaxSteps
    PROVE  FitSound(mon, "fit-and-forecast", FitOf(status, t))
<1>1. MaxSteps \in Nat \ {0} /\ Patience \in Nat \ {0}
  BY PlanAssumption
<1>2. t.step \in 0 .. MaxSteps /\ t.stale \in Nat /\ t.stale <= t.step /\ t = Path(mon)[t.step]
  BY DEF TrainSound
<1>3. t.step >= 1
  BY <1>1, <1>2
<1>4. Path(mon)[MaxSteps] = t
  BY <1>2, PathStays
<1> QED
  BY <1>3, <1>4 DEF FitSound

-----------------------------------------------------------------------------
(* One forecast. *)

\* The numbers of the forecast plan.
LEMMA Plan ==
    /\ Samples \in Nat \ {0} /\ Chunk \in Nat \ {0} /\ Chunk <= Samples
    /\ Grid \in Nat \ {0} /\ Origins \in Nat \ {0}
BY PlanAssumption

\* Chunk boundaries are multiples of the chunk size.
LEMMA MultipleNext ==
    ASSUME NEW c \in Nat \ {0}, NEW a \in Nat, a % c = 0
    PROVE  (a + c) % c = 0
<1>1. a = c * (a \div c) + (a % c) /\ a \div c \in Nat
  OBVIOUS
<1> DEFINE q == a \div c
<1> HIDE DEF q
<1>2. a = c * q /\ q \in Nat
  BY <1>1 DEF q
<1>3. a + c = c * (q + 1) /\ q + 1 \in Nat
  BY <1>2
<1>4. \A k \in Nat : (c * k) % c = 0
  OBVIOUS
<1> QED
  BY <1>3, <1>4

\* Where the batch of a chunk lies.
LEMMA BatchRange ==
    ASSUME NEW f, f.first \in 0 .. Samples
    PROVE  /\ BatchOf(f) \subseteq 1 .. Samples
           /\ \A i \in BatchOf(f) : i > f.first
           /\ f.first + Cardinality(BatchOf(f)) \in f.first .. Samples
           /\ BatchOf(f) \cup (1 .. f.first) = 1 .. f.first + Cardinality(BatchOf(f))
           /\ \/ f.first + Cardinality(BatchOf(f)) = Samples
              \/ f.first + Cardinality(BatchOf(f)) = f.first + Chunk
<1> DEFINE end == IF f.first + Chunk > Samples THEN Samples ELSE f.first + Chunk
<1>1. end \in f.first .. Samples /\ (end = Samples \/ end = f.first + Chunk) /\ end \in Int
  BY Plan
<1>2. BatchOf(f) = f.first + 1 .. end
  BY DEF BatchOf
<1> HIDE DEF end
<1>3. Cardinality(BatchOf(f)) = end - f.first
  BY <1>1, <1>2, FS_Interval
<1>4. f.first + Cardinality(BatchOf(f)) = end
  BY <1>1, <1>3
<1>5. BatchOf(f) \subseteq 1 .. Samples /\ \A i \in BatchOf(f) : i > f.first
  BY <1>1, <1>2, Plan
<1>6. BatchOf(f) \cup (1 .. f.first) = 1 .. end
  BY <1>1, <1>2, Plan
<1> QED
  BY <1>1, <1>4, <1>5, <1>6

\* A forecast that has not begun.
LEMMA FreshIsSound == ASSUME NEW brk, NEW o PROVE ActiveSound(brk, o, Fresh)
<1>1. ActiveTyped(Fresh)
  BY Plan DEF ActiveTyped, Fresh
<1>2. /\ Fresh.first = 0 /\ Fresh.step = 0 /\ Fresh.ids = <<>> /\ Fresh.failed = <<>>
      /\ Fresh.open = FALSE /\ Fresh.alive = {}
  BY DEF Fresh
<1>3. 0 % Chunk = 0
  BY Plan
<1>4. Increasing(<<>>) /\ Members(<<>>) = {}
  BY DEF Increasing, Members
<1> QED
  BY <1>1, <1>2, <1>3, <1>4 DEF ActiveSound

\* OpenChunk, Advance and CloseChunk keep the masks true.
LEMMA OpenedIsSound ==
    ASSUME NEW brk, NEW o, NEW f, ActiveSound(brk, o, f), ~f.open, f.first < Samples,
           \A i \in 1 .. Samples : brk[<<o, i>>] \in 0 .. Grid
    PROVE  ActiveSound(brk, o, [f EXCEPT !.open = TRUE, !.alive = BatchOf(f)])
<1> DEFINE g == [f EXCEPT !.open = TRUE, !.alive = BatchOf(f)]
<1>1. ActiveTyped(f) /\ f.step = 0 /\ f.first \in 0 .. Samples
  BY DEF ActiveSound, ActiveTyped
<1>2. /\ g.first = f.first /\ g.step = f.step /\ g.ids = f.ids /\ g.failed = f.failed
      /\ g.open = TRUE /\ g.alive = BatchOf(f)
  BY <1>1 DEF ActiveTyped
<1>3. BatchOf(f) \subseteq 1 .. Samples
  BY <1>1, BatchRange
<1>4. ActiveTyped(g)
  <2>1. BatchOf(f) \in SUBSET Nat
    BY <1>3, Plan
  <2> QED
    BY <1>1, <2>1 DEF ActiveTyped
<1>5. BatchOf(g) = BatchOf(f)
  BY <1>2 DEF BatchOf
<1> HIDE DEF g
<1>6. g.alive = {i \in BatchOf(g) : brk[<<o, i>>] = 0 \/ brk[<<o, i>>] > g.step}
  BY <1>1, <1>2, <1>3, <1>5
<1> QED
  BY <1>1, <1>2, <1>4, <1>6 DEF ActiveSound, g

\* A step takes exactly the paths it breaks out of the mask.
LEMMA AdvancedIsSound ==
    ASSUME NEW brk, NEW o, NEW f, ActiveSound(brk, o, f), f.open, f.step < Grid,
           \A i \in 1 .. Samples : brk[<<o, i>>] \in 0 .. Grid,
           NEW alive, \A i : i \in alive <=> i \in f.alive /\ brk[<<o, i>>] # f.step + 1
    PROVE  ActiveSound(brk, o, [f EXCEPT !.step = @ + 1, !.alive = alive])
<1> DEFINE g == [f EXCEPT !.step = @ + 1, !.alive = alive]
<1>1. ActiveTyped(f) /\ f.first \in 0 .. Samples /\ f.step \in Nat /\ f.step + 1 \in 0 .. Grid
  BY Plan DEF ActiveSound, ActiveTyped
<1>2. /\ g.first = f.first /\ g.step = f.step + 1 /\ g.ids = f.ids /\ g.failed = f.failed
      /\ g.open = f.open /\ g.alive = alive
  BY <1>1 DEF ActiveTyped
<1>3. BatchOf(f) \subseteq 1 .. Samples
  BY <1>1, BatchRange
<1>4. ActiveTyped(g)
  BY <1>1 DEF ActiveTyped
<1>5. BatchOf(g) = BatchOf(f)
  BY <1>2 DEF BatchOf
<1> HIDE DEF g
<1>6. g.alive = {i \in BatchOf(g) : brk[<<o, i>>] = 0 \/ brk[<<o, i>>] > g.step}
  <2>1. f.alive = {i \in BatchOf(f) : brk[<<o, i>>] = 0 \/ brk[<<o, i>>] > f.step}
    BY DEF ActiveSound
  <2>2. ASSUME NEW i \in BatchOf(f)
        PROVE  (brk[<<o, i>>] = 0 \/ brk[<<o, i>>] > f.step) /\ brk[<<o, i>>] # f.step + 1
               <=> brk[<<o, i>>] = 0 \/ brk[<<o, i>>] > f.step + 1
    BY <1>1, <1>3
  <2> QED
    BY <1>2, <1>5, <2>1, <2>2
<1> QED
  BY <1>1, <1>2, <1>4, <1>6 DEF ActiveSound, g

\* A list of paths grows by the chosen members of its chunk.
LEMMA Extended ==
    ASSUME NEW s \in Seq(Nat), Increasing(s), NEW n \in Nat, NEW M \in SUBSET (1 .. Samples),
           \A x \in Members(s) : x <= n, \A x \in M : x > n
    PROVE  /\ s \o Chosen(M) \in Seq(Nat)
           /\ Increasing(s \o Chosen(M))
           /\ Members(s \o Chosen(M)) = Members(s) \cup M
<1> DEFINE t == Chosen(M)
<1>1. t \in Seq(Nat) /\ Increasing(t) /\ Members(t) = M
  BY ChosenIsOrdered, Plan
<1> HIDE DEF t
<1>2. \A x \in Members(t) : x > n
  BY <1>1
<1> QED
  BY <1>1, <1>2, Joined DEF t

\* At the last step the mask separates the paths that broke from the others.
LEMMA ClosedIsSound ==
    ASSUME NEW brk, NEW o, NEW f, ActiveSound(brk, o, f), f.open, f.step = Grid,
           \A i \in 1 .. Samples : brk[<<o, i>>] \in 0 .. Grid
    PROVE  ActiveSound(brk, o,
              [first |-> f.first + Cardinality(BatchOf(f)), step |-> 0,
               open |-> FALSE, alive |-> {},
               ids |-> f.ids \o Chosen(f.alive),
               failed |-> f.failed \o Chosen(BatchOf(f) \ f.alive)])
<1> DEFINE end == f.first + Cardinality(BatchOf(f))
           lost == BatchOf(f) \ f.alive
           ids == f.ids \o Chosen(f.alive)
           failed == f.failed \o Chosen(lost)
           g == [first |-> end, step |-> 0, open |-> FALSE, alive |-> {},
                 ids |-> ids, failed |-> failed]
<1>1. f.first \in 0 .. Samples /\ f.first \in Nat /\ f.ids \in Seq(Nat) /\ f.failed \in Seq(Nat)
  BY Plan DEF ActiveSound, ActiveTyped
<1>2. /\ BatchOf(f) \subseteq 1 .. Samples /\ \A i \in BatchOf(f) : i > f.first
      /\ end \in f.first .. Samples
      /\ BatchOf(f) \cup (1 .. f.first) = 1 .. end
      /\ end = Samples \/ end = f.first + Chunk
  BY <1>1, BatchRange
<1>3. /\ f.alive = {i \in BatchOf(f) : brk[<<o, i>>] = 0}
      /\ lost = {i \in BatchOf(f) : brk[<<o, i>>] # 0}
  <2>1. f.alive = {i \in BatchOf(f) : brk[<<o, i>>] = 0 \/ brk[<<o, i>>] > Grid}
    BY DEF ActiveSound
  <2>2. \A i \in BatchOf(f) : ~(brk[<<o, i>>] > Grid)
    BY <1>2, Plan
  <2> QED
    BY <2>1, <2>2
<1> HIDE DEF end, lost
<1>4. /\ f.alive \in SUBSET (1 .. Samples) /\ lost \in SUBSET (1 .. Samples)
      /\ \A i \in f.alive \cup lost : i > f.first
  BY <1>2, <1>3
<1>5. /\ Increasing(f.ids) /\ Increasing(f.failed)
      /\ Members(f.ids) = {i \in 1 .. f.first : brk[<<o, i>>] = 0}
      /\ Members(f.failed) = {i \in 1 .. f.first : brk[<<o, i>>] # 0}
      /\ f.first = Samples \/ f.first % Chunk = 0 
      /\ f.first < Samples
  BY DEF ActiveSound
<1>6. /\ ids \in Seq(Nat) /\ Increasing(ids)
      /\ Members(ids) = Members(f.ids) \cup f.alive
  <2>1. \A x \in Members(f.ids) : x <= f.first
    BY <1>1, <1>5
  <2> QED
    BY <1>1, <1>4, <1>5, <2>1, Extended
<1>7. /\ failed \in Seq(Nat) /\ Increasing(failed)
      /\ Members(failed) = Members(f.failed) \cup lost
  <2>1. \A x \in Members(f.failed) : x <= f.first
    BY <1>1, <1>5
  <2> QED
    BY <1>1, <1>4, <1>5, <2>1, Extended
<1> HIDE DEF ids, failed
<1>8. Members(ids) = {i \in 1 .. end : brk[<<o, i>>] = 0}
  BY <1>2, <1>3, <1>5, <1>6
<1>9. Members(failed) = {i \in 1 .. end : brk[<<o, i>>] # 0}
  BY <1>2, <1>3, <1>5, <1>7
<1>10. end \in 0 .. Samples /\ (end = Samples \/ end % Chunk = 0)
  <2>1. end \in 0 .. Samples
    BY <1>1, <1>2, Plan
  <2>2. f.first % Chunk = 0
    BY <1>1, <1>5
  <2>3. (f.first + Chunk) % Chunk = 0
    BY <1>1, <2>2, Plan, MultipleNext
  <2> QED
    BY <1>2, <2>1, <2>3
<1>11. ActiveTyped(g)
  BY <1>6, <1>7, <1>10, Plan DEF ActiveTyped
<1>12. ActiveSound(brk, o, g)
  BY <1>6, <1>7, <1>8, <1>9, <1>10, <1>11 DEF ActiveSound
<1> QED
  BY <1>12 DEF end, ids, failed, lost

\* A complete forecast without failures lists every path.
LEMMA WholeForecast ==
    ASSUME NEW brk, NEW o, NEW f, ActiveSound(brk, o, f), f.first = Samples, f.failed = <<>>
    PROVE  /\ f.ids = [k \in 1 .. Samples |-> k]
           /\ \A i \in 1 .. Samples : brk[<<o, i>>] = 0
<1>1. Members(f.failed) = {}
  BY DEF Members
<1>2. \A i \in 1 .. Samples : brk[<<o, i>>] = 0
  BY <1>1 DEF ActiveSound
<1>3. Members(f.ids) = 1 .. Samples
  BY <1>2 DEF ActiveSound
<1>4. f.ids \in Seq(Nat) /\ Increasing(f.ids)
  BY DEF ActiveSound, ActiveTyped
<1> QED
  BY <1>2, <1>3, <1>4, AllInOrder, Plan

-----------------------------------------------------------------------------
(* What is recorded, and what is published. *)

\* Sound training passes inspect_training_envelope.
LEMMA TrainingAccepted ==
    ASSUME NEW mon, NEW c, TrainSound(mon, c.train), c.train.step >= 1
    PROVE  AcceptedTraining(c)
BY DEF TrainSound, AcceptedTraining

\* A sound forecast passes validate_saved_job and restore.
LEMMA ForecastAccepted ==
    ASSUME NEW mon, NEW brk, NEW op, NEW c,
           \A o \in 1 .. Origins, i \in 1 .. Samples : brk[<<o, i>>] \in 0 .. Grid,
           ForecastSound(mon, brk, op, c.model, c.fit, c.finished, c.active)
    PROVE  AcceptedForecast(c)
<1> DEFINE o == Len(c.finished) + 1
           f == c.active
<1>1. /\ FitSound(mon, op, c.fit) /\ FinishedSound(brk, c.model, c.finished)
      /\ Len(c.finished) < Origins /\ ActiveSound(brk, o, f)
  BY DEF ForecastSound
<1>2. \A i \in DOMAIN c.finished :
         c.finished[i].ids = [k \in 1 .. Samples |-> k] /\ c.finished[i].failed = <<>>
  <2> TAKE i \in DOMAIN c.finished
  <2>1. c.finished[i] = Whole(c.model)
    BY <1>1 DEF FinishedSound
  <2> QED
    BY <2>1 DEF Whole
<1>3. \/ c.fit.status = "FROZEN"
      \/ c.fit.steps \in 1 .. MaxSteps /\ Len(c.fit.history) = c.fit.steps
  <2>1. CASE c.fit = Frozen
    BY <2>1 DEF Frozen, Unfitted
  <2>2. CASE \E t, status : /\ TrainSound(mon, t) /\ t.step >= 1
                            /\ c.fit = FitOf(status, t)
    <3>1. PICK t, status : /\ TrainSound(mon, t) /\ t.step >= 1
                           /\ c.fit = FitOf(status, t)
      BY <2>2
    <3>2. c.fit.steps = t.step /\ c.fit.history = t.history
      BY <3>1 DEF FitOf
    <3>3. t.step \in 1 .. MaxSteps /\ Len(t.history) = t.step
      BY <3>1, PlanAssumption DEF TrainSound
    <3> QED
      BY <3>2, <3>3
  <2> QED
    BY <1>1, <2>1, <2>2 DEF FitSound
<1>4. o \in 1 .. Origins
  BY <1>1, Plan DEF FinishedSound
<1> HIDE DEF o, f
<1>5. f.first \in 0 .. Samples /\ f.step \in 0 .. Grid
  BY <1>1 DEF ActiveSound, ActiveTyped
<1>6. Increasing(f.ids) /\ Increasing(f.failed) /\ (f.first = Samples \/ f.first % Chunk = 0)
  BY <1>1 DEF ActiveSound
<1>7. /\ Members(f.ids) \cap Members(f.failed) = {}
      /\ Members(f.ids) \cup Members(f.failed) = 1 .. f.first
  BY <1>1 DEF ActiveSound
<1>8. ASSUME f.open PROVE f.first < Samples /\ (f.step = 0 => f.alive = BatchOf(f))
  <2>1. BatchOf(f) \subseteq 1 .. Samples
    BY <1>5, BatchRange
  <2>2. ASSUME f.step = 0, NEW i \in BatchOf(f) PROVE brk[<<o, i>>] = 0 \/ brk[<<o, i>>] > 0
    <3>1. brk[<<o, i>>] \in 0 .. Grid
      BY <1>4, <2>1
    <3> QED
      BY <3>1, Plan
  <2>3. f.first < Samples /\ f.alive = {i \in BatchOf(f) : brk[<<o, i>>] = 0 \/ brk[<<o, i>>] > f.step}
    BY <1>1, <1>8 DEF ActiveSound
  <2> QED
    BY <2>2, <2>3
<1>9. ~f.open => f.step = 0
  BY <1>1 DEF ActiveSound
<1> QED
  BY <1>1, <1>2, <1>3, <1>5, <1>6, <1>7, <1>8, <1>9 DEF AcceptedForecast, f

\* The invariant implies both properties.
LEMMA AcceptsWork == ASSUME Inv PROVE SavesAreAccepted
<1>1. ASSUME phase = "updated" PROVE Accepted(Checkpoint("training"))
  <2> DEFINE c == Checkpoint("training")
  <2>1. c.kind = "training" /\ c.train = train
    BY DEF Checkpoint
  <2>2. TrainSound(monitor, c.train) /\ c.train.step >= 1
    BY <1>1, <2>1 DEF Inv, Trains, HasUpdated, TrainingSound
  <2> HIDE DEF c
  <2> QED
    BY <2>1, <2>2, TrainingAccepted DEF Accepted, c
<1>2. ASSUME phase \in {"forecasting", "evaluating"} PROVE Accepted(Checkpoint("forecast"))
  <2> DEFINE c == Checkpoint("forecast")
  <2>1. /\ c.kind = "forecast" /\ c.model = fit.model /\ c.fit = fit
        /\ c.finished = finished /\ c.active = active
    BY DEF Checkpoint
  <2>2. ForecastSound(monitor, breaks, operation, fit.model, fit, finished, active)
    BY <1>2 DEF Inv, Forecasts, ForecastSound
  <2>3. \A o \in 1 .. Origins, i \in 1 .. Samples : breaks[<<o, i>>] \in 0 .. Grid
    BY DEF Inv, WorldTyped
  <2> HIDE DEF c
  <2> QED
    BY <2>1, <2>2, <2>3, ForecastAccepted DEF Accepted, c
<1> QED
  BY <1>1, <1>2 DEF SavesAreAccepted, SavePoint, Forecasting

\* A published result is the result of OneRun, field by field.
LEMMA PublishesOneRun == ASSUME Inv PROVE SameAsOneRun
<1> SUFFICES ASSUME outcome # NoResult PROVE SameAsOneRun
  BY DEF SameAsOneRun
<1> DEFINE one == IF operation = "forecast" THEN Untrained ELSE OneRun
<1>1. PICK f, fin :
         /\ FitSound(monitor, operation, f)
         /\ FinishedSound(breaks, f.model, fin) /\ Len(fin) = Origins
         /\ outcome = [steps |-> f.steps, status |-> f.status, best |-> f.best,
                       model |-> f.model, history |-> f.history, forecasts |-> fin]
  BY DEF Inv, OutcomeSound, ResultSound
<1>2. \A p \in DOMAIN breaks : breaks[p] = 0
  <2>1. DOMAIN breaks = (1 .. Origins) \X (1 .. Samples)
    BY DEF Inv, WorldTyped
  <2>2. \A o \in 1 .. Origins, i \in 1 .. Samples : breaks[<<o, i>>] = 0
    BY <1>1 DEF FinishedSound
  <2> QED
    BY <2>1, <2>2
<1>3. /\ \E status : f = FitOf(status, one)
      /\ TrainSound(monitor, one)
  <2>1. CASE operation = "forecast"
    <3>1. f = FitOf("FROZEN", Untrained)
      BY <1>1, <2>1 DEF FitSound, Frozen, Unfitted, FitOf, Untrained
    <3> QED
      BY <3>1, <2>1, UntrainedIsSound
  <2>2. CASE operation # "forecast"
    BY <1>1, <2>2, OneRunIsPath DEF FitSound
  <2> QED
    BY <2>1, <2>2
<1> HIDE DEF one
<1>4. \A k \in 1 .. one.step : monitor[k] # NonFinite
  BY <1>3 DEF TrainSound
<1>5. /\ f.steps = one.step /\ f.best = one.best /\ f.model = one.bestModel
      /\ f.history = one.history
  BY <1>3 DEF FitOf
<1>6. fin = [o \in 1 .. Origins |-> Whole(f.model)]
  BY <1>1 DEF FinishedSound
<1> DEFINE r == Result(one, one.bestModel)
<1>7. /\ r["steps"] = one.step /\ r["best"] = one.best /\ r["model"] = one.bestModel
      /\ r["history"] = one.history
      /\ r["forecasts"] = [o \in 1 .. Origins |-> Whole(one.bestModel)]
  BY DEF Result, Whole
<1>8. /\ outcome["steps"] = r["steps"] /\ outcome["best"] = r["best"]
      /\ outcome["model"] = r["model"] /\ outcome["history"] = r["history"]
      /\ outcome["forecasts"] = r["forecasts"]
  BY <1>1, <1>5, <1>6, <1>7
<1> HIDE DEF r
<1>9. \A field \in {"steps", "best", "model", "history", "forecasts"} :
         outcome[field] = r[field]
  BY <1>8
<1> QED
  BY <1>2, <1>4, <1>9 DEF SameAsOneRun, one, r

-----------------------------------------------------------------------------
(* Every step preserves the invariant. *)

\* The invariant holds at first.
LEMMA InitInv == ASSUME Init PROVE Inv
<1>1. WorldTyped
  BY DEF Init, WorldTyped
<1>2. phase = "stopped" /\ saved = {} /\ outcome = NoResult
  BY DEF Init
<1>3. Idle
  BY DEF Init, Idle
<1> QED
  BY <1>1, <1>2, <1>3 DEF Inv, Trains, HasUpdated, Forecasts, Evaluates, Publishes,
     SavedSound, OutcomeSound

\* No step touches the world.
LEMMA WorldStays == ASSUME [Next]_vars PROVE UNCHANGED world
<1>1. CASE UNCHANGED vars
  BY <1>1 DEF vars
<1>2. CASE BeginAnew \/ Resume \/ Dies
  BY <1>2 DEF BeginAnew, Resume, Dies
<1>3. CASE Update \/ Diverges \/ SaveTraining \/ NoRequest \/ Converges \/ Exhausts
  BY <1>3 DEF Update, Diverges, SaveTraining, Save, NoRequest, Converges, Exhausts, FinishTraining
<1>4. CASE SaveForecast \/ OpenChunk \/ Advance \/ CloseChunk \/ Predicted
  BY <1>4 DEF SaveForecast, Save, OpenChunk, Advance, CloseChunk, Predicted
<1>5. CASE SaveCompletion \/ EvaluationFails \/ Evaluated \/ Publish
  BY <1>5 DEF SaveCompletion, Save, EvaluationFails, Evaluated, Publish
<1> QED
  BY <1>1, <1>2, <1>3, <1>4, <1>5 DEF Next

\* A process that is gone keeps nothing of its own.
LEMMA StopsInv ==
    ASSUME Inv, Stops, UNCHANGED <<world, outcome>>, SavedSound'
    PROVE  Inv'
<1>1. phase' = "stopped"
  BY DEF Stops
<1>2. Idle'
  BY DEF Stops, Idle
<1>3. WorldTyped' /\ OutcomeSound'
  BY DEF Inv, WorldTyped, OutcomeSound, world
<1> QED
  BY <1>1, <1>2, <1>3 DEF Inv, Trains, HasUpdated, Forecasts, Evaluates, Publishes

\* What no save or publication touches.
LEMMA RecordsStay ==
    ASSUME Inv, UNCHANGED <<world, saved, outcome>>
    PROVE  WorldTyped' /\ SavedSound' /\ OutcomeSound'
BY DEF Inv, WorldTyped, SavedSound, OutcomeSound, world

\* Save keeps it when the checkpoint it may record is sound.
LEMMA SaveInv ==
    ASSUME Inv, NEW kind, Save(kind), CheckpointSound(monitor, breaks, operation, Checkpoint(kind))
    PROVE  Inv'
<1>1. Stops /\ UNCHANGED <<world, outcome>>
  BY DEF Save
<1>2. saved' \subseteq saved \cup {Checkpoint(kind)}
  BY DEF Save
<1>3. SavedSound'
  <2>1. \A c \in saved' : CheckpointSound(monitor, breaks, operation, c)
    BY <1>2 DEF Inv, SavedSound
  <2>2. monitor' = monitor /\ breaks' = breaks /\ operation' = operation
    BY <1>1 DEF world
  <2> QED
    BY <2>1, <2>2 DEF SavedSound
<1> QED
  BY <1>1, <1>3, StopsInv

\* A worker whose step ends in training: only its own part matters.
LEMMA TrainsInv ==
    ASSUME Inv, UNCHANGED <<world, saved, outcome>>, phase' \in {"training", "updated"},
           TrainingSound(monitor, operation, model', train', finished', active'),
           phase' = "updated" => train'.step >= 1
    PROVE  Inv'
<1>1. WorldTyped' /\ SavedSound' /\ OutcomeSound'
  BY RecordsStay
<1>2. Trains' /\ HasUpdated'
  BY DEF Trains, HasUpdated, world
<1> QED
  BY <1>1, <1>2 DEF Inv, Idle, Forecasts, Evaluates, Publishes

\* The same of a worker that forecasts.
LEMMA ForecastsInv ==
    ASSUME Inv, UNCHANGED <<world, saved, outcome>>, phase' \in {"forecasting", "evaluating"},
           ForecastSound(monitor, breaks, operation, model', fit', finished', active'),
           phase' = "evaluating" => ~active'.open /\ active'.first = Samples
    PROVE  Inv'
<1>1. WorldTyped' /\ SavedSound' /\ OutcomeSound'
  BY RecordsStay
<1>2. Forecasts' /\ Evaluates'
  BY DEF Forecasts, Evaluates, world
<1> QED
  BY <1>1, <1>2 DEF Inv, Idle, Trains, HasUpdated, Publishes

\* No origin is finished yet.
LEMMA NothingFinished ==
    ASSUME NEW brk, NEW m
    PROVE  FinishedSound(brk, m, <<>>) /\ Len(<<>>) = 0
BY Plan DEF FinishedSound

\* Sessions begin, continue and die.
LEMMA StepSessions == ASSUME Inv, BeginAnew \/ Resume \/ Dies PROVE Inv'
<1>1. CASE BeginAnew
  <2>1. /\ phase = "stopped" /\ model' = 0 /\ train' = Untrained /\ finished' = <<>>
        /\ active' = Fresh /\ UNCHANGED <<world, saved, outcome>>
    BY <1>1 DEF BeginAnew, MayBegin, Inv, Idle
  <2>2. CASE operation = "forecast"
    <3>1. phase' = "forecasting" /\ fit' = Frozen
      BY <1>1, <2>2 DEF BeginAnew
    <3>2. FitSound(monitor, operation, Frozen) /\ Frozen.model = 0
      BY <2>2 DEF FitSound, Frozen, Unfitted
    <3>3. ForecastSound(monitor, breaks, operation, 0, Frozen, <<>>, Fresh)
      BY <3>2, NothingFinished, FreshIsSound, Plan DEF ForecastSound
    <3> QED
      BY <2>1, <3>1, <3>3, ForecastsInv
  <2>3. CASE operation # "forecast"
    <3>1. phase' = "training" /\ operation = "fit-and-forecast"
      BY <1>1, <2>3 DEF BeginAnew, Inv, WorldTyped
    <3>2. TrainingSound(monitor, operation, 0, Untrained, <<>>, Fresh)
      BY <3>1, UntrainedIsSound DEF TrainingSound, Untrained
    <3> QED
      BY <2>1, <3>1, <3>2, TrainsInv
  <2> QED
    BY <2>2, <2>3
<1>2. CASE Resume
  <2>1. PICK c \in saved : /\ Restored(c)
                           /\ phase' = IF c.kind = "training" THEN "training" ELSE "forecasting"
    BY <1>2 DEF Resume
  <2>2. /\ model' = c.model /\ train' = c.train /\ fit' = c.fit /\ finished' = c.finished
        /\ active' = c.active /\ UNCHANGED <<world, saved, outcome>>
    BY <1>2, <2>1 DEF Resume, Restored
  <2>3. CheckpointSound(monitor, breaks, operation, c)
    BY DEF Inv, SavedSound
  <2>4. CASE c.kind = "training"
    <3>1. phase' = "training" /\ TrainingSound(monitor, operation, c.model, c.train, c.finished, c.active)
      BY <2>1, <2>3, <2>4 DEF CheckpointSound
    <3> QED
      BY <2>2, <3>1, TrainsInv
  <2>5. CASE c.kind # "training"
    <3>1. /\ phase' = "forecasting"
          /\ ForecastSound(monitor, breaks, operation, c.model, c.fit, c.finished, c.active)
      BY <2>1, <2>3, <2>5 DEF CheckpointSound
    <3> QED
      BY <2>2, <3>1, ForecastsInv
  <2> QED
    BY <2>4, <2>5
<1>3. CASE Dies
  <2>1. Stops /\ UNCHANGED <<world, saved, outcome>>
    BY <1>3 DEF Dies
  <2> QED
    BY <2>1, RecordsStay, StopsInv
<1> QED
  BY <1>1, <1>2, <1>3

\* The steps of train_loop.
LEMMA StepTraining ==
    ASSUME Inv, Update \/ Diverges \/ SaveTraining \/ NoRequest \/ Converges \/ Exhausts
    PROVE  Inv'
<1>0. ASSUME phase \in {"training", "updated"}
      PROVE  TrainingSound(monitor, operation, model, train, finished, active)
  BY <1>0 DEF Inv, Trains
<1>1. CASE Update
  <2>1. /\ phase = "training" /\ train.step < MaxSteps /\ train.stale < Patience
        /\ monitor[model + 1] # NonFinite /\ model' = model + 1 /\ phase' = "updated"
        /\ train' = Updated(train, monitor[model + 1], model + 1)
        /\ finished' = finished /\ active' = active /\ UNCHANGED <<world, saved, outcome>>
    BY <1>1 DEF Update
  <2>2. TrainSound(monitor, train) /\ model = train.step /\ train.step \in Nat
    BY <1>0, <2>1, PlanAssumption DEF TrainingSound, TrainSound
  <2>3. monitor \in [1 .. MaxSteps -> Values \cup {NonFinite}]
    BY DEF Inv, WorldTyped
  <2>4. TrainSound(monitor, train') /\ train'.step = model'
    BY <2>1, <2>2, <2>3, UpdateIsSound
  <2>5. TrainingSound(monitor, operation, model', train', finished', active')
    BY <1>0, <2>1, <2>4 DEF TrainingSound
  <2> QED
    BY <2>1, <2>2, <2>4, <2>5, TrainsInv
<1>2. CASE Diverges
  <2>1. Stops /\ UNCHANGED <<world, saved, outcome>>
    BY <1>2 DEF Diverges
  <2> QED
    BY <2>1, RecordsStay, StopsInv
<1>3. CASE SaveTraining
  <2> DEFINE c == Checkpoint("training")
  <2>1. phase = "updated" /\ Save("training")
    BY <1>3 DEF SaveTraining
  <2>2. /\ c.kind = "training" /\ c.model = model /\ c.train = train
        /\ c.finished = finished /\ c.active = active
    BY DEF Checkpoint
  <2> HIDE DEF c
  <2>3. CheckpointSound(monitor, breaks, operation, c)
    BY <1>0, <2>1, <2>2 DEF CheckpointSound, Inv, HasUpdated
  <2> QED
    BY <2>1, <2>3, SaveInv DEF c
<1>4. CASE NoRequest
  <2>1. /\ phase = "updated" /\ phase' = "training"
        /\ UNCHANGED <<world, saved, outcome, model, train, finished, active>>
    BY <1>4 DEF NoRequest, job
  <2> QED
    BY <1>0, <2>1, TrainsInv
<1>5. ASSUME NEW status, FinishTraining(status), phase \in {"training", "updated"},
             train.stale >= Patience \/ train.step = MaxSteps
      PROVE  Inv'
  <2>1. /\ fit' = [FitOf(status, train) EXCEPT !.steps = Len(train.history)]
        /\ model' = train.bestModel /\ phase' = "forecasting"
        /\ UNCHANGED <<world, saved, outcome, finished, active>>
    BY <1>5 DEF FinishTraining, FitOf
  <2>2. /\ operation = "fit-and-forecast" /\ TrainSound(monitor, train)
        /\ finished = <<>> /\ active = Fresh
    BY <1>0, <1>5 DEF TrainingSound
  <2>3. fit' = FitOf(status, train) /\ model' = fit'.model
    <3>1. Len(train.history) = train.step
      BY <2>2 DEF TrainSound
    <3> QED
      BY <2>1, <3>1 DEF FitOf
  <2>4. FitSound(monitor, operation, fit')
    BY <1>5, <2>2, <2>3, EndIsSound
  <2>5. ForecastSound(monitor, breaks, operation, model', fit', finished', active')
    BY <2>1, <2>2, <2>3, <2>4, NothingFinished, FreshIsSound, Plan DEF ForecastSound
  <2> QED
    BY <2>1, <2>5, ForecastsInv
<1>6. CASE Converges
  BY <1>6, <1>5 DEF Converges
<1>7. CASE Exhausts
  BY <1>7, <1>5 DEF Exhausts
<1> QED
  BY <1>1, <1>2, <1>3, <1>4, <1>6, <1>7

\* What the invariant gives a step of a forecast.
LEMMA ForecastInPhase ==
    ASSUME Inv, phase \in {"forecasting", "evaluating"}
    PROVE  /\ ForecastSound(monitor, breaks, operation, model, fit, finished, active)
           /\ model = fit.model /\ FitSound(monitor, operation, fit)
           /\ FinishedSound(breaks, model, finished) /\ Len(finished) < Origins
           /\ Index = Len(finished) + 1 /\ Index \in 1 .. Origins
           /\ ActiveSound(breaks, Index, active)
           /\ \A i \in 1 .. Samples : breaks[<<Index, i>>] \in 0 .. Grid
<1>1. ForecastSound(monitor, breaks, operation, model, fit, finished, active)
  BY DEF Inv, Forecasts
<1>2. /\ model = fit.model /\ FitSound(monitor, operation, fit)
      /\ FinishedSound(breaks, model, finished) /\ Len(finished) < Origins
      /\ ActiveSound(breaks, Len(finished) + 1, active)
  BY <1>1 DEF ForecastSound
<1>3. Len(finished) + 1 \in 1 .. Origins
  BY <1>2, Plan DEF FinishedSound
<1>4. \A i \in 1 .. Samples : breaks[<<Len(finished) + 1, i>>] \in 0 .. Grid
  BY <1>3 DEF Inv, WorldTyped
<1> QED
  BY <1>1, <1>2, <1>3, <1>4 DEF Index

\* A forecast is saved.
LEMMA SaveForecastInv ==
    ASSUME Inv, phase \in {"forecasting", "evaluating"}, Save("forecast")
    PROVE  Inv'
<1> DEFINE c == Checkpoint("forecast")
<1>1. /\ c.kind = "forecast" /\ c.model = fit.model /\ c.fit = fit
      /\ c.finished = finished /\ c.active = active
  BY DEF Checkpoint
<1> HIDE DEF c
<1>2. CheckpointSound(monitor, breaks, operation, c)
  BY <1>1, ForecastInPhase DEF CheckpointSound
<1> QED
  BY <1>2, SaveInv DEF c

\* A step inside the forecast of one origin.
LEMMA ActiveInv ==
    ASSUME Inv, phase = "forecasting", phase' = "forecasting",
           UNCHANGED <<world, saved, outcome, model, fit, finished>>,
           ActiveSound(breaks, Index, active')
    PROVE  Inv'
<1>1. ForecastSound(monitor, breaks, operation, model', fit', finished', active')
  BY ForecastInPhase DEF ForecastSound, Index
<1> QED
  BY <1>1, ForecastsInv

\* The steps of _forecast.
LEMMA StepForecast ==
    ASSUME Inv, SaveForecast \/ OpenChunk \/ Advance \/ CloseChunk \/ Predicted
    PROVE  Inv'
<1>0. phase = "forecasting"
  BY DEF SaveForecast, SavePoint, OpenChunk, Advance, CloseChunk, Predicted, Forecasting
<1>1. CASE SaveForecast
  BY <1>0, <1>1, SaveForecastInv DEF SaveForecast
<1>2. CASE OpenChunk
  <2>1. /\ ~active.open /\ active.first < Samples
        /\ active' = [active EXCEPT !.open = TRUE, !.alive = BatchOf(active)]
        /\ UNCHANGED <<world, saved, outcome, phase, model, fit, finished>>
    BY <1>2 DEF OpenChunk
  <2>2. ActiveSound(breaks, Index, active')
    BY <1>0, <2>1, ForecastInPhase, OpenedIsSound
  <2> QED
    BY <1>0, <2>1, <2>2, ActiveInv
<1>3. CASE Advance
  <2>1. /\ active.open /\ active.step < Grid
        /\ active' = [active EXCEPT !.step = @ + 1,
                                    !.alive = {i \in @ : breaks[<<Index, i>>] # active.step + 1}]
        /\ UNCHANGED <<world, saved, outcome, phase, model, fit, finished>>
    BY <1>3 DEF Advance
  <2>2. ActiveSound(breaks, Index, active')
    <3> DEFINE alive == {i \in active.alive : breaks[<<Index, i>>] # active.step + 1}
    <3>1. \A i : i \in alive <=> i \in active.alive /\ breaks[<<Index, i>>] # active.step + 1
      OBVIOUS
    <3>2. active' = [active EXCEPT !.step = @ + 1, !.alive = alive]
      BY <2>1
    <3>3. active.open /\ active.step < Grid
      BY <2>1
    <3>4. /\ ActiveSound(breaks, Index, active)
          /\ \A i \in 1 .. Samples : breaks[<<Index, i>>] \in 0 .. Grid
      BY <1>0, ForecastInPhase
    <3> HIDE DEF alive
    <3>5. ActiveSound(breaks, Index, [active EXCEPT !.step = @ + 1, !.alive = alive])
      BY ONLY <3>1, <3>3, <3>4, AdvancedIsSound
    <3> QED
      BY <3>2, <3>5
  <2> QED
    BY <1>0, <2>1, <2>2, ActiveInv
<1>4. CASE CloseChunk
  <2>1. /\ active.open /\ active.step = Grid
        /\ active' = [first |-> active.first + Cardinality(BatchOf(active)), step |-> 0,
                      open |-> FALSE, alive |-> {},
                      ids |-> active.ids \o Chosen(active.alive),
                      failed |-> active.failed \o Chosen(BatchOf(active) \ active.alive)]
        /\ UNCHANGED <<world, saved, outcome, phase, model, fit, finished>>
    BY <1>4 DEF CloseChunk
  <2>2. ActiveSound(breaks, Index, active')
    BY <1>0, <2>1, ForecastInPhase, ClosedIsSound
  <2> QED
    BY <1>0, <2>1, <2>2, ActiveInv
<1>5. CASE Predicted
  <2>1. /\ ~active.open /\ active.first = Samples /\ phase' = "evaluating"
        /\ UNCHANGED <<world, saved, outcome, model, fit, finished, active>>
    BY <1>5 DEF Predicted, job
  <2> QED
    BY <1>0, <2>1, ForecastInPhase, ForecastsInv
<1> QED
  BY <1>1, <1>2, <1>3, <1>4, <1>5

\* A whole origin is added to the finished ones.
LEMMA FinishedGrows ==
    ASSUME NEW brk, NEW m, NEW fin, FinishedSound(brk, m, fin), Len(fin) < Origins,
           \A i \in 1 .. Samples : brk[<<Len(fin) + 1, i>>] = 0
    PROVE  /\ FinishedSound(brk, m, Append(fin, Whole(m)))
           /\ Len(Append(fin, Whole(m))) = Len(fin) + 1
<1> DEFINE n == Len(fin)
           w == Whole(m)
<1>1. n \in 0 .. Origins /\ n < Origins /\ fin = [o \in 1 .. n |-> w]
  BY DEF FinishedSound
<1> HIDE DEF n, w
<1>2. fin \in Seq({w})
  BY <1>1, Plan
<1>3. Append(fin, w) = [o \in 1 .. n + 1 |-> w] /\ Len(Append(fin, w)) = n + 1
  <2>1. Len(fin) = n /\ n \in Nat
    BY <1>1, Plan DEF n
  <2> DEFINE s == Append(fin, w)
  <2>2. s \in Seq({w}) /\ Len(s) = n + 1 /\ \A o \in 1 .. n + 1 : s[o] = w
    BY <1>1, <1>2, <2>1
  <2> HIDE DEF s
  <2>3. s = [o \in 1 .. n + 1 |-> w]
    BY <2>1, <2>2
  <2> QED
    BY <2>2, <2>3 DEF s
<1>4. \A o \in 1 .. n + 1, i \in 1 .. Samples : brk[<<o, i>>] = 0
  <2> TAKE o \in 1 .. n + 1, i \in 1 .. Samples
  <2>1. o \in 1 .. n \/ o = n + 1
    BY <1>1, Plan
  <2> QED
    BY <2>1 DEF FinishedSound, n
<1>5. n + 1 \in 0 .. Origins
  BY <1>1, Plan
<1> QED
  BY <1>3, <1>4, <1>5 DEF FinishedSound, n, w

\* Evaluation and publication.
LEMMA StepPublication ==
    ASSUME Inv, SaveCompletion \/ EvaluationFails \/ Evaluated \/ Publish
    PROVE  Inv'
<1>1. CASE SaveCompletion
  BY <1>1, SaveForecastInv DEF SaveCompletion
<1>2. CASE EvaluationFails
  <2>1. Stops /\ UNCHANGED <<world, saved, outcome>>
    BY <1>2 DEF EvaluationFails
  <2> QED
    BY <2>1, RecordsStay, StopsInv
<1>3. CASE Evaluated
  <2>1. /\ phase = "evaluating" /\ active.failed = <<>>
        /\ finished' = Append(finished, [ids |-> active.ids, failed |-> active.failed, model |-> model])
        /\ active' = Fresh
        /\ phase' = IF Index = Origins THEN "publishing" ELSE "forecasting"
        /\ UNCHANGED <<world, saved, outcome, model, fit>>
    BY <1>3 DEF Evaluated
  <2>2. active.first = Samples
    BY <2>1 DEF Inv, Evaluates
  <2>3. /\ active.ids = [k \in 1 .. Samples |-> k]
        /\ \A i \in 1 .. Samples : breaks[<<Len(finished) + 1, i>>] = 0
    BY <2>1, <2>2, ForecastInPhase, WholeForecast
  <2>4. finished' = Append(finished, Whole(model))
    BY <2>1, <2>3 DEF Whole
  <2>5. FinishedSound(breaks, model, finished') /\ Len(finished') = Index /\ Index \in 1 .. Origins
    BY <2>1, <2>3, <2>4, ForecastInPhase, FinishedGrows
  <2>6. model = fit.model /\ FitSound(monitor, operation, fit)
    BY <2>1, ForecastInPhase
  <2>7. CASE Index = Origins
    <3>1. WorldTyped' /\ SavedSound' /\ OutcomeSound'
      BY <2>1, RecordsStay
    <3>2. phase' = "publishing"
      BY <2>1, <2>7
    <3>3. Publishes'
      BY <2>1, <2>5, <2>6, <2>7 DEF Publishes, world
    <3> QED
      BY <3>1, <3>2, <3>3 DEF Inv, Idle, Trains, HasUpdated, Forecasts, Evaluates
  <2>8. CASE Index # Origins
    <3>1. phase' = "forecasting" /\ Len(finished') < Origins
      BY <2>1, <2>5, <2>8, Plan
    <3>2. ForecastSound(monitor, breaks, operation, model', fit', finished', active')
      BY <2>1, <2>5, <2>6, <3>1, FreshIsSound DEF ForecastSound
    <3> QED
      BY <2>1, <3>1, <3>2, ForecastsInv
  <2> QED
    BY <2>7, <2>8
<1>4. CASE Publish
  <2>1. /\ phase = "publishing" /\ phase' = "published"
        /\ outcome' = [steps |-> fit.steps, status |-> fit.status, best |-> fit.best,
                       model |-> fit.model, history |-> fit.history, forecasts |-> finished]
        /\ UNCHANGED <<world, saved>>
    BY <1>4 DEF Publish
  <2>2. /\ FitSound(monitor, operation, fit)
        /\ FinishedSound(breaks, fit.model, finished) /\ Len(finished) = Origins
    BY <2>1 DEF Inv, Publishes
  <2>3. ResultSound(monitor, breaks, operation, outcome')
    BY <2>1, <2>2 DEF ResultSound
  <2>4. WorldTyped' /\ SavedSound' /\ OutcomeSound'
    BY <2>1, <2>3 DEF Inv, WorldTyped, SavedSound, OutcomeSound, world
  <2> QED
    BY <2>1, <2>4 DEF Inv, Idle, Trains, HasUpdated, Forecasts, Evaluates, Publishes
<1> QED
  BY <1>1, <1>2, <1>3, <1>4

\* Every step preserves it.
LEMMA StepInv == ASSUME Inv, [Next]_vars PROVE Inv'
<1>1. CASE UNCHANGED vars
  BY <1>1 DEF vars, world, job, Inv, WorldTyped, Idle, Trains, HasUpdated, Forecasts, Evaluates,
     Publishes, SavedSound, OutcomeSound
<1> QED
  BY <1>1, StepSessions, StepTraining, StepForecast, StepPublication DEF Next

-----------------------------------------------------------------------------
(* Theorems. *)

\* The invariant holds in every reachable state.
LEMMA Invariance == Spec => []Inv
<1>1. Init => Inv
  BY InitInv
<1>2. Inv /\ [Next]_vars => Inv'
  BY StepInv
<1> QED
  BY <1>1, <1>2, PTL DEF Spec

\* However often a job is stopped, saved and continued, and from whichever of its
\* checkpoints, a published result is the one of an uninterrupted run
\* (pirc26_worker, train_loop and _forecast with their resume states).
THEOREM SessionsAreInvisible == Spec => []SameAsOneRun
<1>1. Inv => SameAsOneRun
  BY PublishesOneRun
<1> QED
  BY <1>1, Invariance, PTL

\* What a worker hands over at a save point passes the validators of its owner
\* (validate_saved_job, inspect_training_envelope) and of resumption.
THEOREM NoCheckpointIsRefused == Spec => []SavesAreAccepted
<1>1. Inv => SavesAreAccepted
  BY AcceptsWork
<1> QED
  BY <1>1, Invariance, PTL
=============================================================================
