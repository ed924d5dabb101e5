------------------------- MODULE CampaignRuns_proofs -------------------------
(***************************************************************************)
(* Proofs about CampaignRuns, for any cube, any runners and any providers. *)
(* What makes the folds sound without a lock is the order of the walk: a   *)
(* runner holds a record of every cell before the one it commits, so       *)
(* committed cells are a prefix of the cube (IsPrefix), and the control it *)
(* checks a draft against is that of all successes of the fold (Collected, *)
(* Drafted).                                                               *)
(***************************************************************************)
EXTENDS CampaignRuns, TLAPS

Phases == {"off", "naming", "cell", "computed", "staged"}

TypeInv ==
    /\ cell \in [Cells -> Records \cup {Absent}]
    /\ phase \in [Runners -> Phases]
    /\ records \in [Runners -> Seq(Records)]
    /\ control \in [Runners -> [Folds -> Controls \cup {None}]]
    /\ draft \in [Runners -> Records]

IsPrefix == \A m, n \in Cells : m < n /\ cell[n] # Absent => cell[m] # Absent

\* What a runner collected is on disk, and its controls are those of its successes.
Collected(r) ==
    \A n \in 1 .. Len(records[r]) :
        /\ n \in Cells
        /\ records[r][n] = cell[n]
        /\ cell[n] \in Controls => control[r][FoldOf[n]] = cell[n]

Drafted(r) ==
    phase[r] \in {"computed", "staged"} =>
        /\ This(r) \in Cells
        /\ draft[r] \in Controls => Known(r) = draft[r]

FoldInv ==
    /\ TypeInv
    /\ IsPrefix
    /\ \A r \in Runners : Collected(r) /\ Drafted(r)
    /\ OneControlPerFold

LEMMA InitFold == Init => FoldInv
  <1> SUFFICES ASSUME Init PROVE FoldInv
    OBVIOUS
  <1> USE CampaignAssumption DEF Init
  <1>1. TypeInv
    BY DEF TypeInv, Phases, Records
  <1>2. IsPrefix /\ OneControlPerFold
    BY DEF IsPrefix, OneControlPerFold, Records
  <1>3. ASSUME NEW r \in Runners PROVE Collected(r) /\ Drafted(r)
    BY DEF Collected, Drafted
  <1> QED
    BY <1>1, <1>2, <1>3 DEF FoldInv

\* An action of r that leaves the cells alone keeps the invariant if it keeps
\* the types and what is said of r.
LEMMA Local ==
    ASSUME FoldInv, NEW r \in Runners, TypeInv', Collected(r)', Drafted(r)',
           UNCHANGED cell,
           \A q \in Runners \ {r} :
               /\ phase'[q] = phase[q] /\ records'[q] = records[q]
               /\ control'[q] = control[q] /\ draft'[q] = draft[q]
    PROVE  FoldInv'
  <1>1. IsPrefix' /\ OneControlPerFold'
    BY DEF FoldInv, IsPrefix, OneControlPerFold
  <1>2. ASSUME NEW q \in Runners \ {r} PROVE Collected(q)' /\ Drafted(q)'
    <2>1. Collected(q) /\ Drafted(q)
      BY DEF FoldInv
    <2> QED
      BY <2>1 DEF Collected, Drafted, This, Known
  <1> QED
    BY <1>1, <1>2 DEF FoldInv

\* setdefault keeps the controls of the successes a runner collected.
LEMMA NotedKeeps ==
    ASSUME FoldInv, NEW r \in Runners, NEW c \in Controls, This(r) \in Cells
    PROVE  /\ Noted(r, c) \in [Runners -> [Folds -> Controls \cup {None}]]
           /\ Known(r) \in {None, c} => Noted(r, c)[r][FoldOf[This(r)]] = c
           /\ \A n \in 1 .. Len(records[r]) :
                cell[n] \in Controls => Noted(r, c)[r][FoldOf[n]] = cell[n]
           /\ \A q \in Runners \ {r} : Noted(r, c)[q] = control[q]
  <1> USE CampaignAssumption DEF FoldInv, TypeInv, Noted, Known
  <1>1. FoldOf[This(r)] \in Folds
    OBVIOUS
  <1>2. \A n \in 1 .. Len(records[r]) :
          n \in Cells /\ (cell[n] \in Controls => control[r][FoldOf[n]] = cell[n])
    BY DEF Collected
  <1> QED
    BY <1>1, <1>2

LEMMA StepFold == FoldInv /\ [Next]_vars => FoldInv'
  <1> SUFFICES ASSUME FoldInv, [Next]_vars PROVE FoldInv'
    OBVIOUS
  <1> USE CampaignAssumption
  <1>0. CASE UNCHANGED vars
    BY <1>0 DEF FoldInv, TypeInv, IsPrefix, OneControlPerFold, Collected, Drafted, This, Known,
                vars, runnerVars
  <1>1. CASE Select
    BY <1>1 DEF Select, FoldInv, TypeInv, IsPrefix, OneControlPerFold, Collected, Drafted, This,
                Known, runnerVars
  <1>2. ASSUME NEW r \in Runners, Start(r) PROVE FoldInv'
    <2> USE <1>2 DEF Start, Go, At
    <2>1. TypeInv'
      BY DEF FoldInv, TypeInv, Phases
    <2>2. Collected(r)' /\ Drafted(r)'
      BY DEF FoldInv, TypeInv, Collected, Drafted
    <2> QED
      BY <2>1, <2>2, Local DEF FoldInv, TypeInv
  <1>3. ASSUME NEW r \in Runners, Name(r) \/ Stage(r) \/ Summarize(r) \/ Stops(r) PROVE FoldInv'
    <2> USE <1>3 DEF Name, Stage, Summarize, Stops, Go, At
    <2>1. TypeInv'
      BY DEF FoldInv, TypeInv, Phases
    <2>2. Collected(r) /\ Drafted(r)
      BY DEF FoldInv
    <2>3. Collected(r)' /\ Drafted(r)'
      BY <2>2 DEF FoldInv, TypeInv, Collected, Drafted, This, Known
    <2> QED
      BY <2>1, <2>3, Local DEF FoldInv, TypeInv
  <1>4. ASSUME NEW r \in Runners, Reuse(r) PROVE FoldInv'
    <2> DEFINE n == This(r)  record == Found(r)
    <2>1. /\ phase[r] = "cell" /\ n \in Cells /\ record # Absent
          /\ record # "failed" => Known(r) \in {None, record}
          /\ records' = [records EXCEPT ![r] = Append(@, record)]
          /\ control' = IF record = "failed" THEN control ELSE Noted(r, record)
          /\ UNCHANGED <<cell, phase, draft>>
      BY <1>4 DEF Reuse, At, Pending
    <2>2. record \in Records /\ record = cell[n] /\ n = Len(records[r]) + 1
      BY <2>1 DEF FoldInv, TypeInv, Found, This
    <2>3. Collected(r)
      BY DEF FoldInv
    <2>4. /\ records'[r] = Append(records[r], record)
          /\ Len(records'[r]) = n
          /\ records'[r][n] = record
          /\ \A j \in 1 .. Len(records[r]) : records'[r][j] = records[r][j]
      BY <2>1, <2>2 DEF FoldInv, TypeInv
    <2>5. /\ control' \in [Runners -> [Folds -> Controls \cup {None}]]
          /\ \A j \in 1 .. Len(records[r]) : cell[j] \in Controls => control'[r][FoldOf[j]] = cell[j]
          /\ cell[n] \in Controls => control'[r][FoldOf[n]] = cell[n]
          /\ \A q \in Runners \ {r} : control'[q] = control[q]
      <3>1. CASE record = "failed"
        BY <2>1, <2>2, <2>3, <3>1 DEF FoldInv, TypeInv, Collected
      <3>2. CASE record # "failed"
        BY <2>1, <2>2, <3>2, NotedKeeps DEF Records
      <3> QED
        BY <3>1, <3>2
    <2>6. TypeInv'
      BY <2>1, <2>2, <2>5 DEF FoldInv, TypeInv
    <2>7. Collected(r)'
      <3> SUFFICES ASSUME NEW j \in 1 .. Len(records'[r])
                   PROVE  /\ j \in Cells /\ records'[r][j] = cell[j]
                          /\ cell[j] \in Controls => control'[r][FoldOf[j]] = cell[j]
        BY <2>1 DEF Collected
      <3>1. CASE j = n
        BY <2>1, <2>2, <2>4, <2>5, <3>1
      <3>2. CASE j # n
        <4>1. j \in 1 .. Len(records[r])
          BY <2>2, <2>4, <3>2 DEF FoldInv, TypeInv
        <4> QED
          BY <2>3, <2>4, <2>5, <4>1 DEF Collected
      <3> QED
        BY <3>1, <3>2
    <2>8. Drafted(r)'
      BY <2>1 DEF Drafted
    <2> QED
      BY <2>1, <2>5, <2>6, <2>7, <2>8, Local DEF FoldInv, TypeInv
  <1>5. ASSUME NEW r \in Runners, Compute(r) PROVE FoldInv'
    <2> DEFINE n == This(r)
    <2>1. /\ n \in Cells /\ UNCHANGED <<cell, records>>
          /\ phase' = [phase EXCEPT ![r] = "computed"]
      BY <1>5 DEF Compute, Pending, Go
    <2>2. Collected(r)
      BY DEF FoldInv
    <2>3. /\ draft' \in [Runners -> Records]
          /\ control' \in [Runners -> [Folds -> Controls \cup {None}]]
          /\ \A j \in 1 .. Len(records[r]) : cell[j] \in Controls => control'[r][FoldOf[j]] = cell[j]
          /\ draft'[r] \in Controls => control'[r][FoldOf[n]] = draft'[r]
          /\ \A q \in Runners \ {r} : control'[q] = control[q] /\ draft'[q] = draft[q]
      <3>1. CASE draft' = [draft EXCEPT ![r] = "failed"] /\ UNCHANGED control
        BY <2>2, <3>1 DEF FoldInv, TypeInv, Collected, Records
      <3>2. CASE \E c \in Offers[r][n] :
                    /\ control' = Noted(r, c)
                    /\ \E record \in {"failed", c} :
                          /\ record = c => Known(r) \in {None, c}
                          /\ draft' = [draft EXCEPT ![r] = record]
        <4>0. PICK c \in Offers[r][n] :
                 /\ control' = Noted(r, c)
                 /\ \E record \in {"failed", c} :
                       /\ record = c => Known(r) \in {None, c}
                       /\ draft' = [draft EXCEPT ![r] = record]
          BY <3>2
        <4>1. PICK record \in {"failed", c} :
                 /\ record = c => Known(r) \in {None, c}
                 /\ draft' = [draft EXCEPT ![r] = record]
          BY <4>0
        <4>2. c \in Controls
          BY <2>1
        <4>3. draft' \in [Runners -> Records] /\ draft'[r] = record
              /\ \A q \in Runners \ {r} : draft'[q] = draft[q]
          BY <4>1, <4>2 DEF FoldInv, TypeInv, Records
        <4>4. /\ control' \in [Runners -> [Folds -> Controls \cup {None}]]
              /\ \A j \in 1 .. Len(records[r]) :
                    cell[j] \in Controls => control'[r][FoldOf[j]] = cell[j]
              /\ \A q \in Runners \ {r} : control'[q] = control[q]
          BY <2>1, <2>2, <4>0, <4>1, <4>2, NotedKeeps
        <4>5. record \in Controls => control'[r][FoldOf[n]] = record
          BY <2>1, <2>2, <4>0, <4>1, <4>2, NotedKeeps
        <4> QED
          BY <4>3, <4>4, <4>5
      <3> QED
        BY <1>5, <3>1, <3>2 DEF Compute
    <2>4. TypeInv'
      BY <2>1, <2>3 DEF FoldInv, TypeInv, Phases
    <2>5. Collected(r)' /\ Drafted(r)'
      BY <2>1, <2>2, <2>3 DEF FoldInv, TypeInv, Collected, Drafted, This, Known
    <2> QED
      BY <2>1, <2>3, <2>4, <2>5, Local DEF FoldInv, TypeInv
  <1>6. ASSUME NEW r \in Runners, Replace(r) PROVE FoldInv'
    <2> DEFINE n == This(r)
    <2>1. /\ phase[r] = "staged" /\ cell[n] = Absent
          /\ cell' = [cell EXCEPT ![n] = draft[r]]
          /\ records' = [records EXCEPT ![r] = Append(@, draft[r])]
          /\ phase' = [phase EXCEPT ![r] = "cell"]
          /\ UNCHANGED <<control, draft>>
      BY <1>6 DEF Replace, Placed, At, Go, Found
    <2>2. /\ n \in Cells /\ n = Len(records[r]) + 1 /\ draft[r] \in Records
          /\ draft[r] \in Controls => control[r][FoldOf[n]] = draft[r]
      BY <2>1 DEF FoldInv, TypeInv, Drafted, This, Known
    <2>3. TypeInv'
      BY <2>1, <2>2 DEF FoldInv, TypeInv, Phases
    <2>4. cell'[n] = draft[r] /\ \A m \in Cells : m # n => cell'[m] = cell[m]
      BY <2>1, <2>2 DEF FoldInv, TypeInv
    \* What is on disk, and only that, was collected before n.
    <2>5. \A m \in Cells : m < n <=> cell[m] # Absent
      <3>1. ASSUME NEW m \in Cells, m < n PROVE cell[m] # Absent
        <4>1. m \in 1 .. Len(records[r])
          BY <2>2, <3>1 DEF Cells, FoldInv, TypeInv
        <4>2. records[r][m] \in Records /\ records[r][m] = cell[m]
          BY <4>1 DEF FoldInv, TypeInv, Collected
        <4> QED
          BY <4>2
      <3>2. ASSUME NEW m \in Cells, cell[m] # Absent PROVE m < n
        <4>1. m # n /\ ~(n < m)
          BY <2>1, <2>2, <3>2 DEF FoldInv, IsPrefix
        <4>2. m \in Int /\ n \in Int
          BY <2>2 DEF Cells
        <4> HIDE DEF n
        <4> QED
          BY <4>1, <4>2
      <3> QED
        BY <3>1, <3>2
    <2>6. IsPrefix'
      BY <2>2, <2>4, <2>5 DEF IsPrefix, Cells
    <2>7. OneControlPerFold'
      <3>1. ASSUME NEW m \in Cells, cell[m] \in Controls, FoldOf[m] = FoldOf[n], draft[r] \in Controls
            PROVE  cell[m] = draft[r]
        <4>1. m \in 1 .. Len(records[r])
          BY <2>2, <2>5, <3>1 DEF Cells, Records, FoldInv, TypeInv
        <4>2. control[r][FoldOf[m]] = cell[m]
          BY <3>1, <4>1 DEF FoldInv, Collected
        <4> QED
          BY <2>2, <3>1, <4>2
      <3> QED
        BY <2>4, <3>1 DEF OneControlPerFold, FoldInv
    <2>8. ASSUME NEW q \in Runners PROVE Collected(q)' /\ Drafted(q)'
      <3>1. Collected(q) /\ Drafted(q)
        BY DEF FoldInv
      <3>2. CASE q # r
        <4>1. records'[q] = records[q] /\ phase'[q] = phase[q]
          BY <2>1, <3>2 DEF FoldInv, TypeInv
        <4>2. \A m \in 1 .. Len(records[q]) : m \in Cells /\ m # n /\ records[q][m] = cell[m]
          BY <2>1, <3>1 DEF FoldInv, TypeInv, Collected
        <4> QED
          BY <2>1, <2>4, <3>1, <4>1, <4>2 DEF Collected, Drafted, This, Known
      <3>3. CASE q = r
        <4>1. /\ Len(records'[r]) = n /\ records'[r][n] = draft[r]
              /\ \A m \in 1 .. Len(records[r]) : records'[r][m] = records[r][m]
          BY <2>1, <2>2 DEF FoldInv, TypeInv
        <4>2. \A m \in 1 .. n : m = n \/ (m \in 1 .. Len(records[r]) /\ m # n)
          BY <2>2 DEF FoldInv, TypeInv
        <4>3. Collected(r)'
          <5> SUFFICES ASSUME NEW m \in 1 .. n
                       PROVE  /\ m \in Cells /\ records'[r][m] = cell'[m]
                              /\ cell'[m] \in Controls => control[r][FoldOf[m]] = cell'[m]
            BY <2>1, <4>1 DEF Collected
          <5>1. CASE m = n
            BY <2>2, <2>4, <4>1, <5>1
          <5>2. CASE m \in 1 .. Len(records[r]) /\ m # n
            BY <2>4, <3>1, <3>3, <4>1, <5>2 DEF Collected
          <5> QED
            BY <4>2, <5>1, <5>2
        <4>4. Drafted(r)'
          BY <2>1 DEF Drafted, FoldInv, TypeInv
        <4> QED
          BY <3>3, <4>3, <4>4
      <3> QED
        BY <3>2, <3>3
    <2> QED
      BY <2>3, <2>6, <2>7, <2>8 DEF FoldInv
  <1> QED
    BY <1>0, <1>1, <1>2, <1>3, <1>4, <1>5, <1>6 DEF Next

\* Whoever computes them and whenever, the successes of a fold rest on one control.
THEOREM FoldsRestOnOneControl == Spec => []OneControlPerFold
  <1>1. FoldInv => OneControlPerFold
    BY DEF FoldInv
  <1> QED
    BY <1>1, InitFold, StepFold, PTL DEF Spec

-----------------------------------------------------------------------------
(* Summary and selection are written over a full cube, whose cells stay. *)

Full == \A n \in Cells : cell[n] # Absent

StandsInv ==
    /\ summary # None => Full /\ summary = cell
    /\ selection # None => Full /\ selection = Choice

\* Only Replace changes a cell, and only one that is free.
LEMMA FullStays == FoldInv /\ Full /\ [Next]_vars => UNCHANGED cell
  <1> SUFFICES ASSUME FoldInv, Full, [Next]_vars PROVE UNCHANGED cell
    OBVIOUS
  <1>1. ASSUME NEW r \in Runners, Replace(r) PROVE FALSE
    BY <1>1 DEF Replace, At, Found, FoldInv, Drafted, Full
  <1> QED
    BY <1>1 DEF Next, vars, runnerVars, Select, Start, Name, Reuse, Compute, Stage, Summarize, Stops

LEMMA SameChoice == ASSUME UNCHANGED cell PROVE Choice' = Choice
  BY DEF Choice, Eligible, Complete

\* A runner that collected every cell holds what is on disk.
LEMMA AllCollected ==
    ASSUME FoldInv, NEW r \in Runners, ~Pending(r)
    PROVE  Full /\ records[r] = cell
  <1>1. records[r] \in Seq(Records) /\ Len(records[r]) \in Nat
    BY DEF FoldInv, TypeInv
  <1>2. \A n \in 1 .. Len(records[r]) : n \in Cells /\ records[r][n] = cell[n]
    BY DEF FoldInv, Collected
  <1>3. Len(records[r]) = Size
    <2>1. Len(records[r]) <= Size
      <3>1. CASE Len(records[r]) = 0
        BY <3>1, CampaignAssumption
      <3>2. CASE Len(records[r]) # 0
        <4>1. Len(records[r]) \in 1 .. Len(records[r])
          BY <1>1, <3>2
        <4>2. Len(records[r]) \in 1 .. Size
          BY <1>2, <4>1 DEF Cells
        <4> QED
          BY <4>2, CampaignAssumption
      <3> QED
        BY <3>1, <3>2
    <2>2. ~(Len(records[r]) < Size)
      BY <1>1, CampaignAssumption DEF Pending, This, Cells
    <2> QED
      BY <1>1, <2>1, <2>2, CampaignAssumption
  <1>4. /\ records[r] = [n \in 1 .. Len(records[r]) |-> records[r][n]]
        /\ cell = [n \in 1 .. Size |-> cell[n]]
    BY <1>1 DEF Cells, FoldInv, TypeInv
  <1>5. records[r] = cell
    BY <1>2, <1>3, <1>4
  <1>6. Full
    BY <1>1, <1>2, <1>3, CampaignAssumption DEF Full, Cells
  <1> QED
    BY <1>5, <1>6

LEMMA StepStands == FoldInv /\ StandsInv /\ [Next]_vars => StandsInv'
  <1> SUFFICES ASSUME FoldInv, StandsInv, [Next]_vars PROVE StandsInv'
    OBVIOUS
  <1>1. ASSUME Full PROVE Full' /\ Choice' = Choice /\ cell' = cell
    BY <1>1, FullStays, SameChoice DEF Full
  <1>2. summary' # None => Full' /\ summary' = cell'
    <2>1. ASSUME NEW r \in Runners, Summarize(r) PROVE Full' /\ summary' = cell'
      BY <1>1, <2>1, AllCollected DEF Summarize
    <2>2. CASE summary' = summary
      BY <1>1, <2>2 DEF StandsInv
    <2> QED
      BY <2>1, <2>2
      DEF Next, vars, runnerVars, Select, Start, Name, Reuse, Compute, Stage, Replace, Placed, Stops
  <1>3. selection' # None => Full' /\ selection' = Choice'
    <2>1. CASE Select
      BY <1>1, <2>1 DEF Select, Loads, Full
    <2>2. CASE selection' = selection
      BY <1>1, <2>2 DEF StandsInv
    <2> QED
      BY <2>1, <2>2
      DEF Next, vars, runnerVars, Start, Name, Reuse, Compute, Stage, Replace, Placed, Summarize, Stops
  <1> QED
    BY <1>2, <1>3 DEF StandsInv

\* What a selection was made of, and what a summary lists, never changes.
THEOREM WhatWasSelectedStands == Spec => []SelectionStands
  <1>1. Init => StandsInv
    BY DEF Init, StandsInv
  <1>2. StandsInv => SelectionStands
    BY DEF StandsInv, SelectionStands
  <1> QED
    BY <1>1, <1>2, InitFold, StepFold, StepStands, PTL DEF Spec

-----------------------------------------------------------------------------
(* The cells implement a store of runs. *)

Stagings == [r \in Runners |-> Staging(r)]

LEMMA InitStore == Init => S!Init
  BY DEF Init, S!Init, Staging, At

\* A step of r changes at most the staging directory of r.
LEMMA OtherStagings ==
    ASSUME NEW r \in Runners,
           \A q \in Runners \ {r} :
               phase'[q] = phase[q] /\ records'[q] = records[q] /\ draft'[q] = draft[q]
    PROVE  Stagings' = [Stagings EXCEPT ![r] = Staging(r)']
  BY DEF Stagings, Staging, At, This

LEMMA StepStore == FoldInv /\ [Next]_vars => [S!Next]_(S!vars)
  <1> SUFFICES ASSUME FoldInv, [Next]_vars PROVE [S!Next]_(S!vars)
    OBVIOUS
  <1>1. CASE UNCHANGED vars \/ Select
    BY <1>1 DEF vars, runnerVars, Select, S!vars, Staging, At, This
  <1>2. ASSUME NEW r \in Runners,
               Start(r) \/ Name(r) \/ Reuse(r) \/ Compute(r) \/ Summarize(r)
        PROVE  [S!Next]_(S!vars)
    <2>1. /\ Staging(r)' = Staging(r) /\ UNCHANGED cell
          /\ \A q \in Runners \ {r} :
                phase'[q] = phase[q] /\ records'[q] = records[q] /\ draft'[q] = draft[q]
      BY <1>2 DEF FoldInv, TypeInv, Start, Name, Reuse, Compute, Summarize, Staging, At, Go
    <2> QED
      BY <2>1, OtherStagings DEF S!vars, Stagings
  <1>3. ASSUME NEW r \in Runners, Stage(r) PROVE S!Next
    <2>1. /\ Staging(r) = Absent /\ cell[This(r)] = Absent /\ UNCHANGED cell
          /\ Staging(r)' = [id |-> This(r), record |-> draft[r]]
          /\ This(r) \in Cells /\ draft[r] \in Records
          /\ \A q \in Runners \ {r} :
                phase'[q] = phase[q] /\ records'[q] = records[q] /\ draft'[q] = draft[q]
      BY <1>3 DEF FoldInv, TypeInv, Drafted, Stage, Staging, At, Go, Found, This
    <2>2. S!Stage(r, This(r), draft[r])
      BY <2>1, OtherStagings DEF S!Stage, Stagings
    <2> QED
      BY <2>1, <2>2 DEF S!Next
  <1>4. ASSUME NEW r \in Runners, Replace(r) PROVE S!Next
    <2>1. /\ Staging(r) = [id |-> This(r), record |-> draft[r]]
          /\ This(r) \in Cells /\ draft[r] \in Records
          /\ cell[This(r)] = Absent /\ cell' = [cell EXCEPT ![This(r)] = draft[r]]
          /\ Staging(r)' = Absent
          /\ \A q \in Runners \ {r} :
                phase'[q] = phase[q] /\ records'[q] = records[q] /\ draft'[q] = draft[q]
      BY <1>4 DEF FoldInv, TypeInv, Drafted, Replace, Placed, Staging, At, Go, Found, This
    <2>2. Staging(r) # Absent
      BY <2>1, CampaignAssumption
    <2>3. S!Replace(r)
      <3>1. Stagings[r] = Staging(r) /\ Stagings' = [Stagings EXCEPT ![r] = Absent]
        BY <2>1, OtherStagings DEF Stagings
      <3>2. /\ Stagings[r] # Absent /\ cell[Stagings[r].id] = Absent
            /\ cell' = [cell EXCEPT ![Stagings[r].id] = Stagings[r].record]
        BY <2>1, <2>2, <3>1
      <3> QED
        BY <3>1, <3>2, Zenon DEF S!Replace, Stagings
    <2> QED
      BY <2>3 DEF S!Next
  <1>5. ASSUME NEW r \in Runners, Stops(r) PROVE S!Next
    <2>1. /\ Staging(r)' = Absent /\ UNCHANGED cell
          /\ \A q \in Runners \ {r} :
                phase'[q] = phase[q] /\ records'[q] = records[q] /\ draft'[q] = draft[q]
      BY <1>5 DEF FoldInv, TypeInv, Stops, Staging, At, Go
    <2>2. S!Abandon(r)
      BY <2>1, OtherStagings DEF S!Abandon, Stagings
    <2> QED
      BY <2>2 DEF S!Next
  <1> QED
    BY <1>1, <1>2, <1>3, <1>4, <1>5 DEF Next

\* Cells appear whole, under a free id, and stay: what AtomicRunStore promises.
THEOREM CellsAreARunStore == Spec => ImplementsRunStore
  BY InitFold, StepFold, InitStore, StepStore, PTL DEF Spec, ImplementsRunStore, S!Spec
=============================================================================
