----------------------- MODULE CheckpointExchange_proofs -----------------------
(* Proofs about CheckpointExchange, for any number of attempts, steps and      *)
(* continuations.                                                              *)
EXTENDS CheckpointExchange, TLAPS

\* Attempts are registered one after the other: the latest may be live, those
\* before it have ended.
Order ==
    /\ \A a \in Attempts : a > n => state[a] = "ABSENT"
    /\ \A a \in Attempts : a < n => Terminal(a)
    /\ state[n] # "ABSENT"
    /\ state[n] = "REGISTERED" =>
          pc = "idle" /\ response = NoFrame /\ ~ack /\ worker = "none" /\ code = "none"
    /\ pc \notin {"idle", "dead"} => state[n] = "RUNNING"

\* A tree that still runs holds its reservation, and if its attempt has ended,
\* it holds the arm closed.
Contained ==
    /\ running \subseteq unsettled /\ unsettled \subseteq 1 .. n
    /\ \A a \in running : Terminal(a) => Closed
    /\ \A a \in running : state[a] # "REGISTERED"
    /\ pc \in {"settling", "ending"} => n \notin running
    /\ OneWorkerOfLineage

\* A response is written once and freezes the method of its worker.
Frozen ==
    /\ response # NoFrame => response = step[n] /\ worker # "working"
    /\ \A i \in DOMAIN journal : journal[i].kind = "CHECKPOINT" =>
          /\ journal[i].attempt \in 1 .. n
          /\ journal[i].step = step[journal[i].attempt]
          /\ journal[i].attempt = n => response # NoFrame
    /\ \A a \in Attempts : parent[a] # 0 => parent[a] < a
    /\ NothingRepeated

Noted == \E i \in DOMAIN journal : journal[i] = Event("CHECKPOINT", n, response)
Durable ==
    \E i, j \in DOMAIN journal :
        /\ i < j
        /\ journal[i] = Event("CHECKPOINT", n, response)
        /\ journal[j] = Event("CHECKPOINT_SAVED", n, response)
        /\ ~ClosedAt(j)

\* What holds inside the checkpoint scope, which owns the writer lock.
Scoped ==
    /\ pc \in {"handling", "stored", "noted", "recorded"} => ~Closed
    /\ pc = "scope" /\ ~stop => ~Closed
    /\ pc \in {"handling", "stored", "noted", "recorded", "acking"} => response # NoFrame
    /\ pc = "noted" => Noted
    /\ pc \in {"recorded", "acking"} => Durable
    /\ ack => Durable /\ response # NoFrame

\* What the verdict of a session rests on.
Judged ==
    /\ n \in running \/ worker \in {"working", "waiting", "released"} => code = "none"
    /\ seen = "saved" => code = "saved"
    /\ saved => ack
    /\ pc \in {"idle", "dead"} => ~saved /\ seen = "none"
    /\ pc = "judging" => n \notin running

\* The types the rest is about.
Shape ==
    /\ journal \in Seq(Events)
    /\ n \in Attempts
    /\ state \in [Attempts -> Final \cup {"ABSENT", "REGISTERED", "RUNNING"}]
    /\ unsettled \subseteq Attempts /\ running \subseteq Attempts
    /\ step \in [Attempts -> 0 .. TotalSteps]
    /\ parent \in [Attempts -> Attempts \cup {0}]
    /\ response \in 0 .. TotalSteps \cup {NoFrame}
    /\ outcome \in Final

Inv == Shape /\ Order /\ Contained /\ Frozen /\ Scoped /\ Judged

-----------------------------------------------------------------------------
LEMMA AppendEvent ==
    ASSUME journal \in Seq(Events), NEW e \in Events, journal' = Append(journal, e)
    PROVE  /\ journal' \in Seq(Events)
           /\ Len(journal') = Len(journal) + 1
           /\ Len(journal) \in Nat /\ DOMAIN journal = 1 .. Len(journal)
           /\ DOMAIN journal' = 1 .. Len(journal')
           /\ \A i \in DOMAIN journal : i \in DOMAIN journal' /\ journal'[i] = journal[i]
           /\ Len(journal) + 1 \in DOMAIN journal' /\ journal'[Len(journal) + 1] = e
           /\ \A i \in DOMAIN journal' : i \in DOMAIN journal \/ journal'[i] = e
OBVIOUS

\* What was open or closed at an event stays so when events follow.
LEMMA ClosedAtStays ==
    ASSUME journal \in Seq(Events), NEW e \in Events, journal' = Append(journal, e),
           NEW k \in DOMAIN journal
    PROVE  ClosedAt(k)' <=> ClosedAt(k)
<1>1. \A i \in 1 .. k : i \in DOMAIN journal /\ journal'[i] = journal[i]
    BY AppendEvent
<1>2. \A i \in 1 .. k : \A j \in i + 1 .. k : j \in 1 .. k
    BY AppendEvent
<1> QED
    BY <1>1, <1>2 DEF ClosedAt

\* Only a continuation opens, and only a closure closes.
LEMMA OpenStays ==
    ASSUME journal \in Seq(Events), NEW e \in Events, journal' = Append(journal, e)
    PROVE  /\ e.kind # "ARM_CONTINUATION" /\ Closed => Closed'
           /\ e.kind # "ARM_CLOSED" /\ ~Closed => ~Closed'
           /\ e.kind = "ARM_CLOSED" => Closed'
<1> DEFINE L == Len(journal)
<1>1. /\ L \in Nat /\ Len(journal') = L + 1
      /\ \A i \in 1 .. L : journal'[i] = journal[i]
      /\ journal'[L + 1] = e
    BY AppendEvent
<1>2. ASSUME e.kind # "ARM_CONTINUATION", Closed PROVE Closed'
  <2>1. PICK i \in 1 .. L : /\ journal[i].kind = "ARM_CLOSED"
                            /\ \A j \in i + 1 .. L : journal[j].kind # "ARM_CONTINUATION"
      BY <1>2 DEF Closed, ClosedAt
  <2>2. \A j \in i + 1 .. L + 1 : journal'[j].kind # "ARM_CONTINUATION"
      BY <1>1, <1>2, <2>1
  <2>3. i \in 1 .. L + 1 /\ journal'[i].kind = "ARM_CLOSED"
      BY <1>1, <2>1
  <2> QED
      BY <1>1, <2>2, <2>3 DEF Closed, ClosedAt
<1>3. ASSUME e.kind # "ARM_CLOSED", ~Closed PROVE ~Closed'
  <2>1. SUFFICES ASSUME NEW i \in 1 .. L + 1, journal'[i].kind = "ARM_CLOSED",
                        \A j \in i + 1 .. L + 1 : journal'[j].kind # "ARM_CONTINUATION"
                 PROVE FALSE
      BY <1>1 DEF Closed, ClosedAt
  <2>2. i \in 1 .. L /\ journal[i].kind = "ARM_CLOSED"
      BY <1>1, <1>3, <2>1
  <2>3. \A j \in i + 1 .. L : journal[j].kind # "ARM_CONTINUATION"
      BY <1>1, <2>1, <2>2
  <2> QED
      BY <1>3, <2>2, <2>3 DEF Closed, ClosedAt
<1>4. ASSUME e.kind = "ARM_CLOSED" PROVE Closed'
  <2>1. L + 1 \in 1 .. L + 1 /\ journal'[L + 1].kind = "ARM_CLOSED"
      BY <1>1, <1>4
  <2>2. \A j \in (L + 1) + 1 .. L + 1 : journal'[j].kind # "ARM_CONTINUATION"
      BY <1>1
  <2> QED
      BY <1>1, <2>1, <2>2 DEF Closed, ClosedAt
<1> QED
    BY <1>2, <1>3, <1>4

\* Closing leaves the journal as it is, or adds a closure to it.
LEMMA ClosingCloses ==
    ASSUME Shape, journal' = Closing
    PROVE  /\ Closed'
           /\ journal' = journal \/ journal' = Append(journal, Event("ARM_CLOSED", 0, 0))
           /\ Event("ARM_CLOSED", 0, 0) \in Events
<1>1. Event("ARM_CLOSED", 0, 0) \in Events
    BY BoundsAssumption DEF Event, Events
<1>2. Event("ARM_CLOSED", 0, 0).kind = "ARM_CLOSED"
    BY DEF Event
<1>3. CASE Closed
    BY <1>1, <1>3 DEF Closing, Closed, ClosedAt
<1>4. CASE ~Closed
    BY <1>1, <1>2, <1>4, OpenStays DEF Closing, Shape
<1> QED
    BY <1>3, <1>4

LEMMA InitInv == Init => Inv
<1> SUFFICES ASSUME Init PROVE Inv
    OBVIOUS
<1> USE BoundsAssumption DEF Init, NoFrame, Attempts
<1>1. Shape
    BY DEF Shape, Final
<1>2. Order /\ Contained /\ Scoped /\ Judged
    BY DEF Order, Contained, Scoped, Judged, Terminal, Final, OneWorkerOfLineage
<1>3. Frozen
    BY DEF Frozen, NothingRepeated
<1> QED
    BY <1>1, <1>2, <1>3 DEF Inv

-----------------------------------------------------------------------------
(* Shape. *)

LEMMA EventsAreTyped ==
    ASSUME NEW a \in Attempts, NEW k \in 0 .. TotalSteps,
           NEW kind \in {"CHECKPOINT", "CHECKPOINT_SAVED"}
    PROVE  /\ Event(kind, a, k) \in Events
           /\ Event("ARM_CLOSED", 0, 0) \in Events /\ Event("ARM_CONTINUATION", 0, 0) \in Events
BY BoundsAssumption DEF Event, Events

LEMMA ShapeStep == Inv /\ [Next]_vars => Shape'
<1> SUFFICES ASSUME Inv, [Next]_vars PROVE Shape'
    OBVIOUS
<1> USE BoundsAssumption DEF Shape, lineage, owner, frames, process
<1>0. Shape /\ Closing \in Seq(Events) /\ Append(journal, Event("ARM_CONTINUATION", 0, 0)) \in Seq(Events)
  <2>1. Event("ARM_CLOSED", 0, 0) \in Events /\ Event("ARM_CONTINUATION", 0, 0) \in Events
      BY DEF Event, Events
  <2>2. Shape
      BY DEF Inv
  <2> QED
      BY <2>1, <2>2 DEF Closing
<1> HIDE DEF Closing
<1>1. CASE UNCHANGED vars \/ Tick \/ TimerFires \/ TimerWrites \/ WorkerReadsAck
    BY <1>0, <1>1 DEF vars, Tick, TimerFires, TimerWrites, WorkerReadsAck
<1>2. CASE WorkerSteps \/ WorkerSaves
  <2>1. step[n] \in 0 .. TotalSteps /\ (step[n] < TotalSteps => step[n] + 1 \in 0 .. TotalSteps)
      BY <1>0
  <2>2. CASE WorkerSteps
      BY <1>0, <2>1, <2>2 DEF WorkerSteps
  <2>3. CASE WorkerSaves
      BY <1>0, <2>1, <2>3 DEF WorkerSaves
  <2> QED
      BY <1>2, <2>2, <2>3
<1>3. CASE WorkerGivesUp \/ WorkerExits \/ Fuse \/ (\E a \in Attempts : StrayEnds(a))
    BY <1>0, <1>3 DEF WorkerGivesUp, WorkerExits, Fuse, StrayEnds, Exit
<1>4. CASE LeaveLoop \/ HeartbeatLost \/ NothingToCollect
    BY <1>0, <1>4 DEF LeaveLoop, HeartbeatLost, NothingToCollect, Leave, Final
<1>5. CASE RequestFailed \/ EnterScope \/ ReadResponse
    BY <1>0, <1>5 DEF RequestFailed, EnterScope, ReadResponse, Raise, Ends, Final
<1>6. CASE PublishArtifact \/ EndScope \/ Acknowledge \/ CountSaved
    BY <1>0, <1>6 DEF PublishArtifact, EndScope, Acknowledge, CountSaved, Raise, Ends, Final
<1>7. CASE RecordCheckpoint
  <2>1. response # NoFrame
      BY <1>7 DEF RecordCheckpoint, Inv, Scoped
  <2>2. Append(journal, Event("CHECKPOINT", n, response)) \in Seq(Events)
    <3>1. Event("CHECKPOINT", n, response) \in Events
        BY <1>0, <2>1, EventsAreTyped
    <3> QED
        BY <1>0, <3>1
  <2> QED
      BY <1>0, <1>7, <2>2 DEF RecordCheckpoint, Raise, Final
<1>8. CASE RecordSaved
  <2>1. response # NoFrame
      BY <1>8 DEF RecordSaved, Inv, Scoped
  <2>2. Append(journal, Event("CHECKPOINT_SAVED", n, response)) \in Seq(Events)
    <3>1. Event("CHECKPOINT_SAVED", n, response) \in Events
        BY <1>0, <2>1, EventsAreTyped
    <3> QED
        BY <1>0, <3>1
  <2> QED
      BY <1>0, <1>8, <2>2 DEF RecordSaved, Raise, Final
<1>9. CASE StopTree \/ Judge \/ OwnerDies
    BY <1>0, <1>9 DEF StopTree, Judge, OwnerDies, Raise, NoSession, Final
<1>10. CASE Finish
    BY <1>0, <1>10 DEF Finish, NoSession, Final
<1>11. CASE Settle \/ EndAttempt
    BY <1>0, <1>11 DEF Settle, EndAttempt, NoSession, Final
<1>12. CASE Launch \/ Refuse
    BY <1>0, <1>12 DEF Launch, Refuse, NoSession, Final
<1>13. CASE \E a \in Attempts : Prepare(a)
    BY <1>0, <1>13 DEF Prepare
<1>14. ASSUME NEW p \in Attempts \cup {0}, NEW k \in 0 .. TotalSteps, Register(p, k) PROVE Shape'
  <2>1. n + 1 \in Attempts
      BY <1>0, <1>14 DEF Register, MayRegister, Attempts
  <2>2. /\ state' \in [Attempts -> Final \cup {"ABSENT", "REGISTERED", "RUNNING"}]
        /\ step' \in [Attempts -> 0 .. TotalSteps]
        /\ parent' \in [Attempts -> Attempts \cup {0}]
      BY <1>0, <1>14, <2>1 DEF Register
  <2> QED
      BY <1>0, <1>14, <2>1, <2>2 DEF Register
<1>15. CASE \E a \in Attempts : Recover(a) \/ RecoverEnd(a)
  <2>1. ASSUME NEW a \in Attempts, Recover(a) PROVE Shape'
      BY <1>0, <2>1 DEF Recover, Final
  <2>2. ASSUME NEW a \in Attempts, RecoverEnd(a) PROVE Shape'
      BY <1>0, <2>2 DEF RecoverEnd, Final
  <2> QED
      BY <1>15, <2>1, <2>2
<1>16. CASE CloseArm \/ ContinueArm
    BY <1>0, <1>16 DEF CloseArm, ContinueArm
<1>17. CASE \E a \in Attempts : Resume(a)
    BY <1>14, <1>17 DEF Resume
<1>18. CASE Retry
    BY <1>14, <1>18 DEF Retry
<1> QED
    BY <1>1, <1>2, <1>3, <1>4, <1>5, <1>6, <1>7, <1>8, <1>9, <1>10, <1>11, <1>12, <1>13, <1>15,
       <1>16, <1>17, <1>18 DEF Next, OwnerStep, WorkerStep, OperatorStep

-----------------------------------------------------------------------------
(* The journal grows: an event stays, and so does what was closed before it. *)

OnlyGrows ==
    /\ \A i \in DOMAIN journal :
          i \in DOMAIN journal' /\ journal'[i] = journal[i] /\ (ClosedAt(i)' <=> ClosedAt(i))
    /\ \A i \in DOMAIN journal' :
          journal'[i].kind = "CHECKPOINT" =>
              i \in DOMAIN journal \/ (RecordCheckpoint /\ journal'[i] = Event("CHECKPOINT", n, response))
    /\ Closed => Closed' \/ unsettled = {}
    /\ pc \in InScope /\ ~Closed => ~Closed'

LEMMA Unwritten == UNCHANGED journal => OnlyGrows
BY DEF OnlyGrows, Closed, ClosedAt

LEMMA Grows == Inv /\ [Next]_vars => OnlyGrows
<1> SUFFICES ASSUME Inv, [Next]_vars PROVE OnlyGrows
    OBVIOUS
<1>0. Shape
    BY DEF Inv
<1>1. ASSUME NEW e \in Events, journal' = Append(journal, e),
             e.kind # "CHECKPOINT" \/ (RecordCheckpoint /\ e = Event("CHECKPOINT", n, response)),
             e.kind # "ARM_CONTINUATION" \/ unsettled = {},
             e.kind # "ARM_CLOSED" \/ pc \notin InScope
      PROVE  OnlyGrows
  <2>1. journal \in Seq(Events)
      BY <1>0 DEF Shape
  <2>2. \A i \in DOMAIN journal : ClosedAt(i)' <=> ClosedAt(i)
      BY <1>1, <2>1, ClosedAtStays
  <2>3. (Closed => Closed' \/ unsettled = {}) /\ (pc \in InScope /\ ~Closed => ~Closed')
      BY <1>1, <2>1, OpenStays
  <2>4. /\ \A i \in DOMAIN journal : i \in DOMAIN journal' /\ journal'[i] = journal[i]
        /\ \A i \in DOMAIN journal' : i \in DOMAIN journal \/ journal'[i] = e
      BY <1>1, <2>1, AppendEvent
  <2> QED
      BY <1>1, <2>2, <2>3, <2>4 DEF OnlyGrows
<1>2. ASSUME journal' = Closing, pc \notin InScope PROVE OnlyGrows
  <2>1. journal' = journal \/ journal' = Append(journal, Event("ARM_CLOSED", 0, 0))
      BY <1>0, <1>2, ClosingCloses
  <2>2. Event("ARM_CLOSED", 0, 0) \in Events /\ Event("ARM_CLOSED", 0, 0).kind = "ARM_CLOSED"
      BY <1>0, <1>2, ClosingCloses DEF Event
  <2> QED
      BY <1>1, <1>2, <2>1, <2>2, Unwritten
<1>3. CASE RecordCheckpoint \/ RecordSaved
  <2>1. n \in Attempts /\ response \in 0 .. TotalSteps
      BY <1>0, <1>3 DEF RecordCheckpoint, RecordSaved, Inv, Scoped, Shape
  <2>2. \A kind \in {"CHECKPOINT", "CHECKPOINT_SAVED"} :
           Event(kind, n, response) \in Events /\ Event(kind, n, response).kind = kind
      BY <2>1, EventsAreTyped DEF Event
  <2>3. CASE journal' = journal
      BY <2>3, Unwritten
  <2>4. CASE RecordCheckpoint /\ journal' = Append(journal, Event("CHECKPOINT", n, response))
      BY <1>1, <2>2, <2>4
  <2>5. CASE RecordSaved /\ journal' = Append(journal, Event("CHECKPOINT_SAVED", n, response))
      BY <1>1, <2>2, <2>5
  <2> QED
      BY <1>3, <2>3, <2>4, <2>5 DEF RecordCheckpoint, RecordSaved
<1>4. CASE ContinueArm
  <2>1. /\ Event("ARM_CONTINUATION", 0, 0) \in Events
        /\ Event("ARM_CONTINUATION", 0, 0).kind = "ARM_CONTINUATION"
      BY BoundsAssumption DEF Event, Events
  <2> QED
      BY <1>1, <1>4, <2>1 DEF ContinueArm
<1>5. CASE Finish \/ Settle \/ CloseArm \/ (\E a \in Attempts : Recover(a) \/ RecoverEnd(a))
    BY <1>2, <1>5, Unwritten DEF Finish, Settle, CloseArm, Recover, RecoverEnd, InScope
<1>6. CASE \/ UNCHANGED vars \/ Tick \/ TimerFires \/ TimerWrites \/ WorkerStep \/ Fuse
           \/ \E a \in Attempts : StrayEnds(a) \/ Prepare(a)
    BY <1>6, Unwritten
    DEF vars, lineage, Tick, TimerFires, TimerWrites, WorkerStep, WorkerSteps, WorkerSaves,
        WorkerReadsAck, WorkerGivesUp, WorkerExits, Fuse, StrayEnds, Prepare
<1>7. CASE \/ LeaveLoop \/ HeartbeatLost \/ NothingToCollect \/ RequestFailed \/ EnterScope
           \/ ReadResponse \/ PublishArtifact \/ EndScope \/ Acknowledge \/ CountSaved
           \/ StopTree \/ Judge \/ EndAttempt \/ OwnerDies
    BY <1>7, Unwritten
    DEF lineage, LeaveLoop, HeartbeatLost, NothingToCollect, RequestFailed, EnterScope, ReadResponse,
        PublishArtifact, EndScope, Acknowledge, CountSaved, StopTree, Judge, EndAttempt, OwnerDies
<1>8. CASE Launch \/ Refuse \/ Retry \/ (\E a \in Attempts : Resume(a))
    BY <1>8, Unwritten DEF Launch, Refuse, Retry, Resume, Register
<1> QED
    BY <1>3, <1>4, <1>5, <1>6, <1>7, <1>8 DEF Next, OwnerStep, WorkerStep, OperatorStep

-----------------------------------------------------------------------------
(* Order. *)

LEMMA OrderStep == Inv /\ [Next]_vars => Order'
<1> SUFFICES ASSUME Inv, [Next]_vars PROVE Order'
    OBVIOUS
<1>0. Shape /\ Order /\ Contained
    BY DEF Inv
<1> USE <1>0 DEF Order, lineage, owner, frames, process
<1>1. CASE UNCHANGED vars \/ Tick \/ TimerFires \/ TimerWrites \/ (\E a \in Attempts : Prepare(a))
    BY <1>1 DEF vars, Tick, TimerFires, TimerWrites, Prepare, Terminal
<1>2. CASE WorkerStep
    BY <1>2 DEF WorkerStep, WorkerSteps, WorkerSaves, WorkerReadsAck, WorkerGivesUp, WorkerExits, Exit, Terminal
<1>3. CASE Fuse \/ (\E a \in Attempts : StrayEnds(a))
  <2>1. UNCHANGED <<n, state, pc, response, ack>> /\ (UNCHANGED <<worker, code>> \/ n \in running)
      BY <1>3 DEF Fuse, StrayEnds, Exit
  <2>2. n \in running => state[n] # "REGISTERED"
      BY DEF Contained
  <2> QED
      BY <2>1, <2>2 DEF Terminal
<1>4. CASE LeaveLoop \/ HeartbeatLost \/ NothingToCollect \/ RequestFailed \/ EnterScope \/ ReadResponse
  <2>1. UNCHANGED <<n, state, response, ack, worker, code>>
      BY <1>4 DEF LeaveLoop, HeartbeatLost, NothingToCollect, RequestFailed, EnterScope, ReadResponse
  <2>2. pc \notin {"idle", "dead"} /\ pc' \notin {"idle", "dead"}
      BY <1>4 DEF LeaveLoop, HeartbeatLost, NothingToCollect, RequestFailed, EnterScope, ReadResponse,
                  Collecting, Raise, Ends, Resumes
  <2> QED
      BY <2>1, <2>2 DEF Terminal
<1>5. CASE PublishArtifact \/ RecordCheckpoint \/ RecordSaved \/ EndScope
    BY <1>5 DEF PublishArtifact, RecordCheckpoint, RecordSaved, EndScope, Raise, Ends, Resumes, Terminal
<1>6. CASE Acknowledge \/ CountSaved \/ StopTree \/ Judge
    BY <1>6 DEF Acknowledge, CountSaved, StopTree, Judge, Raise, Resumes, Terminal
<1>7. CASE Finish \/ Settle \/ EndAttempt \/ OwnerDies
    BY <1>7 DEF Finish, Settle, EndAttempt, OwnerDies, NoSession, Terminal, Final, Shape
<1>8. CASE Launch \/ Refuse
    BY <1>8 DEF Launch, Refuse, NoSession, Terminal, Final, Shape
<1>9. ASSUME NEW p \in Attempts \cup {0}, NEW k \in 0 .. TotalSteps, Register(p, k) PROVE Order'
  <2>1. n \in Int /\ n + 1 \in Attempts /\ n' = n + 1 /\ n' \in Attempts
      BY <1>9, BoundsAssumption DEF Register, MayRegister, Shape, Attempts
  <2>2. state'[n + 1] = "REGISTERED" /\ \A a \in Attempts : a # n + 1 => state'[a] = state[a]
      BY <1>9, <2>1 DEF Register, Shape
  <2>3. \A a \in Attempts : (a > n + 1 => a > n) /\ (a < n + 1 => a \in 1 .. n) /\ a \in Int
      BY <2>1, BoundsAssumption DEF Attempts
  <2>4. \A a \in Attempts : (a > n' => state'[a] = "ABSENT") /\ (a < n' => Terminal(a)')
      BY <1>9, <2>1, <2>2, <2>3 DEF Register, MayRegister, Terminal
  <2> QED
      BY <1>9, <2>1, <2>2, <2>4 DEF Register
<1>10. CASE \E a \in Attempts : Recover(a) \/ RecoverEnd(a)
    BY <1>10 DEF Recover, RecoverEnd, Terminal, Final, Shape, Contained
<1>11. CASE CloseArm \/ ContinueArm
    BY <1>11 DEF CloseArm, ContinueArm, Terminal
<1>12. CASE Retry \/ (\E a \in Attempts : Resume(a))
    BY <1>9, <1>12, BoundsAssumption DEF Retry, Resume
<1> QED
    BY <1>1, <1>2, <1>3, <1>4, <1>5, <1>6, <1>7, <1>8, <1>10, <1>11, <1>12
    DEF Next, OwnerStep, WorkerStep, OperatorStep

-----------------------------------------------------------------------------
(* Contained. *)

LEMMA ContainedStep == Inv /\ [Next]_vars => Contained'
<1> SUFFICES ASSUME Inv, [Next]_vars PROVE Contained'
    OBVIOUS
<1>0. Shape /\ Order /\ Contained /\ OnlyGrows
    BY Grows DEF Inv
<1> USE <1>0 DEF Contained, OneWorkerOfLineage, lineage, owner, frames, process
<1>1. ASSUME UNCHANGED <<n, state, unsettled>>, running' \subseteq running,
             pc' \in {"settling", "ending"} => pc' = pc \/ n \notin running' \/ pc \in {"settling", "ending"}
      PROVE  Contained'
  <2>1. \A a \in running' : Terminal(a)' => Closed'
      BY <1>1 DEF Terminal, OnlyGrows
  <2> QED
      BY <1>1, <2>1
<1>2. CASE UNCHANGED vars \/ Tick \/ TimerFires \/ TimerWrites \/ (\E a \in Attempts : Prepare(a))
    BY <1>1, <1>2 DEF vars, Tick, TimerFires, TimerWrites, Prepare
<1>3. CASE WorkerStep \/ Fuse \/ (\E a \in Attempts : StrayEnds(a))
    BY <1>1, <1>3 DEF WorkerStep, WorkerSteps, WorkerSaves, WorkerReadsAck, WorkerGivesUp, WorkerExits,
                      Fuse, StrayEnds, Exit
<1>4. CASE LeaveLoop \/ HeartbeatLost \/ NothingToCollect \/ RequestFailed \/ EnterScope \/ ReadResponse
  <2>1. UNCHANGED <<n, state, unsettled, running>> /\ pc' \notin {"settling", "ending"}
      BY <1>4 DEF LeaveLoop, HeartbeatLost, NothingToCollect, RequestFailed, EnterScope, ReadResponse,
                  Raise, Ends, Resumes
  <2> QED
      BY <1>1, <2>1
<1>5. CASE \/ PublishArtifact \/ RecordCheckpoint \/ RecordSaved \/ EndScope \/ Acknowledge
           \/ CountSaved \/ StopTree \/ Judge \/ OwnerDies
  <2>1. UNCHANGED <<n, state, unsettled>> /\ running' \subseteq running
      BY <1>5 DEF PublishArtifact, RecordCheckpoint, RecordSaved, EndScope, Acknowledge, CountSaved,
                  StopTree, Judge, OwnerDies
  <2>2. pc' \notin {"settling", "ending"}
      BY <1>5 DEF PublishArtifact, RecordCheckpoint, RecordSaved, EndScope, Acknowledge, CountSaved,
                  StopTree, Judge, OwnerDies, Raise, Ends, Resumes
  <2> QED
      BY <1>1, <2>1, <2>2
<1>6. CASE Finish
  <2>1. CASE UNCHANGED state
      BY <1>1, <1>6, <2>1 DEF Finish, NoSession
  <2>2. CASE ~UNCHANGED state
    <3>1. Closed' /\ UNCHANGED <<n, unsettled, running>> /\ pc' = "idle"
        BY <1>6, <2>2, ClosingCloses DEF Finish
    <3>2. \A a \in running : state'[a] # "REGISTERED"
        BY <1>6, <2>2 DEF Finish, Shape
    <3> QED
        BY <3>1, <3>2
  <2> QED
      BY <2>1, <2>2
<1>7. CASE Settle \/ EndAttempt
  <2>1. /\ n \notin running /\ UNCHANGED <<n, running>>
        /\ \A a \in running : state'[a] = state[a] /\ (a \in unsettled => a \in unsettled')
        /\ unsettled' \subseteq unsettled
      BY <1>7 DEF Settle, EndAttempt, Shape
  <2>2. \A a \in running : Terminal(a)' => Closed'
      BY <2>1 DEF Terminal, OnlyGrows
  <2> QED
      BY <2>1, <2>2
<1>8. CASE Launch
  <2>1. /\ state[n] = "REGISTERED" /\ ~Closed
        /\ state' = [state EXCEPT ![n] = "RUNNING"]
        /\ unsettled' = unsettled \cup {n} /\ running' = running \cup {n}
        /\ pc' = "polling" /\ n' = n
      BY <1>8 DEF Launch
  <2>2. running = {}
    <3>1. SUFFICES ASSUME NEW a \in running PROVE FALSE
        OBVIOUS
    <3>2. a # n
        BY <2>1, <3>1
    <3>3. a \in Attempts /\ a < n
        BY <3>1, <3>2 DEF Shape, Attempts
    <3> QED
        BY <2>1, <3>1, <3>3 DEF Order
  <2>3. n \in 1 .. n /\ state'[n] = "RUNNING"
      BY <2>1, BoundsAssumption DEF Shape, Attempts
  <2> QED
      BY <2>1, <2>2, <2>3 DEF Terminal, Final
<1>9. CASE Refuse
  <2>1. n \notin running /\ UNCHANGED <<n, running, unsettled, pc>> /\ pc = "idle"
      BY <1>9 DEF Refuse
  <2>2. \A a \in running : state'[a] = state[a]
      BY <1>9, <2>1 DEF Refuse
  <2>3. \A a \in running : Terminal(a)' => Closed'
      BY <2>1, <2>2 DEF Terminal, OnlyGrows
  <2> QED
      BY <2>1, <2>2, <2>3
<1>10. ASSUME NEW p \in Attempts \cup {0}, NEW k \in 0 .. TotalSteps, Register(p, k) PROVE Contained'
  <2>1. n \in Int /\ n' = n + 1 /\ pc' = "idle" /\ UNCHANGED <<journal, unsettled, running>>
      BY <1>10, BoundsAssumption DEF Register, Shape, Attempts
  <2>2. \A a \in running : a \in 1 .. n /\ a # n + 1 /\ state'[a] = state[a]
      BY <1>10, <2>1, BoundsAssumption DEF Register, Shape
  <2>3. unsettled \subseteq 1 .. n + 1
      BY <2>1
  <2>4. \A a \in running : Terminal(a)' => Closed'
      BY <2>2 DEF Terminal, OnlyGrows
  <2> QED
      BY <2>1, <2>2, <2>3, <2>4
<1>11. CASE \E a \in Attempts : Recover(a) \/ RecoverEnd(a)
  <2>1. PICK a \in Attempts : Recover(a) \/ RecoverEnd(a)
      BY <1>11
  <2>2. /\ a \notin running /\ UNCHANGED <<n, running, pc>>
        /\ unsettled' \subseteq unsettled /\ \A b \in unsettled : b # a => b \in unsettled'
        /\ \A b \in running : state'[b] = state[b]
      BY <2>1 DEF Recover, RecoverEnd, Shape
  <2>3. Closed'
      BY <2>1, ClosingCloses DEF Recover, RecoverEnd
  <2> QED
      BY <2>2, <2>3
<1>12. CASE CloseArm \/ ContinueArm
    BY <1>1, <1>12 DEF CloseArm, ContinueArm
<1>13. CASE Retry \/ (\E a \in Attempts : Resume(a))
    BY <1>10, <1>13, BoundsAssumption DEF Retry, Resume
<1> QED
    BY <1>2, <1>3, <1>4, <1>5, <1>6, <1>7, <1>8, <1>9, <1>11, <1>12, <1>13
    DEF Next, OwnerStep, WorkerStep, OperatorStep
-----------------------------------------------------------------------------
(* Frozen. *)

LEMMA FrozenStep == Inv /\ [Next]_vars => Frozen'
<1> SUFFICES ASSUME Inv, [Next]_vars PROVE Frozen'
    OBVIOUS
<1>0. Shape /\ Order /\ Frozen /\ OnlyGrows
    BY Grows DEF Inv
<1> USE DEF lineage, owner, frames, process
\* Most steps write none of what Frozen is about.
<1>1. ASSUME UNCHANGED <<n, step, parent, response>>,
             worker' = "working" => worker = "working",
             \A a \in Attempts : state'[a] = "REGISTERED" => state[a] = "REGISTERED",
             RecordCheckpoint => response # NoFrame
      PROVE  Frozen'
  <2>1. \A i \in DOMAIN journal' : journal'[i].kind = "CHECKPOINT" =>
            /\ journal'[i].attempt \in 1 .. n
            /\ journal'[i].step = step[journal'[i].attempt]
            /\ journal'[i].attempt = n => response # NoFrame
    <3>1. SUFFICES ASSUME NEW i \in DOMAIN journal', journal'[i].kind = "CHECKPOINT"
                   PROVE  /\ journal'[i].attempt \in 1 .. n
                          /\ journal'[i].step = step[journal'[i].attempt]
                          /\ journal'[i].attempt = n => response # NoFrame
        OBVIOUS
    <3>2. CASE i \in DOMAIN journal
        BY <1>0, <3>1, <3>2 DEF OnlyGrows, Frozen
    <3>3. CASE RecordCheckpoint /\ journal'[i] = Event("CHECKPOINT", n, response)
      <4>1. n \in 1 .. n
          BY <1>0, BoundsAssumption DEF Shape, Attempts
      <4>2. journal'[i].attempt = n /\ journal'[i].step = response
          BY <3>3 DEF Event
      <4> QED
          BY <1>0, <1>1, <3>3, <4>1, <4>2 DEF Frozen
    <3> QED
        BY <1>0, <3>1, <3>2, <3>3 DEF OnlyGrows
  <2>2. NothingRepeated'
      BY <1>0, <1>1 DEF Frozen, NothingRepeated
  <2>3. response' # NoFrame => response' = step'[n'] /\ worker' # "working"
      BY <1>0, <1>1 DEF Frozen
  <2>4. \A a \in Attempts : parent'[a] # 0 => parent'[a] < a
      BY <1>0, <1>1 DEF Frozen
  <2> QED
      BY <1>1, <2>1, <2>2, <2>3, <2>4 DEF Frozen
<1>2. CASE UNCHANGED vars \/ Tick \/ TimerFires \/ TimerWrites \/ (\E a \in Attempts : Prepare(a))
  <2>1. UNCHANGED <<n, state, step, parent, response>> /\ (worker' = "working" => worker = "working")
      BY <1>2 DEF vars, Tick, TimerFires, TimerWrites, Prepare
  <2>2. ~RecordCheckpoint \/ response # NoFrame
      BY DEF RecordCheckpoint, Inv, Scoped
  <2> QED
      BY <1>1, <2>1, <2>2
<1>3. CASE WorkerSteps
  <2>1. response = NoFrame
      BY <1>0, <1>3 DEF Frozen, WorkerSteps
  <2>2. /\ UNCHANGED <<journal, n, state, parent, response>>
        /\ \A a \in Attempts : a # n => step'[a] = step[a]
      BY <1>0, <1>3 DEF WorkerSteps, Shape
  <2>3. \A i \in DOMAIN journal : journal[i].kind = "CHECKPOINT" =>
            journal[i].attempt \in Attempts /\ journal[i].attempt # n
    <3>1. \A a \in 1 .. n : a \in Attempts
        BY <1>0, BoundsAssumption DEF Shape, Attempts
    <3> QED
        BY <1>0, <2>1, <3>1 DEF Frozen
  <2>4. \A a \in Attempts : state[a] = "REGISTERED" /\ parent[a] # 0 =>
            a # n /\ parent[a] # n /\ parent[a] \in Attempts
    <3>1. SUFFICES ASSUME NEW a \in Attempts, state[a] = "REGISTERED", parent[a] # 0
                   PROVE  a # n /\ parent[a] # n /\ parent[a] \in Attempts
        OBVIOUS
    <3>2. a # n
        BY <1>0, <1>3, <3>1 DEF Order, WorkerSteps
    <3>3. parent[a] \in Attempts /\ parent[a] < a
        BY <1>0, <3>1 DEF Shape, Frozen
    <3>4. ~(a > n)
        BY <1>0, <3>1 DEF Order
    <3> QED
        BY <1>0, <3>2, <3>3, <3>4, BoundsAssumption DEF Shape, Attempts
  <2>5. NothingRepeated'
      BY <1>0, <2>2, <2>4 DEF NothingRepeated, Frozen
  <2> QED
      BY <1>0, <2>1, <2>2, <2>3, <2>5 DEF Frozen
<1>4. CASE WorkerSaves
  <2>1. /\ UNCHANGED <<journal, n, state, parent, step>>
        /\ response' = step[n] /\ step[n] # NoFrame /\ worker' # "working"
      BY <1>0, <1>4 DEF WorkerSaves, Shape, NoFrame
  <2> QED
      BY <1>0, <2>1 DEF Frozen, NothingRepeated
<1>5. CASE \/ WorkerReadsAck \/ WorkerGivesUp \/ WorkerExits \/ Fuse
           \/ (\E a \in Attempts : StrayEnds(a))
  <2>1. UNCHANGED <<n, state, step, parent, response>> /\ (worker' = "working" => worker = "working")
      BY <1>5 DEF WorkerReadsAck, WorkerGivesUp, WorkerExits, Fuse, StrayEnds, Exit
  <2>2. ~RecordCheckpoint \/ response # NoFrame
      BY DEF RecordCheckpoint, Inv, Scoped
  <2> QED
      BY <1>1, <2>1, <2>2
<1>6. CASE (OwnerStep /\ ~Finish /\ ~EndAttempt) \/ HeartbeatLost \/ OwnerDies
  <2>1. UNCHANGED <<n, state, step, parent, response>> /\ (worker' = "working" => worker = "working")
      BY <1>6
      DEF OwnerStep, LeaveLoop, HeartbeatLost, NothingToCollect, RequestFailed, EnterScope, ReadResponse,
          PublishArtifact, RecordCheckpoint, RecordSaved, EndScope, Acknowledge, CountSaved, StopTree,
          Judge, Settle, OwnerDies
  <2>2. ~RecordCheckpoint \/ response # NoFrame
      BY DEF RecordCheckpoint, Inv, Scoped
  <2> QED
      BY <1>1, <2>1, <2>2
<1>7. CASE \/ Finish \/ EndAttempt \/ Refuse
           \/ (\E a \in Attempts : Recover(a) \/ RecoverEnd(a)) \/ CloseArm \/ ContinueArm
  <2>1. UNCHANGED <<n, step, parent, response>> /\ (worker' = "working" => worker = "working")
      BY <1>7 DEF Finish, EndAttempt, Refuse, Recover, RecoverEnd, CloseArm, ContinueArm
  <2>2. \A a \in Attempts : state'[a] = "REGISTERED" => state[a] = "REGISTERED"
      BY <1>0, <1>7 DEF Finish, EndAttempt, Refuse, Recover, RecoverEnd, CloseArm, ContinueArm, Shape, Final
  <2>3. ~RecordCheckpoint \/ response # NoFrame
      BY DEF RecordCheckpoint, Inv, Scoped
  <2> QED
      BY <1>1, <2>1, <2>2, <2>3
<1>8. CASE Launch
  <2>1. /\ UNCHANGED <<journal, n, parent, step, response>> /\ response = NoFrame
        /\ \A a \in Attempts : state'[a] = "REGISTERED" => state[a] = "REGISTERED"
      BY <1>0, <1>8 DEF Launch, Order, Shape
  <2> QED
      BY <1>0, <2>1 DEF Frozen, NothingRepeated
<1>9. ASSUME NEW p \in Attempts \cup {0}, NEW k \in 0 .. TotalSteps, Register(p, k),
             p = 0 \/ (p \in 1 .. n /\ k = step[p])
      PROVE  Frozen'
  <2>1. /\ n \in Int /\ n' = n + 1 /\ n + 1 \in Attempts /\ response' = NoFrame
        /\ UNCHANGED journal
      BY <1>0, <1>9, BoundsAssumption DEF Register, MayRegister, Shape, Attempts
  <2>2. /\ step'[n + 1] = k /\ parent'[n + 1] = p /\ state'[n + 1] = "REGISTERED"
        /\ \A a \in Attempts : a # n + 1 =>
              step'[a] = step[a] /\ parent'[a] = parent[a] /\ state'[a] = state[a]
      BY <1>0, <1>9, <2>1 DEF Register, Shape
  <2>3. \A a \in 1 .. n : a \in Attempts /\ a # n + 1 /\ a \in 1 .. n + 1 /\ a < n + 1
      BY <1>0, <2>1, BoundsAssumption DEF Shape, Attempts
  <2>4. \A i \in DOMAIN journal : journal[i].kind = "CHECKPOINT" =>
            /\ journal[i].attempt \in 1 .. n + 1
            /\ journal[i].step = step'[journal[i].attempt]
            /\ journal[i].attempt # n + 1
      BY <1>0, <2>2, <2>3 DEF Frozen
  <2>5. \A a \in Attempts : parent'[a] # 0 => parent'[a] < a
      BY <1>0, <1>9, <2>2, <2>3 DEF Frozen
  <2>6. NothingRepeated'
    <3>1. SUFFICES ASSUME NEW a \in Attempts, parent'[a] # 0, state'[a] = "REGISTERED"
                   PROVE  step'[a] = step'[parent'[a]]
        BY DEF NothingRepeated
    <3>2. CASE a = n + 1
        BY <1>9, <2>2, <2>3, <3>1, <3>2
    <3>3. CASE a # n + 1
      <4>1. a > n \/ a \in 1 .. n
          BY <2>1, BoundsAssumption DEF Attempts
      <4>2. state[a] = "REGISTERED"
          BY <2>2, <3>1, <3>3
      <4> QED
          BY <1>0, <1>9, <4>1, <4>2 DEF Order, Register, MayRegister, Terminal, Final
    <3> QED
        BY <3>2, <3>3
  <2> QED
      BY <2>1, <2>4, <2>5, <2>6 DEF Frozen
<1>10. CASE Retry
    BY <1>9, <1>10, BoundsAssumption DEF Retry
<1>11. CASE \E a \in Attempts : Resume(a)
  <2>1. PICK p \in Attempts, k \in 0 .. TotalSteps : Logged(Event("CHECKPOINT", p, k)) /\ Register(p, k)
      BY <1>11 DEF Resume
  <2>2. PICK i \in DOMAIN journal : journal[i] = Event("CHECKPOINT", p, k)
      BY <2>1 DEF Logged
  <2>3. p \in 1 .. n /\ k = step[p]
      BY <1>0, <2>2 DEF Frozen, Event
  <2> QED
      BY <1>9, <2>1, <2>3
<1> QED
    BY <1>2, <1>3, <1>4, <1>5, <1>6, <1>7, <1>8, <1>10, <1>11 DEF Next, OwnerStep, WorkerStep, OperatorStep

-----------------------------------------------------------------------------
(* Scoped. *)

\* What is recorded of a response stays recorded.
LEMMA Persists ==
    ASSUME OnlyGrows, UNCHANGED <<n, response>>
    PROVE  (Noted => Noted') /\ (Durable => Durable')
<1>1. ASSUME Noted PROVE Noted'
  <2>1. PICK i \in DOMAIN journal : journal[i] = Event("CHECKPOINT", n, response)
      BY <1>1 DEF Noted
  <2>2. i \in DOMAIN journal' /\ journal'[i] = journal[i]
      BY DEF OnlyGrows
  <2> QED
      BY <2>1, <2>2 DEF Noted, Event
<1>2. ASSUME Durable PROVE Durable'
  <2>1. PICK i, j \in DOMAIN journal :
            /\ i < j
            /\ journal[i] = Event("CHECKPOINT", n, response)
            /\ journal[j] = Event("CHECKPOINT_SAVED", n, response)
            /\ ~ClosedAt(j)
      BY <1>2 DEF Durable
  <2>2. /\ i \in DOMAIN journal' /\ journal'[i] = journal[i]
        /\ j \in DOMAIN journal' /\ journal'[j] = journal[j] /\ ~ClosedAt(j)'
      BY <2>1 DEF OnlyGrows
  <2> QED
      BY <2>1, <2>2 DEF Durable, Event
<1> QED
    BY <1>1, <1>2

LEMMA ScopedStep == Inv /\ [Next]_vars => Scoped'
<1> SUFFICES ASSUME Inv, [Next]_vars PROVE Scoped'
    OBVIOUS
<1>0. Shape /\ Order /\ Frozen /\ Scoped /\ OnlyGrows
    BY Grows DEF Inv
<1> USE DEF lineage, owner, frames, process
\* Nothing of the exchange is written, and no scope is entered.
<1>1. ASSUME UNCHANGED <<n, response, ack, stop>>, pc' = pc PROVE Scoped'
    BY <1>0, <1>1, Persists DEF Scoped, OnlyGrows, InScope
\* The owner is outside of its scope after the step.
<1>2. ASSUME UNCHANGED <<n, response>>, ack' => ack,
             pc' \notin InScope \cup {"acking"} \/ (pc' = "acking" /\ pc = "acking")
      PROVE  Scoped'
    BY <1>0, <1>2, Persists DEF Scoped, InScope
<1>3. CASE \/ UNCHANGED vars \/ Tick \/ TimerFires \/ TimerWrites
           \/ (\E a \in Attempts : StrayEnds(a) \/ Prepare(a))
    BY <1>1, <1>3 DEF vars, Tick, TimerFires, TimerWrites, StrayEnds, Prepare
<1>4. CASE WorkerSteps \/ WorkerReadsAck \/ WorkerGivesUp \/ WorkerExits \/ Fuse
    BY <1>1, <1>4 DEF WorkerSteps, WorkerReadsAck, WorkerGivesUp, WorkerExits, Fuse
<1>5. CASE WorkerSaves
  <2>1. response = NoFrame
      BY <1>0, <1>5 DEF Frozen, WorkerSaves
  <2>2. UNCHANGED <<journal, pc, stop, ack>>
      BY <1>5 DEF WorkerSaves
  <2> QED
      BY <1>0, <2>1, <2>2 DEF Scoped, Closed, ClosedAt
<1>6. CASE \/ LeaveLoop \/ HeartbeatLost \/ NothingToCollect \/ RequestFailed \/ StopTree \/ Judge
  <2>1. UNCHANGED <<n, response, ack>> /\ pc' \notin InScope \cup {"acking"}
      BY <1>6 DEF LeaveLoop, HeartbeatLost, NothingToCollect, RequestFailed, StopTree, Judge, Raise, InScope
  <2> QED
      BY <1>2, <2>1
<1>7. CASE Finish \/ Settle \/ EndAttempt \/ OwnerDies
  <2>1. UNCHANGED <<n, response, ack>> /\ pc' \notin InScope \cup {"acking"}
      BY <1>7 DEF Finish, Settle, EndAttempt, OwnerDies, InScope
  <2> QED
      BY <1>2, <2>1
<1>8. CASE Launch \/ Refuse
  <2>1. UNCHANGED <<n, response, ack>> /\ pc' \notin InScope \cup {"acking"}
      BY <1>8 DEF Launch, Refuse, InScope
  <2> QED
      BY <1>2, <2>1
<1>9. CASE \E a \in Attempts : Recover(a) \/ RecoverEnd(a)
    BY <1>1, <1>9 DEF Recover, RecoverEnd
<1>10. CASE CloseArm \/ ContinueArm
    BY <1>1, <1>10 DEF CloseArm, ContinueArm
<1>11. CASE Retry \/ (\E a \in Attempts : Resume(a))
  <2>1. pc' = "idle" /\ ~ack' 
      BY <1>11 DEF Retry, Resume, Register
  <2> QED
      BY <2>1 DEF Scoped
<1>12. CASE EnterScope
  <2>1. UNCHANGED <<journal, n, response, ack>> /\ pc' = "scope" /\ stop' = Closed
      BY <1>12 DEF EnterScope
  <2> QED
      BY <1>0, <2>1, Persists DEF Scoped, Closed, ClosedAt
<1>13. CASE ReadResponse \/ PublishArtifact \/ EndScope \/ CountSaved
  <2>1. UNCHANGED <<journal, n, response, ack>>
      BY <1>13 DEF ReadResponse, PublishArtifact, EndScope, CountSaved
  <2>2. \/ pc' \notin InScope \cup {"acking"}
        \/ pc = "scope" /\ pc' = "handling" /\ ~stop /\ response # NoFrame
        \/ pc = "handling" /\ pc' = "stored"
        \/ pc = "recorded" /\ pc' = "acking"
      BY <1>13 DEF ReadResponse, PublishArtifact, EndScope, CountSaved, Raise, Ends, Resumes, InScope
  <2>3. Closed' <=> Closed
      BY <2>1 DEF Closed, ClosedAt
  <2>4. ack' => Durable' /\ response' # NoFrame
      BY <1>0, <2>1, Persists DEF Scoped
  <2>5. CASE pc' \notin InScope \cup {"acking"}
      BY <1>2, <2>1, <2>5
  <2>6. CASE pc' \in {"handling", "stored"}
      BY <1>0, <2>1, <2>2, <2>3, <2>4, <2>6 DEF Scoped, InScope
  <2>7. CASE pc' = "acking"
    <3>1. Durable' /\ response # NoFrame
        BY <1>0, <2>1, <2>2, <2>7, Persists DEF Scoped, InScope
    <3> QED
        BY <2>1, <2>4, <2>7, <3>1 DEF Scoped
  <2> QED
      BY <2>2, <2>5, <2>6, <2>7
<1>14. CASE RecordCheckpoint
  <2>1. UNCHANGED <<n, response, ack, stop>> /\ response # NoFrame
      BY <1>0, <1>14 DEF RecordCheckpoint, Raise, Scoped
  <2>2. CASE pc' = "noted"
    <3>1. journal' = Append(journal, Event("CHECKPOINT", n, response)) /\ ~Closed'
        BY <1>0, <1>14, <2>2 DEF RecordCheckpoint, Raise, Scoped, OnlyGrows, InScope
    <3>2. Event("CHECKPOINT", n, response) \in Events
        BY <1>0, <2>1, EventsAreTyped DEF Shape
    <3>3. Noted'
      <4>1. /\ Len(journal) + 1 \in DOMAIN journal'
            /\ journal'[Len(journal) + 1] = Event("CHECKPOINT", n, response)
          BY <1>0, <3>1, <3>2, AppendEvent DEF Shape
      <4> QED
          BY <2>1, <4>1 DEF Noted, Event
    <3> QED
        BY <1>0, <2>1, <2>2, <3>1, <3>3, Persists DEF Scoped
  <2>3. CASE pc' # "noted"
    <3>1. pc' \notin InScope \cup {"acking"}
        BY <1>14, <2>3 DEF RecordCheckpoint, Raise, InScope
    <3> QED
        BY <1>2, <2>1, <3>1
  <2> QED
      BY <2>2, <2>3
<1>15. CASE RecordSaved
  <2>1. UNCHANGED <<n, response, ack, stop>> /\ response # NoFrame /\ Noted
      BY <1>0, <1>15 DEF RecordSaved, Raise, Scoped
  <2>2. CASE pc' = "recorded"
    <3>1. journal' = Append(journal, Event("CHECKPOINT_SAVED", n, response)) /\ ~Closed'
        BY <1>0, <1>15, <2>2 DEF RecordSaved, Raise, Scoped, OnlyGrows, InScope
    <3>2. Event("CHECKPOINT_SAVED", n, response) \in Events
        BY <1>0, <2>1, EventsAreTyped DEF Shape
    <3>3. Durable'
      <4>1. PICK i \in DOMAIN journal : journal[i] = Event("CHECKPOINT", n, response)
          BY <2>1 DEF Noted
      <4>2. /\ i \in DOMAIN journal' /\ journal'[i] = journal[i]
            /\ Len(journal) + 1 \in DOMAIN journal' /\ i < Len(journal) + 1
            /\ journal'[Len(journal) + 1] = Event("CHECKPOINT_SAVED", n, response)
            /\ Len(journal') = Len(journal) + 1
          BY <1>0, <3>1, <3>2, <4>1, AppendEvent DEF Shape
      <4>3. PICK j \in DOMAIN journal' : j = Len(journal')
          BY <4>2
      <4>4. /\ i < j /\ journal'[i] = Event("CHECKPOINT", n, response)
            /\ journal'[j] = Event("CHECKPOINT_SAVED", n, response)
          BY <4>1, <4>2, <4>3
      <4>5. \A k : k = Len(journal') => (ClosedAt(k)' <=> Closed')
          BY DEF Closed, ClosedAt
      <4>6. ~ClosedAt(j)'
          BY <3>1, <4>3, <4>5
      <4> QED
          BY <2>1, <4>2, <4>4, <4>6 DEF Durable, Event
    <3> QED
        BY <1>0, <2>1, <2>2, <3>1, <3>3, Persists DEF Scoped
  <2>3. CASE pc' # "recorded"
    <3>1. pc' \notin InScope \cup {"acking"}
        BY <1>15, <2>3 DEF RecordSaved, Raise, InScope
    <3> QED
        BY <1>2, <2>1, <3>1
  <2> QED
      BY <2>2, <2>3
<1>16. CASE Acknowledge
  <2>1. /\ UNCHANGED <<journal, n, response, stop>> /\ pc = "acking"
        /\ pc' \notin InScope
      BY <1>16 DEF Acknowledge, Raise, InScope
  <2> QED
      BY <1>0, <2>1, Persists DEF Scoped, InScope
<1> QED
    BY <1>3, <1>4, <1>5, <1>6, <1>7, <1>8, <1>9, <1>10, <1>11, <1>12, <1>13, <1>14, <1>15, <1>16
    DEF Next, OwnerStep, WorkerStep, OperatorStep

-----------------------------------------------------------------------------
(* Judged. *)

LEMMA JudgedStep == Inv /\ [Next]_vars => Judged'
<1> SUFFICES ASSUME Inv, [Next]_vars PROVE Judged'
    OBVIOUS
<1>0. Shape /\ Order /\ Judged
    BY DEF Inv
<1> USE <1>0 DEF Judged, lineage, owner, frames, process
<1>1. CASE UNCHANGED vars \/ Tick \/ TimerFires \/ TimerWrites \/ (\E a \in Attempts : Prepare(a))
    BY <1>1 DEF vars, Tick, TimerFires, TimerWrites, Prepare
<1>2. CASE WorkerSteps \/ WorkerSaves \/ WorkerReadsAck
    BY <1>2 DEF WorkerSteps, WorkerSaves, WorkerReadsAck
<1>3. CASE WorkerGivesUp \/ WorkerExits \/ Fuse
    BY <1>3 DEF WorkerGivesUp, WorkerExits, Fuse, Exit
<1>4. CASE \E a \in Attempts : StrayEnds(a)
    BY <1>4 DEF StrayEnds
<1>5. CASE LeaveLoop \/ HeartbeatLost \/ NothingToCollect \/ RequestFailed \/ EnterScope
    BY <1>5 DEF LeaveLoop, HeartbeatLost, NothingToCollect, RequestFailed, EnterScope, Raise, Leave
<1>6. CASE ReadResponse \/ PublishArtifact \/ EndScope
    BY <1>6 DEF ReadResponse, PublishArtifact, EndScope, Raise, Ends, Resumes
<1>7. CASE RecordCheckpoint \/ RecordSaved
    BY <1>7 DEF RecordCheckpoint, RecordSaved, Raise
<1>8. CASE Acknowledge \/ CountSaved
    BY <1>8 DEF Acknowledge, CountSaved, Raise, Resumes
<1>9. CASE StopTree \/ Judge
    BY <1>9 DEF StopTree, Judge, Raise
<1>10. CASE Finish
    BY <1>10 DEF Finish, NoSession
<1>11. CASE Settle \/ EndAttempt \/ OwnerDies
    BY <1>11 DEF Settle, EndAttempt, OwnerDies, NoSession
<1>12. CASE Launch
    BY <1>12 DEF Launch, NoSession, Order
<1>13. CASE Refuse \/ (\E a \in Attempts : Recover(a) \/ RecoverEnd(a)) \/ CloseArm \/ ContinueArm
    BY <1>13 DEF Refuse, Recover, RecoverEnd, CloseArm, ContinueArm
<1>14. CASE Retry \/ (\E a \in Attempts : Resume(a))
    BY <1>14 DEF Retry, Resume, Register
<1> QED
    BY <1>1, <1>2, <1>3, <1>4, <1>5, <1>6, <1>7, <1>8, <1>9, <1>10, <1>11, <1>12, <1>13, <1>14
    DEF Next, OwnerStep, WorkerStep, OperatorStep

-----------------------------------------------------------------------------
LEMMA StepInv == Inv /\ [Next]_vars => Inv'
BY ShapeStep, OrderStep, ContainedStep, FrozenStep, ScopedStep, JudgedStep DEF Inv

LEMMA Invariance == Spec => []Inv
BY InitInv, StepInv, PTL DEF Spec

\* Two attempts of a cell never work at the same time: a tree that outlives its
\* owner keeps its reservation, so the arm it left closed is not continued and
\* its successor is not launched before it has stopped.
THEOREM OneWorker == Spec => []OneWorkerOfLineage
<1>1. Inv => OneWorkerOfLineage
    BY DEF Inv, Contained
<1> QED
    BY <1>1, Invariance, PTL

\* The acknowledgement a worker reads stands for a CHECKPOINT and a later
\* CHECKPOINT_SAVED event of exactly its response, written in an open arm.
THEOREM AcknowledgedIsDurable == Spec => []AckIsFundedAndDurable
<1>1. Inv => AckIsFundedAndDurable
    BY DEF Inv, Scoped, Durable, AckIsFundedAndDurable
<1> QED
    BY <1>1, Invariance, PTL

\* A resumed attempt is registered with the steps its parent stopped at: every
\* recorded checkpoint is of the state its worker froze in.
THEOREM ResumesWhereItStopped == Spec => []NothingRepeated
<1>1. Inv => NothingRepeated
    BY DEF Inv, Frozen
<1> QED
    BY <1>1, Invariance, PTL

\* The verdict CHECKPOINT_SAVED is passed over a stopped tree whose worker left
\* with the acknowledged state, and over an arm open even after that.
THEOREM SavedVerdictIsGenuine == Spec => SavedEndIsGenuine
<1> DEFINE Passed == outcome # "CHECKPOINT_SAVED" /\ outcome' = "CHECKPOINT_SAVED"
           Genuine == /\ Logged(Event("CHECKPOINT_SAVED", n, step[n]))
                      /\ n \notin running /\ code = "saved" /\ ~Closed
<1>1. ASSUME Inv, [Next]_vars, Passed PROVE Genuine
  <2> USE <1>1 DEF lineage, owner, frames, process
  <2>1. Judge
    <3>1. ~UNCHANGED outcome
        OBVIOUS
    <3>2. CASE OwnerStep
        BY <3>1, <3>2
        DEF OwnerStep, LeaveLoop, NothingToCollect, RequestFailed, EnterScope, ReadResponse, PublishArtifact,
            RecordCheckpoint, RecordSaved, EndScope, Acknowledge, CountSaved, StopTree, Finish, Settle,
            EndAttempt, Leave, Raise, Ends, NoSession
    <3>3. CASE \/ Tick \/ TimerFires \/ TimerWrites \/ WorkerStep \/ Fuse \/ HeartbeatLost
               \/ OwnerDies
        BY <3>1, <3>3
        DEF Tick, TimerFires, TimerWrites, WorkerStep, WorkerSteps, WorkerSaves, WorkerReadsAck,
            WorkerGivesUp, WorkerExits, Fuse, HeartbeatLost, OwnerDies, Leave, NoSession
    <3>4. CASE OperatorStep
        BY <3>1, <3>4
        DEF OperatorStep, Prepare, Resume, Recover, RecoverEnd, StrayEnds, Launch, Refuse, Retry, Register,
            CloseArm, ContinueArm, NoSession
    <3> QED
        BY <3>1, <3>2, <3>3, <3>4 DEF Next, vars
  <2>2. Verdict("CHECKPOINT_SAVED")
      BY <2>1 DEF Judge
  <2>3. seen = "saved" /\ saved /\ ~Closed
      BY <2>2 DEF Verdict, CheckpointStopped
  <2>4. ack /\ code = "saved" /\ n \notin running
      BY <2>1, <2>3 DEF Inv, Judged, Judge
  <2>5. Durable /\ response = step[n]
      BY <2>4 DEF Inv, Scoped, Frozen
  <2> QED
      BY <2>3, <2>4, <2>5 DEF Durable, Logged, Event
<1>2. Inv /\ [Next]_vars => (Passed => Genuine) \/ UNCHANGED vars
    BY <1>1
<1> QED
    BY <1>2, Invariance, PTL DEF Spec, SavedEndIsGenuine

-----------------------------------------------------------------------------
(* Every session ends: the stages of a call past its deadline.              *)

Underway == pc \notin {"idle", "dead"}
Over == ~Underway
Places == {"idle", "polling", "acking", "stopping", "judging", "finally", "settling", "ending", "dead"}
          \cup InScope
Placed == pc \in Places /\ clock \in {"early", "soft", "late"} /\ leaving \in BOOLEAN

LEMMA PlacedAlways == Spec => []Placed
<1>1. Init => Placed
    BY DEF Init, Placed, Places
<1>2. Placed /\ [Next]_vars => Placed'
  <2> SUFFICES ASSUME Placed, [Next]_vars PROVE Placed'
      OBVIOUS
  <2> USE DEF Placed, Places, InScope, lineage, owner, frames, process
  <2>1. CASE OwnerStep
      BY <2>1
      DEF OwnerStep, LeaveLoop, NothingToCollect, RequestFailed, EnterScope, ReadResponse, PublishArtifact,
          RecordCheckpoint, RecordSaved, EndScope, Acknowledge, CountSaved, StopTree, Judge, Finish, Settle,
          EndAttempt, Leave, Raise, Ends, Resumes, NoSession
  <2>2. CASE \/ Tick \/ TimerFires \/ TimerWrites \/ WorkerStep \/ Fuse \/ HeartbeatLost
             \/ OwnerDies \/ UNCHANGED vars
      BY <2>2
      DEF Tick, TimerFires, TimerWrites, WorkerStep, WorkerSteps, WorkerSaves, WorkerReadsAck,
          WorkerGivesUp, WorkerExits, Fuse, HeartbeatLost, OwnerDies, Leave, NoSession, vars
  <2>3. ASSUME NEW p, NEW k, Register(p, k) PROVE Placed'
      BY <2>3 DEF Register
  <2>4. ASSUME NEW a, Prepare(a) \/ Recover(a) \/ RecoverEnd(a) \/ StrayEnds(a) PROVE Placed'
      BY <2>4 DEF Prepare, Recover, RecoverEnd, StrayEnds
  <2>5. CASE Launch \/ Refuse \/ CloseArm \/ ContinueArm
      BY <2>5 DEF Launch, Refuse, CloseArm, ContinueArm, NoSession
  <2>6. CASE OperatorStep
      BY <2>3, <2>4, <2>5, <2>6 DEF OperatorStep, Resume, Retry
  <2> QED
      BY <2>1, <2>2, <2>6 DEF Next
<1> QED
    BY <1>1, <1>2, PTL DEF Spec

\* Whoever else steps while a call is under way, it stays where it is, or dies,
\* or a lost heartbeat makes it leave the loop; the clock only runs on.
LEMMA OthersLeaveTheCall ==
    ASSUME Placed, Underway, [Next]_vars
    PROVE  \/ OwnerStep
           \/ pc' = "dead"
           \/ /\ pc' = pc
              /\ leaving' = leaving \/ (pc = "polling" /\ leaving')
              /\ UNCHANGED clock \/ Tick
<1> USE DEF Underway, lineage, owner, frames, process
<1>1. CASE \/ Tick \/ TimerFires \/ TimerWrites \/ WorkerStep \/ Fuse \/ HeartbeatLost
           \/ OwnerDies \/ UNCHANGED vars
    BY <1>1
    DEF Tick, TimerFires, TimerWrites, WorkerStep, WorkerSteps, WorkerSaves, WorkerReadsAck,
        WorkerGivesUp, WorkerExits, Fuse, HeartbeatLost, OwnerDies, Leave, vars
<1>2. CASE OperatorStep
    BY <1>2
    DEF OperatorStep, Prepare, Resume, Recover, RecoverEnd, StrayEnds, Launch, Refuse, Retry, Register,
        CloseArm, ContinueArm
<1> QED
    BY <1>1, <1>2 DEF Next

LEMMA OwnerKeepsClock ==
    ASSUME Placed, OwnerStep
    PROVE  UNCHANGED clock /\ leaving' \in BOOLEAN
BY DEF Placed, owner, frames, process, OwnerStep, LeaveLoop, NothingToCollect, RequestFailed, EnterScope,
   ReadResponse, PublishArtifact, RecordCheckpoint, RecordSaved, EndScope, Acknowledge, CountSaved, StopTree,
   Judge, Finish, Settle, EndAttempt, Leave, Raise, Ends, NoSession

Exchanging == Late /\ pc \in InScope \cup {"acking"}
Looping == Late /\ pc = "polling" /\ ~leaving
LeavingLoop == Late /\ pc = "polling" /\ leaving
At(place) == Late /\ pc = place

\* Each stage is kept or followed by a later one.
StagesFollow ==
    /\ Exchanging => \/ Exchanging' \/ Looping' \/ LeavingLoop' \/ At("stopping")' \/ At("finally")'
                     \/ Over'
    /\ Looping => Looping' \/ LeavingLoop' \/ Over'
    /\ LeavingLoop => LeavingLoop' \/ At("stopping")' \/ Over'
    /\ At("stopping") => At("stopping")' \/ At("judging")' \/ At("finally")' \/ Over'
    /\ At("judging") => At("judging")' \/ At("finally")' \/ Over'
    /\ At("finally") => At("finally")' \/ At("settling")' \/ Over'
    /\ At("settling") => At("settling")' \/ At("ending")' \/ Over'
    /\ At("ending") => At("ending")' \/ Over'

\* The owner's step leaves it.
StageLeft ==
    /\ Exchanging => Looping' \/ LeavingLoop' \/ At("stopping")' \/ At("finally")'
    /\ Looping => LeavingLoop'
    /\ LeavingLoop => At("stopping")'
    /\ At("stopping") => At("judging")' \/ At("finally")'
    /\ At("judging") => At("finally")'
    /\ At("finally") => At("settling")' \/ Over'
    /\ At("settling") => At("ending")'
    /\ At("ending") => Over'

LEMMA OwnerStepAdvances == Placed /\ OwnerStep => StageLeft
<1> SUFFICES ASSUME Placed, OwnerStep PROVE StageLeft
    OBVIOUS
<1>1. ASSUME Late
      PROVE  /\ pc \in InScope \cup {"acking"} => pc' \in {"polling", "stopping", "finally"}
             /\ pc = "polling" /\ ~leaving => pc' = "polling" /\ leaving'
             /\ pc = "polling" /\ leaving => pc' = "stopping"
             /\ pc = "stopping" => pc' \in {"judging", "finally"}
             /\ pc = "judging" => pc' = "finally"
             /\ pc = "finally" => pc' \in {"settling", "idle"}
             /\ pc = "settling" => pc' = "ending"
             /\ pc = "ending" => pc' = "idle"
    BY <1>1 DEF Placed, Late, InScope, Collecting, OwnerStep, LeaveLoop, NothingToCollect, RequestFailed,
       EnterScope, ReadResponse, PublishArtifact, RecordCheckpoint, RecordSaved, EndScope, Acknowledge,
       CountSaved, StopTree, Judge, Finish, Settle, EndAttempt, Leave, Raise, Ends, Resumes, owner
<1> QED
    BY <1>1, OwnerKeepsClock
    DEF StageLeft, Exchanging, Looping, LeavingLoop, At, Over, Underway, Late, InScope

LEMMA StagesAreOrdered == Placed /\ [Next]_vars => StagesFollow
<1> SUFFICES ASSUME Placed, [Next]_vars PROVE StagesFollow
    OBVIOUS
<1>1. CASE OwnerStep
    BY <1>1, OwnerStepAdvances DEF StageLeft, StagesFollow
<1>2. CASE Late /\ Underway /\ ~OwnerStep
  <2>1. Over' \/ (Late' /\ pc' = pc /\ (leaving' = leaving \/ (pc = "polling" /\ leaving')))
      BY <1>2, OthersLeaveTheCall DEF Over, Underway, Late, Tick
  <2> QED
      BY <2>1 DEF StagesFollow, Exchanging, Looping, LeavingLoop, At, Over, Placed
<1>3. CASE ~(Late /\ Underway)
    BY <1>3 DEF StagesFollow, Exchanging, Looping, LeavingLoop, At, Underway, InScope
<1> QED
    BY <1>1, <1>2, <1>3

\* How far a call is from its return.
Distance ==
    CASE Over -> 0
      [] pc = "ending" -> 1
      [] pc = "settling" -> 2
      [] pc = "finally" -> 3
      [] pc = "judging" -> 4
      [] pc = "stopping" -> 5
      [] pc = "polling" /\ leaving -> 6
      [] pc = "polling" /\ ~leaving -> 7
      [] OTHER -> 8

\* Past the deadline every step of the owner brings its call nearer to its
\* return, and nobody's step takes it back: no answer of the worker, no write of
\* the timer and no caller makes it wait or start over.
THEOREM LateCallsOnlyAdvance ==
    Spec => [][Late /\ Underway =>
                  Distance' <= Distance /\ (OwnerStep => Distance' < Distance)]_vars
<1>1. ASSUME Placed, [Next]_vars, Late, Underway
      PROVE  Distance' <= Distance /\ (OwnerStep => Distance' < Distance)
    BY <1>1, StagesAreOrdered, OwnerStepAdvances
    DEF StagesFollow, StageLeft, Distance, Exchanging, Looping, LeavingLoop, At, Over, Underway, Placed,
        Places, InScope
<1> QED
    BY <1>1, PlacedAlways, PTL DEF Spec

\* What the provers cannot see, because ENABLED is only a name to them: past the
\* deadline a call under way has a step, before it the clock has one.
\* OwnerHasAStep and ClockHasAStep give one with the next value of every
\* variable.
StepsExist ==
    [](/\ Underway /\ Late => ENABLED <<OwnerStep>>_vars
       /\ Underway /\ ~Late => ENABLED <<Tick>>_vars)

LEMMA ClockHasAStep ==
    ASSUME Placed, Underway, ~Late,
           clock' = IF clock = "early" THEN "soft" ELSE "late",
           UNCHANGED <<lineage, owner, frames, process, timer>>
    PROVE  <<Tick>>_vars
BY DEF Tick, Underway, Late, Placed, vars

\* A next value of every variable for an owner past the deadline.
WayOut ==
    /\ UNCHANGED <<frames, step, clock>>
    /\ \/ /\ pc \in (InScope \ {"scope"}) \cup {"acking", "judging"}
          /\ pc' = "finally" /\ outcome' = "TIMEOUT"
          /\ UNCHANGED <<lineage, leaving, saved, stop, seen, stoppedInTime, process, timer>>
       \/ pc = "scope" /\ Ends /\ UNCHANGED <<lineage, process, timer>>
       \/ /\ pc = "polling" /\ ~leaving
          /\ leaving' = TRUE /\ outcome' = "TIMEOUT" /\ seen' = code
          /\ UNCHANGED <<lineage, pc, saved, stop, stoppedInTime, process, timer>>
       \/ /\ pc = "polling" /\ leaving /\ pc' = "stopping"
          /\ UNCHANGED <<lineage, leaving, outcome, saved, stop, seen, stoppedInTime, process, timer>>
       \/ /\ pc = "stopping" /\ pc' = "finally" /\ outcome' = "TIMEOUT"
          /\ timer' = IF timer = "armed" THEN "quiet" ELSE timer
          /\ UNCHANGED <<lineage, leaving, saved, stop, seen, stoppedInTime, process>>
       \/ /\ pc = "finally" /\ pc' = "settling"
          /\ running' = running \ {n} /\ worker' = "gone"
          /\ code' = IF code = "none" THEN "fail" ELSE code
          /\ outcome' = IF timer = "issuing" THEN "INTERRUPTED"
                        ELSE IF outcome = "SUCCEEDED" THEN "TIMEOUT" ELSE outcome
          /\ timer' = IF timer = "armed" THEN "quiet" ELSE timer
          /\ UNCHANGED <<lineage, leaving, saved, stop, seen, stoppedInTime>>
       \/ /\ pc = "settling" /\ pc' = "ending" /\ unsettled' = unsettled \ {n}
          /\ UNCHANGED <<journal, n, state, parent, prepared, leaving, outcome, saved, stop, seen>>
          /\ UNCHANGED <<stoppedInTime, process, timer>>
       \/ /\ pc = "ending" /\ pc' = "idle" /\ NoSession
          /\ state' = [state EXCEPT ![n] = outcome]
          /\ UNCHANGED <<journal, n, unsettled, parent, prepared, process, timer>>

LEMMA OwnerHasAStep ==
    ASSUME Placed, Underway, Late, WayOut
    PROVE  <<OwnerStep>>_vars
<1> USE DEF WayOut, Late, InScope, OwnerStep, Raise, vars, lineage, owner, frames, process
<1>1. CASE pc \in (InScope \ {"scope"}) \cup {"acking", "judging"}
    BY <1>1 DEF Placed, PublishArtifact, RecordCheckpoint, RecordSaved, EndScope, Acknowledge,
        CountSaved, Judge
<1>2. CASE pc = "scope"
    BY <1>2 DEF ReadResponse, Ends, Resumes
<1>3. CASE pc = "polling" /\ ~leaving
    BY <1>3 DEF LeaveLoop, Leave
<1>4. CASE pc = "polling" /\ leaving
    BY <1>4 DEF NothingToCollect
<1>5. CASE pc = "stopping"
    BY <1>5 DEF StopTree
<1>6. CASE pc = "finally"
    BY <1>6 DEF Finish
<1>7. CASE pc = "settling"
    BY <1>7 DEF Settle
<1>8. CASE pc = "ending"
    BY <1>8 DEF EndAttempt, NoSession
<1> QED
    BY <1>1, <1>2, <1>3, <1>4, <1>5, <1>6, <1>7, <1>8 DEF Placed, Places, Underway

LEMMA DeadlineComes == FairSpec /\ StepsExist => (Underway ~> (Underway /\ Late) \/ Over)
<1> DEFINE Early == Underway /\ clock = "early"
           Soft == Underway /\ clock = "soft"
           Due == Underway /\ Late
<1>1. Placed /\ Early /\ [Next]_vars => Early' \/ Soft' \/ Over'
    BY OthersLeaveTheCall, OwnerKeepsClock DEF Underway, Over, Tick, Late
<1>2. Placed /\ Soft /\ [Next]_vars => Soft' \/ Due' \/ Over'
    BY OthersLeaveTheCall, OwnerKeepsClock DEF Underway, Over, Tick, Late
<1>3. Placed /\ <<Tick>>_vars => (Early => Soft') /\ (Soft => Due')
    BY DEF Underway, Late, Tick, owner
<1>4. Placed /\ Underway => Early \/ Soft \/ Due
    BY DEF Placed, Late
<1>5. Early \/ Soft => Underway /\ ~Late
    BY DEF Late
<1> QED
    BY <1>1, <1>2, <1>3, <1>4, <1>5, PlacedAlways, PTL DEF FairSpec, Spec, StepsExist

\* Every session returns or dies, although neither its worker nor its timer ever
\* answers, if the clock runs and the owner takes its steps: the one liveness
\* argument of this module, from the stages above.
THEOREM SessionsEnd == FairSpec /\ StepsExist => SessionEnds
<1> DEFINE Settling == At("settling") \/ At("ending")
           LateUnderway == \/ Exchanging \/ Looping \/ LeavingLoop \/ At("stopping") \/ At("judging")
                           \/ At("finally") \/ Settling
<1>1. Placed /\ [Next]_vars => StagesFollow
    BY StagesAreOrdered
<1>2. Placed /\ <<OwnerStep>>_vars => StageLeft
    BY OwnerStepAdvances
<1>3. LateUnderway => Underway /\ Late
    BY DEF Exchanging, Looping, LeavingLoop, At, Underway, InScope
<1>4. Placed /\ Underway /\ Late => LateUnderway
    BY DEF Exchanging, Looping, LeavingLoop, At, Underway, Placed, Places
<1> USE <1>1, <1>2, <1>3, PlacedAlways DEF FairSpec, Spec, StepsExist, StagesFollow, StageLeft
<1>a. FairSpec /\ StepsExist => (Settling ~> Over)
    BY PTL
<1>b. FairSpec /\ StepsExist => (At("finally") ~> Settling \/ Over)
    BY PTL
<1>c. FairSpec /\ StepsExist => (At("judging") ~> At("finally") \/ Over)
    BY PTL
<1>d. FairSpec /\ StepsExist => (At("stopping") ~> At("judging") \/ At("finally") \/ Over)
    BY PTL
<1>e. FairSpec /\ StepsExist => (LeavingLoop ~> At("stopping") \/ Over)
    BY PTL
<1>f. FairSpec /\ StepsExist => (Looping ~> LeavingLoop \/ Over)
    BY PTL
<1>g. FairSpec /\ StepsExist =>
          (Exchanging ~> Looping \/ LeavingLoop \/ At("stopping") \/ At("finally") \/ Over)
    BY PTL
<1>h. FairSpec => []Placed
    BY PTL
<1>i. (pc = "polling" => Underway) /\ (Over <=> pc \in {"idle", "dead"})
    BY DEF Underway, Over
<1> QED
    BY <1>4, <1>a, <1>b, <1>c, <1>d, <1>e, <1>f, <1>g, <1>h, <1>i, DeadlineComes, PTL DEF SessionEnds
=============================================================================
