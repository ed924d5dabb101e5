-------------------------- MODULE CheckpointExchange --------------------------
(***************************************************************************)
(* The soft checkpoint of a supervised job and its resumption.             *)
(*                                                                         *)
(* Owner (ResearchSupervisor.run), soft timer (signal_checkpoint) and      *)
(* worker (WorkerControl) meet through three files of the attempt's        *)
(* directory: request, response, acknowledgement.  The owner makes the     *)
(* response durable in the journal before it acknowledges it; other        *)
(* callers close and continue the arm; a stopped attempt is resumed from   *)
(* its recorded checkpoint (SharedRecovery).                               *)
(***************************************************************************)
EXTENDS Integers, Sequences, FiniteSets

CONSTANTS
    MaxAttempts,   \* attempts of the cell
    TotalSteps,    \* steps of the method
    Continuations  \* how often the arm may be continued

ASSUME BoundsAssumption ==
    MaxAttempts \in Nat \ {0} /\ TotalSteps \in Nat \ {0} /\ Continuations \in Nat

Attempts == 1 .. MaxAttempts

VARIABLES
    journal,   \* the events of the chain that matter here
    n,         \* the attempt registered last
    state,     \* attempt -> recorded state
    unsettled, \* attempts whose reservation is not settled
    running,   \* attempts whose process tree has a running member
    step,      \* attempt -> steps its method has behind it
    parent,    \* attempt -> the attempt it was resumed from, or 0
    prepared,  \* parents a caller of resume has validated
    \* one session of owner and worker
    pc, leaving, outcome, saved, stop, seen, stoppedInTime,
    clock,     \* "early", "soft" (80% passed), "late" (hard deadline passed)
    timer,     \* the soft timer and its request
    worker, code,
    request, response, ack  \* the frames

lineage == <<journal, n, state, unsettled, parent, prepared>>
owner == <<pc, leaving, outcome, saved, stop, seen, stoppedInTime>>
frames == <<request, response, ack>>
process == <<running, step, worker, code>>
vars == <<lineage, owner, frames, process, clock, timer>>

NoFrame == -1
Final == {"SUCCEEDED", "FAILED", "CHECKPOINT_SAVED", "INTERRUPTED", "TIMEOUT",
          "BUDGET_EXHAUSTED", "PREFLIGHT_FAILED"}
InScope == {"scope", "handling", "stored", "noted", "recorded"}

Event(kind, a, k) == [kind |-> kind, attempt |-> a, step |-> k]
Logged(event) == \E i \in DOMAIN journal : journal[i] = event
\* The fold of ARM_CLOSED and ARM_CONTINUATION over the first k events.
ClosedAt(k) ==
    \E i \in 1 .. k : /\ journal[i].kind = "ARM_CLOSED"
                      /\ \A j \in i + 1 .. k : journal[j].kind # "ARM_CONTINUATION"
Closed == ClosedAt(Len(journal))
\* Closing a closed arm again changes nothing.
Closing == IF Closed THEN journal ELSE Append(journal, Event("ARM_CLOSED", 0, 0))
Late == clock = "late"
Terminal(a) == state[a] \in Final

Events == [kind : {"CHECKPOINT", "CHECKPOINT_SAVED", "ARM_CLOSED", "ARM_CONTINUATION"},
           attempt : Attempts \cup {0}, step : 0 .. TotalSteps]

TypeOK ==
    /\ journal \in Seq(Events)
    /\ n \in Attempts
    /\ state \in [Attempts -> Final \cup {"ABSENT", "REGISTERED", "RUNNING"}]
    /\ unsettled \subseteq Attempts /\ running \subseteq Attempts /\ prepared \subseteq Attempts
    /\ step \in [Attempts -> 0 .. TotalSteps]
    /\ parent \in [Attempts -> Attempts \cup {0}]
    /\ pc \in {"idle", "polling", "acking", "stopping", "judging", "finally", "settling",
               "ending", "dead"} \cup InScope
    /\ outcome \in Final
    /\ leaving \in BOOLEAN /\ saved \in BOOLEAN /\ stop \in BOOLEAN /\ stoppedInTime \in BOOLEAN
    /\ clock \in {"early", "soft", "late"}
    /\ timer \in {"armed", "issuing", "sent", "quiet", "failed"}
    /\ worker \in {"none", "working", "waiting", "released", "gone"}
    /\ code \in {"none", "ok", "fail", "saved"} /\ seen \in {"none", "ok", "fail", "saved"}
    /\ request \in BOOLEAN /\ ack \in BOOLEAN
    /\ response \in 0 .. TotalSteps \cup {NoFrame}

Init ==
    /\ journal = <<>> /\ n = 1
    /\ state = [a \in Attempts |-> IF a = 1 THEN "REGISTERED" ELSE "ABSENT"]
    /\ unsettled = {} /\ running = {} /\ prepared = {}
    /\ step = [a \in Attempts |-> 0] /\ parent = [a \in Attempts |-> 0]
    /\ pc = "idle" /\ leaving = FALSE /\ outcome = "FAILED" /\ saved = FALSE /\ stop = FALSE
    /\ seen = "none" /\ stoppedInTime = FALSE
    /\ clock = "early" /\ timer = "quiet" /\ worker = "none" /\ code = "none"
    /\ request = FALSE /\ response = NoFrame /\ ack = FALSE

\* The variables of a call of run vanish with it.
NoSession ==
    /\ leaving' = FALSE /\ outcome' = "FAILED" /\ saved' = FALSE
    /\ stop' = FALSE /\ seen' = "none" /\ stoppedInTime' = FALSE

-----------------------------------------------------------------------------
(* The clock and the soft timer, a thread of the owner. *)

Tick ==
    /\ pc # "idle" /\ ~Late /\ (pc = "dead" => n \in running)
    /\ clock' = IF clock = "early" THEN "soft" ELSE "late"
    /\ UNCHANGED <<lineage, owner, frames, process, timer>>

\* At 80%: nothing is sent to a worker that exited or after the deadline.
TimerFires ==
    /\ timer = "armed" /\ clock # "early"
    /\ timer' = IF Late \/ code # "none" THEN "quiet" ELSE "issuing"
    /\ UNCHANGED <<lineage, owner, frames, process, clock>>

\* write_frame looks at the deadline before and after the frame is visible.
TimerWrites ==
    /\ timer = "issuing"
    /\ \/ ~Late /\ ~request /\ request' = TRUE /\ timer' = timer
       \/ ~Late /\ request /\ request' = request /\ timer' = "sent"
       \/ request' = request /\ timer' = "failed"
    /\ UNCHANGED <<lineage, owner, process, response, ack, clock>>

-----------------------------------------------------------------------------
(* The worker. *)

Exit(c) ==
    /\ worker' = "gone" /\ code' = c
    /\ running' = running \ {n}

WorkerSteps ==
    /\ worker = "working" /\ step[n] < TotalSteps
    /\ step' = [step EXCEPT ![n] = @ + 1]
    /\ UNCHANGED <<lineage, owner, frames, running, worker, code, clock, timer>>

\* save: the response becomes visible, then the worker waits for its answer.
WorkerSaves ==
    /\ worker = "working" /\ request /\ ~Late
    /\ response' = step[n] /\ worker' = "waiting"
    /\ UNCHANGED <<lineage, owner, request, ack, running, step, code, clock, timer>>

WorkerReadsAck ==
    /\ worker = "waiting" /\ ack /\ ~Late
    /\ worker' = "released"
    /\ UNCHANGED <<lineage, owner, frames, running, step, code, clock, timer>>

\* Mutant of WorkerGivesUp: a worker without an answer goes on with its method.
WorkerGoesOn ==
    /\ worker = "waiting"
    /\ worker' = "working"
    /\ UNCHANGED <<lineage, owner, frames, running, step, code, clock, timer>>

\* An unanswered save ends the worker at the deadline.
WorkerGivesUp ==
    /\ worker = "waiting" /\ Late
    /\ Exit("fail")
    /\ UNCHANGED <<lineage, owner, frames, step, clock, timer>>

WorkerExits ==
    /\ \/ worker = "released" /\ Exit("saved")
       \/ worker = "working" /\ step[n] = TotalSteps /\ Exit("ok")
       \/ worker \in {"working", "waiting", "released"} /\ Exit("fail")
    /\ UNCHANGED <<lineage, owner, frames, step, clock, timer>>

\* The hard fuse of owner and wrapper kills the tree without any lock.
Fuse ==
    /\ Late /\ n \in running
    /\ Exit("fail")
    /\ UNCHANGED <<lineage, owner, frames, step, clock, timer>>

\* A tree that outlived its session ends, or is ended by an operator.
StrayEnds(a) ==
    /\ a \in running /\ (a # n \/ pc \in {"idle", "dead"})
    /\ running' = running \ {a}
    /\ IF a = n THEN worker' = "gone" /\ code' = "fail" ELSE UNCHANGED <<worker, code>>
    /\ UNCHANGED <<lineage, owner, frames, step, clock, timer>>

-----------------------------------------------------------------------------
(* The owner: the polling loop and collect_checkpoint. *)

Leave(o) ==
    /\ leaving' = TRUE /\ outcome' = o /\ seen' = code

\* The owner waits for the request to be written, up to the hard deadline.
AwaitsRequest == clock = "soft" /\ timer \in {"armed", "issuing"} /\ ~saved

\* Mutant of LeaveLoop: the wait for the request has no bound.
LeaveLoopUnlessWriting ==
    /\ pc = "polling" /\ ~leaving /\ timer # "issuing"
    /\ \/ code # "none" /\ Leave("FAILED")
       \/ Late /\ Leave("TIMEOUT")
       \/ Closed /\ ~saved /\ (clock = "early" \/ timer = "quiet") /\ Leave("BUDGET_EXHAUSTED")
    /\ UNCHANGED <<lineage, pc, saved, stop, stoppedInTime, frames, process, clock, timer>>

\* The loop ends: exit, deadline or a closed arm. With a saved checkpoint the
\* budget is not read again before the tree is stopped.
LeaveLoop ==
    /\ pc = "polling" /\ ~leaving
    /\ \/ code # "none" /\ Leave("FAILED")
       \/ Late /\ Leave("TIMEOUT")
       \/ Closed /\ ~saved /\ (clock = "early" \/ timer = "quiet") /\ Leave("BUDGET_EXHAUSTED")
    /\ UNCHANGED <<lineage, pc, saved, stop, stoppedInTime, frames, process, clock, timer>>

HeartbeatLost ==
    /\ pc = "polling" /\ ~leaving /\ ~AwaitsRequest
    /\ Leave("INTERRUPTED")
    /\ UNCHANGED <<lineage, pc, saved, stop, stoppedInTime, frames, process, clock, timer>>

\* An exception: past the deadline it is a timeout, else an interruption.
Raise ==
    /\ outcome' \in IF Late THEN {"TIMEOUT"} ELSE {"INTERRUPTED"}
    /\ pc' = "finally"
    /\ UNCHANGED <<leaving, saved, stop, seen, stoppedInTime>>

Resumes == IF leaving THEN "stopping" ELSE "polling"

\* collect_checkpoint comes to nothing: already saved, too late, no request.
NothingToCollect ==
    /\ pc = "polling" /\ leaving
    /\ stop \/ saved \/ Late \/ clock = "early" \/ timer = "quiet"
    /\ pc' = "stopping"
    /\ UNCHANGED <<lineage, leaving, outcome, saved, stop, seen, stoppedInTime, frames, process, clock, timer>>

Collecting == pc = "polling" /\ ~stop /\ ~saved /\ ~Late

RequestFailed ==
    /\ Collecting /\ timer = "failed"
    /\ Raise
    /\ UNCHANGED <<lineage, frames, process, clock, timer>>

\* The scope holds the writer lock up to its end; first the budget.
EnterScope ==
    /\ Collecting /\ timer = "sent"
    /\ stop' = Closed
    /\ pc' = "scope"
    /\ UNCHANGED <<lineage, leaving, outcome, saved, seen, stoppedInTime, frames, process, clock, timer>>

\* The scope ends: the uncached final pass reads the budget once more.
Ends ==
    /\ stop' = (stop \/ Closed)
    /\ outcome' = IF stop' THEN "BUDGET_EXHAUSTED" ELSE outcome
    /\ pc' = IF stop' THEN "stopping" ELSE Resumes
    /\ seen' = IF stop' /\ ~leaving THEN code ELSE seen
    /\ UNCHANGED <<leaving, saved, stoppedInTime>>

ReadResponse ==
    /\ pc = "scope"
    /\ \/ (stop \/ Late \/ response = NoFrame) /\ Ends
       \/ /\ ~stop /\ ~Late /\ response # NoFrame
          /\ pc' = "handling"
          /\ UNCHANGED <<leaving, outcome, saved, stop, seen, stoppedInTime>>
    /\ UNCHANGED <<lineage, frames, process, clock, timer>>

\* checkpoint_handler: the artifact, then its CHECKPOINT event.
PublishArtifact ==
    /\ pc = "handling"
    /\ \/ ~Late /\ pc' = "stored" /\ UNCHANGED <<leaving, outcome, saved, stop, seen, stoppedInTime>>
       \/ Raise
    /\ UNCHANGED <<lineage, frames, process, clock, timer>>

RecordCheckpoint ==
    /\ pc = "stored"
    /\ \/ /\ ~Late
          /\ journal' = Append(journal, Event("CHECKPOINT", n, response))
          /\ pc' = "noted"
          /\ UNCHANGED <<leaving, outcome, saved, stop, seen, stoppedInTime>>
       \/ Raise /\ UNCHANGED journal
    /\ UNCHANGED <<n, state, unsettled, parent, prepared, frames, process, clock, timer>>

\* Mutant of RecordSaved: acknowledges a checkpoint whose saving failed.
RecordSavedOrNot ==
    /\ pc = "noted"
    /\ pc' = "recorded"
    /\ UNCHANGED <<lineage, leaving, outcome, saved, stop, seen, stoppedInTime, frames, process, clock, timer>>

RecordSaved ==
    /\ pc = "noted"
    /\ \/ /\ ~Late
          /\ journal' = Append(journal, Event("CHECKPOINT_SAVED", n, response))
          /\ pc' = "recorded"
          /\ UNCHANGED <<leaving, outcome, saved, stop, seen, stoppedInTime>>
       \/ Raise /\ UNCHANGED journal
    /\ UNCHANGED <<n, state, unsettled, parent, prepared, frames, process, clock, timer>>

EndScope ==
    /\ pc = "recorded"
    /\ \/ (Closed \/ Late) /\ Ends
       \/ /\ ~Closed /\ ~Late
          /\ pc' = "acking" /\ stop' = FALSE
          /\ UNCHANGED <<leaving, outcome, saved, seen, stoppedInTime>>
       \/ Raise
    /\ UNCHANGED <<lineage, frames, process, clock, timer>>

\* The frame may become visible and the owner still find the deadline passed.
Acknowledge ==
    /\ pc = "acking" /\ ~ack
    /\ \/ ~Late /\ ack' = TRUE /\ UNCHANGED owner
       \/ Raise /\ UNCHANGED ack
    /\ UNCHANGED <<lineage, request, response, process, clock, timer>>

CountSaved ==
    /\ pc = "acking" /\ ack
    /\ \/ /\ ~Late
          /\ saved' = TRUE /\ pc' = Resumes
          /\ UNCHANGED <<leaving, outcome, stop, seen, stoppedInTime>>
       \/ Late /\ Raise
    /\ UNCHANGED <<lineage, frames, process, clock, timer>>

-----------------------------------------------------------------------------
(* The owner: stop, verdict, settlement. *)

StopTree ==
    /\ pc = "stopping"
    /\ timer' = IF timer = "armed" THEN "quiet" ELSE timer
    /\ \/ /\ running' = running \ {n} /\ worker' = "gone"
          /\ code' = IF code = "none" THEN "fail" ELSE code
          /\ stoppedInTime' = ~Late /\ pc' = "judging"
          /\ UNCHANGED <<leaving, outcome, saved, stop, seen>>
       \/ Raise /\ UNCHANGED <<running, worker, code>>
    /\ UNCHANGED <<lineage, frames, step, clock>>

CheckpointStopped == seen = "saved" /\ saved /\ stoppedInTime

\* Mutant of Verdict: no fresh budget after the acknowledgement.
VerdictOnStop(o) ==
    IF seen = "none" THEN o = outcome
    ELSE IF Late /\ ~CheckpointStopped THEN o = "TIMEOUT"
    ELSE IF stop THEN o = "BUDGET_EXHAUSTED"
    ELSE IF CheckpointStopped THEN o = "CHECKPOINT_SAVED"
    ELSE IF seen = "ok" THEN o \in {"SUCCEEDED", outcome}
    ELSE o = outcome

\* What the owner makes of exit code, deadline, fresh budget and checkpoint.
Verdict(o) ==
    IF seen = "none" THEN o = outcome
    ELSE IF Late /\ ~CheckpointStopped THEN o = "TIMEOUT"
    ELSE IF stop \/ (saved /\ Closed) THEN o = "BUDGET_EXHAUSTED"
    ELSE IF CheckpointStopped THEN o = "CHECKPOINT_SAVED"
    ELSE IF seen = "ok" THEN o \in {"SUCCEEDED", outcome}
    ELSE o = outcome

Judge ==
    /\ pc = "judging"
    /\ \/ \E o \in Final : Verdict(o) /\ outcome' = o
       \/ outcome' = IF Late THEN "TIMEOUT" ELSE "INTERRUPTED"
    /\ pc' = "finally"
    /\ UNCHANGED <<lineage, leaving, saved, stop, seen, stoppedInTime, frames, process, clock, timer>>

\* finally: stop again; a request still being written makes it an interruption.
Finish ==
    /\ pc = "finally"
    /\ timer' = IF timer = "armed" THEN "quiet" ELSE timer
    /\ \/ /\ running' = running \ {n} /\ worker' = "gone"
          /\ code' = IF code = "none" THEN "fail" ELSE code
          /\ outcome' = IF timer = "issuing" THEN "INTERRUPTED"
                        ELSE IF outcome = "SUCCEEDED" /\ Late THEN "TIMEOUT" ELSE outcome
          /\ pc' = "settling"
          /\ UNCHANGED <<journal, state, leaving, saved, stop, seen, stoppedInTime>>
       \/ /\ n \in running
          /\ journal' = Closing
          /\ state' = [state EXCEPT ![n] = "INTERRUPTED"]
          /\ pc' = "idle" /\ NoSession
          /\ UNCHANGED <<running, worker, code>>
    /\ UNCHANGED <<n, unsettled, parent, prepared, frames, step, clock>>

\* A settlement closes the arm when nothing is left of it.
Settle ==
    /\ pc = "settling"
    /\ unsettled' = unsettled \ {n}
    /\ journal' \in {journal, Closing}
    /\ pc' = "ending"
    /\ UNCHANGED <<n, state, parent, prepared, leaving, outcome, saved, stop, seen, stoppedInTime>>
    /\ UNCHANGED <<frames, process, clock, timer>>

EndAttempt ==
    /\ pc = "ending"
    /\ state' = [state EXCEPT ![n] = outcome]
    /\ pc' = "idle" /\ NoSession
    /\ UNCHANGED <<journal, n, unsettled, parent, prepared, frames, process, clock, timer>>

\* The timer is a thread of the owner and dies with it.
OwnerDies ==
    /\ pc \notin {"idle", "dead"}
    /\ pc' = "dead" /\ NoSession /\ timer' = "quiet"
    /\ UNCHANGED <<lineage, frames, process, clock>>

-----------------------------------------------------------------------------
(* Registration, resumption and the operator. *)

\* A session of the current attempt: funded, launched, nothing exchanged yet.
Launch ==
    /\ pc = "idle" /\ state[n] = "REGISTERED" /\ ~Closed
    /\ state' = [state EXCEPT ![n] = "RUNNING"]
    /\ unsettled' = unsettled \cup {n}
    /\ running' = running \cup {n}
    /\ pc' = "polling" /\ NoSession
    /\ timer' = "armed" /\ worker' = "working"
    /\ UNCHANGED <<journal, n, parent, prepared, step, frames, code, clock>>

\* A refused reservation or a failed preflight.
Refuse ==
    /\ pc = "idle" /\ state[n] = "REGISTERED"
    /\ state' = [state EXCEPT ![n] = IF Closed THEN "BUDGET_EXHAUSTED" ELSE "PREFLIGHT_FAILED"]
    /\ UNCHANGED <<journal, n, unsettled, parent, prepared, owner, frames, process, clock, timer>>

\* prepare: a stopped parent, an open arm, an authoritative CHECKPOINT event.
Resumable(p) ==
    /\ state[p] \in {"FAILED", "CHECKPOINT_SAVED", "INTERRUPTED"}
    /\ ~Closed

Prepare(p) ==
    /\ pc \notin InScope
    /\ Resumable(p)
    /\ \E k \in 0 .. TotalSteps : Logged(Event("CHECKPOINT", p, k))
    /\ prepared' = prepared \cup {p}
    /\ UNCHANGED <<journal, n, state, unsettled, parent, owner, frames, process, clock, timer>>

\* new_attempt: every attempt of the cell has ended and none succeeded. Each
\* attempt has a directory, and so frames, of its own.
MayRegister ==
    /\ n < MaxAttempts
    /\ \A a \in 1 .. n : Terminal(a) /\ state[a] # "SUCCEEDED"

Register(p, k) ==
    /\ pc \in {"idle", "dead"} /\ MayRegister
    /\ n' = n + 1
    /\ state' = [state EXCEPT ![n + 1] = "REGISTERED"]
    /\ parent' = [parent EXCEPT ![n + 1] = p]
    /\ step' = [step EXCEPT ![n + 1] = k]
    /\ pc' = "idle" /\ worker' = "none" /\ code' = "none" /\ timer' = "quiet" /\ clock' = "early"
    /\ request' = FALSE /\ response' = NoFrame /\ ack' = FALSE
    /\ UNCHANGED <<journal, unsettled, running, leaving, outcome, saved, stop, seen, stoppedInTime>>

Resume(p) ==
    /\ p \in prepared
    /\ prepared' = prepared \ {p}
    /\ \E k \in 0 .. TotalSteps : Logged(Event("CHECKPOINT", p, k)) /\ Register(p, k)

\* A plain retry begins anew.
Retry == Register(0, 0) /\ UNCHANGED prepared

\* recover_unknown, for a reservation whose tree has stopped.
Recover(a) ==
    /\ a \in unsettled /\ a \notin running
    /\ pc \notin InScope /\ (a # n \/ pc \in {"idle", "dead"})
    /\ unsettled' = unsettled \ {a}
    /\ journal' = Closing
    /\ state' = [state EXCEPT ![a] = IF Terminal(a) THEN @ ELSE "INTERRUPTED"]
    /\ UNCHANGED <<n, parent, prepared, owner, frames, process, clock, timer>>

\* An attempt whose owner died between settlement and end.
RecoverEnd(a) ==
    /\ a = n /\ pc = "dead" /\ a \notin unsettled /\ state[a] = "RUNNING"
    /\ journal' = Closing
    /\ state' = [state EXCEPT ![a] = "INTERRUPTED"]
    /\ UNCHANGED <<n, unsettled, parent, prepared, owner, frames, process, clock, timer>>

\* Another caller's settlement closes the arm.
CloseArm ==
    /\ pc \notin InScope /\ ~Closed
    /\ journal' = Closing
    /\ UNCHANGED <<n, state, unsettled, parent, prepared, owner, frames, process, clock, timer>>

\* Mutant of ContinueArm: open reservations do not matter.
ContinueUnsettled ==
    /\ pc \notin InScope /\ Closed /\ (state[n] = "REGISTERED" \/ Terminal(n))
    /\ Cardinality({i \in DOMAIN journal : journal[i].kind = "ARM_CONTINUATION"}) < Continuations
    /\ journal' = Append(journal, Event("ARM_CONTINUATION", 0, 0))
    /\ UNCHANGED <<n, state, unsettled, parent, prepared, owner, frames, process, clock, timer>>

\* continue_arm: everything settled, and a live approval.
ContinueArm ==
    /\ pc \notin InScope /\ Closed /\ unsettled = {} /\ (state[n] = "REGISTERED" \/ Terminal(n))
    /\ Cardinality({i \in DOMAIN journal : journal[i].kind = "ARM_CONTINUATION"}) < Continuations
    /\ journal' = Append(journal, Event("ARM_CONTINUATION", 0, 0))
    /\ UNCHANGED <<n, state, unsettled, parent, prepared, owner, frames, process, clock, timer>>

-----------------------------------------------------------------------------
OwnerStep ==
    \/ LeaveLoop \/ NothingToCollect \/ RequestFailed \/ EnterScope \/ ReadResponse
    \/ PublishArtifact \/ RecordCheckpoint \/ RecordSaved \/ EndScope
    \/ Acknowledge \/ CountSaved \/ StopTree \/ Judge \/ Finish \/ Settle \/ EndAttempt

WorkerStep == WorkerSteps \/ WorkerSaves \/ WorkerReadsAck \/ WorkerGivesUp \/ WorkerExits

OperatorStep ==
    \/ \E a \in Attempts : Prepare(a) \/ Resume(a) \/ Recover(a) \/ RecoverEnd(a) \/ StrayEnds(a)
    \/ Launch \/ Refuse \/ Retry \/ CloseArm \/ ContinueArm

Next ==
    \/ Tick \/ TimerFires \/ TimerWrites \/ WorkerStep \/ Fuse
    \/ OwnerStep \/ HeartbeatLost \/ OwnerDies \/ OperatorStep

Spec == Init /\ [][Next]_vars

\* The clock runs and the owner takes its next step; neither the timer, nor the
\* worker, nor the operator owes anything.
FairSpec == Spec /\ WF_vars(Tick) /\ WF_vars(OwnerStep)

-----------------------------------------------------------------------------
(* Properties. *)

\* A worker is told that its checkpoint is saved only when exactly the state it
\* handed over is recorded, by events written while the arm was open.
AckIsFundedAndDurable ==
    ack => \E i, j \in DOMAIN journal :
              /\ i < j
              /\ journal[i] = Event("CHECKPOINT", n, response)
              /\ journal[j] = Event("CHECKPOINT_SAVED", n, response)
              /\ ~ClosedAt(j)

\* "Stopped at a checkpoint" is the verdict over a stopped tree whose worker left
\* with the acknowledged state, and over an arm that is open even after that.
SavedEndIsGenuine ==
    [][outcome # "CHECKPOINT_SAVED" /\ outcome' = "CHECKPOINT_SAVED" =>
          /\ Logged(Event("CHECKPOINT_SAVED", n, step[n]))
          /\ n \notin running /\ code = "saved" /\ ~Closed]_vars

\* Whatever ends, is continued, recovered and resumed: two attempts of a cell
\* never work at the same time.
OneWorkerOfLineage == \A a, b \in running : a = b

\* A resumed attempt begins where the worker of its parent stopped: no step is
\* lost and none is done twice.
NothingRepeated ==
    \A a \in Attempts : parent[a] # 0 /\ state[a] = "REGISTERED" => step[a] = step[parent[a]]

\* Every session returns, although neither its worker nor its timer need answer.
SessionEnds == pc = "polling" ~> pc \in {"idle", "dead"}
=============================================================================
