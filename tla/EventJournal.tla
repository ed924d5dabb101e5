---------------------------- MODULE EventJournal ----------------------------
(***************************************************************************)
(* The event journal of ResearchStore: events/<sequence>.json and          *)
(* head.json, written under one writer lock by atomic_write (staging file, *)
(* fsync, rename, fsync of the directory).                                 *)
(*                                                                         *)
(* A file holds the hash of everything before it.  Hashes do not collide,  *)
(* so an event file is the chain that ends with its event, and head.json   *)
(* is the chain it certifies.  The staging file is private and left out:   *)
(* a write becomes visible with its rename and durable with the fsync of   *)
(* the directory.  One process at a time owns the lock; `job` is what it   *)
(* remembers, and Crash forgets it.                                        *)
(***************************************************************************)
EXTENDS Integers, FiniteSets, Sequences, SequencesExt

CONSTANTS
    Ids,         \* event ids
    Replays,     \* those callers name themselves and append again on a retry
    Deferrable,  \* events whose kind is in _CHECKPOINT_HEAD_KINDS
    HoldIds,     \* ids of RECOVERY_HOLD events: a bound on quarantines
    SyncMayFail, \* the fsync of a directory may fail after the rename
    PowerMayFail, \* the machine may lose what no fsync confirmed
    MaxDamage    \* bound on outside changes to the files

CONSTANTS Absent, Torn, Unread, NoHead

ASSUME IdAssumption ==
    /\ Replays \subseteq Ids /\ Deferrable \subseteq Ids
    /\ Ids \cap HoldIds = {}
    /\ IsFiniteSet(Ids) /\ IsFiniteSet(HoldIds)

ASSUME ValueAssumption ==
    /\ Absent # Torn
    /\ {Absent, Torn, Unread, NoHead} \cap Seq(Ids \cup HoldIds) = {}
    /\ MaxDamage \in Nat

VARIABLES
    file,     \* sequence number -> the chain in that event file
    head,     \* the chain head.json certifies
    headTorn, \* head.json is unreadable
    hold,     \* recovery-hold.json exists
    moved,    \* event files preserved in a quarantine directory
    unsynced, \* event files whose rename no directory fsync confirmed
    safeHead, \* what head.json falls back to if power fails
    job,      \* the lock owner's call
    tried,    \* event ids already passed to _append
    acked,    \* events whose call returned
    damage    \* outside changes so far

diskVars == <<file, head, headTorn, hold, moved>>
syncVars == <<unsynced, safeHead>>
vars == <<diskVars, syncVars, job, tried, acked, damage>>

MaxSeq == Cardinality(Ids) + Cardinality(HoldIds)
Seqs == 1 .. MaxSeq

(* A call: phase "ready" between two appends; the event it is appending,   *)
(* as the chain it ends; the verified snapshot it holds; the events its    *)
(* return will acknowledge; the checkpoint head it deferred; whether it    *)
(* will raise.                                                             *)
NoJob == [mode |-> "none", phase |-> "idle", event |-> <<>>, snap |-> Unread,
          ours |-> {}, pending |-> NoHead, raises |-> FALSE]
Transactions == {"transaction", "checkpoint"}

Init ==
    /\ file = [n \in Seqs |-> Absent]
    /\ head = <<>> /\ safeHead = <<>>
    /\ headTorn = FALSE /\ hold = FALSE
    /\ moved = {}
    /\ unsynced = {}
    /\ job = NoJob
    /\ tried = {}
    /\ acked = {}
    /\ damage = 0

-----------------------------------------------------------------------------
(* ResearchStore._events: read the whole chain again. *)

Present == {n \in Seqs : file[n] # Absent}
Base(n) == IF n = 1 THEN <<>> ELSE file[n - 1]
Readable(n) == file[n] \notin {Absent, Torn}
Links(n) == Readable(n) /\ Len(file[n]) = n /\ SubSeq(file[n], 1, n - 1) = Base(n)
ValidTo(n) == \A k \in 1 .. n : Links(k)
Longest == CHOOSE n \in 0 .. MaxSeq : (n < MaxSeq => ~Links(n + 1)) /\ ValidTo(n)
Prefix == IF Longest = 0 THEN <<>> ELSE file[Longest]

\* Mutant of Opens: does not compare the chain with its head.
OpensHeadless == Present = 1 .. Longest /\ ~headTorn

\* No gap, no torn file, and the head certifies a prefix of the chain.
Opens ==
    /\ Present = 1 .. Longest
    /\ ~headTorn
    /\ IsPrefix(head, Prefix)

Holding(phase) == job.phase = phase
\* What the calls of a transaction build on: its snapshot, or a fresh read.
Known == IF job.snap # Unread THEN job.snap ELSE Prefix
CanRead == job.snap # Unread \/ Opens
Recorded(id) == id \in ToSet(Known)

-----------------------------------------------------------------------------
(* A call takes the lock and reads the chain. *)

\* A transaction keeps the chain it verified; a single append reads it itself.
Begin(mode) ==
    /\ job = NoJob
    /\ Opens
    /\ job' = [NoJob EXCEPT !.mode = mode, !.phase = "ready",
                            !.snap = IF mode = "append" THEN Unread ELSE Prefix]
    /\ UNCHANGED <<diskVars, syncVars, tried, acked, damage>>

\* A single call appends once; a quarantine appends nothing but its hold.
MayAppend ==
    /\ Holding("ready") /\ job.mode # "quarantine"
    /\ job.mode = "append" => job.ours = {}

\* The recorded event of a replay is returned as it is.
Replay(id) ==
    /\ MayAppend /\ CanRead
    /\ Recorded(id)
    /\ id \in Replays
    /\ job' = [job EXCEPT !.ours = @ \cup {id}]
    /\ UNCHANGED <<diskVars, syncVars, tried, acked, damage>>

\* os.replace: a file already there would be overwritten.
Rename(id) ==
    LET chain == Append(Known, id) IN
    /\ IF id \in HoldIds THEN Holding("holding") ELSE MayAppend
    /\ CanRead
    /\ ~Recorded(id)
    /\ id \notin tried \/ id \in Replays
    /\ Len(chain) \in Seqs
    /\ file' = [file EXCEPT ![Len(chain)] = chain]
    /\ unsynced' = unsynced \cup {Len(chain)}
    /\ tried' = tried \cup {id}
    /\ job' = [job EXCEPT !.phase = "renamed", !.event = chain]
    /\ UNCHANGED <<head, headTorn, hold, moved, safeHead, acked, damage>>

\* The snapshot follows the event; a call without one reads again.
Flush ==
    /\ Holding("renamed")
    /\ unsynced' = {}
    /\ job' = [job EXCEPT !.phase = "flushed",
                          !.snap = IF @ = Unread THEN Unread ELSE job.event]
    /\ UNCHANGED <<diskVars, safeHead, tried, acked, damage>>

\* The checkpoint kinds leave their head to the end of the phase.
Deferred == job.mode = "checkpoint" /\ Last(job.event) \in Deferrable

Defer ==
    /\ Holding("flushed")
    /\ Deferred
    /\ job' = [job EXCEPT !.phase = "ready", !.pending = job.event,
                          !.ours = @ \cup {Last(job.event)}]
    /\ UNCHANGED <<diskVars, syncVars, tried, acked, damage>>

\* Mutant of RenameHead: does not wait for the event's directory fsync.
RenameHeadEarly ==
    /\ Holding("renamed") \/ Holding("flushed")
    /\ ~Deferred
    /\ head' = job.event
    /\ headTorn' = FALSE
    /\ job' = [job EXCEPT !.phase = "headed", !.pending = NoHead,
                          !.snap = IF @ = Unread THEN Unread ELSE job.event]
    /\ UNCHANGED <<file, hold, moved, syncVars, tried, acked, damage>>

\* Mutant of RenameHead: an older deferred head stays pending.
RenameHeadKeepsPending ==
    /\ Holding("flushed")
    /\ ~Deferred
    /\ head' = job.event
    /\ headTorn' = FALSE
    /\ job' = [job EXCEPT !.phase = "headed"]
    /\ UNCHANGED <<file, hold, moved, syncVars, tried, acked, damage>>

\* An immediate head covers deferred ones: they are dropped before the write.
RenameHead ==
    /\ Holding("flushed")
    /\ ~Deferred
    /\ head' = job.event
    /\ headTorn' = FALSE
    /\ job' = [job EXCEPT !.phase = "headed", !.pending = NoHead]
    /\ UNCHANGED <<file, hold, moved, syncVars, tried, acked, damage>>

FlushHead ==
    /\ Holding("headed")
    /\ safeHead' = head
    /\ job' = [job EXCEPT !.phase = "ready", !.ours = @ \cup {Last(job.event)}]
    /\ UNCHANGED <<diskVars, unsynced, tried, acked, damage>>

(* A caller that catches an exception inside its transaction may append    *)
(* again, as the read journal does, and raises in the end.  An exception   *)
(* that nobody catches ends the call like Crash.                           *)

\* An append of a transaction, or a quarantine it called, before its event is
\* safe.
MayRaise ==
    /\ job.mode \in Transactions
    /\ \/ MayAppend \/ job.phase \in {"moving", "holding"}
       \/ job.phase \in {"renamed", "rewind"} /\ SyncMayFail

\* Mutant of AppendFails: keeps the snapshot.
AppendFailsStale ==
    /\ MayRaise
    /\ job' = [job EXCEPT !.phase = "ready", !.raises = TRUE]
    /\ UNCHANGED <<diskVars, syncVars, tried, acked, damage>>

\* The event may be there or not: the snapshot is given up.
AppendFails ==
    /\ MayRaise
    /\ job' = [job EXCEPT !.phase = "ready", !.snap = Unread, !.raises = TRUE]
    /\ UNCHANGED <<diskVars, syncVars, tried, acked, damage>>

\* The event stays in the snapshot; a deferred head is dropped all the same.
HeadFails ==
    /\ job.mode \in Transactions
    /\ \/ Holding("flushed") /\ ~Deferred
       \/ Holding("headed") /\ SyncMayFail
    /\ job' = [job EXCEPT !.phase = "ready", !.pending = NoHead, !.raises = TRUE]
    /\ UNCHANGED <<diskVars, syncVars, tried, acked, damage>>

-----------------------------------------------------------------------------
(* The call returns. *)

\* A checkpoint phase writes the head it deferred.
FinalHead ==
    /\ Holding("ready") /\ job.pending # NoHead /\ ~job.raises
    /\ head' = job.pending
    /\ headTorn' = FALSE
    /\ job' = [job EXCEPT !.phase = "final", !.pending = NoHead]
    /\ UNCHANGED <<file, hold, moved, syncVars, tried, acked, damage>>

FlushFinalHead ==
    /\ Holding("final")
    /\ safeHead' = head
    /\ job' = [job EXCEPT !.phase = "ready"]
    /\ UNCHANGED <<diskVars, unsynced, tried, acked, damage>>

\* A transaction reads the files once more before its caller learns anything.
Return ==
    /\ Holding("ready")
    /\ job.pending = NoHead /\ ~job.raises
    /\ job.mode \in Transactions => Opens
    /\ job.ours # {}
    /\ acked' = acked \cup job.ours
    /\ job' = NoJob
    /\ UNCHANGED <<diskVars, syncVars, tried, damage>>

\* The call raises, or its process dies: nothing is undone.
Crash ==
    /\ job # NoJob
    /\ job' = NoJob
    /\ UNCHANGED <<diskVars, syncVars, tried, acked, damage>>

-----------------------------------------------------------------------------
(* quarantine_tail: an explicit recovery that may find anything, called on *)
(* its own or inside a transaction, which goes on after it without its     *)
(* snapshot.                                                               *)

MayQuarantine ==
    /\ job = NoJob \/ (Holding("ready") /\ job.mode \in Transactions)
    /\ HoldIds \ tried # {}

\* `snap` is what the recovery found valid.
Quarantining ==
    [job EXCEPT !.mode = IF job = NoJob THEN "quarantine" ELSE @,
                !.phase = "moving", !.snap = Prefix]

\* Mutant of StartQuarantine: the hold is not written first.
StartUnheld ==
    /\ MayQuarantine
    /\ job' = Quarantining
    /\ UNCHANGED <<diskVars, syncVars, tried, acked, damage>>

\* The hold is written first.
StartQuarantine ==
    /\ MayQuarantine
    /\ hold' = TRUE
    /\ job' = Quarantining
    /\ UNCHANGED <<file, head, headTorn, moved, syncVars, tried, acked, damage>>

\* Files behind the valid prefix, one rename at a time, in order.
Move ==
    LET rest == {n \in Present : n > Len(job.snap)} IN
    /\ Holding("moving")
    /\ \E n \in rest :
          /\ \A k \in rest : n <= k
          /\ moved' = moved \cup {<<n, file[n]>>}
          /\ file' = [file EXCEPT ![n] = Absent]
          /\ unsynced' = unsynced \ {n}
    /\ UNCHANGED <<head, headTorn, hold, safeHead, job, tried, acked, damage>>

Rewind ==
    /\ Holding("moving")
    /\ \A n \in Present : n <= Len(job.snap)
    /\ head' = job.snap
    /\ headTorn' = FALSE
    /\ job' = [job EXCEPT !.phase = "rewind", !.snap = Unread]
    /\ UNCHANGED <<file, hold, moved, syncVars, tried, acked, damage>>

\* RECOVERY_HOLD is then appended by a fresh read of what is left.
FlushRewind ==
    /\ Holding("rewind")
    /\ safeHead' = head
    /\ job' = [job EXCEPT !.phase = "holding"]
    /\ UNCHANGED <<diskVars, unsynced, tried, acked, damage>>

-----------------------------------------------------------------------------
(* The environment. *)

\* Renames reach the disk in order; unconfirmed ones may be lost from some
\* point on.
PowerLoss ==
    /\ PowerMayFail
    /\ \E n \in Seqs \cup {MaxSeq + 1} :
          LET lost == {k \in unsynced : k >= n} IN
          /\ file' = [k \in Seqs |-> IF k \in lost THEN Absent ELSE file[k]]
          /\ \E h \in {head, safeHead} : head' = h /\ safeHead' = h
    /\ unsynced' = {}
    /\ job' = NoJob
    /\ UNCHANGED <<headTorn, hold, moved, tried, acked, damage>>

Damaged ==
    /\ damage < MaxDamage
    /\ damage' = damage + 1
    /\ UNCHANGED <<hold, moved, syncVars, head, job, tried, acked>>

TearFile(n) ==
    /\ Damaged
    /\ n \in Present
    /\ file' = [file EXCEPT ![n] = Torn]
    /\ UNCHANGED headTorn

LoseFile(n) ==
    /\ Damaged
    /\ n \in Present
    /\ file' = [file EXCEPT ![n] = Absent]
    /\ UNCHANGED headTorn

TearHead ==
    /\ Damaged
    /\ headTorn' = TRUE
    /\ UNCHANGED file

-----------------------------------------------------------------------------
Call ==
    \/ \E mode \in {"append"} \cup Transactions : Begin(mode)
    \/ \E id \in Ids \cup HoldIds : Replay(id) \/ Rename(id)
    \/ Flush \/ Defer \/ RenameHead \/ FlushHead
    \/ AppendFails \/ HeadFails
    \/ FinalHead \/ FlushFinalHead \/ Return

Quarantine == StartQuarantine \/ Move \/ Rewind \/ FlushRewind

Environment ==
    \/ Crash \/ PowerLoss
    \/ \E n \in Seqs : TearFile(n) \/ LoseFile(n)
    \/ TearHead

Next == Call \/ Quarantine \/ Environment

Spec == Init /\ [][Next]_vars

-----------------------------------------------------------------------------
(* Safety. *)

\* Unless somebody changes the files or declares them unreliable, they open:
\* after a crash, a failed write or a power loss at any point.
AlwaysOpens == damage = 0 /\ ~hold => Opens

\* An event somebody was told of is in the history, or the history does not
\* open, or every budget is held: whatever is torn or lost.  A retry is excepted,
\* which is answered from the files without a head of its own.
NoSilentLoss == acked \ Replays \subseteq ToSet(Prefix) \/ ~Opens \/ hold

(* Action properties. *)

\* The code never overwrites or deletes an event file: it only moves it to
\* quarantine, and only under the hold.
NothingOverwritten ==
    [][\A n \in Seqs :
          file[n] # Absent /\ file'[n] # file[n] =>
            \/ damage' # damage
            \/ n \in unsynced /\ file'[n] = Absent
            \/ hold /\ <<n, file[n]>> \in moved' /\ file'[n] = Absent]_vars

\* The head on disk never certifies less, except under the hold.
HeadNeverRegresses ==
    [][IsPrefix(safeHead, safeHead') \/ hold]_vars

(* Refinement: an acknowledged event is safe once a flush covered its file. *)
(* A replay may acknowledge an event whose flush failed.                    *)

Safe == {id \in acked : \E n \in Seqs \ unsynced : Readable(n) /\ Last(file[n]) = id}

A == INSTANCE AppendLog WITH
        log <- Prefix, acked <- Safe, held <- hold, broken <- damage > 0,
        Ids <- Ids \cup HoldIds
ImplementsLog == A!Spec
=============================================================================
