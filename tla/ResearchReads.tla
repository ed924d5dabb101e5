---------------------------- MODULE ResearchReads ----------------------------
(***************************************************************************)
(* Reading restricted bytes: raw blocks (EvaluationExposureLedger) and     *)
(* artifacts (ResearchStore.read_artifact) under grants that expire, test  *)
(* blocks under preregistered plans, several reads in one locked scope     *)
(* (_read_transaction), and renewal of grants.  The event log is its only  *)
(* memory: every decision reads it again.  Clocks run, processes die,      *)
(* bytes and event files change behind the program's back.                 *)
(*                                                                         *)
(* Manifests of protocols and artifacts were published before the model    *)
(* starts; an object is known by its MANIFEST event.                       *)
(***************************************************************************)
EXTENDS Integers, Sequences, FiniteSets

CONSTANTS
    Items,     \* what can be read: blocks of protocols, and artifacts
    Artifacts, \* those of them that are artifacts
    Tests,     \* those that are blocks of the roles test and final-eval
    SourceOf,  \* the source whose content they are or were derived from
    Plans,     \* preregistrations
    Blind,     \* those with test_mode blind
    PlanOf,    \* the plan the protocol of a test block names
    Reports,   \* imported exposure histories
    ReportOf,  \* the history the protocol of a test block names
    Marks,     \* what a history says of a source: "unexposed", "exposed", "unknown" or "none"
    Grants,    \* versions of authorizations
    Covers,    \* the items of a grant
    Expiry,    \* when it expires
    Renewals,  \* those a renewal may publish
    Renews,    \* the version it starts from
    Deadline,  \* until when the approval of renewals is live
    Requests,  \* what callers ask for: sequences of [item, grant]
    Already,   \* what is published when the model starts, in this order
    Spoilable, \* items whose bytes may change
    MaxTime, MaxScopes, MaxTail \* bounds: clock, scopes begun, newest events that may be torn

Objects == Plans \cup Reports \cup Grants
Asked == [item : Items, grant : Grants]

ASSUME ReadsAssumption ==
    /\ Artifacts \subseteq Items /\ Tests \subseteq Items \ Artifacts
    /\ Blind \subseteq Plans /\ Renewals \subseteq Grants
    /\ Plans \cap Grants = {} /\ \A g \in Grants : <<"RENEWAL", g>> \notin Objects
    /\ Expiry \in [Grants -> Nat]
    /\ \A g \in Renewals :
          Expiry[g] > Expiry[Renews[g]] /\ Covers[g] = Covers[Renews[g]] /\ Covers[g] \cap Tests = {}
    /\ Requests \subseteq Seq(Asked) \ {<<>>}
    /\ Already \in Seq(Objects)
    /\ \A i, j \in DOMAIN Already : Already[i] = Already[j] => i = j
    /\ \A i \in DOMAIN Already :
          Already[i] \in Renewals => \E j \in 1 .. i - 1 : Already[j] = Renews[Already[i]]

VARIABLES
    log,       \* the events, as <<kind, subject>>
    torn,      \* the first event file that is unreadable, 0: none
    spoiled,   \* items whose bytes were changed
    now,
    scope,     \* the owner of the lock: phase, requests to do, completed and guarded, its last I/O
    begun,
    exposures, \* history: bytes that were opened, with the plans frozen by then
    given      \* history: what callers were given, with the last I/O before it

vars == <<log, torn, spoiled, now, scope, begun, exposures, given>>

NoScope == [phase |-> "idle", todo |-> <<>>, done |-> <<>>, guarded |-> 0, io |-> 0]

Init ==
    /\ log = [n \in DOMAIN Already |-> <<"MANIFEST", Already[n]>>]
    /\ torn = 0 /\ spoiled = {} /\ now = 0
    /\ scope = NoScope /\ begun = 0
    /\ exposures = {} /\ given = {}

-----------------------------------------------------------------------------
(* What the log says. *)

Recorded(event) == \E n \in DOMAIN log : log[n] = event
Published(object) == Recorded(<<"MANIFEST", object>>)
FrozenAt(plan) ==
    CHOOSE n \in DOMAIN log :
        log[n] = <<"MANIFEST", plan>> /\ \A k \in 1 .. n - 1 : log[k] # log[n]

\* Mutant of Readings: a read counts once it ended.
EndedReadings == {"READ_COMPLETED", "READ_FAILED"}
Readings == {"READ_STARTED", "READ_COMPLETED", "READ_FAILED"}

\* _first_source_read and _artifact_read_before.
ReadBefore(source, n) ==
    \E k \in DOMAIN log : k < n /\ log[k][1] \in Readings /\ SourceOf[log[k][2]] = source

\* PreregistrationGate._validate.
TestAllowed(block) ==
    LET plan == PlanOf[block]
        source == SourceOf[block]
        status == Marks[ReportOf[block]][source]
    IN
    /\ Published(plan) /\ Published(ReportOf[block])
    /\ status \in {"unexposed", "exposed"}
    /\ plan \in Blind =>
          /\ status = "unexposed"
          /\ \A r \in Reports : Published(r) => Marks[r][source] \notin {"exposed", "unknown"}
          /\ ~ReadBefore(source, FrozenAt(plan))

\* _read_authority and _artifact_read_allowed: never cached.
Authorized(request) ==
    /\ Published(request.grant)
    /\ request.item \in Covers[request.grant]
    /\ request.item \in Tests => TestAllowed(request.item)
    /\ now < Expiry[request.grant]

-----------------------------------------------------------------------------
(* A scope: it owns the lock from _read_transaction to its end. *)

In(phase) == scope.phase = phase
LockFree == scope.phase \in {"idle", "leaving"}
Request == Head(scope.todo)
Write(events) == log' = log \o events
Go(phase) == scope' = [scope EXCEPT !.phase = phase]

Begin(requests) ==
    /\ In("idle") /\ torn = 0 /\ begun < MaxScopes
    /\ begun' = begun + 1
    /\ scope' = [NoScope EXCEPT !.phase = "asked", !.todo = requests]
    /\ UNCHANGED <<log, torn, spoiled, now, exposures, given>>

\* The denial is on record before the caller hears of it.
Refuse(events) ==
    /\ Write(events)
    /\ scope' = NoScope
    /\ UNCHANGED <<torn, spoiled, now, begun, exposures, given>>

Ask ==
    /\ In("asked") /\ Authorized(Request)
    /\ Write(<<<<"EXPOSURE_ALLOWED", Request.item>>>>)
    /\ Go("allowed")
    /\ UNCHANGED <<torn, spoiled, now, begun, exposures, given>>

\* Asked again after every write.
Denied ==
    /\ scope.phase \in {"asked", "allowed", "started", "completed"}
    /\ ~Authorized(Request)
    /\ Refuse(<<<<"EXPOSURE_DENIED", Request.item>>>>)

Start ==
    /\ In("allowed") /\ Authorized(Request)
    /\ Write(<<<<"READ_STARTED", Request.item>>>>)
    /\ Go("started")
    /\ UNCHANGED <<torn, spoiled, now, begun, exposures, given>>

\* Bytes are in memory from here on, whatever becomes of them.
Expose == exposures' = exposures \cup {[item |-> Request.item, plans |-> {p \in Plans : Published(p)}]}

Open ==
    /\ In("started") /\ Authorized(Request)
    /\ Expose
    /\ Go("opened")
    /\ UNCHANGED <<log, torn, spoiled, now, begun, given>>

ReadFails ==
    /\ In("opened") /\ Request.item \in spoiled
    /\ Refuse(<<<<"READ_FAILED", Request.item>>>>)

\* Blocks are verified in one pass and handed over in a second one.
MaterializeFails ==
    /\ In("opened") /\ Request.item \notin Artifacts \cup spoiled
    /\ ~Authorized(Request)
    /\ Refuse(<<<<"EXPOSURE_DENIED", Request.item>>, <<"READ_FAILED", Request.item>>>>)

Complete ==
    /\ In("opened") /\ Request.item \notin spoiled
    /\ Request.item \notin Artifacts => Authorized(Request)
    /\ Write(<<<<"READ_COMPLETED", Request.item>>>>)
    /\ Go("completed")
    /\ UNCHANGED <<torn, spoiled, now, begun, exposures, given>>

\* The read registers its guards; the scope's next read or its end follows.
Register ==
    /\ In("completed") /\ Authorized(Request)
    /\ scope' = [scope EXCEPT !.phase = IF Len(scope.todo) > 1 THEN "asked" ELSE "closing",
                              !.todo = Tail(@), !.done = Append(@, Request)]
    /\ UNCHANGED <<log, torn, spoiled, now, begun, exposures, given>>

\* The files are read once more before anything leaves the scope.
Close ==
    /\ In("closing")
    /\ scope' = IF torn = 0 THEN [scope EXCEPT !.phase = "guards", !.io = now] ELSE NoScope
    /\ UNCHANGED <<log, torn, spoiled, now, begun, exposures, given>>

Guard ==
    LET read == scope.done[scope.guarded + 1] IN
    /\ In("guards") /\ scope.guarded < Len(scope.done)
    /\ IF Authorized(read)
       THEN /\ scope' = [scope EXCEPT !.guarded = @ + 1, !.io = now]
            /\ UNCHANGED <<log, torn, spoiled, now, begun, exposures, given>>
       ELSE Refuse(<<<<"EXPOSURE_DENIED", read.item>>>>)

Unexpired(read) == now < Expiry[read.grant]
Expired == {i \in DOMAIN scope.done : ~Unexpired(scope.done[i])}

\* Mutant of Expiries: trusts the guards, each of which compared its own expiry.
ExpiriesAsGuarded ==
    /\ In("guards") /\ scope.guarded = Len(scope.done)
    /\ scope' = [scope EXCEPT !.phase = "leaving"]
    /\ UNCHANGED <<log, torn, spoiled, now, begun, exposures, given>>

\* All clocks are compared after all I/O.
Expiries ==
    /\ In("guards") /\ scope.guarded = Len(scope.done)
    /\ IF Expired = {}
       THEN /\ scope' = [scope EXCEPT !.phase = "leaving"]
            /\ UNCHANGED <<log, torn, spoiled, now, begun, exposures, given>>
       ELSE \E i \in Expired :
              /\ \A k \in Expired : i <= k
              /\ Refuse(<<<<"EXPOSURE_DENIED", scope.done[i].item>>>>)

\* Only a read that was its own scope compares the clock again behind the lock.
Return ==
    /\ In("leaving")
    /\ IF Len(scope.done) = 1 /\ Expired # {}
       THEN Refuse(<<<<"EXPOSURE_DENIED", scope.done[1].item>>>>)
       ELSE /\ given' = given \cup {[grant |-> scope.done[i].grant, io |-> scope.io] : i \in DOMAIN scope.done}
            /\ scope' = NoScope
            /\ UNCHANGED <<log, torn, spoiled, now, begun, exposures>>

\* The process dies, or an event cannot be written: the caller gets nothing.
Dies ==
    /\ ~In("idle")
    /\ scope' = NoScope
    /\ UNCHANGED <<log, torn, spoiled, now, begun, exposures, given>>

-----------------------------------------------------------------------------
(* Other callers, when the lock is free. *)

\* Plans and histories are registered; the owner authorizes a grant.
Publish(object) ==
    /\ LockFree /\ torn = 0
    /\ ~Published(object)
    /\ object \in Grants => object \notin Renewals /\ now < Expiry[object]
    /\ Write(<<<<"MANIFEST", object>>>>)
    /\ UNCHANGED <<torn, spoiled, now, scope, begun, exposures, given>>

Receipt(grant) == <<"RENEWAL", grant>>

\* Mutant of MayRenew: the new version must be unknown.
MayRenewOnce(grant) ==
    /\ LockFree /\ torn = 0
    /\ now < Deadline /\ now < Expiry[grant]
    /\ Published(Renews[grant]) /\ ~Published(grant)

MayRenew(grant) ==
    /\ LockFree /\ torn = 0
    /\ now < Deadline /\ now < Expiry[grant]
    /\ Published(Renews[grant])

\* What renew_grant adds: a new version, then the receipt; what is recorded is
\* kept, and the process may die in between.
Renewal(grant, dies) ==
    LET version == IF Published(grant) THEN <<>> ELSE <<<<"MANIFEST", grant>>>>
        receipt == IF dies \/ Published(Receipt(grant)) THEN <<>> ELSE <<<<"MANIFEST", Receipt(grant)>>>>
    IN version \o receipt

Renew(grant) ==
    /\ MayRenew(grant)
    /\ \E dies \in BOOLEAN : Write(Renewal(grant, dies))
    /\ UNCHANGED <<torn, spoiled, now, scope, begun, exposures, given>>

\* quarantine_tail drops the events from the torn one on.
Quarantine ==
    /\ LockFree /\ torn # 0
    /\ log' = Append(SubSeq(log, 1, torn - 1), <<"RECOVERY_HOLD", "store">>)
    /\ torn' = 0
    /\ UNCHANGED <<spoiled, now, scope, begun, exposures, given>>

-----------------------------------------------------------------------------
(* The environment. *)

Tick ==
    /\ now < MaxTime
    /\ now' = now + 1
    /\ UNCHANGED <<log, torn, spoiled, scope, begun, exposures, given>>

Spoil(item) ==
    /\ spoiled = {}
    /\ spoiled' = {item}
    /\ UNCHANGED <<log, torn, now, scope, begun, exposures, given>>

Tear(n) ==
    /\ torn = 0 /\ n > Len(log) - MaxTail
    /\ ~Recorded(<<"RECOVERY_HOLD", "store">>)
    /\ torn' = n
    /\ UNCHANGED <<log, spoiled, now, scope, begun, exposures, given>>

Read ==
    \/ Ask \/ Denied \/ Start \/ Open \/ ReadFails \/ MaterializeFails \/ Complete
    \/ Register \/ Close \/ Guard \/ Expiries \/ Return \/ Dies

Next ==
    \/ \E requests \in Requests : Begin(requests)
    \/ Read
    \/ \E object \in Plans \cup Reports \cup Grants : Publish(object)
    \/ \E grant \in Renewals : Renew(grant)
    \/ Quarantine
    \/ Tick
    \/ \E item \in Spoilable : Spoil(item)
    \/ \E n \in DOMAIN log : Tear(n)

Spec == Init /\ [][Next]_vars

-----------------------------------------------------------------------------
(* Properties. *)

\* Whoever opened bytes of a source, through whatever block or artifact and
\* whatever came of it (an answer, a failure, a death): once any of them was
\* open before a blind plan was frozen, no test under that plan opens it.
BlindTestsAreBlind ==
    \A test, other \in exposures :
        test.item \in Tests /\ PlanOf[test.item] \in Blind /\ SourceOf[other.item] = SourceOf[test.item]
            => PlanOf[test.item] \in other.plans

\* The same as long as no event was quarantined: the reads a quarantine drops are
\* forgotten, which BlindTestsAreBlind would not forgive.
BlindWhileWhole == Recorded(<<"RECOVERY_HOLD", "store">>) \/ BlindTestsAreBlind

\* What a caller is given was still permitted when the last I/O of its scope was
\* over, for every grant of the scope, although each was verified earlier.
PermittedToTheEnd == \A result \in given : result.io < Expiry[result.grant]

\* A renewal that died between version and receipt can be completed by the same
\* call, which then adds the receipt alone, as long as its approval is live.
Interrupted(grant) ==
    /\ Published(grant) /\ ~Published(Receipt(grant))
    /\ LockFree /\ torn = 0 /\ now < Deadline /\ now < Expiry[grant]

RenewalCanBeRepeated ==
    \A grant \in Renewals :
        Interrupted(grant) =>
            MayRenew(grant) /\ Renewal(grant, FALSE) = <<<<"MANIFEST", Receipt(grant)>>>>
=============================================================================
