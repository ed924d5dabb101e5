------------------------- MODULE ResearchReads_proofs -------------------------
(* Proofs about ResearchReads, for any items, plans, grants, requests, clocks *)
(* and damages.                                                                *)
EXTENDS ResearchReads, TLAPS

Hold == <<"RECOVERY_HOLD", "store">>
Held == Recorded(Hold)

Kinds == {"MANIFEST", "EXPOSURE_ALLOWED", "EXPOSURE_DENIED", "READ_STARTED", "READ_COMPLETED",
          "READ_FAILED", "RECOVERY_HOLD"}
Subjects == Objects \cup Items \cup {Receipt(g) : g \in Grants} \cup {"store"}
Events == Kinds \X Subjects

Busy == {"asked", "allowed", "started", "opened", "completed"}

\* The types the rest is about; a read in progress is one of the caller's.
Shape ==
    /\ log \in Seq(Events)
    /\ torn \in {0} \cup DOMAIN log /\ now \in Nat
    /\ exposures \subseteq [item : Items, plans : SUBSET Plans]
    /\ scope \in [phase : Busy \cup {"idle", "closing", "guards", "leaving"}, todo : Seq(Asked),
                  done : Seq(Asked), guarded : Nat, io : Nat]
    /\ scope.phase \in Busy => scope.todo # <<>>
    /\ given \subseteq [grant : Grants, io : Nat]

\* A clock is compared after the last I/O.
Timed ==
    /\ scope.io <= now
    /\ scope.phase = "leaving" => \A i \in DOMAIN scope.done : scope.io < Expiry[scope.done[i].grant]
    /\ PermittedToTheEnd

\* Bytes that were open are on record, before each plan that was not frozen then.
Recalled(e) ==
    \E k \in DOMAIN log :
        /\ log[k] = <<"READ_STARTED", e.item>>
        /\ \A j \in DOMAIN log, p \in Plans : log[j] = <<"MANIFEST", p>> => p \in e.plans \/ k < j

\* While nothing was quarantined, the log forgets nothing.
Whole ==
    /\ Held => torn = 0
    /\ ~Held =>
          /\ \A i, j \in DOMAIN log, p \in Plans :
                log[i] = <<"MANIFEST", p>> /\ log[j] = <<"MANIFEST", p>> => i = j
          /\ scope.phase = "started" => Recorded(<<"READ_STARTED", Request.item>>)
          /\ \A e \in exposures : Recalled(e)
          /\ \A e \in exposures :
                e.item \in Tests /\ PlanOf[e.item] \in Blind => Published(PlanOf[e.item])
          /\ BlindTestsAreBlind

\* A renewed version follows the version it starts from, and a quarantine that
\* keeps it keeps that.
Based ==
    \A k \in DOMAIN log, g \in Renewals :
        log[k] = <<"MANIFEST", g>> => \E j \in DOMAIN log : j < k /\ log[j] = <<"MANIFEST", Renews[g]>>

Inv == Shape /\ Timed /\ Whole /\ Based

-----------------------------------------------------------------------------
LEMMA InitInv == Init => Inv
<1> SUFFICES ASSUME Init PROVE Inv
    OBVIOUS
<1> USE ReadsAssumption
<1>1. /\ \A i \in DOMAIN Already : <<"MANIFEST", Already[i]>> \in Events
      /\ DOMAIN log = 1 .. Len(Already) /\ DOMAIN Already = 1 .. Len(Already) /\ Len(Already) \in Nat
      /\ \A i \in DOMAIN log : log[i] = <<"MANIFEST", Already[i]>>
    BY DEF Init, Events, Kinds, Subjects
<1>2. log \in Seq(Events)
    BY <1>1 DEF Init
<1>3. Shape
    BY <1>2 DEF Shape, Init, NoScope, Busy
<1>4. Timed
    BY DEF Timed, Init, NoScope, PermittedToTheEnd
<1>5. ~Held
    BY <1>1 DEF Held, Hold, Recorded
<1>6. Whole
    BY <1>1, <1>5 DEF Whole, Init, NoScope, BlindTestsAreBlind
<1>7. Based
  <2>1. SUFFICES ASSUME NEW k \in DOMAIN log, NEW g \in Renewals, log[k] = <<"MANIFEST", g>>
                 PROVE  \E j \in DOMAIN log : j < k /\ log[j] = <<"MANIFEST", Renews[g]>>
      BY DEF Based
  <2>2. Already[k] = g /\ k \in DOMAIN Already
      BY <1>1, <2>1
  <2>3. PICK j \in 1 .. k - 1 : Already[j] = Renews[g]
      BY <2>2
  <2>4. j \in DOMAIN log /\ j < k
      BY <1>1, <2>3
  <2> QED
      BY <1>1, <2>3, <2>4
<1> QED
    BY <1>3, <1>4, <1>6, <1>7 DEF Inv

-----------------------------------------------------------------------------
(* What a step does to the log. *)

\* Events are kept; no hold follows them, no second record of a plan, and no
\* renewal of an unknown version.
Grown ==
    /\ \A i \in DOMAIN log : i \in DOMAIN log' /\ log'[i] = log[i]
    /\ \A i \in DOMAIN log', j \in DOMAIN log : i \in DOMAIN log \/ j < i
    /\ \A i \in DOMAIN log' : i \in DOMAIN log \/ log'[i] # Hold
    /\ \A i, j \in DOMAIN log', p \in Plans :
          log'[i] = <<"MANIFEST", p>> /\ log'[j] = <<"MANIFEST", p>> =>
              i = j \/ (i \in DOMAIN log /\ j \in DOMAIN log)
    /\ \A i \in DOMAIN log', g \in Renewals :
          log'[i] = <<"MANIFEST", g>> => i \in DOMAIN log \/ Published(Renews[g])

LEMMA Unwritten == Shape /\ UNCHANGED log => Grown
BY DEF Grown, Shape

LEMMA Writes ==
    ASSUME Shape, NEW es \in Seq(Events), Write(es),
           \A i \in DOMAIN es : es[i] # Hold,
           \A i, j \in DOMAIN es, p \in Plans :
              es[i] = <<"MANIFEST", p>> /\ es[j] = <<"MANIFEST", p>> => i = j /\ ~Published(p),
           \A i \in DOMAIN es, g \in Renewals : es[i] = <<"MANIFEST", g>> => Published(Renews[g])
    PROVE  log' \in Seq(Events) /\ Grown
<1>1. /\ log' \in Seq(Events) /\ Len(log') = Len(log) + Len(es)
      /\ Len(log) \in Nat /\ Len(es) \in Nat
      /\ DOMAIN log = 1 .. Len(log) /\ DOMAIN es = 1 .. Len(es) /\ DOMAIN log' = 1 .. Len(log')
      /\ \A i \in 1 .. Len(log) : log'[i] = log[i]
      /\ \A i \in Len(log) + 1 .. Len(log') : log'[i] = es[i - Len(log)]
    BY DEF Shape, Write
<1>2. \A i \in DOMAIN log' : i \in DOMAIN log \/ (i - Len(log) \in DOMAIN es /\ log'[i] = es[i - Len(log)])
    BY <1>1
<1>3. ASSUME NEW i \in DOMAIN log', NEW j \in DOMAIN log', NEW p \in Plans,
             log'[i] = <<"MANIFEST", p>>, log'[j] = <<"MANIFEST", p>>
      PROVE  i = j \/ (i \in DOMAIN log /\ j \in DOMAIN log)
  <2>1. CASE i \in DOMAIN log
    <3>1. Published(p)
        BY <1>1, <1>3, <2>1 DEF Published, Recorded
    <3> QED
        BY <1>2, <1>3, <2>1, <3>1
  <2>2. CASE i \notin DOMAIN log
    <3>1. i - Len(log) \in DOMAIN es /\ es[i - Len(log)] = <<"MANIFEST", p>>
        BY <1>2, <1>3, <2>2
    <3>2. ~Published(p)
        BY <3>1
    <3>3. j \notin DOMAIN log
        BY <1>1, <1>3, <3>2 DEF Published, Recorded
    <3>4. j - Len(log) \in DOMAIN es /\ es[j - Len(log)] = <<"MANIFEST", p>>
        BY <1>2, <1>3, <3>3
    <3>5. i - Len(log) = j - Len(log)
        BY <3>1, <3>4
    <3> QED
        BY <1>1, <3>5
  <2> QED
      BY <2>1, <2>2
<1>4. \A i \in DOMAIN log' : i \in DOMAIN log \/ log'[i] # Hold
    BY <1>2
<1>5. \A i \in DOMAIN log', g \in Renewals :
         log'[i] = <<"MANIFEST", g>> => i \in DOMAIN log \/ Published(Renews[g])
    BY <1>2
<1> QED
    BY <1>1, <1>3, <1>4, <1>5 DEF Grown

\* One event about a read.
LEMMA Notes ==
    ASSUME Shape, NEW item \in Items,
           NEW kind \in {"EXPOSURE_ALLOWED", "EXPOSURE_DENIED", "READ_STARTED", "READ_COMPLETED", "READ_FAILED"},
           Write(<< <<kind, item>> >>)
    PROVE  log' \in Seq(Events) /\ Grown
<1> DEFINE es == << <<kind, item>> >>
<1>1. es \in Seq(Events) /\ DOMAIN es = {1} /\ es[1] = <<kind, item>>
    BY DEF Events, Kinds, Subjects
<1>2. es[1][1] # "MANIFEST" /\ es[1] # Hold
    BY <1>1 DEF Hold
<1> HIDE DEF es
<1>3. Write(es)
    BY DEF es
<1>4. \A p : es[1] # <<"MANIFEST", p>>
    BY <1>2
<1> QED
    BY <1>1, <1>2, <1>3, <1>4, Writes

LEMMA Asking ==
    ASSUME Shape
    PROVE  /\ scope.phase \in Busy => Request \in Asked /\ Request.item \in Items /\ Request.grant \in Grants
           /\ \A i \in DOMAIN scope.done : scope.done[i].item \in Items /\ scope.done[i].grant \in Grants
           /\ scope.guarded < Len(scope.done) => scope.guarded + 1 \in DOMAIN scope.done
<1>1. scope.todo \in Seq(Asked) /\ scope.done \in Seq(Asked) /\ scope.guarded \in Nat
    BY DEF Shape
<1>2. \A i \in DOMAIN scope.done : scope.done[i] \in Asked
    BY <1>1
<1>3. scope.guarded < Len(scope.done) => scope.guarded + 1 \in DOMAIN scope.done
    BY <1>1
<1>4. scope.phase \in Busy => Request \in Asked
    BY <1>1 DEF Shape, Request
<1> QED
    BY <1>2, <1>3, <1>4 DEF Asked

LEMMA LogStep == Inv /\ [Next]_vars => log' \in Seq(Events) /\ (Quarantine \/ Grown)
<1> SUFFICES ASSUME Inv, [Next]_vars PROVE log' \in Seq(Events) /\ (Quarantine \/ Grown)
    OBVIOUS
<1>0. Shape
    BY DEF Inv
<1>1. CASE UNCHANGED log
    BY <1>0, <1>1, Unwritten DEF Shape
<1>2. CASE Ask \/ Start \/ Complete
  <2>1. Request.item \in Items
      BY <1>0, <1>2, Asking DEF Ask, Start, Complete, In, Busy
  <2>2. PICK kind \in {"EXPOSURE_ALLOWED", "READ_STARTED", "READ_COMPLETED"} :
            Write(<< <<kind, Request.item>> >>)
      BY <1>2 DEF Ask, Start, Complete
  <2> QED
      BY <1>0, <2>1, <2>2, Notes
<1>3. CASE Denied \/ ReadFails
  <2>1. Request.item \in Items
      BY <1>0, <1>3, Asking DEF Denied, ReadFails, In, Busy
  <2>2. PICK kind \in {"EXPOSURE_DENIED", "READ_FAILED"} : Write(<< <<kind, Request.item>> >>)
      BY <1>3 DEF Denied, ReadFails, Refuse
  <2> QED
      BY <1>0, <2>1, <2>2, Notes
<1>4. CASE MaterializeFails
  <2> DEFINE es == << <<"EXPOSURE_DENIED", Request.item>>, <<"READ_FAILED", Request.item>> >>
  <2>1. Request.item \in Items
      BY <1>0, <1>4, Asking DEF MaterializeFails, In, Busy
  <2>2. /\ es \in Seq(Events) /\ DOMAIN es = {1, 2}
        /\ \A i \in DOMAIN es : es[i] # Hold /\ \A p : es[i] # <<"MANIFEST", p>>
      BY <2>1 DEF Events, Kinds, Subjects, Hold
  <2>3. Write(es)
      BY <1>4 DEF MaterializeFails, Refuse
  <2> HIDE DEF es
  <2> QED
      BY <1>0, <2>2, <2>3, Writes
<1>5. CASE Guard \/ Expiries \/ Return
  <2>1. UNCHANGED log \/ \E i \in DOMAIN scope.done : Write(<< <<"EXPOSURE_DENIED", scope.done[i].item>> >>)
    <3>1. CASE Guard
        BY <1>0, <3>1, Asking DEF Guard, Refuse
    <3>2. CASE Expiries
        BY <3>2 DEF Expiries, Refuse, Expired
    <3>3. CASE Return
      <4>1. scope.done \in Seq(Asked)
          BY <1>0 DEF Shape
      <4>2. Len(scope.done) = 1 => 1 \in DOMAIN scope.done
          BY <4>1
      <4> QED
          BY <3>3, <4>2 DEF Return, Refuse
    <3> QED
        BY <1>5, <3>1, <3>2, <3>3
  <2> QED
      BY <1>0, <1>1, <2>1, Asking, Notes
<1>6. ASSUME NEW object \in Objects, Publish(object) PROVE log' \in Seq(Events) /\ Grown
  <2> DEFINE es == << <<"MANIFEST", object>> >>
  <2>1. es \in Seq(Events) /\ DOMAIN es = {1} /\ es[1] = <<"MANIFEST", object>> /\ es[1] # Hold
      BY DEF Events, Kinds, Subjects, Hold
  <2>2. Write(es) /\ ~Published(object)
      BY <1>6 DEF Publish
  <2> HIDE DEF es
  <2>3. \A i, j \in DOMAIN es, p \in Plans :
            es[i] = <<"MANIFEST", p>> /\ es[j] = <<"MANIFEST", p>> => i = j /\ ~Published(p)
      BY <2>1, <2>2
  <2>4. \A g \in Renewals : object # g
      BY <1>6, ReadsAssumption DEF Publish
  <2>5. \A i \in DOMAIN es, g \in Renewals : es[i] = <<"MANIFEST", g>> => Published(Renews[g])
      BY <2>1, <2>4
  <2> QED
      BY <1>0, <2>1, <2>2, <2>3, <2>5, Writes
<1>7. ASSUME NEW grant \in Renewals, Renew(grant) PROVE log' \in Seq(Events) /\ Grown
  <2>1. PICK dies \in BOOLEAN :
            Write((IF Published(grant) THEN <<>> ELSE << <<"MANIFEST", grant>> >>)
                  \o (IF dies \/ Published(Receipt(grant)) THEN <<>> ELSE << <<"MANIFEST", Receipt(grant)>> >>))
      BY <1>7 DEF Renew, Renewal
  <2>2. grant \in Grants \ Plans /\ Receipt(grant) \notin Plans /\ Receipt(grant) \notin Renewals
      BY ReadsAssumption DEF Receipt, Objects
  <2> DEFINE one == IF Published(grant) THEN <<>> ELSE << <<"MANIFEST", grant>> >>
             two == IF dies \/ Published(Receipt(grant)) THEN <<>> ELSE << <<"MANIFEST", Receipt(grant)>> >>
             New == {<<"MANIFEST", grant>>, <<"MANIFEST", Receipt(grant)>>}
  <2>3. one \in Seq(New) /\ two \in Seq(New)
      OBVIOUS
  <2>4. New \subseteq Events /\ \A e \in New : e # Hold /\ \A p \in Plans : e # <<"MANIFEST", p>>
      BY <2>2 DEF Events, Kinds, Subjects, Objects, Hold
  <2>5. Write(one \o two)
      BY <2>1
  <2> HIDE DEF one, two, New
  <2> DEFINE es == one \o two
  <2>6. es \in Seq(New)
      BY <2>3
  <2> HIDE DEF es
  <2>7. es \in Seq(Events) /\ \A i \in DOMAIN es : es[i] \in New
      BY <2>4, <2>6
  <2>8. Write(es)
      BY <2>5 DEF es
  <2>9. \A g \in Renewals : <<"MANIFEST", g>> \in New => g = grant
      BY <2>2 DEF New
  <2>10. Published(Renews[grant])
      BY <1>7 DEF Renew, MayRenew
  <2>11. \A i \in DOMAIN es, g \in Renewals : es[i] = <<"MANIFEST", g>> => Published(Renews[g])
      BY <2>7, <2>9, <2>10
  <2> QED
      BY <1>0, <2>4, <2>7, <2>8, <2>11, Writes
<1>8. CASE Quarantine
  <2>1. SubSeq(log, 1, torn - 1) \in Seq(Events)
      BY <1>0, <1>8 DEF Shape, Quarantine
  <2>2. <<"RECOVERY_HOLD", "store">> \in Events
      BY DEF Events, Kinds, Subjects
  <2> QED
      BY <1>8, <2>1, <2>2 DEF Quarantine
<1>9. CASE \/ \E requests \in Requests : Begin(requests)
           \/ Open \/ Register \/ Close \/ Dies \/ Tick
           \/ \E item \in Spoilable : Spoil(item)
           \/ \E i \in DOMAIN log : Tear(i)
  <2>1. UNCHANGED log
      BY <1>9 DEF Begin, Open, Register, Close, Dies, Tick, Spoil, Tear
  <2> QED
      BY <1>1, <2>1
<1> QED
    BY <1>1, <1>2, <1>3, <1>4, <1>5, <1>6, <1>7, <1>8, <1>9 DEF Next, Read, Objects, vars

-----------------------------------------------------------------------------
LEMMA ShapeStep == Inv /\ [Next]_vars => Shape'
<1> SUFFICES ASSUME Inv, [Next]_vars PROVE Shape'
    OBVIOUS
<1>0. Shape /\ log' \in Seq(Events) /\ (Quarantine \/ Grown)
    BY LogStep DEF Inv
<1>1. torn' \in {0} \cup DOMAIN log'
  <2>1. CASE Quarantine
      BY <2>1 DEF Quarantine
  <2>2. CASE torn' = torn
      BY <1>0, <2>2 DEF Shape, Grown, Quarantine
  <2>3. CASE \E i \in DOMAIN log : Tear(i)
      BY <2>3 DEF Tear
  <2> QED
      BY <2>1, <2>2, <2>3
      DEF Next, Read, Begin, Ask, Denied, Start, Open, ReadFails, MaterializeFails, Complete, Register,
          Close, Guard, Expiries, Return, Dies, Refuse, Publish, Renew, Tick, Spoil, vars
<1>2. now' \in Nat
  <2>1. now \in Nat
      BY <1>0 DEF Shape
  <2>2. CASE Tick
      BY <2>1, <2>2 DEF Tick
  <2>3. CASE ~Tick
    <3>1. UNCHANGED now
        BY <2>3
        DEF Next, Read, Begin, Ask, Denied, Start, Open, ReadFails, MaterializeFails, Complete, Register,
            Close, Guard, Expiries, Return, Dies, Refuse, Publish, Renew, Quarantine, Spoil, Tear, vars
    <3> QED
        BY <2>1, <3>1
  <2> QED
      BY <2>2, <2>3
<1>3. exposures' \subseteq [item : Items, plans : SUBSET Plans]
  <2>1. CASE Open
    <3>1. Request.item \in Items
        BY <1>0, <2>1, Asking DEF Open, In, Busy
    <3> QED
        BY <1>0, <2>1, <3>1 DEF Open, Expose, Shape
  <2>2. CASE ~Open
    <3>1. UNCHANGED exposures
        BY <2>2
        DEF Next, Read, Begin, Ask, Denied, Start, ReadFails, MaterializeFails, Complete, Register,
            Close, Guard, Expiries, Return, Dies, Refuse, Publish, Renew, Quarantine, Tick, Spoil, Tear, vars
    <3> QED
        BY <1>0, <3>1 DEF Shape
  <2> QED
      BY <2>1, <2>2
<1>4. given' \subseteq [grant : Grants, io : Nat]
  <2>1. CASE Return
    <3>1. \A i \in DOMAIN scope.done :
              [grant |-> scope.done[i].grant, io |-> scope.io] \in [grant : Grants, io : Nat]
        BY <1>0, Asking DEF Shape
    <3>2. given \subseteq [grant : Grants, io : Nat]
        BY <1>0 DEF Shape
    <3>3. given' = given \/ given' = given \cup {[grant |-> scope.done[i].grant, io |-> scope.io] : i \in DOMAIN scope.done}
        BY <2>1 DEF Return, Refuse
    <3> QED
        BY <3>1, <3>2, <3>3
  <2>2. CASE ~Return
    <3>1. UNCHANGED given
        BY <2>2
        DEF Next, Read, Begin, Ask, Denied, Start, Open, ReadFails, MaterializeFails, Complete, Register,
            Close, Guard, Expiries, Dies, Refuse, Publish, Renew, Quarantine, Tick, Spoil, Tear, vars
    <3> QED
        BY <1>0, <3>1 DEF Shape
  <2> QED
      BY <2>1, <2>2
<1> DEFINE Scopes == [phase : Busy \cup {"idle", "closing", "guards", "leaving"}, todo : Seq(Asked),
                      done : Seq(Asked), guarded : Nat, io : Nat]
           Good(s) == s \in Scopes /\ (s.phase \in Busy => s.todo # <<>>)
<1>5. Good(scope')
  <2>0. Good(scope) /\ Good(NoScope) /\ now \in Nat
      BY <1>0 DEF Shape, NoScope, Busy
  <2>1. CASE UNCHANGED scope \/ scope' = NoScope
      BY <2>0, <2>1
  <2>2. ASSUME NEW requests \in Requests, Begin(requests) PROVE Good(scope')
    <3>1. requests \in Seq(Asked) /\ requests # <<>>
        BY ReadsAssumption
    <3>2. scope' = [phase |-> "asked", todo |-> requests, done |-> <<>>, guarded |-> 0, io |-> 0]
        BY <2>2 DEF Begin, NoScope
    <3>3. <<>> \in Seq(Asked)
        OBVIOUS
    <3> QED
        BY <3>1, <3>2, <3>3 DEF Busy
  <2>3. ASSUME NEW phase \in Busy \cup {"leaving"}, Go(phase), phase = "leaving" \/ scope.phase \in Busy
        PROVE  Good(scope')
      BY <2>0, <2>3 DEF Go, Busy
  <2>4. CASE Ask \/ Start \/ Open \/ Complete
      BY <2>3, <2>4 DEF Ask, Start, Open, Complete, In, Busy
  <2>5. CASE Register
    <3>1. /\ scope.todo \in Seq(Asked) /\ scope.todo # <<>> /\ scope.done \in Seq(Asked)
          /\ Request \in Asked
        BY <1>0, <2>0, <2>5, Asking DEF Register, In, Busy
    <3>2. /\ Tail(scope.todo) \in Seq(Asked) /\ Append(scope.done, Request) \in Seq(Asked)
        BY <3>1
    <3>3. Len(scope.todo) > 1 => Len(Tail(scope.todo)) > 0
        BY <3>1
    <3>4. Len(scope.todo) > 1 => Tail(scope.todo) # <<>>
      <4>1. ~(Len(<<>>) > 0)
          OBVIOUS
      <4>2. ASSUME Tail(scope.todo) = <<>> PROVE Len(Tail(scope.todo)) = Len(<<>>)
          BY <4>2
      <4> QED
          BY <3>3, <4>1, <4>2
    <3>5. /\ scope' = [scope EXCEPT !.phase = IF Len(scope.todo) > 1 THEN "asked" ELSE "closing",
                                    !.todo = Tail(@), !.done = Append(@, Request)]
        BY <2>5 DEF Register
    <3>6. /\ scope'.phase = (IF Len(scope.todo) > 1 THEN "asked" ELSE "closing")
          /\ scope'.todo = Tail(scope.todo)
          /\ scope' \in Scopes
        BY <2>0, <3>2, <3>5 DEF Busy
    <3> QED
        BY <3>4, <3>6 DEF Busy
  <2>6. CASE Close \/ Guard
    <3>1. CASE scope' = NoScope
        BY <2>1, <3>1
    <3>2. CASE scope' # NoScope /\ Close
        BY <2>0, <3>2 DEF Close, Busy
    <3>3. CASE scope' # NoScope /\ Guard
      <4>1. scope' = [scope EXCEPT !.guarded = @ + 1, !.io = now] /\ scope.phase = "guards"
          BY <3>3 DEF Guard, Refuse, In
      <4>2. scope.guarded + 1 \in Nat
          BY <2>0
      <4>3. scope' \in Scopes /\ scope'.phase = "guards"
          BY <2>0, <4>1, <4>2
      <4> QED
          BY <4>3 DEF Busy
    <3> QED
        BY <2>6, <3>1, <3>2, <3>3
  <2>7. CASE Expiries
      BY <2>1, <2>3, <2>7 DEF Expiries, Refuse, Go, In
  <2>8. CASE Denied \/ ReadFails \/ MaterializeFails \/ Return \/ Dies
      BY <2>1, <2>8 DEF Denied, ReadFails, MaterializeFails, Return, Dies, Refuse
  <2>9. CASE \/ UNCHANGED vars \/ \E object \in Objects : Publish(object)
             \/ \E grant \in Renewals : Renew(grant)
             \/ Quarantine \/ Tick
             \/ \E item \in Spoilable : Spoil(item)
             \/ \E i \in DOMAIN log : Tear(i)
      BY <2>1, <2>9 DEF vars, Publish, Renew, Quarantine, Tick, Spoil, Tear
  <2> QED
      BY <2>2, <2>4, <2>5, <2>6, <2>7, <2>8, <2>9 DEF Next, Read, Objects
<1> QED
    BY <1>0, <1>1, <1>2, <1>3, <1>4, <1>5 DEF Shape

-----------------------------------------------------------------------------
LEMMA TimedStep == Inv /\ [Next]_vars => Timed'
<1> SUFFICES ASSUME Inv, [Next]_vars PROVE Timed'
    OBVIOUS
<1>0. Shape /\ Timed
    BY DEF Inv
<1>1. scope.io \in Nat /\ now \in Nat /\ \A i \in DOMAIN scope.done : Expiry[scope.done[i].grant] \in Nat
    BY <1>0, Asking, ReadsAssumption DEF Shape
\* The clock may run, the scope ends or stays as it is.
<1>2. ASSUME now' \in Nat, now <= now', UNCHANGED given, UNCHANGED scope \/ scope' = NoScope
      PROVE  Timed'
    BY <1>0, <1>1, <1>2 DEF Timed, PermittedToTheEnd, NoScope
<1>3. ASSUME UNCHANGED <<now, given>>, scope'.io \in {scope.io, now}, scope'.phase # "leaving"
      PROVE  Timed'
    BY <1>0, <1>1, <1>3 DEF Timed, PermittedToTheEnd
<1>4. CASE Ask \/ Start \/ Open \/ Complete \/ Register \/ (\E requests \in Requests : Begin(requests))
  <2>1. UNCHANGED <<now, given>>
      BY <1>4 DEF Ask, Start, Open, Complete, Register, Begin
  <2>2. scope'.phase # "leaving" /\ (scope'.io = scope.io \/ scope'.io = 0)
      BY <1>0, <1>4 DEF Ask, Start, Open, Complete, Register, Begin, Go, NoScope, Shape
  <2> QED
      BY <1>0, <1>1, <2>1, <2>2 DEF Timed, PermittedToTheEnd
<1>5. CASE Close \/ Guard
  <2>1. CASE scope' = NoScope
      BY <1>1, <1>2, <1>5, <2>1 DEF Close, Guard, Refuse
  <2>2. CASE scope' # NoScope
      BY <1>0, <1>3, <1>5, <2>2 DEF Close, Guard, Refuse, In, Shape
  <2> QED
      BY <2>1, <2>2
<1>6. CASE Expiries
  <2>1. CASE Expired = {}
    <3>1. \A i \in DOMAIN scope.done : now < Expiry[scope.done[i].grant]
        BY <2>1 DEF Expired, Unexpired
    <3>2. UNCHANGED <<now, given>> /\ scope' = [scope EXCEPT !.phase = "leaving"]
        BY <1>6, <2>1 DEF Expiries
    <3>3. scope'.io = scope.io /\ scope'.done = scope.done
        BY <1>0, <3>2 DEF Shape
    <3>4. \A i \in DOMAIN scope.done : scope.io < Expiry[scope.done[i].grant]
        BY <1>0, <1>1, <3>1 DEF Timed
    <3> QED
        BY <1>0, <3>2, <3>3, <3>4 DEF Timed, PermittedToTheEnd
  <2>2. CASE Expired # {}
    <3>1. UNCHANGED <<now, given>> /\ scope' = NoScope
        BY <1>6, <2>2 DEF Expiries, Refuse
    <3> QED
        BY <1>1, <1>2, <3>1
  <2> QED
      BY <2>1, <2>2
<1>7. CASE Return
  <2>1. now' = now /\ scope' = NoScope
      BY <1>7 DEF Return, Refuse
  <2>2. \A result \in given' : result.io < Expiry[result.grant]
      BY <1>0, <1>7 DEF Return, Refuse, In, Timed, PermittedToTheEnd
  <2> QED
      BY <1>1, <2>1, <2>2 DEF Timed, PermittedToTheEnd, NoScope
<1>8. CASE Denied \/ ReadFails \/ MaterializeFails \/ Dies
    BY <1>1, <1>2, <1>8 DEF Denied, ReadFails, MaterializeFails, Dies, Refuse
<1>9. CASE \/ UNCHANGED vars \/ \E object \in Objects : Publish(object)
           \/ \E grant \in Renewals : Renew(grant)
           \/ Quarantine \/ Tick
           \/ \E item \in Spoilable : Spoil(item)
           \/ \E i \in DOMAIN log : Tear(i)
  <2>1. UNCHANGED <<given, scope>> /\ (now' = now \/ now' = now + 1)
      BY <1>9 DEF vars, Publish, Renew, Quarantine, Tick, Spoil, Tear
  <2> QED
      BY <1>1, <1>2, <2>1
<1> QED
    BY <1>4, <1>5, <1>6, <1>7, <1>8, <1>9 DEF Next, Read, Objects

-----------------------------------------------------------------------------
LEMMA Persists ==
    ASSUME Grown
    PROVE  /\ \A event : Recorded(event) => Recorded(event)'
           /\ ~Held => ~Held'
           /\ \A e : Recalled(e) => (\E k \in DOMAIN log' :
                 /\ log'[k] = <<"READ_STARTED", e.item>>
                 /\ \A j \in DOMAIN log', p \in Plans : log'[j] = <<"MANIFEST", p>> => p \in e.plans \/ k < j)
<1>1. \A event : Recorded(event) => Recorded(event)'
    BY DEF Grown, Recorded
<1>2. ~Held => ~Held'
    BY DEF Grown, Held, Recorded
<1>3. ASSUME NEW e, Recalled(e)
      PROVE  \E k \in DOMAIN log' :
                 /\ log'[k] = <<"READ_STARTED", e.item>>
                 /\ \A j \in DOMAIN log', p \in Plans : log'[j] = <<"MANIFEST", p>> => p \in e.plans \/ k < j
  <2>1. PICK k \in DOMAIN log :
            /\ log[k] = <<"READ_STARTED", e.item>>
            /\ \A j \in DOMAIN log, p \in Plans : log[j] = <<"MANIFEST", p>> => p \in e.plans \/ k < j
      BY <1>3 DEF Recalled
  <2>2. k \in DOMAIN log' /\ log'[k] = <<"READ_STARTED", e.item>>
      BY <2>1 DEF Grown
  <2>3. \A j \in DOMAIN log', p \in Plans : log'[j] = <<"MANIFEST", p>> => p \in e.plans \/ k < j
      BY <2>1 DEF Grown
  <2> QED
      BY <2>2, <2>3
<1> QED
    BY <1>1, <1>2, <1>3

\* A record of a plan that is the only one is the first one.
LEMMA FirstOfPlan ==
    ASSUME Shape, NEW plan \in Plans, Published(plan),
           \A i, j \in DOMAIN log : log[i] = <<"MANIFEST", plan>> /\ log[j] = <<"MANIFEST", plan>> => i = j
    PROVE  FrozenAt(plan) \in DOMAIN log /\ log[FrozenAt(plan)] = <<"MANIFEST", plan>>
<1>1. PICK i \in DOMAIN log : log[i] = <<"MANIFEST", plan>>
    BY DEF Published, Recorded
<1>2. \A k \in 1 .. i - 1 : k \in DOMAIN log /\ k # i
    BY DEF Shape
<1>3. \A k \in 1 .. i - 1 : log[k] # log[i]
    BY <1>1, <1>2
<1>4. \E n \in DOMAIN log : log[n] = <<"MANIFEST", plan>> /\ \A k \in 1 .. n - 1 : log[k] # log[n]
    BY <1>1, <1>3
<1> QED
    BY <1>4 DEF FrozenAt

-----------------------------------------------------------------------------
\* A log without a quarantine forgets nothing; one with it is not torn again.
LEMMA WholeStep == Inv /\ [Next]_vars => Whole'
<1> SUFFICES ASSUME Inv, [Next]_vars PROVE Whole'
    OBVIOUS
<1>0. Shape /\ Whole /\ (Quarantine \/ Grown)
    BY LogStep DEF Inv
<1>1. CASE Quarantine
  <2>1. SubSeq(log, 1, torn - 1) \in Seq(Events) /\ torn' = 0
      BY <1>0, <1>1 DEF Shape, Quarantine
  <2>2. Held'
    <3>1. /\ Len(log') \in DOMAIN log' /\ log'[Len(log')] = <<"RECOVERY_HOLD", "store">>
        BY <1>1, <2>1 DEF Quarantine
    <3> QED
        BY <3>1 DEF Held, Hold, Recorded
  <2> QED
      BY <2>1, <2>2 DEF Whole
<1>2. CASE Grown /\ Held
  <2>1. Held'
      BY <1>2, Persists DEF Held
  <2>2. torn = 0
      BY <1>0, <1>2 DEF Whole
  <2>3. torn' = 0
      BY <1>2, <2>2
      DEF Held, Hold, Next, Read, Begin, Ask, Denied, Start, Open, ReadFails, MaterializeFails, Complete, Register,
          Close, Guard, Expiries, Return, Dies, Refuse, Publish, Renew, Quarantine, Tick, Spoil, Tear, vars
  <2> QED
      BY <2>1, <2>3 DEF Whole
<1>3. CASE Grown /\ ~Held
  <2>0. /\ \A i, j \in DOMAIN log, p \in Plans :
              log[i] = <<"MANIFEST", p>> /\ log[j] = <<"MANIFEST", p>> => i = j
        /\ scope.phase = "started" => Recorded(<<"READ_STARTED", Request.item>>)
        /\ \A e \in exposures : Recalled(e)
        /\ \A e \in exposures :
              e.item \in Tests /\ PlanOf[e.item] \in Blind => Published(PlanOf[e.item])
        /\ BlindTestsAreBlind
      BY <1>0, <1>3 DEF Whole
  <2>1. ~Held'
      BY <1>3, Persists
  <2>2. \A i, j \in DOMAIN log', p \in Plans :
            log'[i] = <<"MANIFEST", p>> /\ log'[j] = <<"MANIFEST", p>> => i = j
      BY <1>3, <2>0 DEF Grown
  <2>3. scope'.phase = "started" => Recorded(<<"READ_STARTED", Request.item>>)'
    <3>1. CASE Start
      <4>1. log' = Append(log, <<"READ_STARTED", Request.item>>) /\ scope'.todo = scope.todo
          BY <1>0, <3>1 DEF Start, Write, Go, Shape
      <4>2. Len(log) + 1 \in DOMAIN log' /\ log'[Len(log) + 1] = <<"READ_STARTED", Request.item>>
          BY <1>0, <4>1 DEF Shape
      <4>3. Request' = Request
          BY <4>1 DEF Request
      <4> QED
          BY <4>2, <4>3 DEF Recorded
    <3>2. CASE ~Start
      <4>0. scope \in [phase : Busy \cup {"idle", "closing", "guards", "leaving"}, todo : Seq(Asked),
                       done : Seq(Asked), guarded : Nat, io : Nat]
          BY <1>0 DEF Shape
      <4>1. scope'.phase = "started" => scope' = scope
        <5>1. CASE \/ Ask \/ Open \/ Complete \/ Register \/ Close \/ Guard \/ Expiries
                   \/ (\E requests \in Requests : Begin(requests))
          <6>1. CASE Ask \/ Open \/ Complete
              BY <1>0, <6>1 DEF Ask, Open, Complete, Go, Shape
          <6>2. CASE Register \/ Close
            <7>1. \A p, t, d : [scope EXCEPT !.phase = p, !.todo = t, !.done = d].phase = p
                BY <4>0
            <7>2. \A p, x : [scope EXCEPT !.phase = p, !.io = x].phase = p
                BY <4>0
            <7>3. CASE Register
              <8>1. scope'.phase = (IF Len(scope.todo) > 1 THEN "asked" ELSE "closing")
                  BY <7>1, <7>3 DEF Register
              <8> QED
                  BY <8>1
            <7>4. CASE Close
                BY <7>2, <7>4 DEF Close, NoScope
            <7> QED
                BY <6>2, <7>3, <7>4
          <6>3. CASE \E requests \in Requests : Begin(requests)
              BY <6>3 DEF Begin, NoScope
          <6>4. CASE Guard
            <7>1. scope.phase = "guards" /\ (scope' = NoScope \/ scope' = [scope EXCEPT !.guarded = @ + 1, !.io = now])
                BY <6>4 DEF Guard, Refuse, In
            <7>2. [scope EXCEPT !.guarded = @ + 1, !.io = now].phase = scope.phase
                BY <4>0
            <7>3. scope'.phase = "guards" \/ scope' = NoScope
                BY <7>1, <7>2
            <7> QED
                BY <7>3 DEF NoScope
          <6>5. CASE Expiries
            <7>1. scope' = [scope EXCEPT !.phase = "leaving"] \/ scope' = NoScope
                BY <6>5 DEF Expiries, Refuse
            <7>2. [scope EXCEPT !.phase = "leaving"].phase = "leaving"
                BY <4>0
            <7>3. scope'.phase = "leaving" \/ scope' = NoScope
                BY <7>1, <7>2
            <7> QED
                BY <7>3 DEF NoScope
          <6> QED
              BY <5>1, <6>1, <6>2, <6>3, <6>4, <6>5
        <5>2. CASE Denied \/ ReadFails \/ MaterializeFails \/ Return \/ Dies
            BY <5>2 DEF Denied, ReadFails, MaterializeFails, Return, Dies, Refuse, NoScope
        <5>3. CASE \/ UNCHANGED vars \/ \E object \in Objects : Publish(object)
                   \/ \E grant \in Renewals : Renew(grant)
                   \/ Quarantine \/ Tick
                   \/ \E item \in Spoilable : Spoil(item)
                   \/ \E i \in DOMAIN log : Tear(i)
            BY <5>3 DEF vars, Publish, Renew, Quarantine, Tick, Spoil, Tear
        <5> QED
            BY <3>2, <5>1, <5>2, <5>3 DEF Next, Read, Objects
      <4>2. scope' = scope => Request' = Request
          BY DEF Request
      <4> QED
          BY <1>3, <2>0, <4>1, <4>2, Persists
    <3> QED
        BY <3>1, <3>2
  <2>4. CASE ~Open
    <3>1. UNCHANGED exposures
        BY <2>4
        DEF Next, Read, Begin, Ask, Denied, Start, ReadFails, MaterializeFails, Complete, Register,
            Close, Guard, Expiries, Return, Dies, Refuse, Publish, Renew, Quarantine, Tick, Spoil, Tear, vars
    <3>2. \A e \in exposures' : Recalled(e)'
        BY <1>3, <2>0, <3>1, Persists DEF Recalled
    <3>3. \A e \in exposures' :
              e.item \in Tests /\ PlanOf[e.item] \in Blind => Published(PlanOf[e.item])'
        BY <1>3, <2>0, <3>1, Persists DEF Published
    <3>4. BlindTestsAreBlind'
        BY <2>0, <3>1 DEF BlindTestsAreBlind
    <3> QED
        BY <2>1, <2>2, <2>3, <3>2, <3>3, <3>4 DEF Whole
  <2>5. CASE Open
    <3> DEFINE seen == {p \in Plans : Published(p)}
               e == [item |-> Request.item, plans |-> seen]
    <3>1. /\ scope.phase = "started" /\ Authorized(Request) /\ UNCHANGED log
          /\ exposures' = exposures \cup {e}
        BY <2>5 DEF Open, Expose, In
    <3>2. /\ Recalled(e) /\ e.item = Request.item
          /\ \A p : p \in e.plans <=> p \in Plans /\ Published(p)
      <4>1. PICK k \in DOMAIN log : log[k] = <<"READ_STARTED", Request.item>>
          BY <2>0, <3>1 DEF Recorded
      <4>2. \A j \in DOMAIN log, p \in Plans : log[j] = <<"MANIFEST", p>> => p \in seen
          BY DEF Published, Recorded
      <4> QED
          BY <4>1, <4>2 DEF Recalled
    <3>3. e.item \in Tests => TestAllowed(e.item)
        BY <3>1, <3>2 DEF Authorized
    <3> HIDE DEF e, seen
    <3>4. e.item \in Tests /\ PlanOf[e.item] \in Blind =>
              /\ PlanOf[e.item] \in Plans /\ Published(PlanOf[e.item])
              /\ ~ReadBefore(SourceOf[e.item], FrozenAt(PlanOf[e.item]))
        BY <3>3, ReadsAssumption DEF TestAllowed
    <3>5. \A x \in exposures' : Recalled(x)'
      <4>1. \A x \in exposures' : Recalled(x)
          BY <2>0, <3>1, <3>2
      <4> QED
          BY <1>3, <4>1, Persists DEF Recalled
    <3>6. \A x \in exposures' : x.item \in Tests /\ PlanOf[x.item] \in Blind => Published(PlanOf[x.item])
        BY <2>0, <3>1, <3>4
    <3>7. \A x \in exposures' :
              x.item \in Tests /\ PlanOf[x.item] \in Blind => Published(PlanOf[x.item])'
        BY <1>3, <3>6, Persists DEF Published
    <3>8. ASSUME NEW test \in exposures', NEW other \in exposures', test.item \in Tests,
                 PlanOf[test.item] \in Blind, SourceOf[other.item] = SourceOf[test.item]
          PROVE  PlanOf[test.item] \in other.plans
      <4>1. PlanOf[test.item] \in Plans /\ Published(PlanOf[test.item])
          BY <3>6, <3>8, ReadsAssumption
      <4>2. CASE other = e
          BY <3>2, <4>1, <4>2
      <4>3. CASE other \in exposures /\ test \in exposures
          BY <2>0, <3>8, <4>3 DEF BlindTestsAreBlind
      <4>4. CASE other \in exposures /\ test = e
        <5> DEFINE plan == PlanOf[test.item]
        <5>1. FrozenAt(plan) \in DOMAIN log /\ log[FrozenAt(plan)] = <<"MANIFEST", plan>>
            BY <1>0, <2>0, <4>1, FirstOfPlan
        <5>2. PICK k \in DOMAIN log :
                  /\ log[k] = <<"READ_STARTED", other.item>>
                  /\ \A j \in DOMAIN log, p \in Plans : log[j] = <<"MANIFEST", p>> => p \in other.plans \/ k < j
            BY <2>0, <4>4 DEF Recalled
        <5>3. ~(k < FrozenAt(plan))
            BY <3>4, <3>8, <4>4, <5>2 DEF ReadBefore, Readings
        <5> QED
            BY <4>1, <5>1, <5>2, <5>3
      <4> QED
          BY <3>1, <3>8, <4>2, <4>3, <4>4
    <3>9. BlindTestsAreBlind'
        BY <3>8 DEF BlindTestsAreBlind
    <3> QED
        BY <2>1, <2>2, <2>3, <3>5, <3>7, <3>9 DEF Whole
  <2> QED
      BY <2>4, <2>5
<1> QED
    BY <1>0, <1>1, <1>2, <1>3

-----------------------------------------------------------------------------
LEMMA BasedStep == Inv /\ [Next]_vars => Based'
<1> SUFFICES ASSUME Inv, [Next]_vars PROVE Based'
    OBVIOUS
<1>0. Shape /\ Based
    BY DEF Inv
<1>1. Quarantine \/ Grown
    BY LogStep
<1>2. SUFFICES ASSUME NEW k \in DOMAIN log', NEW g \in Renewals, log'[k] = <<"MANIFEST", g>>
               PROVE  \E j \in DOMAIN log' : j < k /\ log'[j] = <<"MANIFEST", Renews[g]>>
    BY DEF Based
<1>3. CASE Grown
  <2>1. CASE k \in DOMAIN log
    <3>1. PICK j \in DOMAIN log : j < k /\ log[j] = <<"MANIFEST", Renews[g]>>
        BY <1>0, <1>2, <1>3, <2>1 DEF Based, Grown
    <3> QED
        BY <1>3, <3>1 DEF Grown
  <2>2. CASE k \notin DOMAIN log
    <3>1. PICK j \in DOMAIN log : log[j] = <<"MANIFEST", Renews[g]>>
        BY <1>2, <1>3, <2>2 DEF Grown, Published, Recorded
    <3> QED
        BY <1>3, <2>2, <3>1 DEF Grown
  <2> QED
      BY <2>1, <2>2
<1>4. CASE Quarantine
  <2>1. /\ torn \in DOMAIN log /\ torn \in 1 .. Len(log) /\ Len(log) \in Nat
        /\ log' = Append(SubSeq(log, 1, torn - 1), Hold)
      BY <1>0, <1>4 DEF Shape, Quarantine, Hold
  <2>2. /\ DOMAIN log' = 1 .. torn /\ log'[torn] = Hold
        /\ \A i \in 1 .. torn - 1 : i \in DOMAIN log /\ log'[i] = log[i]
      BY <1>0, <2>1 DEF Shape
  <2>3. k # torn
      BY <1>2, <2>2 DEF Hold
  <2>4. k \in 1 .. torn - 1
      BY <2>1, <2>2, <2>3
  <2>5. PICK j \in DOMAIN log : j < k /\ log[j] = <<"MANIFEST", Renews[g]>>
      BY <1>0, <1>2, <2>2, <2>4 DEF Based
  <2>6. DOMAIN log = 1 .. Len(log)
      BY <1>0 DEF Shape
  <2>7. j \in 1 .. torn - 1 /\ j \in 1 .. torn
      BY <2>1, <2>4, <2>5, <2>6
  <2> QED
      BY <2>2, <2>5, <2>7
<1> QED
    BY <1>1, <1>3, <1>4

-----------------------------------------------------------------------------
LEMMA Invariance == Spec => []Inv
<1>1. Inv /\ [Next]_vars => Inv'
    BY ShapeStep, TimedStep, WholeStep, BasedStep DEF Inv
<1> QED
    BY InitInv, <1>1, PTL DEF Spec

\* As long as no quarantine dropped a record, no test under a blind plan opens
\* bytes of a source that anybody had open before the plan was frozen, in
\* whichever order reads, registrations, deaths and damages come.
THEOREM BlindTestsStayBlind == Spec => []BlindWhileWhole
<1>1. Inv => BlindWhileWhole
    BY DEF Inv, Whole, BlindWhileWhole, Held, Hold
<1> QED
    BY <1>1, Invariance, PTL

\* Nothing leaves a scope whose last I/O was not over before the expiry of the
\* grant it was read under, for scopes of any length and any clock.
THEOREM GivenInTime == Spec => []PermittedToTheEnd
<1>1. Inv => PermittedToTheEnd
    BY DEF Inv, Timed
<1> QED
    BY <1>1, Invariance, PTL

\* A renewal that died between version and receipt may be repeated as long as
\* its approval and the version are live, whatever was torn and quarantined in
\* between: the version it starts from is never gone when the new one is there.
THEOREM InterruptedRenewalsMayFinish == Spec => []RenewalCanBeRepeated
<1>1. Inv => RenewalCanBeRepeated
  <2> SUFFICES ASSUME Inv, NEW grant \in Renewals, Interrupted(grant)
               PROVE  MayRenew(grant) /\ Renewal(grant, FALSE) = <<<<"MANIFEST", Receipt(grant)>>>>
      BY DEF RenewalCanBeRepeated
  <2>1. Published(Renews[grant])
      BY DEF Inv, Based, Interrupted, Published, Recorded
  <2>2. MayRenew(grant)
      BY <2>1 DEF Interrupted, MayRenew
  <2>3. <<>> \o <<<<"MANIFEST", Receipt(grant)>>>> = <<<<"MANIFEST", Receipt(grant)>>>>
      OBVIOUS
  <2>4. Renewal(grant, FALSE) = <<>> \o <<<<"MANIFEST", Receipt(grant)>>>>
      BY DEF Interrupted, Renewal
  <2> QED
      BY <2>2, <2>3, <2>4
<1> QED
    BY <1>1, Invariance, PTL
=============================================================================
