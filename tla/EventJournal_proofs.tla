-------------------------- MODULE EventJournal_proofs --------------------------
(***************************************************************************)
(* Proofs about the event journal of ResearchStore: for any events,        *)
(* replays and quarantines, any number of crashes, failed flushes and      *)
(* power losses, and any outside damage, an undamaged journal opens        *)
(* (AlwaysOpens), nothing a caller was told of disappears unnoticed        *)
(* (NoSilentLoss), no event file is overwritten (NothingOverwritten), the  *)
(* durable head only grows (HeadNeverRegresses), and the files implement   *)
(* one growing log (ImplementsLog).                                        *)
(*                                                                         *)
(* First the pure part: what the scan of the files finds after an append   *)
(* (Extends) and after files were lost from some point on (Cuts).  Then    *)
(* the invariant, in two halves.  The first holds whatever happened to the *)
(* files: safeHead, head, the call's snapshot and event are prefixes of    *)
(* one another in that order (Heads), and callers only know what the       *)
(* oldest of them certifies (Told).  The second holds while damage is 0:   *)
(* the files are one chain whose unconfirmed files are its end (Whole),    *)
(* and no head certifies one of those (Backed).                            *)
(***************************************************************************)
EXTENDS EventJournal, FiniteSetTheorems, WellFoundedInduction, TLAPS

\* A set of naturals has a least element: induction over the files below.
LEMMA LeastNatural ==
    ASSUME NEW S \in SUBSET Nat, S # {}
    PROVE  \E n \in S : \A m \in S : n <= m
<1>1. PICK n \in S : \A m \in S : ~(<<m, n>> \in OpToRel(<, Nat))
  BY NatLessThanWellFounded, WFMin
<1>2. ASSUME NEW m \in S PROVE n <= m
  <2>1. ~(m < n)
    BY <1>1 DEF OpToRel
  <2> QED
    BY <2>1
<1> QED
  BY <1>2

-----------------------------------------------------------------------------
(* Prefixes. *)

Pre(s, t) == Len(s) <= Len(t) /\ \A i \in 1 .. Len(s) : s[i] = t[i]

LEMMA PreIs ==
    ASSUME NEW S, NEW s \in Seq(S), NEW t \in Seq(S)
    PROVE  IsPrefix(s, t) <=> Pre(s, t)
<1>1. Len(s) \in Nat /\ Len(t) \in Nat
  OBVIOUS
<1>2. ASSUME Len(s) <= Len(t)
      PROVE  SubSeq(s, 1, Len(s)) = SubSeq(t, 1, Len(s)) <=> \A i \in 1 .. Len(s) : s[i] = t[i]
  <2>1. /\ SubSeq(s, 1, Len(s)) = [i \in 1 .. Len(s) |-> s[i]]
        /\ SubSeq(t, 1, Len(s)) = [i \in 1 .. Len(s) |-> t[i]]
    BY <1>1, <1>2
  <2> QED
    BY <2>1
<1> QED
  BY <1>2 DEF IsPrefix, Pre

LEMMA PreTrans ==
    ASSUME NEW S, NEW r \in Seq(S), NEW s \in Seq(S), NEW t \in Seq(S), Pre(r, s), Pre(s, t)
    PROVE  Pre(r, t)
BY DEF Pre

LEMMA PreSelf == ASSUME NEW S, NEW s \in Seq(S) PROVE Pre(s, s) /\ Pre(<<>>, s)
BY DEF Pre

LEMMA PreAppend ==
    ASSUME NEW S, NEW s \in Seq(S), NEW e \in S
    PROVE  /\ Append(s, e) \in Seq(S) /\ Len(Append(s, e)) = Len(s) + 1
           /\ Pre(s, Append(s, e))
           /\ Last(Append(s, e)) = e
BY DEF Pre, Last

LEMMA PreSet ==
    ASSUME NEW S, NEW s \in Seq(S), NEW t \in Seq(S), Pre(s, t)
    PROVE  ToSet(s) \subseteq ToSet(t)
BY DEF Pre, ToSet

LEMMA LastInSet ==
    ASSUME NEW S, NEW s \in Seq(S), Len(s) >= 1
    PROVE  Last(s) \in ToSet(s) /\ Last(s) \in S
BY DEF Last, ToSet

LEMMA SameSequence ==
    ASSUME NEW S, NEW s \in Seq(S), NEW t \in Seq(S), Len(s) = Len(t), Pre(s, t)
    PROVE  s = t
BY DEF Pre

LEMMA PreCut ==
    ASSUME NEW S, NEW s \in Seq(S), NEW t \in Seq(S), NEW u \in Seq(S), Pre(s, t), Pre(u, t),
           Len(s) <= Len(u)
    PROVE  Pre(s, u)
BY DEF Pre

-----------------------------------------------------------------------------
(* Event files, as functions of the files. *)

All == Ids \cup HoldIds
Chains == Seq(All)
Files == [Seqs -> Chains \cup {Absent, Torn}]

LinksIn(f, n) ==
    /\ f[n] \notin {Absent, Torn}
    /\ Len(f[n]) = n /\ SubSeq(f[n], 1, n - 1) = IF n = 1 THEN <<>> ELSE f[n - 1]
ValidIn(f, n) == \A k \in 1 .. n : LinksIn(f, k)
LongestIn(f) == CHOOSE n \in 0 .. MaxSeq : (n < MaxSeq => ~LinksIn(f, n + 1)) /\ ValidIn(f, n)
PrefixIn(f) == IF LongestIn(f) = 0 THEN <<>> ELSE f[LongestIn(f)]
WholeIn(f) == {n \in Seqs : f[n] # Absent} = 1 .. LongestIn(f)
SafeIn(f, u, a) == {id \in a : \E n \in Seqs \ u : f[n] \notin {Absent, Torn} /\ Last(f[n]) = id}

LEMMA Names ==
    /\ Longest = LongestIn(file) /\ Longest' = LongestIn(file')
    /\ Prefix = PrefixIn(file) /\ Prefix' = PrefixIn(file')
    /\ Safe = SafeIn(file, unsynced, acked) /\ Safe' = SafeIn(file', unsynced', acked')
<1>1. Longest = LongestIn(file)
  BY DEF Longest, LongestIn, ValidTo, ValidIn, Links, LinksIn, Readable, Base
<1>2. Longest' = LongestIn(file')
  BY DEF Longest, LongestIn, ValidTo, ValidIn, Links, LinksIn, Readable, Base
<1>3. Prefix = PrefixIn(file) /\ Prefix' = PrefixIn(file')
  BY <1>1, <1>2 DEF Prefix, PrefixIn
<1>4. Safe = SafeIn(file, unsynced, acked)
  BY DEF Safe, SafeIn, Readable
<1>5. Safe' = SafeIn(file', unsynced', acked')
  BY DEF Safe, SafeIn, Readable
<1> QED
  BY <1>1, <1>2, <1>3, <1>4, <1>5

LEMMA Bounds ==
    /\ MaxSeq \in Nat
    /\ Absent # Torn /\ Absent \notin Chains /\ Torn \notin Chains
    /\ Unread \notin Chains /\ NoHead \notin Chains
<1>1. Cardinality(Ids) \in Nat /\ Cardinality(HoldIds) \in Nat
  BY IdAssumption, FS_CardinalityType
<1>2. MaxSeq \in Nat
  BY <1>1 DEF MaxSeq
<1>3. \A x \in {Absent, Torn, Unread, NoHead} : x \notin Seq(Ids \cup HoldIds)
  BY ValueAssumption, Zenon
<1>4. \A x \in {Absent, Torn, Unread, NoHead} : x \notin Chains
  BY <1>3, Zenon DEF Chains, All
<1>5. Absent # Torn
  BY ValueAssumption, Zenon
<1> QED
  BY <1>2, <1>4, <1>5, Zenon

LEMMA LongestExists ==
    ASSUME NEW f
    PROVE  /\ LongestIn(f) \in 0 .. MaxSeq /\ ValidIn(f, LongestIn(f))
           /\ LongestIn(f) < MaxSeq => ~LinksIn(f, LongestIn(f) + 1)
<1> DEFINE Ends == {n \in 0 .. MaxSeq : n < MaxSeq => ~LinksIn(f, n + 1)}
<1>0. MaxSeq \in Nat
  BY Bounds
<1>1. Ends \in SUBSET Nat /\ Ends # {}
  <2>1. MaxSeq \in Ends
    BY <1>0
  <2> QED
    BY <2>1, <1>0
<1>2. PICK n \in Ends : \A m \in Ends : n <= m
  <2> HIDE DEF Ends
  <2> QED
    BY <1>1, LeastNatural
<1>3. ValidIn(f, n)
  <2>1. SUFFICES ASSUME NEW k \in 1 .. n PROVE LinksIn(f, k)
    BY DEF ValidIn
  <2>2. k - 1 \in 0 .. MaxSeq /\ k - 1 < MaxSeq /\ ~(n <= k - 1) /\ (k - 1) + 1 = k
    BY <1>0, <1>2
  <2>3. k - 1 \notin Ends
    BY <2>2, <1>2
  <2> QED
    BY <2>2, <2>3
<1>4. \E m \in 0 .. MaxSeq : (m < MaxSeq => ~LinksIn(f, m + 1)) /\ ValidIn(f, m)
  BY <1>2, <1>3
<1> QED
  BY <1>4 DEF LongestIn

LEMMA LongestUnique ==
    ASSUME NEW f, NEW n \in 0 .. MaxSeq, ValidIn(f, n), n < MaxSeq => ~LinksIn(f, n + 1)
    PROVE  LongestIn(f) = n
<1> DEFINE m == LongestIn(f)
<1>1. m \in 0 .. MaxSeq /\ ValidIn(f, m) /\ (m < MaxSeq => ~LinksIn(f, m + 1)) /\ MaxSeq \in Nat
  BY LongestExists, Bounds
<1> HIDE DEF m
<1>2. ~(m < n)
  <2>1. ASSUME m < n PROVE FALSE
    <3>1. m + 1 \in 1 .. n /\ m < MaxSeq
      BY <2>1, <1>1
    <3> QED
      BY <3>1, <1>1 DEF ValidIn
  <2> QED
    BY <2>1
<1>3. ~(n < m)
  <2>1. ASSUME n < m PROVE FALSE
    <3>1. n + 1 \in 1 .. m /\ n < MaxSeq
      BY <2>1, <1>1
    <3> QED
      BY <3>1, <1>1 DEF ValidIn
  <2> QED
    BY <2>1
<1> QED
  BY <1>1, <1>2, <1>3 DEF m

LEMMA LinkFacts ==
    ASSUME NEW f \in Files, NEW n \in 1 .. MaxSeq
    PROVE  LinksIn(f, n) <=>
              /\ f[n] \in Chains /\ Len(f[n]) = n
              /\ n > 1 => f[n - 1] \in Chains /\ Len(f[n - 1]) = n - 1 /\ Pre(f[n - 1], f[n])
<1>0. MaxSeq \in Nat /\ Seqs = 1 .. MaxSeq
  BY Bounds DEF Seqs
<1>1. f[n] \notin {Absent, Torn} <=> f[n] \in Chains
  BY <1>0, Bounds DEF Files
<1>2. ASSUME f[n] \in Chains, Len(f[n]) = n
      PROVE  SubSeq(f[n], 1, n - 1) \in Chains /\ Len(SubSeq(f[n], 1, n - 1)) = n - 1
             /\ Pre(SubSeq(f[n], 1, n - 1), f[n])
  BY <1>2, <1>0 DEF Pre, Chains
<1>3. ASSUME f[n] \in Chains, Len(f[n]) = n, n = 1 PROVE SubSeq(f[n], 1, n - 1) = <<>>
  BY <1>3 DEF Chains
<1>4. ASSUME f[n] \in Chains, Len(f[n]) = n, n > 1
      PROVE  SubSeq(f[n], 1, n - 1) = f[n - 1]
             <=> f[n - 1] \in Chains /\ Len(f[n - 1]) = n - 1 /\ Pre(f[n - 1], f[n])
  <2>1. ASSUME SubSeq(f[n], 1, n - 1) = f[n - 1]
        PROVE  f[n - 1] \in Chains /\ Len(f[n - 1]) = n - 1 /\ Pre(f[n - 1], f[n])
    BY <2>1, <1>2, <1>4
  <2>2. ASSUME f[n - 1] \in Chains, Len(f[n - 1]) = n - 1, Pre(f[n - 1], f[n])
        PROVE  SubSeq(f[n], 1, n - 1) = f[n - 1]
    <3> DEFINE r == f[n - 1]
               s == SubSeq(f[n], 1, n - 1)
               t == f[n]
    <3>1. r \in Chains /\ s \in Chains /\ t \in Chains /\ Pre(r, t) /\ Pre(s, t)
          /\ Len(r) = n - 1 /\ Len(s) = n - 1 /\ n - 1 <= n - 1
      BY <1>2, <1>4, <2>2
    <3> HIDE DEF r, s, t
    <3>2. Pre(r, s)
      BY ONLY <3>1, PreCut DEF Chains
    <3>3. r = s
      BY ONLY <3>1, <3>2, SameSequence DEF Chains
    <3> QED
      BY <3>3 DEF r, s
  <2> QED
    BY <2>1, <2>2
<1> QED
  BY <1>1, <1>3, <1>4 DEF LinksIn

-----------------------------------------------------------------------------
(* What the valid prefix of the files is. *)

LEMMA PrefixTyped ==
    ASSUME NEW f \in Files
    PROVE  /\ LongestIn(f) \in 0 .. MaxSeq
           /\ PrefixIn(f) \in Chains /\ Len(PrefixIn(f)) = LongestIn(f)
<1> DEFINE n == LongestIn(f)
<1>1. n \in 0 .. MaxSeq /\ ValidIn(f, n) /\ MaxSeq \in Nat
  BY LongestExists, Bounds
<1> HIDE DEF n
<1>2. CASE n = 0
  BY <1>1, <1>2 DEF PrefixIn, Chains, n
<1>3. CASE n # 0
  <2>1. n \in 1 .. MaxSeq /\ LinksIn(f, n)
    BY <1>1, <1>3 DEF ValidIn
  <2>2. f[n] \in Chains /\ Len(f[n]) = n
    BY <2>1, LinkFacts
  <2> QED
    BY <1>1, <1>3, <2>2 DEF PrefixIn, n
<1> QED
  BY <1>2, <1>3

\* A file of the valid prefix is a prefix of its last file.
LEMMA BelowPrefix ==
    ASSUME NEW f \in Files, NEW j \in 1 .. LongestIn(f)
    PROVE  f[j] \in Chains /\ Len(f[j]) = j /\ Pre(f[j], PrefixIn(f))
<1> DEFINE n == LongestIn(f)
           Bad == {k \in j .. n : ~Pre(f[j], f[k])}
<1>1. n \in 0 .. MaxSeq /\ ValidIn(f, n) /\ MaxSeq \in Nat /\ j \in 1 .. n
  BY LongestExists, Bounds
<1>2. PrefixIn(f) = f[n]
  BY <1>1 DEF PrefixIn
<1> HIDE DEF n
<1>3. \A k \in 1 .. n : k \in 1 .. MaxSeq /\ LinksIn(f, k)
  BY <1>1 DEF ValidIn
<1>4. \A k \in 1 .. n :
         /\ f[k] \in Chains /\ Len(f[k]) = k
         /\ k > 1 => f[k - 1] \in Chains /\ Len(f[k - 1]) = k - 1 /\ Pre(f[k - 1], f[k])
  BY <1>3, LinkFacts
<1>5. Bad = {}
  <2>1. SUFFICES ASSUME Bad # {} PROVE FALSE
    OBVIOUS
  <2>2. Bad \in SUBSET Nat
    BY <1>1
  <2>3. PICK k \in Bad : \A m \in Bad : k <= m
    <3> HIDE DEF Bad
    <3> QED
      BY <2>1, <2>2, LeastNatural
  <2>4. k \in j .. n /\ ~Pre(f[j], f[k])
    OBVIOUS
  <2>5. k # j
    BY <2>4, <1>4, <1>1, PreSelf DEF Chains
  <2>6. k \in 1 .. n /\ k > 1 /\ k - 1 \in j .. n /\ ~(k <= k - 1)
    BY <2>4, <2>5, <1>1
  <2>7. Pre(f[j], f[k - 1])
    BY <2>3, <2>6
  <2>8. f[j] \in Chains /\ f[k] \in Chains /\ f[k - 1] \in Chains /\ Pre(f[k - 1], f[k])
    BY <1>1, <1>4, <2>6
  <2>9. Pre(f[j], f[k])
    BY <2>7, <2>8, PreTrans DEF Chains
  <2> QED
    BY <2>4, <2>9
<1>6. n \in j .. n
  BY <1>1
<1>7. Pre(f[j], f[n])
  BY <1>5, <1>6
<1> QED
  BY <1>1, <1>2, <1>4, <1>7

\* Writing the next event behind the whole journal adds that event to its prefix.
LEMMA Extends ==
    ASSUME NEW f \in Files, WholeIn(f), NEW e \in All, LongestIn(f) < MaxSeq,
           NEW g, g = [f EXCEPT ![LongestIn(f) + 1] = Append(PrefixIn(f), e)]
    PROVE  /\ g \in Files /\ WholeIn(g)
           /\ LongestIn(g) = LongestIn(f) + 1
           /\ PrefixIn(g) = Append(PrefixIn(f), e)
<1> DEFINE n == LongestIn(f)
           c == Append(PrefixIn(f), e)
<1>1. n \in 0 .. MaxSeq /\ n < MaxSeq /\ MaxSeq \in Nat /\ Seqs = 1 .. MaxSeq
      /\ ValidIn(f, n) /\ PrefixIn(f) \in Chains /\ Len(PrefixIn(f)) = n
  BY LongestExists, PrefixTyped, Bounds DEF Seqs
<1>2. c \in Chains /\ Len(c) = n + 1 /\ Pre(PrefixIn(f), c)
  BY <1>1, PreAppend DEF Chains
<1>w. {k \in Seqs : f[k] # Absent} = 1 .. n
  BY DEF WholeIn
<1>p. PrefixIn(f) = IF n = 0 THEN <<>> ELSE f[n]
  BY DEF PrefixIn
<1> HIDE DEF n, c
<1>3. g = [f EXCEPT ![n + 1] = c]
  BY DEF n, c
<1>4. g \in Files
  BY <1>1, <1>2, <1>3 DEF Files
<1>5. g[n + 1] = c /\ \A k \in Seqs : k # n + 1 => g[k] = f[k]
  BY <1>1, <1>3 DEF Files
<1>6. ASSUME NEW k \in 1 .. n PROVE LinksIn(g, k)
  <2>1. k \in 1 .. MaxSeq /\ LinksIn(f, k) /\ g[k] = f[k] /\ (k > 1 => g[k - 1] = f[k - 1])
    BY <1>1, <1>5 DEF ValidIn
  <2>2. /\ f[k] \in Chains /\ Len(f[k]) = k
        /\ k > 1 => f[k - 1] \in Chains /\ Len(f[k - 1]) = k - 1 /\ Pre(f[k - 1], f[k])
    BY <2>1, LinkFacts
  <2>3. /\ g[k] \in Chains /\ Len(g[k]) = k
        /\ k > 1 => g[k - 1] \in Chains /\ Len(g[k - 1]) = k - 1 /\ Pre(g[k - 1], g[k])
    BY <2>1, <2>2
  <2> QED
    BY <2>1, <2>3, <1>4, LinkFacts
<1>7. LinksIn(g, n + 1)
  <2>1. n + 1 \in 1 .. MaxSeq /\ (n + 1) - 1 = n
    BY <1>1
  <2>2. g[n + 1] \in Chains /\ Len(g[n + 1]) = n + 1
    BY <1>2, <1>5
  <2>3. ASSUME n + 1 > 1
        PROVE  g[(n + 1) - 1] \in Chains /\ Len(g[(n + 1) - 1]) = (n + 1) - 1
               /\ Pre(g[(n + 1) - 1], g[n + 1])
    <3>1. n # 0 /\ n \in Seqs /\ n # n + 1
      BY <1>1, <2>3
    <3>2. g[n] = PrefixIn(f)
      BY <3>1, <1>5, <1>p
    <3> QED
      BY <3>2, <2>1, <1>1, <1>2, <1>5
  <2> QED
    BY <2>1, <2>2, <2>3, <1>4, LinkFacts
<1>8. ValidIn(g, n + 1)
  <2>1. \A k \in 1 .. n + 1 : k \in 1 .. n \/ k = n + 1
    BY <1>1
  <2> QED
    BY <2>1, <1>6, <1>7 DEF ValidIn
<1>9. ASSUME n + 1 < MaxSeq PROVE ~LinksIn(g, (n + 1) + 1)
  <2>1. (n + 1) + 1 \in Seqs /\ (n + 1) + 1 \notin 1 .. n /\ (n + 1) + 1 # n + 1
    BY <1>1, <1>9
  <2>2. f[(n + 1) + 1] = Absent
    BY <2>1, <1>w
  <2>3. g[(n + 1) + 1] = Absent
    BY <2>1, <2>2, <1>5
  <2> QED
    BY <2>3 DEF LinksIn
<1>10. n + 1 \in 0 .. MaxSeq
  BY <1>1
<1>11. LongestIn(g) = n + 1
  BY <1>8, <1>9, <1>10, LongestUnique
<1>12. PrefixIn(g) = c
  BY <1>11, <1>1, <1>5 DEF PrefixIn
<1>13. WholeIn(g)
  <2>1. c # Absent
    BY <1>2, Bounds
  <2>2. ASSUME NEW k \in Seqs PROVE g[k] # Absent <=> k \in 1 .. n + 1
    <3>1. CASE k = n + 1
      BY <3>1, <2>1, <1>5, <1>1
    <3>2. CASE k # n + 1
      <4>1. k \in 1 .. n + 1 <=> k \in 1 .. n
        BY <3>2, <1>1
      <4>2. g[k] = f[k]
        BY <3>2, <1>5
      <4> QED
        BY <4>1, <4>2, <1>w
    <3> QED
      BY <3>1, <3>2
  <2>3. 1 .. n + 1 \subseteq Seqs
    BY <1>1
  <2>4. {k \in Seqs : g[k] # Absent} = 1 .. n + 1
    BY <2>2, <2>3
  <2> QED
    BY <2>4, <1>11 DEF WholeIn
<1> QED
  BY <1>4, <1>11, <1>12, <1>13 DEF n, c

\* Losing every file from some point on leaves the history before it.
LEMMA Cuts ==
    ASSUME NEW f \in Files, WholeIn(f), NEW m \in 0 .. LongestIn(f),
           NEW g, g = [k \in Seqs |-> IF k > m THEN Absent ELSE f[k]]
    PROVE  /\ g \in Files /\ WholeIn(g)
           /\ LongestIn(g) = m
           /\ PrefixIn(g) = SubSeq(PrefixIn(f), 1, m)
           /\ Pre(PrefixIn(g), PrefixIn(f))
<1> DEFINE n == LongestIn(f)
<1>1. n \in 0 .. MaxSeq /\ MaxSeq \in Nat /\ Seqs = 1 .. MaxSeq /\ m \in 0 .. n
      /\ ValidIn(f, n) /\ PrefixIn(f) \in Chains /\ Len(PrefixIn(f)) = n
  BY LongestExists, PrefixTyped, Bounds DEF Seqs
<1>w. {k \in Seqs : f[k] # Absent} = 1 .. n
  BY DEF WholeIn
<1>b. \A j \in 1 .. n : f[j] \in Chains /\ Len(f[j]) = j /\ Pre(f[j], PrefixIn(f))
  BY BelowPrefix
<1> HIDE DEF n
<1>2. g \in Files
  BY <1>1 DEF Files
<1>3. \A k \in Seqs : g[k] = IF k > m THEN Absent ELSE f[k]
  OBVIOUS
<1>4. ValidIn(g, m)
  <2>1. SUFFICES ASSUME NEW k \in 1 .. m PROVE LinksIn(g, k)
    BY DEF ValidIn
  <2>2. k \in 1 .. MaxSeq /\ k \in 1 .. n
    BY <1>1
  <2>3. LinksIn(f, k) /\ g[k] = f[k] /\ (k > 1 => g[k - 1] = f[k - 1])
    BY <2>2, <1>1, <1>3 DEF ValidIn
  <2> QED
    BY <2>2, <2>3, <1>2, LinkFacts
<1>5. ASSUME m < MaxSeq PROVE ~LinksIn(g, m + 1)
  <2>1. m + 1 \in Seqs /\ m + 1 > m
    BY <1>1, <1>5
  <2>2. g[m + 1] = Absent
    BY <2>1, <1>3
  <2> QED
    BY <2>2 DEF LinksIn
<1>6. m \in 0 .. MaxSeq
  BY <1>1
<1>7. LongestIn(g) = m
  BY <1>4, <1>5, <1>6, LongestUnique
<1>8. WholeIn(g)
  <2>1. ASSUME NEW k \in Seqs PROVE g[k] # Absent <=> k \in 1 .. m
    <3>1. CASE k > m
      BY <3>1, <1>1, <1>3
    <3>2. CASE ~(k > m)
      <4>1. k \in 1 .. m /\ k \in 1 .. n
        BY <3>2, <1>1
      <4> QED
        BY <4>1, <3>2, <1>3, <1>w
    <3> QED
      BY <3>1, <3>2
  <2>2. 1 .. m \subseteq Seqs
    BY <1>1
  <2>3. {k \in Seqs : g[k] # Absent} = 1 .. m
    BY <2>1, <2>2
  <2> QED
    BY <2>3, <1>7 DEF WholeIn
<1>9. PrefixIn(g) = SubSeq(PrefixIn(f), 1, m) /\ Pre(PrefixIn(g), PrefixIn(f))
  <2> DEFINE p == PrefixIn(f)
  <2>0. p \in Seq(All) /\ Len(p) = n
    BY <1>1 DEF Chains
  <2> HIDE DEF p
  <2>1. SubSeq(p, 1, m) \in Seq(All) /\ Len(SubSeq(p, 1, m)) = m
        /\ \A i \in 1 .. m : SubSeq(p, 1, m)[i] = p[i]
    BY <2>0, <1>1
  <2>2. CASE m = 0
    <3>1. PrefixIn(g) = <<>>
      BY <2>2, <1>7 DEF PrefixIn
    <3>2. SubSeq(p, 1, m) = <<>>
      BY <2>1, <2>2
    <3> QED
      BY <3>1, <3>2, <2>0, PreSelf DEF p
  <2>3. CASE m # 0
    <3>1. m \in 1 .. n /\ m \in Seqs /\ ~(m > m)
      BY <2>3, <1>1
    <3>2. PrefixIn(g) = f[m]
      BY <2>3, <3>1, <1>3, <1>7 DEF PrefixIn
    <3>3. f[m] \in Seq(All) /\ Len(f[m]) = m /\ Pre(f[m], p)
      BY <3>1, <1>b DEF Chains, p
    <3>4. Pre(f[m], SubSeq(p, 1, m))
      BY <3>3, <2>1 DEF Pre
    <3>5. f[m] = SubSeq(p, 1, m)
      BY <3>3, <3>4, <2>1, SameSequence
    <3> QED
      BY <3>2, <3>3, <3>5 DEF p
  <2> QED
    BY <2>2, <2>3
<1> QED
  BY <1>2, <1>7, <1>8, <1>9

\* What a flush covered is in the history.
LEMMA SafeInPrefix ==
    ASSUME NEW f \in Files, WholeIn(f), NEW u, NEW a
    PROVE  SafeIn(f, u, a) \subseteq ToSet(PrefixIn(f))
<1>1. SUFFICES ASSUME NEW id \in SafeIn(f, u, a) PROVE id \in ToSet(PrefixIn(f))
  OBVIOUS
<1>2. PICK n \in Seqs : f[n] # Absent /\ Last(f[n]) = id
  BY DEF SafeIn
<1>3. n \in 1 .. LongestIn(f)
  BY <1>2 DEF WholeIn
<1>4. f[n] \in Chains /\ Len(f[n]) = n /\ Pre(f[n], PrefixIn(f))
  BY <1>3, BelowPrefix
<1>5. PrefixIn(f) \in Chains /\ LongestIn(f) \in Nat
  BY PrefixTyped, Bounds
<1>6. Last(f[n]) \in ToSet(f[n])
  BY <1>3, <1>4, <1>5, LastInSet DEF Chains
<1>7. ToSet(f[n]) \subseteq ToSet(PrefixIn(f))
  BY <1>4, <1>5, PreSet DEF Chains
<1> QED
  BY <1>2, <1>6, <1>7

-----------------------------------------------------------------------------
(* The parts of the inductive invariant. *)

Written == {"renamed", "flushed", "headed"}
Recovering == {"moving", "rewind", "holding"}
Modes == {"none", "append", "quarantine"} \cup Transactions
States == {"idle", "ready", "final", "moving", "rewind", "holding"} \cup Written
Jobs == [mode : Modes, phase : States, event : Chains, snap : Chains \cup {Unread},
         ours : SUBSET All, pending : Chains \cup {NoHead}, raises : BOOLEAN]

Typed ==
    /\ file \in Files
    /\ head \in Chains /\ safeHead \in Chains
    /\ headTorn \in BOOLEAN /\ hold \in BOOLEAN
    /\ unsynced \in SUBSET Seqs
    /\ acked \in SUBSET All
    /\ damage \in Nat
    /\ job \in Jobs

\* What a call holds, by its phase.
Phases ==
    /\ job.phase \in Written => Len(job.event) >= 1
    /\ job.mode = "quarantine" \/ job.phase \in Recovering => hold
    /\ job.phase = "moving" => job.snap # Unread
    /\ job.phase \in {"flushed", "headed"} => unsynced = {}
    /\ job.phase = "flushed" /\ job.snap # Unread => job.snap = job.event
    /\ job.phase \in {"headed", "final"} => job.pending = NoHead
    /\ job.pending # NoHead => job.mode = "checkpoint"
    /\ job.mode \in Transactions /\ ~job.raises /\ job.snap = Unread => hold

\* Nothing lies behind the chain a call would append to.
Room ==
    /\ job.phase = "renamed" => \A n \in Present : n <= Len(job.event)
    /\ job.phase \notin {"moving", "renamed"} /\ job.snap # Unread =>
         \A n \in Present : n <= Len(job.snap)

\* What head.json certifies is a prefix of everything a call may certify next.
HeadsGrow ==
    /\ Pre(safeHead, head)
    /\ job.snap # Unread => Pre(head, job.snap)
    /\ job.phase \in Written => Pre(head, job.event)
    /\ job.phase \in Written /\ job.snap # Unread => Pre(job.snap, job.event)
    /\ job.pending # NoHead => Pre(head, job.pending)
    /\ job.pending # NoHead /\ ~job.raises => Pre(job.pending, job.snap)
    /\ job.phase = "headed" => head = job.event
Heads == ~hold => HeadsGrow

\* The head that will be on disk when the call returns.
Certified ==
    IF job.phase \in {"headed", "final"} THEN head
    ELSE IF job.pending # NoHead THEN job.pending ELSE safeHead

\* What callers know, or will know when the call returns, is below that head.
HeadsCover ==
    /\ acked \ Replays \subseteq ToSet(safeHead)
    /\ ~job.raises => job.ours \ Replays \subseteq ToSet(Certified)
Told == ~hold => HeadsCover

\* Nobody touched the files: they are one chain, what no flush confirmed is its
\* end, and a call holds all of it.
Undamaged ==
    /\ Present = 1 .. Longest
    /\ unsynced \subseteq 1 .. Longest
    /\ \A k \in unsynced, m \in 1 .. Longest : k <= m => m \in unsynced
    /\ job.phase \in Written => job.event = Prefix
    /\ job.phase # "renamed" /\ job.snap # Unread => job.snap = Prefix
Whole == damage = 0 => Undamaged

\* A head never certifies a file that power may still take.
Below(c) == Pre(c, Prefix) /\ \A k \in unsynced : Len(c) < k
HeadsBelow ==
    /\ ~headTorn
    /\ Below(head) /\ Below(safeHead)
    /\ job.pending # NoHead => Below(job.pending)
Backed == damage = 0 /\ ~hold => HeadsBelow

-----------------------------------------------------------------------------
(* Facts the steps share. *)

LEMMA SameFiles ==
    ASSUME file' = file
    PROVE  Longest' = Longest /\ Prefix' = Prefix /\ Present' = Present
BY Names DEF Present

LEMMA HistoryTyped ==
    ASSUME Typed
    PROVE  /\ Longest \in 0 .. MaxSeq /\ MaxSeq \in Nat /\ Seqs = 1 .. MaxSeq
           /\ Prefix \in Chains /\ Len(Prefix) = Longest
           /\ Unread \notin Chains /\ NoHead \notin Chains /\ <<>> \in Chains
           /\ job.snap \in Chains \cup {Unread} /\ job.event \in Chains
           /\ job.pending \in Chains \cup {NoHead}
           /\ Known \in Chains
<1>1. file \in Files
  BY DEF Typed
<1>2. Longest \in 0 .. MaxSeq /\ Prefix \in Chains /\ Len(Prefix) = Longest
  BY <1>1, PrefixTyped, Names
<1>3. /\ job.snap \in Chains \cup {Unread} /\ job.event \in Chains
      /\ job.pending \in Chains \cup {NoHead}
  BY DEF Typed, Jobs
<1>4. Known \in Chains
  BY <1>2, <1>3 DEF Known
<1>5. <<>> \in Chains
  BY DEF Chains
<1> QED
  BY <1>2, <1>3, <1>4, <1>5, Bounds DEF Seqs

\* The chain of an event that is about to be written.
LEMMA NewChain ==
    ASSUME Typed, NEW id \in All
    PROVE  /\ Append(Known, id) \in Chains /\ Len(Append(Known, id)) = Len(Known) + 1
           /\ Len(Known) \in Nat
           /\ Pre(Known, Append(Known, id)) /\ Last(Append(Known, id)) = id
<1>1. Known \in Seq(All)
  BY HistoryTyped DEF Chains
<1> QED
  BY <1>1, PreAppend DEF Chains

\* The event of a call that is writing.
LEMMA LastEvent ==
    ASSUME Typed, Phases, job.phase \in Written
    PROVE  Last(job.event) \in ToSet(job.event) /\ Last(job.event) \in All
<1>1. job.event \in Seq(All) /\ Len(job.event) >= 1
  BY HistoryTyped DEF Phases, Chains
<1> QED
  BY <1>1, LastInSet

LEMMA InitJournal ==
    ASSUME Init
    PROVE  /\ Longest = 0 /\ Prefix = <<>> /\ Present = {}
           /\ NoJob \in Jobs /\ file \in Files
<1>1. MaxSeq \in Nat /\ file = [n \in Seqs |-> Absent]
  BY Bounds DEF Init
<1>2. \A n \in Seqs : file[n] = Absent
  BY <1>1
<1>3. ASSUME 0 < MaxSeq PROVE ~LinksIn(file, 0 + 1)
  <2>1. 0 + 1 \in Seqs
    BY <1>1, <1>3 DEF Seqs
  <2> QED
    BY <2>1, <1>2 DEF LinksIn
<1>4. ValidIn(file, 0)
  BY DEF ValidIn
<1>5. LongestIn(file) = 0
  BY <1>1, <1>3, <1>4, LongestUnique
<1>6. Present = {}
  BY <1>2 DEF Present
<1>7. <<>> \in Chains
  BY DEF Chains
<1>8. NoJob \in Jobs
  BY <1>7 DEF NoJob, Jobs, Modes, States
<1>9. file \in Files
  BY <1>1 DEF Files
<1> QED
  BY <1>5, <1>6, <1>8, <1>9, Names DEF PrefixIn

-----------------------------------------------------------------------------
(* Every step keeps every part. *)

\* A recovery hold is never lifted.
LEMMA HoldStays == ASSUME Typed, [Next]_vars PROVE hold \in BOOLEAN /\ (hold => hold')
<1>1. hold \in BOOLEAN
  BY DEF Typed
<1>2. hold' = hold \/ hold' = TRUE
  BY DEF Next, Call, Quarantine, Environment, Begin, Replay, Rename, Flush, Defer, RenameHead,
         FlushHead, AppendFails, HeadFails, FinalHead, FlushFinalHead, Return, StartQuarantine,
         Move, Rewind, FlushRewind, Crash, PowerLoss, TearFile, LoseFile, TearHead, Damaged,
         vars, diskVars, syncVars
<1> QED
  BY <1>1, <1>2

LEMMA StepTyped == ASSUME Typed, Phases, [Next]_vars PROVE Typed'
<1> USE HistoryTyped DEF Typed, Jobs, Modes, States, Written, Recovering, Transactions, Holding, MayAppend
<1>0. NoJob \in Jobs
  BY DEF NoJob
<1>1. ASSUME NEW mode \in {"append"} \cup Transactions, Begin(mode) PROVE Typed'
  BY <1>1, <1>0 DEF Begin, NoJob, diskVars, syncVars
<1>2. ASSUME NEW id \in Ids \cup HoldIds, Replay(id) PROVE Typed'
  BY <1>2 DEF Replay, diskVars, syncVars, All
<1>3. ASSUME NEW id \in Ids \cup HoldIds, Rename(id) PROVE Typed'
  <2> DEFINE chain == Append(Known, id)
  <2>1. chain \in Chains
    BY NewChain DEF All
  <2>2. /\ Len(chain) \in Seqs /\ file' = [file EXCEPT ![Len(chain)] = chain]
        /\ unsynced' = unsynced \cup {Len(chain)}
        /\ job' = [job EXCEPT !.phase = "renamed", !.event = chain]
        /\ UNCHANGED <<head, headTorn, hold, safeHead, acked, damage>>
    BY <1>3 DEF Rename
  <2> HIDE DEF chain
  <2>3. file' \in Files
    BY <2>1, <2>2 DEF Files
  <2> QED
    BY <2>1, <2>2, <2>3
<1>4. CASE Flush
  BY <1>4, <1>0 DEF Flush, diskVars
<1>5. CASE Defer
  <2>1. Last(job.event) \in All
    BY <1>5, LastEvent DEF Defer
  <2> QED
    BY <1>5, <2>1 DEF Defer, diskVars, syncVars
<1>6. CASE RenameHead
  BY <1>6, <1>0 DEF RenameHead, syncVars
<1>7. CASE FlushHead
  <2>1. Last(job.event) \in All
    BY <1>7, LastEvent DEF FlushHead
  <2> QED
    BY <1>7, <2>1 DEF FlushHead, diskVars, syncVars
<1>8. CASE AppendFails
  BY <1>8, <1>0 DEF AppendFails, diskVars, syncVars
<1>9. CASE HeadFails
  BY <1>9, <1>0 DEF HeadFails, diskVars, syncVars
<1>10. CASE FinalHead
  BY <1>10, <1>0 DEF FinalHead, syncVars
<1>11. CASE FlushFinalHead
  BY <1>11, <1>0 DEF FlushFinalHead, diskVars
<1>12. CASE Return
  BY <1>12, <1>0 DEF Return, NoJob, diskVars, syncVars
<1>13. CASE StartQuarantine
  BY <1>13, <1>0 DEF StartQuarantine, MayQuarantine, Quarantining, NoJob, syncVars
<1>14. CASE Move
  <2>1. file' \in Files
    BY <1>14 DEF Move, Files
  <2> QED
    BY <1>14, <2>1 DEF Move
<1>15. CASE Rewind
  <2>1. job.snap # Unread
    BY <1>15 DEF Rewind, Phases
  <2> QED
    BY <1>15, <2>1 DEF Rewind, syncVars
<1>16. CASE FlushRewind
  BY <1>16, <1>0 DEF FlushRewind, diskVars
<1>17. CASE Crash
  BY <1>17, <1>0 DEF Crash, NoJob, diskVars, syncVars
<1>18. CASE PowerLoss
  <2>1. file' \in Files
    BY <1>18 DEF PowerLoss, Files
  <2>2. head' \in Chains /\ safeHead' \in Chains
    BY <1>18 DEF PowerLoss
  <2> QED
    BY <1>18, <1>0, <2>1, <2>2 DEF PowerLoss
<1>19. ASSUME NEW n \in Seqs, TearFile(n) PROVE Typed'
  BY <1>19, <1>0 DEF TearFile, syncVars, Damaged, Files
<1>20. ASSUME NEW n \in Seqs, LoseFile(n) PROVE Typed'
  BY <1>20, <1>0 DEF LoseFile, syncVars, Damaged, Files
<1>21. CASE TearHead
  BY <1>21, <1>0 DEF TearHead, syncVars, Damaged, Files
<1>22. CASE UNCHANGED vars
  BY <1>22 DEF vars, diskVars, syncVars
<1> QED
  BY <1>1, <1>2, <1>3, <1>4, <1>5, <1>6, <1>7, <1>8, <1>9, <1>10, <1>11,
     <1>12, <1>13, <1>14, <1>15, <1>16, <1>17, <1>18, <1>19, <1>20, <1>21, <1>22
     DEF Next, Call, Quarantine, Environment

LEMMA StepPhases == ASSUME Typed, Phases, [Next]_vars PROVE Phases'
<1> USE HistoryTyped DEF Typed, Phases, Jobs, Modes, States, Written, Recovering, Transactions,
                        Holding, MayAppend
<1>1. ASSUME NEW mode \in {"append"} \cup Transactions, Begin(mode) PROVE Phases'
  BY <1>1 DEF Begin, NoJob, diskVars, syncVars
<1>2. ASSUME NEW id \in Ids \cup HoldIds, Replay(id) PROVE Phases'
  BY <1>2 DEF Replay, diskVars, syncVars
<1>3. ASSUME NEW id \in Ids \cup HoldIds, Rename(id) PROVE Phases'
  <2> DEFINE chain == Append(Known, id)
  <2>1. chain \in Chains /\ Len(chain) = Len(Known) + 1 /\ Len(Known) \in Nat
    BY NewChain DEF All
  <2>2. /\ job.phase \in {"ready", "holding"} /\ Len(chain) \in Seqs
        /\ job' = [job EXCEPT !.phase = "renamed", !.event = chain]
        /\ UNCHANGED hold
    BY <1>3 DEF Rename
  <2>3. Len(chain) >= 1
    BY <2>1
  <2> HIDE DEF chain
  <2> QED
    BY <2>2, <2>3
<1>4. CASE Flush
  BY <1>4 DEF Flush, diskVars
<1>5. CASE Defer
  BY <1>5 DEF Defer, diskVars, syncVars, Deferred
<1>6. CASE RenameHead
  BY <1>6 DEF RenameHead, syncVars
<1>7. CASE FlushHead
  BY <1>7 DEF FlushHead, diskVars
<1>8. CASE AppendFails
  BY <1>8 DEF AppendFails, diskVars, syncVars
<1>9. CASE HeadFails
  BY <1>9 DEF HeadFails, diskVars, syncVars
<1>10. CASE FinalHead
  BY <1>10 DEF FinalHead, syncVars
<1>11. CASE FlushFinalHead
  BY <1>11 DEF FlushFinalHead, diskVars
<1>12. CASE Return
  BY <1>12 DEF Return, NoJob, diskVars, syncVars
<1>13. CASE StartQuarantine
  BY <1>13 DEF StartQuarantine, MayQuarantine, Quarantining, NoJob, syncVars
<1>14. CASE Move
  BY <1>14 DEF Move
<1>15. CASE Rewind
  BY <1>15 DEF Rewind, syncVars
<1>16. CASE FlushRewind
  BY <1>16 DEF FlushRewind, diskVars
<1>17. CASE Crash
  BY <1>17 DEF Crash, NoJob, diskVars, syncVars
<1>18. CASE PowerLoss
  BY <1>18 DEF PowerLoss, NoJob
<1>19. ASSUME NEW n \in Seqs, TearFile(n) PROVE Phases'
  BY <1>19 DEF TearFile, syncVars, Damaged
<1>20. ASSUME NEW n \in Seqs, LoseFile(n) PROVE Phases'
  BY <1>20 DEF LoseFile, syncVars, Damaged
<1>21. CASE TearHead
  BY <1>21 DEF TearHead, syncVars, Damaged
<1>22. CASE UNCHANGED vars
  BY <1>22 DEF vars, diskVars, syncVars
<1> QED
  BY <1>1, <1>2, <1>3, <1>4, <1>5, <1>6, <1>7, <1>8, <1>9, <1>10, <1>11,
     <1>12, <1>13, <1>14, <1>15, <1>16, <1>17, <1>18, <1>19, <1>20, <1>21, <1>22
     DEF Next, Call, Quarantine, Environment

\* A call that may append knows everything that is there.
LEMMA KnownRoom ==
    ASSUME Typed, Room, job.phase \in {"ready", "holding"}, CanRead
    PROVE  \A n \in Present : n <= Len(Known)
<1>1. CASE job.snap # Unread
  BY <1>1 DEF Room, Known
<1>2. CASE job.snap = Unread
  <2>1. Present = 1 .. Longest
    BY <1>2 DEF CanRead, Opens
  <2>2. Known = Prefix
    BY <1>2 DEF Known
  <2> QED
    BY <2>1, <2>2, HistoryTyped
<1> QED
  BY <1>1, <1>2

LEMMA StepRoom == ASSUME Typed, Phases, Room, [Next]_vars PROVE Room'
<1> USE HistoryTyped DEF Room, Jobs, Holding, MayAppend
<1>0. file' = file => Present' = Present
  BY SameFiles
<1>t. job \in Jobs
  BY DEF Typed
<1>p. \A n \in Present : n \in Seqs
  BY DEF Present
<1>s. /\ job.phase = "flushed" /\ job.snap # Unread => job.snap = job.event
      /\ job.phase = "moving" => job.snap # Unread
  BY DEF Phases
<1>1. ASSUME NEW mode \in {"append"} \cup Transactions, Begin(mode) PROVE Room'
  <2>1. Present = 1 .. Longest /\ Present' = Present /\ job'.snap \in {Unread, Prefix}
    BY <1>1, <1>0, <1>t DEF Begin, Opens, NoJob, diskVars
  <2>2. job'.phase = "ready"
    BY <1>1, <1>t DEF Begin, NoJob
  <2> QED
    BY <2>1, <2>2
<1>2. ASSUME NEW id \in Ids \cup HoldIds, Replay(id) PROVE Room'
  BY <1>2, <1>0, <1>t, <1>s DEF Replay, diskVars, syncVars
<1>3. ASSUME NEW id \in Ids \cup HoldIds, Rename(id) PROVE Room'
  <2> DEFINE chain == Append(Known, id)
  <2>1. chain \in Chains /\ Len(chain) = Len(Known) + 1 /\ Len(Known) \in Nat
    BY NewChain DEF All
  <2>2. /\ job.phase \in {"ready", "holding"} /\ CanRead
        /\ file' = [file EXCEPT ![Len(chain)] = chain]
        /\ job' = [job EXCEPT !.phase = "renamed", !.event = chain]
    BY <1>3 DEF Rename
  <2>3. \A n \in Present : n <= Len(Known)
    BY <2>2, KnownRoom
  <2> HIDE DEF chain
  <2>4. \A n \in Present' : n \in Present \/ n = Len(chain)
    BY <2>2 DEF Present, Typed, Files
  <2>5. job'.phase = "renamed" /\ job'.event = chain
    BY <2>2, <1>t
  <2>6. ASSUME NEW n \in Present' PROVE n <= Len(job'.event)
    BY <2>1, <2>3, <2>4, <2>5, <1>p
  <2> QED
    BY <2>5, <2>6
<1>4. CASE Flush
  BY <1>4, <1>0, <1>t, <1>s DEF Flush, diskVars
<1>5. CASE Defer
  BY <1>5, <1>0, <1>t, <1>s DEF Defer, diskVars, syncVars
<1>6. CASE RenameHead
  BY <1>6, <1>0, <1>t, <1>s DEF RenameHead, syncVars
<1>7. CASE FlushHead
  BY <1>7, <1>0, <1>t, <1>s DEF FlushHead, diskVars
<1>8. CASE AppendFails
  BY <1>8, <1>0, <1>t, <1>s DEF AppendFails, diskVars, syncVars
<1>9. CASE HeadFails
  BY <1>9, <1>0, <1>t, <1>s DEF HeadFails, diskVars, syncVars
<1>10. CASE FinalHead
  BY <1>10, <1>0, <1>t, <1>s DEF FinalHead, syncVars
<1>11. CASE FlushFinalHead
  BY <1>11, <1>0, <1>t, <1>s DEF FlushFinalHead, diskVars
<1>12. CASE Return
  BY <1>12, <1>0, <1>t, <1>s DEF Return, NoJob, diskVars, syncVars
<1>13. CASE StartQuarantine
  BY <1>13, <1>0, <1>t, <1>s DEF StartQuarantine, MayQuarantine, Quarantining, NoJob, syncVars
<1>14. CASE Move
  <2>1. job' = job /\ job.phase = "moving"
    BY <1>14 DEF Move
  <2> QED
    BY <2>1
<1>15. CASE Rewind
  BY <1>15, <1>0, <1>t, <1>s DEF Rewind, syncVars
<1>16. CASE FlushRewind
  BY <1>16, <1>0, <1>t, <1>s DEF FlushRewind, diskVars
<1>17. CASE Crash
  BY <1>17, <1>0, <1>t, <1>s DEF Crash, NoJob, diskVars, syncVars
<1>18. CASE PowerLoss
  <2>1. job'.snap = Unread /\ job'.phase = "idle"
    BY <1>18 DEF PowerLoss, NoJob
  <2> QED
    BY <2>1
<1>19. ASSUME NEW n \in Seqs, TearFile(n) PROVE Room'
  <2>1. Present' \subseteq Present
    BY <1>19 DEF TearFile, Damaged, Present, Typed, Files
  <2> QED
    BY <1>19, <1>t, <2>1 DEF TearFile, Damaged
<1>20. ASSUME NEW n \in Seqs, LoseFile(n) PROVE Room'
  <2>1. Present' \subseteq Present
    BY <1>20 DEF LoseFile, Damaged, Present, Typed, Files
  <2> QED
    BY <1>20, <1>t, <2>1 DEF LoseFile, Damaged
<1>21. CASE TearHead
  BY <1>21, <1>0, <1>t, <1>s DEF TearHead, syncVars, Damaged
<1>22. CASE UNCHANGED vars
  BY <1>22, <1>0, <1>t DEF vars, diskVars, syncVars
<1> QED
  BY <1>1, <1>2, <1>3, <1>4, <1>5, <1>6, <1>7, <1>8, <1>9, <1>10, <1>11,
     <1>12, <1>13, <1>14, <1>15, <1>16, <1>17, <1>18, <1>19, <1>20, <1>21, <1>22
     DEF Next, Call, Quarantine, Environment

\* A head that the files support is a prefix of what a call builds on.
LEMMA HeadInKnown ==
    ASSUME Typed, Heads, ~hold, job.snap = Unread => Opens
    PROVE  Pre(head, Known)
<1>1. CASE job.snap # Unread
  BY <1>1 DEF Heads, HeadsGrow, Known
<1>2. CASE job.snap = Unread
  <2>1. Known = Prefix /\ IsPrefix(head, Prefix)
    BY <1>2 DEF Known, Opens
  <2>2. head \in Seq(All) /\ Prefix \in Seq(All)
    BY HistoryTyped DEF Typed, Chains
  <2> QED
    BY <2>1, <2>2, PreIs
<1> QED
  BY <1>1, <1>2

LEMMA StepHeads == ASSUME Typed, Phases, Heads, [Next]_vars PROVE Heads'
<1> SUFFICES ASSUME ~hold' PROVE HeadsGrow'
  BY DEF Heads
<1> USE HistoryTyped DEF HeadsGrow, Jobs, Written, Recovering, Holding, MayAppend
<1>t. job \in Jobs /\ head \in Chains /\ safeHead \in Chains
  BY DEF Typed
<1>r. \A s \in Chains : Pre(s, s)
  BY PreSelf DEF Chains
<1>x. \A r \in Chains, s \in Chains, u \in Chains : Pre(r, s) /\ Pre(s, u) => Pre(r, u)
  BY PreTrans DEF Chains
<1>h. hold = FALSE => HeadsGrow
  BY DEF Heads
<1>b. hold \in BOOLEAN /\ (hold => hold')
  BY HoldStays
<1>s. /\ job.phase = "flushed" /\ job.snap # Unread => job.snap = job.event
      /\ job.phase \in Recovering => hold
      /\ job.phase \in {"headed", "final"} => job.pending = NoHead
      /\ job.pending # NoHead => job.mode = "checkpoint"
      /\ job.mode \in Transactions /\ ~job.raises => job.snap # Unread
  BY <1>b DEF Phases, Recovering
<1>g. HeadsGrow
  BY <1>b, <1>h
<1>1. ASSUME NEW mode \in {"append"} \cup Transactions, Begin(mode) PROVE HeadsGrow'
  <2>1. job = NoJob /\ Opens /\ UNCHANGED <<head, safeHead>>
    BY <1>1 DEF Begin, diskVars, syncVars
  <2>2. /\ job'.phase = "ready" /\ job'.pending = NoHead
        /\ job'.snap \in {Unread, Prefix}
    BY <1>1, <1>t DEF Begin, NoJob
  <2>3. Known = Prefix /\ job.snap = Unread
    BY <2>1 DEF Known, NoJob
  <2>4. Pre(head, Prefix)
    BY <2>1, <2>3, <1>b, HeadInKnown
  <2> QED
    BY <2>1, <2>2, <2>4, <1>g
<1>2. ASSUME NEW id \in Ids \cup HoldIds, Replay(id) PROVE HeadsGrow'
  BY <1>2, <1>g, <1>t, <1>s, <1>r DEF Replay, diskVars, syncVars
<1>3. ASSUME NEW id \in Ids \cup HoldIds, Rename(id) PROVE HeadsGrow'
  <2> DEFINE chain == Append(Known, id)
  <2>1. chain \in Chains /\ Pre(Known, chain)
    BY NewChain DEF All
  <2>2. /\ job.phase \in {"ready", "holding"} /\ CanRead
        /\ job' = [job EXCEPT !.phase = "renamed", !.event = chain]
        /\ UNCHANGED <<head, safeHead>>
    BY <1>3 DEF Rename
  <2> HIDE DEF chain
  <2>3. Pre(head, Known)
    BY <2>2, <1>b, HeadInKnown DEF CanRead
  <2>4. Pre(head, chain)
    BY <2>1, <2>3, <1>t, <1>x
  <2>5. job.snap # Unread => Pre(job.snap, chain)
    BY <2>1 DEF Known
  <2>6. /\ job'.phase = "renamed" /\ job'.event = chain /\ job'.snap = job.snap
        /\ job'.pending = job.pending /\ job'.raises = job.raises
    BY <2>2, <1>t
  <2> QED
    BY <2>2, <2>4, <2>5, <2>6, <1>g
<1>4. CASE Flush
  <2>1. /\ job.phase = "renamed" /\ UNCHANGED <<head, safeHead>>
        /\ job'.phase = "flushed" /\ job'.event = job.event /\ job'.pending = job.pending
        /\ job'.raises = job.raises /\ job'.mode = job.mode
        /\ job'.snap = IF job.snap = Unread THEN Unread ELSE job.event
    BY <1>4, <1>t DEF Flush, diskVars
  <2>2. job.pending # NoHead /\ ~job.raises => Pre(job.pending, job.event) /\ job.snap # Unread
    BY <2>1, <1>g, <1>t, <1>s, <1>x DEF Transactions
  <2> QED
    BY <2>1, <2>2, <1>g, <1>r
<1>5. CASE Defer
  <2>1. /\ job.phase = "flushed" /\ job.mode = "checkpoint" /\ UNCHANGED <<head, safeHead>>
        /\ job'.phase = "ready" /\ job'.pending = job.event
        /\ job'.raises = job.raises /\ job'.snap = job.snap
    BY <1>5, <1>t DEF Defer, Deferred, diskVars, syncVars
  <2> QED
    BY <2>1, <1>g, <1>r, <1>s DEF Transactions
<1>6. CASE RenameHead
  <2>1. /\ job.phase = "flushed" /\ head' = job.event /\ safeHead' = safeHead
        /\ job'.phase = "headed" /\ job'.pending = NoHead /\ job'.snap = job.snap
        /\ job'.event = job.event
    BY <1>6, <1>t DEF RenameHead, syncVars
  <2>2. Pre(safeHead, job.event)
    BY <2>1, <1>g, <1>t, <1>x
  <2> QED
    BY <2>1, <2>2, <1>r, <1>s
<1>7. CASE FlushHead
  <2>1. /\ job.phase = "headed" /\ head' = head /\ safeHead' = head
        /\ job'.phase = "ready" /\ job'.pending = job.pending /\ job'.snap = job.snap
    BY <1>7, <1>t DEF FlushHead, diskVars
  <2> QED
    BY <2>1, <1>g, <1>r, <1>t, <1>s
<1>8. CASE AppendFails
  BY <1>8, <1>g, <1>t, <1>s, <1>r DEF AppendFails, diskVars, syncVars, Transactions
<1>9. CASE HeadFails
  BY <1>9, <1>g, <1>t, <1>s, <1>r DEF HeadFails, diskVars, syncVars, Transactions
<1>10. CASE FinalHead
  <2>1. /\ job.phase = "ready" /\ job.pending # NoHead /\ ~job.raises
        /\ head' = job.pending /\ safeHead' = safeHead
        /\ job'.phase = "final" /\ job'.pending = NoHead /\ job'.snap = job.snap
    BY <1>10, <1>t DEF FinalHead, syncVars
  <2>2. Pre(safeHead, job.pending)
    BY <2>1, <1>g, <1>t, <1>x
  <2> QED
    BY <2>1, <2>2, <1>g
<1>11. CASE FlushFinalHead
  BY <1>11, <1>g, <1>t, <1>s, <1>r DEF FlushFinalHead, diskVars
<1>12. CASE Return
  BY <1>12, <1>g, <1>t, <1>s, <1>r DEF Return, NoJob, diskVars, syncVars, Transactions
<1>13. CASE StartQuarantine
  BY <1>13 DEF StartQuarantine, MayQuarantine, Quarantining
<1>14. CASE Move
  BY <1>14, <1>s, <1>b DEF Move
<1>15. CASE Rewind
  BY <1>15, <1>s, <1>b DEF Rewind
<1>16. CASE FlushRewind
  BY <1>16, <1>s, <1>b DEF FlushRewind
<1>17. CASE Crash
  BY <1>17, <1>g, <1>t, <1>s, <1>r DEF Crash, NoJob, diskVars, syncVars
<1>18. CASE PowerLoss
  <2>1. /\ safeHead' = head' /\ head' \in Chains
        /\ job'.phase = "idle" /\ job'.pending = NoHead /\ job'.snap = Unread
    BY <1>18, <1>t DEF PowerLoss, NoJob
  <2> QED
    BY <2>1, <1>r
<1>19. ASSUME NEW n \in Seqs, TearFile(n) PROVE HeadsGrow'
  BY <1>19, <1>g, <1>t, <1>s, <1>r DEF TearFile, syncVars, Damaged
<1>20. ASSUME NEW n \in Seqs, LoseFile(n) PROVE HeadsGrow'
  BY <1>20, <1>g, <1>t, <1>s, <1>r DEF LoseFile, syncVars, Damaged
<1>21. CASE TearHead
  BY <1>21, <1>g, <1>t, <1>s, <1>r DEF TearHead, syncVars, Damaged
<1>22. CASE UNCHANGED vars
  BY <1>22, <1>g, <1>t DEF vars, diskVars, syncVars
<1> QED
  BY <1>1, <1>2, <1>3, <1>4, <1>5, <1>6, <1>7, <1>8, <1>9, <1>10, <1>11,
     <1>12, <1>13, <1>14, <1>15, <1>16, <1>17, <1>18, <1>19, <1>20, <1>21, <1>22
     DEF Next, Call, Quarantine, Environment

\* An event continues everything its call was going to certify.
LEMMA EventCovers ==
    ASSUME Typed, Phases, HeadsGrow, job.phase = "flushed", ~job.raises, ~hold
    PROVE  ToSet(Certified) \subseteq ToSet(job.event)
<1>m. \A s \in Chains, u \in Chains : Pre(s, u) => ToSet(s) \subseteq ToSet(u)
  BY PreSet DEF Chains
<1>t. /\ head \in Chains /\ safeHead \in Chains /\ job.event \in Chains
      /\ job.snap \in Chains \cup {Unread} /\ job.pending \in Chains \cup {NoHead}
  BY HistoryTyped DEF Typed
<1>1. CASE job.pending # NoHead
  <2>1. Pre(job.pending, job.snap) /\ job.snap # Unread
    BY <1>1 DEF HeadsGrow, Phases, Transactions
  <2>2. Pre(job.snap, job.event)
    BY <2>1 DEF HeadsGrow, Written
  <2>3. ToSet(job.pending) \subseteq ToSet(job.snap) /\ ToSet(job.snap) \subseteq ToSet(job.event)
    BY <1>1, <1>t, <2>1, <2>2, <1>m
  <2> QED
    BY <2>3, <1>1 DEF Certified
<1>2. CASE job.pending = NoHead
  <2>1. Pre(safeHead, head) /\ Pre(head, job.event)
    BY DEF HeadsGrow, Written
  <2>2. ToSet(safeHead) \subseteq ToSet(head) /\ ToSet(head) \subseteq ToSet(job.event)
    BY <2>1, <1>t, <1>m
  <2> QED
    BY <2>2, <1>2 DEF Certified
<1> QED
  BY <1>1, <1>2

LEMMA StepTold == ASSUME Typed, Phases, Heads, Told, [Next]_vars PROVE Told'
<1> SUFFICES ASSUME ~hold' PROVE HeadsCover'
  BY DEF Told
<1> USE HistoryTyped DEF HeadsCover, Jobs, Recovering, Holding, MayAppend
<1>t. job \in Jobs /\ head \in Chains /\ safeHead \in Chains
  BY DEF Typed
<1>m. \A s \in Chains, u \in Chains : Pre(s, u) => ToSet(s) \subseteq ToSet(u)
  BY PreSet DEF Chains
<1>b. hold \in BOOLEAN /\ (hold => hold')
  BY HoldStays
<1>s. /\ job.phase \in Recovering => hold
      /\ job.phase \in {"headed", "final"} => job.pending = NoHead
      /\ job.pending # NoHead => job.mode = "checkpoint"
      /\ job.mode \in Transactions /\ ~job.raises => job.snap # Unread
  BY <1>b DEF Phases, Recovering
<1>g. /\ HeadsGrow
      /\ acked \ Replays \subseteq ToSet(safeHead)
      /\ ~job.raises => job.ours \ Replays \subseteq ToSet(Certified)
  BY <1>b DEF Heads, Told
<1>l. job.phase \in Written => Last(job.event) \in ToSet(job.event)
  BY LastEvent
<1>1. ASSUME NEW mode \in {"append"} \cup Transactions, Begin(mode) PROVE HeadsCover'
  <2>1. /\ job'.ours = {} /\ UNCHANGED <<acked, safeHead>>
    BY <1>1, <1>t DEF Begin, NoJob, diskVars, syncVars
  <2> QED
    BY <2>1, <1>g
<1>2. ASSUME NEW id \in Ids \cup HoldIds, Replay(id) PROVE HeadsCover'
  BY <1>2, <1>g, <1>t, <1>s DEF Replay, diskVars, syncVars, Certified
<1>3. ASSUME NEW id \in Ids \cup HoldIds, Rename(id) PROVE HeadsCover'
  <2>1. /\ job.phase \in {"ready", "holding"} /\ job'.phase = "renamed" /\ UNCHANGED <<acked, head, safeHead>>
        /\ job'.ours = job.ours /\ job'.pending = job.pending /\ job'.raises = job.raises
    BY <1>3, <1>t DEF Rename
  <2> QED
    BY <2>1, <1>g DEF Certified
<1>4. CASE Flush
  BY <1>4, <1>g, <1>t, <1>s DEF Flush, diskVars, Certified
<1>5. CASE Defer
  <2>1. /\ job.phase = "flushed" /\ job.mode = "checkpoint" /\ UNCHANGED <<acked, head, safeHead>>
        /\ job'.phase = "ready" /\ job'.pending = job.event
        /\ job'.raises = job.raises /\ job'.ours = job.ours \cup {Last(job.event)}
    BY <1>5, <1>t DEF Defer, Deferred, diskVars, syncVars
  <2>2. Certified' = job.event
    BY <2>1 DEF Certified
  <2>3. ~job.raises => ToSet(Certified) \subseteq ToSet(job.event)
    BY <2>1, <1>g, <1>b, EventCovers
  <2>4. Last(job.event) \in ToSet(job.event)
    BY <2>1, <1>l DEF Written
  <2> QED
    BY <2>1, <2>2, <2>3, <2>4, <1>g
<1>6. CASE RenameHead
  <2>1. /\ job.phase = "flushed" /\ head' = job.event /\ UNCHANGED <<acked, safeHead>>
        /\ job'.phase = "headed" /\ job'.raises = job.raises /\ job'.ours = job.ours
    BY <1>6, <1>t DEF RenameHead, diskVars, syncVars
  <2>2. Certified' = job.event
    BY <2>1 DEF Certified
  <2>3. ~job.raises => ToSet(Certified) \subseteq ToSet(job.event)
    BY <2>1, <1>g, <1>b, EventCovers
  <2> QED
    BY <2>1, <2>2, <2>3, <1>g
<1>7. CASE FlushHead
  <2>1. /\ job.phase = "headed" /\ safeHead' = head /\ UNCHANGED <<acked, head>>
        /\ job'.phase = "ready" /\ job'.pending = job.pending /\ job'.raises = job.raises
        /\ job'.ours = job.ours \cup {Last(job.event)}
    BY <1>7, <1>t DEF FlushHead, diskVars
  <2>2. head = job.event /\ Certified = head /\ Certified' = head
    BY <2>1, <1>g, <1>s DEF HeadsGrow, Certified
  <2>3. Last(job.event) \in ToSet(head) /\ ToSet(safeHead) \subseteq ToSet(head)
    BY <2>1, <2>2, <1>g, <1>l, <1>t, <1>m DEF HeadsGrow, Written
  <2> QED
    BY <2>1, <2>2, <2>3, <1>g
<1>8. CASE AppendFails
  <2>1. job'.raises /\ UNCHANGED <<acked, safeHead>>
    BY <1>8, <1>t DEF AppendFails, diskVars, syncVars
  <2> QED
    BY <2>1, <1>g
<1>9. CASE HeadFails
  <2>1. job'.raises /\ UNCHANGED <<acked, safeHead>>
    BY <1>9, <1>t DEF HeadFails, diskVars, syncVars
  <2> QED
    BY <2>1, <1>g
<1>10. CASE FinalHead
  <2>1. /\ job.phase = "ready" /\ job.pending # NoHead
        /\ head' = job.pending /\ UNCHANGED <<acked, safeHead>>
        /\ job'.phase = "final" /\ job'.raises = job.raises /\ job'.ours = job.ours
    BY <1>10, <1>t DEF FinalHead, diskVars, syncVars
  <2>2. Certified' = job.pending /\ Certified = job.pending
    BY <2>1 DEF Certified
  <2> QED
    BY <2>1, <2>2, <1>g
<1>11. CASE FlushFinalHead
  <2>1. /\ job.phase = "final" /\ safeHead' = head /\ UNCHANGED <<acked, head>>
        /\ job'.phase = "ready" /\ job'.pending = job.pending /\ job'.raises = job.raises
        /\ job'.ours = job.ours
    BY <1>11, <1>t DEF FlushFinalHead, diskVars
  <2>2. Certified = head /\ Certified' = head
    BY <2>1, <1>s DEF Certified
  <2>3. ToSet(safeHead) \subseteq ToSet(head)
    BY <1>g, <1>t, <1>m DEF HeadsGrow
  <2> QED
    BY <2>1, <2>2, <2>3, <1>g
<1>12. CASE Return
  <2>1. /\ job.phase = "ready" /\ job.pending = NoHead /\ ~job.raises
        /\ acked' = acked \cup job.ours /\ safeHead' = safeHead /\ job'.ours = {}
    BY <1>12, <1>t DEF Return, NoJob, diskVars, syncVars
  <2>2. Certified = safeHead
    BY <2>1 DEF Certified
  <2> QED
    BY <2>1, <2>2, <1>g
<1>13. CASE StartQuarantine
  BY <1>13 DEF StartQuarantine, MayQuarantine, Quarantining
<1>14. CASE Move
  BY <1>14, <1>s, <1>b DEF Move
<1>15. CASE Rewind
  BY <1>15, <1>s, <1>b DEF Rewind
<1>16. CASE FlushRewind
  BY <1>16, <1>s, <1>b DEF FlushRewind
<1>17. CASE Crash
  <2>1. /\ job'.ours = {} /\ UNCHANGED <<acked, safeHead>>
    BY <1>17, <1>t DEF Crash, NoJob, diskVars, syncVars
  <2> QED
    BY <2>1, <1>g
<1>18. CASE PowerLoss
  <2>1. /\ safeHead' \in {head, safeHead} /\ acked' = acked /\ job'.ours = {}
    BY <1>18, <1>t DEF PowerLoss, NoJob
  <2>2. ToSet(safeHead) \subseteq ToSet(safeHead')
    BY <2>1, <1>g, <1>t, <1>m DEF HeadsGrow
  <2> QED
    BY <2>1, <2>2, <1>g
<1>19. ASSUME NEW n \in Seqs, TearFile(n) PROVE HeadsCover'
  BY <1>19, <1>g, <1>t, <1>s DEF TearFile, syncVars, Certified, Damaged
<1>20. ASSUME NEW n \in Seqs, LoseFile(n) PROVE HeadsCover'
  BY <1>20, <1>g, <1>t, <1>s DEF LoseFile, syncVars, Certified, Damaged
<1>21. CASE TearHead
  BY <1>21, <1>g, <1>t, <1>s DEF TearHead, syncVars, Certified, Damaged
<1>22. CASE UNCHANGED vars
  BY <1>22, <1>g, <1>t DEF Certified, vars, diskVars, syncVars
<1> QED
  BY <1>1, <1>2, <1>3, <1>4, <1>5, <1>6, <1>7, <1>8, <1>9, <1>10, <1>11,
     <1>12, <1>13, <1>14, <1>15, <1>16, <1>17, <1>18, <1>19, <1>20, <1>21, <1>22
     DEF Next, Call, Quarantine, Environment

\* An append to files nobody touched continues their history.
LEMMA Grows ==
    ASSUME Typed, Undamaged, NEW id \in Ids \cup HoldIds, Rename(id)
    PROVE  /\ Known = Prefix /\ Len(Append(Known, id)) = Longest + 1
           /\ Longest' = Longest + 1 /\ Prefix' = Append(Prefix, id)
           /\ Present' = 1 .. Longest'
           /\ Prefix' \in Chains /\ Pre(Prefix, Prefix')
<1>1. job.phase \in {"ready", "holding"} /\ Len(Append(Known, id)) \in Seqs
      /\ file' = [file EXCEPT ![Len(Append(Known, id))] = Append(Known, id)]
  BY DEF Rename, MayAppend, Holding
<1>2. Known = Prefix
  BY <1>1 DEF Known, Undamaged
<1>3. /\ Len(Append(Prefix, id)) = Longest + 1 /\ Append(Prefix, id) \in Chains
      /\ Pre(Prefix, Append(Prefix, id))
  BY <1>2, NewChain, HistoryTyped DEF All
<1>4. Longest < MaxSeq
  BY <1>1, <1>2, <1>3, HistoryTyped
<1>5. Longest = LongestIn(file) /\ Prefix = PrefixIn(file) /\ Longest' = LongestIn(file')
      /\ Prefix' = PrefixIn(file')
  BY Names
<1>6. WholeIn(file)
  BY <1>5 DEF WholeIn, Present, Undamaged
<1>7. file' = [file EXCEPT ![LongestIn(file) + 1] = Append(PrefixIn(file), id)]
  BY <1>1, <1>2, <1>3, <1>5
<1>8. LongestIn(file) < MaxSeq /\ id \in All /\ file \in Files
  BY <1>4, <1>5 DEF All, Typed
<1>9. /\ WholeIn(file') /\ LongestIn(file') = LongestIn(file) + 1
      /\ PrefixIn(file') = Append(PrefixIn(file), id)
  BY <1>6, <1>7, <1>8, Extends
<1>10. Present' = 1 .. Longest'
  BY <1>5, <1>9 DEF WholeIn, Present
<1> QED
  BY <1>2, <1>3, <1>5, <1>9, <1>10

\* A power loss leaves a beginning of the history, and all of it that a flush covered.
LEMMA Loses ==
    ASSUME Typed, Undamaged, PowerLoss
    PROVE  \E m \in 0 .. Longest :
             /\ Longest' = m /\ Prefix' = SubSeq(Prefix, 1, m) /\ Present' = 1 .. m
             /\ Prefix' \in Chains /\ Len(Prefix') = m /\ Pre(Prefix', Prefix)
             /\ m = Longest \/ m + 1 \in unsynced
             /\ \A k \in Seqs \ unsynced : file'[k] = file[k]
<1>1. PICK n \in Seqs \cup {MaxSeq + 1} :
         file' = [k \in Seqs |-> IF k \in {j \in unsynced : j >= n} THEN Absent ELSE file[k]]
  BY DEF PowerLoss
<1> DEFINE lost == {j \in unsynced : j >= n}
<1>2. file' = [k \in Seqs |-> IF k \in lost THEN Absent ELSE file[k]]
  BY <1>1
<1>3. Longest \in 0 .. MaxSeq /\ MaxSeq \in Nat /\ Seqs = 1 .. MaxSeq /\ n \in Nat
  BY HistoryTyped
<1>4. Longest = LongestIn(file) /\ Prefix = PrefixIn(file) /\ Longest' = LongestIn(file')
      /\ Prefix' = PrefixIn(file')
  BY Names
<1>5. WholeIn(file) /\ file \in Files
  BY <1>4 DEF WholeIn, Present, Undamaged, Typed
<1>6. \A k \in Seqs : k > Longest => file[k] = Absent
  <2>1. \A k \in Seqs : file[k] # Absent => k \in 1 .. Longest
    BY DEF Undamaged, Present
  <2> QED
    BY <2>1, <1>3
<1>7. unsynced \subseteq 1 .. Longest /\ lost \subseteq unsynced
      /\ \A k \in lost, m \in 1 .. Longest : k <= m => m \in lost
  <2>1. unsynced \subseteq 1 .. Longest
        /\ \A k \in unsynced, m \in 1 .. Longest : k <= m => m \in unsynced
    BY DEF Undamaged
  <2> QED
    BY <2>1, <1>3
<1>8. ASSUME NEW m \in 0 .. Longest, \A k \in 1 .. Longest : k \in lost <=> k > m,
             m = Longest \/ m + 1 \in unsynced
      PROVE  /\ Longest' = m /\ Prefix' = SubSeq(Prefix, 1, m) /\ Present' = 1 .. m
             /\ Prefix' \in Chains /\ Len(Prefix') = m /\ Pre(Prefix', Prefix)
             /\ m = Longest \/ m + 1 \in unsynced
             /\ \A k \in Seqs \ unsynced : file'[k] = file[k]
  <2> HIDE DEF lost
  <2>1. \A k \in Seqs : (IF k \in lost THEN Absent ELSE file[k])
                         = (IF k > m THEN Absent ELSE file[k])
    <3>1. SUFFICES ASSUME NEW k \in Seqs
                   PROVE  (IF k \in lost THEN Absent ELSE file[k])
                          = (IF k > m THEN Absent ELSE file[k])
      OBVIOUS
    <3>2. CASE k \in 1 .. Longest
      BY <3>2, <1>8
    <3>3. CASE k \notin 1 .. Longest
      <4>1. k > m /\ k > Longest
        BY <3>3, <1>3
      <4> QED
        BY <4>1, <1>6
    <3> QED
      BY <3>2, <3>3
  <2>2. file' = [k \in Seqs |-> IF k > m THEN Absent ELSE file[k]]
    BY <2>1, <1>2
  <2>3. m \in 0 .. LongestIn(file)
    BY <1>4
  <2>4. /\ file' \in Files /\ WholeIn(file') /\ LongestIn(file') = m
        /\ PrefixIn(file') = SubSeq(PrefixIn(file), 1, m) /\ Pre(PrefixIn(file'), PrefixIn(file))
    BY <2>2, <2>3, <1>5, Cuts
  <2>5. PrefixIn(file') \in Chains /\ Len(PrefixIn(file')) = m
    BY <2>4, PrefixTyped
  <2>6. Present' = 1 .. m
    BY <2>4 DEF WholeIn, Present
  <2>7. \A k \in Seqs \ unsynced : file'[k] = file[k]
    BY <1>2, <1>7
  <2> QED
    BY <1>8, <1>4, <2>4, <2>5, <2>6, <2>7
<1>9. CASE lost = {}
  <2>1. Longest \in 0 .. Longest /\ \A k \in 1 .. Longest : k \in lost <=> k > Longest
    BY <1>9, <1>3
  <2> HIDE DEF lost
  <2> QED
    BY <2>1, <1>8
<1>10. CASE lost # {}
  <2>0. ASSUME NEW k \in lost PROVE k \in Nat
    <3> HIDE DEF lost
    <3>1. k \in 1 .. Longest
      BY <1>7
    <3> QED
      BY <3>1, <1>3
  <2>1. lost \in SUBSET Nat
    BY <2>0
  <2>2. PICK l \in lost : \A k \in lost : l <= k
    <3> HIDE DEF lost
    <3> QED
      BY <2>1, <1>10, LeastNatural
  <2>3. l \in 1 .. Longest /\ l \in unsynced
    BY <1>7
  <2>4. l - 1 \in 0 .. Longest /\ (l - 1) + 1 = l
    BY <2>3, <1>3
  <2>5. ASSUME NEW k \in 1 .. Longest PROVE k \in lost <=> k > l - 1
    <3> HIDE DEF lost
    <3>1. k > l - 1 <=> l <= k
      BY <2>3, <1>3
    <3> QED
      BY <3>1, <2>2, <1>7
  <2> HIDE DEF lost
  <2>6. l - 1 = Longest \/ (l - 1) + 1 \in unsynced
    BY <2>3, <2>4
  <2> QED
    BY <2>4, <2>5, <2>6, <1>8
<1> QED
  BY <1>9, <1>10

\* Files once touched stay touched.
LEMMA DamageStays ==
    ASSUME Typed, [Next]_vars, damage' = 0
    PROVE  damage = 0 /\ (hold => hold')
           /\ ~(\E n \in Seqs : TearFile(n) \/ LoseFile(n)) /\ ~TearHead
<1>1. damage \in Nat
  BY DEF Typed
<1>2. ~(\E n \in Seqs : TearFile(n) \/ LoseFile(n)) /\ ~TearHead
  BY <1>1 DEF TearFile, LoseFile, TearHead, Damaged
<1>3. damage' = damage
  BY <1>2 DEF Next, Call, Quarantine, Environment, Begin, Replay, Rename, Flush, Defer, RenameHead,
         FlushHead, AppendFails, HeadFails, FinalHead, FlushFinalHead, Return, StartQuarantine,
         Move, Rewind, FlushRewind, Crash, PowerLoss, vars, diskVars, syncVars
<1> QED
  BY <1>2, <1>3, HoldStays

LEMMA StepWhole == ASSUME Typed, Phases, Whole, [Next]_vars PROVE Whole'
<1> SUFFICES ASSUME damage' = 0 PROVE Undamaged'
  BY DEF Whole
<1> USE HistoryTyped DEF Jobs, Holding, MayAppend
<1>t. job \in Jobs
  BY DEF Typed
<1>d. Undamaged /\ ~(\E n \in Seqs : TearFile(n) \/ LoseFile(n)) /\ ~TearHead
  BY DamageStays DEF Whole
<1>s. /\ job.phase = "flushed" /\ job.snap # Unread => job.snap = job.event
      /\ job.phase = "moving" => job.snap # Unread
  BY DEF Phases
<1>0. file' = file => Longest' = Longest /\ Prefix' = Prefix /\ Present' = Present
  BY SameFiles
<1>1. ASSUME NEW mode \in {"append"} \cup Transactions, Begin(mode) PROVE Undamaged'
  BY <1>1, <1>d, <1>0, <1>t, <1>s DEF Begin, NoJob, diskVars, syncVars, Undamaged, Written
<1>2. ASSUME NEW id \in Ids \cup HoldIds, Replay(id) PROVE Undamaged'
  BY <1>2, <1>d, <1>0, <1>t, <1>s DEF Replay, diskVars, syncVars, Undamaged, Written
<1>3. ASSUME NEW id \in Ids \cup HoldIds, Rename(id) PROVE Undamaged'
  <2>1. /\ Known = Prefix /\ Len(Append(Known, id)) = Longest + 1
        /\ Longest' = Longest + 1 /\ Prefix' = Append(Prefix, id)
        /\ Present' = 1 .. Longest'
    BY <1>3, <1>d, Grows
  <2>2. /\ unsynced' = unsynced \cup {Longest + 1}
        /\ job'.phase = "renamed" /\ job'.event = Prefix'
    BY <1>3, <1>t, <2>1 DEF Rename
  <2>3. unsynced \subseteq 1 .. Longest
        /\ \A k \in unsynced, m \in 1 .. Longest : k <= m => m \in unsynced
    BY <1>d DEF Undamaged
  <2>4. ASSUME NEW k \in unsynced' PROVE k \in 1 .. Longest'
    <3>1. CASE k = Longest + 1
      BY <3>1, <2>1
    <3>2. CASE k # Longest + 1
      <4>1. k \in 1 .. Longest
        BY <3>2, <2>2, <2>3
      <4> QED
        BY <4>1, <2>1
    <3> QED
      BY <3>1, <3>2
  <2>5. ASSUME NEW k \in unsynced', NEW m \in 1 .. Longest', k <= m PROVE m \in unsynced'
    <3>1. CASE m = Longest + 1
      BY <3>1, <2>2
    <3>2. CASE m # Longest + 1
      <4>1. m \in 1 .. Longest
        BY <3>2, <2>1
      <4>2. k \in unsynced
        BY <4>1, <2>2, <2>5
      <4> QED
        BY <4>1, <4>2, <2>2, <2>3, <2>5
    <3> QED
      BY <3>1, <3>2
  <2> QED
    BY <2>1, <2>2, <2>4, <2>5 DEF Undamaged
<1>4. CASE Flush
  BY <1>4, <1>d, <1>0, <1>t, <1>s DEF Flush, diskVars, Undamaged, Written
<1>5. CASE Defer
  BY <1>5, <1>d, <1>0, <1>t, <1>s DEF Defer, diskVars, syncVars, Undamaged, Written
<1>6. CASE RenameHead
  BY <1>6, <1>d, <1>0, <1>t, <1>s DEF RenameHead, syncVars, Undamaged, Written
<1>7. CASE FlushHead
  BY <1>7, <1>d, <1>0, <1>t, <1>s DEF FlushHead, diskVars, Undamaged, Written
<1>8. CASE AppendFails
  BY <1>8, <1>d, <1>0, <1>t, <1>s DEF AppendFails, diskVars, syncVars, Undamaged, Written
<1>9. CASE HeadFails
  BY <1>9, <1>d, <1>0, <1>t, <1>s DEF HeadFails, diskVars, syncVars, Undamaged, Written
<1>10. CASE FinalHead
  BY <1>10, <1>d, <1>0, <1>t, <1>s DEF FinalHead, syncVars, Undamaged, Written
<1>11. CASE FlushFinalHead
  BY <1>11, <1>d, <1>0, <1>t, <1>s DEF FlushFinalHead, diskVars, Undamaged, Written
<1>12. CASE Return
  BY <1>12, <1>d, <1>0, <1>t, <1>s DEF Return, NoJob, diskVars, syncVars, Undamaged, Written
<1>13. CASE StartQuarantine
  BY <1>13, <1>d, <1>0, <1>t, <1>s DEF StartQuarantine, MayQuarantine, Quarantining, NoJob, syncVars, Undamaged, Written
<1>14. CASE Move
  <2>1. job.phase = "moving" /\ job.snap = Prefix /\ Present = 1 .. Longest
    BY <1>14, <1>d, <1>s DEF Move, Undamaged
  <2>2. {n \in Present : n > Len(job.snap)} = {}
    BY <2>1
  <2> QED
    BY <1>14, <2>2 DEF Move
<1>15. CASE Rewind
  BY <1>15, <1>d, <1>0, <1>t, <1>s DEF Rewind, syncVars, Undamaged, Written
<1>16. CASE FlushRewind
  BY <1>16, <1>d, <1>0, <1>t, <1>s DEF FlushRewind, diskVars, Undamaged, Written
<1>17. CASE Crash
  BY <1>17, <1>d, <1>0, <1>t, <1>s DEF Crash, NoJob, diskVars, syncVars, Undamaged, Written
<1>18. CASE PowerLoss
  <2>1. Present' = 1 .. Longest'
    BY <1>18, <1>d, Loses
  <2>2. unsynced' = {} /\ job'.snap = Unread /\ job'.phase = "idle"
    BY <1>18 DEF PowerLoss, NoJob
  <2> QED
    BY <2>1, <2>2 DEF Undamaged, Written
<1>19. ASSUME NEW n \in Seqs, TearFile(n) PROVE Undamaged'
  BY <1>19, <1>d
<1>20. ASSUME NEW n \in Seqs, LoseFile(n) PROVE Undamaged'
  BY <1>20, <1>d
<1>21. CASE TearHead
  BY <1>21, <1>d
<1>22. CASE UNCHANGED vars
  BY <1>22, <1>d, <1>0, <1>t DEF Undamaged, vars, diskVars, syncVars
<1> QED
  BY <1>1, <1>2, <1>3, <1>4, <1>5, <1>6, <1>7, <1>8, <1>9, <1>10, <1>11,
     <1>12, <1>13, <1>14, <1>15, <1>16, <1>17, <1>18, <1>19, <1>20, <1>21, <1>22
     DEF Next, Call, Quarantine, Environment

LEMMA StepBacked == ASSUME Typed, Phases, Whole, Backed, [Next]_vars PROVE Backed'
<1> SUFFICES ASSUME damage' = 0, ~hold' PROVE HeadsBelow'
  BY DEF Backed
<1> USE HistoryTyped DEF Jobs, Recovering, Holding, MayAppend
<1>t. job \in Jobs /\ head \in Chains /\ safeHead \in Chains /\ hold \in BOOLEAN
  BY DEF Typed
<1>d. /\ Undamaged /\ HeadsBelow /\ ~hold
      /\ ~(\E n \in Seqs : TearFile(n) \/ LoseFile(n)) /\ ~TearHead
  BY <1>t, DamageStays DEF Whole, Backed
<1>s. /\ job.phase \in {"flushed", "headed"} => unsynced = {}
      /\ job.phase \in Recovering => hold
  BY DEF Phases
<1>r. Pre(Prefix, Prefix)
  BY PreSelf DEF Chains
<1>0. file' = file => Prefix' = Prefix
  BY SameFiles
<1>1. ASSUME NEW mode \in {"append"} \cup Transactions, Begin(mode) PROVE HeadsBelow'
  BY <1>1, <1>d, <1>0, <1>t, <1>s DEF Begin, NoJob, diskVars, syncVars, HeadsBelow, Below
<1>2. ASSUME NEW id \in Ids \cup HoldIds, Replay(id) PROVE HeadsBelow'
  BY <1>2, <1>d, <1>0, <1>t, <1>s DEF Replay, diskVars, syncVars, HeadsBelow, Below
<1>3. ASSUME NEW id \in Ids \cup HoldIds, Rename(id) PROVE HeadsBelow'
  <2>1. /\ Known = Prefix /\ Len(Append(Known, id)) = Longest + 1
        /\ Prefix' \in Chains /\ Pre(Prefix, Prefix')
    BY <1>3, <1>d, Grows
  <2>2. /\ unsynced' = unsynced \cup {Longest + 1} /\ UNCHANGED <<head, headTorn, safeHead>>
        /\ job'.pending = job.pending
    BY <1>3, <1>t, <2>1 DEF Rename
  <2>3. ASSUME NEW c \in Chains, Below(c) PROVE Below(c)'
    <3>1. Pre(c, Prefix')
      BY <2>1, <2>3, PreTrans DEF Below, Chains
    <3>2. Len(c) < Longest + 1
      BY <2>3 DEF Below, Pre, Chains
    <3> QED
      BY <3>1, <3>2, <2>2, <2>3 DEF Below
  <2> QED
    BY <2>2, <2>3, <1>t, <1>d DEF HeadsBelow
<1>4. CASE Flush
  BY <1>4, <1>d, <1>0, <1>t, <1>s DEF Flush, diskVars, HeadsBelow, Below
<1>5. CASE Defer
  <2>1. /\ job.phase = "flushed" /\ job'.pending = job.event /\ file' = file
        /\ UNCHANGED <<head, headTorn, safeHead, unsynced>>
    BY <1>5, <1>t DEF Defer, diskVars, syncVars
  <2>2. job.event = Prefix /\ unsynced = {}
    BY <2>1, <1>d, <1>s DEF Undamaged, Written
  <2> QED
    BY <2>1, <2>2, <1>0, <1>d, <1>r DEF HeadsBelow, Below
<1>6. CASE RenameHead
  <2>1. /\ job.phase = "flushed" /\ job'.pending = NoHead /\ file' = file
        /\ head' = job.event /\ headTorn' = FALSE /\ UNCHANGED <<safeHead, unsynced>>
    BY <1>6, <1>t DEF RenameHead, syncVars
  <2>2. job.event = Prefix /\ unsynced = {}
    BY <2>1, <1>d, <1>s DEF Undamaged, Written
  <2> QED
    BY <2>1, <2>2, <1>0, <1>d, <1>r DEF HeadsBelow, Below
<1>7. CASE FlushHead
  BY <1>7, <1>d, <1>0, <1>t, <1>s DEF FlushHead, diskVars, HeadsBelow, Below
<1>8. CASE AppendFails
  BY <1>8, <1>d, <1>0, <1>t, <1>s DEF AppendFails, diskVars, syncVars, HeadsBelow, Below
<1>9. CASE HeadFails
  BY <1>9, <1>d, <1>0, <1>t, <1>s DEF HeadFails, diskVars, syncVars, HeadsBelow, Below
<1>10. CASE FinalHead
  BY <1>10, <1>d, <1>0, <1>t, <1>s DEF FinalHead, syncVars, HeadsBelow, Below
<1>11. CASE FlushFinalHead
  BY <1>11, <1>d, <1>0, <1>t, <1>s DEF FlushFinalHead, diskVars, HeadsBelow, Below
<1>12. CASE Return
  BY <1>12, <1>d, <1>0, <1>t, <1>s DEF Return, NoJob, diskVars, syncVars, HeadsBelow, Below
<1>13. CASE StartQuarantine
  BY <1>13 DEF StartQuarantine, MayQuarantine, Quarantining
<1>14. CASE Move
  BY <1>14, <1>d, <1>s DEF Move
<1>15. CASE Rewind
  BY <1>15, <1>d, <1>s DEF Rewind
<1>16. CASE FlushRewind
  BY <1>16, <1>d, <1>s DEF FlushRewind
<1>17. CASE Crash
  BY <1>17, <1>d, <1>0, <1>t, <1>s DEF Crash, NoJob, diskVars, syncVars, HeadsBelow, Below
<1>18. CASE PowerLoss
  <2>1. PICK m \in 0 .. Longest :
           /\ Prefix' \in Chains /\ Len(Prefix') = m /\ Pre(Prefix', Prefix)
           /\ m = Longest \/ m + 1 \in unsynced
    BY <1>18, <1>d, Loses
  <2>2. /\ unsynced' = {} /\ headTorn' = headTorn /\ head' \in {head, safeHead}
        /\ safeHead' = head' /\ job'.pending = NoHead
    BY <1>18 DEF PowerLoss, NoJob
  <2>3. head' \in Chains /\ Below(head')
    BY <2>2, <1>t, <1>d DEF HeadsBelow
  <2>4. Len(head') <= m
    <3>1. Len(head') \in Nat /\ Len(head') <= Longest
      BY <2>3 DEF Below, Pre, Chains
    <3>2. ASSUME m + 1 \in unsynced PROVE Len(head') < m + 1
      BY <2>3, <3>2 DEF Below
    <3> QED
      BY <2>1, <3>1, <3>2
  <2>5. Pre(head', Prefix')
    BY <2>1, <2>3, <2>4, PreCut DEF Below, Chains
  <2> QED
    BY <2>2, <2>5, <1>d DEF HeadsBelow, Below
<1>19. ASSUME NEW n \in Seqs, TearFile(n) PROVE HeadsBelow'
  BY <1>19, <1>d
<1>20. ASSUME NEW n \in Seqs, LoseFile(n) PROVE HeadsBelow'
  BY <1>20, <1>d
<1>21. CASE TearHead
  BY <1>21, <1>d
<1>22. CASE UNCHANGED vars
  BY <1>22, <1>d, <1>0, <1>t DEF HeadsBelow, Below, vars, diskVars, syncVars
<1> QED
  BY <1>1, <1>2, <1>3, <1>4, <1>5, <1>6, <1>7, <1>8, <1>9, <1>10, <1>11,
     <1>12, <1>13, <1>14, <1>15, <1>16, <1>17, <1>18, <1>19, <1>20, <1>21, <1>22
     DEF Next, Call, Quarantine, Environment

-----------------------------------------------------------------------------
Inv == Typed /\ Phases /\ Room /\ Heads /\ Told /\ Whole /\ Backed

LEMMA InitInv == Init => Inv
<1> SUFFICES ASSUME Init PROVE Inv
  OBVIOUS
<1>1. /\ Longest = 0 /\ Prefix = <<>> /\ Present = {}
      /\ NoJob \in Jobs /\ file \in Files
  BY InitJournal
<1>2. /\ head = <<>> /\ safeHead = <<>> /\ headTorn = FALSE /\ hold = FALSE /\ unsynced = {}
      /\ job = NoJob /\ acked = {} /\ damage = 0
  BY DEF Init
<1>3. job.mode = "none" /\ job.phase = "idle" /\ job.snap = Unread /\ job.pending = NoHead
      /\ job.ours = {} /\ job.raises = FALSE
  BY <1>2 DEF NoJob
<1>4. Pre(<<>>, <<>>) /\ <<>> \in Chains
  <2>1. <<>> \in Seq(All)
    OBVIOUS
  <2> QED
    BY <2>1, PreSelf DEF Chains
<1>5. Typed
  BY <1>1, <1>2, <1>4 DEF Typed
<1>6. Phases /\ Room
  BY <1>2, <1>3 DEF Phases, Room, Written, Recovering, Transactions
<1>7. Heads
  BY <1>2, <1>3, <1>4 DEF Heads, HeadsGrow, Written
<1>8. Told
  BY <1>2, <1>3 DEF Told, HeadsCover
<1>9. Whole /\ Backed
  BY <1>1, <1>2, <1>3, <1>4 DEF Whole, Undamaged, Backed, HeadsBelow, Below, Written
<1> QED
  BY <1>5, <1>6, <1>7, <1>8, <1>9 DEF Inv

LEMMA StepInv == Inv /\ [Next]_vars => Inv'
BY StepTyped, StepPhases, StepRoom, StepHeads, StepTold, StepWhole, StepBacked DEF Inv

LEMMA Invariance == Spec => []Inv
BY InitInv, StepInv, PTL DEF Spec

\* While nobody touched the files and no recovery was declared, the journal
\* opens: after any call, failure, crash or power loss.
THEOREM JournalOpens == Spec => []AlwaysOpens
<1>1. Inv => AlwaysOpens
  <2> SUFFICES ASSUME Inv, damage = 0, ~hold PROVE Opens
    BY DEF AlwaysOpens
  <2>1. Present = 1 .. Longest /\ ~headTorn /\ Pre(head, Prefix)
    BY DEF Inv, Whole, Undamaged, Backed, HeadsBelow, Below
  <2>2. head \in Seq(All) /\ Prefix \in Seq(All)
    BY HistoryTyped DEF Inv, Typed, Chains
  <2> QED
    BY <2>1, <2>2, PreIs DEF Opens
<1> QED
  BY <1>1, Invariance, PTL

\* An event whose append returned is in the history, unless the history does not
\* open or every budget is held; replayed events are excepted.
THEOREM NothingIsLostSilently == Spec => []NoSilentLoss
<1>1. Inv => NoSilentLoss
  <2> SUFFICES ASSUME Inv, Opens, ~hold PROVE acked \ Replays \subseteq ToSet(Prefix)
    BY DEF NoSilentLoss
  <2>1. acked \ Replays \subseteq ToSet(safeHead) /\ Pre(safeHead, head)
    BY DEF Inv, Told, HeadsCover, Heads, HeadsGrow
  <2>2. head \in Seq(All) /\ safeHead \in Seq(All) /\ Prefix \in Seq(All)
    BY HistoryTyped DEF Inv, Typed, Chains
  <2>3. Pre(head, Prefix)
    BY <2>2, PreIs DEF Opens
  <2>4. ToSet(safeHead) \subseteq ToSet(head) /\ ToSet(head) \subseteq ToSet(Prefix)
    BY <2>1, <2>2, <2>3, PreSet
  <2> QED
    BY <2>1, <2>4
<1> QED
  BY <1>1, Invariance, PTL

\* The head that power failures fall back to never certifies less, except under
\* a recovery hold.
THEOREM HeadsOnlyGrow == Spec => HeadNeverRegresses
<1>1. Inv /\ [Next]_vars => [IsPrefix(safeHead, safeHead') \/ hold]_vars
  <2> SUFFICES ASSUME Inv, [Next]_vars, ~hold PROVE IsPrefix(safeHead, safeHead')
    OBVIOUS
  <2>1. head \in Chains /\ safeHead \in Chains /\ safeHead \in Seq(All) /\ head \in Seq(All)
    BY DEF Inv, Typed, Chains
  <2>2. Pre(safeHead, head) /\ Pre(safeHead, safeHead)
    BY <2>1, PreSelf DEF Inv, Heads, HeadsGrow
  <2>3. safeHead' \in {head, safeHead}
    BY DEF Next, Call, Quarantine, Environment, Begin, Replay, Rename, Flush, Defer, RenameHead,
           FlushHead, AppendFails, HeadFails, FinalHead, FlushFinalHead, Return, StartQuarantine,
           Move, Rewind, FlushRewind, Crash, PowerLoss, TearFile, LoseFile, TearHead, Damaged,
           vars, diskVars, syncVars
  <2> QED
    BY <2>1, <2>2, <2>3, PreIs
<1> QED
  BY <1>1, Invariance, PTL DEF Spec, HeadNeverRegresses

\* No step of the store replaces an event file: it disappears only by outside
\* damage, by a power failure no flush preceded, or into quarantine under a hold.
THEOREM FilesAreNeverOverwritten == Spec => NothingOverwritten
<1> DEFINE Kept(n) == file[n] # Absent /\ file'[n] # file[n] =>
                        \/ damage' # damage
                        \/ n \in unsynced /\ file'[n] = Absent
                        \/ hold /\ <<n, file[n]>> \in moved' /\ file'[n] = Absent
<1>1. ASSUME Inv, [Next]_vars, NEW n \in Seqs PROVE Kept(n)
  <2>t. file \in Files /\ damage \in Nat /\ (job.phase = "moving" => hold)
    BY <1>1 DEF Inv, Typed, Phases, Recovering
  <2>1. ASSUME NEW id \in Ids \cup HoldIds, Rename(id) PROVE Kept(n)
    <3> DEFINE chain == Append(Known, id)
    <3>1. Len(chain) = Len(Known) + 1 /\ Len(Known) \in Nat
      BY <1>1, NewChain DEF All, Inv
    <3>2. job.phase \in {"ready", "holding"} /\ CanRead /\ file' = [file EXCEPT ![Len(chain)] = chain]
      BY <2>1 DEF Rename, MayAppend, Holding
    <3>3. \A k \in Present : k <= Len(Known)
      BY <1>1, <3>2, KnownRoom DEF Inv
    <3> HIDE DEF chain
    <3>4. file[n] # Absent => n # Len(chain)
      BY <3>1, <3>3 DEF Present
    <3>5. n # Len(chain) => file'[n] = file[n]
      BY <3>2, <2>t DEF Files
    <3> QED
      BY <3>4, <3>5
  <2>2. CASE Move
    <3>1. PICK m \in Present : moved' = moved \cup {<<m, file[m]>>} /\ file' = [file EXCEPT ![m] = Absent]
      BY <2>2 DEF Move
    <3>2. hold
      BY <2>2, <2>t DEF Move, Holding
    <3>3. n = m \/ file'[n] = file[n]
      BY <3>1, <2>t DEF Files
    <3>4. n = m => file'[n] = Absent
      BY <3>1, <2>t DEF Files
    <3> QED
      BY <3>1, <3>2, <3>3, <3>4
  <2>3. CASE PowerLoss
    <3>1. PICK k \in Seqs \cup {MaxSeq + 1} :
             file' = [j \in Seqs |-> IF j \in {i \in unsynced : i >= k} THEN Absent ELSE file[j]]
      BY <2>3 DEF PowerLoss
    <3> QED
      BY <3>1
  <2>4. ASSUME NEW m \in Seqs, TearFile(m) \/ LoseFile(m) PROVE Kept(n)
    BY <2>4, <2>t DEF TearFile, LoseFile, Damaged
  <2>5. file' = file => Kept(n)
    OBVIOUS
  <2> QED
    BY <1>1, <2>1, <2>2, <2>3, <2>4, <2>5
       DEF Next, Call, Quarantine, Environment, Begin, Replay, Flush, Defer, RenameHead, FlushHead,
           AppendFails, HeadFails, FinalHead, FlushFinalHead, Return, StartQuarantine, Rewind,
           FlushRewind, Crash, TearHead, vars, diskVars, syncVars
<1>2. Inv /\ [Next]_vars => [\A n \in Seqs : Kept(n)]_vars
  BY <1>1
<1> QED
  BY <1>2, Invariance, PTL DEF Spec, NothingOverwritten

-----------------------------------------------------------------------------
(* The files implement one growing log. *)

LEMMA LogInit == Init => A!Init
<1> SUFFICES ASSUME Init PROVE A!Init
  OBVIOUS
<1>1. Prefix = <<>>
  BY InitJournal
<1>2. acked = {} /\ hold = FALSE /\ damage = 0
  BY DEF Init
<1>3. Safe = {}
  BY <1>2 DEF Safe
<1> QED
  BY <1>1, <1>2, <1>3 DEF A!Init

LEMMA LogStep == Inv /\ [Next]_vars => [A!Next]_A!vars
<1> SUFFICES ASSUME Inv, [Next]_vars PROVE [A!Next]_A!vars
  OBVIOUS
<1> USE HistoryTyped DEF Inv
<1>t. Typed /\ damage \in Nat /\ hold \in BOOLEAN /\ damage' \in Nat /\ file \in Files /\ file' \in Files
  BY StepInv DEF Typed
<1>i. Whole'
  BY StepInv
<1>e. \A s : A!ToSet(s) = ToSet(s)
  BY DEF A!ToSet, ToSet
<1>h. hold => hold'
  BY HoldStays
<1>1. CASE damage' # 0
  <2>1. (damage > 0)' = TRUE
    BY <1>1, <1>t
  <2>2. A!Break
    BY <2>1, <1>h DEF A!Break
  <2> QED
    BY <2>2 DEF A!Next
<1>2. CASE damage' = 0
  <2>d. /\ damage = 0 /\ Undamaged
        /\ ~(\E n \in Seqs : TearFile(n) \/ LoseFile(n)) /\ ~TearHead
    BY <1>2, DamageStays DEF Whole
  <2>b. (damage > 0)' = (damage > 0)
    BY <1>2, <2>d
  <2>w. Undamaged'
    BY <1>i, <1>2 DEF Whole
  <2>n. /\ Prefix' = PrefixIn(file') /\ Longest' = LongestIn(file')
        /\ Safe = SafeIn(file, unsynced, acked) /\ Safe' = SafeIn(file', unsynced', acked')
    BY Names
  <2>f. WholeIn(file')
    BY <2>w, <2>n DEF WholeIn, Undamaged, Present
  <2>s. Safe' \subseteq ToSet(Prefix')
    BY <2>n, <2>f, <1>t, SafeInPrefix
  <2>0. ASSUME file' = file, acked' = acked, unsynced' = unsynced, hold' = hold
        PROVE  UNCHANGED A!vars
    <3>1. Prefix' = Prefix
      BY <2>0, SameFiles
    <3>2. Safe' = Safe
      BY <2>0, <2>n
    <3> QED
      BY <3>1, <3>2, <2>0, <2>b, <1>e DEF A!vars
  <2>1. ASSUME NEW id \in Ids \cup HoldIds, Rename(id) PROVE A!Next
    <3>1. /\ Known = Prefix /\ Len(Append(Known, id)) = Longest + 1
          /\ Prefix' = Append(Prefix, id)
      BY <2>1, <2>d, Grows
    <3>2. /\ id \notin ToSet(Prefix) /\ hold' = hold /\ acked' = acked
          /\ file' = [file EXCEPT ![Longest + 1] = Append(Prefix, id)]
          /\ unsynced' = unsynced \cup {Longest + 1} /\ Longest + 1 \in Seqs
      BY <2>1, <3>1 DEF Rename, Recorded
    <3>3. Longest + 1 \notin Present
      BY <2>d DEF Undamaged
    <3>4. file[Longest + 1] = Absent
      BY <3>2, <3>3 DEF Present
    <3>5. \A k \in Seqs : k # Longest + 1 => file'[k] = file[k]
      BY <3>2, <1>t DEF Files
    <3>6. Safe' = Safe
      BY <2>n, <3>2, <3>4, <3>5 DEF SafeIn
    <3>7. A!Add(id)
      BY <3>1, <3>2, <3>6, <2>b, <1>e DEF A!Add
    <3> QED
      BY <3>7 DEF A!Next
  <2>2. CASE Flush
    <3>1. file' = file /\ acked' = acked /\ hold' = hold /\ unsynced' = {}
      BY <2>2 DEF Flush, diskVars
    <3>2. Prefix' = Prefix
      BY <3>1, SameFiles
    <3>3. Safe \subseteq Safe'
      BY <2>n, <3>1 DEF SafeIn
    <3>4. A!Acknowledge
      BY <3>1, <3>2, <3>3, <2>s, <2>b, <1>e DEF A!Acknowledge
    <3> QED
      BY <3>4 DEF A!Next
  <2>3. CASE Return
    <3>1. file' = file /\ acked \subseteq acked' /\ hold' = hold /\ unsynced' = unsynced
      BY <2>3 DEF Return, diskVars, syncVars
    <3>2. Prefix' = Prefix
      BY <3>1, SameFiles
    <3>3. Safe \subseteq Safe'
      BY <2>n, <3>1 DEF SafeIn
    <3>4. A!Acknowledge
      BY <3>1, <3>2, <3>3, <2>s, <2>b, <1>e DEF A!Acknowledge
    <3> QED
      BY <3>4 DEF A!Next
  <2>4. CASE PowerLoss
    <3>1. PICK m \in 0 .. Longest :
             /\ Prefix' = SubSeq(Prefix, 1, m)
             /\ \A k \in Seqs \ unsynced : file'[k] = file[k]
      BY <2>4, <2>d, Loses
    <3>2. acked' = acked /\ hold' = hold /\ unsynced' = {}
      BY <2>4 DEF PowerLoss
    <3>3. Safe \subseteq Safe'
      BY <2>n, <3>1, <3>2 DEF SafeIn
    <3>4. Prefix' \in {SubSeq(Prefix, 1, n) : n \in 0 .. Len(Prefix)}
      BY <3>1
    <3>5. A!Forget
      BY <3>2, <3>3, <3>4, <2>s, <2>b, <1>e DEF A!Forget
    <3> QED
      BY <3>5 DEF A!Next
  <2>5. CASE StartQuarantine
    <3>1. file' = file /\ acked' = acked /\ hold' = TRUE /\ unsynced' = unsynced
      BY <2>5 DEF StartQuarantine, MayQuarantine, Quarantining, syncVars
    <3>2. Prefix' = Prefix /\ Safe' = Safe
      BY <3>1, SameFiles, <2>n
    <3>3. A!Hold
      BY <3>1, <3>2, <2>b, <1>e DEF A!Hold
    <3> QED
      BY <3>3 DEF A!Next
  <2>6. ~Move
    <3>1. SUFFICES ASSUME Move PROVE FALSE
      OBVIOUS
    <3>2. job.phase = "moving" /\ job.snap = Prefix /\ Present = 1 .. Longest
      BY <3>1, <2>d DEF Move, Undamaged, Phases, Holding
    <3>3. {n \in Present : n > Len(job.snap)} = {}
      BY <3>2
    <3> QED
      BY <3>1, <3>3 DEF Move
  <2>7. CASE UNCHANGED vars
    BY <2>7, <2>0 DEF vars, diskVars, syncVars
  <2>8. CASE \/ \E mode \in {"append"} \cup Transactions : Begin(mode)
             \/ \E id \in Ids \cup HoldIds : Replay(id)
             \/ Defer \/ RenameHead \/ FlushHead \/ AppendFails \/ HeadFails
             \/ FinalHead \/ FlushFinalHead \/ Rewind \/ FlushRewind \/ Crash
    <3>1. file' = file /\ acked' = acked /\ unsynced' = unsynced /\ hold' = hold
      BY <2>8 DEF Begin, Replay, Defer, RenameHead, FlushHead, AppendFails, HeadFails, FinalHead,
             FlushFinalHead, Rewind, FlushRewind, Crash, diskVars, syncVars
    <3> QED
      BY <3>1, <2>0
  <2> QED
    BY <2>1, <2>2, <2>3, <2>4, <2>5, <2>6, <2>7, <2>8, <2>d DEF Next, Call, Quarantine, Environment
<1> QED
  BY <1>1, <1>2

\* The files, heads and calls implement AppendLog: one history without repetition
\* that only grows while it is undamaged, and keeps what a flush covered.
THEOREM LogIsImplemented == Spec => ImplementsLog
<1>1. Spec => A!Init
  BY LogInit DEF Spec
<1> QED
  BY <1>1, LogStep, Invariance, PTL DEF Spec, ImplementsLog, A!Spec

=============================================================================
