----------------------- MODULE ContextualAccessProofs -----------------------
(***************************************************************************)
(* What a feed presents, when a decision is stale and when the compiler    *)
(* raises, for every package, however many its keys, events and attempts.  *)
(*                                                                         *)
(* The inductive invariant says what a package is from the moment it is    *)
(* accepted: its events are sorted by their ticks, the attempts of each by *)
(* theirs, the revisions of a key are contiguous, and a case is the truth  *)
(* of its request.                                                         *)
(***************************************************************************)
EXTENDS ContextualAccess, ContextualProtocol, FiniteSetTheorems, WellFoundedInduction, TLAPS

Values == (UNION {ValuesOf[key] : key \in Keys}) \cup {None}

Revisions ==
  [key : Keys, revision : Nat, start : Nat, end : Nat \cup {None}, tombstone : BOOLEAN, value : Values]

CaseTruths == [canonical : {"allow", "deny"}, presented : {"allow", "deny"}, stale : BOOLEAN]

Sorted == \A i, j \in DOMAIN events : i < j => events[i].start <= events[j].start

InitialOK == \A key \in Keys : initial[key] # None => initial[key].key = key

AttemptsOK ==
  stage # "drawing" =>
    /\ attempts \in [DOMAIN events -> Seq(Ticks)]
    /\ \A i \in DOMAIN events : \A m, n \in DOMAIN attempts[i] : m < n => attempts[i][m] <= attempts[i][n]

CasesOK ==
  /\ cases \in Seq(CaseTruths)
  /\ Len(cases) <= Len(Requests)
  /\ \A n \in DOMAIN cases : cases[n] = CaseTruth(Requests[n])

IInv ==
  /\ stage \in {"drawing", "delivering", "public", "refused", "raised", "compiled"}
  /\ events \in Seq(Revisions)
  /\ Sorted
  /\ InitialOK
  /\ AttemptsOK
  /\ IsPublic => Accepted
  /\ CasesOK
  /\ ~IsPublic => cases = <<>>
  /\ stage = "raised" => \E n \in DOMAIN Requests : Raises(Requests[n])

\* A set of positions has a last one.
LEMMA LastPosition ==
  ASSUME NEW n \in Nat, NEW S \in SUBSET (1..n), S # {}
  PROVE  \E m \in S : \A k \in S : k <= m
<1> DEFINE T == {n - k : k \in S}
<1>0. \A k \in S : k \in Nat /\ n - k \in Nat
  OBVIOUS
<1>1. T \subseteq Nat /\ T # {}
  BY <1>0
<1>2. PICK x \in T : \A y \in T : ~(<<y, x>> \in OpToRel(<, Nat))
  BY <1>1, NatLessThanWellFounded, WFMin
<1>3. PICK m \in S : x = n - m
  BY <1>2
<1>4. ASSUME NEW k \in S PROVE k <= m
  <2>1. n - k \in T
    OBVIOUS
  <2>2. ~(n - k < x)
    BY <2>1, <1>0, <1>1, <1>2 DEF OpToRel
  <2>3. QED
    BY <1>0, <1>3, <2>2
<1>5. QED
  BY <1>4

\* What a key has at last, if anything, is of this key.
LEMMA LatestIsOfItsKey ==
  ASSUME IInv, NEW S \in SUBSET DOMAIN events, NEW key \in Keys, Latest(S, key) # None
  PROVE  Latest(S, key).key = key
<1> DEFINE R == {i \in S : events[i].key = key}
           last(i) == \A j \in R : j <= i
<1>1. CASE R = {}
  BY <1>1 DEF Latest, IInv, InitialOK
<1>2. CASE R # {}
  <2>1. R \in SUBSET (1..Len(events)) /\ Len(events) \in Nat
    BY DEF IInv
  <2>2. \E i \in R : last(i)
    BY <1>2, <2>1, LastPosition
  <2>3. (CHOOSE i \in R : last(i)) \in R
    BY <2>2
  <2>4. Latest(S, key) = events[CHOOSE i \in R : last(i)]
    BY <1>2 DEF Latest
  <2>5. QED
    BY <2>3, <2>4
<1>3. QED
  BY <1>1, <1>2

\* An event is presented from its first delivery on.
LEMMA PresentedSinceTheFirst ==
  ASSUME IInv, IsPublic, NEW t \in Nat, NEW i \in DOMAIN events
  PROVE  /\ FirstDelivery(i) \in Nat
         /\ i \in Presented(t) <=> FirstDelivery(i) <= t
<1>1. attempts \in [DOMAIN events -> Seq(Ticks)] /\ attempts[i] # <<>>
  BY DEF IInv, AttemptsOK, IsPublic, Accepted, EveryEventIsAttempted
<1>2. attempts[i] \in Seq(Ticks) /\ 1 \in DOMAIN attempts[i] /\ Ticks \subseteq Nat
  BY <1>1, ContextualAssumption DEF Ticks
<1>3. \A n \in DOMAIN attempts[i] : attempts[i][1] <= attempts[i][n] /\ attempts[i][n] \in Nat
  <2> SUFFICES ASSUME NEW n \in DOMAIN attempts[i]
               PROVE  attempts[i][1] <= attempts[i][n] /\ attempts[i][n] \in Nat
    OBVIOUS
  <2>1. Len(attempts[i]) \in Nat /\ DOMAIN attempts[i] = 1..Len(attempts[i])
    BY <1>2
  <2>2. attempts[i][n] \in Ticks /\ attempts[i][1] \in Ticks
    BY <1>2
  <2>3. n \in Nat /\ n >= 1
    BY <2>1
  <2>4. attempts[i][n] \in Nat /\ attempts[i][1] \in Nat /\ n \in Nat /\ n >= 1
    BY <1>2, <2>2, <2>3
  <2>5. CASE n = 1
    BY <2>4, <2>5
  <2>6. CASE 1 < n
    BY <1>2, <2>4, <2>6 DEF IInv, AttemptsOK, IsPublic
  <2>7. QED
    BY <2>4, <2>5, <2>6
<1>4. QED
  BY <1>2, <1>3 DEF Presented, FirstDelivery

------------------------------------------------------------------------------
(* The three invariants follow from the inductive one. *)

LEMMA EarlierIsFinite ==
  ASSUME IInv, NEW S \in SUBSET DOMAIN events, NEW i \in DOMAIN events
  PROVE  /\ IsFiniteSet(Earlier(S, i)) /\ Cardinality(Earlier(S, i)) \in Nat
         /\ Earlier(S, i) \subseteq Earlier(DOMAIN events, i)
<1>1. IsFiniteSet(DOMAIN events)
  BY FS_Interval DEF IInv
<1>2. QED
  BY <1>1, FS_Subset, FS_CardinalityType DEF Earlier

\* A replay that does not raise has all the earlier revisions of what it has.
LEMMA MaterializedHasAllEarlier ==
  ASSUME IInv, IsPublic, NEW S \in SUBSET DOMAIN events, NEW i \in S
  PROVE  events[i].revision = ExpectedRevision(S, i) <=> Earlier(S, i) = Earlier(DOMAIN events, i)
<1>1. events[i].revision = ExpectedRevision(DOMAIN events, i)
  BY DEF IInv, Accepted, Materializes
<1>2. /\ IsFiniteSet(Earlier(DOMAIN events, i)) /\ Cardinality(Earlier(DOMAIN events, i)) \in Nat
      /\ Cardinality(Earlier(S, i)) \in Nat
      /\ Earlier(S, i) \in SUBSET Earlier(DOMAIN events, i)
  BY EarlierIsFinite
<1>3. Cardinality(Earlier(S, i)) = Cardinality(Earlier(DOMAIN events, i)) <=> Earlier(S, i) = Earlier(DOMAIN events, i)
  BY <1>2, FS_Subset
<1>4. QED
  BY <1>1, <1>2, <1>3 DEF ExpectedRevision

LEMMA PrefixFollows ==
  ASSUME IInv
  PROVE  PresentedIsAPrefix
<1> SUFFICES ASSUME IsPublic, NEW t \in Ticks, Materializes(Presented(t)), NEW i \in Presented(t)
             PROVE  Earlier(DOMAIN events, i) \subseteq Presented(t)
  BY DEF PresentedIsAPrefix
<1>1. Presented(t) \in SUBSET DOMAIN events
  BY DEF Presented
<1>2. events[i].revision = ExpectedRevision(Presented(t), i)
  BY DEF Materializes
<1>3. Earlier(Presented(t), i) = Earlier(DOMAIN events, i)
  BY <1>1, <1>2, MaterializedHasAllEarlier
<1>4. QED
  BY <1>3 DEF Earlier

\* The events of a tick and before are a prefix, and materialize.
LEMMA CanonicalMaterializes ==
  ASSUME IInv, IsPublic, NEW t \in Nat
  PROVE  Materializes(Canonical(t))
<1> SUFFICES ASSUME NEW i \in Canonical(t)
             PROVE  events[i].revision = ExpectedRevision(Canonical(t), i)
  BY DEF Materializes
<1>1. Canonical(t) \in SUBSET DOMAIN events
  BY DEF Canonical
<1>2. ASSUME NEW j \in Earlier(DOMAIN events, i) PROVE j \in Canonical(t)
  <2>1. j \in DOMAIN events /\ i \in DOMAIN events /\ j < i
    BY <1>1 DEF Earlier
  <2>2. events[j] \in Revisions /\ events[i] \in Revisions /\ events[j].start <= events[i].start
    BY <2>1 DEF IInv, Sorted
  <2>3. QED
    BY <2>1, <2>2 DEF Canonical, Revisions
<1>3. Earlier(Canonical(t), i) = Earlier(DOMAIN events, i)
  BY <1>1, <1>2 DEF Earlier
<1>4. QED
  BY <1>1, <1>3, MaterializedHasAllEarlier

LEMMA GapFollows ==
  ASSUME IInv
  PROVE  RaisedIsAGap
<1> SUFFICES ASSUME stage = "raised"
             PROVE  \E i, j \in DOMAIN events :
                      /\ events[i].key = events[j].key
                      /\ events[i].revision < events[j].revision
                      /\ FirstDelivery(j) < FirstDelivery(i)
  BY DEF RaisedIsAGap
<1>1. PICK n \in DOMAIN Requests : Raises(Requests[n])
  BY DEF IInv
<1> DEFINE t == Requests[n].tick
           P == Presented(t)
<1>2. IsPublic /\ t \in Nat /\ P \in SUBSET DOMAIN events
  BY ContextualAssumption DEF IsPublic, Presented
<1>3. PICK j \in P : events[j].revision # ExpectedRevision(P, j)
  BY <1>1, <1>2, CanonicalMaterializes DEF Raises, Materializes
<1>4. Earlier(P, j) # Earlier(DOMAIN events, j)
  BY <1>2, <1>3, MaterializedHasAllEarlier
<1>5. PICK i \in Earlier(DOMAIN events, j) : i \notin P
  BY <1>2, <1>4 DEF Earlier
<1>6. i \in DOMAIN events /\ j \in DOMAIN events /\ i < j /\ events[i].key = events[j].key
  BY <1>2, <1>5 DEF Earlier
<1>7. FirstDelivery(j) < FirstDelivery(i)
  BY <1>2, <1>5, <1>6, PresentedSinceTheFirst
<1>8. events[i].revision < events[j].revision
  <2> DEFINE Ei == Earlier(DOMAIN events, i)
             Ej == Earlier(DOMAIN events, j)
  <2>1. /\ IsFiniteSet(Ei) /\ Cardinality(Ei) \in Nat
        /\ IsFiniteSet(Ej) /\ Cardinality(Ej) \in Nat
    BY <1>6, EarlierIsFinite
  <2>2. i \in Nat /\ j \in Nat /\ \A k \in DOMAIN events : k \in Nat
    BY <1>6 DEF IInv
  <2>3. Ei \in SUBSET Ej /\ i \in Ej /\ i \notin Ei
    BY <1>5, <1>6, <2>2 DEF Earlier
  <2>4. Cardinality(Ei) < Cardinality(Ej)
    BY <2>1, <2>3, FS_Subset
  <2>5. /\ events[i].revision = ExpectedRevision(DOMAIN events, i)
        /\ events[j].revision = ExpectedRevision(DOMAIN events, j)
    BY <1>2, <1>6 DEF IInv, Accepted, Materializes
  <2>6. QED
    BY <1>6, <2>1, <2>4, <2>5 DEF ExpectedRevision
<1>9. QED
  BY <1>6, <1>7, <1>8

\* Where no event of a key that is read is displaced, both feeds say the same of it.
LEMMA UndisplacedKeysAgree ==
  ASSUME IInv, IsPublic, NEW n \in DOMAIN Requests, NEW key \in Keys,
         \A i \in DOMAIN events : events[i].key = key => ~Displaced(Requests[n], i)
  PROVE  Latest(Canonical(Requests[n].tick), key) = Latest(Presented(Requests[n].tick), key)
<1> DEFINE t == Requests[n].tick
           R(S) == {i \in S : events[i].key = key}
           Last(T) == IF T = {} THEN initial[key] ELSE events[CHOOSE i \in T : \A j \in T : j <= i]
<1>1. t \in Nat
  BY ContextualAssumption
<1>2. ASSUME NEW i \in DOMAIN events, events[i].key = key
      PROVE  i \in Canonical(t) <=> i \in Presented(t)
  <2>1. FirstDelivery(i) \in Nat /\ (i \in Presented(t) <=> FirstDelivery(i) <= t)
    BY <1>1, PresentedSinceTheFirst
  <2>2. events[i] \in Revisions
    BY DEF IInv
  <2>3. events[i].start \in Nat
    BY <2>2 DEF Revisions
  <2>4. ~Displaced(Requests[n], i)
    BY <1>2
  <2>5. QED
    BY <1>1, <2>1, <2>3, <2>4 DEF Canonical, Displaced
<1>3. R(Canonical(t)) = R(Presented(t))
  BY <1>2 DEF Canonical, Presented
<1>4. \A S : Latest(S, key) = Last(R(S))
  BY DEF Latest
<1> HIDE DEF R, Last
<1>5. QED
  BY <1>3, <1>4

LEMMA UndisplacedDecisionsAgree ==
  ASSUME IInv, IsPublic, NEW n \in DOMAIN Requests,
         \A i \in DOMAIN events : Reads(Requests[n], events[i].key) => ~Displaced(Requests[n], i)
  PROVE  CanonicalDecision(Requests[n]) = PresentedDecision(Requests[n])
<1> DEFINE r == Requests[n]
           t == r.tick
           C == ActiveFacts(Canonical(t), t)
           P == ActiveFacts(Presented(t), t)
<1>1. \A key \in Keys : Reads(r, key) => Latest(Canonical(t), key) = Latest(Presented(t), key)
  BY UndisplacedKeysAgree
<1>2. /\ \A key \in Keys : Latest(Canonical(t), key) # None => Latest(Canonical(t), key).key = key
      /\ \A key \in Keys : Latest(Presented(t), key) # None => Latest(Presented(t), key).key = key
  BY LatestIsOfItsKey DEF Canonical, Presented
<1>3. ASSUME NEW rule \in Applicable(r), NEW p \in rule.predicates
      PROVE  Matching(p, r, C) = Matching(p, r, P)
  <2>1. \A key : (IF p.kind = "device_posture" THEN key = r.device ELSE key \in p.keys) => Reads(r, key)
    BY DEF Reads
  <2>2. ASSUME NEW f \in Matching(p, r, C) PROVE f \in P
    <3>1. f \in C /\ Reads(r, f.key)
      BY <2>1 DEF Matching
    <3>2. PICK key \in Keys : f = Latest(Canonical(t), key) /\ IsActive(f, t)
      BY <3>1 DEF ActiveFacts
    <3>3. f.key = key
      BY <1>2, <3>2 DEF IsActive
    <3>4. f = Latest(Presented(t), key)
      BY <1>1, <3>1, <3>2, <3>3
    <3>5. QED
      BY <3>2, <3>4 DEF ActiveFacts
  <2>3. ASSUME NEW f \in Matching(p, r, P) PROVE f \in C
    <3>1. f \in P /\ Reads(r, f.key)
      BY <2>1 DEF Matching
    <3>2. PICK key \in Keys : f = Latest(Presented(t), key) /\ IsActive(f, t)
      BY <3>1 DEF ActiveFacts
    <3>3. f.key = key
      BY <1>2, <3>2 DEF IsActive
    <3>4. f = Latest(Canonical(t), key)
      BY <1>1, <3>1, <3>2, <3>3
    <3>5. QED
      BY <3>2, <3>4 DEF ActiveFacts
  <2>4. QED
    BY <2>2, <2>3 DEF Matching
<1>4. ASSUME NEW rule \in Applicable(r) PROVE Matched(rule, r, C) = Matched(rule, r, P)
  <2>1. \A p \in rule.predicates : Evaluate(p, r, C) = Evaluate(p, r, P)
    BY <1>3 DEF Evaluate
  <2>2. {Evaluate(p, r, C) : p \in rule.predicates} = {Evaluate(p, r, P) : p \in rule.predicates}
    BY <2>1
  <2>3. QED
    BY <2>2 DEF Matched
<1>5. {x \in Applicable(r) : Matched(x, r, C)} = {x \in Applicable(r) : Matched(x, r, P)}
  BY <1>4
<1>6. Decision(r, C) = Decision(r, P)
  BY <1>5 DEF Decision
<1>7. QED
  BY <1>6 DEF CanonicalDecision, PresentedDecision

LEMMA StaleFollows ==
  ASSUME IInv
  PROVE  StaleIsExplained
<1> SUFFICES ASSUME NEW n \in DOMAIN cases, cases[n].stale
             PROVE  \E i \in DOMAIN events : Reads(Requests[n], events[i].key) /\ Displaced(Requests[n], i)
  BY DEF StaleIsExplained
<1>1. IsPublic
  BY DEF IInv
<1>2. n \in DOMAIN Requests /\ cases[n] = CaseTruth(Requests[n])
  BY ContextualAssumption DEF IInv, CasesOK
<1>3. CanonicalDecision(Requests[n]) # PresentedDecision(Requests[n])
  <2>1. CaseTruth(Requests[n]).stale = (CanonicalDecision(Requests[n]) # PresentedDecision(Requests[n]))
    BY DEF CaseTruth
  <2>2. QED
    BY <1>2, <2>1
<1>4. QED
  BY <1>1, <1>2, <1>3, UndisplacedDecisionsAgree

------------------------------------------------------------------------------
(* The inductive invariant. *)

LEMMA InitIsInductive ==
  ASSUME Init
  PROVE  IInv
<1>1. events = <<>> /\ cases = <<>> /\ stage = "drawing"
  BY DEF Init
<1>2. InitialOK
  BY DEF Init, InitialOK, InitialFacts, Fact
<1>3. QED
  BY <1>1, <1>2, ContextualAssumption DEF IInv, Sorted, AttemptsOK, CasesOK, IsPublic

LEMMA AddEventKeepsIInv ==
  ASSUME IInv, NEW fact \in Revisions, AddEvent(fact)
  PROVE  IInv'
<1>1. stage = "drawing" /\ stage' = stage /\ initial' = initial /\ cases' = cases /\ attempts' = attempts
  BY DEF AddEvent
<1>2. PICK i \in 1..Len(events) + 1 :
        /\ \A j \in DOMAIN events : j < i \/ events[j].start = fact.start
        /\ events' = InsertAt(events, i, fact)
  BY DEF AddEvent
<1>3. /\ events \in Seq(Revisions) /\ Len(events) \in Nat /\ DOMAIN events = 1..Len(events)
      /\ \A j \in DOMAIN events : events[j].start \in Nat
      /\ fact.start \in Nat
  <2>1. events \in Seq(Revisions)
    BY DEF IInv
  <2>2. Len(events) \in Nat /\ DOMAIN events = 1..Len(events) /\ \A j \in DOMAIN events : events[j] \in Revisions
    BY <2>1
  <2>3. \A f \in Revisions : f.start \in Nat
    BY DEF Revisions
  <2>4. QED
    BY <2>1, <2>2, <2>3
<1>4. \A j \in DOMAIN events : events[j].start <= fact.start
  BY DEF AddEvent
<1>5. /\ events' \in Seq(Revisions)
      /\ Len(events') = Len(events) + 1
      /\ \A k \in 1..Len(events) + 1 :
           events'[k] = IF k < i THEN events[k] ELSE IF k = i THEN fact ELSE events[k - 1]
  <2> DEFINE front == SubSeq(events, 1, i - 1)
             back == SubSeq(events, i, Len(events))
  <2>1. /\ front \in Seq(Revisions) /\ Len(front) = i - 1
        /\ \A k \in 1..i - 1 : front[k] = events[k]
    BY <1>3
  <2>2. /\ back \in Seq(Revisions) /\ Len(back) = Len(events) + 1 - i
        /\ \A k \in 1..Len(events) + 1 - i : back[k] = events[i + k - 1]
    BY <1>3
  <2> HIDE DEF front, back
  <2>3. front \o <<fact>> \in Seq(Revisions) /\ Len(front \o <<fact>>) = i
        /\ \A k \in 1..i : (front \o <<fact>>)[k] = IF k < i THEN events[k] ELSE fact
    BY <1>3, <2>1
  <2> DEFINE most == front \o <<fact>>
  <2> HIDE DEF most
  <2>4. events' = most \o back
    BY <1>2 DEF InsertAt, most, front, back
  <2>5. most \in Seq(Revisions) /\ Len(most) = i
        /\ \A k \in 1..i : most[k] = IF k < i THEN events[k] ELSE fact
    BY <2>3 DEF most
  <2>6. events' \in Seq(Revisions) /\ Len(events') = Len(events) + 1
    BY <1>3, <2>2, <2>4, <2>5
  <2>7. ASSUME NEW k \in 1..Len(events) + 1
        PROVE  events'[k] = IF k < i THEN events[k] ELSE IF k = i THEN fact ELSE events[k - 1]
    <3>1. CASE k <= i
      BY <1>3, <2>2, <2>4, <2>5, <3>1
    <3>2. CASE i < k
      <4>1. k - i \in 1..Len(events) + 1 - i /\ i + (k - i) - 1 = k - 1
        BY <1>3, <3>2
      <4>2. events'[k] = back[k - i]
        BY <1>3, <2>2, <2>4, <2>5, <3>2
      <4>3. QED
        BY <1>3, <2>2, <3>2, <4>1, <4>2
    <3>3. QED
      BY <1>3, <3>1, <3>2
  <2>8. QED
    BY <2>6, <2>7
<1>6. Sorted'
  <2> SUFFICES ASSUME NEW a \in 1..Len(events) + 1, NEW b \in 1..Len(events) + 1, a < b
               PROVE  events'[a].start <= events'[b].start
    BY <1>3, <1>5 DEF Sorted
  <2>1. \A c, d \in 1..Len(events) : c < d => events[c].start <= events[d].start
    BY <1>3 DEF IInv, Sorted
  <2>2. CASE b < i
    BY <1>3, <1>5, <2>1, <2>2
  <2>3. CASE b = i
    BY <1>3, <1>4, <1>5, <2>3
  <2>4. CASE a = i
    <3>1. b - 1 \in DOMAIN events /\ ~(b - 1 < i)
      BY <1>3, <2>4
    <3>2. ~(a < i) /\ ~(b < i) /\ b # i
      BY <1>3, <2>4
    <3>3. events'[b] = events[b - 1]
      BY <1>5, <3>2
    <3>4. events'[a] = fact
      BY <1>5, <2>4, <3>2
    <3>5. QED
      BY <1>2, <1>3, <3>1, <3>3, <3>4
  <2>5. CASE a < i /\ i < b
    <3>2. a < b - 1
      BY <1>3, <2>5
    <3>3. a \in 1..Len(events) /\ b - 1 \in 1..Len(events)
      BY <1>3, <2>5
    <3>4. events'[a] = events[a] /\ events'[b] = events[b - 1]
      BY <1>3, <1>5, <2>5
    <3>5. QED
      BY <2>1, <3>2, <3>3, <3>4
  <2>6. CASE i < a
    <3>1. a - 1 \in 1..Len(events) /\ b - 1 \in 1..Len(events) /\ a - 1 < b - 1
      BY <1>3, <2>6
    <3>2. events'[a] = events[a - 1] /\ events'[b] = events[b - 1]
      BY <1>3, <1>5, <2>6
    <3>3. QED
      BY <2>1, <3>1, <3>2
  <2>7. QED
    BY <1>2, <2>2, <2>3, <2>4, <2>5, <2>6
<1>7. QED
  BY <1>1, <1>5, <1>6 DEF IInv, InitialOK, AttemptsOK, CasesOK, IsPublic, Accepted, CaseTruth, Raises

LEMMA NextRevisionType ==
  ASSUME IInv, NEW key
  PROVE  NextRevision(key) \in Nat
<1>1. IsFiniteSet(DOMAIN events)
  BY FS_Interval DEF IInv
<1>2. Cardinality({i \in DOMAIN events : events[i].key = key}) \in Nat
  BY <1>1, FS_Subset, FS_CardinalityType
<1>3. QED
  BY <1>2 DEF NextRevision

LEMMA DrawingKeepsIInv ==
  ASSUME IInv, NEW key \in Keys, NEW t \in Ticks,
         \/ \E lifetime \in Lifetimes, value \in ValuesOf[key] : UpsertFact(key, t, lifetime, value)
         \/ RemoveFact(key, t)
  PROVE  IInv'
<1>1. t \in Nat /\ NextRevision(key) \in Nat
  BY NextRevisionType, ContextualAssumption DEF Ticks
<1>2. CASE \E lifetime \in Lifetimes, value \in ValuesOf[key] : UpsertFact(key, t, lifetime, value)
  <2>1. PICK lifetime \in Lifetimes, value \in ValuesOf[key] : UpsertFact(key, t, lifetime, value)
    BY <1>2
  <2>2. lifetime # None => lifetime \in Nat /\ t + lifetime \in Nat
    BY <1>1, ContextualAssumption
  <2>3. value \in Values
    BY DEF Values
  <2>4. Fact(key, NextRevision(key), t, lifetime, FALSE, value) \in Revisions
    BY <1>1, <2>2, <2>3 DEF Fact, Revisions
  <2>5. QED
    BY <2>1, <2>4, AddEventKeepsIInv DEF UpsertFact
<1>3. CASE RemoveFact(key, t)
  <2>1. None \in Values
    BY DEF Values
  <2>2. Fact(key, NextRevision(key), t, None, TRUE, None) \in Revisions
    BY <1>1, <2>1 DEF Fact, Revisions
  <2>3. QED
    BY <1>3, <2>2, AddEventKeepsIInv DEF RemoveFact
<1>4. QED
  BY <1>2, <1>3

LEMMA DeliveringKeepsIInv ==
  ASSUME IInv, NEW i \in DOMAIN events, NEW t \in Ticks, AddAttempt(i, t)
  PROVE  IInv'
<1>1. /\ stage = "delivering" /\ stage' = stage
      /\ UNCHANGED <<initial, events, cases>>
      /\ attempts' = [attempts EXCEPT ![i] = Append(attempts[i], t)]
      /\ \A n \in DOMAIN attempts[i] : attempts[i][n] <= t
  BY DEF AddAttempt
<1>2. /\ attempts \in [DOMAIN events -> Seq(Ticks)]
      /\ \A j \in DOMAIN events : \A m, n \in DOMAIN attempts[j] : m < n => attempts[j][m] <= attempts[j][n]
  BY <1>1 DEF IInv, AttemptsOK
<1>3. attempts[i] \in Seq(Ticks) /\ Append(attempts[i], t) \in Seq(Ticks)
  BY <1>2
<1>4. attempts' \in [DOMAIN events -> Seq(Ticks)]
  BY <1>1, <1>2, <1>3
<1>5. ASSUME NEW j \in DOMAIN events, NEW m \in DOMAIN attempts'[j], NEW n \in DOMAIN attempts'[j], m < n
      PROVE  attempts'[j][m] <= attempts'[j][n]
  <2>1. CASE j # i
    BY <1>1, <1>2, <1>5, <2>1
  <2>2. CASE j = i
    <3> DEFINE a == attempts[i]
    <3>1. attempts'[j] = Append(a, t)
      BY <1>1, <1>2, <2>2
    <3>2. Len(a) \in Nat /\ DOMAIN a = 1..Len(a) /\ DOMAIN attempts'[j] = 1..Len(a) + 1
      BY <1>3, <3>1
    <3>3. m \in DOMAIN a /\ attempts'[j][m] = a[m]
      BY <1>3, <1>5, <3>1, <3>2
    <3>4. CASE n = Len(a) + 1
      BY <1>1, <1>3, <3>1, <3>3, <3>4
    <3>5. CASE n \in DOMAIN a
      BY <1>2, <1>3, <1>5, <3>1, <3>2, <3>3, <3>5
    <3>6. QED
      BY <3>2, <3>4, <3>5
  <2>3. QED
    BY <2>1, <2>2
<1>6. AttemptsOK'
  BY <1>1, <1>4, <1>5 DEF AttemptsOK
<1>7. QED
  BY <1>1, <1>6 DEF IInv, Sorted, InitialOK, CasesOK, IsPublic, CaseTruth

LEMMA CaseTruthType ==
  ASSUME NEW r
  PROVE  CaseTruth(r) \in CaseTruths
BY DEF CaseTruth, CaseTruths, CanonicalDecision, PresentedDecision, Decision

LEMMA CompilingKeepsIInv ==
  ASSUME IInv, CompileCase
  PROVE  IInv'
<1> DEFINE r == Requests[Len(cases) + 1]
<1>1. /\ stage = "public" /\ Len(cases) < Len(Requests)
      /\ UNCHANGED <<initial, events, attempts>>
      /\ \/ Raises(r) /\ stage' = "raised" /\ cases' = cases
         \/ cases' = Append(cases, CaseTruth(r)) /\ stage' \in {"compiled", "public"}
  BY DEF CompileCase
<1>2. /\ cases \in Seq(CaseTruths) /\ Len(cases) \in Nat
      /\ Len(cases) + 1 \in DOMAIN Requests
      /\ \A n \in DOMAIN cases : cases[n] = CaseTruth(Requests[n])
  BY <1>1, ContextualAssumption DEF IInv, CasesOK
<1>3. /\ \A x : CaseTruth(x)' = CaseTruth(x)
      /\ \A x : Raises(x)' = Raises(x)
  <2>1. \A t : Canonical(t)' = Canonical(t) /\ Presented(t)' = Presented(t)
    BY <1>1 DEF Canonical, Presented
  <2>2. \A S : Materializes(S)' = Materializes(S)
    BY <1>1 DEF Materializes, ExpectedRevision, Earlier
  <2>3. \A S, t : ActiveFacts(S, t)' = ActiveFacts(S, t)
    BY <1>1 DEF ActiveFacts, Latest
  <2>4. QED
    BY <2>1, <2>2, <2>3 DEF CaseTruth, CanonicalDecision, PresentedDecision, Raises
<1>4. IsPublic /\ IsPublic' /\ Accepted'
  BY <1>1 DEF IsPublic, IInv, Accepted, Materializes, EveryEventIsAttempted, EveryDeviceIsNamed,
              ExpectedRevision, Earlier
<1>5. CasesOK'
  <2>1. CASE cases' = cases
    BY <1>1, <1>3, <2>1 DEF CasesOK, IInv
  <2>2. CASE cases' = Append(cases, CaseTruth(r))
    <3>1. cases' \in Seq(CaseTruths) /\ Len(cases') = Len(cases) + 1 /\ DOMAIN cases' = 1..Len(cases) + 1
      BY <1>2, <2>2, CaseTruthType
    <3>2. \A n \in DOMAIN cases' : cases'[n] = CaseTruth(Requests[n])
      BY <1>2, <2>2, <3>1
    <3>3. QED
      BY <1>1, <1>2, <1>3, <3>1, <3>2, ContextualAssumption DEF CasesOK
  <2>3. QED
    BY <1>1, <2>1, <2>2
<1>6. stage' = "raised" => \E n \in DOMAIN Requests : Raises(Requests[n])'
  BY <1>1, <1>2, <1>3
<1>7. QED
  BY <1>1, <1>4, <1>5, <1>6 DEF IInv, Sorted, InitialOK, AttemptsOK

LEMMA NextKeepsIInv ==
  ASSUME IInv, [Next]_vars
  PROVE  IInv'
<1>1. CASE \E key \in Keys, t \in Ticks, lifetime \in Lifetimes :
             \E value \in ValuesOf[key] : UpsertFact(key, t, lifetime, value)
  BY <1>1, DrawingKeepsIInv
<1>2. CASE \E key \in Keys, t \in Ticks : RemoveFact(key, t)
  BY <1>2, DrawingKeepsIInv
<1>3. CASE EndOfEvents
  <2>1. stage' = "delivering" /\ UNCHANGED <<initial, events, cases>> /\ attempts' = [i \in DOMAIN events |-> <<>>]
    BY <1>3 DEF EndOfEvents
  <2>2. ~IsPublic
    BY <1>3 DEF EndOfEvents, IsPublic
  <2>3. AttemptsOK'
    BY <2>1 DEF AttemptsOK
  <2>4. CasesOK'
    <3>1. cases' = <<>>
      BY <2>1, <2>2 DEF IInv
    <3>2. QED
      BY <3>1, ContextualAssumption DEF CasesOK
  <2>5. QED
    BY <2>1, <2>2, <2>3, <2>4 DEF IInv, Sorted, InitialOK, IsPublic
<1>4. CASE \E i \in DOMAIN events, t \in Ticks : AddAttempt(i, t)
  BY <1>4, DeliveringKeepsIInv
<1>5. CASE Project
  <2>1. /\ stage = "delivering" /\ UNCHANGED <<initial, events, attempts, cases>>
        /\ stage' = IF Accepted THEN "public" ELSE "refused"
    BY <1>5 DEF Project
  <2>2. cases' = <<>>
    BY <2>1 DEF IInv, IsPublic
  <2>3. CasesOK'
    BY <2>2, ContextualAssumption DEF CasesOK
  <2>4. IsPublic' => Accepted'
    BY <2>1 DEF IsPublic, Accepted, Materializes, EveryEventIsAttempted, EveryDeviceIsNamed,
                ExpectedRevision, Earlier
  <2>5. QED
    BY <2>1, <2>2, <2>3, <2>4 DEF IInv, Sorted, InitialOK, AttemptsOK
<1>6. CASE CompileCase
  BY <1>6, CompilingKeepsIInv
<1>7. CASE UNCHANGED vars
  <2>1. UNCHANGED <<stage, initial, events, attempts, cases>>
    BY <1>7 DEF vars
  <2>2. (\A x : CaseTruth(x)' = CaseTruth(x)) /\ (\A x : Raises(x)' = Raises(x))
    BY <2>1 DEF CaseTruth, CanonicalDecision, PresentedDecision, Raises, ActiveFacts, Canonical, Presented,
                Latest, Materializes, ExpectedRevision, Earlier
  <2>3. CasesOK' = CasesOK
    BY <2>1, <2>2 DEF CasesOK
  <2>4. (IsPublic => Accepted)' = (IsPublic => Accepted)
    BY <2>1 DEF IsPublic, Accepted, Materializes, EveryEventIsAttempted, EveryDeviceIsNamed,
                ExpectedRevision, Earlier
  <2>5. QED
    BY <2>1, <2>2, <2>3, <2>4 DEF IInv, Sorted, InitialOK, AttemptsOK, IsPublic
<1>8. QED
  BY <1>1, <1>2, <1>3, <1>4, <1>5, <1>6, <1>7 DEF Next

------------------------------------------------------------------------------
\* Every reachable package satisfies the inductive invariant.
THEOREM PackagesAreSound == Spec => []IInv
<1>1. Init => IInv
  BY InitIsInductive
<1>2. IInv /\ [Next]_vars => IInv'
  BY NextKeepsIInv
<1>3. QED
  BY <1>1, <1>2, PTL DEF Spec

\* What was presented of a key is the beginning of its history, or the replay raises
\* (contextual_access/replay.py).
THEOREM PresentationIsAPrefix == Spec => []PresentedIsAPrefix
<1>1. IInv => PresentedIsAPrefix
  BY PrefixFollows
<1>2. QED
  BY <1>1, PackagesAreSound, PTL

\* A decision is stale only over an event its policies read and its request met late or
\* too early (contextual_access/policy.py, replay.py).
THEOREM StalenessIsExplained == Spec => []StaleIsExplained
<1>1. IInv => StaleIsExplained
  BY StaleFollows
<1>2. QED
  BY <1>1, PackagesAreSound, PTL

\* The compiler raises only over a revision presented before one it follows.
THEOREM OnlyGapsRaise == Spec => []RaisedIsAGap
<1>1. IInv => RaisedIsAGap
  BY GapFollows
<1>2. QED
  BY <1>1, PackagesAreSound, PTL

\* Both directions: a prefix is presented, or there is a gap and the replay raises.
THEOREM PresentationStaysSound == Spec => []PresentationIsSound
<1>1. PresentedIsAPrefix /\ RaisedIsAGap => PresentationIsSound
  BY DEF PresentationIsSound
<1>2. QED
  BY <1>1, PresentationIsAPrefix, OnlyGapsRaise, PTL

-----------------------------------------------------------------------------
(***************************************************************************)
(* The external run.  Its invariant says where a report comes from: a plan *)
(* whose probes have names of their own, at most one well-formed           *)
(* observation of each, and, once scored, a finding made of each probe     *)
(* from observations that all match theirs.  The rest compares functions   *)
(* of one observation: the finding and the metrics of its control.         *)
(***************************************************************************)
NamesAreUnique == \A p, q \in plan : p.id = q.id => p = q

OneObservationEach ==
  /\ staged \subseteq {o \in Observations : WellFormed(o)}
  /\ \A x, y \in staged : x.probe = y.probe => x = y

RunInv ==
  /\ NamesAreUnique
  /\ OneObservationEach
  /\ phase = "scored" =>
       /\ \A o \in staged : ValidObservation(o)
       /\ report = [p \in plan |-> Finding(p)]

LEMMA RunInitInv == RunInit => RunInv
BY DEF RunInit, RunInv, NamesAreUnique, OneObservationEach

LEMMA StageKeepsRunInv ==
  ASSUME RunInv, NEW o \in Observations, Stage(o)
  PROVE  RunInv'
<1>1. NamesAreUnique'
  BY DEF RunInv, NamesAreUnique, Stage
<1>2. WellFormed(o) /\ staged' = staged \cup {o} /\ \A x \in staged : x.probe # o.probe
  BY DEF Stage
<1>3. OneObservationEach'
  BY <1>2 DEF RunInv, OneObservationEach, WellFormed
<1>4. phase' # "scored"
  BY DEF Stage
<1>5. QED
  BY <1>1, <1>3, <1>4 DEF RunInv

\* A finding depends on the package and the observations, a match on the plan.
LEMMA FindingsDependOn ==
  ASSUME UNCHANGED <<package, plan, staged>>
  PROVE  /\ \A p : Finding(p)' = Finding(p)
         /\ \A o : ValidObservation(o)' = ValidObservation(o)
BY DEF Finding, ObservationsOf, DecisionFinding, OtherPasses, Expected, ValidObservation

LEMMA RunNextInv == RunInv /\ [RunNext]_runVars => RunInv'
<1> SUFFICES ASSUME RunInv, [RunNext]_runVars PROVE RunInv'
  OBVIOUS
<1>1. CASE ValidatePlan
  BY <1>1 DEF ValidatePlan, RunInv, NamesAreUnique, OneObservationEach, WellFormed
<1>2. ASSUME NEW o \in Observations, Stage(o) PROVE RunInv'
  BY <1>2, StageKeepsRunInv
<1>3. CASE EvaluateRun
  <2>1. NamesAreUnique' /\ OneObservationEach'
    BY <1>3 DEF EvaluateRun, RunInv, NamesAreUnique, OneObservationEach, WellFormed
  <2>2. ASSUME phase' = "scored"
        PROVE  (\A o \in staged : ValidObservation(o))' /\ (report = [p \in plan |-> Finding(p)])'
    <3>1. (\A o \in staged : ValidObservation(o)) /\ report' = [p \in plan |-> Finding(p)]
      BY <1>3, <2>2 DEF EvaluateRun
    <3>2. UNCHANGED <<package, plan, staged>>
      BY <1>3 DEF EvaluateRun
    <3>3. QED
      BY <3>1, <3>2, FindingsDependOn
  <2>3. QED
    BY <2>1, <2>2 DEF RunInv
<1>4. CASE UNCHANGED runVars
  <2>1. UNCHANGED <<package, plan, coverage, staged, phase, report>>
    BY <1>4 DEF runVars
  <2>2. NamesAreUnique' /\ OneObservationEach'
    BY <2>1 DEF RunInv, NamesAreUnique, OneObservationEach, WellFormed
  <2>3. QED
    BY <2>1, <2>2, FindingsDependOn DEF RunInv
<1>5. QED
  BY <1>1, <1>2, <1>3, <1>4 DEF RunNext

\* In every run the report was made of what the run holds.
THEOREM RunInvariance == RunSpec => []RunInv
<1>1. QED
  BY RunInitInv, RunNextInv, PTL DEF RunSpec

\* A nonempty set of positions has a first one.
LEMMA FirstPosition ==
  ASSUME NEW S \in SUBSET Nat, S # {}
  PROVE  \E m \in S : \A k \in S : m <= k
<1>1. PICK m \in S : \A k \in S : <<k, m>> \notin OpToRel(<, Nat)
  BY WFMin, NatLessThanWellFounded, Zenon
<1>2. \A k \in S : ~ (k < m)
  BY <1>1, Zenon DEF OpToRel
<1>3. QED
  BY <1>2

\* What is staged of a probe is nothing, or one observation that matches it.
LEMMA WhatIsObserved ==
  ASSUME RunInv, phase = "scored", NEW p \in plan
  PROVE  \/ ObservationsOf(p) = {} /\ Finding(p) = Failing("missing_observation")
         \/ \E o \in Observations :
              /\ ObservationsOf(p) = {o} /\ o.control = p.control /\ MatchesProbe(o, p) /\ WellFormed(o)
              /\ Finding(p) = IF p.control = "access_decision" THEN DecisionFinding(p, o)
                              ELSE IF OtherPasses(p, o) THEN Passing ELSE Failing(p.control)
<1>1. CASE ObservationsOf(p) = {}
  BY <1>1 DEF Finding
<1>2. CASE ObservationsOf(p) # {}
  <2>1. PICK o \in ObservationsOf(p) : TRUE
    BY <1>2
  <2>2. o \in staged /\ o.probe = p.id /\ o \in Observations /\ WellFormed(o)
    BY <2>1 DEF ObservationsOf, RunInv, OneObservationEach
  <2>3. ObservationsOf(p) = {o}
    BY <2>1, <2>2 DEF ObservationsOf, RunInv, OneObservationEach
  <2>4. PICK q \in plan : o.probe = q.id /\ o.control = q.control /\ MatchesProbe(o, q)
    BY <2>2 DEF RunInv, ValidObservation
  <2>5. q = p
    BY <2>2, <2>4 DEF RunInv, NamesAreUnique
  <2>6. (CHOOSE x \in ObservationsOf(p) : TRUE) = o
    BY <2>3
  <2>7. QED
    BY <1>2, <2>2, <2>3, <2>4, <2>5, <2>6 DEF Finding
<1>3. QED
  BY <1>1, <1>2

LEMMA DeliveriesAgree ==
  ASSUME RunInv, phase = "scored", NEW p \in plan, p.control = "delivery_acceptance"
  PROVE  report[p].passed <=> p \in FeedDelayWithinBound \cap AcceptanceWithinBound
<1>1. report[p] = Finding(p)
  BY DEF RunInv
<1>2. CASE ObservationsOf(p) = {} /\ Finding(p) = Failing("missing_observation")
  BY <1>1, <1>2 DEF Failing, FeedDelayWithinBound
<1>3. ASSUME NEW o \in Observations,
             ObservationsOf(p) = {o}, o.control = p.control, WellFormed(o),
             Finding(p) = IF OtherPasses(p, o) THEN Passing ELSE Failing(p.control)
      PROVE  report[p].passed <=> p \in FeedDelayWithinBound \cap AcceptanceWithinBound
  <2>1. report[p].passed <=> OtherPasses(p, o)
    BY <1>1, <1>3 DEF Passing, Failing
  <2>2. o.projected <= o.issued /\ o.issued <= o.delivered
    BY <1>3 DEF WellFormed
  <2>3. OtherPasses(p, o) <=>
          /\ o.accepted /\ o.projected = Expected(p).effective /\ o.delivered = Expected(p).delivered
          /\ WithinFeedBound(Expected(p)) /\ o.elapsed <= AcceptanceBound
    BY DEF OtherPasses
  <2>4. p \in FeedDelayWithinBound <=>
          /\ o.projected = Expected(p).effective /\ o.delivered = Expected(p).delivered
          /\ WithinFeedBound(Expected(p))
    BY <1>3, <2>2 DEF FeedDelayWithinBound
  <2>5. p \in AcceptanceWithinBound <=> o.accepted /\ o.elapsed <= AcceptanceBound
    BY <1>3 DEF AcceptanceWithinBound
  <2>6. QED
    BY <2>1, <2>3, <2>4, <2>5
<1>4. QED
  BY <1>2, <1>3, WhatIsObserved

\* A finding of a decision, against the metrics of its control.
LEMMA DecisionsAgree ==
  ASSUME RunInv, phase = "scored", NEW p \in plan, p.control = "access_decision", p.trigger # Nothing
  PROVE  /\ report[p].passed => p \in DecisionAccuracy
         /\ p \in DecisionAccuracy /\ ~report[p].passed =>
              \E o \in ObservationsOf(p) :
                o.accepted_attempt # 1 \/ \E n \in Correct(o, Expected(p)) : o.attempts[n].elapsed > DecisionBound
         /\ report[p].censored =>
              \E o \in ObservationsOf(p) : o.accepted_attempt = 1 /\ Correct(o, Expected(p)) = {}
<1> DEFINE truth == Expected(p)
<1>1. report[p] = Finding(p)
  BY DEF RunInv
<1>2. truth.accepted_attempt = 1
  BY DEF Expected
<1>3. CASE ObservationsOf(p) = {} /\ Finding(p) = Failing("missing_observation")
  BY <1>1, <1>3 DEF Failing, DecisionAccuracy
<1>4. ASSUME NEW o \in Observations,
             ObservationsOf(p) = {o}, o.control = p.control, MatchesProbe(o, p), WellFormed(o),
             Finding(p) = DecisionFinding(p, o)
      PROVE  /\ report[p].passed => p \in DecisionAccuracy
             /\ p \in DecisionAccuracy /\ ~report[p].passed =>
                  o.accepted_attempt # 1 \/ \E n \in Correct(o, truth) : o.attempts[n].elapsed > DecisionBound
             /\ report[p].censored => o.accepted_attempt = 1 /\ Correct(o, truth) = {}
  <2>1. p \in DecisionAccuracy <=> Correct(o, truth) # {} /\ PoliciesReported(o, truth)
    BY <1>4 DEF DecisionAccuracy
  <2>2. CASE o.accepted_attempt # 1
    <3>1. Finding(p) = Failing("accepted_delivery_attempt_mismatch")
      BY <1>2, <1>4, <2>2 DEF DecisionFinding
    <3>2. QED
      BY <1>1, <2>2, <3>1 DEF Failing
  <2>3. CASE o.accepted_attempt = 1 /\ Correct(o, truth) = {}
    <3>1. Finding(p) = Censored("correct_post_acceptance_decision_not_observed")
      BY <1>2, <1>4, <2>3 DEF DecisionFinding
    <3>2. QED
      BY <1>1, <2>1, <2>3, <3>1 DEF Censored
  <2>4. CASE o.accepted_attempt = 1 /\ Correct(o, truth) # {}
    <3> DEFINE first == CHOOSE n \in Correct(o, truth) : \A m \in Correct(o, truth) : n <= m
    <3>1. Correct(o, truth) \subseteq Nat /\ DecisionBound \in Nat
      BY <1>4, LatencyAssumption DEF LatenciesAreNatural, Correct
    <3>2. \E n \in Correct(o, truth) : \A m \in Correct(o, truth) : n <= m
      BY <2>4, <3>1, FirstPosition
    <3>3. first \in Correct(o, truth)
      BY <3>2
    <3>4. first \in DOMAIN o.attempts
      BY <3>3 DEF Correct
    <3>5. o.trigger # Nothing
      BY <1>4 DEF MatchesProbe
    <3>6. o.attempts[first].elapsed # Nothing
      BY <1>4, <3>4, <3>5 DEF WellFormed
    <3>7. o.attempts[first].elapsed \in Nat
      BY <1>4, <3>4, <3>6, LatencyAssumption DEF LatenciesAreNatural
    <3>8. FirstCorrect(o, truth) = o.attempts[first]
      BY DEF FirstCorrect
    <3>9. Finding(p) = IF o.attempts[first].elapsed <= DecisionBound /\ PoliciesReported(o, truth)
                       THEN Passing ELSE Failing("post_acceptance_decision_bound_or_policy_failed")
      BY <1>2, <1>4, <2>4, <3>8 DEF DecisionFinding
    <3>10. ~report[p].censored
           /\ (report[p].passed <=> o.attempts[first].elapsed <= DecisionBound /\ PoliciesReported(o, truth))
      BY <1>1, <3>9 DEF Passing, Failing
    <3>11. ~(o.attempts[first].elapsed <= DecisionBound) => o.attempts[first].elapsed > DecisionBound
      BY <3>1, <3>7
    <3>12. QED
      BY <2>1, <2>4, <3>3, <3>10, <3>11
  <2>5. QED
    BY <2>2, <2>3, <2>4
<1>5. QED
  BY <1>3, <1>4, WhatIsObserved

\* Nothing but a decision that follows an event is ever right-censored.
LEMMA OnlyTransitionsAreCensored ==
  ASSUME RunInv, phase = "scored", NEW p \in plan, report[p].censored
  PROVE  p.control = "access_decision" /\ p.trigger # Nothing
<1>1. report[p] = Finding(p)
  BY DEF RunInv
<1>2. ~Passing.censored /\ \A code : ~Failing(code).censored
  BY DEF Passing, Failing
<1>3. PICK o : Finding(p) = IF p.control = "access_decision" THEN DecisionFinding(p, o)
                            ELSE IF OtherPasses(p, o) THEN Passing ELSE Failing(p.control)
  BY <1>1, <1>2, WhatIsObserved
<1>4. p.control = "access_decision"
  BY <1>1, <1>2, <1>3
<1>5. p.trigger # Nothing
  BY <1>1, <1>2, <1>3, <1>4 DEF DecisionFinding
<1>6. QED
  BY <1>4, <1>5

\* Two families of functions that share no code tell the same story of an external run,
\* whatever its plan, its package and what the system under test reports
\* (protocol.py, _score_truth_row and _independent_run_metrics).
THEOREM FindingsMatchMetrics == RunSpec => []FindingsAgreeWithMetrics
<1>1. ASSUME RunInv, phase = "scored"
      PROVE  FindingsAgreeWithMetrics
  <2>1. {p \in plan : p.control = "delivery_acceptance" /\ report[p].passed}
          = FeedDelayWithinBound \cap AcceptanceWithinBound
    <3>1. \A p \in FeedDelayWithinBound : p \in plan /\ p.control = "delivery_acceptance"
      BY DEF FeedDelayWithinBound
    <3>2. QED
      BY <1>1, <3>1, DeliveriesAgree
  <2>2. Propagation \subseteq DecisionAccuracy
    BY <1>1, DecisionsAgree DEF Propagation
  <2>3. ASSUME NEW p \in DecisionAccuracy \ Propagation, p.trigger # Nothing
        PROVE  \E o \in ObservationsOf(p) :
                 o.accepted_attempt # 1 \/ \E n \in Correct(o, Expected(p)) : o.attempts[n].elapsed > DecisionBound
    <3>1. p \in plan /\ p.control = "access_decision" /\ ~report[p].passed
      BY <2>3 DEF DecisionAccuracy, Propagation
    <3>2. QED
      BY <1>1, <2>3, <3>1, DecisionsAgree
  <2>4. ASSUME NEW p \in plan, report[p].censored
        PROVE  p.trigger # Nothing /\ \E o \in ObservationsOf(p) : o.accepted_attempt = 1 /\ Correct(o, Expected(p)) = {}
    BY <1>1, <2>4, OnlyTransitionsAreCensored, DecisionsAgree
  <2>5. QED
    BY <2>1, <2>2, <2>3, <2>4 DEF FindingsAgreeWithMetrics
<1>2. RunInv => FindingsAgreeWithMetrics
  BY <1>1 DEF FindingsAgreeWithMetrics
<1>3. QED
  BY <1>2, RunInvariance, PTL
=============================================================================
