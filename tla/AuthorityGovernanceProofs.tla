---------------------- MODULE AuthorityGovernanceProofs ----------------------
(***************************************************************************)
(* The decision that controls a change, for every history.  It is chosen   *)
(* as the last one; that there is a last one rests on the validation, by   *)
(* which the decisions of a change are ordered as their ids are, and these *)
(* are bounded numbers that name one decision each.  The inductive         *)
(* invariant says this, and that what is public was validated.             *)
(*                                                                         *)
(* Then the replay: the enactments of a history have distinct places in    *)
(* time, InOrder lists each of them once and the earlier one first, and    *)
(* the fold goes through the list place by place, so that what an          *)
(* authority is rests on the last enactment that concerns it.              *)
(*                                                                         *)
(* Last the reference package: its rows, read once, say of each change     *)
(* when and by what it was decided; the lookups find the events the rows   *)
(* give, whatever stands beside them in the log.                           *)
(***************************************************************************)
EXTENDS AuthorityGovernance, GovernanceReference, FiniteSetTheorems, FunctionTheorems, WellFoundedInduction, TLAPS

EventsOK ==
  /\ \A e \in events : e.tick \in Nat
  /\ \A c \in Changes, d \in events : d \in Decisions(c) => d.id \in DecisionIds(c)
  /\ \A c \in Changes, d, e \in events :
       d \in Decisions(c) /\ e \in Decisions(c) /\ d.id = e.id => d = e

IInv == EventsOK /\ (Public => \A c \in Changes : ValidCase(c))

\* A bounded set of numbers has a largest one.
LEMMA LargestOfBounded ==
  ASSUME NEW n \in Nat, NEW S \in SUBSET (0..n), S # {}
  PROVE  \E m \in S : \A k \in S : k <= m
<1> DEFINE T == {n - k : k \in S}
<1>1. \A k \in S : k \in Nat /\ n - k \in Nat
  OBVIOUS
<1>2. T \subseteq Nat /\ T # {}
  BY <1>1
<1>3. PICK x \in T : \A y \in T : ~(<<y, x>> \in OpToRel(<, Nat))
  BY <1>2, NatLessThanWellFounded, WFMin
<1>4. PICK m \in S : x = n - m
  BY <1>3
<1>5. ASSUME NEW k \in S PROVE k <= m
  <2>1. n - k \in T
    OBVIOUS
  <2>2. ~(n - k < x)
    BY <2>1, <1>1, <1>2, <1>3 DEF OpToRel
  <2>3. QED
    BY <1>1, <1>4, <2>2
<1>6. QED
  BY <1>5

\* The decisions of a valid case have a last one.
LEMMA LastDecisionExists ==
  ASSUME IInv, NEW c \in Changes, ValidCase(c), Decisions(c) # {}
  PROVE  \E d \in Decisions(c) : \A e \in Decisions(c) : e = d \/ Before(e, d)
<1> DEFINE ids == {d.id : d \in Decisions(c)}
           n == 10 * c + 1 + MaxDecisions
<1>1. c \in Nat /\ MaxDecisions \in Nat /\ Decisions(c) \subseteq events
  BY GovernanceAssumption DEF Decisions, Of
<1>2. \A d \in Decisions(c) : d.id \in 0..n
  <2> SUFFICES ASSUME NEW d \in Decisions(c)
               PROVE  d.id \in 0..n
    OBVIOUS
  <2>1. PICK k \in 2..1 + MaxDecisions : d.id = 10 * c + k
    BY <1>1 DEF IInv, EventsOK, DecisionIds
  <2>2. QED
    BY <1>1, <2>1
<1>3. n \in Nat /\ ids \in SUBSET (0..n) /\ ids # {}
  BY <1>1, <1>2
<1>4. PICK m \in ids : \A k \in ids : k <= m
  BY <1>3, LargestOfBounded
<1>5. PICK d \in Decisions(c) : d.id = m
  BY <1>4
<1>6. ASSUME NEW e \in Decisions(c) PROVE e = d \/ Before(e, d)
  <2>1. e.id <= d.id /\ e.id \in Nat /\ d.id \in Nat
    BY <1>2, <1>4, <1>5
  <2>2. CASE e.id = d.id
    BY <1>1, <2>2 DEF IInv, EventsOK
  <2>3. CASE e.id < d.id
    BY <2>3 DEF ValidCase, PhasesAreOrdered
  <2>4. QED
    BY <2>1, <2>2, <2>3
<1>7. QED
  BY <1>6

LEMMA ControlFollows ==
  ASSUME IInv
  PROVE  ControllingDecisionIsTheLastBefore
<1> SUFFICES ASSUME Public, NEW c \in Changes, NEW n \in Of(c, "enactment")
             PROVE  /\ Before(ControllingDecision(c), n)
                    /\ ~\E e \in Decisions(c) : Before(ControllingDecision(c), e) /\ Before(e, n)
  BY DEF ControllingDecisionIsTheLastBefore
<1> DEFINE d == ControllingDecision(c)
<1>1. ValidCase(c)
  BY DEF IInv
<1>2. Decisions(c) # {}
  BY <1>1 DEF ValidCase, DecisionIsKnown
<1>3. d \in Decisions(c) /\ \A e \in Decisions(c) : e = d \/ Before(e, d)
  BY <1>1, <1>2, LastDecisionExists DEF ControllingDecision
<1>4. Before(d, n)
  BY <1>1, <1>3 DEF ValidCase, PhasesAreOrdered
<1>5. ASSUME NEW e \in Decisions(c), Before(d, e) PROVE FALSE
  <2>1. /\ d \in events /\ e \in events
        /\ d \in Decisions(c)
    BY <1>3 DEF Decisions, Of
  <2>2. d.tick \in Nat /\ e.tick \in Nat /\ d.id \in DecisionIds(c) /\ e.id \in DecisionIds(c)
    BY <2>1 DEF IInv, EventsOK
  <2>3. d.id \in Int /\ e.id \in Int
    BY <2>2, GovernanceAssumption DEF DecisionIds
  <2>4. CASE e = d
    BY <1>5, <2>2, <2>3, <2>4 DEF Before
  <2>5. CASE Before(e, d)
    BY <1>5, <2>2, <2>3, <2>5 DEF Before
  <2>6. QED
    BY <1>3, <2>4, <2>5
<1>6. QED
  BY <1>4, <1>5

------------------------------------------------------------------------------
\* An event that is not a decision leaves the decisions alone.
LEMMA OtherEventKeepsIInv ==
  ASSUME IInv, NEW e, e.tick \in Nat, e.type # "decision", Record(e), stage = "recording"
  PROVE  IInv'
<1>1. events' = events \cup {e} /\ stage' = stage
  BY DEF Record
<1>2. \A c : Decisions(c)' = Decisions(c)
  BY <1>1 DEF Decisions, Of
<1>3. EventsOK'
  BY <1>1, <1>2 DEF IInv, EventsOK, Decisions, Of, DecisionIds
<1>4. QED
  BY <1>1, <1>3 DEF IInv, Public

LEMMA DecideKeepsIInv ==
  ASSUME IInv, NEW c \in Changes, NEW t \in Ticks, NEW verdict \in Verdicts, NEW id \in DecisionIds(c),
         Decide(c, t, id, verdict)
  PROVE  IInv'
<1> DEFINE e == [type |-> "decision", change |-> c, tick |-> t, id |-> id, outcome |-> verdict.outcome,
                 policy |-> verdict.policy, rules |-> verdict.rules, mandates |-> verdict.mandates]
<1>1. e.type = "decision" /\ e.change = c /\ e.tick = t /\ e.id = id
  OBVIOUS
<1> HIDE DEF e
<1>2. events' = events \cup {e} /\ stage' = stage /\ stage = "recording"
  BY DEF Decide, Recording, Record, e
<1>3. \A d \in Decisions(c) : d.id # id
  BY DEF Decide
<1>4. t \in Nat
  BY GovernanceAssumption DEF Ticks
<1>5. \A b : Decisions(b)' = IF b = c THEN Decisions(c) \cup {e} ELSE Decisions(b)
  BY <1>1, <1>2 DEF Decisions, Of
<1>6. EventsOK'
  <2>1. \A f \in events' : f.tick \in Nat
    BY <1>1, <1>2, <1>4 DEF IInv, EventsOK
  <2>2. \A b \in Changes, d \in events' : d \in Decisions(b)' => d.id \in DecisionIds(b)
    <3> SUFFICES ASSUME NEW b \in Changes, NEW d \in Decisions(b)'
                 PROVE  d.id \in DecisionIds(b)
      OBVIOUS
    <3>1. CASE d \in Decisions(b)
      BY <3>1 DEF IInv, EventsOK, Decisions, Of
    <3>2. CASE b = c /\ d = e
      BY <1>1, <3>2
    <3>3. QED
      BY <1>5, <3>1, <3>2
  <2>3. ASSUME NEW b \in Changes, NEW d \in Decisions(b)', NEW f \in Decisions(b)', d.id = f.id
        PROVE  d = f
    <3>1. CASE d \in Decisions(b) /\ f \in Decisions(b)
      BY <2>3, <3>1 DEF IInv, EventsOK, Decisions, Of
    <3>2. CASE b = c /\ d \in Decisions(c) /\ f = e
      BY <1>1, <1>3, <2>3, <3>2
    <3>3. CASE b = c /\ d = e /\ f \in Decisions(c)
      BY <1>1, <1>3, <2>3, <3>3
    <3>4. CASE d = e /\ f = e
      BY <3>4
    <3>5. QED
      BY <1>5, <3>1, <3>2, <3>3, <3>4
  <2>4. QED
    BY <2>1, <2>2, <2>3 DEF EventsOK, DecisionIds
<1>7. QED
  BY <1>2, <1>6 DEF IInv, Public

LEMMA NextKeepsIInv ==
  ASSUME IInv, [Next]_vars
  PROVE  IInv'
<1>0. Ticks \subseteq Nat
  BY GovernanceAssumption DEF Ticks
<1>1. ASSUME NEW c \in Changes, NEW t \in Ticks, Request(c, t) PROVE IInv'
  BY <1>0, <1>1, OtherEventKeepsIInv DEF Request, Recording
<1>2. ASSUME NEW c \in Changes, NEW t \in Ticks, Audit(c, t) PROVE IInv'
  BY <1>0, <1>2, OtherEventKeepsIInv DEF Audit, Recording
<1>3. ASSUME NEW c \in Changes, NEW t \in Ticks, NEW verdict \in Verdicts, NEW id \in DecisionIds(c),
             Decide(c, t, id, verdict)
      PROVE  IInv'
  BY <1>3, DecideKeepsIInv
<1>4. ASSUME NEW c \in Changes, NEW t \in Ticks, NEW after \in AfterStates, NEW id \in DecisionIds(c),
             EnactChange(c, t, id, after)
      PROVE  IInv'
  BY <1>0, <1>4, OtherEventKeepsIInv DEF EnactChange, Recording
<1>5. CASE Validate
  <2>1. events' = events /\ stage' = IF \A c \in Changes : ValidCase(c) THEN "public" ELSE "rejected"
    BY <1>5 DEF Validate
  <2>2. (\A c : Decisions(c)' = Decisions(c)) /\ (\A c : ValidCase(c)' = ValidCase(c))
    BY <2>1 DEF Decisions, Of, ValidCase, PhasesAreOrdered, DecisionIsKnown, ReferencesAreKnown
  <2>3. EventsOK'
    BY <2>1, <2>2 DEF IInv, EventsOK, DecisionIds
  <2>4. QED
    BY <2>1, <2>2, <2>3 DEF IInv, Public
<1>6. CASE UNCHANGED vars
  <2>1. events' = events /\ stage' = stage
    BY <1>6 DEF vars
  <2>2. (\A c : Decisions(c)' = Decisions(c)) /\ (\A c : ValidCase(c)' = ValidCase(c))
    BY <2>1 DEF Decisions, Of, ValidCase, PhasesAreOrdered, DecisionIsKnown, ReferencesAreKnown
  <2>3. QED
    BY <2>1, <2>2 DEF IInv, EventsOK, DecisionIds, Public
<1>7. QED
  BY <1>1, <1>2, <1>3, <1>4, <1>5, <1>6 DEF Next

\* Every reachable history is well formed, and a public one is valid in each of its cases.
THEOREM HistoriesAreSound == Spec => []IInv
<1>1. Init => IInv
  BY DEF Init, IInv, EventsOK, Decisions, Of, Public
<1>2. IInv /\ [Next]_vars => IInv'
  BY NextKeepsIInv
<1>3. QED
  BY <1>1, <1>2, PTL DEF Spec

\* Of a public history, the decision that controls a change precedes its enactment, and
\* no decision comes between (authority_governance/replay.py, models.py).
THEOREM ControlIsOfTheLastDecision == Spec => []ControllingDecisionIsTheLastBefore
<1>1. IInv => ControllingDecisionIsTheLastBefore
  BY ControlFollows
<1>2. QED
  BY <1>1, HistoriesAreSound, PTL

------------------------------------------------------------------------------
(* The fold of a sequence of enactments. *)

\* A set of natural numbers that is not empty has a least one.
LEMMA LeastNumber ==
  ASSUME NEW T \in SUBSET Nat, T # {}
  PROVE  \E x \in T : \A y \in T : x <= y
<1>1. PICK x \in T : \A y \in T : <<y, x>> \notin OpToRel(<, Nat)
  BY WFMin, NatLessThanWellFounded, Zenon
<1>2. \A y \in T : ~ (y < x)
  BY <1>1, Zenon DEF OpToRel
<1>3. QED
  BY <1>2

\* The last of a set of numbers that has n is n.
LEMMA MaxIsLast ==
  ASSUME NEW n \in Nat, NEW s \in SUBSET (1..n), n \in s
  PROVE  Max(s) = n
<1>1. \A x \in s : n >= x
  OBVIOUS
<1>2. \A x \in s : (\A y \in s : x >= y) => x = n
  OBVIOUS
<1>3. QED
  BY <1>1, <1>2 DEF Max

\* What FoldLeft does at each set of places.
Folding(seq, D, g) ==
  g = [s \in SUBSET D |-> IF s = {} THEN InitialState ELSE Enact(g[s \ {Max(s)}], seq[Max(s)])]

LEMMA FoldUnfolds ==
  ASSUME NEW seq
  PROVE  FoldLeft(Enact, InitialState, seq) = (CHOOSE g : Folding(seq, DOMAIN seq, g))[DOMAIN seq]
BY Zenon DEF FoldLeft, MapThenFoldSet, Folding

LEMMA FoldExists ==
  ASSUME NEW seq, NEW N \in Nat
  PROVE  \E g : Folding(seq, 1..N, g)
<1> DEFINE Bad == {n \in Nat : ~ \E g : Folding(seq, 1..n, g)}
<1> SUFFICES ASSUME Bad # {} PROVE FALSE
  OBVIOUS
<1>1. PICK n \in Bad : \A k \in Bad : n <= k
  BY LeastNumber
<1>2. CASE n = 0
  <2> DEFINE g == [s \in SUBSET (1..0) |-> InitialState]
  <2>1. 1..0 = {}
    OBVIOUS
  <2>2. Folding(seq, 1..n, g)
    BY <1>2, <2>1 DEF Folding
  <2>3. QED
    BY <1>1, <2>2
<1>3. CASE n # 0
  <2>1. n - 1 \in Nat /\ n \in Nat /\ n - 1 \notin Bad
    BY <1>1, <1>3
  <2>2. PICK g : Folding(seq, 1..(n - 1), g)
    BY <2>1
  <2> DEFINE h == [s \in SUBSET (1..n) |-> IF n \in s THEN Enact(g[s \ {n}], seq[n]) ELSE g[s]]
  <2>3. ASSUME NEW s \in SUBSET (1..n)
        PROVE  h[s] = IF s = {} THEN InitialState ELSE Enact(h[s \ {Max(s)}], seq[Max(s)])
    <3>1. CASE n \in s
      <4>1. Max(s) = n /\ s # {} /\ n \notin s \ {n} /\ s \ {n} \in SUBSET (1..n)
        BY <2>1, <3>1, MaxIsLast
      <4>2. h[s \ {n}] = g[s \ {n}]
        BY <4>1
      <4>3. h[s] = Enact(g[s \ {n}], seq[n])
        BY <3>1
      <4> HIDE DEF h
      <4>4. QED
        BY <4>1, <4>2, <4>3
    <3>2. CASE n \notin s
      <4>0. \A x \in s : x \in 1..(n - 1)
        BY <2>1, <3>2
      <4>1. s \in SUBSET (1..(n - 1)) /\ s \ {Max(s)} \in SUBSET (1..n) /\ n \notin s \ {Max(s)}
        BY <3>2, <4>0
      <4>2. h[s] = g[s] /\ h[s \ {Max(s)}] = g[s \ {Max(s)}]
        BY <3>2, <4>1
      <4>3. g[s] = IF s = {} THEN InitialState ELSE Enact(g[s \ {Max(s)}], seq[Max(s)])
        BY <2>2, <4>1 DEF Folding
      <4> HIDE DEF h
      <4>4. QED
        BY <4>2, <4>3
    <3>3. QED
      BY <3>1, <3>2
  <2>4. Folding(seq, 1..n, h)
    <3>1. h = [s \in SUBSET (1..n) |-> h[s]]
      OBVIOUS
    <3> HIDE DEF h
    <3>2. [s \in SUBSET (1..n) |-> h[s]]
            = [s \in SUBSET (1..n) |-> IF s = {} THEN InitialState ELSE Enact(h[s \ {Max(s)}], seq[Max(s)])]
      BY <2>3, Zenon
    <3>3. QED
      BY <3>1, <3>2, Zenon DEF Folding
  <2>5. QED
    BY <1>1, <2>4
<1>4. QED
  BY <1>2, <1>3

\* FoldLeft goes through the sequence from its first place to its last.
LEMMA FoldGoesOn ==
  ASSUME NEW seq, NEW N \in Nat, DOMAIN seq = 1..N
  PROVE  \E st : /\ st[0] = InitialState
                 /\ \A k \in 1..N : st[k] = Enact(st[k - 1], seq[k])
                 /\ FoldLeft(Enact, InitialState, seq) = st[N]
<1> DEFINE g == CHOOSE f : Folding(seq, 1..N, f)
           st == [k \in 0..N |-> g[1..k]]
<1>1. Folding(seq, 1..N, g)
  BY FoldExists
<1>2. FoldLeft(Enact, InitialState, seq) = g[1..N]
  BY FoldUnfolds
<1> HIDE DEF g
<1>3. st[0] = InitialState
  <2>1. g[{}] = InitialState
    BY <1>1 DEF Folding
  <2>2. 1..0 = {} /\ 0 \in 0..N
    OBVIOUS
  <2>3. QED
    BY <2>1, <2>2
<1>4. ASSUME NEW k \in 1..N PROVE st[k] = Enact(st[k - 1], seq[k])
  <2>1. 1..k \in SUBSET (1..N) /\ 1..k # {} /\ k \in 1..k /\ k \in Nat
    OBVIOUS
  <2>2. Max(1..k) = k
    BY <2>1, MaxIsLast
  <2>3. (1..k) \ {k} = 1..(k - 1)
    OBVIOUS
  <2>4. g[1..k] = Enact(g[(1..k) \ {Max(1..k)}], seq[Max(1..k)])
    BY <1>1, <2>1 DEF Folding
  <2>5. k \in 0..N /\ k - 1 \in 0..N
    OBVIOUS
  <2>6. st[k] = g[1..k] /\ st[k - 1] = g[1..(k - 1)]
    BY <2>5
  <2> HIDE DEF st
  <2>7. QED
    BY <2>2, <2>3, <2>4, <2>6
<1>5. N \in 0..N
  OBVIOUS
<1>6. QED
  BY <1>2, <1>3, <1>4, <1>5

------------------------------------------------------------------------------
(* Events in order. *)

\* Distinct places in time.
Ordered(S) ==
  /\ IsFiniteSet(S)
  /\ \A e \in S : e.tick \in Nat /\ e.id \in Nat
  /\ \A e, f \in S : e.id = f.id => e = f

Earlier(S, e) == {f \in S : Before(f, e)}

LEMMA IntervalCounts ==
  ASSUME NEW N \in Nat
  PROVE  IsFiniteSet(0..(N - 1)) /\ Cardinality(0..(N - 1)) = N
<1>1. \A a, b \in Int : IsFiniteSet(a..b) /\ Cardinality(a..b) = IF a > b THEN 0 ELSE b - a + 1
  BY FS_Interval, Zenon
<1>2. ASSUME NEW a \in Int, NEW b \in Int, a = 0, b = N - 1
      PROVE  IsFiniteSet(a..b) /\ Cardinality(a..b) = N
  <2>1. Cardinality(a..b) = IF a > b THEN 0 ELSE b - a + 1
    BY <1>1, Zenon
  <2>2. (IF a > b THEN 0 ELSE b - a + 1) = N
    BY <1>2
  <2>3. QED
    BY <1>1, <2>1, <2>2, Zenon
<1>3. 0 \in Int /\ N - 1 \in Int
  OBVIOUS
<1>4. QED
  BY <1>2, <1>3, Zenon

LEMMA BeforeIsAnOrder ==
  ASSUME NEW S, Ordered(S)
  PROVE  /\ \A e \in S : ~Before(e, e)
         /\ \A e, f \in S : e = f \/ Before(e, f) \/ Before(f, e)
         /\ \A e, f, g \in S : Before(e, f) /\ Before(f, g) => Before(e, g)
BY DEF Ordered, Before

LEMMA RanksAreOrdered ==
  ASSUME NEW S, Ordered(S)
  PROVE  /\ Cardinality(S) \in Nat
         /\ \A e \in S : Cardinality(Earlier(S, e)) \in 0..(Cardinality(S) - 1)
         /\ \A e, f \in S : Before(e, f) <=> Cardinality(Earlier(S, e)) < Cardinality(Earlier(S, f))
         /\ \A e, f \in S : Cardinality(Earlier(S, e)) = Cardinality(Earlier(S, f)) => e = f
<1>1. IsFiniteSet(S) /\ Cardinality(S) \in Nat
  BY FS_CardinalityType DEF Ordered
<1>2. ASSUME NEW e \in S
      PROVE  IsFiniteSet(Earlier(S, e)) /\ Cardinality(Earlier(S, e)) \in 0..(Cardinality(S) - 1)
             /\ Cardinality(Earlier(S, e)) \in Nat
  <2>1. Earlier(S, e) \in SUBSET S /\ e \notin Earlier(S, e)
    BY BeforeIsAnOrder DEF Earlier
  <2>2. /\ IsFiniteSet(Earlier(S, e)) /\ Cardinality(Earlier(S, e)) <= Cardinality(S)
        /\ Cardinality(S) # Cardinality(Earlier(S, e))
    BY <1>1, <2>1, FS_Subset
  <2>3. Cardinality(Earlier(S, e)) \in Nat
    BY <2>2, FS_CardinalityType
  <2>4. QED
    BY <1>1, <2>2, <2>3
<1>3. ASSUME NEW e \in S, NEW f \in S, Before(e, f)
      PROVE  Cardinality(Earlier(S, e)) < Cardinality(Earlier(S, f))
  <2>1. Earlier(S, e) \in SUBSET Earlier(S, f)
    BY <1>3, BeforeIsAnOrder DEF Earlier
  <2>2. e \in Earlier(S, f) /\ e \notin Earlier(S, e)
    BY <1>3, BeforeIsAnOrder DEF Earlier
  <2>3. /\ Cardinality(Earlier(S, e)) <= Cardinality(Earlier(S, f))
        /\ Cardinality(Earlier(S, f)) # Cardinality(Earlier(S, e))
    BY <1>2, <2>1, <2>2, FS_Subset
  <2>4. QED
    BY <1>2, <2>3
<1>4. ASSUME NEW e \in S, NEW f \in S
      PROVE  /\ Before(e, f) <=> Cardinality(Earlier(S, e)) < Cardinality(Earlier(S, f))
             /\ Cardinality(Earlier(S, e)) = Cardinality(Earlier(S, f)) => e = f
  <2>1. e = f \/ Before(e, f) \/ Before(f, e)
    BY BeforeIsAnOrder
  <2>2. Cardinality(Earlier(S, e)) \in Nat /\ Cardinality(Earlier(S, f)) \in Nat
    BY <1>2
  <2>3. e = f => ~Before(e, f)
    BY BeforeIsAnOrder
  <2>4. QED
    BY <1>3, <2>1, <2>2, <2>3
<1>5. QED
  BY <1>1, <1>2, <1>4

\* InOrder lists every event once, and the earlier one first.
LEMMA InOrderLists ==
  ASSUME NEW S, Ordered(S)
  PROVE  LET N == Cardinality(S)
             order == InOrder(S)
         IN  /\ N \in Nat /\ DOMAIN order = 1..N
             /\ \A i \in 1..N : order[i] \in S
             /\ \A e \in S : \E i \in 1..N : order[i] = e
             /\ \A i, j \in 1..N : Before(order[i], order[j]) <=> i < j
<1> DEFINE N == Cardinality(S)
           order == InOrder(S)
           rank == [e \in S |-> Cardinality(Earlier(S, e))]
<1>1. N \in Nat /\ DOMAIN order = 1..N
  BY RanksAreOrdered DEF InOrder
<1>2. rank \in [S -> 0..(N - 1)] /\ \A e, f \in S : rank[e] = rank[f] => e = f
  BY RanksAreOrdered
<1>3. rank \in Injection(S, 0..(N - 1))
  BY <1>2, Fun_IsInj
<1>4. IsFiniteSet(0..(N - 1)) /\ Cardinality(0..(N - 1)) = N
  BY <1>1, IntervalCounts
<1>5. rank \in Surjection(S, 0..(N - 1))
  BY <1>3, <1>4, FS_Injection
<1>6. \A k \in 0..(N - 1) : \E e \in S : rank[e] = k
  BY <1>5 DEF Surjection
<1>7. ASSUME NEW i \in 1..N
      PROVE  order[i] \in S /\ Cardinality(Earlier(S, order[i])) = i - 1
  <2>1. i - 1 \in 0..(N - 1)
    BY <1>1
  <2>2. \E e \in S : Cardinality(Earlier(S, e)) = i - 1
    BY <1>6, <2>1
  <2>3. order[i] = CHOOSE e \in S : Cardinality(Earlier(S, e)) = i - 1
    BY DEF InOrder, Earlier
  <2> HIDE DEF order
  <2>4. QED
    BY <2>2, <2>3
<1>8. ASSUME NEW e \in S
      PROVE  \E i \in 1..N : order[i] = e
  <2>1. PICK i \in 1..N : i - 1 = Cardinality(Earlier(S, e))
    <3>1. Cardinality(Earlier(S, e)) \in 0..(N - 1)
      BY RanksAreOrdered
    <3>2. Cardinality(Earlier(S, e)) + 1 \in 1..N /\ (Cardinality(Earlier(S, e)) + 1) - 1 = Cardinality(Earlier(S, e))
      BY <1>1, <3>1
    <3>3. QED
      BY <3>2
  <2>2. order[i] = e
    BY <1>7, <2>1, RanksAreOrdered
  <2>3. QED
    BY <2>2
<1>9. ASSUME NEW i \in 1..N, NEW j \in 1..N
      PROVE  Before(order[i], order[j]) <=> i < j
  <2>1. Before(order[i], order[j]) <=> i - 1 < j - 1
    BY <1>7, RanksAreOrdered
  <2>2. QED
    BY <1>1, <2>1
<1>10. QED
  BY <1>1, <1>7, <1>8, <1>9

------------------------------------------------------------------------------
(* The replay of enactments. *)

\* An enactment sets what it concerns and nothing else.
LEMMA EnactConcerns ==
  ASSUME NEW state, NEW n, NEW a \in Authorities
  PROVE  Enact(state, n)[a] = IF a \in DOMAIN n.after THEN n.after[a]
                              ELSE IF Concerns(n, a) THEN None ELSE state[a]
BY DEF Enact, Concerns

\* The states of a replay, one after the other.
Replays(order, N, st) == \A k \in 1..N : st[k] = Enact(st[k - 1], order[k])
UnconcernedAfter(order, N, j, a) == \A k \in 1..N : j < k => ~Concerns(order[k], a)

\* Enactments that do not concern an authority leave it as it was.
LEMMA UnconcernedStretch ==
  ASSUME NEW N \in Nat, NEW order, NEW st, NEW a \in Authorities, NEW j \in 0..N,
         Replays(order, N, st), UnconcernedAfter(order, N, j, a)
  PROVE  st[N][a] = st[j][a]
<1> DEFINE Bad == {k \in Nat : j <= k /\ k <= N /\ st[k][a] # st[j][a]}
<1> SUFFICES ASSUME Bad # {} PROVE FALSE
  OBVIOUS
<1>1. PICK k \in Bad : \A i \in Bad : k <= i
  BY LeastNumber
<1>2. k # j /\ k \in 1..N /\ j < k /\ k - 1 \in Nat /\ k - 1 \notin Bad /\ j <= k - 1 /\ k - 1 <= N
  BY <1>1
<1>3. st[k - 1][a] = st[j][a]
  BY <1>2
<1>4. ~Concerns(order[k], a) /\ st[k] = Enact(st[k - 1], order[k])
  BY <1>2 DEF Replays, UnconcernedAfter
<1>5. st[k][a] = st[k - 1][a]
  BY <1>4, EnactConcerns DEF Concerns
<1>6. QED
  BY <1>1, <1>3, <1>5

LEMMA ReplayKeepsTheLast ==
  ASSUME NEW S, Ordered(S), NEW a \in Authorities
  PROVE  LET concerned == {n \in S : Concerns(n, a)}
             result == FoldLeft(Enact, InitialState, InOrder(S))
         IN  IF concerned = {} THEN result[a] = InitialState[a]
             ELSE \E n \in concerned :
                    /\ \A m \in concerned : m = n \/ Before(m, n)
                    /\ result[a] = IF a \in DOMAIN n.after THEN n.after[a] ELSE None
<1> DEFINE N == Cardinality(S)
           order == InOrder(S)
           concerned == {n \in S : Concerns(n, a)}
           result == FoldLeft(Enact, InitialState, order)
           places == {k \in 1..N : Concerns(order[k], a)}
<1>1. /\ N \in Nat /\ DOMAIN order = 1..N
      /\ \A i \in 1..N : order[i] \in S
      /\ \A e \in S : \E i \in 1..N : order[i] = e
      /\ \A i, j \in 1..N : Before(order[i], order[j]) <=> i < j
  BY InOrderLists
<1> HIDE DEF N, order
<1>2. PICK st : /\ st[0] = InitialState
                /\ Replays(order, N, st)
                /\ result = st[N]
  BY <1>1, FoldGoesOn DEF Replays
<1> HIDE DEF result
<1>3. CASE places = {}
  <2>1. concerned = {}
    BY <1>1, <1>3
  <2>2. 0 \in 0..N /\ UnconcernedAfter(order, N, 0, a)
    BY <1>1, <1>3 DEF UnconcernedAfter
  <2>3. result[a] = InitialState[a]
    BY <1>1, <1>2, <2>2, UnconcernedStretch
  <2>4. QED
    BY <2>1, <2>3 DEF result, order
<1>4. CASE places # {}
  <2>1. places \in SUBSET (0..N)
    OBVIOUS
  <2>2. PICK j \in places : \A k \in places : k <= j
    BY <1>1, <1>4, <2>1, LargestOfBounded
  <2>3. j \in 1..N /\ j \in 0..N /\ Concerns(order[j], a) /\ order[j] \in concerned
    BY <1>1, <2>2
  <2>4. \A m \in concerned : m = order[j] \/ Before(m, order[j])
    <3>1. SUFFICES ASSUME NEW m \in concerned PROVE m = order[j] \/ Before(m, order[j])
      OBVIOUS
    <3>2. PICK i \in 1..N : order[i] = m
      BY <1>1, <3>1
    <3>3. i \in places
      BY <3>1, <3>2
    <3>4. i <= j
      BY <2>2, <3>3
    <3>5. CASE i = j
      BY <3>2, <3>5
    <3>6. CASE i < j
      BY <1>1, <2>3, <3>2, <3>6
    <3>7. QED
      BY <1>1, <2>3, <3>4, <3>5, <3>6
  <2>5. UnconcernedAfter(order, N, j, a)
    BY <1>1, <2>2 DEF UnconcernedAfter
  <2>6. st[N][a] = st[j][a]
    <3>1. N \in Nat /\ j \in 0..N /\ Replays(order, N, st) /\ UnconcernedAfter(order, N, j, a)
      BY <1>1, <1>2, <2>3, <2>5
    <3> HIDE DEF places, concerned
    <3>2. QED
      BY <3>1, UnconcernedStretch
  <2>7. st[j] = Enact(st[j - 1], order[j])
    BY <1>2, <2>3 DEF Replays
  <2>8. st[j][a] = IF a \in DOMAIN order[j].after THEN order[j].after[a] ELSE None
    BY <2>3, <2>7, EnactConcerns
  <2>9. result[a] = IF a \in DOMAIN order[j].after THEN order[j].after[a] ELSE None
    BY <1>2, <2>6, <2>8
  <2>10. concerned # {}
    BY <2>3
  <2>11. \E n \in concerned :
           /\ \A m \in concerned : m = n \/ Before(m, n)
           /\ result[a] = IF a \in DOMAIN n.after THEN n.after[a] ELSE None
    BY <2>3, <2>4, <2>9
  <2>12. QED
    BY <2>10, <2>11 DEF result, order
<1>5. QED
  BY <1>3, <1>4

------------------------------------------------------------------------------
(* The enactments of a history: finitely many, one of a change, each at its place. *)

IsEnactment(e) == e.type = "enactment"

EnactmentsOK ==
  /\ IsFiniteSet(events)
  /\ \A n \in events : IsEnactment(n) => n.change \in Changes /\ n.id = EnactmentId(n.change)
  /\ \A n, m \in events : IsEnactment(n) /\ IsEnactment(m) /\ n.change = m.change => n = m

LEMMA RecordedStaysOK ==
  ASSUME EnactmentsOK, NEW e, Record(e),
         IsEnactment(e) => /\ e.change \in Changes /\ e.id = EnactmentId(e.change)
                           /\ Of(e.change, "enactment") = {}
  PROVE  EnactmentsOK'
<1>1. events' = events \cup {e}
  BY DEF Record
<1>2. IsFiniteSet(events')
  BY <1>1, FS_AddElement DEF EnactmentsOK
<1>3. QED
  BY <1>1, <1>2 DEF EnactmentsOK, Of, IsEnactment, EnactmentId

LEMMA EnactmentsStayOK == EnactmentsOK /\ [Next]_vars => EnactmentsOK'
<1> SUFFICES ASSUME EnactmentsOK, [Next]_vars PROVE EnactmentsOK'
  OBVIOUS
<1>1. ASSUME NEW c \in Changes, NEW t \in Ticks, NEW after \in AfterStates, NEW id \in DecisionIds(c),
             EnactChange(c, t, id, after)
      PROVE  EnactmentsOK'
  BY <1>1, RecordedStaysOK DEF EnactChange
<1>2. ASSUME NEW c \in Changes, NEW t \in Ticks, Request(c, t) \/ Audit(c, t)
      PROVE  EnactmentsOK'
  BY <1>2, RecordedStaysOK DEF Request, Audit, IsEnactment
<1>3. ASSUME NEW c \in Changes, NEW t \in Ticks, NEW verdict \in Verdicts, NEW id \in DecisionIds(c),
             Decide(c, t, id, verdict)
      PROVE  EnactmentsOK'
  BY <1>3, RecordedStaysOK DEF Decide, IsEnactment
<1>4. CASE Validate \/ UNCHANGED vars
  <2>1. events' = events
    BY <1>4 DEF Validate, vars
  <2>2. QED
    BY <2>1 DEF EnactmentsOK, IsEnactment, EnactmentId
<1>5. QED
  BY <1>1, <1>2, <1>3, <1>4 DEF Next

LEMMA EnactmentsAreOrdered ==
  ASSUME IInv, EnactmentsOK, NEW t
  PROVE  Ordered(EnactmentsBy(t))
<1>1. EnactmentsBy(t) \in SUBSET events
  BY DEF EnactmentsBy
<1>2. IsFiniteSet(EnactmentsBy(t))
  BY <1>1, FS_Subset DEF EnactmentsOK
<1>3. \A n \in EnactmentsBy(t) : IsEnactment(n) /\ n.tick \in Nat
  BY <1>1 DEF EnactmentsBy, IsEnactment, IInv, EventsOK
<1>4. \A n \in EnactmentsBy(t) : n.change \in Nat /\ n.id = 10 * n.change + 8
  BY <1>1, <1>3, GovernanceAssumption DEF EnactmentsOK, EnactmentId
<1>5. \A n \in EnactmentsBy(t) : n.id \in Nat
  BY <1>4
<1>6. ASSUME NEW n \in EnactmentsBy(t), NEW m \in EnactmentsBy(t), n.id = m.id
      PROVE  n = m
  <2>1. n.change = m.change
    BY <1>4, <1>6
  <2>2. QED
    BY <1>1, <1>3, <2>1 DEF EnactmentsOK
<1>7. QED
  BY <1>2, <1>3, <1>5, <1>6 DEF Ordered

\* At any tick of a public history an authority is what the last enactment that concerns it
\* made of it, in whatever order the changes were recorded (authority_governance/replay.py:182-210).
THEOREM TheLastEnactmentWins == Spec => []LastEnactmentWins
<1>1. Init => EnactmentsOK
  BY FS_EmptySet DEF Init, EnactmentsOK
<1>2. IInv /\ EnactmentsOK => LastEnactmentWins
  <2> SUFFICES ASSUME IInv, EnactmentsOK, NEW t \in Ticks, NEW a \in Authorities
               PROVE  LET concerned == {n \in EnactmentsBy(t) : Concerns(n, a)} IN
                      IF concerned = {} THEN AuthoritiesAt(t)[a] = InitialState[a]
                      ELSE \E n \in concerned :
                             /\ \A m \in concerned : m = n \/ Before(m, n)
                             /\ AuthoritiesAt(t)[a] = IF a \in DOMAIN n.after THEN n.after[a] ELSE None
    BY DEF LastEnactmentWins
  <2>1. Ordered(EnactmentsBy(t))
    BY EnactmentsAreOrdered
  <2>2. QED
    BY <2>1, ReplayKeepsTheLast DEF AuthoritiesAt
<1>3. QED
  BY <1>1, <1>2, EnactmentsStayOK, HistoriesAreSound, PTL DEF Spec

------------------------------------------------------------------------------
(* The reference package: what its rows say of each of the twelve changes. *)

\* The tick of the decision that controls a change.
DecidedAt(c) == Cases[c].ticks[2] + (IF Conflicting(c) THEN 1 ELSE 0)

TicksOK(c) ==
  LET s == Cases[c] IN
  /\ \A i \in 1..4 : s.ticks[i] \in Nat
  /\ s.ticks[1] < s.ticks[2] /\ DecidedAt(c) < s.ticks[3] /\ s.ticks[3] < s.ticks[4]
  /\ c = 8 => s.ticks[4] >= 85

RulingOK(c) ==
  LET s == Cases[c] IN
  /\ s.policy \in {1, 2} /\ (s.policy = 1 <=> DecidedAt(c) < 70)
  /\ s.rule \in {"deny", "standard", "emergency"}
  /\ s.rule = "emergency" => s.policy = 1 /\ ExceptionOf(c) = "emergency-05"
  /\ s.rule # "emergency" => ExceptionOf(c) = Unset
  /\ s.mandates \subseteq {"emergency", "expired", "valid"}

MandateOK(c) ==
  LET s == Cases[c] IN
  s.approver_authorised <=>
       \E m \in ReferenceMandates :
         /\ m.from <= DecidedAt(c) /\ (m.until = Unset \/ DecidedAt(c) < m.until)
         /\ m.id \in s.mandates /\ m.approver = s.approver
         /\ s.type \in m.types /\ s.affected \in m.affected

VerdictOK(c) ==
  LET s == Cases[c] IN
  s.authorised <=>
       (/\ s.outcome \in {"approved", "partial"} /\ s.rule # "deny"
        /\ s.approver_authorised /\ CanonicalSupersedes(c) = Unset)

FlagsOK(c) ==
  /\ Cases[c].authorised = TRUE \/ Cases[c].authorised = FALSE
  /\ Cases[c].approver_authorised = TRUE \/ Cases[c].approver_authorised = FALSE

RowOK(c) == TicksOK(c) /\ RulingOK(c) /\ MandateOK(c) /\ VerdictOK(c) /\ FlagsOK(c)

LEMMA ChangesAreTwelve == ReferenceChanges = 1..12
BY DEF ReferenceChanges, Cases

\* One row at a time, so that a leaf has the fields of a single row to look at.
LEMMA RowsAreOK == \A c \in ReferenceChanges : RowOK(c)
<1>1. Cases[1] = Spec12("grant", 1, <<1, 2, 3, 4>>, 3, Granted,
                        "approved", ByStandard1, Valid, <<TRUE, TRUE, TRUE>>)
  BY DEF Cases
<1>2. Cases[2] = Spec12("grant", 2, <<11, 12, 13, 14>>, 13, Granted,
                        "approved", ByStandard1, <<"wrong", {}>>, <<FALSE, FALSE, TRUE>>)
  BY DEF Cases
<1>3. Cases[3] = Spec12("attenuate", 3, <<21, 22, 23, 24>>, 23, <<"broad", "narrow", "narrow", "broad">>,
                        "partial", ByStandard1, Valid, <<TRUE, TRUE, FALSE>>)
  BY DEF Cases
<1>4. Cases[4] = Spec12("grant", 4, <<31, 32, 33, 34>>, 33, <<Unset, "narrow", Unset, "narrow">>,
                        "denied", <<1, "deny">>, Valid, <<FALSE, TRUE, FALSE>>)
  BY DEF Cases
<1>5. Cases[5] = Spec12("grant", 5, <<41, 42, 43, 44>>, 43, <<Unset, "timed", "timed", "timed">>,
                        "approved", <<1, "emergency">>, <<"emergency", {"emergency"}>>, <<TRUE, TRUE, TRUE>>)
  BY DEF Cases
<1>6. Cases[6] = Spec12("grant", 6, <<56, 60, 61, 62>>, 61, Granted,
                        "approved", ByStandard1, <<"expired", {"expired"}>>, <<FALSE, FALSE, TRUE>>)
  BY DEF Cases
<1>7. Cases[7] = Spec12("grant", 7, <<64, 65, 66, 75>>, 66, Granted,
                        "approved", ByStandard1, Valid, <<TRUE, TRUE, TRUE>>)
  BY DEF Cases
<1>8. Cases[8] = Spec12("grant", 8, <<76, 77, 78, 90>>, 78, Granted,
                        "approved", ByStandard2, Valid, <<TRUE, TRUE, TRUE>>)
  BY DEF Cases
<1>9. Cases[9] = Spec12("supersede", 1, <<91, 92, 93, 94>>, 93, <<"narrow", "changed", "changed", "changed">>,
                        "approved", ByStandard2, Valid, <<FALSE, TRUE, TRUE>>)
  BY DEF Cases
<1>10. Cases[10] = Spec12("revoke", 10, <<100, 101, 108, 110>>, 102, <<"broad", Unset, Unset, Unset>>,
                          "approved", ByStandard2, Valid, <<TRUE, TRUE, FALSE>>)
  BY DEF Cases
<1>11. Cases[11] = Spec12("grant", 11, <<111, 112, 114, 115>>, 114, <<Unset, "narrow", Unset, "narrow">>,
                          "denied", <<2, "deny">>, Valid, <<FALSE, TRUE, FALSE>>)
  BY DEF Cases
<1>12. Cases[12] = Spec12("grant", 12, <<121, 122, 123, 124>>, 123, Granted,
                          "approved", <<2, "deny">>, Valid, <<FALSE, TRUE, TRUE>>)
  BY DEF Cases
<1> USE ReferenceAssumption
    DEF RowOK, TicksOK, RulingOK, MandateOK, VerdictOK, FlagsOK, ExceptionOf, DecidedAt, Conflicting,
        CanonicalSupersedes, Spec12, ByStandard1, ByStandard2, Valid, Granted, ReferenceMandates
<1>13. RowOK(1)
  BY <1>1
<1>14. RowOK(2)
  BY <1>2
<1>15. RowOK(3)
  BY <1>3
<1>16. RowOK(4)
  BY <1>4
<1>17. RowOK(5)
  BY <1>5
<1>18. RowOK(6)
  BY <1>6
<1>19. RowOK(7)
  BY <1>7
<1>20. RowOK(8)
  BY <1>8
<1>21. RowOK(9)
  BY <1>9
<1>22. RowOK(10)
  BY <1>10
<1>23. RowOK(11)
  BY <1>11
<1>24. RowOK(12)
  BY <1>12
<1> HIDE DEF RowOK
<1>25. QED
  BY <1>13, <1>14, <1>15, <1>16, <1>17, <1>18, <1>19, <1>20, <1>21, <1>22, <1>23, <1>24, ChangesAreTwelve

------------------------------------------------------------------------------
(* What the lookups find of a change in the log of the package. *)

LogIsOfTheCases == log = UNION {EventsForCase(c) : c \in ReferenceChanges}

RequestOf(c) ==
  [type |-> "request", change |-> c, tick |-> Cases[c].ticks[1], id |-> History!RequestId(c), before |-> Cases[c].before]

EnactmentOf(c) ==
  [type |-> "enactment", change |-> c, tick |-> Cases[c].ticks[3], id |-> History!EnactmentId(c),
   decision |-> 10 * c + 2, after |-> AfterOf(c, Cases[c].enacted)]

\* The decision that controls a change: the second where two conflict.
LastDecision(c) ==
  DecisionEvent(c, 10 * c + (IF Conflicting(c) THEN 3 ELSE 2), DecidedAt(c),
                Cases[c].outcome, Cases[c].rule, Cases[c].approved)

LEMMA EventsOfCase ==
  ASSUME LogIsOfTheCases, NEW c \in ReferenceChanges
  PROVE  /\ History!Decisions(c) = DecisionEvents(c)
         /\ History!Of(c, "request") = {RequestOf(c)}
         /\ History!Of(c, "enactment") = {EnactmentOf(c)}
         /\ History!Of(c, "audit") = {AuditEvent(c)}
<1>1. \A d \in ReferenceChanges :
        EventsForCase(d) = DecisionEvents(d) \cup {RequestOf(d), EnactmentOf(d), AuditEvent(d)}
  BY DEF EventsForCase, RequestOf, EnactmentOf
<1>2. \A d \in ReferenceChanges : \A e \in DecisionEvents(d) : e.change = d /\ e.type = "decision"
  BY DEF DecisionEvents, DecisionEvent
<1>3. \A d \in ReferenceChanges :
        /\ RequestOf(d).change = d /\ RequestOf(d).type = "request"
        /\ EnactmentOf(d).change = d /\ EnactmentOf(d).type = "enactment"
        /\ AuditEvent(d).change = d /\ AuditEvent(d).type = "audit"
  BY DEF RequestOf, EnactmentOf, AuditEvent
<1>4. \A e : e \in log <=> \E d \in ReferenceChanges :
        e \in DecisionEvents(d) \/ e = RequestOf(d) \/ e = EnactmentOf(d) \/ e = AuditEvent(d)
  BY <1>1 DEF LogIsOfTheCases
<1>5. History!Decisions(c) = DecisionEvents(c)
  BY <1>2, <1>3, <1>4 DEF History!Decisions, History!Of
<1>6. History!Of(c, "request") = {RequestOf(c)}
  BY <1>2, <1>3, <1>4 DEF History!Of
<1>7. History!Of(c, "enactment") = {EnactmentOf(c)}
  BY <1>2, <1>3, <1>4 DEF History!Of
<1>8. History!Of(c, "audit") = {AuditEvent(c)}
  BY <1>2, <1>3, <1>4 DEF History!Of
<1>9. QED
  BY <1>5, <1>6, <1>7, <1>8

\* The decisions of a change are two where they conflict, and the later one is the last.
LEMMA DecisionsOfCase ==
  ASSUME NEW c \in ReferenceChanges
  PROVE  /\ LastDecision(c) \in DecisionEvents(c)
         /\ \A d \in DecisionEvents(c) :
              /\ d.tick \in Nat /\ Cases[c].ticks[1] < d.tick /\ d.tick <= DecidedAt(c)
              /\ d = LastDecision(c) \/ d.tick < DecidedAt(c)
<1>1. TicksOK(c) /\ Cases[c].ticks[2] \in Nat
  BY RowsAreOK DEF RowOK, TicksOK
<1>2. CASE Conflicting(c)
  <2>1. DecidedAt(c) = Cases[c].ticks[2] + 1
    BY <1>2 DEF DecidedAt
  <2>2. DecisionEvents(c) =
          {DecisionEvent(c, 10 * c + 2, Cases[c].ticks[2], "approved", "standard", Cases[c].requested), LastDecision(c)}
    BY <1>2, <2>1 DEF DecisionEvents, LastDecision
  <2>3. LastDecision(c).tick = DecidedAt(c)
    BY DEF LastDecision, DecisionEvent
  <2>4. QED
    BY <1>1, <2>1, <2>2, <2>3 DEF DecisionEvent, TicksOK
<1>3. CASE ~Conflicting(c)
  <2>1. DecidedAt(c) = Cases[c].ticks[2]
    BY <1>1, <1>3 DEF DecidedAt
  <2>2. DecisionEvents(c) = {LastDecision(c)}
    BY <1>3, <2>1 DEF DecisionEvents, LastDecision
  <2>3. LastDecision(c).tick = DecidedAt(c)
    BY DEF LastDecision, DecisionEvent
  <2>4. QED
    BY <1>1, <2>1, <2>2, <2>3 DEF TicksOK
<1>4. QED
  BY <1>2, <1>3

LEMMA ControlOfCase ==
  ASSUME LogIsOfTheCases, NEW c \in ReferenceChanges
  PROVE  /\ History!ControllingDecision(c) = LastDecision(c)
         /\ LastDecision(c).tick = DecidedAt(c) /\ DecidedAt(c) \in Nat
<1> DEFINE L == LastDecision(c)
<1>1. L.tick = DecidedAt(c)
  BY DEF LastDecision, DecisionEvent
<1>2. /\ History!Decisions(c) = DecisionEvents(c) /\ L \in DecisionEvents(c) /\ DecidedAt(c) \in Nat
      /\ \A d \in DecisionEvents(c) : d.tick \in Nat /\ (d = L \/ d.tick < DecidedAt(c))
  BY <1>1, EventsOfCase, DecisionsOfCase
<1> HIDE DEF L
<1>3. \A e \in DecisionEvents(c) : e = L \/ History!Before(e, L)
  BY <1>1, <1>2 DEF History!Before
<1>4. \A d \in DecisionEvents(c) : (\A e \in DecisionEvents(c) : e = d \/ History!Before(e, d)) => d = L
  BY <1>1, <1>2 DEF History!Before
<1>5. History!ControllingDecision(c) = L
  BY <1>2, <1>3, <1>4 DEF History!ControllingDecision
<1>6. QED
  BY <1>1, <1>2, <1>5 DEF L

------------------------------------------------------------------------------
(* Verdicts of their time. *)

\* The version in force when a change was decided is the one its decision names.
LEMMA PolicyOfItsTime ==
  ASSUME NEW c \in ReferenceChanges
  PROVE  {p.id : p \in History!ActivePolicies(DecidedAt(c))} = {Cases[c].policy}
<1>1. RulingOK(c) /\ DecidedAt(c) \in Nat
  BY RowsAreOK, DecisionsOfCase DEF RowOK, LastDecision, DecisionEvent
<1>2. 70 # Unset
  BY ReferenceAssumption
<1>3. \A p \in ReferencePolicies :
        \/ p.id = 1 /\ p.from = 0 /\ p.until = 70
        \/ p.id = 2 /\ p.from = 70 /\ p.until = Unset
  BY DEF ReferencePolicies
<1>4. (\E p \in ReferencePolicies : p.id = 1) /\ (\E p \in ReferencePolicies : p.id = 2)
  BY DEF ReferencePolicies
<1>5. \A p \in ReferencePolicies : p \in History!ActivePolicies(DecidedAt(c)) <=> p.id = Cases[c].policy
  BY <1>1, <1>2, <1>3 DEF History!ActivePolicies, History!ActiveAt, RulingOK
<1>6. \E p \in ReferencePolicies : p.id = Cases[c].policy
  BY <1>1, <1>4 DEF RulingOK
<1>7. QED
  BY <1>5, <1>6 DEF History!ActivePolicies

\* The rule a decision names permits unless it is the one that denies, and only that for
\* emergencies has an exception.
LEMMA RuleOfItsDecision ==
  ASSUME LogIsOfTheCases, NEW c \in ReferenceChanges
  PROVE  /\ RuleOf(c).effect = "permit" <=> Cases[c].rule # "deny"
         /\ Cases[c].rule = "emergency" => "emergency-05" \in RuleOf(c).exceptions
<1> DEFINE d == LastDecision(c)
           rules == UNION {p.rules : p \in {q \in ReferencePolicies : q.id = Cases[c].policy}}
<1>1. RulingOK(c)
  BY RowsAreOK DEF RowOK
<1>2. d.policy = Cases[c].policy /\ d.rules = {Cases[c].rule}
  BY DEF LastDecision, DecisionEvent
<1>3. RuleOf(c) = CHOOSE r \in rules : r.id = Cases[c].rule
  BY <1>2, ControlOfCase DEF RuleOf
<1>4. \E r \in rules : r.id = Cases[c].rule
  <2>1. \A id \in {"deny", "standard", "emergency"} : \E p \in ReferencePolicies :
          p.id = 1 /\ \E r \in p.rules : r.id = id
    BY DEF ReferencePolicies
  <2>2. \A id \in {"deny", "standard"} : \E p \in ReferencePolicies : p.id = 2 /\ \E r \in p.rules : r.id = id
    BY DEF ReferencePolicies
  <2>3. \E p \in ReferencePolicies : p.id = Cases[c].policy /\ \E r \in p.rules : r.id = Cases[c].rule
    BY <1>1, <2>1, <2>2 DEF RulingOK
  <2>4. QED
    BY <2>3
<1>5. \A r \in rules :
        /\ r.effect = "permit" <=> r.id # "deny"
        /\ r.id = "emergency" => "emergency-05" \in r.exceptions
  BY DEF ReferencePolicies
<1>6. RuleOf(c) \in rules /\ RuleOf(c).id = Cases[c].rule
  BY <1>3, <1>4
<1> HIDE DEF rules
<1>7. /\ RuleOf(c).effect = "permit" <=> RuleOf(c).id # "deny"
      /\ RuleOf(c).id = "emergency" => "emergency-05" \in RuleOf(c).exceptions
  BY <1>5, <1>6
<1>8. QED
  BY <1>6, <1>7

LEMMA ApproverOfItsTime ==
  ASSUME LogIsOfTheCases, NEW c \in ReferenceChanges
  PROVE  ApproverIsMandated(c) <=> Cases[c].approver_authorised
<1> DEFINE d == LastDecision(c)
<1>1. MandateOK(c)
  BY RowsAreOK DEF RowOK
<1>2. d.mandates = Cases[c].mandates /\ d.approver = Cases[c].approver /\ d.tick = DecidedAt(c)
  BY DEF LastDecision, DecisionEvent
<1>3. ReferenceRequested[c].type = Cases[c].type /\ ReferenceRequested[c].affected = Cases[c].affected
  BY DEF ReferenceRequested
<1>4. ApproverIsMandated(c) <=>
        \E m \in History!ActiveMandates(DecidedAt(c)) :
          /\ m.id \in Cases[c].mandates /\ m.approver = Cases[c].approver
          /\ Cases[c].type \in m.types /\ Cases[c].affected \in m.affected
  BY <1>2, <1>3, ControlOfCase DEF ApproverIsMandated
<1>5. QED
  BY <1>1, <1>4 DEF MandateOK, History!ActiveMandates, History!ActiveAt

LEMMA EvidenceOfItsTime ==
  ASSUME LogIsOfTheCases, NEW c \in ReferenceChanges, NEW a \in History!Of(c, "audit")
  PROVE  /\ a.retained = {ref \in RequiredEvidence(c) : History!ActiveAt(EvidenceRecord(ref), a.tick)}
         /\ TruthRow(c).reconstructable = (a.retained = RequiredEvidence(c))
<1>1. TicksOK(c) /\ c \in 1..12
  BY RowsAreOK, ChangesAreTwelve DEF RowOK
<1>2. a = AuditEvent(c)
  BY EventsOfCase
<1>3. a.tick = Cases[c].ticks[4] /\ a.tick \in Nat /\ Cases[c].ticks[1] \in Nat /\ Cases[c].ticks[1] <= a.tick
  <2>1. a.tick = Cases[c].ticks[4]
    BY <1>2 DEF AuditEvent
  <2>2. \A i \in 1..4 : Cases[c].ticks[i] \in Nat
    BY <1>1 DEF TicksOK
  <2>3. Cases[c].ticks[1] < DecidedAt(c) /\ DecidedAt(c) \in Nat
    BY DecisionsOfCase, ControlOfCase
  <2>4. QED
    BY <1>1, <2>1, <2>2, <2>3 DEF TicksOK
<1>4. a.retained = RequiredEvidence(c) \ (IF c # 8 THEN {} ELSE {<<c, "approval">>})
  BY <1>2 DEF AuditEvent, Reconstructable
<1>5. \A ref \in RequiredEvidence(c) : ref[1] = c /\ ref = <<c, ref[2]>>
  BY DEF RequiredEvidence
<1>6. \A ref \in RequiredEvidence(c) :
        History!ActiveAt(EvidenceRecord(ref), a.tick) <=> ~(c = 8 /\ ref = <<c, "approval">>)
  <2> SUFFICES ASSUME NEW ref \in RequiredEvidence(c)
               PROVE  History!ActiveAt(EvidenceRecord(ref), a.tick) <=> ~(c = 8 /\ ref = <<c, "approval">>)
    OBVIOUS
  <2>1. EvidenceRecord(ref).from = Cases[c].ticks[1]
    BY <1>5 DEF EvidenceRecord
  <2>2. EvidenceRecord(ref).until = IF ref = <<8, "approval">> THEN 85 ELSE Unset
    BY DEF EvidenceRecord
  <2>3. c = 8 => a.tick >= 85
    BY <1>1, <1>3 DEF TicksOK
  <2>4. 85 # Unset
    BY ReferenceAssumption
  <2>5. ref = <<8, "approval">> <=> c = 8 /\ ref = <<c, "approval">>
    BY <1>5
  <2>6. QED
    BY <1>3, <2>1, <2>2, <2>3, <2>4, <2>5 DEF History!ActiveAt
<1>7. <<c, "approval">> \in RequiredEvidence(c)
  BY DEF RequiredEvidence
<1>8. TruthRow(c).reconstructable = (c # 8)
  BY DEF TruthRow, Reconstructable
<1>9. QED
  BY <1>4, <1>6, <1>7, <1>8

LEMMA VerdictsFollow == LogIsOfTheCases => VerdictsAreOfTheirTime
<1> SUFFICES ASSUME LogIsOfTheCases, NEW c \in ReferenceChanges
             PROVE  LET d == LastDecision(c) IN
                    /\ {p.id : p \in History!ActivePolicies(d.tick)} = {TruthRow(c).policy}
                    /\ TruthRow(c).approver_authorised = ApproverIsMandated(c)
                    /\ TruthRow(c).authorised =
                         (/\ d.outcome \in {"approved", "partial"}
                          /\ RuleOf(c).effect = "permit"
                          /\ d.exception = Unset \/ d.exception \in RuleOf(c).exceptions
                          /\ ApproverIsMandated(c)
                          /\ ObservedSupersedes(c) = CanonicalSupersedes(c))
  BY ControlOfCase, EvidenceOfItsTime DEF VerdictsAreOfTheirTime
<1> DEFINE d == LastDecision(c)
<1>1. RulingOK(c) /\ VerdictOK(c) /\ FlagsOK(c)
  BY RowsAreOK DEF RowOK
<1>2. d.tick = DecidedAt(c) /\ d.outcome = Cases[c].outcome /\ d.exception = ExceptionOf(c)
  BY DEF LastDecision, DecisionEvent
<1>3. /\ TruthRow(c).policy = Cases[c].policy /\ TruthRow(c).authorised = Cases[c].authorised
      /\ TruthRow(c).approver_authorised = Cases[c].approver_authorised
  BY DEF TruthRow
<1>4. {p.id : p \in History!ActivePolicies(d.tick)} = {TruthRow(c).policy}
  BY <1>2, <1>3, PolicyOfItsTime
<1>5. TruthRow(c).approver_authorised = ApproverIsMandated(c)
  <2>1. CASE Cases[c].approver_authorised = TRUE
    BY <1>3, <2>1, ApproverOfItsTime
  <2>2. CASE Cases[c].approver_authorised = FALSE
    <3>1. ApproverIsMandated(c) = FALSE
      BY <2>2, ApproverOfItsTime
    <3>2. TruthRow(c).approver_authorised = FALSE
      BY <1>3, <2>2
    <3>3. QED
      BY <3>1, <3>2, Zenon
  <2>3. QED
    BY <1>1, <2>1, <2>2 DEF FlagsOK
<1>6. (d.exception = Unset \/ d.exception \in RuleOf(c).exceptions)
  BY <1>1, <1>2, RuleOfItsDecision DEF RulingOK
<1>7. Cases[c].authorised <=>
        (/\ d.outcome \in {"approved", "partial"}
         /\ RuleOf(c).effect = "permit"
         /\ d.exception = Unset \/ d.exception \in RuleOf(c).exceptions
         /\ ApproverIsMandated(c)
         /\ ObservedSupersedes(c) = CanonicalSupersedes(c))
  BY <1>1, <1>2, <1>6, RuleOfItsDecision, ApproverOfItsTime DEF VerdictOK, ObservedSupersedes
<1>8. QED
  BY <1>1, <1>3, <1>4, <1>5, <1>7 DEF FlagsOK

------------------------------------------------------------------------------
(* The package is accepted. *)

LEMMA RulesAreKnown ==
  ASSUME NEW c \in ReferenceChanges, NEW id \in {"standard", Cases[c].rule}
  PROVE  \E p \in ReferencePolicies : p.id = Cases[c].policy /\ \E r \in p.rules : r.id = id
<1>1. RulingOK(c)
  BY RowsAreOK DEF RowOK
<1>2. \A k \in {"deny", "standard", "emergency"} : \E p \in ReferencePolicies : p.id = 1 /\ \E r \in p.rules : r.id = k
  BY DEF ReferencePolicies
<1>3. \A k \in {"deny", "standard"} : \E p \in ReferencePolicies : p.id = 2 /\ \E r \in p.rules : r.id = k
  BY DEF ReferencePolicies
<1>4. QED
  BY <1>1, <1>2, <1>3 DEF RulingOK

LEMMA DecisionsAreKnown ==
  ASSUME NEW c \in ReferenceChanges
  PROVE  /\ \E d \in DecisionEvents(c) : d.id = 10 * c + 2
         /\ \A d \in DecisionEvents(c) :
              d.policy = Cases[c].policy /\ d.mandates = Cases[c].mandates
              /\ d.rules \in {{"standard"}, {Cases[c].rule}}
         /\ \A d, e \in DecisionEvents(c) : d.id < e.id => History!Before(d, e)
<1>1. TicksOK(c) /\ Cases[c].ticks[2] \in Nat /\ c \in Nat
  <2>1. TicksOK(c)
    BY RowsAreOK DEF RowOK
  <2>2. Cases[c].ticks[2] \in Nat
    BY <2>1 DEF TicksOK
  <2>3. QED
    BY <2>1, <2>2, ChangesAreTwelve
<1>2. CASE Conflicting(c)
  <2> DEFINE first == DecisionEvent(c, 10 * c + 2, Cases[c].ticks[2], "approved", "standard", Cases[c].requested)
             second == DecisionEvent(c, 10 * c + 3, Cases[c].ticks[2] + 1, Cases[c].outcome, Cases[c].rule, Cases[c].approved)
  <2>1. DecisionEvents(c) = {first, second}
    BY <1>2 DEF DecisionEvents
  <2>2. /\ first.id = 10 * c + 2 /\ first.tick = Cases[c].ticks[2] /\ first.rules = {"standard"}
        /\ first.policy = Cases[c].policy /\ first.mandates = Cases[c].mandates
        /\ second.id = 10 * c + 3 /\ second.tick = Cases[c].ticks[2] + 1 /\ second.rules = {Cases[c].rule}
        /\ second.policy = Cases[c].policy /\ second.mandates = Cases[c].mandates
    BY DEF DecisionEvent
  <2> HIDE DEF first, second
  <2>3. QED
    BY <1>1, <2>1, <2>2 DEF History!Before
<1>3. CASE ~Conflicting(c)
  <2> DEFINE only == DecisionEvent(c, 10 * c + 2, Cases[c].ticks[2], Cases[c].outcome, Cases[c].rule, Cases[c].approved)
  <2>1. DecisionEvents(c) = {only}
    BY <1>3 DEF DecisionEvents
  <2>2. /\ only.id = 10 * c + 2 /\ only.rules = {Cases[c].rule}
        /\ only.policy = Cases[c].policy /\ only.mandates = Cases[c].mandates
    BY DEF DecisionEvent
  <2> HIDE DEF only
  <2>3. QED
    BY <1>1, <2>1, <2>2
<1>4. QED
  BY <1>2, <1>3

LEMMA CasesOfThePackageAreValid ==
  ASSUME LogIsOfTheCases, NEW c \in ReferenceChanges
  PROVE  History!ValidCase(c)
<1>1. TicksOK(c) /\ RulingOK(c) /\ \A i \in 1..4 : Cases[c].ticks[i] \in Nat
  BY RowsAreOK DEF RowOK, TicksOK
<1>2. /\ RequestOf(c).tick = Cases[c].ticks[1]
      /\ EnactmentOf(c).tick = Cases[c].ticks[3] /\ EnactmentOf(c).decision = 10 * c + 2
      /\ AuditEvent(c).tick = Cases[c].ticks[4]
  BY DEF RequestOf, EnactmentOf, AuditEvent
<1>3. DecidedAt(c) \in Nat
  BY ControlOfCase
<1>4. \A d \in DecisionEvents(c) : d.tick \in Nat /\ Cases[c].ticks[1] < d.tick /\ d.tick < Cases[c].ticks[3]
  BY <1>1, <1>3, DecisionsOfCase DEF TicksOK
<1>5. History!PhasesAreOrdered(c)
  BY <1>1, <1>2, <1>4, EventsOfCase, DecisionsAreKnown DEF History!PhasesAreOrdered, History!Before, TicksOK
<1>6. History!DecisionIsKnown(c)
  BY <1>2, EventsOfCase, DecisionsAreKnown DEF History!DecisionIsKnown
<1>7. ASSUME NEW d \in DecisionEvents(c)
      PROVE  /\ \E p \in ReferencePolicies : p.id = d.policy /\ d.rules \subseteq {r.id : r \in p.rules}
             /\ d.mandates \subseteq {m.id : m \in ReferenceMandates}
  <2>1. PICK id \in {"standard", Cases[c].rule} : d.rules = {id}
    BY DecisionsAreKnown
  <2>2. d.policy = Cases[c].policy /\ d.mandates = Cases[c].mandates
    BY DecisionsAreKnown
  <2>3. \E p \in ReferencePolicies : p.id = d.policy /\ d.rules \subseteq {r.id : r \in p.rules}
    BY <2>1, <2>2, RulesAreKnown
  <2>4. {"emergency", "expired", "valid"} \subseteq {m.id : m \in ReferenceMandates}
    BY DEF ReferenceMandates
  <2>5. QED
    BY <1>1, <2>2, <2>3, <2>4 DEF RulingOK
<1>8. History!ReferencesAreKnown(c)
  BY <1>7, EventsOfCase DEF History!ReferencesAreKnown
<1>9. QED
  BY <1>5, <1>6, <1>8 DEF History!ValidCase

LEMMA TruthsAreBound ==
  ASSUME LogIsOfTheCases, NEW c \in ReferenceChanges
  PROVE  TruthIsBound(c)
<1>1. TruthRow(c).controlling = LastDecision(c).id
  BY DEF TruthRow, LastDecision, DecisionEvent
<1>2. LastDecision(c) \in History!Decisions(c)
  BY EventsOfCase, DecisionsOfCase
<1>3. /\ TruthRow(c).policy = Cases[c].policy /\ TruthRow(c).rules = {Cases[c].rule}
      /\ TruthRow(c).supersedes = CanonicalSupersedes(c)
  BY DEF TruthRow
<1>4. CanonicalSupersedes(c) \in ReferenceChanges \cup {Unset}
  BY ChangesAreTwelve DEF CanonicalSupersedes
<1>5. QED
  BY <1>1, <1>2, <1>3, <1>4, RulesAreKnown DEF TruthIsBound

ReferenceInv == LogIsOfTheCases /\ standing \in {"recording", "public"}

LEMMA ReferenceKeepsLog == ReferenceInv /\ [ReferenceNext]_referenceVars => ReferenceInv'
<1> SUFFICES ASSUME ReferenceInv, [ReferenceNext]_referenceVars
             PROVE  ReferenceInv'
  OBVIOUS
<1>1. log' = log => LogIsOfTheCases'
  BY DEF ReferenceInv, LogIsOfTheCases
<1>2. CASE ReferenceValidate
  <2>1. \A c \in ReferenceChanges : History!ValidCase(c)
    BY CasesOfThePackageAreValid DEF ReferenceInv
  <2>2. QED
    BY <1>1, <1>2, <2>1 DEF ReferenceValidate, History!Validate, ReferenceInv
<1>3. CASE Advance
  BY <1>1, <1>3 DEF Advance, ReferenceInv
<1>4. CASE \E name \in Predictions : Evaluate(name)
  BY <1>1, <1>4 DEF Evaluate, ReferenceInv
<1>5. CASE UNCHANGED referenceVars
  BY <1>1, <1>5 DEF referenceVars, ReferenceInv
<1>6. QED
  BY <1>2, <1>3, <1>4, <1>5 DEF ReferenceNext

\* The reference package stays the log of its rows, the public validation rejects it never,
\* and the evaluator's truth refers to it (authority_governance/replay.py).
THEOREM ReferenceIsAccepted ==
  ReferenceSpec => [](ReferenceInv /\ \A c \in ReferenceChanges : TruthIsBound(c))
<1>1. ReferenceInit => ReferenceInv
  BY DEF ReferenceInit, ReferenceInv, LogIsOfTheCases
<1>2. ReferenceInv => \A c \in ReferenceChanges : TruthIsBound(c)
  BY TruthsAreBound DEF ReferenceInv
<1>3. QED
  BY <1>1, <1>2, ReferenceKeepsLog, PTL DEF ReferenceSpec

\* Each verdict of the truth is the one of the policies, mandates and evidence in force when
\* the change was decided or audited (authority_governance/reference.py).
THEOREM VerdictsStayOfTheirTime == ReferenceSpec => []VerdictsAreOfTheirTime
<1>1. ReferenceInv => VerdictsAreOfTheirTime
  BY VerdictsFollow DEF ReferenceInv
<1>2. QED
  BY <1>1, ReferenceIsAccepted, PTL

------------------------------------------------------------------------------
(* What the predictions are scored. *)

LEMMA PerfectIsRight == \A c \in ReferenceChanges : FindingOf("perfect", c) = DOMAIN Family
BY DEF FindingOf, Right, PredictionRow

\* A baseline that answers with the recorded ruling is right about the policy.
LEMMA RecordedRulingIsRight ==
  ASSUME LogIsOfTheCases, NEW c \in ReferenceChanges, NEW name \in {"trust_approval", "final_state"}
  PROVE  "policy" \in FindingOf(name, c)
<1> DEFINE d == LastDecision(c)
<1>1. d.policy = Cases[c].policy /\ d.rules = {Cases[c].rule} /\ d.exception = ExceptionOf(c)
  BY DEF LastDecision, DecisionEvent
<1>2. Ruling(name, d).policy = d.policy /\ Ruling(name, d).rules = d.rules
  BY DEF Ruling
<1>3. /\ BaselineRow(name, c).policy = Ruling(name, d).policy
      /\ BaselineRow(name, c).rules = Ruling(name, d).rules
      /\ BaselineRow(name, c).exception = d.exception
  BY ControlOfCase DEF BaselineRow
<1>4. /\ TruthRow(c).policy = Cases[c].policy /\ TruthRow(c).rules = {Cases[c].rule}
      /\ TruthRow(c).exception = ExceptionOf(c)
  BY DEF TruthRow
<1>5. Right(name, c, {"policy", "rules", "exception"})
  BY <1>1, <1>2, <1>3, <1>4 DEF Right, PredictionRow
<1>6. "policy" \in DOMAIN Family /\ Family["policy"] = {"policy", "rules", "exception"}
  BY DEF Family
<1>7. QED
  BY <1>5, <1>6 DEF FindingOf

\* The second change: approved by somebody without a mandate, and enacted.
LEMMA SecondChangeMisleads ==
  ASSUME LogIsOfTheCases, NEW name \in {"trust_approval", "final_state"}
  PROVE  /\ 2 \in ReferenceChanges
         /\ ~Right(name, 2, {"approver_authorised"})
         /\ name = "final_state" => ~Right(name, 2, {"authorised"})
<1>1. 2 \in ReferenceChanges
  BY ChangesAreTwelve
<1>2. Cases[2].authorised = FALSE /\ Cases[2].approver_authorised = FALSE
  BY DEF Cases, Spec12
<1>3. Cases[2].affected = 2 /\ Cases[2].before = Unset /\ Cases[2].enacted = "narrow"
  BY DEF Cases, Spec12, Granted
<1>4. TruthRow(2).authorised = FALSE /\ TruthRow(2).approver_authorised = FALSE
  BY <1>2 DEF TruthRow
<1>5. BaselineRow(name, 2).approver_authorised = TRUE
  BY DEF BaselineRow
<1>6. The(History!Of(2, "enactment")) = EnactmentOf(2) /\ The(History!Of(2, "request")) = RequestOf(2)
  BY <1>1, EventsOfCase DEF The
<1>7. EnactmentOf(2).after = [a \in {2} |-> "narrow"] /\ RequestOf(2).before = Unset
  BY <1>3, ReferenceAssumption DEF EnactmentOf, RequestOf, AfterOf
<1>8. ReferenceRequested[2].affected = 2
  BY <1>1, <1>3 DEF ReferenceRequested
<1>9. name = "final_state" => BaselineRow(name, 2).authorised = TRUE
  BY <1>6, <1>7, <1>8, ReferenceAssumption DEF BaselineRow
<1>10. QED
  BY <1>1, <1>4, <1>5, <1>9 DEF Right, PredictionRow

\* The first change was decided under a version that is not the latest.
LEMMA FirstChangeIsOfItsVersion ==
  1 \in ReferenceChanges /\ ~Right("latest_policy", 1, {"policy"})
<1>1. 1 \in ReferenceChanges
  BY ChangesAreTwelve
<1>2. TruthRow(1).policy = 1
  BY DEF TruthRow, Cases, Spec12, ByStandard1
<1>3. \A p \in ReferencePolicies : (p.id = 1 /\ p.from = 0) \/ (p.id = 2 /\ p.from = 70)
  BY DEF ReferencePolicies
<1>4. \E p \in ReferencePolicies : p.id = 2 /\ p.from = 70
  BY DEF ReferencePolicies
<1>5. LatestPolicy.id = 2
  <2>1. \E p \in ReferencePolicies : \A q \in ReferencePolicies : p.from > q.from \/ (p.from = q.from /\ p.id >= q.id)
    BY <1>3, <1>4
  <2>2. \A p \in ReferencePolicies :
          (\A q \in ReferencePolicies : p.from > q.from \/ (p.from = q.from /\ p.id >= q.id)) => p.id = 2
    BY <1>3, <1>4
  <2>3. QED
    BY <2>1, <2>2 DEF LatestPolicy
<1>6. BaselineRow("latest_policy", 1).policy = 2
  BY <1>5 DEF BaselineRow, Ruling
<1>7. QED
  BY <1>1, <1>2, <1>6 DEF Right, PredictionRow

LEMMA EvaluationDiscriminates ==
  ASSUME ReferenceInv, NEW name \in Predictions, Evaluate(name)
  PROVE  BaselinesDiscriminate'
<1>1. /\ submitted' = name /\ metrics' = MetricsOf(name)
      /\ \A c \in ReferenceChanges : findings'[c] = FindingOf(name, c)
  BY DEF Evaluate
<1>2. \A d \in DOMAIN Dimension :
        MetricsOf(name)[d] = {c \in ReferenceChanges : Right(name, c, Dimension[d][2])}
  BY DEF MetricsOf
<1>3. /\ "authorisation" \in DOMAIN Dimension /\ Dimension["authorisation"][2] = {"authorised"}
      /\ "approver_authority" \in DOMAIN Dimension /\ Dimension["approver_authority"][2] = {"approver_authorised"}
      /\ "policy_version" \in DOMAIN Dimension /\ Dimension["policy_version"][2] = {"policy"}
  BY DEF Dimension
<1>4. /\ metrics'.authorisation = {c \in ReferenceChanges : Right(name, c, {"authorised"})}
      /\ metrics'.approver_authority = {c \in ReferenceChanges : Right(name, c, {"approver_authorised"})}
      /\ metrics'.policy_version = {c \in ReferenceChanges : Right(name, c, {"policy"})}
  <2>1. metrics'.authorisation = {c \in ReferenceChanges : Right(name, c, {"authorised"})}
    BY <1>1, <1>2, <1>3
  <2>2. metrics'.approver_authority = {c \in ReferenceChanges : Right(name, c, {"approver_authorised"})}
    BY <1>1, <1>2, <1>3
  <2>3. metrics'.policy_version = {c \in ReferenceChanges : Right(name, c, {"policy"})}
    BY <1>1, <1>2, <1>3
  <2>4. QED
    BY <2>1, <2>2, <2>3
<1>5. name = "perfect" => \A c \in ReferenceChanges : findings'[c] = DOMAIN Family
  BY <1>1, PerfectIsRight
<1>6. name = "final_state" => metrics'.authorisation # ReferenceChanges
  BY <1>4, SecondChangeMisleads DEF ReferenceInv
<1>7. name \in {"trust_approval", "final_state"} =>
        metrics'.approver_authority # ReferenceChanges /\ \A c \in ReferenceChanges : "policy" \in findings'[c]
  BY <1>1, <1>4, SecondChangeMisleads, RecordedRulingIsRight DEF ReferenceInv
<1>8. name = "latest_policy" => metrics'.policy_version # ReferenceChanges
  BY <1>4, FirstChangeIsOfItsVersion
<1>9. QED
  BY <1>1, <1>5, <1>6, <1>7, <1>8 DEF BaselinesDiscriminate

\* The perfect prediction of the reference package is right in every finding, and each public
\* baseline misses what the contract was written to tell (authority_governance/baselines.py,
\* metrics.py).
THEOREM BaselinesStayDiscriminated == ReferenceSpec => []BaselinesDiscriminate
<1>1. ReferenceInit => BaselinesDiscriminate
  BY DEF ReferenceInit, BaselinesDiscriminate
<1>2. ReferenceInv /\ BaselinesDiscriminate /\ [ReferenceNext]_referenceVars => BaselinesDiscriminate'
  <2> SUFFICES ASSUME ReferenceInv, BaselinesDiscriminate, [ReferenceNext]_referenceVars
               PROVE  BaselinesDiscriminate'
    OBVIOUS
  <2>1. CASE UNCHANGED <<submitted, findings, metrics>>
    BY <2>1 DEF BaselinesDiscriminate
  <2>2. CASE \E name \in Predictions : Evaluate(name)
    BY <2>2, EvaluationDiscriminates
  <2>3. ReferenceValidate \/ Advance \/ UNCHANGED referenceVars => UNCHANGED <<submitted, findings, metrics>>
    BY DEF ReferenceValidate, Advance, referenceVars
  <2>4. QED
    BY <2>1, <2>2, <2>3 DEF ReferenceNext
<1>3. QED
  BY <1>1, <1>2, ReferenceIsAccepted, PTL DEF ReferenceSpec
=============================================================================
