---------------------- MODULE ContinuousAssuranceProofs ----------------------
(***************************************************************************)
(* What the checkpoints of a valid package know, for every package.  The   *)
(* inductive invariant: the ids of signals and remediations are numbers    *)
(* below the next one and name one event each, whose ticks are ordered;    *)
(* and a package that was accepted is one whose windows and checkpoints    *)
(* hold, as nothing is added to it any more.                               *)
(*                                                                         *)
(* Then the generated benchmark, for every number of cycles, set of seeds  *)
(* and set of orders of the templates.  The inductive invariant: the       *)
(* package and the truth are what the ticks make of the templates that     *)
(* each case starts from.                                                  *)
(***************************************************************************)
EXTENDS ContinuousAssurance, AssuranceGeneration,
        FiniteSetTheorems, FunctionTheorems, NaturalsInduction, TLAPS

TimedEvent(e) ==
  /\ e.action \in Nat /\ e.decision \in Nat /\ e.effective \in Nat /\ e.observation \in Nat /\ e.audit \in Nat
  /\ Ordered(e)

EventsOK ==
  /\ IsFiniteSet(Events)
  /\ \A e \in Events : TimedEvent(e) /\ e.id \in 1..Cardinality(Events)
  /\ \A e, f \in Events : e.id = f.id => e = f

WindowsOK == \A w \in windows : w.from \in Nat /\ w.restored \in Nat

CheckpointsOK == \A p \in checkpoints : p.tick \in Nat

IInv ==
  /\ EventsOK
  /\ WindowsOK
  /\ CheckpointsOK
  /\ Public => WindowsHold /\ CheckpointsHold

\* A down feed hides, by the validated window and the uniqueness of ids.
LEMMA OutageFollows ==
  ASSUME IInv
  PROVE  OutageHidesAndRewritesNothing
<1> SUFFICES ASSUME Public, NEW w \in windows, NEW s \in signals, s.id \in w.delayed,
                    NEW t \in s.effective..w.restored - 1
             PROVE  /\ s \in CanonicalAt(t) /\ s \notin ObservedAt(signals, t)
                    /\ \A p \in checkpoints : p.tick = t => s.id \notin p.signals
  BY DEF OutageHidesAndRewritesNothing
<1>1. s \in Events /\ signals \subseteq Events
  BY DEF Events
<1>2. TimedEvent(s) /\ w.restored \in Nat /\ DelayedInWindow(w, s)
  BY <1>1 DEF IInv, EventsOK, WindowsOK, WindowsHold
<1>3. /\ s.effective \in Nat /\ s.observation \in Nat /\ w.restored \in Nat
      /\ s.effective <= t /\ t < w.restored /\ w.restored <= s.observation
  BY <1>2 DEF TimedEvent, DelayedInWindow
<1>4. s \in CanonicalAt(t) /\ s \notin ObservedAt(signals, t)
  BY <1>3 DEF CanonicalAt, ObservedAt
<1>5. ASSUME NEW p \in checkpoints, p.tick = t, s.id \in p.signals
      PROVE  FALSE
  <2>1. p = CheckpointAt(t)
    BY <1>5 DEF IInv, CheckpointsHold
  <2>2. p.signals = {x.id : x \in ObservedAt(signals, t)}
    BY <2>1 DEF CheckpointAt
  <2>3. PICK x \in ObservedAt(signals, t) : x.id = s.id
    BY <1>5, <2>2
  <2>4. x = s
    BY <1>1, <2>3 DEF IInv, EventsOK, ObservedAt
  <2>5. QED
    BY <1>4, <2>3, <2>4
<1>6. QED
  BY <1>4, <1>5

LEMMA NoFutureFollows ==
  ASSUME IInv
  PROVE  CheckpointsKnowNoFuture
<1> SUFFICES ASSUME Public, NEW p \in checkpoints
             PROVE  /\ p.evidence \subseteq p.signals \cup p.remediations
                    /\ p.signals \subseteq {s.id : s \in CanonicalAt(p.tick)}
                    /\ \A q \in checkpoints :
                         p.tick < q.tick => p.signals \subseteq q.signals /\ p.evidence \subseteq q.evidence
  BY DEF CheckpointsKnowNoFuture
<1>1. ASSUME NEW q \in checkpoints
      PROVE  /\ q.tick \in Nat
             /\ q.signals = {s.id : s \in ObservedAt(signals, q.tick)}
             /\ q.remediations = {r.id : r \in ObservedAt(remediations, q.tick)}
             /\ q.evidence = EvidenceAt(q.tick)
  <2>1. q = CheckpointAt(q.tick) /\ q.tick \in Nat
    BY DEF IInv, CheckpointsOK, CheckpointsHold
  <2>2. QED
    BY <2>1 DEF CheckpointAt
<1>2. \A e \in Events : /\ e.effective \in Nat /\ e.observation \in Nat /\ e.audit \in Nat
                        /\ e.effective <= e.observation /\ e.observation <= e.audit
  BY DEF IInv, EventsOK, TimedEvent, Ordered
<1>3. p.evidence \subseteq p.signals \cup p.remediations
  <2> SUFFICES ASSUME NEW e \in Events, e.audit <= p.tick
               PROVE  e.id \in p.signals \cup p.remediations
    BY <1>1 DEF EvidenceAt
  <2>1. e.observation <= p.tick
    BY <1>1, <1>2
  <2>2. QED
    BY <1>1, <2>1 DEF Events, ObservedAt
<1>4. p.signals \subseteq {s.id : s \in CanonicalAt(p.tick)}
  <2> SUFFICES ASSUME NEW s \in signals, s.observation <= p.tick
               PROVE  s \in CanonicalAt(p.tick)
    BY <1>1 DEF ObservedAt
  <2>1. s.effective <= p.tick
    BY <1>1, <1>2 DEF Events
  <2>2. QED
    BY <2>1 DEF CanonicalAt
<1>5. ASSUME NEW q \in checkpoints, p.tick < q.tick
      PROVE  p.signals \subseteq q.signals /\ p.evidence \subseteq q.evidence
  <2>1. ObservedAt(signals, p.tick) \subseteq ObservedAt(signals, q.tick)
    BY <1>1, <1>2, <1>5 DEF ObservedAt, Events
  <2>2. EvidenceAt(p.tick) \subseteq EvidenceAt(q.tick)
    <3> SUFFICES ASSUME NEW e \in Events, e.audit <= p.tick
                 PROVE  e.audit <= q.tick
      BY DEF EvidenceAt
    <3>1. QED
      BY <1>1, <1>2, <1>5
  <2>3. QED
    BY <1>1, <2>1, <2>2
<1>6. QED
  BY <1>3, <1>4, <1>5

------------------------------------------------------------------------------
(* The order of the baselines: by observation, then by id. *)

Sortable(S) ==
  /\ IsFiniteSet(S)
  /\ \A e \in S : e.observation \in Nat /\ e.id \in Nat
  /\ \A e, f \in S : e.id = f.id => e = f

Before(S, e) == {f \in S : Earlier(f, e)}

LEMMA EarlierIsAnOrder ==
  ASSUME NEW S, Sortable(S)
  PROVE  /\ \A e \in S : ~Earlier(e, e)
         /\ \A e, f \in S : e = f \/ Earlier(e, f) \/ Earlier(f, e)
         /\ \A e, f, g \in S : Earlier(e, f) /\ Earlier(f, g) => Earlier(e, g)
BY DEF Sortable, Earlier

\* The numbers from 0 on.
LEMMA IntervalCounts ==
  ASSUME NEW N \in Nat
  PROVE  IsFiniteSet(0..(N - 1)) /\ Cardinality(0..(N - 1)) = N
<1>1. \A a, b \in Int : IsFiniteSet(a..b) /\ Cardinality(a..b) = IF a > b THEN 0 ELSE b - a + 1
  BY FS_Interval, Zenon
<1>2. ASSUME NEW a \in Int, NEW b \in Int, a = 0, b = N - 1
      PROVE  IsFiniteSet(a..b) /\ Cardinality(a..b) = N
  <2>1. Cardinality(a..b) = IF a > b THEN 0 ELSE b - a + 1
    BY <1>1, Zenon
  <2>2. (IF a > b THEN 0 ELSE b - a + 1) = N
    BY <1>2
  <2>3. QED
    BY <1>1, <2>1, <2>2, Zenon
<1>3. 0 \in Int /\ N - 1 \in Int
  OBVIOUS
<1>4. QED
  BY <1>2, <1>3, Zenon

\* The number of earlier ones ranks the events of a set.
LEMMA RanksAreOrdered ==
  ASSUME NEW S, Sortable(S)
  PROVE  /\ Cardinality(S) \in Nat
         /\ \A e \in S : Cardinality(Before(S, e)) \in 0..(Cardinality(S) - 1)
         /\ \A e, f \in S : Earlier(e, f) <=> Cardinality(Before(S, e)) < Cardinality(Before(S, f))
         /\ \A e, f \in S : Cardinality(Before(S, e)) = Cardinality(Before(S, f)) => e = f
<1>1. IsFiniteSet(S) /\ Cardinality(S) \in Nat
  BY FS_CardinalityType DEF Sortable
<1>2. ASSUME NEW e \in S
      PROVE  IsFiniteSet(Before(S, e)) /\ Cardinality(Before(S, e)) \in 0..(Cardinality(S) - 1)
             /\ Cardinality(Before(S, e)) \in Nat
  <2>1. Before(S, e) \in SUBSET S /\ e \notin Before(S, e)
    BY EarlierIsAnOrder DEF Before
  <2>2. /\ IsFiniteSet(Before(S, e)) /\ Cardinality(Before(S, e)) <= Cardinality(S)
        /\ Cardinality(S) # Cardinality(Before(S, e))
    BY <1>1, <2>1, FS_Subset
  <2>3. Cardinality(Before(S, e)) \in Nat
    BY <2>2, FS_CardinalityType
  <2>4. QED
    BY <1>1, <2>2, <2>3
<1>3. ASSUME NEW e \in S, NEW f \in S, Earlier(e, f)
      PROVE  Cardinality(Before(S, e)) < Cardinality(Before(S, f))
  <2>1. Before(S, e) \in SUBSET Before(S, f)
    BY <1>3, EarlierIsAnOrder DEF Before
  <2>2. e \in Before(S, f) /\ e \notin Before(S, e)
    BY <1>3, EarlierIsAnOrder DEF Before
  <2>3. /\ Cardinality(Before(S, e)) <= Cardinality(Before(S, f))
        /\ Cardinality(Before(S, f)) # Cardinality(Before(S, e))
    BY <1>2, <2>1, <2>2, FS_Subset
  <2>4. QED
    BY <1>2, <2>3
<1>4. ASSUME NEW e \in S, NEW f \in S
      PROVE  /\ Earlier(e, f) <=> Cardinality(Before(S, e)) < Cardinality(Before(S, f))
             /\ Cardinality(Before(S, e)) = Cardinality(Before(S, f)) => e = f
  <2>1. e = f \/ Earlier(e, f) \/ Earlier(f, e)
    BY EarlierIsAnOrder
  <2>2. Cardinality(Before(S, e)) \in Nat /\ Cardinality(Before(S, f)) \in Nat
    BY <1>2
  <2>3. e = f => ~Earlier(e, f)
    BY EarlierIsAnOrder
  <2>4. QED
    BY <1>3, <2>1, <2>2, <2>3
<1>5. QED
  BY <1>1, <1>2, <1>4

\* InOrder lists every event once, and the earlier one first.
LEMMA InOrderLists ==
  ASSUME NEW S, Sortable(S)
  PROVE  LET N == Cardinality(S)
             order == InOrder(S)
         IN  /\ N \in Nat /\ DOMAIN order = 1..N
             /\ \A i \in 1..N : order[i] \in S
             /\ \A e \in S : \E i \in 1..N : order[i] = e
             /\ \A i, j \in 1..N : Earlier(order[i], order[j]) <=> i < j
<1> DEFINE N == Cardinality(S)
           order == InOrder(S)
           rank == [e \in S |-> Cardinality(Before(S, e))]
<1>1. N \in Nat /\ DOMAIN order = 1..N
  BY RanksAreOrdered DEF InOrder
<1>2. rank \in [S -> 0..(N - 1)] /\ \A e, f \in S : rank[e] = rank[f] => e = f
  BY RanksAreOrdered
<1>3. rank \in Injection(S, 0..(N - 1))
  BY <1>2, Fun_IsInj
<1>4. IsFiniteSet(0..(N - 1)) /\ Cardinality(0..(N - 1)) = N
  BY <1>1, IntervalCounts
<1>5. rank \in Surjection(S, 0..(N - 1))
  BY <1>3, <1>4, FS_Injection
<1>6. \A k \in 0..(N - 1) : \E e \in S : rank[e] = k
  BY <1>5 DEF Surjection
<1>7. ASSUME NEW i \in 1..N
      PROVE  order[i] \in S /\ Cardinality(Before(S, order[i])) = i - 1
  <2>1. i - 1 \in 0..(N - 1)
    BY <1>1
  <2>2. \E e \in S : Cardinality(Before(S, e)) = i - 1
    BY <1>6, <2>1
  <2>3. order[i] = CHOOSE e \in S : Cardinality(Before(S, e)) = i - 1
    BY DEF InOrder, Before
  <2> HIDE DEF order
  <2>4. QED
    BY <2>2, <2>3
<1>8. ASSUME NEW e \in S
      PROVE  \E i \in 1..N : order[i] = e
  <2>1. PICK i \in 1..N : i - 1 = Cardinality(Before(S, e))
    <3>1. Cardinality(Before(S, e)) \in 0..(N - 1)
      BY RanksAreOrdered
    <3>2. Cardinality(Before(S, e)) + 1 \in 1..N /\ (Cardinality(Before(S, e)) + 1) - 1 = Cardinality(Before(S, e))
      BY <1>1, <3>1
    <3>3. QED
      BY <3>2
  <2>2. order[i] = e
    BY <1>7, <2>1, RanksAreOrdered
  <2>3. QED
    BY <2>2
<1>9. ASSUME NEW i \in 1..N, NEW j \in 1..N
      PROVE  Earlier(order[i], order[j]) <=> i < j
  <2>1. Earlier(order[i], order[j]) <=> i - 1 < j - 1
    BY <1>7, RanksAreOrdered
  <2>2. QED
    BY <1>1, <2>1
<1>10. QED
  BY <1>1, <1>7, <1>8, <1>9

------------------------------------------------------------------------------
(* When a baseline cannot answer: its row is not coherent. *)

ShapedEvents == \A e \in Events : e.state \in States /\ e.dimension = "drift"

\* Two events of a case that are beyond a baseline.
Coincide(e, f) ==
  /\ e # f /\ e \in signals /\ e.state \in ProblemStates
  /\ \/ f.state \in ClearStates /\ f.observation <= e.observation
     \/ f \in signals /\ f.state \in ProblemStates /\ f.observation >= e.observation /\ f.effective <= e.effective
     \/ f \in signals /\ f.state \in ProblemStates /\ f.observation = e.observation

Coincidence == \E c \in PublicCases, e, f \in Events : e.case = c /\ f.case = c /\ Coincide(e, f)

\* Any set of events can be sorted.
LEMMA EventsAreSortable ==
  ASSUME IInv, NEW S \in SUBSET Events
  PROVE  Sortable(S)
<1>1. IsFiniteSet(Events) /\ Cardinality(Events) \in Nat
  BY FS_CardinalityType DEF IInv, EventsOK
<1>2. IsFiniteSet(S)
  BY <1>1, FS_Subset
<1>3. \A e \in S : e.observation \in Nat /\ e.id \in Nat
  BY <1>1 DEF IInv, EventsOK, TimedEvent
<1>4. QED
  BY <1>2, <1>3 DEF IInv, EventsOK, Sortable

\* The latest event of a case exists, and the row made of it alone is coherent.
LEMMA LatestIsCoherent ==
  ASSUME IInv, ShapedEvents, NEW c \in PublicCases
  PROVE  CoherentRow(LatestRow(c))
<1> DEFINE S == EventsOf(c)
           N == Cardinality(S)
           order == InOrder(S)
           last == CHOOSE e \in S : \A f \in S : e = f \/ Earlier(f, e)
<1>1. S \in SUBSET Events /\ S # {}
  BY DEF PublicCases, EventsOf, Events
<1>2. Sortable(S)
  BY <1>1, EventsAreSortable
<1>3. /\ N \in Nat
      /\ \A i \in 1..N : order[i] \in S
      /\ \A e \in S : \E i \in 1..N : order[i] = e
      /\ \A i, j \in 1..N : Earlier(order[i], order[j]) <=> i < j
  BY <1>2, InOrderLists
<1> HIDE DEF order
<1>4. N \in 1..N
  <2>1. PICK e \in S : TRUE
    BY <1>1
  <2>2. PICK i \in 1..N : order[i] = e
    BY <1>3
  <2> HIDE DEF N
  <2>3. QED
    BY <1>3
<1>5. \A f \in S : order[N] = f \/ Earlier(f, order[N])
  <2> SUFFICES ASSUME NEW f \in S
               PROVE  order[N] = f \/ Earlier(f, order[N])
    OBVIOUS
  <2>1. PICK i \in 1..N : order[i] = f
    BY <1>3
  <2>2. i = N \/ i < N
    <3> HIDE DEF N
    <3> QED
      BY <1>3, <2>1
  <2>3. QED
    BY <1>3, <1>4, <2>1, <2>2
<1>6. last \in S
  <2>1. \E e \in S : \A f \in S : e = f \/ Earlier(f, e)
    BY <1>3, <1>4, <1>5
  <2> HIDE DEF S
  <2>2. QED
    BY <2>1
<1>7. last.observation \in Nat /\ last.dimension = "drift"
  BY <1>1, <1>6 DEF IInv, EventsOK, TimedEvent, ShapedEvents
<1>8. LatestRow(c) = IF last.state \in ClearStates THEN NoFinding
                     ELSE [NoFinding EXCEPT !.dimension = last.dimension, !.opened = last.observation,
                              !.complete = RemediationGuess(c), !.continuous = (last.state # "missing")]
  BY DEF LatestRow
<1> HIDE DEF last
<1>9. CASE last.state \in ClearStates
  <2>1. LatestRow(c) = NoFinding
    BY <1>8, <1>9
  <2>2. QED
    BY <2>1 DEF NoFinding, CoherentRow
<1>10. CASE last.state \notin ClearStates
  <2>1. PICK row : row = LatestRow(c)
    OBVIOUS
  <2>2. /\ row.dimension = "drift" /\ row.opened = last.observation
        /\ row.clears = {} /\ row.recurrences = <<>>
    BY <1>7, <1>8, <1>10, <2>1 DEF NoFinding
  <2>3. DOMAIN row.recurrences = {} /\ ToSet(row.recurrences) = {}
    BY <2>2 DEF ToSet
  <2>4. row.opened # None /\ row.dimension # None
    BY <1>7, <2>2, NoneAssumption
  <2>5. CoherentRow(row)
    BY <2>2, <2>3, <2>4 DEF CoherentRow
  <2>6. QED
    BY <2>1, <2>5
<1>11. QED
  BY <1>9, <1>10

LEMMA InOrderIsAFunction ==
  ASSUME NEW S
  PROVE  InOrder(S) = [i \in 1..Cardinality(S) |-> InOrder(S)[i]]
<1> DEFINE nth(i) == CHOOSE e \in S : Cardinality({f \in S : Earlier(f, e)}) = i - 1
<1>1. InOrder(S) = [i \in 1..Cardinality(S) |-> nth(i)]
  BY Zenon DEF InOrder
<1> HIDE DEF nth
<1>2. QED
  BY <1>1

\* The problems of a case, the earlier one first.
LEMMA ProblemsAreListed ==
  ASSUME IInv, NEW c
  PROVE  LET problems == ProblemsOf(c)
             N == Len(problems)
         IN  /\ N \in Nat /\ DOMAIN problems = 1..N
             /\ problems = <<>> <=> N = 0
             /\ \A i \in 1..N : /\ problems[i] \in signals /\ problems[i] \in Events
                                /\ problems[i].case = c /\ problems[i].state \in ProblemStates
             /\ \A i, j \in 1..N : i < j => /\ problems[i] # problems[j]
                                            /\ problems[i].observation <= problems[j].observation
<1> DEFINE S == {s \in SignalsOf(c) : s.state \in ProblemStates}
           order == InOrder(S)
           N == Cardinality(S)
<1>1. S \in SUBSET Events /\ \A s \in S : s \in signals /\ s.case = c /\ s.state \in ProblemStates
  BY DEF SignalsOf, Events
<1>2. Sortable(S)
  BY <1>1, EventsAreSortable
<1>3. /\ N \in Nat /\ DOMAIN order = 1..N
      /\ \A i \in 1..N : order[i] \in S
      /\ \A i, j \in 1..N : Earlier(order[i], order[j]) <=> i < j
  BY <1>2, InOrderLists
<1>4. order = [i \in 1..N |-> order[i]]
  BY InOrderIsAFunction
<1>5. ProblemsOf(c) = order
  BY DEF ProblemsOf
<1> HIDE DEF N, order, S
<1>6. order \in Seq(S) /\ Len(order) = N
  BY <1>3, <1>4
<1>7. order = <<>> <=> N = 0
  BY <1>6
<1>8. ASSUME NEW i \in 1..N, NEW j \in 1..N, i < j
      PROVE  order[i] # order[j] /\ order[i].observation <= order[j].observation
  <2>1. Earlier(order[i], order[j]) /\ ~Earlier(order[j], order[i])
    BY <1>3, <1>8
  <2>2. order[i].observation \in Nat /\ order[j].observation \in Nat
    BY <1>2, <1>3 DEF Sortable
  <2>3. QED
    BY <2>1, <2>2 DEF Earlier
<1>9. QED
  BY <1>1, <1>3, <1>5, <1>6, <1>7, <1>8

\* A row made of all problems of a case is coherent when none of its events coincide.
LEMMA ObservedIsCoherent ==
  ASSUME IInv, ShapedEvents, NEW c \in PublicCases, NEW mode, ~Coincidence
  PROVE  CoherentRow(ObservedRow(mode, c))
<1>1. PICK problems : problems = ProblemsOf(c)
  OBVIOUS
<1>2. PICK N : N = Len(problems)
  OBVIOUS
<1>3. /\ N \in Nat /\ DOMAIN problems = 1..N
      /\ problems = <<>> <=> N = 0
      /\ \A i \in 1..N : /\ problems[i] \in signals /\ problems[i] \in Events
                         /\ problems[i].case = c /\ problems[i].state \in ProblemStates
      /\ \A i, j \in 1..N : i < j => /\ problems[i] # problems[j]
                                     /\ problems[i].observation <= problems[j].observation
  BY <1>1, <1>2, ProblemsAreListed
<1>4. \A e, f \in Events : e.case = c /\ f.case = c => ~Coincide(e, f)
  BY DEF Coincidence
<1>5. \A e \in Events : e.effective \in Nat /\ e.observation \in Nat /\ e.effective <= e.observation
  BY DEF IInv, EventsOK, TimedEvent, Ordered
<1>6. \A i \in 1..N : Time(mode, problems[i]) \in Nat /\ Time(mode, problems[i]) <= problems[i].observation
  BY <1>3, <1>5 DEF Time
<1>7. ASSUME NEW i \in 1..N, NEW j \in 1..N, i < j
      PROVE  Time(mode, problems[i]) < Time(mode, problems[j])
  <2>1. ~Coincide(problems[i], problems[j])
    BY <1>3, <1>4
  <2>2. PICK e \in Events, f \in Events : e = problems[i] /\ f = problems[j]
    BY <1>3
  <2>3. /\ e # f /\ e.observation <= f.observation /\ ~Coincide(e, f)
        /\ e \in signals /\ f \in signals /\ e.state \in ProblemStates /\ f.state \in ProblemStates
    BY <1>3, <1>7, <2>1, <2>2
  <2>4. /\ e.effective \in Nat /\ f.effective \in Nat /\ e.observation \in Nat /\ f.observation \in Nat
    BY <1>5
  <2>5. e.effective < f.effective /\ e.observation < f.observation
    BY <2>3, <2>4 DEF Coincide
  <2>6. QED
    BY <2>2, <2>5 DEF Time
<1>8. ASSUME NEW i \in 1..N, NEW t \in ClearTicks(c)
      PROVE  t \in Nat /\ problems[i].observation < t
  <2>1. PICK f \in EventsOf(c) : f.state \in ClearStates /\ t = f.observation
    BY DEF ClearTicks
  <2>2. f \in Events /\ f.case = c
    BY DEF EventsOf
  <2>3. problems[i] # f
    BY <1>3, <2>1, AssuranceAssumption
  <2>4. ~Coincide(problems[i], f)
    BY <1>3, <1>4, <2>2
  <2>5. ~(f.observation <= problems[i].observation)
    BY <1>3, <2>1, <2>3, <2>4 DEF Coincide
  <2>6. f.observation \in Nat /\ problems[i].observation \in Nat
    BY <1>3, <1>5, <2>2
  <2>7. QED
    BY <2>1, <2>5, <2>6
<1>9. CASE N = 0
  <2>1. ObservedRow(mode, c) = NoFinding
    BY <1>1, <1>3, <1>9 DEF ObservedRow
  <2>2. QED
    BY <2>1 DEF NoFinding, CoherentRow
<1>10. CASE N # 0
  <2>1. PICK row : row = ObservedRow(mode, c)
    OBVIOUS
  <2>2. /\ row.dimension = problems[1].dimension /\ row.opened = Time(mode, problems[1])
        /\ row.clears = IF mode = "never_clear" THEN {} ELSE ClearTicks(c)
        /\ row.recurrences = [i \in 1..N - 1 |-> Time(mode, problems[i + 1])]
    BY <1>1, <1>2, <1>3, <1>10, <2>1 DEF ObservedRow
  <2>3. 1 \in 1..N /\ \A i \in 1..N - 1 : i + 1 \in 1..N /\ 1 < i + 1
    BY <1>3, <1>10
  <2>4. DOMAIN row.recurrences = 1..N - 1
    BY <2>2
  <2>5. \A i \in 1..N - 1 : row.recurrences[i] = Time(mode, problems[i + 1])
    BY <2>2
  <2>6. \A i, j \in DOMAIN row.recurrences : i < j => row.recurrences[i] < row.recurrences[j]
    <3> SUFFICES ASSUME NEW i \in 1..N - 1, NEW j \in 1..N - 1, i < j
                 PROVE  Time(mode, problems[i + 1]) < Time(mode, problems[j + 1])
      BY <2>4, <2>5
    <3>1. i + 1 \in 1..N /\ j + 1 \in 1..N /\ i + 1 < j + 1
      BY <1>3
    <3>2. QED
      BY <1>7, <3>1
  <2>7. row.opened \in Nat /\ row.opened # None /\ row.dimension # None
    <3>1. row.dimension = "drift"
      BY <1>3, <2>2, <2>3 DEF ShapedEvents
    <3>2. row.opened \in Nat
      BY <1>6, <2>2, <2>3
    <3>3. QED
      BY <3>1, <3>2, NoneAssumption
  <2>8. \A t \in row.clears : t > row.opened
    <3> SUFFICES ASSUME NEW t \in ClearTicks(c)
                 PROVE  t > row.opened
      BY <2>2
    <3>1. t \in Nat /\ problems[1].observation < t
      BY <1>8, <2>3
    <3>2. Time(mode, problems[1]) \in Nat /\ Time(mode, problems[1]) <= problems[1].observation
      BY <1>6, <2>3
    <3>3. problems[1].observation \in Nat
      BY <1>3, <1>5, <2>3
    <3>4. QED
      BY <2>2, <3>1, <3>2, <3>3
  <2>9. \A t \in ToSet(row.recurrences) : t > row.opened /\ t \notin row.clears
    <3> SUFFICES ASSUME NEW i \in 1..N - 1
                 PROVE  /\ Time(mode, problems[i + 1]) > row.opened
                        /\ Time(mode, problems[i + 1]) \notin row.clears
      BY <2>4, <2>5 DEF ToSet
    <3>1. i + 1 \in 1..N
      BY <2>3
    <3>2. Time(mode, problems[1]) < Time(mode, problems[i + 1])
      BY <1>7, <2>3
    <3>3. ASSUME NEW t \in ClearTicks(c), t = Time(mode, problems[i + 1])
          PROVE  FALSE
      <4>1. t \in Nat /\ problems[i + 1].observation < t
        BY <1>8, <3>1
      <4>2. t <= problems[i + 1].observation /\ problems[i + 1].observation \in Nat
        BY <1>3, <1>5, <1>6, <3>1, <3>3
      <4>3. QED
        BY <4>1, <4>2
    <3>4. Time(mode, problems[1]) \in Nat /\ Time(mode, problems[i + 1]) \in Nat
      BY <1>6, <2>3, <3>1
    <3>5. QED
      BY <2>2, <3>2, <3>3, <3>4
  <2>10. CoherentRow(row)
    BY <2>6, <2>7, <2>8, <2>9 DEF CoherentRow
  <2>11. QED
    BY <2>1, <2>10
<1>11. QED
  BY <1>9, <1>10

LEMMA IncoherentRowsCoincide ==
  ASSUME IInv, ShapedEvents, NEW c \in PublicCases, NEW mode, ~CoherentRow(BaselineRow(mode, c))
  PROVE  Coincidence
BY LatestIsCoherent, ObservedIsCoherent DEF BaselineRow

------------------------------------------------------------------------------
\* An event with the next id keeps the ids apart.
LEMMA NewEventKeepsEventsOK ==
  ASSUME EventsOK, NEW e, TimedEvent(e), e.id = Cardinality(Events) + 1,
         Events' = Events \cup {e}
  PROVE  EventsOK'
<1>1. IsFiniteSet(Events) /\ Cardinality(Events) \in Nat
  BY FS_CardinalityType DEF EventsOK
<1>2. \A f \in Events : f.id \in 1..Cardinality(Events)
  BY DEF EventsOK
<1>3. \A f \in Events : f.id # e.id
  BY <1>1, <1>2
<1>4. e \notin Events
  BY <1>3
<1>5. IsFiniteSet(Events') /\ Cardinality(Events') = Cardinality(Events) + 1
  BY <1>1, <1>4, FS_AddElement
<1>6. \A f \in Events' : TimedEvent(f) /\ f.id \in 1..Cardinality(Events')
  BY <1>1, <1>2, <1>5 DEF EventsOK
<1>7. \A f, g \in Events' : f.id = g.id => f = g
  BY <1>3 DEF EventsOK
<1>8. QED
  BY <1>5, <1>6, <1>7 DEF EventsOK, TimedEvent, Ordered

LEMMA AddedEventIsTimed ==
  ASSUME NEW c, NEW family, NEW state, NEW t1 \in Ticks, NEW t2 \in Ticks, NEW t3 \in Ticks,
         Ordered(Event(c, family, state, t1, t2, t3))
  PROVE  /\ TimedEvent(Event(c, family, state, t1, t2, t3))
         /\ Event(c, family, state, t1, t2, t3).id = Cardinality(Events) + 1
<1>1. Ticks \subseteq Nat
  BY AssuranceAssumption DEF Ticks
<1>2. QED
  BY <1>1 DEF TimedEvent, Event

LEMMA BuildingIsNotPublic ==
  ASSUME stage = "building"
  PROVE  ~Public
BY DEF Public

LEMMA NextKeepsIInv ==
  ASSUME IInv, [Next]_vars
  PROVE  IInv'
<1>0. Ticks \subseteq Nat
  BY AssuranceAssumption DEF Ticks
<1>1. CASE \E c \in Cases, family \in Families, state \in States, t1, t2, t3 \in Ticks :
             AddSignal(Event(c, family, state, t1, t2, t3))
  <2>1. PICK c \in Cases, family \in Families, state \in States, t1, t2, t3 \in Ticks :
          AddSignal(Event(c, family, state, t1, t2, t3))
    BY <1>1
  <2> DEFINE e == Event(c, family, state, t1, t2, t3)
  <2>2. TimedEvent(e) /\ e.id = Cardinality(Events) + 1
    BY <2>1, AddedEventIsTimed DEF AddSignal
  <2>3. Events' = Events \cup {e} /\ UNCHANGED <<windows, checkpoints, stage>>
    BY <2>1 DEF AddSignal, Events
  <2>4. stage = "building"
    BY <2>1 DEF AddSignal
  <2> HIDE DEF e
  <2>5. QED
    BY <2>2, <2>3, <2>4, NewEventKeepsEventsOK DEF IInv, WindowsOK, CheckpointsOK, Public
<1>2. CASE \E c \in Cases, state \in States, t1, t2, t3 \in Ticks :
             AddRemediation(Event(c, None, state, t1, t2, t3))
  <2>1. PICK c \in Cases, state \in States, t1, t2, t3 \in Ticks :
          AddRemediation(Event(c, None, state, t1, t2, t3))
    BY <1>2
  <2> DEFINE e == Event(c, None, state, t1, t2, t3)
  <2>2. TimedEvent(e) /\ e.id = Cardinality(Events) + 1
    BY <2>1, AddedEventIsTimed DEF AddRemediation
  <2>3. Events' = Events \cup {e} /\ UNCHANGED <<windows, checkpoints, stage>>
    BY <2>1 DEF AddRemediation, Events
  <2>4. stage = "building"
    BY <2>1 DEF AddRemediation
  <2> HIDE DEF e
  <2>5. QED
    BY <2>2, <2>3, <2>4, NewEventKeepsEventsOK DEF IInv, WindowsOK, CheckpointsOK, Public
<1>3. CASE \E c \in Cases, family \in Families, from, restored \in Ticks :
             \E delayed \in SUBSET {s.id : s \in signals} : AddWindow(c, family, from, restored, delayed)
  <2> PICK c \in Cases, family \in Families, from \in Ticks, restored \in Ticks :
        \E delayed \in SUBSET {s.id : s \in signals} : AddWindow(c, family, from, restored, delayed)
    BY <1>3
  <2> PICK delayed \in SUBSET {s.id : s \in signals} : AddWindow(c, family, from, restored, delayed)
    OBVIOUS
  <2>1. UNCHANGED <<signals, remediations, checkpoints, stage>> /\ stage = "building"
    BY DEF AddWindow
  <2>2. WindowsOK'
    <3>1. windows' = {[case |-> c, family |-> family, from |-> from, restored |-> restored, delayed |-> delayed]}
      BY DEF AddWindow
    <3>2. QED
      BY <1>0, <3>1 DEF WindowsOK
  <2>3. EventsOK'
    BY <2>1 DEF IInv, EventsOK, Events, TimedEvent, Ordered
  <2>4. QED
    BY <2>1, <2>2, <2>3 DEF IInv, CheckpointsOK, Public
<1>4. CASE \E t, content \in Ticks : AddCheckpoint(t, content)
  <2>1. UNCHANGED <<signals, remediations, windows, stage>> /\ stage = "building"
    BY <1>4 DEF AddCheckpoint
  <2>2. CheckpointsOK'
    BY <1>0, <1>4 DEF AddCheckpoint, CheckpointsOK, IInv, CheckpointAt
  <2>3. EventsOK'
    BY <2>1 DEF IInv, EventsOK, Events, TimedEvent, Ordered
  <2>4. QED
    BY <2>1, <2>2, <2>3 DEF IInv, WindowsOK, Public
<1>5. CASE Validate \/ (\E mode \in Baselines : Answer(mode)) \/ UNCHANGED vars
  <2>1. UNCHANGED <<signals, remediations, windows, checkpoints>>
    BY <1>5 DEF Validate, Answer, vars, package
  <2>2. EventsOK' /\ WindowsOK' /\ CheckpointsOK'
    BY <2>1 DEF IInv, EventsOK, Events, TimedEvent, Ordered, WindowsOK, CheckpointsOK
  <2>3. WindowsHold' = WindowsHold /\ CheckpointsHold' = CheckpointsHold
    BY <2>1 DEF WindowsHold, DelayedInWindow, CheckpointsHold, CheckpointAt, ObservedAt, EvidenceAt, Events
  <2>4. CASE Validate
    <3>1. stage' = Verdict
      BY <2>4 DEF Validate
    <3>2. Public' => WindowsHold /\ CheckpointsHold
      BY <3>1 DEF Verdict, Public
    <3>3. QED
      BY <2>2, <2>3, <3>2 DEF IInv
  <2>5. CASE (\E mode \in Baselines : Answer(mode)) \/ UNCHANGED vars
    <3>1. Public' => Public
      BY <2>5 DEF Answer, vars, Public
    <3>2. QED
      BY <2>2, <2>3, <3>1 DEF IInv
  <2>6. QED
    BY <1>5, <2>4, <2>5
<1>6. QED
  BY <1>1, <1>2, <1>3, <1>4, <1>5 DEF Next

\* Every reachable package of a case is well formed, and a public one was accepted.
THEOREM CasesAreSound == Spec => []IInv
<1>1. Init => IInv
  <2> SUFFICES ASSUME Init PROVE IInv
    OBVIOUS
  <2>1. Events = {} /\ windows = {} /\ checkpoints = {} /\ stage = "building"
    BY DEF Init, Events
  <2>2. QED
    BY <2>1, FS_EmptySet DEF IInv, EventsOK, WindowsOK, CheckpointsOK, Public
<1>2. IInv /\ [Next]_vars => IInv'
  BY NextKeepsIInv
<1>3. QED
  BY <1>1, <1>2, PTL DEF Spec

\* While a feed is down, what it delays is in effect and is seen by no checkpoint and
\* no replay (continuous_assurance/replay.py, and the windows of models.py).
THEOREM OutagesHideAndRewriteNothing == Spec => []OutageHidesAndRewritesNothing
<1>1. IInv => OutageHidesAndRewritesNothing
  BY OutageFollows
<1>2. QED
  BY <1>1, CasesAreSound, PTL

\* A checkpoint has evidence of what it observed only, and observed what is in effect;
\* a later checkpoint knows at least as much (continuous_assurance/replay.py).
THEOREM NoCheckpointKnowsTheFuture == Spec => []CheckpointsKnowNoFuture
<1>1. IInv => CheckpointsKnowNoFuture
  BY NoFutureFollows
<1>2. QED
  BY <1>1, CasesAreSound, PTL

------------------------------------------------------------------------------
(* What is unanswered: the invariant has the shape of events besides. *)

AInv == IInv /\ ShapedEvents /\ OnlyCoincidencesAreUnanswered

LEMMA UnansweredIsCoincidence == OnlyCoincidencesAreUnanswered <=> (stage = "unanswered" => Coincidence)
BY DEF OnlyCoincidencesAreUnanswered, Coincidence, Coincide

LEMMA NextKeepsShape ==
  ASSUME ShapedEvents, [Next]_vars
  PROVE  ShapedEvents'
<1> SUFFICES Events' = Events
             \/ \E c, family, t1, t2, t3 : \E state \in States :
                  Events' = Events \cup {Event(c, family, state, t1, t2, t3)}
  BY DEF ShapedEvents, Event
<1>1. CASE \E c \in Cases, family \in Families, state \in States, t1, t2, t3 \in Ticks :
             AddSignal(Event(c, family, state, t1, t2, t3))
  BY <1>1 DEF AddSignal, Events
<1>2. CASE \E c \in Cases, state \in States, t1, t2, t3 \in Ticks :
             AddRemediation(Event(c, None, state, t1, t2, t3))
  BY <1>2 DEF AddRemediation, Events
<1>3. CASE \E c \in Cases, family \in Families, from, restored \in Ticks :
             \E delayed \in SUBSET {s.id : s \in signals} : AddWindow(c, family, from, restored, delayed)
  BY <1>3 DEF AddWindow, Events
<1>4. CASE \E t, content \in Ticks : AddCheckpoint(t, content)
  BY <1>4 DEF AddCheckpoint, Events
<1>5. CASE Validate \/ (\E mode \in Baselines : Answer(mode)) \/ UNCHANGED vars
  BY <1>5 DEF Validate, Answer, vars, package, Events
<1>6. QED
  BY <1>1, <1>2, <1>3, <1>4, <1>5 DEF Next

LEMMA NextKeepsAInv ==
  ASSUME AInv, [Next]_vars
  PROVE  AInv'
<1>1. IInv' /\ ShapedEvents'
  BY NextKeepsIInv, NextKeepsShape DEF AInv
<1>2. CASE \E mode \in Baselines : Answer(mode)
  <2> PICK mode \in Baselines : Answer(mode)
    BY <1>2
  <2>1. UNCHANGED <<signals, remediations>>
    BY DEF Answer, package
  <2>2. stage' = "unanswered" => \E c \in PublicCases : ~CoherentRow(BaselineRow(mode, c))
    BY DEF Answer
  <2>3. stage' = "unanswered" => Coincidence
    BY <2>2, IncoherentRowsCoincide DEF AInv
  <2>4. Coincidence' = Coincidence
    BY <2>1 DEF Coincidence, Coincide, PublicCases, Events
  <2>5. OnlyCoincidencesAreUnanswered'
    BY <2>3, <2>4 DEF OnlyCoincidencesAreUnanswered, Coincidence, Coincide
  <2>6. QED
    BY <1>1, <2>5 DEF AInv
<1>3. CASE UNCHANGED vars
  <2>1. UNCHANGED <<signals, remediations, stage>>
    BY <1>3 DEF vars, package
  <2>2. OnlyCoincidencesAreUnanswered' = OnlyCoincidencesAreUnanswered
    BY <2>1 DEF OnlyCoincidencesAreUnanswered, PublicCases, Events
  <2>3. QED
    BY <1>1, <2>2 DEF AInv
<1>4. CASE Next /\ ~\E mode \in Baselines : Answer(mode)
  <2>1. stage' \in {"building", "public", "rejected", "raised"}
    BY <1>4 DEF Next, AddSignal, AddRemediation, AddWindow, AddCheckpoint, Validate, Verdict
  <2>2. QED
    BY <1>1, <2>1 DEF AInv, OnlyCoincidencesAreUnanswered
<1>5. QED
  BY <1>2, <1>3, <1>4

\* A public package is unanswered only when a case of it shows two problems, or a problem
\* and what clears it, at one tick or with effects in another order than observations
\* (continuous_assurance/baselines.py, and coherent_finding of models.py).
THEOREM OnlyCoincidencesStayUnanswered == Spec => []OnlyCoincidencesAreUnanswered
<1>1. Init => AInv
  <2> SUFFICES ASSUME Init PROVE AInv
    OBVIOUS
  <2>1. Events = {} /\ windows = {} /\ checkpoints = {} /\ stage = "building"
    BY DEF Init, Events
  <2>2. IInv
    BY <2>1, FS_EmptySet DEF IInv, EventsOK, WindowsOK, CheckpointsOK, Public
  <2>3. QED
    BY <2>1, <2>2 DEF AInv, ShapedEvents, OnlyCoincidencesAreUnanswered
<1>2. AInv /\ [Next]_vars => AInv'
  BY NextKeepsAInv
<1>3. AInv => OnlyCoincidencesAreUnanswered
  BY DEF AInv
<1>4. QED
  BY <1>1, <1>2, <1>3, PTL DEF Spec

------------------------------------------------------------------------------
(* Sets of ticks. *)

\* A set of numbers has a least element.
LEMMA LeastNumber ==
  ASSUME NEW T \in SUBSET Nat, T # {}
  PROVE  \E x \in T : \A y \in T : x <= y
<1>1. PICK x \in T : \A y \in T : <<y, x>> \notin OpToRel(<, Nat)
  BY WFMin, NatLessThanWellFounded, Zenon
<1>2. \A y \in T : ~ (y < x)
  BY <1>1, Zenon DEF OpToRel
<1>3. QED
  BY <1>2

\* The latest of finitely many ticks: the one after which there are the fewest.
LEMMA MaximumIsLatest ==
  ASSUME NEW S \in SUBSET Int, IsFiniteSet(S), S # {}
  PROVE  MaximumOf(S) \in S /\ \A u \in S : u <= MaximumOf(S)
<1> DEFINE After(t) == {u \in S : u > t}
           T == {Cardinality(After(t)) : t \in S}
<1>1. \A t \in S : IsFiniteSet(After(t)) /\ Cardinality(After(t)) \in Nat
  <2> SUFFICES ASSUME NEW t \in S
               PROVE  IsFiniteSet(After(t)) /\ Cardinality(After(t)) \in Nat
    OBVIOUS
  <2>1. After(t) \in SUBSET S
    OBVIOUS
  <2>2. IsFiniteSet(After(t))
    BY <2>1, FS_Subset
  <2>3. QED
    BY <2>2, FS_CardinalityType
<1>2. PICK n \in T : \A m \in T : n <= m
  <2>1. T \in SUBSET Nat /\ T # {}
    BY <1>1
  <2>2. QED
    BY <2>1, LeastNumber
<1>3. PICK t \in S : n = Cardinality(After(t))
  BY <1>2
<1>4. ASSUME NEW u \in S, u > t
      PROVE  FALSE
  <2>1. After(u) \in SUBSET After(t)
    <3>1. \A v \in S : v > u => v > t
      BY <1>4
    <3>2. QED
      BY <3>1
  <2>2. u \in After(t) /\ u \notin After(u)
    BY <1>4
  <2>3. /\ Cardinality(After(u)) <= Cardinality(After(t))
        /\ Cardinality(After(u)) # Cardinality(After(t))
    <3>1. IsFiniteSet(After(t)) /\ Cardinality(After(t)) \in Nat
      BY <1>1
    <3> HIDE DEF After
    <3>2. QED
      BY <2>1, <2>2, <3>1, FS_Subset
  <2>4. Cardinality(After(t)) <= Cardinality(After(u))
    BY <1>2, <1>3
  <2>5. QED
    BY <1>1, <2>3, <2>4
<1>5. \A u \in S : u <= t
  BY <1>4
<1>6. QED
  BY <1>5 DEF MaximumOf

LEMMA IntervalIsFinite == \A a, b \in Int : IsFiniteSet(a..b)
<1>1. \A a, b \in Int : IsFiniteSet(a..b) /\ Cardinality(a..b) = IF a > b THEN 0 ELSE b - a + 1
  BY FS_Interval, Zenon
<1>2. QED
  BY <1>1, Zenon

\* The image of a finite set is finite.
LEMMA ImageIsFinite ==
  ASSUME NEW f, IsFiniteSet(DOMAIN f)
  PROVE  IsFiniteSet({f[x] : x \in DOMAIN f})
<1> DEFINE T == {f[x] : x \in DOMAIN f}
           g == [x \in DOMAIN f |-> f[x]]
<1>1. g \in Surjection(DOMAIN f, T)
  BY DEF Surjection
<1>2. QED
  BY <1>1, FS_Surjection

------------------------------------------------------------------------------
(* What a lifecycle and a row say at a tick. *)

\* The last of the ticks of P and Q, up to t, is one of P.
OpenBy(P, Q, t) == \E u \in P : u <= t /\ \A v \in Q : v <= t => v < u

Lifecycle(P, Q) == {Transition(u, "open") : u \in P} \cup {Transition(v, "clear") : v \in Q}

LEMMA LatestTick ==
  ASSUME NEW P \in SUBSET Int, NEW Q \in SUBSET Int, IsFiniteSet(P), IsFiniteSet(Q), P \cap Q = {}, NEW t \in Int
  PROVE  LET B == {u \in P \cup Q : u <= t} IN
         /\ B = {} => ~OpenBy(P, Q, t)
         /\ B # {} => /\ MaximumOf(B) \in B /\ \A u \in B : u <= MaximumOf(B)
                      /\ OpenBy(P, Q, t) <=> MaximumOf(B) \in P
<1> DEFINE B == {u \in P \cup Q : u <= t}
<1>1. B = {} => ~OpenBy(P, Q, t)
  BY DEF OpenBy
<1>2. ASSUME B # {}
      PROVE  /\ MaximumOf(B) \in B /\ \A u \in B : u <= MaximumOf(B)
             /\ OpenBy(P, Q, t) <=> MaximumOf(B) \in P
  <2>1. IsFiniteSet(P \cup Q)
    BY FS_Union
  <2>2. B \in SUBSET (P \cup Q) /\ B \in SUBSET Int
    OBVIOUS
  <2>3. IsFiniteSet(B)
    BY <2>1, <2>2, FS_Subset
  <2>4. MaximumOf(B) \in B /\ \A u \in B : u <= MaximumOf(B)
    BY <1>2, <2>2, <2>3, MaximumIsLatest
  <2>5. ASSUME MaximumOf(B) \in P
        PROVE  OpenBy(P, Q, t)
    <3>1. ASSUME NEW v \in Q, v <= t
          PROVE  v < MaximumOf(B)
      <4>1. v <= MaximumOf(B) /\ v # MaximumOf(B)
        BY <2>4, <2>5, <3>1
      <4>2. QED
        BY <2>2, <2>4, <4>1
    <3>2. QED
      BY <2>4, <2>5, <3>1 DEF OpenBy
  <2>6. ASSUME MaximumOf(B) \notin P, OpenBy(P, Q, t)
        PROVE  FALSE
    <3>1. PICK u \in P : u <= t /\ \A v \in Q : v <= t => v < u
      BY <2>6 DEF OpenBy
    <3>2. MaximumOf(B) \in Q /\ MaximumOf(B) <= t /\ u <= MaximumOf(B)
      BY <2>4, <2>6, <3>1
    <3>3. QED
      BY <2>2, <2>4, <3>1, <3>2
  <2>7. QED
    BY <2>4, <2>5, <2>6
<1>3. QED
  BY <1>1, <1>2

LEMMA StateOfLifecycle ==
  ASSUME NEW P \in SUBSET Int, NEW Q \in SUBSET Int, IsFiniteSet(P), IsFiniteSet(Q), P \cap Q = {}, NEW t \in Int
  PROVE  StateAt(Lifecycle(P, Q), t) = IF OpenBy(P, Q, t) THEN "open" ELSE "clear"
<1> DEFINE B == {u \in P \cup Q : u <= t}
           L == Lifecycle(P, Q)
           before == {x \in L : x.tick <= t}
<1>1. \A x \in L : (x.tick \in P /\ x = Transition(x.tick, "open")) \/ (x.tick \in Q /\ x = Transition(x.tick, "clear"))
  BY DEF Lifecycle, Transition
<1>2. before = {} <=> B = {}
  <2>1. ASSUME NEW x \in before
        PROVE  x.tick \in B
    BY <1>1
  <2>2. ASSUME NEW u \in B
        PROVE  \E x \in before : TRUE
    <3>1. u \in P => Transition(u, "open") \in L
      BY DEF Lifecycle
    <3>2. u \in Q => Transition(u, "clear") \in L
      BY DEF Lifecycle
    <3>3. Transition(u, "open").tick = u /\ Transition(u, "clear").tick = u
      BY DEF Transition
    <3>4. QED
      BY <3>1, <3>2, <3>3
  <2>3. QED
    BY <2>1, <2>2
<1>3. CASE B = {}
  <2>1. ~OpenBy(P, Q, t)
    BY <1>3, LatestTick
  <2>2. QED
    BY <1>2, <1>3, <2>1 DEF StateAt
<1>4. CASE B # {}
  <2> DEFINE m == MaximumOf(B)
             last == Transition(m, IF m \in P THEN "open" ELSE "clear")
  <2>1. m \in B /\ (\A u \in B : u <= m) /\ (OpenBy(P, Q, t) <=> m \in P)
    BY <1>4, LatestTick
  <2> HIDE DEF m
  <2>2. last.tick = m /\ last.state = (IF m \in P THEN "open" ELSE "clear")
    BY DEF Transition
  <2>3. last \in before
    <3>1. last \in L
      BY <2>1 DEF Lifecycle
    <3>2. QED
      BY <2>1, <2>2, <3>1
  <2>4. ASSUME NEW y \in before, y # last
        PROVE  Precedes(y, last)
    <3>1. y.tick \in B /\ y.tick <= m
      BY <1>1, <2>1
    <3>2. y.tick # m
      BY <1>1, <2>1, <2>4
    <3>3. y.tick \in Int /\ m \in Int
      BY <1>1, <2>1
    <3> HIDE DEF B
    <3>4. y.tick < m
      BY <3>1, <3>2, <3>3
    <3>5. QED
      BY <2>2, <3>4 DEF Precedes
  <2>5. ASSUME NEW x \in before, \A y \in before : x = y \/ Precedes(y, x)
        PROVE  x = last
    <3>1. SUFFICES ASSUME x # last PROVE FALSE
      OBVIOUS
    <3>2. Precedes(last, x) /\ Precedes(x, last)
      BY <2>3, <2>4, <2>5, <3>1
    <3>3. x.tick \in Int /\ last.tick \in Int
      BY <1>1, <2>1, <2>2
    <3>4. QED
      BY <3>2, <3>3 DEF Precedes
  <2>6. (CHOOSE x \in before : \A y \in before : x = y \/ Precedes(y, x)) = last
    BY <2>3, <2>4, <2>5
  <2>7. StateAt(L, t) = last.state
    BY <1>2, <1>4, <2>6 DEF StateAt
  <2>8. QED
    BY <2>1, <2>2, <2>7
<1>5. QED
  BY <1>3, <1>4

LEMMA StateOfRow ==
  ASSUME NEW row, NEW t \in Int, Opens(row) \in SUBSET Int, row.clears \in SUBSET Int,
         IsFiniteSet(Opens(row)), IsFiniteSet(row.clears), Opens(row) \cap row.clears = {}
  PROVE  PredictedAt(row, t) = IF OpenBy(Opens(row), row.clears, t) THEN "open" ELSE "clear"
<1>1. PICK P \in SUBSET Int : P = Opens(row)
  OBVIOUS
<1>2. PICK Q \in SUBSET Int : Q = row.clears
  OBVIOUS
<1> DEFINE B == {u \in P \cup Q : u <= t}
<1>3. /\ B = {} => ~OpenBy(P, Q, t)
      /\ B # {} => (OpenBy(P, Q, t) <=> MaximumOf(B) \in P)
  <2>1. IsFiniteSet(P) /\ IsFiniteSet(Q) /\ P \cap Q = {}
    BY <1>1, <1>2
  <2>2. QED
    BY <2>1, LatestTick
<1>4. PredictedAt(row, t) = IF B # {} /\ MaximumOf(B) \in P THEN "open" ELSE "clear"
  BY <1>1, <1>2 DEF PredictedAt
<1>5. QED
  BY <1>1, <1>2, <1>3, <1>4

------------------------------------------------------------------------------
(* The templates, and the truth of a case. *)

TemplateOK(t) ==
  /\ t.required \in BOOLEAN /\ t.recurs \in BOOLEAN /\ t.delayed \in BOOLEAN /\ t.clears \in BOOLEAN
  /\ IF t.required THEN t.state \in Drifted ELSE t.state \in Restored /\ t.dimension = "policy"
  /\ t.recurs => t.required /\ t.complete = TRUE /\ t.remediation # Unset
  /\ t.remediation # Unset => /\ t.required /\ t.dimension # "policy"
                              /\ t.remediation \in Drifted \cup Restored
                              /\ t.remediation \in Restored <=> t.complete = TRUE
  /\ t.remediation = Unset => t.complete # TRUE
  /\ t.complete = TRUE => ~t.clears
  /\ t.required => t.dimension # Unset /\ t.continuous # Unset
  /\ t.later # Unset => t.required /\ t.later \in Restored /\ (t.clears <=> t.dimension # "policy")
  /\ t.later = Unset => ~t.clears

LEMMA StatesAreApart == Unset \notin Drifted \cup Restored \cup BOOLEAN /\ Unset \notin Nat /\ Drifted \cap Restored = {}
BY UnsetAssumption DEF Drifted, Restored

LEMMA TemplatesAreOK == \A k \in 1..8 : TemplateOK(Templates[k])
<1>1. Unset \notin Drifted \cup Restored \cup Dimensions /\ Unset # TRUE /\ Unset # FALSE
  BY UnsetAssumption
<1>2. TemplateOK(Templates[1])
  BY <1>1 DEF TemplateOK, Templates, Template, Drifted, Restored, Dimensions
<1>3. TemplateOK(Templates[2])
  BY <1>1 DEF TemplateOK, Templates, Template, Drifted, Restored, Dimensions
<1>4. TemplateOK(Templates[3])
  BY <1>1 DEF TemplateOK, Templates, Template, Drifted, Restored, Dimensions
<1>5. TemplateOK(Templates[4])
  BY <1>1 DEF TemplateOK, Templates, Template, Drifted, Restored, Dimensions
<1>6. TemplateOK(Templates[5])
  BY <1>1 DEF TemplateOK, Templates, Template, Drifted, Restored, Dimensions
<1>7. TemplateOK(Templates[6])
  BY <1>1 DEF TemplateOK, Templates, Template, Drifted, Restored, Dimensions
<1>8. TemplateOK(Templates[7])
  BY <1>1 DEF TemplateOK, Templates, Template, Drifted, Restored, Dimensions
<1>9. TemplateOK(Templates[8])
  BY <1>1 DEF TemplateOK, Templates, Template, Drifted, Restored, Dimensions
<1>10. \A k \in 1..8 : k = 1 \/ k = 2 \/ k = 3 \/ k = 4 \/ k = 5 \/ k = 6 \/ k = 7 \/ k = 8
  OBVIOUS
<1>11. QED
  BY <1>2, <1>3, <1>4, <1>5, <1>6, <1>7, <1>8, <1>9, <1>10

LEMMA CaseNumbers ==
  ASSUME NEW c \in TierCases
  PROVE  c \in Nat /\ c >= 1 /\ ((c - 1) % 8) + 1 \in 1..8 /\ (c - 1) \div 8 \in Nat
<1>1. c \in Nat /\ c >= 1
  BY GenerationAssumption DEF TierCases
<1>2. QED
  BY <1>1

LEMMA TemplateOfIsOK ==
  ASSUME NEW c \in TierCases
  PROVE  TemplateOK(TemplateOf(c))
BY CaseNumbers, TemplatesAreOK DEF TemplateOf

LEMMA TierCasesAreFinite == IsFiniteSet(TierCases) /\ TierCases # {}
<1>1. 8 * Cycles \in Int /\ 8 * Cycles >= 1
  BY GenerationAssumption
<1>2. IsFiniteSet(1..(8 * Cycles))
  BY <1>1, IntervalIsFinite
<1>3. QED
  BY <1>1, <1>2 DEF TierCases

LEMMA BaseTickIsTick ==
  ASSUME NEW c \in TierCases, NEW seed \in Seeds, NEW order \in Orders
  PROVE  BaseTick(c, seed, order) \in Nat
<1>1. \E i \in 1..8 : order[i] = ((c - 1) % 8) + 1
  BY CaseNumbers, GenerationAssumption
<1>2. PlaceOf(c, order) \in 1..8
  BY <1>1 DEF PlaceOf
<1>3. seed % 7 \in Nat
  BY GenerationAssumption
<1>4. QED
  BY <1>2, <1>3, CaseNumbers DEF BaseTick

TruthOK(row) ==
  /\ row.required \in BOOLEAN
  /\ row.required => row.opened \in Nat /\ row.observable = row.opened
  /\ ~row.required => row.opened = Unset /\ row.clears = {} /\ row.recurrences = <<>>
  /\ Opens(row) \in SUBSET Nat /\ IsFiniteSet(Opens(row))
  /\ row.clears \in SUBSET Nat /\ IsFiniteSet(row.clears)
  /\ Opens(row) \cap row.clears = {}
  /\ row.lifecycle = Lifecycle(Opens(row), row.clears)

LEMMA ObservationIsTick ==
  ASSUME NEW c \in TierCases, NEW b \in Nat
  PROVE  Observation(c, b) \in Nat /\ Observation(c, b) >= b + 4
BY DEF Observation

\* The openings and the clears of a case, from the tick of its observation.
LEMMA TruthOfCase ==
  ASSUME NEW c \in TierCases, NEW b \in Nat
  PROVE  LET o == Observation(c, b)
             row == Truth(c, b) IN
         /\ row.required = TemplateOf(c).required
         /\ Opens(row) = (IF TemplateOf(c).required THEN {o} ELSE {})
                         \cup (IF TemplateOf(c).recurs THEN {o + 13} ELSE {})
         /\ row.clears = (IF TemplateOf(c).required THEN ExpectedClears(c, b) ELSE {})
         /\ TruthOK(row)
<1> DEFINE o == Observation(c, b)
           row == Truth(c, b)
           template == TemplateOf(c)
<1>1. TemplateOK(template)
  BY TemplateOfIsOK
<1>2. o \in Nat /\ Unset \notin Nat
  BY ObservationIsTick, StatesAreApart
<1>3. ToSet(<<o + 13>>) = {o + 13} /\ ToSet(<<>>) = {}
  <2>1. ToSet(<<>>) = {}
    BY DEF ToSet
  <2>2. DOMAIN <<o + 13>> = {1}
    OBVIOUS
  <2>3. QED
    BY <2>1, <2>2 DEF ToSet
<1>4. CASE ~template.required
  <2>1. /\ row.required = FALSE /\ row.opened = Unset /\ row.clears = {} /\ row.recurrences = <<>>
        /\ row.lifecycle = {}
    BY <1>4 DEF Truth
  <2>2. Opens(row) = {} /\ ~template.recurs
    BY <1>1, <1>3, <1>4, <2>1 DEF Opens, TemplateOK
  <2>3. Lifecycle({}, {}) = {}
    BY DEF Lifecycle
  <2>4. QED
    BY <1>1, <1>4, <2>1, <2>2, <2>3, FS_EmptySet DEF TruthOK, TemplateOK
<1>5. CASE template.required
  <2> DEFINE again == IF template.recurs THEN <<o + 13>> ELSE <<>>
  <2>1. /\ row.required = TRUE /\ row.opened = o /\ row.observable = o /\ row.clears = ExpectedClears(c, b)
        /\ row.recurrences = again
        /\ row.lifecycle = Lifecycle({o} \cup ToSet(again), ExpectedClears(c, b))
    BY <1>5 DEF Truth, Lifecycle
  <2>2. Opens(row) = {o} \cup ToSet(again)
    BY <1>2, <2>1 DEF Opens
  <2>3. ToSet(again) = IF template.recurs THEN {o + 13} ELSE {}
    BY <1>3
  <2>4. Opens(row) \in SUBSET Nat /\ Opens(row) \subseteq {o, o + 13}
    BY <1>2, <2>2, <2>3
  <2>5. row.clears \in SUBSET Nat /\ row.clears \subseteq {o + 4, o + 5, o + 17}
    BY <1>2, <2>1 DEF ExpectedClears
  <2>6. IsFiniteSet(Opens(row)) /\ IsFiniteSet(row.clears)
    <3>1. IsFiniteSet(0..(o + 17))
      BY <1>2, IntervalIsFinite
    <3>2. Opens(row) \in SUBSET (0..(o + 17)) /\ row.clears \in SUBSET (0..(o + 17)) /\ o + 17 \in Int
      BY <1>2, <2>4, <2>5
    <3>3. QED
      BY <3>1, <3>2, FS_Subset
  <2>7. Opens(row) \cap row.clears = {}
    BY <1>2, <2>4, <2>5
  <2>8. QED
    BY <1>1, <1>2, <1>5, <2>1, <2>2, <2>3, <2>4, <2>5, <2>6, <2>7 DEF TruthOK, TemplateOK
<1>6. QED
  BY <1>1, <1>4, <1>5 DEF TemplateOK

------------------------------------------------------------------------------
(* The events of a case. *)

CaseEvents(c, b) == CaseSignals(c, b) \cup CaseRemediations(c, b)

CaseClears(c, b) ==
  {s \in CaseSignals(c, b) : s.state \in Restored /\ s.dimension # "policy"}
  \cup {r \in CaseRemediations(c, b) : r.state \in Restored}

LEMMA EventFields ==
  ASSUME NEW c \in TierCases, NEW first \in Nat, NEW n, NEW state
  PROVE  LET e == EventFrom(c, n, state, first) IN
         /\ e.case = c /\ e.dimension = TemplateOf(c).dimension /\ e.state = state
         /\ e.effective = first + 2 /\ e.observation = first + 3 /\ e.audit = first + 4
BY DEF EventFrom

LEMMA FirstSignalFields ==
  ASSUME NEW c \in TierCases, NEW b \in Nat
  PROVE  LET e == FirstSignal(c, b) IN
         /\ e.case = c /\ e.dimension = TemplateOf(c).dimension /\ e.state = TemplateOf(c).state
         /\ e.effective = b + 3 /\ e.observation = Observation(c, b) /\ e.audit = Observation(c, b) + 1
BY DEF FirstSignal, EventFrom

\* What a case shows, by its template.
LEMMA SignalsOfCase ==
  ASSUME NEW c \in TierCases, NEW b \in Nat
  PROVE  LET o == Observation(c, b)
             t == TemplateOf(c) IN
         /\ \A s \in CaseSignals(c, b) :
              /\ s.case = c /\ s.dimension = t.dimension
              /\ s.effective \in Nat /\ s.audit \in Nat /\ s.audit = s.observation + 1
              /\ \/ s.state = t.state /\ s.observation = o
                 \/ t.later # Unset /\ s.state = t.later /\ s.observation = o + 5
                 \/ t.recurs /\ s.state = t.state /\ s.observation = o + 13
         /\ \E s \in CaseSignals(c, b) : s.state = t.state /\ s.dimension = t.dimension /\ s.observation = o
         /\ t.later # Unset =>
              \E s \in CaseSignals(c, b) : s.state = t.later /\ s.dimension = t.dimension /\ s.observation = o + 5
         /\ t.recurs =>
              \E s \in CaseSignals(c, b) : s.state = t.state /\ s.dimension = t.dimension /\ s.observation = o + 13
         /\ IsFiniteSet(CaseSignals(c, b))
<1> DEFINE o == Observation(c, b)
           t == TemplateOf(c)
           s1 == FirstSignal(c, b)
           s2 == EventFrom(c, 2, t.later, o + 2)
           s3 == EventFrom(c, 3, t.state, o + 10)
<1>1. o \in Nat /\ o + 2 \in Nat /\ o + 10 \in Nat
  BY ObservationIsTick
<1>2. /\ s1.case = c /\ s1.dimension = t.dimension /\ s1.state = t.state
      /\ s1.effective \in Nat /\ s1.audit \in Nat /\ s1.observation = o
      /\ s1.audit = s1.observation + 1
  BY <1>1, FirstSignalFields
<1>3. /\ s2.case = c /\ s2.dimension = t.dimension /\ s2.state = t.later
      /\ s2.effective \in Nat /\ s2.audit \in Nat /\ s2.observation = o + 5
      /\ s2.audit = s2.observation + 1
  BY <1>1, EventFields
<1>4. /\ s3.case = c /\ s3.dimension = t.dimension /\ s3.state = t.state
      /\ s3.effective \in Nat /\ s3.audit \in Nat /\ s3.observation = o + 13
      /\ s3.audit = s3.observation + 1
  BY <1>1, EventFields
<1>5. CaseSignals(c, b) =
        {s1} \cup (IF t.later = Unset THEN {} ELSE {s2}) \cup (IF t.recurs THEN {s3} ELSE {})
  BY DEF CaseSignals
<1> HIDE DEF s1, s2, s3, o, t
<1>6. IsFiniteSet(CaseSignals(c, b))
  <2>1. CaseSignals(c, b) \in SUBSET {s1, s2, s3}
    BY <1>5
  <2>2. IsFiniteSet({s1, s2, s3})
    <3>1. {s1, s2, s3} = ({s1} \cup {s2}) \cup {s3}
      OBVIOUS
    <3>2. IsFiniteSet({s1} \cup {s2})
      BY FS_Singleton, FS_AddElement
    <3>3. QED
      BY <3>1, <3>2, FS_AddElement
  <2>3. QED
    BY <2>1, <2>2, FS_Subset
<1>7. QED
  BY <1>2, <1>3, <1>4, <1>5, <1>6 DEF o, t

LEMMA RemediationsOfCase ==
  ASSUME NEW c \in TierCases, NEW b \in Nat
  PROVE  LET o == Observation(c, b)
             t == TemplateOf(c) IN
         /\ \A r \in CaseRemediations(c, b) :
              /\ r.case = c /\ r.dimension = t.dimension
              /\ r.effective \in Nat /\ r.audit \in Nat /\ r.audit = r.observation + 1
              /\ t.remediation # Unset /\ r.state = t.remediation
              /\ r.observation = o + 4 \/ (t.recurs /\ r.observation = o + 17)
         /\ t.remediation # Unset => \E r \in CaseRemediations(c, b) : r.state = t.remediation /\ r.observation = o + 4
         /\ t.remediation # Unset /\ t.recurs =>
              \E r \in CaseRemediations(c, b) : r.state = t.remediation /\ r.observation = o + 17
         /\ IsFiniteSet(CaseRemediations(c, b))
<1> DEFINE o == Observation(c, b)
           t == TemplateOf(c)
           r4 == EventFrom(c, 4, t.remediation, o + 1)
           r5 == EventFrom(c, 5, t.remediation, o + 14)
<1>1. o \in Nat /\ o + 1 \in Nat /\ o + 14 \in Nat
  BY ObservationIsTick
<1>2. /\ r4.case = c /\ r4.dimension = t.dimension /\ r4.state = t.remediation
      /\ r4.effective \in Nat /\ r4.audit \in Nat /\ r4.observation = o + 4
      /\ r4.audit = r4.observation + 1
  BY <1>1, EventFields
<1>3. /\ r5.case = c /\ r5.dimension = t.dimension /\ r5.state = t.remediation
      /\ r5.effective \in Nat /\ r5.audit \in Nat /\ r5.observation = o + 17
      /\ r5.audit = r5.observation + 1
  BY <1>1, EventFields
<1>4. CaseRemediations(c, b) =
        IF t.remediation = Unset THEN {} ELSE {r4} \cup (IF t.recurs THEN {r5} ELSE {})
  BY DEF CaseRemediations
<1> HIDE DEF r4, r5, o, t
<1>5. IsFiniteSet(CaseRemediations(c, b))
  <2>1. CaseRemediations(c, b) \in SUBSET ({r4} \cup {r5})
    BY <1>4
  <2>2. IsFiniteSet({r4} \cup {r5})
    BY FS_Singleton, FS_AddElement
  <2>3. QED
    BY <2>1, <2>2, FS_Subset
<1>6. QED
  BY <1>2, <1>3, <1>4, <1>5 DEF o, t

\* An event is in effect when it is observed, and audited after that.
LEMMA TimesOfCase ==
  ASSUME NEW c \in TierCases, NEW b \in Nat, NEW e \in CaseEvents(c, b)
  PROVE  e.effective <= e.observation /\ e.observation <= e.audit
<1> DEFINE o == Observation(c, b)
           t == TemplateOf(c)
<1>1. o \in Nat /\ o >= b + 4
  BY ObservationIsTick
<1>2. \A n, state : \A first \in Nat :
        LET x == EventFrom(c, n, state, first) IN x.effective <= x.observation /\ x.observation <= x.audit
  BY EventFields
<1>3. LET x == FirstSignal(c, b) IN x.effective <= x.observation /\ x.observation <= x.audit
  BY <1>1, FirstSignalFields
<1>4. o + 2 \in Nat /\ o + 10 \in Nat /\ o + 1 \in Nat /\ o + 14 \in Nat
  BY <1>1
<1>5. \/ e = FirstSignal(c, b)
      \/ \E n, state : \E first \in {o + 2, o + 10, o + 1, o + 14} : e = EventFrom(c, n, state, first)
  BY DEF CaseEvents, CaseSignals, CaseRemediations
<1>6. QED
  BY <1>2, <1>3, <1>4, <1>5

\* A case opens when a problem of it is observed, and clears when what closes it is.
LEMMA ObservationsOfCase ==
  ASSUME NEW c \in TierCases, NEW b \in Nat
  PROVE  /\ {s.observation : s \in {x \in CaseSignals(c, b) : x.state \in Drifted}} = Opens(Truth(c, b))
         /\ {e.observation : e \in CaseClears(c, b)} = Truth(c, b).clears
<1> DEFINE o == Observation(c, b)
           t == TemplateOf(c)
<1>1. TemplateOK(t) /\ o \in Nat
  BY TemplateOfIsOK, ObservationIsTick
<1>2. /\ Opens(Truth(c, b)) = (IF t.required THEN {o} ELSE {}) \cup (IF t.recurs THEN {o + 13} ELSE {})
      /\ Truth(c, b).clears = (IF t.required THEN ExpectedClears(c, b) ELSE {})
  BY TruthOfCase
<1>3. ExpectedClears(c, b) = (IF t.complete = TRUE THEN {o + 4} ELSE {})
        \cup (IF t.clears THEN {o + 5} ELSE {}) \cup (IF t.recurs THEN {o + 17} ELSE {})
  BY DEF ExpectedClears
<1> DEFINE S == CaseSignals(c, b)
           R == CaseRemediations(c, b)
<1>4. /\ \A s \in S : /\ s.dimension = t.dimension
                      /\ \/ s.state = t.state /\ s.observation = o
                         \/ t.later # Unset /\ s.state = t.later /\ s.observation = o + 5
                         \/ t.recurs /\ s.state = t.state /\ s.observation = o + 13
      /\ \E s \in S : s.state = t.state /\ s.observation = o
      /\ t.later # Unset => \E s \in S : s.state = t.later /\ s.dimension = t.dimension /\ s.observation = o + 5
      /\ t.recurs => \E s \in S : s.state = t.state /\ s.observation = o + 13
  BY SignalsOfCase
<1>5. /\ \A r \in R : /\ t.remediation # Unset /\ r.state = t.remediation
                      /\ r.observation = o + 4 \/ (t.recurs /\ r.observation = o + 17)
      /\ t.remediation # Unset => \E r \in R : r.state = t.remediation /\ r.observation = o + 4
      /\ t.remediation # Unset /\ t.recurs => \E r \in R : r.state = t.remediation /\ r.observation = o + 17
  BY RemediationsOfCase
<1>6. CaseClears(c, b) = {s \in S : s.state \in Restored /\ s.dimension # "policy"} \cup {r \in R : r.state \in Restored}
  BY DEF CaseClears
<1>7. Drifted \cap Restored = {}
  BY StatesAreApart
<1> HIDE DEF S, R, o, t
<1>8. {s.observation : s \in {x \in S : x.state \in Drifted}} = Opens(Truth(c, b))
  <2>1. ASSUME NEW s \in S, s.state \in Drifted
        PROVE  s.observation \in Opens(Truth(c, b))
    BY <1>1, <1>2, <1>4, <1>7, <2>1 DEF TemplateOK
  <2>2. ASSUME NEW u \in Opens(Truth(c, b))
        PROVE  \E s \in S : s.state \in Drifted /\ s.observation = u
    BY <1>1, <1>2, <1>4, <2>2 DEF TemplateOK
  <2>3. QED
    BY <2>1, <2>2
<1>9. {e.observation : e \in CaseClears(c, b)} = Truth(c, b).clears
  <2>1. ASSUME NEW s \in S, s.state \in Restored, s.dimension # "policy"
        PROVE  s.observation \in Truth(c, b).clears
    BY <1>1, <1>2, <1>3, <1>4, <1>7, <2>1 DEF TemplateOK
  <2>2. ASSUME NEW r \in R, r.state \in Restored
        PROVE  r.observation \in Truth(c, b).clears
    BY <1>1, <1>2, <1>3, <1>5, <2>2 DEF TemplateOK
  <2>3. ASSUME NEW v \in Truth(c, b).clears
        PROVE  \E e \in CaseClears(c, b) : e.observation = v
    <3>1. t.required /\ v \in ExpectedClears(c, b)
      BY <1>2
    <3>2. CASE t.complete = TRUE /\ v = o + 4
      <4>1. t.remediation # Unset /\ t.remediation \in Restored
        BY <1>1, <3>2 DEF TemplateOK
      <4>2. QED
        BY <1>5, <1>6, <3>2, <4>1
    <3>3. CASE t.clears /\ v = o + 5
      <4>1. t.later # Unset /\ t.later \in Restored /\ t.dimension # "policy"
        BY <1>1, <3>3 DEF TemplateOK
      <4>2. QED
        BY <1>4, <1>6, <3>3, <4>1
    <3>4. CASE t.recurs /\ v = o + 17
      <4>1. t.remediation # Unset /\ t.remediation \in Restored
        BY <1>1, <3>4 DEF TemplateOK
      <4>2. QED
        BY <1>5, <1>6, <3>4, <4>1
    <3>5. QED
      BY <1>3, <3>1, <3>2, <3>3, <3>4
  <2>4. QED
    BY <1>6, <2>1, <2>2, <2>3
<1>10. QED
  BY <1>8, <1>9 DEF S

------------------------------------------------------------------------------
(* The generated package. *)

PackageInv ==
  /\ base \in [TierCases -> Nat]
  /\ truth = [c \in TierCases |-> Truth(c, base[c])]
  /\ genSignals = UNION {CaseSignals(c, base[c]) : c \in TierCases}
  /\ genRemediations = UNION {CaseRemediations(c, base[c]) : c \in TierCases}
  /\ genWindows = UNION {CaseWindows(c, base[c]) : c \in TierCases}
  /\ genCheckpoints = GeneratedCheckpoints(genSignals, genRemediations, genWindows, {truth[c] : c \in TierCases})
  /\ IsFiniteSet(genCheckpoints) /\ \A p \in genCheckpoints : p.tick \in Nat
  /\ tick \in Nat

LEMMA TruthIsOK ==
  ASSUME PackageInv, NEW c \in TierCases
  PROVE  TruthOK(truth[c]) /\ truth[c] = Truth(c, base[c]) /\ base[c] \in Nat
<1>1. base[c] \in Nat /\ truth[c] = Truth(c, base[c])
  BY DEF PackageInv
<1>2. QED
  BY <1>1, TruthOfCase

\* What is expected to be open at a tick is what the last observation of the case says.
LEMMA ExpectedStates ==
  ASSUME PackageInv, NEW c \in TierCases, NEW t \in Int
  PROVE  StateAt(truth[c].lifecycle, t) = IF OpenBy(Opens(truth[c]), truth[c].clears, t) THEN "open" ELSE "clear"
<1>1. TruthOK(truth[c])
  BY TruthIsOK
<1>2. PICK P \in SUBSET Int : P = Opens(truth[c])
  BY <1>1 DEF TruthOK
<1>3. PICK Q \in SUBSET Int : Q = truth[c].clears
  BY <1>1 DEF TruthOK
<1>4. IsFiniteSet(P) /\ IsFiniteSet(Q) /\ P \cap Q = {} /\ truth[c].lifecycle = Lifecycle(P, Q)
  BY <1>1, <1>2, <1>3 DEF TruthOK
<1>5. QED
  BY <1>2, <1>3, <1>4, StateOfLifecycle

LEMMA FindingFollows ==
  ASSUME PackageInv
  PROVE  FindingFollowsObservation
<1> SUFFICES ASSUME NEW c \in TierCases
             PROVE  (StateAt(truth[c].lifecycle, tick) = "open") =
                      \E s \in Generated!ObservedAt(Generated!SignalsOf(c), tick) :
                        /\ s.state \in Drifted
                        /\ ~\E e \in Generated!ObservedAt(Generated!EventsOf(c), tick) :
                             Closes(e) /\ e.observation > s.observation
  BY DEF FindingFollowsObservation
<1> DEFINE S == CaseSignals(c, base[c])
           R == CaseRemediations(c, base[c])
           D == {x \in S : x.state \in Drifted}
           P == Opens(truth[c])
           Q == truth[c].clears
<1>1. base[c] \in Nat /\ truth[c] = Truth(c, base[c]) /\ TruthOK(truth[c]) /\ tick \in Nat
  BY TruthIsOK DEF PackageInv
<1>2. Generated!SignalsOf(c) = S /\ {r \in genRemediations : r.case = c} = R
  <2>1. \A d \in TierCases : base[d] \in Nat
    BY DEF PackageInv
  <2>2. \A d \in TierCases : (\A s \in CaseSignals(d, base[d]) : s.case = d)
                             /\ \A r \in CaseRemediations(d, base[d]) : r.case = d
    BY <2>1, SignalsOfCase, RemediationsOfCase
  <2>3. genSignals = UNION {CaseSignals(d, base[d]) : d \in TierCases}
    BY DEF PackageInv
  <2>4. genRemediations = UNION {CaseRemediations(d, base[d]) : d \in TierCases}
    BY DEF PackageInv
  <2>5. {s \in genSignals : s.case = c} = S
    <3>1. \A s \in genSignals : s.case = c => s \in S
      BY <2>2, <2>3
    <3>2. \A s \in S : s \in genSignals /\ s.case = c
      BY <2>2, <2>3
    <3>3. QED
      BY <3>1, <3>2
  <2>6. {r \in genRemediations : r.case = c} = R
    <3>1. \A r \in genRemediations : r.case = c => r \in R
      BY <2>2, <2>4
    <3>2. \A r \in R : r \in genRemediations /\ r.case = c
      BY <2>2, <2>4
    <3>3. QED
      BY <3>1, <3>2
  <2>7. QED
    BY <2>5, <2>6 DEF Generated!SignalsOf
<1>3. Generated!EventsOf(c) = S \cup R
  BY <1>2 DEF Generated!EventsOf, Generated!Events, Generated!SignalsOf
<1>4. {e \in Generated!EventsOf(c) : Closes(e)} = CaseClears(c, base[c])
  <2>1. S \subseteq genSignals
    BY <1>2 DEF Generated!SignalsOf
  <2>2. \A r \in R : r.dimension # "policy" \/ r.state \notin Restored
    <3>1. TemplateOK(TemplateOf(c))
      BY TemplateOfIsOK
    <3>2. \A r \in R : r.dimension = TemplateOf(c).dimension /\ TemplateOf(c).remediation # Unset
      BY <1>1, RemediationsOfCase
    <3>3. QED
      BY <3>1, <3>2 DEF TemplateOK
  <2>3. \A e \in S : Closes(e) <=> e.state \in Restored /\ e.dimension # "policy"
    BY <2>1 DEF Closes
  <2>4. \A e \in R : Closes(e) <=> e.state \in Restored
    BY <2>2 DEF Closes
  <2> HIDE DEF S, R
  <2>5. CaseClears(c, base[c]) = {s \in S : s.state \in Restored /\ s.dimension # "policy"} \cup {r \in R : r.state \in Restored}
    BY DEF CaseClears, S, R
  <2>6. QED
    BY <1>3, <2>3, <2>4, <2>5
<1>5. /\ {s.observation : s \in D} = P
      /\ {e.observation : e \in CaseClears(c, base[c])} = Q
  BY <1>1, ObservationsOfCase
<1>6. P \in SUBSET Nat /\ Q \in SUBSET Nat /\ P \cap Q = {}
  BY <1>1 DEF TruthOK
<1> HIDE DEF P, Q, D, S
<1>7. (\E s \in Generated!ObservedAt(Generated!SignalsOf(c), tick) :
         /\ s.state \in Drifted
         /\ ~\E e \in Generated!ObservedAt(Generated!EventsOf(c), tick) :
              Closes(e) /\ e.observation > s.observation)
      <=> \E u \in P : u <= tick /\ ~\E v \in Q : v <= tick /\ v > u
  <2>1. ASSUME NEW s \in D
        PROVE  (\E e \in Generated!ObservedAt(Generated!EventsOf(c), tick) :
                  Closes(e) /\ e.observation > s.observation)
               <=> \E v \in Q : v <= tick /\ v > s.observation
    BY <1>4, <1>5 DEF Generated!ObservedAt
  <2>2. \A s : (s \in Generated!ObservedAt(Generated!SignalsOf(c), tick) /\ s.state \in Drifted)
               <=> s \in D /\ s.observation <= tick
    BY <1>2 DEF D, Generated!ObservedAt
  <2>3. QED
    BY <1>5, <2>1, <2>2
<1>8. (\E u \in P : u <= tick /\ ~\E v \in Q : v <= tick /\ v > u) <=> OpenBy(P, Q, tick)
  <2>1. \A u \in P, v \in Q : ~(v > u) <=> v < u
    BY <1>6
  <2>2. QED
    BY <2>1 DEF OpenBy
<1>9. (StateAt(truth[c].lifecycle, tick) = "open") <=> OpenBy(P, Q, tick)
  BY <1>1, ExpectedStates DEF P, Q
<1>10. QED
  BY <1>7, <1>8, <1>9

\* A union over the cases of finite sets of numbers, or of other things, is finite.
LEMMA UnionOfFinite ==
  ASSUME NEW f, IsFiniteSet(DOMAIN f), \A x \in DOMAIN f : IsFiniteSet(f[x])
  PROVE  IsFiniteSet(UNION {f[x] : x \in DOMAIN f})
<1>1. IsFiniteSet({f[x] : x \in DOMAIN f})
  BY ImageIsFinite
<1>2. QED
  BY <1>1, FS_UNION

\* The checkpoints of a package are at finitely many ticks.
LEMMA TicksOfPackage ==
  ASSUME NEW events, IsFiniteSet(events),
         \A e \in events : e.effective \in Nat /\ e.observation \in Nat /\ e.audit \in Nat,
         NEW row, IsFiniteSet(DOMAIN row), \A c \in DOMAIN row : TruthOK(row[c]),
         NEW last \in Nat
  PROVE  LET T == CheckpointTicks(events, {row[c] : c \in DOMAIN row}, last) IN
         IsFiniteSet(T) /\ T \in SUBSET Nat
<1> DEFINE E == [e \in events |-> {e.effective, e.observation, e.audit}]
           L == [c \in DOMAIN row |-> {x.tick : x \in row[c].lifecycle}]
           T == CheckpointTicks(events, {row[c] : c \in DOMAIN row}, last)
<1>1. IsFiniteSet(UNION {E[e] : e \in DOMAIN E}) /\ UNION {E[e] : e \in DOMAIN E} \in SUBSET Nat
  <2>1. \A e \in DOMAIN E : IsFiniteSet(E[e])
    <3> SUFFICES ASSUME NEW e \in events
                 PROVE  IsFiniteSet({e.effective, e.observation, e.audit})
      OBVIOUS
    <3>1. {e.effective, e.observation, e.audit} = ({e.effective} \cup {e.observation}) \cup {e.audit}
      OBVIOUS
    <3>2. IsFiniteSet({e.effective} \cup {e.observation})
      BY FS_Singleton, FS_AddElement
    <3>3. IsFiniteSet(({e.effective} \cup {e.observation}) \cup {e.audit})
      BY <3>2, FS_AddElement
    <3>4. QED
      BY <3>1, <3>3, Zenon
  <2>2. UNION {E[e] : e \in DOMAIN E} \in SUBSET Nat
    OBVIOUS
  <2>3. DOMAIN E = events
    OBVIOUS
  <2> HIDE DEF E
  <2>4. QED
    BY <2>1, <2>2, <2>3, UnionOfFinite
<1>2. IsFiniteSet(UNION {L[c] : c \in DOMAIN L}) /\ UNION {L[c] : c \in DOMAIN L} \in SUBSET Nat
  <2>1. \A c \in DOMAIN row : L[c] = Opens(row[c]) \cup row[c].clears
    <3> SUFFICES ASSUME NEW c \in DOMAIN row
                 PROVE  {x.tick : x \in row[c].lifecycle} = Opens(row[c]) \cup row[c].clears
      OBVIOUS
    <3>1. row[c].lifecycle = Lifecycle(Opens(row[c]), row[c].clears)
      BY DEF TruthOK
    <3>2. \A u, state : Transition(u, state).tick = u
      BY DEF Transition
    <3>3. QED
      BY <3>1, <3>2 DEF Lifecycle
  <2>2. DOMAIN L = DOMAIN row
    OBVIOUS
  <2> HIDE DEF L
  <2>3. ASSUME NEW c \in DOMAIN L
        PROVE  IsFiniteSet(L[c]) /\ L[c] \in SUBSET Nat
    <3>1. /\ IsFiniteSet(Opens(row[c])) /\ IsFiniteSet(row[c].clears)
          /\ Opens(row[c]) \in SUBSET Nat /\ row[c].clears \in SUBSET Nat
      BY <2>2 DEF TruthOK
    <3>2. IsFiniteSet(Opens(row[c]) \cup row[c].clears)
      BY <3>1, FS_Union
    <3>3. QED
      BY <2>1, <2>2, <3>1, <3>2
  <2>4. IsFiniteSet(UNION {L[c] : c \in DOMAIN L})
    BY <2>2, <2>3, UnionOfFinite
  <2>5. UNION {L[c] : c \in DOMAIN L} \in SUBSET Nat
    BY <2>3
  <2>6. QED
    BY <2>4, <2>5
<1> DEFINE ofEvents == UNION {E[e] : e \in DOMAIN E}
           ofTruth == UNION {L[c] : c \in DOMAIN L}
<1>3. T = (({0} \cup {last}) \cup ofEvents) \cup ofTruth
  <2> DEFINE rows == {row[c] : c \in DOMAIN row}
  <2>1. \A e \in events : E[e] = {e.effective, e.observation, e.audit}
    OBVIOUS
  <2>2. {E[e] : e \in DOMAIN E} = {{e.effective, e.observation, e.audit} : e \in events}
    BY <2>1
  <2>3. {L[c] : c \in DOMAIN L} = {{x.tick : x \in y.lifecycle} : y \in rows}
    <3>1. \A c \in DOMAIN row : L[c] = {x.tick : x \in row[c].lifecycle}
      OBVIOUS
    <3>2. DOMAIN L = DOMAIN row
      OBVIOUS
    <3> HIDE DEF L
    <3>3. QED
      BY <3>1, <3>2
  <2>4. T = {0, last} \cup (UNION {{e.effective, e.observation, e.audit} : e \in events})
            \cup (UNION {{x.tick : x \in y.lifecycle} : y \in rows})
    BY DEF CheckpointTicks
  <2>5. {0, last} = {0} \cup {last}
    OBVIOUS
  <2>6. ofEvents = UNION {{e.effective, e.observation, e.audit} : e \in events}
    BY <2>2, Zenon
  <2>7. ofTruth = UNION {{x.tick : x \in y.lifecycle} : y \in rows}
    BY <2>3, Zenon
  <2> HIDE DEF T, ofEvents, ofTruth
  <2>8. QED
    BY <2>4, <2>5, <2>6, <2>7, Zenon
<1> HIDE DEF E, L, T
<1>4. /\ IsFiniteSet(ofEvents) /\ ofEvents \in SUBSET Nat
      /\ IsFiniteSet(ofTruth) /\ ofTruth \in SUBSET Nat
  BY <1>1, <1>2
<1> HIDE DEF ofEvents, ofTruth
<1>5. IsFiniteSet({0} \cup {last})
  BY FS_Singleton, FS_AddElement
<1>6. IsFiniteSet(({0} \cup {last}) \cup ofEvents)
  BY <1>4, <1>5, FS_Union
<1>7. IsFiniteSet((({0} \cup {last}) \cup ofEvents) \cup ofTruth)
  BY <1>4, <1>6, FS_Union
<1>8. IsFiniteSet(T)
  BY <1>3, <1>7, Zenon
<1>9. T \in SUBSET Nat
  BY <1>3, <1>4
<1>10. QED
  BY <1>8, <1>9 DEF T

\* Where each case starts, its events and its window.
FromBase ==
  /\ base \in [TierCases -> Nat]
  /\ genSignals = UNION {CaseSignals(c, base[c]) : c \in TierCases}
  /\ genRemediations = UNION {CaseRemediations(c, base[c]) : c \in TierCases}
  /\ genWindows = UNION {CaseWindows(c, base[c]) : c \in TierCases}

LEMMA TicksFromBase ==
  ASSUME FromBase
  PROVE  LET events == genSignals \cup genRemediations
             last == GeneratedHorizon(events, genWindows) IN
         /\ IsFiniteSet(events) /\ IsFiniteSet(genWindows)
         /\ \A e \in events : /\ e.effective \in Nat /\ e.observation \in Nat /\ e.audit \in Nat
                               /\ e.audit < last
         /\ \A w \in genWindows : w.restored \in Nat /\ w.restored < last
         /\ last \in Nat
<1> DEFINE events == genSignals \cup genRemediations
           last == GeneratedHorizon(events, genWindows)
<1>1. \A c \in TierCases : base[c] \in Nat
  BY DEF FromBase
<1>2. /\ genSignals = UNION {CaseSignals(c, base[c]) : c \in TierCases}
      /\ genRemediations = UNION {CaseRemediations(c, base[c]) : c \in TierCases}
      /\ genWindows = UNION {CaseWindows(c, base[c]) : c \in TierCases}
  BY DEF FromBase
<1>3. IsFiniteSet(TierCases) /\ TierCases # {}
  BY TierCasesAreFinite
<1>4. IsFiniteSet(genSignals) /\ \A e \in genSignals : e.effective \in Nat /\ e.observation \in Nat /\ e.audit \in Nat
  <2> DEFINE f == [c \in TierCases |-> CaseSignals(c, base[c])]
  <2>1. \A c \in DOMAIN f : IsFiniteSet(f[c])
    BY <1>1, SignalsOfCase
  <2>2. genSignals = UNION {f[c] : c \in DOMAIN f}
    BY <1>2
  <2>3. IsFiniteSet(genSignals)
    <3>1. DOMAIN f = TierCases
      OBVIOUS
    <3> HIDE DEF f
    <3>2. QED
      BY <1>3, <2>1, <2>2, <3>1, UnionOfFinite
  <2>4. ASSUME NEW c \in TierCases, NEW e \in CaseSignals(c, base[c])
        PROVE  e.effective \in Nat /\ e.observation \in Nat /\ e.audit \in Nat
    <3>1. Observation(c, base[c]) \in Nat /\ base[c] \in Nat
      BY <1>1, ObservationIsTick
    <3>2. /\ e.effective \in Nat /\ e.audit \in Nat
          /\ e.observation \in {Observation(c, base[c]) + n : n \in {0, 4, 5, 13, 17}}
      BY <3>1, SignalsOfCase
    <3>3. QED
      BY <3>1, <3>2
  <2>5. QED
    BY <1>2, <2>3, <2>4
<1>5. IsFiniteSet(genRemediations) /\ \A e \in genRemediations : e.effective \in Nat /\ e.observation \in Nat /\ e.audit \in Nat
  <2> DEFINE f == [c \in TierCases |-> CaseRemediations(c, base[c])]
  <2>1. \A c \in DOMAIN f : IsFiniteSet(f[c])
    BY <1>1, RemediationsOfCase
  <2>2. genRemediations = UNION {f[c] : c \in DOMAIN f}
    BY <1>2
  <2>3. IsFiniteSet(genRemediations)
    <3>1. DOMAIN f = TierCases
      OBVIOUS
    <3> HIDE DEF f
    <3>2. QED
      BY <1>3, <2>1, <2>2, <3>1, UnionOfFinite
  <2>4. ASSUME NEW c \in TierCases, NEW e \in CaseRemediations(c, base[c])
        PROVE  e.effective \in Nat /\ e.observation \in Nat /\ e.audit \in Nat
    <3>1. Observation(c, base[c]) \in Nat /\ base[c] \in Nat
      BY <1>1, ObservationIsTick
    <3>2. /\ e.effective \in Nat /\ e.audit \in Nat
          /\ e.observation \in {Observation(c, base[c]) + n : n \in {0, 4, 5, 13, 17}}
      BY <3>1, RemediationsOfCase
    <3>3. QED
      BY <3>1, <3>2
  <2>5. QED
    BY <1>2, <2>3, <2>4
<1>6. IsFiniteSet(genWindows) /\ \A w \in genWindows : w.restored \in Nat
  <2> DEFINE f == [c \in TierCases |-> CaseWindows(c, base[c])]
  <2>1. \A c \in DOMAIN f : IsFiniteSet(f[c]) /\ \A w \in f[c] : w.restored \in Nat
    <3> SUFFICES ASSUME NEW c \in TierCases
                 PROVE  /\ IsFiniteSet(CaseWindows(c, base[c]))
                        /\ \A w \in CaseWindows(c, base[c]) : w.restored \in Nat
      OBVIOUS
    <3> DEFINE w == [case |-> c, family |-> TemplateOf(c).family, from |-> base[c] + 2, restored |-> base[c] + 8,
                     delayed |-> {EventId(c, 1)}]
    <3>1. w.restored \in Nat
      BY <1>1
    <3> HIDE DEF w
    <3>2. CaseWindows(c, base[c]) = {w} \/ CaseWindows(c, base[c]) = {}
      BY DEF CaseWindows, w
    <3>3. QED
      BY <3>1, <3>2, FS_Singleton, FS_EmptySet
  <2>2. genWindows = UNION {f[c] : c \in DOMAIN f}
    BY <1>2
  <2>3. DOMAIN f = TierCases
    OBVIOUS
  <2> HIDE DEF f
  <2>4. QED
    BY <1>3, <2>1, <2>2, <2>3, UnionOfFinite
<1>7. IsFiniteSet(events) /\ \A e \in events : e.effective \in Nat /\ e.observation \in Nat /\ e.audit \in Nat
  BY <1>4, <1>5, FS_Union
<1>8. last \in Nat /\ (\A e \in events : e.audit < last) /\ \A w \in genWindows : w.restored < last
  <2> DEFINE A == {e.audit : e \in events}
             W == {w.restored : w \in genWindows}
  <2>1. A \in SUBSET Nat /\ W \in SUBSET Nat
    BY <1>6, <1>7
  <2>2. IsFiniteSet(A)
    <3> DEFINE f == [e \in events |-> e.audit]
    <3>1. A = {f[e] : e \in DOMAIN f} /\ DOMAIN f = events
      OBVIOUS
    <3> HIDE DEF f
    <3>2. QED
      BY <1>7, <3>1, ImageIsFinite
  <2>3. IsFiniteSet(W)
    <3> DEFINE f == [w \in genWindows |-> w.restored]
    <3>1. W = {f[w] : w \in DOMAIN f} /\ DOMAIN f = genWindows
      OBVIOUS
    <3> HIDE DEF f
    <3>2. QED
      BY <1>6, <3>1, ImageIsFinite
  <2>4. A \cup W # {}
    <3>1. PICK c \in TierCases : TRUE
      BY <1>3
    <3>2. PICK s \in CaseSignals(c, base[c]) : TRUE
      BY <1>1, SignalsOfCase
    <3>3. s \in events
      BY <1>2
    <3>4. QED
      BY <3>3
  <2>5. last = MaximumOf(A \cup W) + 3
    BY DEF GeneratedHorizon
  <2> HIDE DEF A, W, last
  <2>6. MaximumOf(A \cup W) \in A \cup W /\ \A u \in A \cup W : u <= MaximumOf(A \cup W)
    <3>1. IsFiniteSet(A \cup W)
      BY <2>2, <2>3, FS_Union
    <3>2. A \cup W \in SUBSET Int
      BY <2>1
    <3>3. QED
      BY <2>4, <3>1, <3>2, MaximumIsLatest
  <2>7. MaximumOf(A \cup W) \in Nat
    BY <2>1, <2>6
  <2>8. \A u \in A \cup W : u < last
    <3> SUFFICES ASSUME NEW u \in A \cup W
                 PROVE  u < last
      OBVIOUS
    <3>1. u \in Nat /\ u <= MaximumOf(A \cup W)
      BY <2>1, <2>6
    <3>2. QED
      BY <2>5, <2>7, <3>1
  <2>9. (\A e \in events : e.audit \in A) /\ \A w \in genWindows : w.restored \in W
    BY DEF A, W
  <2>10. QED
    BY <2>5, <2>7, <2>8, <2>9
<1>9. QED
  BY <1>6, <1>7, <1>8

LEMMA GenerationInitIsPackage ==
  ASSUME GenerationInit
  PROVE  PackageInv
<1>1. base \in [TierCases -> Nat] /\ \A c \in TierCases : base[c] \in Nat
  BY BaseTickIsTick DEF GenerationInit
<1>2. /\ truth = [c \in TierCases |-> Truth(c, base[c])]
      /\ genSignals = UNION {CaseSignals(c, base[c]) : c \in TierCases}
      /\ genRemediations = UNION {CaseRemediations(c, base[c]) : c \in TierCases}
      /\ genWindows = UNION {CaseWindows(c, base[c]) : c \in TierCases}
      /\ tick = 0
  BY DEF GenerationInit
<1> DEFINE events == genSignals \cup genRemediations
           last == GeneratedHorizon(events, genWindows)
           T == CheckpointTicks(events, {truth[c] : c \in TierCases}, last)
<1>3. IsFiniteSet(TierCases)
  BY TierCasesAreFinite
<1>4. FromBase
  BY <1>1, <1>2 DEF FromBase
<1>5. /\ IsFiniteSet(events) /\ last \in Nat
      /\ \A e \in events : e.effective \in Nat /\ e.observation \in Nat /\ e.audit \in Nat
  BY <1>4, TicksFromBase
<1>6. IsFiniteSet(T) /\ T \in SUBSET Nat
  <2>1. DOMAIN truth = TierCases /\ \A c \in TierCases : TruthOK(truth[c])
    BY <1>1, <1>2, TruthOfCase
  <2> HIDE DEF events, last
  <2>2. QED
    BY <1>3, <1>5, <2>1, TicksOfPackage
<1>7. /\ genCheckpoints = GeneratedCheckpoints(genSignals, genRemediations, genWindows, {truth[c] : c \in TierCases})
      /\ genCheckpoints = {GeneratedCheckpoint(genSignals, genRemediations, t) : t \in T}
  BY DEF GenerationInit, GeneratedCheckpoints
<1>8. IsFiniteSet(genCheckpoints)
  <2> HIDE DEF T
  <2> DEFINE f == [t \in T |-> GeneratedCheckpoint(genSignals, genRemediations, t)]
  <2>1. genCheckpoints = {f[t] : t \in DOMAIN f} /\ DOMAIN f = T
    BY <1>7
  <2> HIDE DEF f
  <2>2. QED
    BY <1>6, <2>1, ImageIsFinite
<1>9. \A p \in genCheckpoints : p.tick \in Nat
  <2>1. \A t : GeneratedCheckpoint(genSignals, genRemediations, t).tick = t
    BY DEF GeneratedCheckpoint
  <2> HIDE DEF T
  <2>2. QED
    BY <1>6, <1>7, <2>1
<1>10. QED
  BY <1>1, <1>2, <1>7, <1>8, <1>9 DEF PackageInv

LEMMA GenerationKeepsPackage ==
  ASSUME PackageInv, [GenerationNext]_generationVars
  PROVE  PackageInv'
<1>1. CASE GenerationValidate
  BY <1>1 DEF GenerationValidate, Generated!Validate, Generated!package, PackageInv
<1>2. CASE Advance
  BY <1>2 DEF Advance, generation, PackageInv
<1>3. ASSUME NEW name \in Predictions, Evaluate(name)
      PROVE  PackageInv'
  BY <1>3 DEF Evaluate, generation, PackageInv
<1>4. CASE UNCHANGED generationVars
  BY <1>4 DEF generationVars, generation, PackageInv
<1>5. QED
  BY <1>1, <1>2, <1>3, <1>4 DEF GenerationNext

\* A generated package stays what _generate_case makes of the ticks its cases start from,
\* and the checkpoints of _checkpoints, through validation, replay and scoring.
THEOREM GeneratedPackageIsSound == GenerationSpec => []PackageInv
<1>1. GenerationInit => PackageInv
  BY GenerationInitIsPackage
<1>2. PackageInv /\ [GenerationNext]_generationVars => PackageInv'
  BY GenerationKeepsPackage
<1>3. QED
  BY <1>1, <1>2, PTL DEF GenerationSpec

\* A finding that expected_finding_state_at calls open is one of which a problem was
\* observed and nothing that closes it since, for every seed, every order of the templates
\* and any number of cycles.
THEOREM FindingsFollowObservations == GenerationSpec => []FindingFollowsObservation
<1>1. PackageInv => FindingFollowsObservation
  BY FindingFollows
<1>2. QED
  BY <1>1, GeneratedPackageIsSound, PTL

------------------------------------------------------------------------------
(* Counting. *)

LEMMA SubsetsCount ==
  ASSUME NEW S, IsFiniteSet(S), NEW T \in SUBSET S
  PROVE  /\ IsFiniteSet(T) /\ Cardinality(T) \in Nat
         /\ Cardinality(T) = 0 <=> T = {}
         /\ Cardinality(T) = Cardinality(S) <=> T = S
<1>1. IsFiniteSet(T) /\ (Cardinality(S) = Cardinality(T) => S = T)
  BY FS_Subset
<1>2. Cardinality(T) \in Nat
  BY <1>1, FS_CardinalityType
<1>3. Cardinality(T) = 0 <=> T = {}
  BY <1>1, FS_EmptySet
<1>4. QED
  BY <1>1, <1>2, <1>3

LEMMA PartsCount ==
  ASSUME NEW S, IsFiniteSet(S), NEW A, NEW B, NEW C,
         A \cup B \cup C = S, A \cap B = {}, A \cap C = {}, B \cap C = {}
  PROVE  Cardinality(A) + Cardinality(B) + Cardinality(C) = Cardinality(S)
<1>1. A \in SUBSET S /\ B \in SUBSET S /\ C \in SUBSET S
  OBVIOUS
<1>2. /\ IsFiniteSet(A) /\ IsFiniteSet(B) /\ IsFiniteSet(C)
      /\ Cardinality(A) \in Nat /\ Cardinality(B) \in Nat /\ Cardinality(C) \in Nat
  BY <1>1, SubsetsCount
<1>3. IsFiniteSet(A \cup B) /\ Cardinality(A \cup B) = Cardinality(A) + Cardinality(B)
  <2>1. /\ IsFiniteSet(A \cup B)
        /\ Cardinality(A \cup B) = Cardinality(A) + Cardinality(B) - Cardinality(A \cap B)
    BY <1>2, FS_Union
  <2>2. Cardinality(A \cap B) = 0
    BY FS_EmptySet
  <2>3. QED
    BY <1>2, <2>1, <2>2
<1>4. Cardinality((A \cup B) \cup C) = Cardinality(A \cup B) + Cardinality(C)
  <2>1. Cardinality((A \cup B) \cup C) = Cardinality(A \cup B) + Cardinality(C) - Cardinality((A \cup B) \cap C)
    BY <1>2, <1>3, FS_Union
  <2>2. (A \cup B) \cap C = {}
    OBVIOUS
  <2>3. Cardinality((A \cup B) \cap C) = 0
    BY <2>2, FS_EmptySet
  <2>4. QED
    BY <1>2, <1>3, <2>1, <2>3
<1>5. QED
  BY <1>2, <1>3, <1>4

\* The pairs a total counts.
LEMMA TotalsCount ==
  ASSUME NEW f, NEW S, IsFiniteSet(DOMAIN f), IsFiniteSet(S), \A x \in DOMAIN f : f[x] \subseteq S
  PROVE  /\ (\A x \in DOMAIN f : f[x] = {}) => Total(f) = 0
         /\ Total(f) = Cardinality(S) * Cardinality(DOMAIN f) <=> \A x \in DOMAIN f : f[x] = S
<1> DEFINE pairs == UNION {{x} \X f[x] : x \in DOMAIN f}
           product == (DOMAIN f) \X S
<1>1. Total(f) = Cardinality(pairs)
  BY DEF Total
<1>2. \A x, y : <<x, y>> \in pairs <=> x \in DOMAIN f /\ y \in f[x]
  OBVIOUS
<1>3. pairs \in SUBSET product
  OBVIOUS
<1>4. (\A x \in DOMAIN f : f[x] = {}) => pairs = {}
  BY <1>2
<1>5. pairs = product <=> \A x \in DOMAIN f : f[x] = S
  <2>1. ASSUME \A x \in DOMAIN f : f[x] = S
        PROVE  pairs = product
    BY <2>1
  <2>2. ASSUME pairs = product, NEW x \in DOMAIN f, NEW y \in S
        PROVE  y \in f[x]
    <3>1. <<x, y>> \in product
      OBVIOUS
    <3>2. QED
      BY <1>2, <2>2, <3>1
  <2>3. QED
    BY <2>1, <2>2
<1>6. IsFiniteSet(product) /\ Cardinality(product) = Cardinality(DOMAIN f) * Cardinality(S)
  BY FS_Product
<1> HIDE DEF pairs, product
<1>7. Cardinality(pairs) = Cardinality(product) <=> pairs = product
  BY <1>3, <1>6, SubsetsCount
<1>8. Cardinality(DOMAIN f) \in Nat /\ Cardinality(S) \in Nat
  BY FS_CardinalityType
<1>9. Cardinality(DOMAIN f) * Cardinality(S) = Cardinality(S) * Cardinality(DOMAIN f)
  BY <1>8
<1>10. QED
  BY <1>1, <1>4, <1>5, <1>6, <1>7, <1>9, FS_EmptySet

LEMMA EmptyTotal ==
  ASSUME NEW f, \A x \in DOMAIN f : f[x] = {}
  PROVE  Total(f) = 0
<1>1. UNION {{x} \X f[x] : x \in DOMAIN f} = {}
  OBVIOUS
<1>2. QED
  BY <1>1, FS_EmptySet DEF Total

LEMMA EqualTotals ==
  ASSUME NEW f, NEW g, DOMAIN f \subseteq DOMAIN g, \A x \in DOMAIN f : f[x] = g[x],
         \A x \in DOMAIN g : x \notin DOMAIN f => g[x] = {}
  PROVE  Total(f) = Total(g)
<1>1. UNION {{x} \X f[x] : x \in DOMAIN f} = UNION {{x} \X g[x] : x \in DOMAIN g}
  <2>1. ASSUME NEW x \in DOMAIN f, NEW p \in {x} \X f[x]
        PROVE  x \in DOMAIN g /\ p \in {x} \X g[x]
    OBVIOUS
  <2>2. ASSUME NEW x \in DOMAIN g, NEW p \in {x} \X g[x]
        PROVE  x \in DOMAIN f /\ p \in {x} \X f[x]
    OBVIOUS
  <2>3. QED
    BY <2>1, <2>2
<1>2. QED
  BY <1>1 DEF Total

\* The n-th of a set is found by its rank.
LEMMA CounterpartOfSame ==
  ASSUME NEW S \in SUBSET Int, IsFiniteSet(S), NEW t \in S
  PROVE  Counterpart(t, S, S) = t
<1> DEFINE Below(u) == {v \in S : v < u}
<1>1. \A u \in S : IsFiniteSet(Below(u)) /\ Cardinality(Below(u)) \in Nat
  <2> SUFFICES ASSUME NEW u \in S
               PROVE  IsFiniteSet(Below(u)) /\ Cardinality(Below(u)) \in Nat
    OBVIOUS
  <2>1. Below(u) \in SUBSET S
    OBVIOUS
  <2> HIDE DEF Below
  <2>2. QED
    BY <2>1, SubsetsCount
<1>2. ASSUME NEW u \in S, NEW v \in S, u < v
      PROVE  Cardinality(Below(u)) # Cardinality(Below(v))
  <2>1. Below(u) \in SUBSET Below(v)
    <3>1. \A w \in S : w < u => w < v
      BY <1>2
    <3>2. QED
      BY <3>1
  <2>2. u \in Below(v) /\ u \notin Below(u)
    BY <1>2
  <2> HIDE DEF Below
  <2>3. QED
    BY <1>1, <2>1, <2>2, SubsetsCount
<1>3. \A u \in S : Rank(u, S) = Rank(t, S) <=> u = t
  <2> SUFFICES ASSUME NEW u \in S, u # t
               PROVE  Rank(u, S) # Rank(t, S)
    OBVIOUS
  <2>1. u < t \/ t < u
    OBVIOUS
  <2>2. Cardinality(Below(u)) # Cardinality(Below(t))
    BY <1>2, <2>1
  <2>3. QED
    BY <2>2 DEF Rank
<1>4. {u \in S : Rank(u, S) = Rank(t, S)} = {t}
  BY <1>3
<1>5. QED
  BY <1>4 DEF Counterpart

------------------------------------------------------------------------------
(* Scoring. *)

RowOK(row) ==
  /\ row.opened \in Nat \cup {Unset}
  /\ Opens(row) \in SUBSET Int /\ IsFiniteSet(Opens(row))
  /\ row.clears \in SUBSET Int /\ IsFiniteSet(row.clears)
  /\ Opens(row) \cap row.clears = {}

LEMMA ValidRowIsOK ==
  ASSUME NEW row, RowIsValid(row)
  PROVE  RowOK(row)
<1>1. /\ row.opened \in Nat \cup {Unset}
      /\ row.clears \in SUBSET Int /\ IsFiniteSet(row.clears) /\ row.recurrences \in Seq(Int)
      /\ Generated!CoherentRow(row)
  BY DEF RowIsValid
<1>2. ToSet(row.recurrences) \in SUBSET Int /\ IsFiniteSet(ToSet(row.recurrences))
  <2>1. DOMAIN row.recurrences = 1..Len(row.recurrences) /\ Len(row.recurrences) \in Nat
    BY <1>1
  <2>2. IsFiniteSet(DOMAIN row.recurrences)
    BY <2>1, IntervalIsFinite
  <2>3. QED
    BY <1>1, <2>2, ImageIsFinite DEF ToSet
<1> DEFINE first == IF row.opened = Unset THEN {} ELSE {row.opened}
<1>3. IsFiniteSet(first)
  BY FS_EmptySet, FS_Singleton
<1>4. first \in SUBSET Int
  BY <1>1
<1>5. Opens(row) = first \cup ToSet(row.recurrences)
  BY DEF Opens
<1>6. IsFiniteSet(Opens(row)) /\ Opens(row) \in SUBSET Int
  <2> HIDE DEF first
  <2>1. IsFiniteSet(first \cup ToSet(row.recurrences))
    BY <1>2, <1>3, FS_Union
  <2>2. QED
    BY <1>2, <1>4, <1>5, <2>1
<1>7. Opens(row) \cap row.clears = {}
  <2>1. CASE row.opened = Unset
    BY <1>1, <2>1 DEF Generated!CoherentRow
  <2>2. CASE row.opened # Unset
    <3>1. /\ \A t \in row.clears : t > row.opened
          /\ \A t \in ToSet(row.recurrences) : t \notin row.clears
      <4>1. Generated!ToSet(row.recurrences) = ToSet(row.recurrences)
        BY DEF Generated!ToSet, ToSet
      <4>2. QED
        BY <1>1, <2>2, <4>1 DEF Generated!CoherentRow
    <3>2. row.opened \in Nat /\ row.opened \notin row.clears
      BY <1>1, <2>2, <3>1
    <3>3. QED
      BY <1>5, <2>2, <3>1, <3>2
  <2>3. QED
    BY <2>1, <2>2
<1>8. QED
  BY <1>1, <1>6, <1>7 DEF RowOK

\* What a row says of a case at a tick is what is expected, if it has the same ticks.
LEMMA SameTicksAgree ==
  ASSUME PackageInv, NEW c \in TierCases, NEW row, RowOK(row),
         row.opened = truth[c].opened, row.clears = truth[c].clears, row.recurrences = truth[c].recurrences
  PROVE  CheckpointMatches(c, row) = genCheckpoints
<1>1. Opens(row) = Opens(truth[c])
  BY DEF Opens
<1>2. ASSUME NEW p \in genCheckpoints
      PROVE  PredictedAt(row, p.tick) = StateAt(truth[c].lifecycle, p.tick)
  <2>1. p.tick \in Int
    BY DEF PackageInv
  <2>2. PredictedAt(row, p.tick) = IF OpenBy(Opens(row), row.clears, p.tick) THEN "open" ELSE "clear"
    BY <2>1, StateOfRow DEF RowOK
  <2>3. QED
    BY <1>1, <2>1, <2>2, ExpectedStates
<1>3. QED
  BY <1>2 DEF CheckpointMatches

Required == {c \in TierCases : truth[c].required}

LEMMA TruthOpenings ==
  ASSUME PackageInv, NEW c \in TierCases
  PROVE  /\ c \in Required => /\ truth[c].opened \in Nat /\ truth[c].observable = truth[c].opened
                              /\ truth[c].opened # Unset
         /\ c \notin Required => truth[c].opened = Unset /\ truth[c].clears = {} /\ truth[c].recurrences = <<>>
BY TruthIsOK, StatesAreApart DEF TruthOK, Required

\* Every positive case is detected, opened early or missed, and every opening is one of
\* a detection, an early one or a false positive.
LEMMA OpeningsAgree ==
  ASSUME PackageInv, NEW rows, \A c \in TierCases : RowOK(rows[c])
  PROVE  LET n == Counts(rows)
             missed == {c \in TierCases : truth[c].required /\ rows[c].opened = Unset} IN
         /\ n.valid + n.early + Cardinality(missed) = n.positives
         /\ n.valid + n.early + n.false_positives = n.predicted
         /\ (\A c \in TierCases : Finding(c, rows[c]).detection) <=> (n.valid = n.positives /\ n.false_positives = 0)
         /\ (\A c \in TierCases : Finding(c, rows[c]).opening) <=> (n.exact = n.positives /\ n.false_positives = 0)
         /\ n.exact = n.positives => n.latency = 0 /\ n.early = 0
<1> DEFINE n == Counts(rows)
           missed == {c \in TierCases : truth[c].required /\ rows[c].opened = Unset}
           valid == {c \in Required : ValidDetection(c, rows[c])}
           early == {c \in Required : rows[c].opened # Unset /\ rows[c].opened < truth[c].observable}
           exact == {c \in Required : rows[c].opened = truth[c].opened}
           predicted == {c \in TierCases : rows[c].opened # Unset}
           false == {c \in TierCases \ Required : rows[c].opened # Unset}
           waiting == [c \in valid |-> WaitingTicks(c, rows[c])]
<1>1. /\ n.positives = Cardinality(Required) /\ n.valid = Cardinality(valid) /\ n.early = Cardinality(early)
      /\ n.exact = Cardinality(exact) /\ n.predicted = Cardinality(predicted)
      /\ n.false_positives = Cardinality(false) /\ n.latency = Total(waiting)
  BY DEF Counts, Required
<1>2. IsFiniteSet(TierCases) /\ Required \in SUBSET TierCases /\ predicted \in SUBSET TierCases /\ false \in SUBSET TierCases
  BY TierCasesAreFinite DEF Required
<1>3. IsFiniteSet(Required) /\ IsFiniteSet(predicted) /\ IsFiniteSet(false)
  BY <1>2, SubsetsCount
<1>4. valid \in SUBSET Required /\ early \in SUBSET Required /\ exact \in SUBSET Required
  OBVIOUS
<1>5. /\ \A c \in Required : c \in TierCases /\ truth[c].required
                             /\ truth[c].opened \in Nat /\ truth[c].observable = truth[c].opened
      /\ \A c \in TierCases : rows[c].opened \in Nat \cup {Unset}
      /\ \A c \in TierCases : c \notin Required => ~truth[c].required /\ truth[c].opened = Unset
      /\ Unset \notin Nat
  <2>1. \A c \in TierCases : rows[c].opened \in Nat \cup {Unset}
    BY DEF RowOK
  <2>2. \A c \in TierCases : c \notin Required => ~truth[c].required
    BY DEF Required
  <2>3. QED
    BY <1>2, <2>1, <2>2, TruthOpenings, StatesAreApart DEF Required
<1>6. \A c \in Required : ValidDetection(c, rows[c]) <=> rows[c].opened # Unset /\ rows[c].opened >= truth[c].observable
  BY <1>5 DEF ValidDetection
<1>7. \A c \in Required : c \in valid <=> rows[c].opened # Unset /\ rows[c].opened >= truth[c].observable
  BY <1>6
<1>8. \A c \in Required : (c \in early <=> rows[c].opened # Unset /\ rows[c].opened < truth[c].observable)
                          /\ (c \in missed <=> rows[c].opened = Unset)
  BY <1>5
<1>9. missed \subseteq Required
  BY DEF Required
<1>10. \A c : c \in predicted <=> c \in TierCases /\ rows[c].opened # Unset
  OBVIOUS
<1>11. \A c : c \in false <=> c \in TierCases /\ c \notin Required /\ rows[c].opened # Unset
  OBVIOUS
<1>12. \A c \in Required : c \in exact <=> rows[c].opened = truth[c].opened
  OBVIOUS
<1>13. waiting = [c \in valid |-> WaitingTicks(c, rows[c])]
  OBVIOUS
<1> HIDE DEF n, missed, valid, early, exact, predicted, false, waiting
<1>14. n.valid + n.early + Cardinality(missed) = n.positives
  <2>1. valid \cap early = {} /\ valid \cap missed = {} /\ early \cap missed = {}
    <3>1. \A c \in Required : ~(c \in valid /\ c \in early)
      BY <1>5, <1>7, <1>8
    <3>2. \A c \in Required : ~(c \in valid /\ c \in missed) /\ ~(c \in early /\ c \in missed)
      BY <1>7, <1>8
    <3>3. QED
      BY <1>4, <1>9, <3>1, <3>2
  <2>2. valid \cup early \cup missed = Required
    <3>1. \A c \in Required : c \in valid \/ c \in early \/ c \in missed
      BY <1>5, <1>7, <1>8
    <3>2. QED
      BY <1>4, <1>9, <3>1
  <2>3. QED
    BY <1>1, <1>3, <2>1, <2>2, PartsCount
<1>15. n.valid + n.early + n.false_positives = n.predicted
  <2>1. valid \cap early = {} /\ valid \cap false = {} /\ early \cap false = {}
    <3>1. \A c \in Required : ~(c \in valid /\ c \in early) /\ c \notin false
      BY <1>5, <1>7, <1>8, <1>11
    <3>2. QED
      BY <1>4, <3>1
  <2>2. valid \cup early \cup false = predicted
    <3>1. \A c \in Required : c \in predicted <=> c \in valid \/ c \in early
      BY <1>5, <1>7, <1>8, <1>10
    <3>2. \A c \in TierCases : c \notin Required => (c \in predicted <=> c \in false)
      BY <1>10, <1>11
    <3>3. predicted \subseteq TierCases /\ false \subseteq TierCases /\ Required \subseteq TierCases
      BY <1>2
    <3>4. \A c \in false : c \notin Required
      BY <1>11
    <3>5. QED
      BY <1>4, <3>1, <3>2, <3>3, <3>4
  <2>3. QED
    BY <1>1, <1>3, <2>1, <2>2, PartsCount
<1>16. n.valid = n.positives <=> valid = Required
  BY <1>1, <1>3, <1>4, SubsetsCount
<1>17. n.exact = n.positives <=> exact = Required
  BY <1>1, <1>3, <1>4, SubsetsCount
<1>18. n.false_positives = 0 <=> false = {}
  BY <1>1, <1>3, FS_EmptySet
<1>19. (\A c \in TierCases : Finding(c, rows[c]).detection) <=> (n.valid = n.positives /\ n.false_positives = 0)
  <2>1. \A c \in TierCases :
          Finding(c, rows[c]).detection <=> IF c \in Required THEN c \in valid ELSE c \notin false
    <3> SUFFICES ASSUME NEW c \in TierCases
                 PROVE  Finding(c, rows[c]).detection <=> IF c \in Required THEN c \in valid ELSE c \notin false
      OBVIOUS
    <3>1. Finding(c, rows[c]).detection = IF truth[c].required THEN ValidDetection(c, rows[c]) ELSE rows[c].opened = Unset
      BY DEF Finding
    <3>2. CASE c \in Required
      BY <1>5, <1>6, <1>7, <3>1, <3>2
    <3>3. CASE c \notin Required
      BY <1>5, <1>11, <3>1, <3>3
    <3>4. QED
      BY <3>2, <3>3
  <2>2. (\A c \in TierCases : Finding(c, rows[c]).detection) <=> valid = Required /\ false = {}
    BY <1>2, <1>4, <1>11, <2>1
  <2>3. QED
    BY <1>16, <1>18, <2>2
<1>20. (\A c \in TierCases : Finding(c, rows[c]).opening) <=> (n.exact = n.positives /\ n.false_positives = 0)
  <2>1. \A c \in TierCases : Finding(c, rows[c]).opening <=> rows[c].opened = truth[c].opened
    BY DEF Finding
  <2>2. \A c \in TierCases : rows[c].opened = truth[c].opened <=> IF c \in Required THEN c \in exact ELSE c \notin false
    BY <1>5, <1>11, <1>12
  <2>3. (\A c \in TierCases : Finding(c, rows[c]).opening) <=> exact = Required /\ false = {}
    BY <1>2, <1>4, <1>11, <2>1, <2>2
  <2>4. QED
    BY <1>17, <1>18, <2>3
<1>21. n.exact = n.positives => n.latency = 0 /\ n.early = 0
  <2> SUFFICES ASSUME exact = Required
               PROVE  n.latency = 0 /\ n.early = 0
    BY <1>17
  <2>1. \A c \in Required : rows[c].opened = truth[c].observable
    BY <1>5, <1>12
  <2>2. early = {}
    <3>1. \A c \in Required : c \notin early
      BY <1>5, <1>8, <2>1
    <3>2. QED
      BY <1>4, <3>1
  <2>3. \A c \in valid : waiting[c] = {}
    <3> SUFFICES ASSUME NEW c \in valid
                 PROVE  WaitingTicks(c, rows[c]) = {}
      BY <1>13
    <3>1. c \in Required /\ truth[c].observable \in Nat /\ rows[c].opened = truth[c].observable
      BY <1>4, <1>5, <2>1
    <3>2. QED
      BY <3>1 DEF WaitingTicks
  <2>4. DOMAIN waiting = valid
    BY <1>13
  <2>5. n.latency = 0
    BY <1>1, <2>3, <2>4, EmptyTotal
  <2>6. n.early = 0
    BY <1>1, <2>2, FS_EmptySet
  <2>7. QED
    BY <2>5, <2>6
<1>22. QED
  BY <1>14, <1>15, <1>19, <1>20, <1>21 DEF n, missed

\* A cell of the replay is a checkpoint of a case.
LEMMA CellsAgree ==
  ASSUME PackageInv, NEW rows
  PROVE  (\A c \in TierCases : Finding(c, rows[c]).checkpoint)
           <=> Counts(rows).cells = Cardinality(genCheckpoints) * Cardinality(TierCases)
<1> DEFINE cells == [c \in TierCases |-> CheckpointMatches(c, rows[c])]
<1>1. Counts(rows).cells = Total(cells)
  BY DEF Counts
<1>2. \A c \in TierCases : cells[c] \subseteq genCheckpoints
  BY DEF CheckpointMatches
<1>3. IsFiniteSet(TierCases) /\ IsFiniteSet(genCheckpoints) /\ DOMAIN cells = TierCases
  BY TierCasesAreFinite DEF PackageInv
<1>4. \A c \in TierCases : Finding(c, rows[c]).checkpoint <=> cells[c] = genCheckpoints
  BY DEF Finding
<1> HIDE DEF cells
<1>5. Total(cells) = Cardinality(genCheckpoints) * Cardinality(TierCases) <=> \A c \in TierCases : cells[c] = genCheckpoints
  BY <1>2, <1>3, TotalsCount
<1>6. QED
  BY <1>1, <1>4, <1>5

\* If every clear is right, each is paired with itself.
LEMMA ClearsAgree ==
  ASSUME PackageInv, NEW rows, \A c \in TierCases : Finding(c, rows[c]).clearing
  PROVE  LET n == Counts(rows) IN n.cleared = n.clears /\ n.stale = 0 /\ n.premature = 0
<1> DEFINE n == Counts(rows)
           clears == UNION {ClearPairs(c, rows[c]) : c \in Required}
           stale == [p \in clears |-> StaleTicks(p)]
<1>1. /\ n.clears = Cardinality(clears) /\ n.cleared = Cardinality({p \in clears : p[2] = p[3]})
      /\ n.premature = Cardinality({p \in clears : p[3] # Unset /\ p[3] < p[2]})
      /\ n.stale = Total(stale)
  BY DEF Counts, Required
<1>2. ASSUME NEW p \in clears
      PROVE  p[2] \in Nat /\ p[3] = p[2] /\ p[3] # Unset
  <2>1. PICK c \in Required : p \in ClearPairs(c, rows[c])
    OBVIOUS
  <2>2. c \in TierCases /\ rows[c].clears = truth[c].clears
    BY DEF Finding, Required
  <2>3. PICK t \in truth[c].clears : p = <<c, t, Counterpart(t, truth[c].clears, rows[c].clears)>>
    BY <2>1 DEF ClearPairs
  <2>4. truth[c].clears \in SUBSET Nat /\ IsFiniteSet(truth[c].clears)
    BY <2>2, TruthIsOK DEF TruthOK
  <2>5. truth[c].clears \in SUBSET Int
    BY <2>4
  <2>6. Counterpart(t, truth[c].clears, truth[c].clears) = t
    BY <2>4, <2>5, CounterpartOfSame
  <2>7. p[2] = t /\ p[3] = t
    BY <2>2, <2>3, <2>6
  <2>8. QED
    BY <2>4, <2>7, StatesAreApart
<1> HIDE DEF clears
<1>3. {p \in clears : p[2] = p[3]} = clears
  BY <1>2
<1>4. {p \in clears : p[3] # Unset /\ p[3] < p[2]} = {}
  <2>1. \A p \in clears : ~(p[3] < p[2])
    BY <1>2
  <2>2. QED
    BY <2>1
<1>5. n.stale = 0
  <2>1. \A p \in clears : StaleTicks(p) = {}
    <3> SUFFICES ASSUME NEW p \in clears
                 PROVE  StaleTicks(p) = {}
      OBVIOUS
    <3>1. p[2] \in Nat /\ p[3] = p[2] /\ p[3] # Unset
      BY <1>2
    <3>2. StaleTicks(p) = p[2]..(p[2] - 1)
      BY <3>1 DEF StaleTicks
    <3>3. QED
      BY <3>1, <3>2
  <2>2. DOMAIN stale = clears /\ \A p \in clears : stale[p] = {}
    BY <2>1
  <2> HIDE DEF stale
  <2>3. QED
    BY <1>1, <2>2, EmptyTotal
<1>6. QED
  BY <1>1, <1>3, <1>4, <1>5, FS_EmptySet

\* If every recurrence is right, as many are submitted as there are.
LEMMA RecurrencesAgree ==
  ASSUME PackageInv, NEW rows, \A c \in TierCases : Finding(c, rows[c]).recurrence
  PROVE  LET n == Counts(rows) IN n.recurrences_matched = n.recurrences /\ n.recurrences_submitted = n.recurrences
<1> DEFINE n == Counts(rows)
           expected == [c \in Required |-> ToSet(truth[c].recurrences)]
           submittedTo == [c \in TierCases |-> ToSet(rows[c].recurrences)]
           matched == [c \in Required |-> ToSet(truth[c].recurrences) \cap ToSet(rows[c].recurrences)]
<1>1. /\ n.recurrences = Total(expected) /\ n.recurrences_submitted = Total(submittedTo)
      /\ n.recurrences_matched = Total(matched)
  BY DEF Counts, Required
<1>2. \A c \in TierCases : rows[c].recurrences = truth[c].recurrences
  BY DEF Finding
<1>3. Required \subseteq TierCases
  BY DEF Required
<1>4. \A c \in TierCases : c \notin Required => ToSet(truth[c].recurrences) = {}
  <2>1. ToSet(<<>>) = {}
    BY DEF ToSet
  <2>2. QED
    BY <2>1, TruthOpenings
<1>5. /\ DOMAIN expected = Required /\ DOMAIN submittedTo = TierCases /\ DOMAIN matched = Required
      /\ \A c \in Required : matched[c] = expected[c] /\ submittedTo[c] = expected[c]
      /\ \A c \in TierCases : c \notin Required => submittedTo[c] = {}
  BY <1>2, <1>3, <1>4
<1> HIDE DEF expected, submittedTo, matched
<1>6. Total(matched) = Total(expected)
  BY <1>5, EqualTotals
<1>7. Total(expected) = Total(submittedTo)
  BY <1>3, <1>5, EqualTotals
<1>8. QED
  BY <1>1, <1>6, <1>7

\* The findings and counts of any rows that a model admits.
LEMMA EvaluationAgrees ==
  ASSUME PackageInv, NEW name \in Predictions, Evaluate(name)
  PROVE  ReportsAgree'
<1> DEFINE rows == [c \in TierCases |-> Prediction(name, c)]
<1>1. /\ report' = [findings |-> [c \in TierCases |-> Finding(c, rows[c])], counts |-> Counts(rows), rows |-> rows]
      /\ truth' = truth /\ genCheckpoints' = genCheckpoints
      /\ \A c \in TierCases : RowIsValid(rows[c])
  BY DEF Evaluate, generation
<1> HIDE DEF rows
<1>2. /\ report'.counts = Counts(rows) /\ report'.rows = rows
      /\ \A c \in TierCases : report'.findings[c] = Finding(c, rows[c])
  BY <1>1
<1>3. \A c \in TierCases : RowOK(rows[c])
  BY <1>1, ValidRowIsOK
<1> DEFINE n == Counts(rows)
<1>4. AllRight("detection")' <=> \A c \in TierCases : Finding(c, rows[c]).detection
  BY <1>2 DEF AllRight
<1>5. AllRight("opening")' <=> \A c \in TierCases : Finding(c, rows[c]).opening
  BY <1>2 DEF AllRight
<1>6. AllRight("checkpoint")' <=> \A c \in TierCases : Finding(c, rows[c]).checkpoint
  BY <1>2 DEF AllRight
<1>7. AllRight("clearing")' <=> \A c \in TierCases : Finding(c, rows[c]).clearing
  BY <1>2 DEF AllRight
<1>8. AllRight("recurrence")' <=> \A c \in TierCases : Finding(c, rows[c]).recurrence
  BY <1>2 DEF AllRight
<1>9. \A c \in TierCases :
        Finding(c, rows[c]).opening /\ Finding(c, rows[c]).clearing /\ Finding(c, rows[c]).recurrence
        => Finding(c, rows[c]).checkpoint
  <2> SUFFICES ASSUME NEW c \in TierCases, Finding(c, rows[c]).opening, Finding(c, rows[c]).clearing,
                      Finding(c, rows[c]).recurrence
               PROVE  Finding(c, rows[c]).checkpoint
    OBVIOUS
  <2>1. /\ rows[c].opened = truth[c].opened /\ rows[c].clears = truth[c].clears
        /\ rows[c].recurrences = truth[c].recurrences
    BY DEF Finding
  <2>2. CheckpointMatches(c, rows[c]) = genCheckpoints
    BY <1>3, <2>1, SameTicksAgree
  <2>3. QED
    BY <2>2 DEF Finding
<1> DEFINE missed == {c \in TierCases : truth[c].required /\ rows[c].opened = Unset}
<1>10. /\ n.valid + n.early + Cardinality(missed) = n.positives
       /\ n.valid + n.early + n.false_positives = n.predicted
       /\ AllRight("detection")' <=> (n.valid = n.positives /\ n.false_positives = 0)
       /\ AllRight("opening")' <=> (n.exact = n.positives /\ n.false_positives = 0)
       /\ n.exact = n.positives => n.latency = 0 /\ n.early = 0
  BY <1>3, <1>4, <1>5, OpeningsAgree
<1>11. AllRight("checkpoint")' <=> n.cells = Cardinality(genCheckpoints) * Cardinality(TierCases)
  BY <1>6, CellsAgree
<1>12. AllRight("clearing")' => n.cleared = n.clears /\ n.stale = 0 /\ n.premature = 0
  BY <1>7, ClearsAgree
<1>13. AllRight("recurrence")' => n.recurrences_matched = n.recurrences /\ n.recurrences_submitted = n.recurrences
  BY <1>8, RecurrencesAgree
<1>14. \A c \in TierCases :
         LET f == report'.findings[c] IN f.opening /\ f.clearing /\ f.recurrence => f.checkpoint
  BY <1>2, <1>9
<1>15. report'.counts = n /\ missed = {c \in TierCases : truth'[c].required /\ report'.rows[c].opened = Unset}
  BY <1>1, <1>2
<1>16. /\ AllRight("detection")' \in BOOLEAN /\ AllRight("opening")' \in BOOLEAN /\ AllRight("checkpoint")' \in BOOLEAN
  BY DEF AllRight
<1> HIDE DEF n, missed
<1>17. /\ AllRight("detection")' = (n.valid = n.positives /\ n.false_positives = 0)
       /\ AllRight("opening")' = (n.exact = n.positives /\ n.false_positives = 0)
       /\ AllRight("checkpoint")' = (n.cells = Cardinality(genCheckpoints) * Cardinality(TierCases))
  BY <1>10, <1>11, <1>16
<1>18. QED
  BY <1>1, <1>10, <1>12, <1>13, <1>14, <1>15, <1>17 DEF ReportsAgree

LEMMA GenerationKeepsReports ==
  ASSUME PackageInv, ReportsAgree, [GenerationNext]_generationVars
  PROVE  ReportsAgree'
<1>1. CASE UNCHANGED <<truth, genCheckpoints, submitted, report>>
  BY <1>1 DEF ReportsAgree, AllRight
<1>2. CASE GenerationValidate
  BY <1>1, <1>2 DEF GenerationValidate, Generated!Validate, Generated!package
<1>3. CASE Advance
  BY <1>1, <1>3 DEF Advance, generation
<1>4. CASE UNCHANGED generationVars
  BY <1>1, <1>4 DEF generationVars, generation
<1>5. QED
  BY <1>2, <1>3, <1>4, EvaluationAgrees DEF GenerationNext

\* The findings and the metrics of evaluate_continuous_assurance_prediction agree, for
\* every prediction that is scored.
THEOREM ReportsAlwaysAgree == GenerationSpec => []ReportsAgree
<1>1. GenerationInit => ReportsAgree
  BY DEF GenerationInit, ReportsAgree
<1>2. PackageInv /\ ReportsAgree /\ [GenerationNext]_generationVars => ReportsAgree'
  BY GenerationKeepsReports
<1>3. QED
  BY <1>1, <1>2, GeneratedPackageIsSound, PTL DEF GenerationSpec

------------------------------------------------------------------------------
(* What the generator builds can be built, and is accepted. *)

\* No truth of _generate_case is refused by coherent_truth: a case opens, and opens and
\* clears by turns, whatever tick it starts from.
THEOREM TruthIsCoherent ==
  ASSUME NEW c \in TierCases, NEW b \in Nat
  PROVE  CoherentTruth(Truth(c, b))
<1> DEFINE o == Observation(c, b)
           t == TemplateOf(c)
           row == Truth(c, b)
           L == row.lifecycle
           BeforeOf(x) == {y \in L : Precedes(y, x)}
<1>1. TemplateOK(t) /\ o \in Nat /\ o >= b + 4
  BY TemplateOfIsOK, ObservationIsTick
<1>2. /\ row.required = t.required
      /\ Opens(row) = (IF t.required THEN {o} ELSE {}) \cup (IF t.recurs THEN {o + 13} ELSE {})
      /\ row.clears = (IF t.required THEN ExpectedClears(c, b) ELSE {})
      /\ TruthOK(row)
  BY TruthOfCase
<1> SUFFICES ASSUME t.required
             PROVE  CoherentTruth(row)
  BY <1>2 DEF CoherentTruth
<1>3. /\ row.opened = o /\ row.observable = o /\ row.drift = b + 3 /\ row.dimension = t.dimension
      /\ row.continuous = t.continuous /\ L = Lifecycle(Opens(row), row.clears)
  BY <1>2 DEF Truth, TruthOK
<1>4. Opens(row) = {row.opened} \cup ToSet(row.recurrences)
  BY <1>1, <1>3, StatesAreApart DEF Opens
<1>5. row.clears = (IF t.complete = TRUE THEN {o + 4} ELSE {})
        \cup (IF t.clears THEN {o + 5} ELSE {}) \cup (IF t.recurs THEN {o + 17} ELSE {})
  BY <1>2 DEF ExpectedClears
<1>6. t.recurs => t.complete = TRUE
  BY <1>1 DEF TemplateOK
<1>7. ~(t.complete = TRUE /\ t.clears)
  BY <1>1 DEF TemplateOK
<1>8. row.dimension # Unset /\ row.continuous # Unset
  BY <1>1, <1>3 DEF TemplateOK
<1>9. \A x : x \in L <=> \/ x.tick \in Opens(row) /\ x = Transition(x.tick, "open")
                         \/ x.tick \in row.clears /\ x = Transition(x.tick, "clear")
  BY <1>3 DEF Lifecycle, Transition
<1>10. \A u, s : Transition(u, s).tick = u /\ Transition(u, s).state = s
  BY DEF Transition
<1> DEFINE x1 == Transition(o, "open")
           x2 == Transition(IF t.clears THEN o + 5 ELSE o + 4, "clear")
           x3 == Transition(o + 13, "open")
           x4 == Transition(o + 17, "clear")
<1>11. L = {x1} \cup (IF t.complete = TRUE \/ t.clears THEN {x2} ELSE {}) \cup (IF t.recurs THEN {x3, x4} ELSE {})
  <2>1. t.clears \in BOOLEAN /\ t.recurs \in BOOLEAN
    BY <1>1 DEF TemplateOK
  <2>2. Opens(row) = {o} \cup (IF t.recurs THEN {o + 13} ELSE {})
    BY <1>2
  <2>3. row.clears = (IF t.complete = TRUE \/ t.clears THEN {IF t.clears THEN o + 5 ELSE o + 4} ELSE {})
                     \cup (IF t.recurs THEN {o + 17} ELSE {})
    BY <1>5, <1>7
  <2> HIDE DEF L, row, o, t
  <2>4. L = {Transition(u, "open") : u \in Opens(row)} \cup {Transition(v, "clear") : v \in row.clears}
    BY <1>3 DEF Lifecycle
  <2>5. QED
    BY <2>1, <2>2, <2>3, <2>4
<1>12. /\ x1.tick = o /\ x1.state = "open" /\ x2.tick \in {o + 4, o + 5} /\ x2.state = "clear"
       /\ x3.tick = o + 13 /\ x3.state = "open" /\ x4.tick = o + 17 /\ x4.state = "clear"
  BY <1>10
<1> HIDE DEF x1, x2, x3, x4, L
<1>13. BeforeOf(x1) = {}
  BY <1>1, <1>11, <1>12 DEF Precedes
<1>14. x2 \in L => BeforeOf(x2) = {x1}
  BY <1>1, <1>11, <1>12 DEF Precedes
<1>15. x3 \in L => t.recurs
  BY <1>1, <1>11, <1>12
<1>16. t.recurs => BeforeOf(x3) = {x1, x2} /\ BeforeOf(x4) = {x1, x2, x3}
  BY <1>1, <1>6, <1>11, <1>12 DEF Precedes
<1>17. x1 # x2 /\ x1 # x3 /\ x2 # x3
  BY <1>1, <1>12
<1>18. /\ Cardinality({}) = 0 /\ Cardinality({x1}) = 1
       /\ Cardinality({x1, x2}) = 2 /\ Cardinality({x1, x2, x3}) = 3
  <2>1. IsFiniteSet({x1}) /\ Cardinality({x1}) = 1 /\ Cardinality({}) = 0
    BY FS_Singleton, FS_EmptySet
  <2>2. IsFiniteSet({x1} \cup {x2}) /\ Cardinality({x1} \cup {x2}) = 2
    <3>1. x2 \notin {x1}
      BY <1>17
    <3>2. /\ IsFiniteSet({x1} \cup {x2})
          /\ Cardinality({x1} \cup {x2}) = IF x2 \in {x1} THEN Cardinality({x1}) ELSE Cardinality({x1}) + 1
      BY <2>1, FS_AddElement
    <3>3. QED
      BY <2>1, <3>1, <3>2
  <2>3. x3 \notin {x1} \cup {x2}
    BY <1>17
  <2>4. Cardinality(({x1} \cup {x2}) \cup {x3}) = 3
    BY <2>2, <2>3, FS_AddElement
  <2>5. {x1} \cup {x2} = {x1, x2} /\ ({x1} \cup {x2}) \cup {x3} = {x1, x2, x3}
    OBVIOUS
  <2>6. QED
    BY <2>1, <2>2, <2>4, <2>5
<1>19. ASSUME NEW x \in L
       PROVE  (x.state = "open") = (Cardinality(BeforeOf(x)) % 2 = 0)
  <2> HIDE DEF BeforeOf
  <2>1. x = x1 \/ (x = x2 /\ x2 \in L) \/ (t.recurs /\ x = x3) \/ (t.recurs /\ x = x4)
    BY <1>11
  <2> DEFINE n == Cardinality(BeforeOf(x))
  <2>2. (x.state = "open" /\ (n = 0 \/ n = 2)) \/ (x.state = "clear" /\ (n = 1 \/ n = 3))
    <3>1. x = x1 => x.state = "open" /\ n = 0
      BY <1>12, <1>13, <1>18
    <3>2. x = x2 /\ x2 \in L => x.state = "clear" /\ n = 1
      BY <1>12, <1>14, <1>18
    <3>3. t.recurs /\ x = x3 => x.state = "open" /\ n = 2
      BY <1>12, <1>16, <1>18
    <3>4. t.recurs /\ x = x4 => x.state = "clear" /\ n = 3
      BY <1>12, <1>16, <1>18
    <3>5. QED
      BY <2>1, <3>1, <3>2, <3>3, <3>4
  <2> HIDE DEF n
  <2>3. (x.state = "open") = (n % 2 = 0)
    BY <2>2
  <2>4. QED
    BY <2>3 DEF n
<1>20. \A v \in row.clears : v >= row.opened
  BY <1>1, <1>3, <1>5
<1>21. {x.tick : x \in {y \in L : y.state = "open"}} = Opens(row)
  <2>1. \A x \in L : x.state = "open" => x.tick \in Opens(row)
    BY <1>9, <1>10
  <2>2. \A u \in Opens(row) : Transition(u, "open") \in L
    BY <1>9, <1>10
  <2>3. QED
    BY <1>10, <2>1, <2>2
<1>22. {x.tick : x \in {y \in L : y.state = "clear"}} = row.clears
  <2>1. \A x \in L : x.state = "clear" => x.tick \in row.clears
    BY <1>9, <1>10
  <2>2. \A u \in row.clears : Transition(u, "clear") \in L
    BY <1>9, <1>10
  <2>3. QED
    BY <1>10, <2>1, <2>2
<1>23. row.drift <= row.observable /\ row.observable <= row.opened
  BY <1>1, <1>3
<1>24. QED
  BY <1>4, <1>8, <1>19, <1>20, <1>21, <1>22, <1>23 DEF CoherentTruth, L

\* Everything of a package happens before its horizon, its last checkpoint.
LEMMA HorizonIsLast ==
  ASSUME PackageInv
  PROVE  LET events == genSignals \cup genRemediations IN
         /\ Generated!Horizon = GeneratedHorizon(events, genWindows)
         /\ \A e \in events : e.audit <= Generated!Horizon
         /\ \A w \in genWindows : w.restored <= Generated!Horizon
<1> DEFINE events == genSignals \cup genRemediations
           last == GeneratedHorizon(events, genWindows)
           T == CheckpointTicks(events, {truth[c] : c \in TierCases}, last)
<1>1. FromBase /\ truth = [c \in TierCases |-> Truth(c, base[c])]
  BY DEF PackageInv, FromBase
<1>2. /\ last \in Nat
      /\ \A e \in events : /\ e.effective \in Nat /\ e.observation \in Nat /\ e.audit \in Nat
                           /\ e.audit < last
      /\ \A w \in genWindows : w.restored \in Nat /\ w.restored < last
  BY <1>1, TicksFromBase
<1>3. genCheckpoints = {GeneratedCheckpoint(genSignals, genRemediations, t) : t \in T}
  BY DEF PackageInv, GeneratedCheckpoints
<1>4. \A t : GeneratedCheckpoint(genSignals, genRemediations, t).tick = t
  BY DEF GeneratedCheckpoint
<1>5. {p.tick : p \in genCheckpoints} = T
  <2> HIDE DEF T
  <2>1. QED
    BY <1>3, <1>4
<1>6. \A e \in events : e.effective <= e.observation /\ e.observation <= e.audit
  <2>1. ASSUME NEW c \in TierCases, NEW s \in CaseEvents(c, base[c])
        PROVE  s.effective <= s.observation /\ s.observation <= s.audit
    <3>1. base[c] \in Nat
      BY <1>1 DEF FromBase
    <3>2. QED
      BY <3>1, TimesOfCase
  <2>2. QED
    BY <1>1, <2>1 DEF FromBase, CaseEvents
<1>7. ASSUME NEW c \in TierCases, NEW x \in truth[c].lifecycle
      PROVE  x.tick \in Nat /\ x.tick < last
  <2>1. base[c] \in Nat /\ truth[c] = Truth(c, base[c]) /\ TruthOK(truth[c])
    BY TruthIsOK
  <2>2. x.tick \in Opens(truth[c]) \cup truth[c].clears
    BY <2>1 DEF TruthOK, Lifecycle, Transition
  <2>3. \E e \in CaseEvents(c, base[c]) : e.observation = x.tick
    BY <2>1, <2>2, ObservationsOfCase DEF CaseEvents, CaseClears
  <2>4. PICK e \in events : e.observation = x.tick
    BY <1>1, <2>3 DEF FromBase, CaseEvents
  <2>5. e.observation \in Nat /\ e.audit \in Nat /\ e.observation <= e.audit /\ e.audit < last
    BY <1>2, <1>6, <2>4
  <2> HIDE DEF last, events
  <2>6. QED
    BY <1>2, <2>4, <2>5
<1>8. \A t \in T : t \in Nat /\ t <= last
  <2> SUFFICES ASSUME NEW t \in T
               PROVE  t \in Nat /\ t <= last
    OBVIOUS
  <2>1. \/ t = 0 \/ t = last
        \/ \E e \in events : t \in {e.effective, e.observation, e.audit}
        \/ \E c \in TierCases : \E x \in truth[c].lifecycle : t = x.tick
    BY DEF CheckpointTicks
  <2> HIDE DEF last
  <2>2. ASSUME NEW e \in events, t \in {e.effective, e.observation, e.audit}
        PROVE  t \in Nat /\ t <= last
    <3>1. /\ e.effective \in Nat /\ e.observation \in Nat /\ e.audit \in Nat
          /\ e.effective <= e.observation /\ e.observation <= e.audit /\ e.audit < last
      BY <1>2, <1>6
    <3>2. QED
      BY <1>2, <2>2, <3>1
  <2>3. QED
    BY <1>2, <1>7, <2>1, <2>2
<1>9. last \in T
  BY DEF CheckpointTicks
<1>10. Generated!Horizon = CHOOSE t \in T : \A p \in genCheckpoints : p.tick <= t
  BY <1>5 DEF Generated!Horizon
<1>11. (\A e \in events : e.audit <= last) /\ \A w \in genWindows : w.restored <= last
  <2> HIDE DEF events, last
  <2>1. \A n \in Nat : n < last => n <= last
    BY <1>2
  <2>2. QED
    BY <1>2, <2>1
<1> HIDE DEF T, last, events
<1>12. \A t \in T : (\A p \in genCheckpoints : p.tick <= t) <=> t = last
  <2>1. \A p \in genCheckpoints : p.tick \in T
    BY <1>5
  <2>2. \E p \in genCheckpoints : p.tick = last
    BY <1>5, <1>9
  <2>3. QED
    BY <1>2, <1>8, <2>1, <2>2
<1>13. Generated!Horizon = last
  BY <1>9, <1>10, <1>12
<1>14. QED
  BY <1>11, <1>13 DEF last, events

\* A case has a signal, a window delays the first signal of its own case, and a checkpoint
\* says what was observed.
LEMMA PackageIsAccepted ==
  ASSUME PackageInv
  PROVE  Generated!Verdict = "public"
<1>1. /\ FromBase /\ \A c \in TierCases : base[c] \in Nat
  BY DEF PackageInv, FromBase
<1>2. Generated!CasesAreWhole
  <2>1. ASSUME NEW c \in TierCases
        PROVE  Generated!SignalsOf(c) # {}
    <3>1. PICK s \in CaseSignals(c, base[c]) : s.case = c
      BY <1>1, SignalsOfCase
    <3>2. s \in genSignals
      BY <1>1 DEF FromBase
    <3>3. QED
      BY <3>1, <3>2 DEF Generated!SignalsOf
  <2>2. \A r \in genRemediations : r.case \in TierCases
    BY <1>1, RemediationsOfCase DEF FromBase
  <2>3. \A w \in genWindows : w.case \in TierCases
    <3>1. ASSUME NEW c \in TierCases, NEW w \in CaseWindows(c, base[c])
          PROVE  w.case = c
      BY DEF CaseWindows
    <3>2. QED
      BY <1>1, <3>1 DEF FromBase
  <2>4. QED
    BY <2>1, <2>2, <2>3 DEF Generated!CasesAreWhole
<1>3. Generated!WindowsHold
  <2> SUFFICES ASSUME NEW w \in genWindows, NEW s \in genSignals, s.id \in w.delayed
               PROVE  Generated!DelayedInWindow(w, s)
    BY DEF Generated!WindowsHold
  <2>1. PICK c \in TierCases : w \in CaseWindows(c, base[c])
    BY <1>1 DEF FromBase
  <2>2. PICK d \in TierCases : s \in CaseSignals(d, base[d])
    BY <1>1 DEF FromBase
  <2>3. /\ TemplateOf(c).delayed
        /\ w.family = TemplateOf(c).family /\ w.from = base[c] + 2 /\ w.restored = base[c] + 8
        /\ w.delayed = {EventId(c, 1)}
    BY <2>1 DEF CaseWindows
  <2>4. c \in Nat /\ d \in Nat /\ base[c] \in Nat
    BY <1>1, CaseNumbers
  <2>5. \/ s = FirstSignal(d, base[d]) /\ s.id = EventId(d, 1)
        \/ s.id = EventId(d, 2) \/ s.id = EventId(d, 3)
    <3>1. FirstSignal(d, base[d]).id = EventId(d, 1)
      BY DEF FirstSignal, EventFrom
    <3>2. \A n, state, first : EventFrom(d, n, state, first).id = EventId(d, n)
      BY DEF EventFrom
    <3>3. \/ s = FirstSignal(d, base[d])
          \/ \E state, first : s = EventFrom(d, 2, state, first) \/ s = EventFrom(d, 3, state, first)
      BY <2>2 DEF CaseSignals
    <3>4. QED
      BY <3>1, <3>2, <3>3
  <2>6. c = d /\ s = FirstSignal(c, base[c])
    BY <2>3, <2>4, <2>5 DEF EventId
  <2>7. s.family = TemplateOf(c).family
    BY <2>6 DEF FirstSignal, EventFrom
  <2>8. s.effective = base[c] + 3 /\ s.observation = base[c] + 9
    BY <1>1, <2>3, <2>6, FirstSignalFields DEF Observation
  <2>9. QED
    BY <2>3, <2>4, <2>7, <2>8 DEF Generated!DelayedInWindow
<1>4. ~Generated!OneTick
  <2>1. 1 \in TierCases /\ 2 \in TierCases
    BY GenerationAssumption DEF TierCases
  <2>2. PICK s1 \in CaseSignals(1, base[1]) : s1.case = 1
    BY <1>1, <2>1, SignalsOfCase
  <2>3. PICK s2 \in CaseSignals(2, base[2]) : s2.case = 2
    BY <1>1, <2>1, SignalsOfCase
  <2>4. s1 \in Generated!Events /\ s2 \in Generated!Events /\ s1 # s2
    BY <1>1, <2>1, <2>2, <2>3 DEF FromBase, Generated!Events
  <2>5. IsFiniteSet(Generated!Events)
    BY <1>1, TicksFromBase DEF Generated!Events
  <2>6. Cardinality(Generated!Events) \in Nat /\ Cardinality(Generated!Events) >= 2
    <3>1. IsFiniteSet({s1} \cup {s2}) /\ Cardinality({s1} \cup {s2}) = 2
      <4>1. s2 \notin {s1}
        BY <2>4
      <4>2. IsFiniteSet({s1}) /\ Cardinality({s1}) = 1
        BY FS_Singleton
      <4>3. /\ IsFiniteSet({s1} \cup {s2})
            /\ Cardinality({s1} \cup {s2}) = IF s2 \in {s1} THEN Cardinality({s1}) ELSE Cardinality({s1}) + 1
        BY <4>2, FS_AddElement
      <4>4. QED
        BY <4>1, <4>2, <4>3
    <3>2. {s1} \cup {s2} \in SUBSET Generated!Events
      BY <2>4
    <3>3. Cardinality({s1} \cup {s2}) <= Cardinality(Generated!Events)
      BY <2>5, <3>2, FS_Subset
    <3>4. QED
      BY <2>5, <3>1, <3>3, FS_CardinalityType
  <2>7. Cardinality(genWindows) \in Nat
    BY <1>1, TicksFromBase, FS_CardinalityType
  <2>8. ASSUME NEW n \in Nat, NEW m \in Nat, n >= 2
        PROVE  n + m # 1
    BY <2>8
  <2>9. Cardinality(Generated!Events) + Cardinality(genWindows) # 1
    BY <2>6, <2>7, <2>8
  <2>10. \A S : Generated!Cardinality(S) = Cardinality(S)
    BY DEF Generated!Cardinality, Cardinality, Generated!IsFiniteSet, IsFiniteSet
  <2>11. QED
    BY <2>9, <2>10 DEF Generated!OneTick
<1>5. Generated!HorizonHolds
  BY HorizonIsLast DEF Generated!HorizonHolds, Generated!Events
<1>6. Generated!CheckpointsHold
  <2> SUFFICES ASSUME NEW p \in genCheckpoints
               PROVE  p = Generated!CheckpointAt(p.tick)
    BY DEF Generated!CheckpointsHold
  <2>1. PICK t : p = GeneratedCheckpoint(genSignals, genRemediations, t)
    BY DEF PackageInv, GeneratedCheckpoints
  <2>2. p.tick = t
    BY <2>1 DEF GeneratedCheckpoint
  <2>3. GeneratedCheckpoint(genSignals, genRemediations, t) = Generated!CheckpointAt(t)
    BY DEF GeneratedCheckpoint, Generated!CheckpointAt, Generated!EvidenceAt, Generated!Events, Generated!ObservedAt
  <2>4. QED
    BY <2>1, <2>2, <2>3
<1>7. QED
  BY <1>2, <1>3, <1>4, <1>5, <1>6 DEF Generated!Verdict

\* No package of generate_continuous_assurance is rejected by
\* validate_continuous_assurance_public.
THEOREM GeneratedPackageIsAccepted == GenerationSpec => [](genStage \in {"building", "public"})
<1> DEFINE Accepted == genStage \in {"building", "public"}
<1>1. GenerationInit => Accepted
  BY DEF GenerationInit
<1>2. PackageInv /\ Accepted /\ [GenerationNext]_generationVars => Accepted'
  <2> SUFFICES ASSUME PackageInv, Accepted, [GenerationNext]_generationVars
               PROVE  Accepted'
    OBVIOUS
  <2>1. CASE GenerationValidate
    BY <2>1, PackageIsAccepted DEF GenerationValidate, Generated!Validate
  <2>2. CASE UNCHANGED genStage
    BY <2>2
  <2>3. GenerationValidate \/ UNCHANGED genStage
    BY DEF GenerationNext, Advance, Evaluate, generationVars
  <2>4. QED
    BY <2>1, <2>2, <2>3
<1>3. QED
  BY <1>1, <1>2, GeneratedPackageIsSound, PTL DEF GenerationSpec

------------------------------------------------------------------------------
(* The truth, submitted as a prediction. *)

Flags == {"detection", "classification", "opening", "clearing", "recurrence", "remediation", "evidence", "checkpoint"}

PerfectIsRight == submitted = "perfect" => \A flag \in Flags : AllRight(flag)

LEMMA TruthIsRight ==
  ASSUME PackageInv, NEW c \in TierCases
  PROVE  \A flag \in Flags : Finding(c, TruthRow(c))[flag]
<1> DEFINE row == TruthRow(c)
           finding == Finding(c, row)
<1>1. /\ row.dimension = truth[c].dimension /\ row.opened = truth[c].opened /\ row.clears = truth[c].clears
      /\ row.recurrences = truth[c].recurrences /\ row.complete = truth[c].complete
      /\ row.continuous = truth[c].continuous
  BY DEF TruthRow, Generated!NoFinding
<1>2. TruthOK(truth[c])
  BY TruthIsOK
<1>3. RowOK(row)
  <2>1. Opens(row) = Opens(truth[c])
    BY <1>1 DEF Opens
  <2>2. row.opened \in Nat \cup {Unset}
    BY <1>1, <1>2 DEF TruthOK
  <2>3. Opens(row) \in SUBSET Int /\ row.clears \in SUBSET Int
    BY <1>1, <1>2, <2>1 DEF TruthOK
  <2>4. QED
    BY <1>1, <1>2, <2>1, <2>2, <2>3 DEF TruthOK, RowOK
<1>4. CheckpointMatches(c, row) = genCheckpoints
  BY <1>1, <1>3, SameTicksAgree
<1>5. IF truth[c].required THEN ValidDetection(c, row) ELSE row.opened = Unset
  BY <1>1, <1>2, StatesAreApart DEF TruthOK, ValidDetection
<1> HIDE DEF row
<1>6. /\ finding.detection /\ finding.classification /\ finding.opening /\ finding.clearing
      /\ finding.recurrence /\ finding.remediation /\ finding.evidence /\ finding.checkpoint
  BY <1>1, <1>4, <1>5 DEF Finding
<1>7. QED
  BY <1>6 DEF Flags, row

\* Whoever submits the truth to evaluate_continuous_assurance_prediction is scored right in
\* every finding.
THEOREM TruthIsScoredRight == GenerationSpec => []PerfectIsRight
<1>1. GenerationInit => PerfectIsRight
  <2>1. Unset # "perfect"
    BY UnsetAssumption DEF Predictions
  <2>2. QED
    BY <2>1 DEF GenerationInit, PerfectIsRight
<1>2. PackageInv /\ PerfectIsRight /\ [GenerationNext]_generationVars => PerfectIsRight'
  <2> SUFFICES ASSUME PackageInv, PerfectIsRight, [GenerationNext]_generationVars
               PROVE  PerfectIsRight'
    OBVIOUS
  <2>1. CASE UNCHANGED <<submitted, report>>
    BY <2>1 DEF PerfectIsRight, AllRight
  <2>2. ASSUME NEW name \in Predictions, Evaluate(name), name = "perfect"
        PROVE  PerfectIsRight'
    <3>1. \A c \in TierCases : report'.findings[c] = Finding(c, TruthRow(c))
      BY <2>2 DEF Evaluate, Prediction
    <3>2. \A flag \in Flags : AllRight(flag)'
      BY <3>1, TruthIsRight DEF AllRight
    <3>3. QED
      BY <3>2 DEF PerfectIsRight
  <2>3. ASSUME NEW name \in Predictions, Evaluate(name), name # "perfect"
        PROVE  PerfectIsRight'
    BY <2>3 DEF Evaluate, PerfectIsRight
  <2>4. GenerationValidate \/ Advance \/ UNCHANGED generationVars => UNCHANGED <<submitted, report>>
    BY DEF GenerationValidate, Generated!Validate, Advance, generationVars
  <2>5. QED
    BY <2>1, <2>2, <2>3, <2>4 DEF GenerationNext
<1>3. QED
  BY <1>1, <1>2, GeneratedPackageIsSound, PTL DEF GenerationSpec
=============================================================================
