------------------------ MODULE AssuranceGeneration ------------------------
(***************************************************************************)
(* The generated continuous-assurance benchmark and its scoring: cases on  *)
(* one clock, drawn from eight templates, each with the lifecycle of the   *)
(* finding that is expected.  The clock of a replay runs to the horizon,   *)
(* and predictions are scored against the truth.                           *)
(***************************************************************************)
EXTENDS Integers, Sequences, FiniteSets, SequencesExt

CONSTANTS
  Cycles,         \* of a tier
  Seeds, Orders,  \* the seeds, and the orders of the templates
  Unset

VARIABLES
  genSignals, genRemediations, genWindows, genCheckpoints, genStage,  \* the package
  base,        \* for each case, the tick it starts from
  truth,       \* for each case, what is expected of its finding
  tick,        \* the tick the truth is replayed to
  submitted,   \* the name of the prediction that was scored, or Unset
  report       \* its findings and counts

generation == <<genSignals, genRemediations, genWindows, genCheckpoints, base, truth>>
generationVars == <<generation, genStage, tick, submitted, report>>

Drifted == {"active", "changed", "missing", "present"}
Restored == {"healthy", "inactive", "retained", "withdrawn"}
Dimensions == {"credential", "delegation", "entitlement", "evidence", "owner", "policy"}

\* A case is a template in a cycle.
TierCases == 1..8 * Cycles

\* An order is one of the templates.
ASSUME GenerationAssumption ==
  /\ Cycles \in Nat \ {0} /\ Seeds \subseteq Nat
  /\ \A order \in Orders : \A k \in 1..8 : \E i \in 1..8 : order[i] = k

Generated == INSTANCE ContinuousAssurance WITH
  signals <- genSignals, remediations <- genRemediations, windows <- genWindows,
  checkpoints <- genCheckpoints, stage <- genStage, answers <- submitted,
  Cases <- TierCases, Families <- {"identity", "agentic", "contextual", "governance"},
  ProblemStates <- Drifted, ClearStates <- Restored,
  MaxTick <- 0, MaxEvents <- 0, MaxCheckpoints <- 0, None <- Unset

\* _TEMPLATES.
Template(dimension, family, state, remediation, complete, continuous, later) ==
  [dimension |-> dimension, family |-> family, required |-> TRUE, state |-> state,
   remediation |-> remediation, complete |-> complete, continuous |-> continuous,
   recurs |-> FALSE, delayed |-> FALSE, later |-> later, clears |-> FALSE]

Templates == <<
  Template("entitlement", "identity", "present", "withdrawn", TRUE, TRUE, Unset),
  Template("owner", "identity", "missing", "changed", FALSE, TRUE, Unset),
  Template("credential", "agentic", "active", "inactive", TRUE, TRUE, Unset),
  [Template("delegation", "agentic", "active", "inactive", TRUE, TRUE, Unset) EXCEPT !.recurs = TRUE],
  Template("policy", "governance", "changed", Unset, Unset, TRUE, "healthy"),
  [Template("evidence", "governance", "missing", Unset, Unset, FALSE, "retained") EXCEPT !.clears = TRUE],
  [Template("entitlement", "contextual", "present", "withdrawn", TRUE, FALSE, Unset) EXCEPT !.delayed = TRUE],
  [Template("policy", "contextual", "healthy", Unset, Unset, Unset, Unset) EXCEPT !.required = FALSE] >>

\* The place of a case on the clock depends on the order of the templates.
TemplateOf(c) == Templates[((c - 1) % 8) + 1]
PlaceOf(c, order) == CHOOSE i \in 1..8 : order[i] = ((c - 1) % 8) + 1
BaseTick(c, seed, order) == 1 + (seed % 7) + ((c - 1) \div 8) * 200 + (PlaceOf(c, order) - 1) * 20

(***************************************************************************)
(* _generate_case.                                                         *)
(***************************************************************************)
EventId(c, n) == 10 * c + n

\* An event, its five ticks in a row from the first.
EventFrom(c, n, state, first) ==
  [id |-> EventId(c, n), case |-> c, dimension |-> TemplateOf(c).dimension, family |-> TemplateOf(c).family,
   state |-> state, action |-> first, decision |-> first + 1, effective |-> first + 2,
   observation |-> first + 3, audit |-> first + 4]

Observation(c, b) == b + IF TemplateOf(c).delayed THEN 9 ELSE 4

FirstSignal(c, b) ==
  [EventFrom(c, 1, TemplateOf(c).state, b + 1) EXCEPT !.observation = Observation(c, b), !.audit = Observation(c, b) + 1]

CaseSignals(c, b) ==
  LET o == Observation(c, b) IN
  {FirstSignal(c, b)}
  \cup (IF TemplateOf(c).later = Unset THEN {} ELSE {EventFrom(c, 2, TemplateOf(c).later, o + 2)})
  \cup (IF TemplateOf(c).recurs THEN {EventFrom(c, 3, TemplateOf(c).state, o + 10)} ELSE {})

CaseRemediations(c, b) ==
  LET o == Observation(c, b) IN
  IF TemplateOf(c).remediation = Unset THEN {}
  ELSE {EventFrom(c, 4, TemplateOf(c).remediation, o + 1)}
       \cup (IF TemplateOf(c).recurs THEN {EventFrom(c, 5, TemplateOf(c).remediation, o + 14)} ELSE {})

CaseWindows(c, b) ==
  IF TemplateOf(c).delayed
  THEN {[case |-> c, family |-> TemplateOf(c).family, from |-> b + 2, restored |-> b + 8, delayed |-> {EventId(c, 1)}]}
  ELSE {}

\* Mutant: any later state clears a finding.
ClearsLater(c, b) ==
  LET o == Observation(c, b) IN
  (IF TemplateOf(c).complete = TRUE THEN {o + 4} ELSE {})
  \cup (IF TemplateOf(c).later # Unset THEN {o + 5} ELSE {})
  \cup (IF TemplateOf(c).recurs THEN {o + 17} ELSE {})

ExpectedClears(c, b) ==
  LET o == Observation(c, b) IN
  (IF TemplateOf(c).complete = TRUE THEN {o + 4} ELSE {})
  \cup (IF TemplateOf(c).clears THEN {o + 5} ELSE {})
  \cup (IF TemplateOf(c).recurs THEN {o + 17} ELSE {})

Transition(t, state) == [tick |-> t, state |-> state]

\* A lifecycle is in the order of its ticks, and at one tick a clear comes first.
Precedes(x, y) == x.tick < y.tick \/ (x.tick = y.tick /\ x.state = "clear" /\ y.state = "open")

Truth(c, b) ==
  LET o == Observation(c, b)
      recurrences == IF TemplateOf(c).recurs THEN <<o + 13>> ELSE <<>> IN
  IF ~TemplateOf(c).required
  THEN [required |-> FALSE, dimension |-> Unset, drift |-> Unset, observable |-> Unset, opened |-> Unset,
        clears |-> {}, recurrences |-> <<>>, complete |-> Unset, continuous |-> Unset, lifecycle |-> {}]
  ELSE [required |-> TRUE, dimension |-> TemplateOf(c).dimension, drift |-> b + 3, observable |-> o, opened |-> o,
        clears |-> ExpectedClears(c, b), recurrences |-> recurrences,
        complete |-> TemplateOf(c).complete, continuous |-> TemplateOf(c).continuous,
        lifecycle |-> {Transition(t, "open") : t \in {o} \cup ToSet(recurrences)}
                      \cup {Transition(t, "clear") : t \in ExpectedClears(c, b)}]

\* coherent_truth: a truth that is not coherent cannot be built.
CoherentTruth(row) ==
  row.required =>
    /\ row.drift <= row.observable /\ row.observable <= row.opened
    /\ row.continuous # Unset /\ row.dimension # Unset
    /\ \A t \in row.clears : t >= row.opened
    /\ {x.tick : x \in {y \in row.lifecycle : y.state = "open"}} = {row.opened} \cup ToSet(row.recurrences)
    /\ {x.tick : x \in {y \in row.lifecycle : y.state = "clear"}} = row.clears
    /\ \A x \in row.lifecycle :
         (x.state = "open") = (Cardinality({y \in row.lifecycle : Precedes(y, x)}) % 2 = 0)

MaximumOf(S) == CHOOSE t \in S : \A u \in S : u <= t

\* _checkpoints: one at each tick at which something happens.
CheckpointTicks(events, rows, last) ==
  {0, last} \cup (UNION {{e.effective, e.observation, e.audit} : e \in events})
  \cup (UNION {{x.tick : x \in row.lifecycle} : row \in rows})

GeneratedHorizon(events, outages) ==
  MaximumOf({e.audit : e \in events} \cup {w.restored : w \in outages}) + 3

(***************************************************************************)
(* expected_finding_state_at and _predicted_finding_state_at.              *)
(***************************************************************************)
StateAt(lifecycle, t) ==
  LET before == {x \in lifecycle : x.tick <= t} IN
  IF before = {} THEN "clear" ELSE (CHOOSE x \in before : \A y \in before : x = y \/ Precedes(y, x)).state

Opens(row) == (IF row.opened = Unset THEN {} ELSE {row.opened}) \cup ToSet(row.recurrences)

PredictedAt(row, t) ==
  LET before == {u \in Opens(row) \cup row.clears : u <= t} IN
  IF before # {} /\ MaximumOf(before) \in Opens(row) THEN "open" ELSE "clear"

(***************************************************************************)
(* Predictions: that of the truth, those of the baselines, and ways to be  *)
(* wrong.                                                                  *)
(***************************************************************************)
TruthRow(c) == [f \in DOMAIN Generated!NoFinding |-> truth[c][f]]

Shifted(c, by) == [TruthRow(c) EXCEPT !.opened = IF @ = Unset THEN Unset ELSE @ + by]

Wrong(name, c) ==
  CASE name = "silent" -> Generated!NoFinding
    [] name = "early" -> Shifted(c, -1)
    [] name = "late" -> Shifted(c, 1)
    [] name = "hasty" -> [TruthRow(c) EXCEPT !.clears = {t - 1 : t \in @}]
    [] name = "restless" -> [TruthRow(c) EXCEPT !.clears = IF @ = {} THEN {} ELSE @ \cup {Generated!Horizon}]
    [] name = "forgetful" -> [TruthRow(c) EXCEPT !.recurrences = <<>>]
    [] name = "alarmed" -> IF truth[c].required THEN TruthRow(c)
                           ELSE [Generated!NoFinding EXCEPT !.dimension = "policy", !.opened = 1]

Predictions == Generated!Baselines \cup {"perfect", "silent", "early", "late", "hasty", "restless", "forgetful", "alarmed"}

\* Unset is no number, no truth value and none of the names.
ASSUME UnsetAssumption ==
  Unset \notin Nat \cup BOOLEAN \cup Dimensions \cup Drifted \cup Restored \cup Predictions

Prediction(name, c) ==
  IF name = "perfect" THEN TruthRow(c)
  ELSE IF name \in Generated!Baselines THEN Generated!BaselineRow(name, c)
  ELSE Wrong(name, c)

(***************************************************************************)
(* evaluate_continuous_assurance_prediction.                               *)
(***************************************************************************)
\* Mutant: a finding opened before anything was observed counts as a detection.
OpenedAtAll(c, row) == truth[c].required /\ row.opened # Unset

ValidDetection(c, row) == truth[c].required /\ row.opened # Unset /\ row.opened >= truth[c].observable

CheckpointMatches(c, row) ==
  {p \in genCheckpoints : PredictedAt(row, p.tick) = StateAt(truth[c].lifecycle, p.tick)}

Finding(c, row) ==
  [detection |-> IF truth[c].required THEN ValidDetection(c, row) ELSE row.opened = Unset,
   classification |-> row.dimension = truth[c].dimension,
   opening |-> row.opened = truth[c].opened,
   clearing |-> row.clears = truth[c].clears,
   recurrence |-> row.recurrences = truth[c].recurrences,
   remediation |-> row.complete = truth[c].complete,
   evidence |-> row.continuous = truth[c].continuous,
   checkpoint |-> CheckpointMatches(c, row) = genCheckpoints]

\* The n-th clear that is expected, with the n-th that was submitted or Unset.
Rank(t, S) == Cardinality({u \in S : u < t})

Counterpart(t, expected, given) ==
  LET same == {u \in given : Rank(u, given) = Rank(t, expected)} IN
  IF same = {} THEN Unset ELSE CHOOSE u \in same : TRUE

ClearPairs(c, row) == {<<c, t, Counterpart(t, truth[c].clears, row.clears)>> : t \in truth[c].clears}

\* A duration is the ticks it lasts: those from an observation to the opening, and those
\* from an expected clear to the submitted one, or to the horizon if there is none.
WaitingTicks(c, row) == truth[c].observable..row.opened - 1

StaleTicks(pair) == pair[2]..(IF pair[3] = Unset THEN Generated!Horizon ELSE pair[3]) - 1

\* A sum of sizes, counted as the pairs of an argument and a member of its set.
Total(f) == Cardinality(UNION {{x} \X f[x] : x \in DOMAIN f})

Counts(rows) ==
  LET required == {c \in TierCases : truth[c].required}
      valid == {c \in required : ValidDetection(c, rows[c])}
      clears == UNION {ClearPairs(c, rows[c]) : c \in required}
      size(S) == Cardinality(S) IN
  [positives |-> size(required),
   valid |-> size(valid),
   predicted |-> size({c \in TierCases : rows[c].opened # Unset}),
   false_positives |-> size({c \in TierCases \ required : rows[c].opened # Unset}),
   early |-> size({c \in required : rows[c].opened # Unset /\ rows[c].opened < truth[c].observable}),
   exact |-> size({c \in required : rows[c].opened = truth[c].opened}),
   latency |-> Total([c \in valid |-> WaitingTicks(c, rows[c])]),
   classified |-> size({c \in required : rows[c].dimension = truth[c].dimension}),
   clears |-> size(clears),
   cleared |-> size({p \in clears : p[2] = p[3]}),
   stale |-> Total([p \in clears |-> StaleTicks(p)]),
   premature |-> size({p \in clears : p[3] # Unset /\ p[3] < p[2]}),
   recurrences |-> Total([c \in required |-> ToSet(truth[c].recurrences)]),
   recurrences_submitted |-> Total([c \in TierCases |-> ToSet(rows[c].recurrences)]),
   recurrences_matched |->
     Total([c \in required |-> ToSet(truth[c].recurrences) \cap ToSet(rows[c].recurrences)]),
   remediated |-> size({c \in required : truth[c].complete # Unset /\ rows[c].complete = truth[c].complete}),
   evidenced |-> size({c \in required : rows[c].continuous = truth[c].continuous}),
   cells |-> Total([c \in TierCases |-> CheckpointMatches(c, rows[c])])]

(***************************************************************************)
(* Generation, replay and scoring.                                         *)
(***************************************************************************)
GeneratedCheckpoint(S, R, t) ==
  [tick |-> t, signals |-> {s.id : s \in Generated!ObservedAt(S, t)},
   remediations |-> {r.id : r \in Generated!ObservedAt(R, t)},
   evidence |-> {e.id : e \in {f \in S \cup R : f.audit <= t}}]

GeneratedCheckpoints(S, R, outages, rows) ==
  {GeneratedCheckpoint(S, R, t) : t \in CheckpointTicks(S \cup R, rows, GeneratedHorizon(S \cup R, outages))}

GenerationInit ==
  /\ \E seed \in Seeds, order \in Orders : base = [c \in TierCases |-> BaseTick(c, seed, order)]
  /\ truth = [c \in TierCases |-> Truth(c, base[c])]
  /\ \A c \in TierCases : CoherentTruth(truth[c])
  /\ genSignals = UNION {CaseSignals(c, base[c]) : c \in TierCases}
  /\ genRemediations = UNION {CaseRemediations(c, base[c]) : c \in TierCases}
  /\ genWindows = UNION {CaseWindows(c, base[c]) : c \in TierCases}
  /\ genCheckpoints = GeneratedCheckpoints(genSignals, genRemediations, genWindows, {truth[c] : c \in TierCases})
  /\ genStage = "building"
  /\ tick = 0 /\ submitted = Unset /\ report = Unset

GenerationValidate == Generated!Validate /\ UNCHANGED <<base, truth, tick, report>>

Advance ==
  /\ genStage = "public" /\ tick < Generated!Horizon
  /\ tick' = tick + 1
  /\ UNCHANGED <<generation, genStage, submitted, report>>

\* A row is what its model admits: an opening is no negative tick.
RowIsValid(row) ==
  /\ row.opened \in Nat \cup {Unset}
  /\ row.clears \subseteq Int /\ IsFiniteSet(row.clears) /\ row.recurrences \in Seq(Int)
  /\ Generated!CoherentRow(row)

\* Bound: predictions are scored when the clock has run out.
Evaluate(name) ==
  /\ genStage = "public" /\ tick = Generated!Horizon
  /\ \A x \in UNION {truth[d].lifecycle : d \in TierCases} : x.tick <= Generated!Horizon
  /\ LET rows == [c \in TierCases |-> Prediction(name, c)] IN
     /\ \A c \in TierCases :
          RowIsValid(rows[c]) /\ \A t \in Opens(rows[c]) \cup rows[c].clears : t <= Generated!Horizon
     /\ submitted' = name
     /\ report' = [findings |-> [c \in TierCases |-> Finding(c, rows[c])], counts |-> Counts(rows), rows |-> rows]
  /\ UNCHANGED <<generation, genStage, tick>>

GenerationNext == GenerationValidate \/ Advance \/ \E name \in Predictions : Evaluate(name)

GenerationSpec == GenerationInit /\ [][GenerationNext]_generationVars

(***************************************************************************)
(* Properties.                                                             *)
(***************************************************************************)
Closes(e) == e.state \in Restored /\ (e \in genSignals => e.dimension # "policy")

\* A finding is open while the last thing observed of its case is a problem: what is
\* effective but not observed opens nothing, a remediation that does not remove the
\* problem closes nothing, and neither does a later policy, which authorises no earlier
\* state (_generate_case, expected_finding_state_at).
FindingFollowsObservation ==
  genStage = "public" =>
    \A c \in TierCases :
      (StateAt(truth[c].lifecycle, tick) = "open") =
        \E s \in Generated!ObservedAt(Generated!SignalsOf(c), tick) :
          /\ s.state \in Drifted
          /\ ~\E e \in Generated!ObservedAt(Generated!EventsOf(c), tick) :
               Closes(e) /\ e.observation > s.observation

AllRight(flag) == \A c \in TierCases : report.findings[c][flag]

\* Findings and metrics tell the same story: a metric is at its best exactly when the
\* findings it is about are all right, and every positive case is detected, opened early
\* or missed (_finding, evaluate_continuous_assurance_prediction).
ReportsAgree ==
  submitted # Unset =>
    LET n == report.counts
        missed == {c \in TierCases : truth[c].required /\ report.rows[c].opened = Unset} IN
    /\ n.valid + n.early + Cardinality(missed) = n.positives
    /\ n.valid + n.early + n.false_positives = n.predicted
    /\ AllRight("detection") = (n.valid = n.positives /\ n.false_positives = 0)
    /\ AllRight("opening") = (n.exact = n.positives /\ n.false_positives = 0)
    /\ AllRight("checkpoint") = (n.cells = Cardinality(genCheckpoints) * Cardinality(TierCases))
    /\ n.exact = n.positives => n.latency = 0 /\ n.early = 0
    /\ AllRight("clearing") => n.cleared = n.clears /\ n.stale = 0 /\ n.premature = 0
    /\ AllRight("recurrence") => n.recurrences_matched = n.recurrences /\ n.recurrences_submitted = n.recurrences
    /\ \A c \in TierCases :
         LET f == report.findings[c] IN f.opening /\ f.clearing /\ f.recurrence => f.checkpoint

=============================================================================
