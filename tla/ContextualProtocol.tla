------------------------- MODULE ContextualProtocol -------------------------
(***************************************************************************)
(* A run of an external system against a contextual access package: a plan *)
(* of probes is declared and validated, observations are staged for them,  *)
(* the truth of each probe is compiled from the package, and every probe   *)
(* gets a finding and a share in the metrics of its control.               *)
(*                                                                         *)
(* A package is what the probes refer to: the decision and the policy      *)
(* versions of each request, the tick of each event and the ticks of its   *)
(* delivery attempts in presentation order.                                *)
(***************************************************************************)
EXTENDS Naturals, Sequences, FiniteSets

CONSTANTS
  Packages,         \* the compiled packages a run may be about
  Probes,           \* the probes a plan may declare
  Components,       \* the systems under test and feeds the plan names
  KnownComponents,  \* the provenance records given with the plan
  Handles,          \* the evidence handles of the observations
  KindOfHandle,     \* the kind of each
  Observations,     \* the observations a runner may report
  FeedBound, AcceptanceBound, DecisionBound,
  MaxProbes,        \* bound: probes of a plan, and observations of a run
  Nothing

\* Ticks and latencies are non-negative integers; a latency may be absent.
LatenciesAreNatural ==
  /\ DecisionBound \in Nat
  /\ \A o \in Observations : o.control = "access_decision" =>
       DOMAIN o.attempts \subseteq Nat /\ \A n \in DOMAIN o.attempts : o.attempts[n].elapsed \in {Nothing} \cup Nat

ASSUME LatencyAssumption == LatenciesAreNatural

VARIABLES
  package,    \* the package of the run
  plan,       \* the probes declared
  coverage,   \* the controls the plan selects
  staged,     \* the observations staged: at most one of a probe
  phase,      \* "planning", "running", "scored" or "rejected"
  report      \* the findings, per probe

runVars == <<package, plan, coverage, staged, phase, report>>

Controls == {"mapping_ingestion", "access_decision", "protected_enforcement",
             "delivery_acceptance", "synchronization_fault", "evidence_correlation"}

(***************************************************************************)
(* validate_contextual_run_plan and the inventory check of the plan.       *)
(***************************************************************************)
References(p) ==
  CASE p.control = "mapping_ingestion" -> package.mapping[p.fact_type] = p.mapping_kind
    [] p.control = "access_decision" ->
         p.request \in DOMAIN package.decision
         /\ (p.trigger = Nothing \/ p.trigger \in DOMAIN package.attempts)
    [] p.control = "delivery_acceptance" ->
         p.event \in DOMAIN package.attempts /\ p.attempt \in DOMAIN package.attempts[p.event]
    [] p.control = "synchronization_fault" -> p.fault \in package.faults
    [] OTHER -> p.request \in DOMAIN package.decision

ValidPlan ==
  /\ plan # {}
  /\ Components \subseteq KnownComponents
  /\ coverage = {p.control : p \in plan}
  /\ \A p \in plan : p.component \in KnownComponents /\ References(p)

(***************************************************************************)
(* The shape an observation has when it is constructed, and its match with *)
(* the probe it reports on (validate_contextual_observations).             *)
(***************************************************************************)
WellFormed(o) ==
  CASE o.control = "access_decision" ->
         /\ (o.trigger = Nothing) = (o.accepted_attempt = Nothing)
         /\ o.attempts # <<>>
         /\ \A n \in DOMAIN o.attempts : (o.attempts[n].elapsed = Nothing) = (o.trigger = Nothing)
         /\ \A m, n \in DOMAIN o.attempts : m < n => o.attempts[m].tick <= o.attempts[n].tick
    [] o.control = "delivery_acceptance" ->
         /\ o.accepted = (o.elapsed # Nothing)
         /\ o.projected <= o.issued /\ o.issued <= o.delivered
    [] o.control = "synchronization_fault" -> (o.status = "recovered") = (o.elapsed # Nothing)
    [] OTHER -> TRUE

MatchesProbe(o, p) ==
  CASE p.control = "mapping_ingestion" -> o.fact_type = p.fact_type /\ o.mapping_kind = p.mapping_kind
    [] p.control = "access_decision" -> o.request = p.request /\ o.trigger = p.trigger
    [] p.control = "protected_enforcement" -> o.request = p.request
    [] p.control = "delivery_acceptance" -> o.event = p.event /\ o.attempt = p.attempt
    [] p.control = "synchronization_fault" -> o.fault = p.fault
    [] p.control = "evidence_correlation" -> o.request = p.request /\ o.kind = p.kind

ValidObservation(o) ==
  \E p \in plan :
    /\ o.probe = p.id
    /\ o.control = p.control
    /\ o.component = p.component
    /\ o.component \in Components
    /\ o.evidence \subseteq Handles
    /\ MatchesProbe(o, p)

(***************************************************************************)
(* compile_contextual_run_truth: what the package expects of a probe.      *)
(***************************************************************************)
Expected(p) ==
  CASE p.control = "access_decision" ->
         [decision |-> package.decision[p.request], policies |-> package.policies[p.request],
          accepted_attempt |-> IF p.trigger = Nothing THEN Nothing ELSE 1]
    [] p.control = "protected_enforcement" ->
         [decision |-> package.decision[p.request],
          side_effect |-> IF package.decision[p.request] = "allow" THEN "occurred" ELSE "not_observed"]
    [] p.control = "delivery_acceptance" ->
         [effective |-> package.effective[p.event], delivered |-> package.attempts[p.event][p.attempt]]
    [] OTHER -> [none |-> Nothing]

(***************************************************************************)
(* _score_truth_row and _score_decision.                                   *)
(***************************************************************************)
Passing == [passed |-> TRUE, censored |-> FALSE, code |-> Nothing]

Failing(code) == [passed |-> FALSE, censored |-> FALSE, code |-> code]
Censored(code) == [passed |-> FALSE, censored |-> TRUE, code |-> code]

Correct(o, truth) == {n \in DOMAIN o.attempts : o.attempts[n].decision = truth.decision}

FirstCorrect(o, truth) ==
  o.attempts[CHOOSE n \in Correct(o, truth) : \A m \in Correct(o, truth) : n <= m]

PoliciesReported(o, truth) == truth.policies \subseteq o.policies

\* Mutant: the policy versions are only asked of static decisions.
UnversionedFinding(p, o) ==
  LET truth == Expected(p) IN
  IF p.trigger = Nothing
  THEN IF Correct(o, truth) # {} /\ PoliciesReported(o, truth)
       THEN Passing ELSE Failing("decision_or_policy_mismatch")
  ELSE IF o.accepted_attempt = 1 /\ \E n \in Correct(o, truth) : o.attempts[n].elapsed <= DecisionBound
       THEN Passing ELSE Failing("post_acceptance_decision_bound_or_policy_failed")

DecisionFinding(p, o) ==
  LET truth == Expected(p) IN
  IF p.trigger = Nothing
  THEN IF Correct(o, truth) # {} /\ PoliciesReported(o, truth)
       THEN Passing ELSE Failing("decision_or_policy_mismatch")
  ELSE IF o.accepted_attempt # truth.accepted_attempt
       THEN Failing("accepted_delivery_attempt_mismatch")
  ELSE IF Correct(o, truth) = {}
       THEN Censored("correct_post_acceptance_decision_not_observed")
  ELSE IF FirstCorrect(o, truth).elapsed <= DecisionBound /\ PoliciesReported(o, truth)
       THEN Passing ELSE Failing("post_acceptance_decision_bound_or_policy_failed")

WithinFeedBound(truth) == truth.delivered <= truth.effective + FeedBound

EvidenceIsCorrelated(p, o) == o.correlated /\ \E h \in o.evidence : KindOfHandle[h] = p.kind

OtherPasses(p, o) ==
  LET truth == Expected(p) IN
  CASE p.control = "mapping_ingestion" -> o.status = "ingested"
    [] p.control = "protected_enforcement" ->
         o.decision = truth.decision /\ o.side_effect = truth.side_effect
    [] p.control = "delivery_acceptance" ->
         /\ o.accepted
         /\ o.projected = truth.effective
         /\ o.delivered = truth.delivered
         /\ WithinFeedBound(truth)
         /\ o.elapsed <= AcceptanceBound
    [] p.control = "synchronization_fault" -> o.status = "recovered"
    [] p.control = "evidence_correlation" -> EvidenceIsCorrelated(p, o)

ObservationsOf(p) == {o \in staged : o.probe = p.id}

Finding(p) ==
  IF ObservationsOf(p) = {} THEN Failing("missing_observation")
  ELSE LET o == CHOOSE x \in ObservationsOf(p) : TRUE IN
       IF p.control = "access_decision" THEN DecisionFinding(p, o)
       ELSE IF OtherPasses(p, o) THEN Passing ELSE Failing(p.control)

(***************************************************************************)
(* _independent_run_metrics: the probes each metric counts.                *)
(***************************************************************************)
DecisionAccuracy ==
  {p \in plan : p.control = "access_decision"
                /\ \E o \in ObservationsOf(p) : Correct(o, Expected(p)) # {} /\ PoliciesReported(o, Expected(p))}

FeedDelayWithinBound ==
  {p \in plan : p.control = "delivery_acceptance"
                /\ \E o \in ObservationsOf(p) :
                     /\ o.projected = Expected(p).effective
                     /\ o.projected <= o.issued /\ o.issued <= o.delivered
                     /\ o.delivered = Expected(p).delivered
                     /\ WithinFeedBound(Expected(p))}

AcceptanceWithinBound ==
  {p \in plan : p.control = "delivery_acceptance"
                /\ \E o \in ObservationsOf(p) : o.accepted /\ o.elapsed <= AcceptanceBound}

\* The metrics of the other controls check what their findings check.
OtherAccuracy ==
  {p \in plan : p.control \notin {"access_decision", "delivery_acceptance"}
                /\ \E o \in ObservationsOf(p) : OtherPasses(p, o)}

Propagation == {p \in plan : p.control = "access_decision" /\ p.trigger # Nothing /\ report[p].passed}

(***************************************************************************)
(* The run.                                                                *)
(***************************************************************************)
RunInit ==
  /\ package \in Packages
  /\ plan \in {P \in SUBSET Probes : Cardinality(P) <= MaxProbes /\ \A p, q \in P : p.id = q.id => p = q}
  /\ coverage \in {{p.control : p \in plan}, {p.control : p \in Probes}}
  /\ staged = {}
  /\ phase = "planning"
  /\ report = <<>>

ValidatePlan ==
  /\ phase = "planning"
  /\ phase' = IF ValidPlan THEN "running" ELSE "rejected"
  /\ UNCHANGED <<package, plan, coverage, staged, report>>

\* An observation of no probe gets the run rejected: none needs to follow it.
Stage(o) ==
  /\ phase = "running"
  /\ staged = {} \/ \A x \in staged \cup {o} : ValidObservation(x)
  /\ WellFormed(o)
  /\ Cardinality(staged) < MaxProbes
  /\ \A x \in staged : x.probe # o.probe
  /\ staged' = staged \cup {o}
  /\ UNCHANGED <<package, plan, coverage, phase, report>>

EvaluateRun ==
  /\ phase = "running"
  /\ IF \A o \in staged : ValidObservation(o)
     THEN phase' = "scored" /\ report' = [p \in plan |-> Finding(p)]
     ELSE phase' = "rejected" /\ UNCHANGED report
  /\ UNCHANGED <<package, plan, coverage, staged>>

RunNext == ValidatePlan \/ (\E o \in Observations : Stage(o)) \/ EvaluateRun

RunSpec == RunInit /\ [][RunNext]_runVars

(***************************************************************************)
(* Properties.                                                             *)
(***************************************************************************)
\* Findings and metrics tell the same story: a delivery passes exactly where both metrics
\* of its control count it; a decision that propagated in time is an accurate one, and an
\* accurate one that did not propagate was late or followed another attempt than the
\* first one presented.  A finding is right-censored only where the run followed that
\* attempt and never showed the decision waited for.
FindingsAgreeWithMetrics ==
  phase = "scored" =>
    /\ {p \in plan : p.control = "delivery_acceptance" /\ report[p].passed}
         = FeedDelayWithinBound \cap AcceptanceWithinBound
    /\ Propagation \subseteq DecisionAccuracy
    /\ \A p \in DecisionAccuracy \ Propagation :
         p.trigger # Nothing =>
           \E o \in ObservationsOf(p) :
             o.accepted_attempt # 1 \/ \E n \in Correct(o, Expected(p)) : o.attempts[n].elapsed > DecisionBound
    /\ \A p \in plan : report[p].censored =>
         /\ p.trigger # Nothing
         /\ \E o \in ObservationsOf(p) : o.accepted_attempt = 1 /\ Correct(o, Expected(p)) = {}

=============================================================================
