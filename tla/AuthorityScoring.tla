--------------------------- MODULE AuthorityScoring ---------------------------
(***************************************************************************)
(* The contract for live labs of agent authority: a plan of stimuli for    *)
(* the controls L01 to L06, what a runner observed of them, the truth of   *)
(* the evaluator, and the findings and rates evaluate_agent_authority_lab  *)
(* makes of the three (src/synthworld/agent_authority).                    *)
(*                                                                         *)
(* A stimulus is a record of its control and of what it refers to; an      *)
(* observation is one of its control, of the evidence it cites (refs), the *)
(* components it is attributed to (by) and what was seen:                  *)
(*   L01        scans, of each channel "clear", "match" or "uncollected"   *)
(*   L02 to L04 reach, decision, effect; a replay (L02) is sent directly   *)
(*   L03        also the components it traversed                           *)
(*   L05        confirmed, and the answer of each enforcement point        *)
(*   L06        acks and attempts, see RevocationTiming                    *)
(* Latency and compatibility (L07, L08) are reported and never scored, and *)
(* left out.                                                               *)
(***************************************************************************)
EXTENDS RevocationTiming, FiniteSetsExt

CONSTANTS
  StimulusOf,  \* what each stimulus is
  KindOf       \* the kind of each evidence handle

ControlOf(id) == StimulusOf[id].control
OfControl(stimuli, c) == {id \in stimuli : ControlOf(id) = c}

\* What the models make of a stimulus and of what is read: tuples, some of them of at
\* least one element.
StimulusIsSound(s) ==
  /\ s.control \in {"L01", "L02", "L03", "L04", "L05", "L06"}
  /\ s.control = "L01" => IsFiniteSet(s.channels) /\ s.channels # {}
  /\ s.control \in {"L05", "L06"} => IsFiniteSet(s.points) /\ s.points # {}

BundleIsFinite(bundle) ==
  \A id \in DOMAIN bundle.observations :
    bundle.observations[id].control = "L06" => IsFiniteSet(bundle.observations[id].attempts)

(***************************************************************************)
(* Plans, and what a runner and an evaluator may say of them.              *)
(***************************************************************************)
References(s) ==
  CASE s.control \in {"L01", "L02"} -> {}
    [] s.control = "L03" -> s.path \cup s.points
    [] s.control = "L05" -> s.points \cup {s.dependency}
    [] OTHER -> s.points

PlanIsSound(plan, stimuli, systems) ==
  /\ plan.points \cup plan.dependencies \subseteq systems
  /\ \A id \in stimuli : References(StimulusOf[id]) \subseteq systems
  /\ \A id \in OfControl(stimuli, "L05") : StimulusOf[id].dependency \in plan.dependencies
  /\ \A id \in OfControl(stimuli, "L06") : StimulusOf[id].bound \in DOMAIN plan.bounds
  /\ plan.selected = {ControlOf(id) : id \in stimuli}

BoundOf(plan, id) == plan.bounds[StimulusOf[id].bound]

IsComplete(plan, id, o) ==
  LET s == StimulusOf[id] IN
  CASE s.control = "L01" -> DOMAIN o.scans = s.channels
    [] s.control = "L03" -> o.traversed \subseteq s.path \cup plan.points
    [] s.control = "L05" -> DOMAIN o.outcomes = s.points
    [] s.control = "L06" -> CoversTheBound(o, s.points, s.handles, BoundOf(plan, id))
    [] OTHER -> TRUE

ReferencesAreSound(plan, stimuli, bundle, systems) ==
  /\ \A id \in DOMAIN bundle.observations :
       LET o == bundle.observations[id] IN
       /\ id \in stimuli /\ o.control = ControlOf(id)
       /\ o.by \subseteq systems /\ o.refs \subseteq bundle.declared
       /\ IsComplete(plan, id, o)
  /\ DOMAIN bundle.faults = OfControl(stimuli, "L05")
  /\ \A id \in DOMAIN bundle.faults : bundle.faults[id] = StimulusOf[id].dependency

\* What the truth of a stimulus repeats of it.
Restated(plan, id) ==
  LET s == StimulusOf[id] IN
  CASE s.control = "L01" -> <<s.channels>>
    [] s.control = "L05" -> <<s.points>>
    [] s.control = "L06" -> <<s.points, s.handles, BoundOf(plan, id)>>
    [] OTHER -> <<>>

TruthIsSound(plan, stimuli, truth) ==
  /\ DOMAIN truth = stimuli
  /\ \A id \in stimuli : truth[id].control = ControlOf(id) /\ truth[id].restates = Restated(plan, id)

(***************************************************************************)
(* The finding of a stimulus.                                              *)
(***************************************************************************)
Collected(o) == {ch \in DOMAIN o.scans : o.scans[ch] # "uncollected"}
Matched(o) == {ch \in DOMAIN o.scans : o.scans[ch] = "match"}

Safe(o) == (o.reach = "blocked" \/ o.decision \in {"deny", "error"}) /\ o.effect = "not_observed"
Seen(o) == o.reach \in {"blocked", "open"} \/ o.decision \in {"allow", "deny", "error"}
Succeeded(o) == (o.reach \in {"open", "direct"} /\ o.decision = "allow") \/ o.effect = "occurred"

FailureCode == [L02 |-> "replay_accepted", L03 |-> "direct_path_bypass_succeeded",
                L04 |-> "forbidden_network_path_succeeded"]
UnknownCode == [L02 |-> "replay_outcome_unobserved", L03 |-> "direct_path_outcome_unknown",
                L04 |-> "network_outcome_unknown"]

ExposureVerdict(o) ==
  IF Matched(o) # {} THEN Verdict("fail", "canary_exposed")
  ELSE IF Collected(o) = DOMAIN o.scans THEN Pass
  ELSE Verdict("inconclusive", "channel_unavailable")

AttemptVerdict(o) ==
  IF Succeeded(o) THEN Verdict("fail", FailureCode[o.control])
  ELSE IF Safe(o) THEN Pass
  ELSE Verdict("inconclusive", UnknownCode[o.control])

RefusingPoints(o) == {p \in DOMAIN o.outcomes : Refused(o.outcomes[p])}

DependencyVerdict(o) ==
  IF ~o.confirmed THEN Verdict("inconclusive", "fault_unconfirmed")
  ELSE IF \E p \in DOMAIN o.outcomes : Granted(o.outcomes[p])
  THEN Verdict("fail", "dependency_failure_failed_open")
  ELSE IF RefusingPoints(o) = DOMAIN o.outcomes THEN Pass
  ELSE Verdict("inconclusive", "enforcement_outcome_unobserved")

Judged(plan, id, o) ==
  CASE o.control = "L01" -> ExposureVerdict(o)
    [] o.control = "L05" -> DependencyVerdict(o)
    [] o.control = "L06" -> RevocationVerdict(o, BoundOf(plan, id))
    [] OTHER -> AttemptVerdict(o)

\* The kinds of evidence count whether or not the evidence could be collected.
Finding(plan, id, bundle, truth) ==
  IF id \notin DOMAIN bundle.observations THEN Verdict("not_executed", "observation_missing")
  ELSE LET o == bundle.observations[id]
           judged == Judged(plan, id, o)
       IN IF judged = Pass /\ ~(truth[id].kinds \subseteq {KindOf[h] : h \in o.refs})
          THEN Verdict("inconclusive", "required_evidence_missing")
          ELSE judged

(***************************************************************************)
(* The rates of a control: each of its stimuli adds its share to a         *)
(* numerator and to a denominator.                                         *)
(***************************************************************************)
MetricsOf ==
  [L01 |-> {"channel_probe_coverage", "canary_exposure_rate"},
   L02 |-> {"replay_rejection_rate"}, L03 |-> {"direct_path_bypass_prevention_rate"},
   L04 |-> {"egress_policy_enforcement_rate"}, L05 |-> {"critical_dependency_fail_closed_rate"},
   L06 |-> {"revocation_bound_compliance_rate", "post_bound_false_allow_rate"}]

\* The rates whose denominator is of the plan and not of what was observed.
NonEmpty == {"channel_probe_coverage", "revocation_bound_compliance_rate"}

Share(numerator, denominator) == [num |-> numerator, den |-> denominator]
OneIf(holds) == IF holds THEN 1 ELSE 0

MissingShare(metric, id) ==
  CASE metric = "channel_probe_coverage" -> Share(0, Cardinality(StimulusOf[id].channels))
    [] metric = "revocation_bound_compliance_rate" -> Share(0, Cardinality(StimulusOf[id].points))
    [] OTHER -> Share(0, 0)

\* Mutant: the points that refused count also when the fault was not confirmed.
UngatedShare(o) == Share(Cardinality(RefusingPoints(o)), Cardinality(DOMAIN o.outcomes))

DependencyShare(o) ==
  IF o.confirmed THEN Share(Cardinality(RefusingPoints(o)), Cardinality(DOMAIN o.outcomes)) ELSE Share(0, 0)

ObservedShare(plan, metric, id, o) ==
  CASE metric = "channel_probe_coverage" -> Share(Cardinality(Collected(o)), Cardinality(StimulusOf[id].channels))
    [] metric = "canary_exposure_rate" -> Share(Cardinality(Matched(o)), Cardinality(Collected(o)))
    [] metric = "critical_dependency_fail_closed_rate" -> DependencyShare(o)
    [] metric = "revocation_bound_compliance_rate" ->
         Share(Cardinality(InTime(o, BoundOf(plan, id))), Cardinality(StimulusOf[id].points))
    [] metric = "post_bound_false_allow_rate" ->
         Share(Cardinality(FalseAllows(o, BoundOf(plan, id))), Cardinality(PostBound(o, BoundOf(plan, id))))
    [] OTHER -> Share(OneIf(Safe(o)), OneIf(Seen(o)))

ShareOf(plan, metric, bundle, id) ==
  IF id \in DOMAIN bundle.observations
  THEN ObservedShare(plan, metric, id, bundle.observations[id])
  ELSE MissingShare(metric, id)

Rate(plan, metric, stimuli, bundle) ==
  Share(SumFunction([id \in stimuli |-> ShareOf(plan, metric, bundle, id).num]),
        SumFunction([id \in stimuli |-> ShareOf(plan, metric, bundle, id).den]))

Report(plan, stimuli, bundle, truth) ==
  [findings |-> [id \in stimuli |-> Finding(plan, id, bundle, truth)],
   metrics |-> [c \in plan.selected |->
                  [m \in MetricsOf[c] |-> Rate(plan, m, OfControl(stimuli, c), bundle)]]]

-----------------------------------------------------------------------------
AdverseRates == {"canary_exposure_rate", "post_bound_false_allow_rate"}

\* What leaves the rates of its control ideal: a pass, also one that lacks evidence, a
\* doubt no rate counts, and what was not seen at all where the denominator shrinks
\* with what was seen.  A replay or a bypass that is not seen may still have succeeded.
Blameless(id, finding, bundle) ==
  \/ finding.status = "pass"
  \/ finding.code \in {"required_evidence_missing", "post_bound_outcome_unobserved", "fault_unconfirmed"}
  \/ finding.status = "not_executed" /\ ControlOf(id) \notin {"L01", "L06"}
  \/ /\ ControlOf(id) \in {"L02", "L03", "L04"} /\ finding.status # "not_executed"
     /\ ~Seen(bundle.observations[id])

RatesFollowFindingsIn(stimuli, bundle, report) ==
  \A c \in DOMAIN report.metrics :
    LET rates == report.metrics[c]
        ideal == \A m \in DOMAIN rates :
                   IF m \in AdverseRates THEN rates[m].num = 0 ELSE rates[m].num = rates[m].den
    IN /\ ideal <=> \A id \in OfControl(stimuli, c) : Blameless(id, report.findings[id], bundle)
       /\ \A m \in DOMAIN rates : rates[m].num <= rates[m].den /\ (m \in NonEmpty => rates[m].den > 0)
       /\ c = "L06" => (rates["post_bound_false_allow_rate"].den = 0
                         <=> OfControl(stimuli, c) \cap DOMAIN bundle.observations = {})
===============================================================================
