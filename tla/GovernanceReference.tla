------------------------- MODULE GovernanceReference -------------------------
(***************************************************************************)
(* The reference package of the authority-governance contract: twelve      *)
(* changes on one clock, each with the truth an evaluator holds about it,  *)
(* and the scoring of predictions.  The clock of a replay runs over the    *)
(* log; the truth of each change is compared with what the log says, and   *)
(* the predictions of the public baselines with the truth.                 *)
(*                                                                         *)
(* The states of a change are what it says of the one authority it affects.*)
(***************************************************************************)
EXTENDS GovernanceCases, FiniteSets

VARIABLES
  log,         \* the recorded events
  standing,    \* "recording", "public" or "rejected"
  tick,        \* the tick the log is replayed to
  submitted,   \* the prediction being scored, by its name, or Unset
  findings,    \* for each change, the families that were answered right
  metrics      \* for each dimension, the changes that were answered right

referenceVars == <<log, standing, tick, submitted, findings, metrics>>

ReferenceChanges == DOMAIN Cases
ReferenceRequested == [c \in ReferenceChanges |-> [type |-> Cases[c].type, affected |-> Cases[c].affected]]
ReferenceHorizon == 124

\* Unset is no tick, no change and none of the words of a row.
ASSUME ReferenceAssumption ==
  Unset \notin Nat \cup {"broad", "changed", "narrow", "timed", "emergency-05"}
             \cup {"perfect", "final_state", "trust_approval", "latest_policy"}

\* The rows of the package, as a history.
History == INSTANCE AuthorityGovernance WITH
  events <- log, stage <- standing, Changes <- ReferenceChanges, Requested <- ReferenceRequested,
  Authorities <- ReferenceChanges, InitialState <- [a \in ReferenceChanges |-> IF a \in {3, 10} THEN "broad" ELSE Unset],
  Policies <- ReferencePolicies, Mandates <- ReferenceMandates, AfterStates <- {}, Verdicts <- {},
  MaxTick <- ReferenceHorizon, MaxDecisions <- 2, None <- Unset

\* _required_evidence_refs and _evidence_records.
RequiredEvidence(c) ==
  {<<c, kind>> : kind \in {"approval", "policy", "request"} \cup (IF ExceptionOf(c) = Unset THEN {} ELSE {"exception"})}

EvidenceRecord(ref) ==
  [from |-> Cases[ref[1]].ticks[1], until |-> IF ref = <<8, "approval">> THEN 85 ELSE Unset]

\* _events_for_case.
DecisionEvent(c, id, t, outcome, rule, approved) ==
  [type |-> "decision", change |-> c, tick |-> t, id |-> id, outcome |-> outcome, policy |-> Cases[c].policy,
   rules |-> {rule}, mandates |-> Cases[c].mandates, approver |-> Cases[c].approver, approved |-> approved,
   exception |-> ExceptionOf(c), evidence |-> RequiredEvidence(c)]

DecisionEvents(c) ==
  LET s == Cases[c] IN
  IF Conflicting(c)
  THEN {DecisionEvent(c, 10 * c + 2, s.ticks[2], "approved", "standard", s.requested),
        DecisionEvent(c, 10 * c + 3, s.ticks[2] + 1, s.outcome, s.rule, s.approved)}
  ELSE {DecisionEvent(c, 10 * c + 2, s.ticks[2], s.outcome, s.rule, s.approved)}

AfterOf(c, state) == IF state = Unset THEN [a \in {} |-> Unset] ELSE [a \in {Cases[c].affected} |-> state]

AuditEvent(c) ==
  [type |-> "audit", change |-> c, tick |-> Cases[c].ticks[4], id |-> History!AuditId(c),
   retained |-> RequiredEvidence(c) \ (IF Reconstructable(c) THEN {} ELSE {<<c, "approval">>})]

EventsForCase(c) ==
  LET s == Cases[c] IN
  DecisionEvents(c) \cup
  {[type |-> "request", change |-> c, tick |-> s.ticks[1], id |-> History!RequestId(c), before |-> s.before],
   [type |-> "enactment", change |-> c, tick |-> s.ticks[3], id |-> History!EnactmentId(c),
    decision |-> 10 * c + 2, after |-> AfterOf(c, s.enacted)],
   AuditEvent(c)}

\* _truth_for_case, and the predictions a baseline makes of the public log.
TruthRow(c) ==
  LET s == Cases[c] IN
  [type |-> s.type, before |-> s.before, after |-> s.enacted, tick |-> s.expected,
   supersedes |-> CanonicalSupersedes(c), authorised |-> s.authorised,
   approver_authorised |-> s.approver_authorised, chain |-> s.approver,
   controlling |-> 10 * c + (IF Conflicting(c) THEN 3 ELSE 2), outcome |-> s.outcome,
   policy |-> s.policy, rules |-> {s.rule}, exception |-> ExceptionOf(c),
   evidence |-> RequiredEvidence(c), reconstructable |-> Reconstructable(c), consistent |-> s.consistent]

The(S) == CHOOSE x \in S : TRUE

\* latest_policy_baseline: the rule of the latest version whose effect fits the decision.
LatestPolicy ==
  CHOOSE p \in ReferencePolicies : \A q \in ReferencePolicies : p.from > q.from \/ (p.from = q.from /\ p.id >= q.id)

LatestRules(d) == {r \in LatestPolicy.rules : (r.effect = "deny") = (d.outcome = "denied")}

\* Mutant: every baseline answers with the latest policy.
LatestRuling(mode, d) == [policy |-> LatestPolicy.id, rules |-> {The(LatestRules(d)).id}]

\* The policy and the rules a baseline answers with: the recorded ones, or the latest.
Ruling(mode, d) ==
  IF mode = "latest_policy" THEN [policy |-> LatestPolicy.id, rules |-> {The(LatestRules(d)).id}]
  ELSE [policy |-> d.policy, rules |-> d.rules]

BaselineRow(mode, c) ==
  LET d == History!ControllingDecision(c)
      n == The(History!Of(c, "enactment"))
      r == The(History!Of(c, "request"))
      affected == ReferenceRequested[c].affected
      after == IF affected \in DOMAIN n.after THEN n.after[affected] ELSE Unset IN
  [type |-> ReferenceRequested[c].type, before |-> r.before, after |-> after, tick |-> n.tick,
   supersedes |-> ObservedSupersedes(c),
   authorised |-> IF mode = "final_state" THEN after # r.before ELSE d.outcome \in {"approved", "partial"},
   approver_authorised |-> TRUE, chain |-> d.approver,
   controlling |-> d.id, outcome |-> d.outcome,
   policy |-> Ruling(mode, d).policy, rules |-> Ruling(mode, d).rules,
   exception |-> d.exception, evidence |-> d.evidence,
   reconstructable |-> The(History!Of(c, "audit")).retained # {}, consistent |-> TRUE]

PredictionRow(name, c) == IF name = "perfect" THEN TruthRow(c) ELSE BaselineRow(name, c)

Predictions == {"perfect", "final_state", "trust_approval", "latest_policy"}

(***************************************************************************)
(* validate_authority_governance_evaluator: the truth refers to the log.   *)
(***************************************************************************)
TruthIsBound(c) ==
  /\ TruthRow(c).controlling \in {d.id : d \in History!Decisions(c)}
  /\ \E p \in ReferencePolicies : p.id = TruthRow(c).policy /\ TruthRow(c).rules \subseteq {r.id : r \in p.rules}
  /\ TruthRow(c).supersedes \in ReferenceChanges \cup {Unset}

(***************************************************************************)
(* evaluate_authority_governance_prediction.                               *)
(***************************************************************************)
\* Each metric is of a family, and counts the changes with these fields right.
Dimension ==
  [after_state |-> <<"state", {"after"}>>, before_state |-> <<"state", {"before"}>>,
   change_type |-> <<"state", {"type"}>>, effective_tick |-> <<"state", {"tick"}>>,
   supersession |-> <<"state", {"supersedes"}>>,
   approval_chain |-> <<"authority", {"chain"}>>,
   approver_authority |-> <<"authority", {"approver_authorised"}>>,
   controlling_decision |-> <<"authority", {"controlling", "outcome"}>>,
   authorisation |-> <<"authority", {"authorised"}>>,
   exception |-> <<"policy", {"exception"}>>, policy_control |-> <<"policy", {"rules"}>>,
   policy_version |-> <<"policy", {"policy"}>>,
   audit_reconstructability |-> <<"evidence", {"reconstructable"}>>,
   decision_evidence |-> <<"evidence", {"evidence"}>>,
   enactment_consistency |-> <<"enactment", {"consistent"}>>]

Right(name, c, fields) == \A f \in fields : PredictionRow(name, c)[f] = TruthRow(c)[f]

MetricsOf(name) == [d \in DOMAIN Dimension |-> {c \in ReferenceChanges : Right(name, c, Dimension[d][2])}]

\* _finding: the fields each family of a finding is about.
Family ==
  [state |-> {"type", "before", "after", "tick", "supersedes"},
   authority |-> {"authorised", "approver_authorised", "chain", "controlling", "outcome"},
   policy |-> {"policy", "rules", "exception"},
   evidence |-> {"evidence", "reconstructable"},
   enactment |-> {"consistent"}]

FindingOf(name, c) == {f \in DOMAIN Family : Right(name, c, Family[f])}

(***************************************************************************)
(* The package, its replay and its scoring.                                *)
(***************************************************************************)
ReferenceInit ==
  /\ log = UNION {EventsForCase(c) : c \in ReferenceChanges}
  /\ standing = "recording"
  /\ tick = 0
  /\ submitted = Unset
  /\ findings = <<>> /\ metrics = <<>>

ReferenceValidate == History!Validate /\ UNCHANGED <<tick, submitted, findings, metrics>>

Advance ==
  /\ standing = "public"
  /\ tick < ReferenceHorizon
  /\ tick' = tick + 1
  /\ UNCHANGED <<log, standing, submitted, findings, metrics>>

Evaluate(name) ==
  /\ standing = "public"
  /\ \A c \in ReferenceChanges : TruthIsBound(c)
  /\ submitted' = name
  /\ findings' = [c \in ReferenceChanges |-> FindingOf(name, c)]
  /\ metrics' = MetricsOf(name)
  /\ UNCHANGED <<log, standing, tick>>

ReferenceNext == ReferenceValidate \/ Advance \/ \E name \in Predictions : Evaluate(name)

ReferenceSpec == ReferenceInit /\ [][ReferenceNext]_referenceVars

(***************************************************************************)
(* Properties.                                                             *)
(***************************************************************************)
\* The verdicts are those of the rules and mandates in force when a change was decided:
\* no policy, mandate or link that came later, or lapsed before, makes one right.  An audit
\* has the evidence that is retained at its own tick, and a change can be reconstructed if
\* that is all it requires (_case_specs, _policies, _mandates, _evidence_records).
ApproverIsMandated(c) ==
  LET d == History!ControllingDecision(c) IN
  \E m \in History!ActiveMandates(d.tick) :
    /\ m.id \in d.mandates /\ m.approver = d.approver
    /\ ReferenceRequested[c].type \in m.types /\ ReferenceRequested[c].affected \in m.affected

RuleOf(c) ==
  LET d == History!ControllingDecision(c) IN
  CHOOSE r \in UNION {p.rules : p \in {q \in ReferencePolicies : q.id = d.policy}} : r.id \in d.rules

VerdictsAreOfTheirTime ==
  History!Public =>
    \A c \in ReferenceChanges :
      LET d == History!ControllingDecision(c) IN
      /\ {p.id : p \in History!ActivePolicies(d.tick)} = {TruthRow(c).policy}
      /\ TruthRow(c).approver_authorised = ApproverIsMandated(c)
      /\ TruthRow(c).authorised =
           (/\ d.outcome \in {"approved", "partial"}
            /\ RuleOf(c).effect = "permit"
            /\ d.exception = Unset \/ d.exception \in RuleOf(c).exceptions
            /\ ApproverIsMandated(c)
            /\ ObservedSupersedes(c) = CanonicalSupersedes(c))
      /\ \A a \in History!Of(c, "audit") :
           /\ a.retained = {ref \in RequiredEvidence(c) : History!ActiveAt(EvidenceRecord(ref), a.tick)}
           /\ TruthRow(c).reconstructable = (a.retained = RequiredEvidence(c))

\* The contract: the perfect prediction is right on everything, and each of the public
\* baselines fails a dimension of its own, the latest policy those of the policy alone.
BaselinesDiscriminate ==
  submitted # Unset =>
    /\ submitted = "perfect" => \A c \in ReferenceChanges : findings[c] = DOMAIN Family
    /\ submitted = "final_state" => metrics.authorisation # ReferenceChanges
    /\ submitted \in {"trust_approval", "final_state"} =>
         metrics.approver_authority # ReferenceChanges /\ \A c \in ReferenceChanges : "policy" \in findings[c]
    /\ submitted = "latest_policy" => metrics.policy_version # ReferenceChanges
=============================================================================
