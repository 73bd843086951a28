------------------------ MODULE AuthorityReceiptProofs ------------------------
(***************************************************************************)
(* Receipts, for every study: any plan, output, normaliser and truth, and  *)
(* any number of stops, late writes and calls.                             *)
(*                                                                         *)
(* A file is created once, so what the directory holds bounds what can     *)
(* have happened, over all the calls there were: without observations the  *)
(* truth has not been loaded, and with them no call gets to load it again. *)
(* What a call has checked it keeps in its arguments, and the inductive    *)
(* invariant says, of each point of the call, which files agree with them. *)
(***************************************************************************)
EXTENDS AuthorityReceipt, FiniteSetTheorems, WellFoundedInduction, TLAPS

-----------------------------------------------------------------------------
(* Sums over a finite set. *)

\* A set of numbers has a least element.
LEMMA LeastNumber ==
  ASSUME NEW T \in SUBSET Nat, T # {}
  PROVE  \E x \in T : \A y \in T : x <= y
<1>1. PICK x \in T : \A y \in T : <<y, x>> \notin OpToRel(<, Nat)
  BY WFMin, NatLessThanWellFounded, Zenon
<1>2. \A y \in T : ~ (y < x)
  BY <1>1, Zenon DEF OpToRel
<1>3. QED
  BY <1>2

Picked(s) == CHOOSE x \in s : TRUE

\* The sum over a set is a term more than the sum over what the choice leaves.
SumFrom(f, g, s) == IF s = {} THEN 0 ELSE f[Picked(s)] + g[s \ {Picked(s)}]
Summing(f, S, g) == g = [s \in SUBSET S |-> IF s = {} THEN 0 ELSE f[Picked(s)] + g[s \ {Picked(s)}]]

LEMMA SumUnfolds ==
  ASSUME NEW f
  PROVE  SumFunction(f) = (CHOOSE g : Summing(f, DOMAIN f, g))[DOMAIN f]
BY Zenon DEF SumFunction, SumFunctionOnSet, FoldFunctionOnSet, MapThenFoldSet, Summing, Picked

LEMMA PickedIsOne ==
  ASSUME NEW s, IsFiniteSet(s), s # {}
  PROVE  /\ Picked(s) \in s /\ IsFiniteSet(s \ {Picked(s)})
         /\ Cardinality(s) \in Nat \ {0}
         /\ Cardinality(s \ {Picked(s)}) = Cardinality(s) - 1
<1>1. Picked(s) \in s
  BY DEF Picked
<1>2. QED
  BY <1>1, FS_RemoveElement, FS_CardinalityType, FS_EmptySet

\* There is such a sum: that of the sets of up to n elements for each n.
LEMMA SumExists ==
  ASSUME NEW S, IsFiniteSet(S), NEW f
  PROVE  \E g : Summing(f, S, g)
<1> DEFINE UpTo(n, g) == \A s \in SUBSET S : Cardinality(s) <= n => g[s] = SumFrom(f, g, s)
           Bad == {n \in Nat : ~ \E g : UpTo(n, g)}
<1>0. \A s \in SUBSET S : IsFiniteSet(s) /\ Cardinality(s) \in Nat /\ Cardinality(s) <= Cardinality(S)
  BY FS_Subset, FS_CardinalityType
<1>1. Bad = {}
  <2> SUFFICES ASSUME Bad # {} PROVE FALSE
    OBVIOUS
  <2>1. PICK n \in Bad : \A k \in Bad : n <= k
    BY LeastNumber
  <2>2. CASE n = 0
    <3> DEFINE g == [s \in SUBSET S |-> 0]
    <3>1. \A s \in SUBSET S : Cardinality(s) <= 0 => s = {}
      BY <1>0, FS_EmptySet
    <3>2. UpTo(n, g)
      BY <2>2, <3>1 DEF SumFrom
    <3> HIDE DEF g, UpTo
    <3>3. QED
      BY <2>1, <3>2
  <2>3. CASE n # 0
    <3>1. n \in Nat /\ n - 1 \in Nat /\ n - 1 \notin Bad
      BY <2>1, <2>3
    <3>2. PICK g : UpTo(n - 1, g)
      BY <3>1
    <3> DEFINE h == [s \in SUBSET S |-> IF Cardinality(s) <= n - 1 THEN g[s] ELSE SumFrom(f, g, s)]
    <3>3. ASSUME NEW s \in SUBSET S, Cardinality(s) <= n
          PROVE  h[s] = SumFrom(f, h, s)
      <4>1. h[s] = SumFrom(f, g, s)
        BY <3>2
      <4>2. CASE s = {}
        BY <4>1, <4>2 DEF SumFrom
      <4>3. CASE s # {}
        <5>1. s \ {Picked(s)} \in SUBSET S
          OBVIOUS
        <5>2. Cardinality(s \ {Picked(s)}) <= n - 1
          BY <1>0, <3>1, <3>3, <4>3, PickedIsOne
        <5>3. h[s \ {Picked(s)}] = g[s \ {Picked(s)}]
          BY <5>1, <5>2
        <5> HIDE DEF h
        <5>4. QED
          BY <4>1, <4>3, <5>3 DEF SumFrom
      <4>4. QED
        BY <4>2, <4>3
    <3> HIDE DEF h
    <3>4. UpTo(n, h)
      BY <3>3
    <3> HIDE DEF UpTo
    <3>5. QED
      BY <2>1, <3>4
  <2>4. QED
    BY <2>2, <2>3
<1>2. Cardinality(S) \in Nat
  BY FS_CardinalityType
<1>3. PICK g : UpTo(Cardinality(S), g)
  BY <1>1, <1>2
<1> DEFINE h == [s \in SUBSET S |-> g[s]]
<1>4. ASSUME NEW s \in SUBSET S
      PROVE  h[s] = IF s = {} THEN 0 ELSE f[Picked(s)] + h[s \ {Picked(s)}]
  <2>1. g[s] = SumFrom(f, g, s)
    BY <1>0, <1>3
  <2>2. h[s] = g[s] /\ h[s \ {Picked(s)}] = g[s \ {Picked(s)}]
    OBVIOUS
  <2> HIDE DEF h
  <2>3. QED
    BY <2>1, <2>2 DEF SumFrom
<1>5. h = [s \in SUBSET S |-> h[s]]
  OBVIOUS
<1> HIDE DEF h
<1>6. [s \in SUBSET S |-> h[s]] = [s \in SUBSET S |-> IF s = {} THEN 0 ELSE f[Picked(s)] + h[s \ {Picked(s)}]]
  BY <1>4, Zenon
<1>7. QED
  BY <1>5, <1>6, Zenon DEF Summing

\* What holds of two sums whose terms are in order.
Compares(f, k, g, h, s) ==
  /\ g[s] \in Nat /\ h[s] \in Nat /\ g[s] <= h[s]
  /\ g[s] = h[s] <=> \A x \in s : f[x] = k[x]
  /\ g[s] = 0 <=> \A x \in s : f[x] = 0
  /\ h[s] = 0 <=> \A x \in s : k[x] = 0

LEMMA SumsCompare ==
  ASSUME NEW S, IsFiniteSet(S), NEW f, NEW k, NEW g, NEW h,
         \A x \in S : f[x] \in Nat /\ k[x] \in Nat /\ f[x] <= k[x],
         Summing(f, S, g), Summing(k, S, h)
  PROVE  Compares(f, k, g, h, S)
<1> DEFINE Bad == {n \in Nat : \E s \in SUBSET S : Cardinality(s) = n /\ ~Compares(f, k, g, h, s)}
<1>0. \A s \in SUBSET S : IsFiniteSet(s) /\ Cardinality(s) \in Nat
  BY FS_Subset, FS_CardinalityType
<1>1. Bad = {}
  <2> SUFFICES ASSUME Bad # {} PROVE FALSE
    OBVIOUS
  <2>1. PICK n \in Bad : \A m \in Bad : n <= m
    BY LeastNumber
  <2>2. PICK s \in SUBSET S : Cardinality(s) = n /\ ~Compares(f, k, g, h, s)
    BY <2>1
  <2>3. CASE s = {}
    <3>1. g[s] = 0 /\ h[s] = 0
      BY <2>3 DEF Summing
    <3>2. QED
      BY <2>2, <2>3, <3>1 DEF Compares
  <2>4. CASE s # {}
    <3> DEFINE p == Picked(s)
               rest == s \ {p}
    <3>1. p \in s /\ Cardinality(rest) = n - 1 /\ n \in Nat \ {0}
      BY <1>0, <2>2, <2>4, PickedIsOne
    <3>2. rest \in SUBSET S /\ n - 1 \in Nat /\ n - 1 \notin Bad
      BY <2>1, <3>1
    <3>3. Compares(f, k, g, h, rest)
      BY <3>1, <3>2
    <3>4. g[s] = f[p] + g[rest] /\ h[s] = k[p] + h[rest]
      BY <2>4 DEF Summing
    <3>5. f[p] \in Nat /\ k[p] \in Nat /\ f[p] <= k[p]
      BY <3>1
    <3>6. \A x : x \in s <=> x = p \/ x \in rest
      BY <3>1
    <3> HIDE DEF p, rest
    <3>5a. g[rest] \in Nat /\ h[rest] \in Nat /\ g[rest] <= h[rest]
      BY <3>3 DEF Compares
    <3>7. g[s] \in Nat /\ h[s] \in Nat /\ g[s] <= h[s]
      BY <3>4, <3>5, <3>5a
    <3>7b. g[s] = h[s] <=> f[p] = k[p] /\ g[rest] = h[rest]
      BY <3>4, <3>5, <3>5a
    <3>7c. g[s] = 0 <=> f[p] = 0 /\ g[rest] = 0
      BY <3>4, <3>5, <3>5a
    <3>8. h[s] = 0 <=> k[p] = 0 /\ h[rest] = 0
      BY <3>4, <3>5, <3>5a
    <3>9. g[s] = h[s] <=> \A x \in s : f[x] = k[x]
      <4>1. g[rest] = h[rest] <=> \A x \in rest : f[x] = k[x]
        BY <3>3 DEF Compares
      <4>2. (\A x \in s : f[x] = k[x]) <=> f[p] = k[p] /\ \A x \in rest : f[x] = k[x]
        BY <3>6
      <4>3. QED
        BY <3>7b, <4>1, <4>2
    <3>10. g[s] = 0 <=> \A x \in s : f[x] = 0
      BY <3>3, <3>6, <3>7c, Zenon DEF Compares
    <3>11. h[s] = 0 <=> \A x \in s : k[x] = 0
      BY <3>3, <3>6, <3>8, Zenon DEF Compares
    <3>12. QED
      BY <2>2, <3>7, <3>9, <3>10, <3>11 DEF Compares
  <2>5. QED
    BY <2>3, <2>4
<1>2. S \in SUBSET S /\ Cardinality(S) \in Nat
  BY <1>0
<1>3. QED
  BY <1>1, <1>2

\* Of terms none of which exceeds another's, the sums are equal exactly if all terms
\* are, and a sum is zero exactly if all its terms are.
LEMMA SumsFollowTerms ==
  ASSUME NEW S, IsFiniteSet(S), NEW f \in [S -> Nat], NEW k \in [S -> Nat],
         \A x \in S : f[x] <= k[x]
  PROVE  /\ SumFunction(f) \in Nat /\ SumFunction(k) \in Nat /\ SumFunction(f) <= SumFunction(k)
         /\ SumFunction(f) = SumFunction(k) <=> \A x \in S : f[x] = k[x]
         /\ SumFunction(f) = 0 <=> \A x \in S : f[x] = 0
         /\ SumFunction(k) = 0 <=> \A x \in S : k[x] = 0
<1> DEFINE g == CHOOSE v : Summing(f, S, v)
           h == CHOOSE v : Summing(k, S, v)
<1>1. Summing(f, S, g) /\ Summing(k, S, h)
  BY SumExists
<1>2. DOMAIN f = S /\ DOMAIN k = S
  OBVIOUS
<1>3. SumFunction(f) = g[S] /\ SumFunction(k) = h[S]
  BY <1>2, SumUnfolds
<1> HIDE DEF g, h
<1>4. Compares(f, k, g, h, S)
  BY <1>1, SumsCompare
<1>5. QED
  BY <1>3, <1>4 DEF Compares

-----------------------------------------------------------------------------
(* The findings and the rates of a report. *)

Scorable(plan, stimuli, bundle, systems) ==
  /\ IsFiniteSet(stimuli) /\ \A id \in stimuli : StimulusIsSound(StimulusOf[id])
  /\ BundleIsFinite(bundle)
  /\ PlanIsSound(plan, stimuli, systems)
  /\ ReferencesAreSound(plan, stimuli, bundle, systems)

IdealShare(metric, share) == IF metric \in AdverseRates THEN share.num = 0 ELSE share.num = share.den
ShareHolds(share) == share.num \in Nat /\ share.den \in Nat /\ share.num <= share.den

\* A judgement other than a pass is the finding; of a pass evidence may be missing.
LEMMA FindingOfObserved ==
  ASSUME NEW plan, NEW id, NEW bundle, NEW truth, id \in DOMAIN bundle.observations
  PROVE  LET judged == Judged(plan, id, bundle.observations[id])
             finding == Finding(plan, id, bundle, truth)
         IN \/ finding = judged
            \/ judged = Pass /\ finding = Verdict("inconclusive", "required_evidence_missing")
BY DEF Finding

\* What is not observed is blameless, unless it is of the plan that coverage counts.
LEMMA MissingIsIdeal ==
  ASSUME NEW plan, NEW id, NEW bundle, NEW truth, id \notin DOMAIN bundle.observations,
         StimulusIsSound(StimulusOf[id])
  PROVE  /\ \A m \in MetricsOf[ControlOf(id)] :
              /\ ShareHolds(ShareOf(plan, m, bundle, id))
              /\ m \in NonEmpty => ShareOf(plan, m, bundle, id).den > 0
         /\ ControlOf(id) = "L06" => ShareOf(plan, "post_bound_false_allow_rate", bundle, id).den = 0
         /\ Blameless(id, Finding(plan, id, bundle, truth), bundle)
              <=> \A m \in MetricsOf[ControlOf(id)] : IdealShare(m, ShareOf(plan, m, bundle, id))
<1>1. Finding(plan, id, bundle, truth) = [status |-> "not_executed", code |-> "observation_missing"]
  BY DEF Finding, Verdict
<1>2. Blameless(id, Finding(plan, id, bundle, truth), bundle) <=> ControlOf(id) \notin {"L01", "L06"}
  BY <1>1 DEF Blameless
<1>3. \A m : ShareOf(plan, m, bundle, id) = MissingShare(m, id)
  BY DEF ShareOf
<1>4. CASE ControlOf(id) = "L01"
  <2>1. Cardinality(StimulusOf[id].channels) \in Nat \ {0}
    BY <1>4, FS_CardinalityType, FS_EmptySet DEF StimulusIsSound, ControlOf
  <2>2. MissingShare("channel_probe_coverage", id) = [num |-> 0, den |-> Cardinality(StimulusOf[id].channels)]
        /\ MissingShare("canary_exposure_rate", id) = [num |-> 0, den |-> 0]
    BY DEF MissingShare, Share
  <2>3. MetricsOf[ControlOf(id)] = {"channel_probe_coverage", "canary_exposure_rate"}
    BY <1>4 DEF MetricsOf
  <2>4. QED
    BY <1>2, <1>3, <1>4, <2>1, <2>2, <2>3 DEF ShareHolds, IdealShare, NonEmpty, AdverseRates
<1>5. CASE ControlOf(id) = "L06"
  <2>1. Cardinality(StimulusOf[id].points) \in Nat \ {0}
    BY <1>5, FS_CardinalityType, FS_EmptySet DEF StimulusIsSound, ControlOf
  <2>2. MissingShare("revocation_bound_compliance_rate", id) = [num |-> 0, den |-> Cardinality(StimulusOf[id].points)]
        /\ MissingShare("post_bound_false_allow_rate", id) = [num |-> 0, den |-> 0]
    BY DEF MissingShare, Share
  <2>3. MetricsOf[ControlOf(id)] = {"revocation_bound_compliance_rate", "post_bound_false_allow_rate"}
    BY <1>5 DEF MetricsOf
  <2>4. QED
    BY <1>2, <1>3, <1>5, <2>1, <2>2, <2>3 DEF ShareHolds, IdealShare, NonEmpty, AdverseRates
<1>6. CASE ControlOf(id) \in {"L02", "L03", "L04", "L05"}
  <2>1. \A m \in MetricsOf[ControlOf(id)] : m \notin NonEmpty
    BY <1>6 DEF MetricsOf, NonEmpty
  <2>2. \A m \in MetricsOf[ControlOf(id)] : MissingShare(m, id) = [num |-> 0, den |-> 0]
    BY <2>1 DEF MissingShare, Share, NonEmpty
  <2>3. QED
    BY <1>2, <1>3, <1>6, <2>1, <2>2 DEF ShareHolds, IdealShare
<1>7. QED
  BY <1>4, <1>5, <1>6 DEF StimulusIsSound, ControlOf, MetricsOf

\* L01: every channel collected and none with a match.
LEMMA ExposureIsIdeal ==
  ASSUME NEW plan, NEW id, NEW bundle, NEW truth, id \in DOMAIN bundle.observations,
         StimulusIsSound(StimulusOf[id]), ControlOf(id) = "L01",
         bundle.observations[id].control = "L01", IsComplete(plan, id, bundle.observations[id])
  PROVE  /\ \A m \in MetricsOf[ControlOf(id)] :
              /\ ShareHolds(ShareOf(plan, m, bundle, id))
              /\ m \in NonEmpty => ShareOf(plan, m, bundle, id).den > 0
         /\ Blameless(id, Finding(plan, id, bundle, truth), bundle)
              <=> \A m \in MetricsOf[ControlOf(id)] : IdealShare(m, ShareOf(plan, m, bundle, id))
<1> DEFINE o == bundle.observations[id]
           channels == StimulusOf[id].channels
<1>1. IsFiniteSet(channels) /\ channels # {} /\ DOMAIN o.scans = channels
  BY DEF StimulusIsSound, ControlOf, IsComplete
<1>2. Collected(o) \in SUBSET channels /\ Matched(o) \in SUBSET Collected(o)
  BY <1>1 DEF Collected, Matched
<1>3. /\ Cardinality(channels) \in Nat \ {0}
      /\ IsFiniteSet(Collected(o)) /\ Cardinality(Collected(o)) \in Nat
      /\ Cardinality(Collected(o)) <= Cardinality(channels)
      /\ Cardinality(Collected(o)) = Cardinality(channels) <=> Collected(o) = channels
  BY <1>1, <1>2, FS_Subset, FS_CardinalityType, FS_EmptySet
<1>4. /\ IsFiniteSet(Matched(o)) /\ Cardinality(Matched(o)) \in Nat
      /\ Cardinality(Matched(o)) <= Cardinality(Collected(o))
      /\ Cardinality(Matched(o)) = 0 <=> Matched(o) = {}
  BY <1>2, <1>3, FS_Subset, FS_CardinalityType, FS_EmptySet
<1>5. /\ ShareOf(plan, "channel_probe_coverage", bundle, id)
           = [num |-> Cardinality(Collected(o)), den |-> Cardinality(channels)]
      /\ ShareOf(plan, "canary_exposure_rate", bundle, id)
           = [num |-> Cardinality(Matched(o)), den |-> Cardinality(Collected(o))]
  BY DEF ShareOf, ObservedShare, Share
<1>6. MetricsOf[ControlOf(id)] = {"channel_probe_coverage", "canary_exposure_rate"}
  BY DEF MetricsOf
<1>7. Judged(plan, id, o) = ExposureVerdict(o)
  BY DEF Judged
<1>8. Blameless(id, Finding(plan, id, bundle, truth), bundle) <=> Matched(o) = {} /\ Collected(o) = channels
  BY <1>1, <1>7, FindingOfObserved DEF Blameless, ExposureVerdict, Verdict, Pass
<1> HIDE DEF o, channels
<1>9. QED
  BY <1>3, <1>4, <1>5, <1>6, <1>8 DEF ShareHolds, IdealShare, NonEmpty, AdverseRates

\* L02 to L04: what was seen was refused.
LEMMA AttemptIsIdeal ==
  ASSUME NEW plan, NEW id, NEW bundle, NEW truth, id \in DOMAIN bundle.observations,
         ControlOf(id) \in {"L02", "L03", "L04"},
         bundle.observations[id].control = ControlOf(id)
  PROVE  /\ \A m \in MetricsOf[ControlOf(id)] :
              /\ ShareHolds(ShareOf(plan, m, bundle, id))
              /\ m \in NonEmpty => ShareOf(plan, m, bundle, id).den > 0
         /\ Blameless(id, Finding(plan, id, bundle, truth), bundle)
              <=> \A m \in MetricsOf[ControlOf(id)] : IdealShare(m, ShareOf(plan, m, bundle, id))
<1> DEFINE o == bundle.observations[id]
<1>1. PICK metric \in {"replay_rejection_rate", "direct_path_bypass_prevention_rate",
                       "egress_policy_enforcement_rate"} : MetricsOf[ControlOf(id)] = {metric}
  BY DEF MetricsOf
<1>2. ShareOf(plan, metric, bundle, id) = [num |-> OneIf(Safe(o)), den |-> OneIf(Seen(o))]
  BY <1>1 DEF ShareOf, ObservedShare, Share
<1>3. Safe(o) => Seen(o) /\ ~Succeeded(o)
  BY DEF Safe, Seen, Succeeded
<1>4. /\ ShareHolds(ShareOf(plan, metric, bundle, id))
      /\ IdealShare(metric, ShareOf(plan, metric, bundle, id)) <=> Safe(o) \/ ~Seen(o)
  BY <1>1, <1>2, <1>3 DEF ShareHolds, IdealShare, AdverseRates, OneIf
<1>5. Judged(plan, id, o) = AttemptVerdict(o)
  BY DEF Judged
<1>6. FailureCode[o.control] \in {"replay_accepted", "direct_path_bypass_succeeded", "forbidden_network_path_succeeded"}
      /\ UnknownCode[o.control] \in {"replay_outcome_unobserved", "direct_path_outcome_unknown", "network_outcome_unknown"}
  BY DEF FailureCode, UnknownCode
<1>7. \/ Safe(o) /\ AttemptVerdict(o) = Pass
      \/ /\ ~Safe(o)
         /\ AttemptVerdict(o).status \in {"fail", "inconclusive"}
         /\ AttemptVerdict(o).code \in
              {"replay_accepted", "direct_path_bypass_succeeded", "forbidden_network_path_succeeded",
               "replay_outcome_unobserved", "direct_path_outcome_unknown", "network_outcome_unknown"}
         /\ AttemptVerdict(o) # Pass
  BY <1>3, <1>6 DEF AttemptVerdict, Verdict, Pass
<1>8. Blameless(id, Finding(plan, id, bundle, truth), bundle) <=> Safe(o) \/ ~Seen(o)
  BY <1>5, <1>7, FindingOfObserved DEF Blameless, Verdict, Pass
<1> HIDE DEF o
<1>9. metric \notin NonEmpty
  BY <1>1 DEF NonEmpty
<1>10. QED
  BY <1>1, <1>4, <1>8, <1>9

\* L05: where the fault was confirmed, every point refused.
LEMMA DependencyIsIdeal ==
  ASSUME NEW plan, NEW id, NEW bundle, NEW truth, id \in DOMAIN bundle.observations,
         StimulusIsSound(StimulusOf[id]), ControlOf(id) = "L05",
         bundle.observations[id].control = "L05", IsComplete(plan, id, bundle.observations[id])
  PROVE  /\ \A m \in MetricsOf[ControlOf(id)] :
              /\ ShareHolds(ShareOf(plan, m, bundle, id))
              /\ m \in NonEmpty => ShareOf(plan, m, bundle, id).den > 0
         /\ Blameless(id, Finding(plan, id, bundle, truth), bundle)
              <=> \A m \in MetricsOf[ControlOf(id)] : IdealShare(m, ShareOf(plan, m, bundle, id))
<1> DEFINE o == bundle.observations[id]
           points == StimulusOf[id].points
           metric == "critical_dependency_fail_closed_rate"
<1>1. IsFiniteSet(points) /\ DOMAIN o.outcomes = points
  BY DEF StimulusIsSound, ControlOf, IsComplete
<1>2. /\ RefusingPoints(o) \in SUBSET points
      /\ \A p \in RefusingPoints(o) : ~Granted(o.outcomes[p])
  BY <1>1 DEF RefusingPoints, Refused, Granted
<1>3. /\ Cardinality(points) \in Nat
      /\ Cardinality(RefusingPoints(o)) \in Nat /\ Cardinality(RefusingPoints(o)) <= Cardinality(points)
      /\ Cardinality(RefusingPoints(o)) = Cardinality(points) <=> RefusingPoints(o) = points
  BY <1>1, <1>2, FS_Subset, FS_CardinalityType
<1>4. ShareOf(plan, metric, bundle, id)
        = IF o.confirmed THEN [num |-> Cardinality(RefusingPoints(o)), den |-> Cardinality(points)]
          ELSE [num |-> 0, den |-> 0]
  BY <1>1 DEF ShareOf, ObservedShare, DependencyShare, Share
<1>5. MetricsOf[ControlOf(id)] = {metric} /\ metric \notin NonEmpty /\ metric \notin AdverseRates
  BY DEF MetricsOf, NonEmpty, AdverseRates
<1>6. Judged(plan, id, o) = DependencyVerdict(o)
  BY DEF Judged
<1>7. Blameless(id, Finding(plan, id, bundle, truth), bundle) <=> ~o.confirmed \/ RefusingPoints(o) = points
  BY <1>1, <1>2, <1>6, FindingOfObserved DEF Blameless, DependencyVerdict, Verdict, Pass
<1> HIDE DEF o, points, metric
<1>8. QED
  BY <1>3, <1>4, <1>5, <1>7 DEF ShareHolds, IdealShare

\* L06: every point acknowledged in time, and nothing was granted after the bound.
LEMMA RevocationIsIdeal ==
  ASSUME NEW plan, NEW id, NEW bundle, NEW truth, id \in DOMAIN bundle.observations,
         StimulusIsSound(StimulusOf[id]), ControlOf(id) = "L06", BundleIsFinite(bundle),
         bundle.observations[id].control = "L06", IsComplete(plan, id, bundle.observations[id])
  PROVE  /\ \A m \in MetricsOf[ControlOf(id)] :
              /\ ShareHolds(ShareOf(plan, m, bundle, id))
              /\ m \in NonEmpty => ShareOf(plan, m, bundle, id).den > 0
         /\ ShareOf(plan, "post_bound_false_allow_rate", bundle, id).den > 0
         /\ Blameless(id, Finding(plan, id, bundle, truth), bundle)
              <=> \A m \in MetricsOf[ControlOf(id)] : IdealShare(m, ShareOf(plan, m, bundle, id))
<1> DEFINE o == bundle.observations[id]
           points == StimulusOf[id].points
           bound == BoundOf(plan, id)
<1>1. IsFiniteSet(points) /\ points # {} /\ IsFiniteSet(o.attempts) /\ CoversTheBound(o, points, StimulusOf[id].handles, bound)
  BY DEF StimulusIsSound, ControlOf, IsComplete, BundleIsFinite
<1>2. /\ Acknowledged(o) \in SUBSET points /\ InTime(o, bound) \in SUBSET Acknowledged(o)
      /\ PostBound(o, bound) \in SUBSET o.attempts /\ PostBound(o, bound) # {}
      /\ FalseAllows(o, bound) \in SUBSET PostBound(o, bound)
      /\ DOMAIN o.acks = points
  BY <1>1 DEF CoversTheBound, Acknowledged, InTime, PostBound, FalseAllows
<1>3. InTime(o, bound) \in SUBSET points
  BY <1>2
<1>4. /\ Cardinality(points) \in Nat \ {0}
      /\ Cardinality(InTime(o, bound)) \in Nat /\ Cardinality(InTime(o, bound)) <= Cardinality(points)
      /\ Cardinality(InTime(o, bound)) = Cardinality(points) <=> InTime(o, bound) = points
  BY <1>1, <1>3, FS_Subset, FS_CardinalityType, FS_EmptySet
<1>5. IsFiniteSet(PostBound(o, bound)) /\ IsFiniteSet(FalseAllows(o, bound))
  BY <1>1, <1>2, FS_Subset
<1>6. /\ Cardinality(PostBound(o, bound)) \in Nat \ {0}
      /\ Cardinality(FalseAllows(o, bound)) \in Nat
      /\ Cardinality(FalseAllows(o, bound)) <= Cardinality(PostBound(o, bound))
      /\ Cardinality(FalseAllows(o, bound)) = 0 <=> FalseAllows(o, bound) = {}
  BY <1>2, <1>5, FS_Subset, FS_CardinalityType, FS_EmptySet
<1>7. /\ ShareOf(plan, "revocation_bound_compliance_rate", bundle, id)
           = [num |-> Cardinality(InTime(o, bound)), den |-> Cardinality(points)]
      /\ ShareOf(plan, "post_bound_false_allow_rate", bundle, id)
           = [num |-> Cardinality(FalseAllows(o, bound)), den |-> Cardinality(PostBound(o, bound))]
  BY DEF ShareOf, ObservedShare, Share
<1>8. MetricsOf[ControlOf(id)] = {"revocation_bound_compliance_rate", "post_bound_false_allow_rate"}
  BY DEF MetricsOf
<1>9. Judged(plan, id, o) = RevocationVerdict(o, bound)
  BY DEF Judged
<1>10. Blameless(id, Finding(plan, id, bundle, truth), bundle)
         <=> FalseAllows(o, bound) = {} /\ Acknowledged(o) = InTime(o, bound) /\ Acknowledged(o) = points
  BY <1>2, <1>9, FindingOfObserved DEF Blameless, RevocationVerdict, Verdict, Pass
<1>11. Blameless(id, Finding(plan, id, bundle, truth), bundle) <=> FalseAllows(o, bound) = {} /\ InTime(o, bound) = points
  BY <1>2, <1>10
<1> HIDE DEF o, points, bound
<1>12. QED
  BY <1>4, <1>6, <1>7, <1>8, <1>11 DEF ShareHolds, IdealShare, NonEmpty, AdverseRates

\* Of every stimulus, whether it was observed or not.
LEMMA SharesAreIdeal ==
  ASSUME NEW plan, NEW stimuli, NEW bundle, NEW systems, Scorable(plan, stimuli, bundle, systems),
         NEW truth, NEW id \in stimuli
  PROVE  /\ \A m \in MetricsOf[ControlOf(id)] :
              /\ ShareHolds(ShareOf(plan, m, bundle, id))
              /\ m \in NonEmpty => ShareOf(plan, m, bundle, id).den > 0
         /\ ControlOf(id) = "L06" =>
              (ShareOf(plan, "post_bound_false_allow_rate", bundle, id).den = 0
                 <=> id \notin DOMAIN bundle.observations)
         /\ Blameless(id, Finding(plan, id, bundle, truth), bundle)
              <=> \A m \in MetricsOf[ControlOf(id)] : IdealShare(m, ShareOf(plan, m, bundle, id))
<1>1. StimulusIsSound(StimulusOf[id]) /\ BundleIsFinite(bundle)
  BY DEF Scorable
<1>2. CASE id \notin DOMAIN bundle.observations
  BY <1>1, <1>2, MissingIsIdeal
<1>3. CASE id \in DOMAIN bundle.observations
  <2>1. bundle.observations[id].control = ControlOf(id) /\ IsComplete(plan, id, bundle.observations[id])
    BY <1>3 DEF Scorable, ReferencesAreSound
  <2>2. CASE ControlOf(id) = "L01"
    BY <1>1, <1>3, <2>1, <2>2, ExposureIsIdeal
  <2>3. CASE ControlOf(id) \in {"L02", "L03", "L04"}
    BY <1>3, <2>1, <2>3, AttemptIsIdeal
  <2>4. CASE ControlOf(id) = "L05"
    BY <1>1, <1>3, <2>1, <2>4, DependencyIsIdeal
  <2>5. CASE ControlOf(id) = "L06"
    <3>0. ShareOf(plan, "post_bound_false_allow_rate", bundle, id).den > 0
      BY <1>1, <1>3, <2>1, <2>5, RevocationIsIdeal
    <3>1. ShareOf(plan, "post_bound_false_allow_rate", bundle, id).den # 0
      BY <3>0
    <3>2. QED
      BY <1>1, <1>3, <2>1, <2>5, <3>1, RevocationIsIdeal
  <2>6. QED
    BY <1>1, <2>2, <2>3, <2>4, <2>5 DEF StimulusIsSound, ControlOf, MetricsOf
<1>4. QED
  BY <1>2, <1>3

LEMMA ReportFollowsFindings ==
  ASSUME NEW plan, NEW stimuli, NEW bundle, NEW systems, Scorable(plan, stimuli, bundle, systems),
         NEW truth
  PROVE  RatesFollowFindingsIn(stimuli, bundle, Report(plan, stimuli, bundle, truth))
<1> DEFINE report == Report(plan, stimuli, bundle, truth)
<1>1. /\ DOMAIN report.metrics = plan.selected
      /\ \A id \in stimuli : report.findings[id] = Finding(plan, id, bundle, truth)
      /\ \A c \in plan.selected :
           report.metrics[c] = [m \in MetricsOf[c] |-> Rate(plan, m, OfControl(stimuli, c), bundle)]
  BY DEF Report
<1> HIDE DEF report
<1>2. ASSUME NEW c \in plan.selected
      PROVE  LET rates == report.metrics[c]
                 ideal == \A m \in DOMAIN rates :
                            IF m \in AdverseRates THEN rates[m].num = 0 ELSE rates[m].num = rates[m].den
             IN /\ ideal <=> \A id \in OfControl(stimuli, c) : Blameless(id, report.findings[id], bundle)
                /\ \A m \in DOMAIN rates : rates[m].num <= rates[m].den /\ (m \in NonEmpty => rates[m].den > 0)
                /\ c = "L06" => (rates["post_bound_false_allow_rate"].den = 0
                                  <=> OfControl(stimuli, c) \cap DOMAIN bundle.observations = {})
  <2> DEFINE S == OfControl(stimuli, c)
             share(m, id) == ShareOf(plan, m, bundle, id)
             nums(m) == [id \in S |-> share(m, id).num]
             dens(m) == [id \in S |-> share(m, id).den]
             rates == report.metrics[c]
  <2>1. S \in SUBSET stimuli /\ S # {} /\ \A id \in S : ControlOf(id) = c
    BY DEF OfControl, Scorable, PlanIsSound
  <2>2. IsFiniteSet(S)
    BY <2>1, FS_Subset DEF Scorable
  <2>3. \A id \in S : /\ \A m \in MetricsOf[c] : ShareHolds(share(m, id)) /\ (m \in NonEmpty => share(m, id).den > 0)
                      /\ c = "L06" => (share("post_bound_false_allow_rate", id).den = 0
                                         <=> id \notin DOMAIN bundle.observations)
                      /\ Blameless(id, report.findings[id], bundle)
                           <=> \A m \in MetricsOf[c] : IdealShare(m, share(m, id))
    BY <1>1, <2>1, SharesAreIdeal
  <2>4. /\ DOMAIN rates = MetricsOf[c]
        /\ \A m \in MetricsOf[c] : rates[m] = Rate(plan, m, S, bundle)
    BY <1>1
  <2> HIDE DEF S, share, rates
  <2>5. ASSUME NEW m \in MetricsOf[c]
        PROVE  /\ rates[m].num \in Nat /\ rates[m].den \in Nat /\ rates[m].num <= rates[m].den
               /\ rates[m].num = rates[m].den <=> \A id \in S : share(m, id).num = share(m, id).den
               /\ rates[m].num = 0 <=> \A id \in S : share(m, id).num = 0
               /\ rates[m].den = 0 <=> \A id \in S : share(m, id).den = 0
    <3>1. \A id \in S : share(m, id).num \in Nat /\ share(m, id).den \in Nat /\ share(m, id).num <= share(m, id).den
      BY <2>3 DEF ShareHolds
    <3>2. nums(m) \in [S -> Nat] /\ dens(m) \in [S -> Nat]
      BY <3>1
    <3>3. \A id \in S : nums(m)[id] = share(m, id).num /\ dens(m)[id] = share(m, id).den
      OBVIOUS
    <3>4. \A id \in S : nums(m)[id] <= dens(m)[id]
      BY <3>1, <3>3
    <3>5. rates[m].num = SumFunction(nums(m)) /\ rates[m].den = SumFunction(dens(m))
      <4>1. rates[m] = Rate(plan, m, S, bundle)
        BY <2>4
      <4>2. Rate(plan, m, S, bundle) = Share(SumFunction(nums(m)), SumFunction(dens(m)))
        BY Zenon DEF Rate, share
      <4> HIDE DEF nums, dens
      <4>3. QED
        BY <4>1, <4>2 DEF Share
    <3> HIDE DEF nums, dens
    <3>6. /\ SumFunction(nums(m)) \in Nat /\ SumFunction(dens(m)) \in Nat
          /\ SumFunction(nums(m)) <= SumFunction(dens(m))
          /\ SumFunction(nums(m)) = SumFunction(dens(m)) <=> \A id \in S : nums(m)[id] = dens(m)[id]
          /\ SumFunction(nums(m)) = 0 <=> \A id \in S : nums(m)[id] = 0
          /\ SumFunction(dens(m)) = 0 <=> \A id \in S : dens(m)[id] = 0
      BY <2>2, <3>2, <3>4, SumsFollowTerms
    <3>7. QED
      BY <3>3, <3>5, <3>6
  <2> HIDE DEF nums, dens
  <2>6. (\A m \in DOMAIN rates : IF m \in AdverseRates THEN rates[m].num = 0 ELSE rates[m].num = rates[m].den)
          <=> \A id \in S : Blameless(id, report.findings[id], bundle)
    <3>1. \A m \in MetricsOf[c] :
            (IF m \in AdverseRates THEN rates[m].num = 0 ELSE rates[m].num = rates[m].den)
              <=> \A id \in S : IdealShare(m, share(m, id))
      BY <2>5 DEF IdealShare
    <3>2. QED
      BY <2>3, <2>4, <3>1
  <2>7. \A m \in DOMAIN rates : rates[m].num <= rates[m].den /\ (m \in NonEmpty => rates[m].den > 0)
    <3>1. ASSUME NEW m \in MetricsOf[c], m \in NonEmpty PROVE rates[m].den > 0
      <4>1. PICK id \in S : TRUE
        BY <2>1
      <4>2. share(m, id).den # 0
        BY <2>3, <3>1, <4>1 DEF ShareHolds
      <4>3. rates[m].den \in Nat /\ rates[m].den # 0
        BY <2>5, <4>1, <4>2
      <4>4. QED
        BY <4>3
    <3>2. QED
      BY <2>4, <2>5, <3>1
  <2>8. c = "L06" => (rates["post_bound_false_allow_rate"].den = 0 <=> S \cap DOMAIN bundle.observations = {})
    <3>1. c = "L06" => "post_bound_false_allow_rate" \in MetricsOf[c]
      BY DEF MetricsOf
    <3>2. QED
      BY <2>3, <2>5, <3>1
  <2>9. QED
    BY <2>6, <2>7, <2>8 DEF S, rates
<1>3. QED
  BY <1>1, <1>2 DEF RatesFollowFindingsIn, report

-----------------------------------------------------------------------------
(* The files of a directory and the arguments of the call that fills it. *)

Observations == "agent_authority_observations"
TruthFile == "agent_authority_truth"
Evaluation == "agent_authority_evaluation"

Finalising == {"normalise", Observations, "load truth", TruthFile, Evaluation, "manifest", "validate"}

ReceiptTypeOK ==
  /\ pc \in {"idle"} \cup StagedRoles \cup Finalising
  /\ torn \subseteq DOMAIN files
  /\ truth_loads \in {0, 1}
  /\ quiet \in BOOLEAN
  /\ pc # "idle" =>
       /\ call = [systems |-> call.systems, reader |-> call.reader, failed |-> call.failed,
                  bundle |-> call.bundle, truth |-> call.truth]
       /\ call.failed \in BOOLEAN

\* Only what is deployed as planned is run, and named in the execution record.
DeploymentHolds ==
  /\ pc # "idle" => PlanIsSound(Plan, Stimuli, call.systems)
  /\ Has("execution") => PlanIsSound(Plan, Stimuli, files["execution"].systems)

\* The truth is loaded over observations that are there, and only once.
TruthIsLate ==
  /\ truth_loads = 1 => Observations \in DOMAIN files /\ scored = files[Observations]
  /\ TruthFile \in DOMAIN files \/ pc \in {TruthFile, Evaluation} => truth_loads = 1
  /\ pc = "load truth" => truth_loads = 0

\* A finalisation is about the run the execution record names.
StagedHolds ==
  pc \in Finalising =>
    /\ StagedRoles \subseteq DOMAIN files \ torn
    /\ quiet => files["execution"] = [systems |-> call.systems, output |-> files["product_output"],
                                      failed |-> call.failed]

\* The points of a call that evaluates, from one on: those after pc = p.
Evaluates(points) == pc \in points \/ (pc = "manifest" /\ ~call.failed)

BundleHolds ==
  /\ pc \in {"normalise", Observations, "load truth", TruthFile, Evaluation} => ~call.failed
  /\ Evaluates({Observations, "load truth", TruthFile, Evaluation}) =>
       /\ ReferencesAreSound(Plan, Stimuli, call.bundle, call.systems)
       /\ quiet => call.bundle = Read(call.reader, files["product_output"])
  /\ Evaluates({"load truth", TruthFile, Evaluation}) =>
       Observations \in DOMAIN files /\ files[Observations] = call.bundle

EvaluationHolds ==
  /\ Evaluates({TruthFile, Evaluation}) => TruthIsSound(Plan, Stimuli, call.truth)
  /\ Evaluates({Evaluation}) => TruthFile \in DOMAIN files /\ files[TruthFile] = call.truth
  /\ Evaluates({}) =>
       /\ Evaluation \in DOMAIN files
       /\ files[Evaluation] = Report(Plan, Stimuli, call.bundle, call.truth)

SealHolds ==
  /\ pc = "validate" /\ quiet => IsReceipt(call.reader)
  /\ outcome = "sealed" => Has("manifest")

ReceiptInv ==
  /\ ReceiptTypeOK
  /\ DeploymentHolds
  /\ TruthIsLate
  /\ StagedHolds
  /\ BundleHolds
  /\ EvaluationHolds
  /\ SealHolds

-----------------------------------------------------------------------------
\* A receipt is one of some contents: what a call is refused changes none.
LEMMA EndingKeepsInv ==
  ASSUME ReceiptInv, UNCHANGED <<study, files, torn, truth_loads, scored, quiet>>,
         pc' = "idle", outcome' = "sealed" => Has("manifest")
  PROVE  ReceiptInv'
<1> USE DEF ReceiptInv
<1>1. ReceiptTypeOK'
  BY DEF ReceiptTypeOK
<1>2. DeploymentHolds'
  BY DEF DeploymentHolds, Plan, Stimuli, Has
<1>3. TruthIsLate'
  BY DEF TruthIsLate, TruthFile, Evaluation, Observations
<1>4. StagedHolds' /\ BundleHolds' /\ EvaluationHolds'
  BY DEF StagedHolds, BundleHolds, EvaluationHolds, Evaluates, Finalising, TruthFile, Evaluation, Observations
<1>5. SealHolds'
  BY DEF SealHolds, Has
<1>6. QED
  BY <1>1, <1>2, <1>3, <1>4, <1>5

\* A call that ends, as it is, or as it stops, keeps what was sealed.
LEMMA RefusalKeepsInv ==
  ASSUME ReceiptInv, UNCHANGED <<study, files, torn, truth_loads, scored, quiet>>,
         NEW how, how # "sealed", Ends(how)
  PROVE  ReceiptInv'
BY EndingKeepsInv DEF Ends

\* Staging puts down files no later part of the invariant is about, under the same
\* arguments but for whether the product failed.
LEMMA StagingKeepsInv ==
  ASSUME ReceiptInv,
         pc \in StagedRoles \ {"execution"}, pc' \in StagedRoles,
         NEW content, files' = With(pc, content),
         NEW failed \in BOOLEAN, call' = [call EXCEPT !.failed = failed],
         UNCHANGED <<study, torn, outcome, truth_loads, scored, quiet>>
  PROVE  ReceiptInv'
<1> USE DEF ReceiptInv
<1>1. /\ DOMAIN files' = DOMAIN files \cup {pc}
      /\ \A r \in DOMAIN files : r # pc => files'[r] = files[r]
  BY DEF With
<1>2. /\ pc \in {"agent_authority_run_plan", "source_public", "product_input", "product_output"}
      /\ pc' \in StagedRoles
  BY DEF StagedRoles
<1>3. /\ call' = [systems |-> call.systems, reader |-> call.reader, failed |-> failed,
                  bundle |-> call.bundle, truth |-> call.truth]
      /\ torn \subseteq DOMAIN files
  BY <1>2 DEF ReceiptTypeOK
<1>4. ReceiptTypeOK'
  BY <1>1, <1>2, <1>3 DEF ReceiptTypeOK
<1>5. DeploymentHolds'
  <2>1. PlanIsSound(Plan, Stimuli, call.systems) /\ Plan' = Plan /\ Stimuli' = Stimuli
    BY <1>2 DEF DeploymentHolds, Plan, Stimuli
  <2>2. Has("execution")' => Has("execution") /\ files'["execution"] = files["execution"]
    BY <1>1, <1>2 DEF Has
  <2>3. QED
    BY <1>3, <2>1, <2>2 DEF DeploymentHolds
<1>6. TruthIsLate'
  BY <1>1, <1>2 DEF TruthIsLate, TruthFile, Evaluation, Observations, StagedRoles
<1>7. StagedHolds' /\ BundleHolds' /\ EvaluationHolds'
  BY <1>2 DEF StagedHolds, BundleHolds, EvaluationHolds, Evaluates, Finalising, TruthFile, Evaluation, Observations,
              StagedRoles
<1>8. SealHolds'
  BY <1>1, <1>2 DEF SealHolds, Has, StagedRoles
<1>9. QED
  BY <1>4, <1>5, <1>6, <1>7, <1>8

\* What Creates makes of a role: a refusal, or one more file.
LEMMA CreatesIs ==
  ASSUME NEW role, NEW content, NEW next, Creates(role, content, next)
  PROVE  \/ Ends("refused") /\ files' = files
         \/ /\ role \notin DOMAIN files /\ pc' = next /\ UNCHANGED <<call, outcome>>
            /\ files' = With(role, content)
            /\ DOMAIN files' = DOMAIN files \cup {role} /\ files'[role] = content
            /\ \A r \in DOMAIN files : files'[r] = files[r]
<1>1. CASE role \in DOMAIN files
  BY <1>1 DEF Creates
<1>2. CASE role \notin DOMAIN files
  BY <1>2 DEF Creates, With
<1>3. QED
  BY <1>1, <1>2

\* What a finalisation adds to a directory is none of the files it started from.
LEMMA AddingKeepsStaged ==
  ASSUME ReceiptInv, pc \in Finalising, pc' \in Finalising,
         NEW role, role \notin StagedRoles,
         NEW content, files' = With(role, content),
         UNCHANGED <<study, torn, quiet>>,
         call'.systems = call.systems, call'.failed = call.failed
  PROVE  /\ DeploymentHolds' /\ StagedHolds'
         /\ files'["product_output"] = files["product_output"]
         /\ Plan' = Plan /\ Stimuli' = Stimuli
<1> USE DEF ReceiptInv
<1>1. /\ DOMAIN files' = DOMAIN files \cup {role}
      /\ \A r \in DOMAIN files : r # role => files'[r] = files[r]
  BY DEF With
<1>2. StagedRoles \subseteq DOMAIN files \ torn
  BY DEF StagedHolds
<1>3. \A r \in StagedRoles : files'[r] = files[r]
  BY <1>1, <1>2
<1>4. files'["execution"] = files["execution"] /\ files'["product_output"] = files["product_output"]
  BY <1>3 DEF StagedRoles
<1>5. StagedHolds'
  BY <1>1, <1>2, <1>4 DEF StagedHolds
<1>6. pc # "idle"
  BY DEF Finalising, Observations, TruthFile, Evaluation
<1>7. Has("execution")
  BY <1>2 DEF Has, StagedRoles
<1>8. DeploymentHolds'
  BY <1>4, <1>6, <1>7 DEF DeploymentHolds, Plan, Stimuli
<1>9. QED
  BY <1>4, <1>5, <1>8 DEF Plan, Stimuli

LEMMA PreflightKeepsInv ==
  ASSUME ReceiptInv, NEW systems, Preflight(systems)
  PROVE  ReceiptInv'
<1> USE DEF ReceiptInv
<1>1. UNCHANGED <<study, files, torn, truth_loads, scored, quiet>> /\ pc = "idle" /\ outcome \in {"new", "not begun"}
  BY DEF Preflight, Rest
<1>2. CASE ~PlanIsSound(Plan, Stimuli, systems)
  <2>1. Ends("not begun")
    BY <1>2 DEF Preflight
  <2>2. QED
    BY <1>1, <2>1, RefusalKeepsInv
<1>3. CASE PlanIsSound(Plan, Stimuli, systems)
  <2>1. /\ pc' = "agent_authority_run_plan" /\ outcome' = outcome
        /\ call' = [systems |-> systems, reader |-> Nothing, failed |-> FALSE, bundle |-> Nothing, truth |-> Nothing]
    BY <1>3 DEF Preflight, Begins
  <2>2. ReceiptTypeOK'
    BY <1>1, <2>1 DEF ReceiptTypeOK, StagedRoles
  <2>3. DeploymentHolds'
    BY <1>1, <1>3, <2>1 DEF DeploymentHolds, Plan, Stimuli, Has
  <2>4. TruthIsLate'
    BY <1>1, <2>1 DEF TruthIsLate, Observations, TruthFile, Evaluation
  <2>5. StagedHolds' /\ BundleHolds' /\ EvaluationHolds' /\ SealHolds'
    BY <1>1, <2>1 DEF StagedHolds, BundleHolds, EvaluationHolds, SealHolds, Evaluates, Finalising,
                      Observations, TruthFile, Evaluation
  <2>6. QED
    BY <2>2, <2>3, <2>4, <2>5
<1>4. QED
  BY <1>2, <1>3

\* The three files that are put down as planned, and the product's own.
LEMMA StageKeepsInv ==
  ASSUME ReceiptInv, StagePlan \/ StageSource \/ StageInput \/ RunProduct
  PROVE  ReceiptInv'
<1>1. UNCHANGED <<study, torn, truth_loads, scored, quiet>>
  BY DEF StagePlan, StageSource, StageInput, RunProduct, Rest
<1>2. ASSUME NEW role \in {"agent_authority_run_plan", "source_public", "product_input"},
             NEW next \in StagedRoles, pc = role, Creates(role, "as planned", next)
      PROVE  ReceiptInv'
  <2>1. CASE Ends("refused") /\ files' = files
    BY <1>1, <2>1, RefusalKeepsInv
  <2>2. CASE pc' = next /\ UNCHANGED <<call, outcome>> /\ files' = With(role, "as planned")
    <3>1. call.failed \in BOOLEAN /\ call' = [call EXCEPT !.failed = call.failed]
      BY <1>2, <2>2 DEF ReceiptInv, ReceiptTypeOK
    <3>2. pc \in StagedRoles \ {"execution"}
      BY <1>2 DEF StagedRoles
    <3>3. QED
      BY <1>1, <1>2, <2>2, <3>1, <3>2, StagingKeepsInv
  <2>3. QED
    BY <1>2, <2>1, <2>2, CreatesIs
<1>3. CASE RunProduct
  <2>1. PICK output \in Study[study].outputs, failed \in BOOLEAN :
          IF output = Nothing
          THEN Ends("refused") /\ UNCHANGED files
          ELSE /\ files' = With("product_output", output) /\ pc' = "execution"
               /\ call' = [call EXCEPT !.failed = failed]
               /\ UNCHANGED outcome
    BY <1>3 DEF RunProduct
  <2>2. CASE output = Nothing
    BY <1>1, <2>1, <2>2, RefusalKeepsInv
  <2>3. CASE output # Nothing
    BY <1>1, <1>3, <2>1, <2>3, StagingKeepsInv DEF RunProduct, StagedRoles
  <2>4. QED
    BY <2>2, <2>3
<1>4. CASE StagePlan
  BY <1>2, <1>4 DEF StagePlan, StagedRoles, Creates
<1>5. CASE StageSource
  BY <1>2, <1>5 DEF StageSource, StagedRoles, Creates
<1>6. CASE StageInput
  BY <1>2, <1>6 DEF StageInput, StagedRoles, Creates
<1>7. QED
  BY <1>3, <1>4, <1>5, <1>6

LEMMA StageExecutionKeepsInv ==
  ASSUME ReceiptInv, StageExecution
  PROVE  ReceiptInv'
<1> USE DEF ReceiptInv
<1>1. /\ UNCHANGED <<study, torn, truth_loads, scored, quiet>>
      /\ pc = "execution" /\ pc' = "idle" /\ call' = Nothing /\ outcome' = "staged"
  BY DEF StageExecution, Rest, Ends
<1>2. /\ DOMAIN files' = DOMAIN files \cup {"execution"}
      /\ files'["execution"].systems = call.systems
      /\ \A r \in DOMAIN files : r # "execution" => files'[r] = files[r]
  BY DEF StageExecution, With
<1>3. ReceiptTypeOK'
  BY <1>1, <1>2 DEF ReceiptTypeOK
<1>4. DeploymentHolds'
  BY <1>1, <1>2 DEF DeploymentHolds, Plan, Stimuli
<1>5. TruthIsLate'
  BY <1>1, <1>2 DEF TruthIsLate, Observations, TruthFile, Evaluation
<1>6. StagedHolds' /\ BundleHolds' /\ EvaluationHolds' /\ SealHolds'
  BY <1>1 DEF StagedHolds, BundleHolds, EvaluationHolds, SealHolds, Evaluates, Finalising,
              Observations, TruthFile, Evaluation
<1>7. QED
  BY <1>3, <1>4, <1>5, <1>6

LEMMA FinalizeKeepsInv ==
  ASSUME ReceiptInv, NEW systems, NEW reader, NEW failed \in BOOLEAN,
         Finalizes(systems, reader, failed, IF failed THEN "manifest" ELSE "normalise")
  PROVE  ReceiptInv'
<1> USE DEF ReceiptInv
<1>1. UNCHANGED <<study, files, torn, truth_loads, scored, quiet>> /\ pc = "idle"
  BY DEF Finalizes
<1>2. CASE ~StagedIsSound(systems, failed)
  <2>1. Ends("refused")
    BY <1>2 DEF Finalizes
  <2>2. QED
    BY <1>1, <2>1, RefusalKeepsInv
<1>3. CASE StagedIsSound(systems, failed)
  <2>1. /\ pc' = (IF failed THEN "manifest" ELSE "normalise") /\ outcome' = outcome
        /\ call' = [systems |-> systems, reader |-> reader, failed |-> failed, bundle |-> Nothing, truth |-> Nothing]
    BY <1>3 DEF Finalizes, Begins
  <2>2. ReceiptTypeOK'
    BY <1>1, <2>1 DEF ReceiptTypeOK, Finalising
  <2>3. /\ StagedRoles \subseteq DOMAIN files \ torn
        /\ files["execution"] = [systems |-> systems, output |-> files["product_output"], failed |-> failed]
    BY <1>3 DEF StagedIsSound, Has
  <2>4. DeploymentHolds'
    BY <1>1, <2>1, <2>3 DEF DeploymentHolds, Plan, Stimuli, Has, StagedRoles
  <2>5. TruthIsLate'
    BY <1>1, <2>1 DEF TruthIsLate, Observations, TruthFile, Evaluation
  <2>6. StagedHolds'
    BY <1>1, <2>1, <2>3 DEF StagedHolds
  <2>7. BundleHolds' /\ EvaluationHolds' /\ SealHolds'
    BY <1>1, <2>1 DEF BundleHolds, EvaluationHolds, SealHolds, Evaluates, Observations, TruthFile, Evaluation, Has
  <2>8. QED
    BY <2>2, <2>4, <2>5, <2>6, <2>7
<1>4. QED
  BY <1>2, <1>3

LEMMA NormaliseKeepsInv ==
  ASSUME ReceiptInv, Normalise
  PROVE  ReceiptInv'
<1> USE DEF ReceiptInv
<1> DEFINE bundle == Read(call.reader, files["product_output"])
<1>1. /\ UNCHANGED <<study, files, torn, mishaps, truth_loads, scored, quiet>> /\ pc = "normalise"
      /\ \/ Ends("refused")
         \/ /\ ReferencesAreSound(Plan, Stimuli, bundle, call.systems)
            /\ pc' = Observations /\ call' = [call EXCEPT !.bundle = bundle] /\ UNCHANGED outcome
  BY DEF Normalise, Rest, Observations
<1>2. CASE Ends("refused")
  BY <1>1, <1>2, RefusalKeepsInv
<1>3. CASE /\ ReferencesAreSound(Plan, Stimuli, bundle, call.systems)
           /\ pc' = Observations /\ call' = [call EXCEPT !.bundle = bundle] /\ UNCHANGED outcome
  <2>1. /\ call' = [systems |-> call.systems, reader |-> call.reader, failed |-> call.failed,
                    bundle |-> bundle, truth |-> call.truth]
        /\ call.failed \in BOOLEAN
    BY <1>1, <1>3 DEF ReceiptTypeOK
  <2>2. ReceiptTypeOK'
    BY <1>1, <1>3, <2>1 DEF ReceiptTypeOK, Finalising
  <2>3. DeploymentHolds'
    BY <1>1, <1>3, <2>1 DEF DeploymentHolds, Plan, Stimuli, Has
  <2>4. TruthIsLate'
    BY <1>1, <1>3 DEF TruthIsLate, Observations, TruthFile, Evaluation
  <2>5. StagedHolds'
    BY <1>1, <1>3, <2>1 DEF StagedHolds, Finalising
  <2>6. BundleHolds'
    BY <1>1, <1>3, <2>1 DEF BundleHolds, Evaluates, Observations, TruthFile, Evaluation, Plan, Stimuli
  <2>7. EvaluationHolds' /\ SealHolds'
    BY <1>1, <1>3 DEF EvaluationHolds, SealHolds, Evaluates, Observations, TruthFile, Evaluation, Has
  <2>8. QED
    BY <2>2, <2>3, <2>4, <2>5, <2>6, <2>7
<1>4. QED
  BY <1>1, <1>2, <1>3

\* Observations that can be written are the first, so the truth is still unread.
LEMMA WriteObservationsKeepsInv ==
  ASSUME ReceiptInv, WriteObservations
  PROVE  ReceiptInv'
<1> USE DEF ReceiptInv
<1>1. UNCHANGED <<study, torn, truth_loads, scored, quiet>> /\ pc = Observations
      /\ Creates(Observations, call.bundle, "load truth")
  BY DEF WriteObservations, Rest, Creates, Observations
<1>2. CASE Ends("refused") /\ files' = files
  BY <1>1, <1>2, RefusalKeepsInv
<1>3. CASE /\ Observations \notin DOMAIN files /\ pc' = "load truth" /\ UNCHANGED <<call, outcome>>
           /\ files' = With(Observations, call.bundle)
           /\ DOMAIN files' = DOMAIN files \cup {Observations} /\ files'[Observations] = call.bundle
           /\ \A r \in DOMAIN files : files'[r] = files[r]
  <2>1. pc \in Finalising /\ pc' \in Finalising /\ Observations \notin StagedRoles
    BY <1>1, <1>3 DEF Finalising, Observations, StagedRoles
  <2>2. /\ DeploymentHolds' /\ StagedHolds'
        /\ files'["product_output"] = files["product_output"]
        /\ Plan' = Plan /\ Stimuli' = Stimuli
    BY <1>1, <1>3, <2>1, AddingKeepsStaged
  <2>3. ReceiptTypeOK'
    BY <1>1, <1>3, <2>1 DEF ReceiptTypeOK, Observations
  <2>4. TruthIsLate'
    BY <1>1, <1>3 DEF TruthIsLate, ReceiptTypeOK, Observations, TruthFile, Evaluation
  <2>5. BundleHolds'
    BY <1>1, <1>3, <2>2 DEF BundleHolds, Evaluates, Observations, TruthFile, Evaluation
  <2>6. EvaluationHolds' /\ SealHolds'
    BY <1>1, <1>3 DEF EvaluationHolds, SealHolds, Evaluates, Observations, TruthFile, Evaluation, Has
  <2>7. QED
    BY <2>2, <2>3, <2>4, <2>5, <2>6
<1>4. QED
  BY <1>1, <1>2, <1>3, CreatesIs

LEMMA LoadTruthKeepsInv ==
  ASSUME ReceiptInv, NEW truth, LoadTruth(truth)
  PROVE  ReceiptInv'
<1> USE DEF ReceiptInv
<1>0. truth_loads = 0 /\ truth_loads' = truth_loads + 1
  BY DEF LoadTruth, TruthIsLate
<1>0a. truth_loads' = 1
  BY <1>0
<1>1. /\ UNCHANGED <<study, files, torn, mishaps, quiet>> /\ pc = "load truth"
      /\ truth_loads' = 1 /\ scored' = files[Observations]
      /\ \/ Ends("refused")
         \/ /\ TruthIsSound(Plan, Stimuli, truth)
            /\ pc' = TruthFile /\ call' = [call EXCEPT !.truth = truth] /\ UNCHANGED outcome
  BY <1>0a, Zenon DEF LoadTruth, TruthFile, Observations
<1>2. Observations \in DOMAIN files /\ Plan' = Plan /\ Stimuli' = Stimuli
  BY <1>1 DEF BundleHolds, Evaluates, Plan, Stimuli
<1>3. TruthIsLate'
  BY <1>1, <1>2 DEF TruthIsLate, Ends, TruthFile, Evaluation
<1>4. CASE Ends("refused")
  <2>1. pc' = "idle" /\ outcome' = "refused"
    BY <1>4 DEF Ends
  <2>2. ReceiptTypeOK' /\ DeploymentHolds'
    BY <1>1, <2>1 DEF ReceiptTypeOK, DeploymentHolds, Plan, Stimuli, Has
  <2>3. StagedHolds' /\ BundleHolds' /\ EvaluationHolds' /\ SealHolds'
    BY <2>1 DEF StagedHolds, BundleHolds, EvaluationHolds, SealHolds, Evaluates, Finalising,
                Observations, TruthFile, Evaluation
  <2>4. QED
    BY <1>3, <2>2, <2>3
<1>5. CASE /\ TruthIsSound(Plan, Stimuli, truth)
           /\ pc' = TruthFile /\ call' = [call EXCEPT !.truth = truth] /\ UNCHANGED outcome
  <2>1. /\ call' = [systems |-> call.systems, reader |-> call.reader, failed |-> call.failed,
                    bundle |-> call.bundle, truth |-> truth]
        /\ call.failed \in BOOLEAN
    BY <1>1, <1>5 DEF ReceiptTypeOK
  <2>2. ReceiptTypeOK'
    BY <1>1, <1>5, <2>1 DEF ReceiptTypeOK, Finalising
  <2>3. DeploymentHolds'
    BY <1>1, <1>2, <2>1 DEF DeploymentHolds, Has
  <2>4. StagedHolds'
    BY <1>1, <1>5, <2>1 DEF StagedHolds, Finalising
  <2>5. BundleHolds'
    BY <1>1, <1>2, <1>5, <2>1 DEF BundleHolds, Evaluates, Observations, TruthFile, Evaluation
  <2>6. EvaluationHolds' /\ SealHolds'
    BY <1>1, <1>2, <1>5, <2>1 DEF EvaluationHolds, SealHolds, Evaluates, Observations, TruthFile, Evaluation, Has
  <2>7. QED
    BY <1>3, <2>2, <2>3, <2>4, <2>5, <2>6
<1>6. QED
  BY <1>1, <1>4, <1>5

LEMMA WriteTruthKeepsInv ==
  ASSUME ReceiptInv, WriteTruth
  PROVE  ReceiptInv'
<1> USE DEF ReceiptInv
<1>1. UNCHANGED <<study, torn, truth_loads, scored, quiet>> /\ pc = TruthFile
      /\ Creates(TruthFile, call.truth, Evaluation)
  BY DEF WriteTruth, Rest, Creates, TruthFile, Evaluation
<1>2. CASE Ends("refused") /\ files' = files
  BY <1>1, <1>2, RefusalKeepsInv
<1>3. CASE /\ TruthFile \notin DOMAIN files /\ pc' = Evaluation /\ UNCHANGED <<call, outcome>>
           /\ files' = With(TruthFile, call.truth)
           /\ DOMAIN files' = DOMAIN files \cup {TruthFile} /\ files'[TruthFile] = call.truth
           /\ \A r \in DOMAIN files : files'[r] = files[r]
  <2>1. pc \in Finalising /\ pc' \in Finalising /\ TruthFile \notin StagedRoles
    BY <1>1, <1>3 DEF Finalising, TruthFile, StagedRoles
  <2>2. /\ DeploymentHolds' /\ StagedHolds'
        /\ files'["product_output"] = files["product_output"]
        /\ Plan' = Plan /\ Stimuli' = Stimuli
    BY <1>1, <1>3, <2>1, AddingKeepsStaged
  <2>3. ReceiptTypeOK'
    BY <1>1, <1>3, <2>1 DEF ReceiptTypeOK, TruthFile
  <2>4. TruthIsLate'
    BY <1>1, <1>3 DEF TruthIsLate, Observations, TruthFile, Evaluation
  <2>5. BundleHolds'
    BY <1>1, <1>3, <2>2 DEF BundleHolds, Evaluates, Observations, TruthFile, Evaluation
  <2>6. EvaluationHolds' /\ SealHolds'
    BY <1>1, <1>3, <2>2 DEF EvaluationHolds, SealHolds, Evaluates, Observations, TruthFile, Evaluation, Has
  <2>7. QED
    BY <2>2, <2>3, <2>4, <2>5, <2>6
<1>4. QED
  BY <1>1, <1>2, <1>3, CreatesIs

LEMMA EvaluateKeepsInv ==
  ASSUME ReceiptInv, Evaluate
  PROVE  ReceiptInv'
<1> USE DEF ReceiptInv
<1> DEFINE report == Report(Plan, Stimuli, call.bundle, call.truth)
<1>1. UNCHANGED <<study, torn, truth_loads, scored, quiet>> /\ pc = Evaluation
      /\ Creates(Evaluation, report, "manifest")
  BY DEF Evaluate, Rest, Creates, Evaluation
<1> HIDE DEF report
<1>2. CASE Ends("refused") /\ files' = files
  BY <1>1, <1>2, RefusalKeepsInv
<1>3. CASE /\ Evaluation \notin DOMAIN files /\ pc' = "manifest" /\ UNCHANGED <<call, outcome>>
           /\ files' = With(Evaluation, report)
           /\ DOMAIN files' = DOMAIN files \cup {Evaluation} /\ files'[Evaluation] = report
           /\ \A r \in DOMAIN files : files'[r] = files[r]
  <2>1. pc \in Finalising /\ pc' \in Finalising /\ Evaluation \notin StagedRoles
    BY <1>1, <1>3 DEF Finalising, Evaluation, StagedRoles
  <2>2. /\ DeploymentHolds' /\ StagedHolds'
        /\ files'["product_output"] = files["product_output"]
        /\ Plan' = Plan /\ Stimuli' = Stimuli
    BY <1>1, <1>3, <2>1, AddingKeepsStaged
  <2>3. ReceiptTypeOK'
    BY <1>1, <1>3, <2>1 DEF ReceiptTypeOK, Evaluation
  <2>4. TruthIsLate'
    BY <1>1, <1>3 DEF TruthIsLate, Observations, TruthFile, Evaluation
  <2>5. BundleHolds'
    BY <1>1, <1>3, <2>2 DEF BundleHolds, Evaluates, Observations, TruthFile, Evaluation
  <2>6. files'[Evaluation] = Report(Plan, Stimuli, call.bundle, call.truth)
    BY <1>3 DEF report
  <2>7. EvaluationHolds' /\ SealHolds'
    BY <1>1, <1>3, <2>2, <2>6
       DEF EvaluationHolds, SealHolds, Evaluates, Observations, TruthFile, Evaluation, Has
  <2>8. QED
    BY <2>2, <2>3, <2>4, <2>5, <2>7
<1>4. QED
  BY <1>1, <1>2, <1>3, CreatesIs

\* What a manifest is put over validates, with the normaliser of the call: all it
\* compares the call has compared or derived before.
LEMMA SealedIsReceipt ==
  ASSUME ReceiptInv, quiet, pc = "manifest", "manifest" \notin DOMAIN files,
         DOMAIN files = (IF call.failed THEN StagedRoles ELSE EvaluatedRoles),
         pc' = "validate", UNCHANGED <<study, torn, call, quiet>>,
         files' = With("manifest", [digests |-> files, systems |-> call.systems, failed |-> call.failed])
  PROVE  IsReceipt(call.reader)'
<1> USE DEF ReceiptInv
<1>1. /\ DOMAIN files' = DOMAIN files \cup {"manifest"}
      /\ files'["manifest"] = [digests |-> files, systems |-> call.systems, failed |-> call.failed]
      /\ \A r \in DOMAIN files : files'[r] = files[r]
  BY DEF With
<1>2. Has("manifest")'
  BY <1>1 DEF Has, ReceiptTypeOK
<1>3. /\ StagedRoles \subseteq DOMAIN files
      /\ files["execution"] = [systems |-> call.systems, output |-> files["product_output"], failed |-> call.failed]
  BY DEF StagedHolds, Finalising
<1>4. files'["execution"] = files["execution"] /\ files'["product_output"] = files["product_output"]
  BY <1>1, <1>3 DEF StagedRoles
<1>5. PlanIsSound(Plan, Stimuli, call.systems) /\ Plan' = Plan /\ Stimuli' = Stimuli
  BY DEF DeploymentHolds, Plan, Stimuli
<1>6. ASSUME ~call.failed
      PROVE  EvaluationReplays(call.reader)'
  <2>1. Evaluates({}) /\ Evaluates({Evaluation}) /\ Evaluates({TruthFile, Evaluation})
        /\ Evaluates({"load truth", TruthFile, Evaluation})
        /\ Evaluates({Observations, "load truth", TruthFile, Evaluation})
    BY <1>6 DEF Evaluates
  <2>2. /\ Observations \in DOMAIN files /\ files[Observations] = call.bundle
        /\ ReferencesAreSound(Plan, Stimuli, call.bundle, call.systems)
        /\ call.bundle = Read(call.reader, files["product_output"])
    BY <2>1 DEF BundleHolds
  <2>3. /\ TruthFile \in DOMAIN files /\ files[TruthFile] = call.truth
        /\ TruthIsSound(Plan, Stimuli, call.truth)
        /\ Evaluation \in DOMAIN files
        /\ files[Evaluation] = Report(Plan, Stimuli, call.bundle, call.truth)
    BY <2>1 DEF EvaluationHolds
  <2>4. /\ files'[Observations] = call.bundle /\ files'[TruthFile] = call.truth
        /\ files'[Evaluation] = Report(Plan, Stimuli, call.bundle, call.truth)
        /\ files'["manifest"].systems = call.systems
    BY <1>1, <2>2, <2>3
  <2>5. QED
    BY <1>4, <1>5, <2>2, <2>3, <2>4 DEF EvaluationReplays, Observations, TruthFile, Evaluation
<1>7. /\ files'["manifest"].digests = files
      /\ files'["manifest"].systems = call.systems /\ files'["manifest"].failed = call.failed
  BY <1>1
<1>8. QED
  BY <1>1, <1>2, <1>3, <1>4, <1>5, <1>6, <1>7 DEF IsReceipt

LEMMA SealKeepsInv ==
  ASSUME ReceiptInv, Seal
  PROVE  ReceiptInv'
<1> USE DEF ReceiptInv
<1> DEFINE manifest == [digests |-> files, systems |-> call.systems, failed |-> call.failed]
<1>1. UNCHANGED <<study, torn, truth_loads, scored, quiet>> /\ pc = "manifest"
  BY DEF Seal, Rest
<1>2. \/ Ends("refused") /\ files' = files
      \/ /\ DOMAIN files = (IF call.failed THEN StagedRoles ELSE EvaluatedRoles)
         /\ Creates("manifest", manifest, "validate")
  BY DEF Seal
<1>3. CASE Ends("refused") /\ files' = files
  BY <1>1, <1>3, RefusalKeepsInv
<1>4. CASE /\ DOMAIN files = (IF call.failed THEN StagedRoles ELSE EvaluatedRoles)
           /\ "manifest" \notin DOMAIN files /\ pc' = "validate" /\ UNCHANGED <<call, outcome>>
           /\ files' = With("manifest", manifest)
           /\ DOMAIN files' = DOMAIN files \cup {"manifest"}
           /\ \A r \in DOMAIN files : files'[r] = files[r]
  <2>1. pc \in Finalising /\ pc' \in Finalising /\ "manifest" \notin StagedRoles
    BY <1>1, <1>4 DEF Finalising, StagedRoles
  <2>2. DeploymentHolds' /\ StagedHolds'
    BY <1>1, <1>4, <2>1, AddingKeepsStaged
  <2>3. ReceiptTypeOK'
    BY <1>1, <1>4, <2>1 DEF ReceiptTypeOK
  <2>4. TruthIsLate'
    BY <1>1, <1>4 DEF TruthIsLate, Observations, TruthFile, Evaluation
  <2>5. BundleHolds' /\ EvaluationHolds'
    BY <1>4 DEF BundleHolds, EvaluationHolds, Evaluates, Observations, TruthFile, Evaluation
  <2>6. quiet' => IsReceipt(call.reader)'
    BY <1>1, <1>4, SealedIsReceipt
  <2>7. SealHolds'
    BY <1>1, <1>4, <2>6 DEF SealHolds, Has
  <2>8. QED
    BY <2>2, <2>3, <2>4, <2>5, <2>7
<1>5. QED
  BY <1>2, <1>3, <1>4, CreatesIs

LEMMA ValidateReceiptKeepsInv ==
  ASSUME ReceiptInv, ValidateReceipt
  PROVE  ReceiptInv'
<1>1. UNCHANGED <<study, files, torn, truth_loads, scored, quiet>> /\ pc' = "idle"
      /\ outcome' = (IF IsReceipt(call.reader) THEN "sealed" ELSE "refused")
  BY DEF ValidateReceipt, Rest, Ends
<1>2. outcome' = "sealed" => Has("manifest")
  BY <1>1 DEF IsReceipt
<1>3. QED
  BY <1>1, <1>2, EndingKeepsInv

\* A file that is cut off is one more there is, and no truth has been read for it.
LEMMA StopKeepsInv ==
  ASSUME ReceiptInv, Stop
  PROVE  ReceiptInv'
<1> USE DEF ReceiptInv
<1>1. UNCHANGED <<study, truth_loads, scored, quiet>> /\ pc # "idle" /\ Ends("stopped")
  BY DEF Stop
<1>2. CASE UNCHANGED <<files, torn>>
  BY <1>1, <1>2, RefusalKeepsInv
<1>3. CASE pc \in Writing \ DOMAIN files /\ files' = With(pc, Nothing) /\ torn' = torn \cup {pc}
  <2>1. /\ DOMAIN files' = DOMAIN files \cup {pc}
        /\ \A r \in DOMAIN files : files'[r] = files[r]
        /\ pc' = "idle" /\ outcome' = "stopped"
    BY <1>1, <1>3 DEF With, Ends
  <2>2. ReceiptTypeOK'
    BY <1>1, <1>3, <2>1 DEF ReceiptTypeOK
  <2>3. DeploymentHolds'
    BY <1>1, <1>3, <2>1 DEF DeploymentHolds, Plan, Stimuli, Has
  <2>4. TruthIsLate'
    BY <1>1, <1>3, <2>1 DEF TruthIsLate, Observations, TruthFile, Evaluation
  <2>5. StagedHolds' /\ BundleHolds' /\ EvaluationHolds' /\ SealHolds'
    BY <2>1 DEF StagedHolds, BundleHolds, EvaluationHolds, SealHolds, Evaluates, Finalising,
                Observations, TruthFile, Evaluation
  <2>6. QED
    BY <2>2, <2>3, <2>4, <2>5
<1>4. QED
  BY <1>2, <1>3 DEF Stop

\* The product can only change its output, and is no longer quiet then.
LEMMA ProductKeepsInv ==
  ASSUME ReceiptInv, ProductWritesOn
  PROVE  ReceiptInv'
<1> USE DEF ReceiptInv
<1>1. PICK output : files' = With("product_output", output)
  BY DEF ProductWritesOn
<1>2. /\ "product_output" \in DOMAIN files /\ ~quiet'
      /\ torn' = torn \ {"product_output"}
      /\ UNCHANGED <<study, pc, call, outcome, truth_loads, scored>>
  BY DEF ProductWritesOn
<1>3. /\ DOMAIN files' = DOMAIN files
      /\ \A r \in DOMAIN files : r # "product_output" => files'[r] = files[r]
  BY <1>1, <1>2 DEF With
<1>4. ReceiptTypeOK'
  BY <1>2, <1>3 DEF ReceiptTypeOK, ProductWritesOn
<1>5. DeploymentHolds'
  BY <1>2, <1>3 DEF DeploymentHolds, Plan, Stimuli, Has
<1>6. TruthIsLate'
  BY <1>2, <1>3 DEF TruthIsLate, Observations, TruthFile, Evaluation
<1>7. StagedHolds'
  BY <1>2, <1>3 DEF StagedHolds
<1>8. Plan' = Plan /\ Stimuli' = Stimuli
  BY <1>2 DEF Plan, Stimuli
<1>9. BundleHolds'
  BY <1>2, <1>3, <1>8 DEF BundleHolds, Evaluates, Observations, TruthFile, Evaluation
<1>10. EvaluationHolds'
  BY <1>2, <1>3, <1>8 DEF EvaluationHolds, Evaluates, Observations, TruthFile, Evaluation
<1>11. SealHolds'
  BY <1>2, <1>3 DEF SealHolds, Has
<1>12. QED
  BY <1>4, <1>5, <1>6, <1>7, <1>9, <1>10, <1>11

-----------------------------------------------------------------------------
\* Whatever is run, however often the process stops and is started again, and whoever
\* writes on, the files of a directory agree with the arguments of the call that fills
\* it, and with what the truth was loaded over (agent_authority.py:238-400).
THEOREM ReceiptInvariance == ReceiptSpec => []ReceiptInv
<1>1. ReceiptInit => ReceiptInv
  <2>1. SUFFICES ASSUME ReceiptInit PROVE ReceiptInv
    OBVIOUS
  <2>2. files = <<>> /\ torn = {} /\ pc = "idle" /\ truth_loads = 0 /\ quiet = TRUE /\ outcome = "new"
    BY <2>1 DEF ReceiptInit
  <2>3. DOMAIN files = {}
    BY <2>2
  <2>4. QED
    BY <2>2, <2>3 DEF ReceiptInv, ReceiptTypeOK, DeploymentHolds, TruthIsLate, StagedHolds, BundleHolds,
       EvaluationHolds, SealHolds, Evaluates, Has, Finalising, Observations, TruthFile, Evaluation
<1>2. ReceiptInv /\ [ReceiptNext]_receiptVars => ReceiptInv'
  <2>1. SUFFICES ASSUME ReceiptInv, [ReceiptNext]_receiptVars PROVE ReceiptInv'
    OBVIOUS
  <2>2. CASE UNCHANGED receiptVars
    <3>1. UNCHANGED <<study, files, torn, pc, call, outcome, truth_loads, scored, quiet>>
          /\ Plan' = Plan /\ Stimuli' = Stimuli
      BY <2>2 DEF receiptVars, Plan, Stimuli
    <3>2. ReceiptTypeOK' /\ TruthIsLate' /\ StagedHolds'
      BY <2>1, <3>1 DEF ReceiptInv, ReceiptTypeOK, TruthIsLate, StagedHolds
    <3>3. DeploymentHolds' /\ BundleHolds' /\ EvaluationHolds'
      BY <2>1, <3>1 DEF ReceiptInv, DeploymentHolds, BundleHolds, EvaluationHolds, Evaluates, Has
    <3>4. IsReceipt(call.reader)' = IsReceipt(call.reader)
      BY <3>1 DEF IsReceipt, EvaluationReplays, Has
    <3>5. SealHolds'
      BY <2>1, <3>1, <3>4 DEF ReceiptInv, SealHolds, Has
    <3>6. QED
      BY <3>2, <3>3, <3>5 DEF ReceiptInv
  <2>3. ASSUME NEW systems, Preflight(systems) PROVE ReceiptInv'
    BY <2>1, <2>3, PreflightKeepsInv
  <2>4. ASSUME NEW systems, NEW reader, Finalize(systems, reader) PROVE ReceiptInv'
    BY <2>1, <2>4, FinalizeKeepsInv DEF Finalize
  <2>5. ASSUME NEW systems, FinalizeFailed(systems) PROVE ReceiptInv'
    BY <2>1, <2>5, FinalizeKeepsInv DEF FinalizeFailed
  <2>6. CASE StagePlan \/ StageSource \/ StageInput \/ RunProduct
    BY <2>1, <2>6, StageKeepsInv
  <2>7. CASE StageExecution
    BY <2>1, <2>7, StageExecutionKeepsInv
  <2>8. CASE Normalise
    BY <2>1, <2>8, NormaliseKeepsInv
  <2>9. CASE WriteObservations
    BY <2>1, <2>9, WriteObservationsKeepsInv
  <2>10. ASSUME NEW truth, LoadTruth(truth) PROVE ReceiptInv'
    BY <2>1, <2>10, LoadTruthKeepsInv
  <2>11. CASE WriteTruth
    BY <2>1, <2>11, WriteTruthKeepsInv
  <2>12. CASE Evaluate
    BY <2>1, <2>12, EvaluateKeepsInv
  <2>13. CASE Seal
    BY <2>1, <2>13, SealKeepsInv
  <2>14. CASE ValidateReceipt
    BY <2>1, <2>14, ValidateReceiptKeepsInv
  <2>15. CASE Stop
    BY <2>1, <2>15, StopKeepsInv
  <2>16. CASE ProductWritesOn
    BY <2>1, <2>16, ProductKeepsInv
  <2>17. QED
    BY <2>1, <2>2, <2>3, <2>4, <2>5, <2>6, <2>7, <2>8, <2>9, <2>10, <2>11, <2>12, <2>13, <2>14, <2>15, <2>16
       DEF ReceiptNext
<1>3. QED
  BY <1>1, <1>2, PTL DEF ReceiptSpec

\* What validates as a receipt, now or later and with any normaliser, had its
\* observations written before the truth was loaded, once over all calls, and as they
\* are; what is sealed of a product that keeps to its output validates
\* (agent_authority.py:288-292, 354-366).
THEOREM ReceiptsAreFixed == ReceiptSpec => []ReceiptsAreFixedBeforeTheTruth
<1>1. ReceiptInv => ReceiptsAreFixedBeforeTheTruth
  <2>1. SUFFICES ASSUME ReceiptInv PROVE ReceiptsAreFixedBeforeTheTruth
    OBVIOUS
  <2>2. ASSUME IsReceipt(Nothing)
        PROVE  IF files["manifest"].failed THEN truth_loads = 0
               ELSE truth_loads = 1 /\ scored = files["agent_authority_observations"]
    <3>1. DOMAIN files = (IF files["manifest"].failed THEN StagedRoles ELSE EvaluatedRoles) \cup {"manifest"}
      BY <2>2 DEF IsReceipt
    <3>2. CASE files["manifest"].failed
      BY <2>1, <3>1, <3>2 DEF ReceiptInv, ReceiptTypeOK, TruthIsLate, StagedRoles, Observations
    <3>3. CASE ~files["manifest"].failed
      BY <2>1, <3>1, <3>3 DEF ReceiptInv, TruthIsLate, EvaluatedRoles, Observations, TruthFile
    <3>4. QED
      BY <3>2, <3>3
  <2>3. QED
    BY <2>1, <2>2 DEF ReceiptsAreFixedBeforeTheTruth, ReceiptInv, SealHolds
<1>2. QED
  BY <1>1, ReceiptInvariance, PTL

-----------------------------------------------------------------------------
(* The report that is on file. *)

\* What is read is of the models' shapes, until it is written.
ReadingHolds ==
  /\ study \in Studies
  /\ Has("product_output") => files["product_output"] \in Study[study].outputs \ {Nothing}
  /\ pc = "normalise" => call.reader \in Study[study].readers
  /\ Evaluates({Observations, "load truth", TruthFile, Evaluation}) => BundleIsFinite(call.bundle)

\* The report is that of the observations and the truth beside it.
ReportHolds ==
  Has(Evaluation) =>
    /\ {Observations, TruthFile} \subseteq DOMAIN files
    /\ \E systems : Scorable(Plan, Stimuli, files[Observations], systems)
    /\ files[Evaluation] = Report(Plan, Stimuli, files[Observations], files[TruthFile])

RateInv == ReceiptInv /\ ReadingHolds /\ ReportHolds

\* A file the step puts in the directory, whole or torn.
Puts(content) ==
  /\ pc \in Writing /\ (pc \in DOMAIN files => pc \in {"product_output", "execution"})
  /\ files' = With(pc, content)
  /\ \/ torn' = torn \cup {pc} /\ pc \notin DOMAIN files
     \/ /\ torn' = torn
        /\ pc = "product_output" => content \in Study[study].outputs \ {Nothing}
        /\ pc = Evaluation => content = Report(Plan, Stimuli, call.bundle, call.truth)

LEMMA CreatesPuts ==
  ASSUME NEW role \in Writing, role # "product_output", NEW content, NEW next, Creates(role, content, next),
         torn' = torn, role = Evaluation => content = Report(Plan, Stimuli, call.bundle, call.truth)
  PROVE  files' = files \/ Puts(content)
<1>1. pc = role
  BY DEF Creates
<1>2. QED
  BY <1>1, CreatesIs DEF Puts

\* Files are put down one by one, and only the product changes one.
LEMMA FilesGrow ==
  ASSUME ReceiptNext
  PROVE  /\ study' = study
         /\ \/ UNCHANGED <<files, torn>>
            \/ \E content : Puts(content)
            \/ ProductWritesOn
<1>1. CASE \E systems \in Study[study].systems :
              \/ Preflight(systems)
              \/ \E reader \in Study[study].readers : Finalize(systems, reader)
              \/ FinalizeFailed(systems)
  BY <1>1 DEF Preflight, Finalize, FinalizeFailed, Finalizes, Rest
<1>2. CASE Normalise \/ ValidateReceipt \/ \E truth \in Study[study].truths : LoadTruth(truth)
  BY <1>2 DEF Normalise, ValidateReceipt, LoadTruth, Rest
<1>3. CASE StagePlan
  <2>1. study' = study /\ torn' = torn /\ Creates("agent_authority_run_plan", "as planned", "source_public")
    BY <1>3 DEF StagePlan, Rest
  <2>2. QED
    BY <2>1, CreatesPuts DEF Writing, EvaluatedRoles, StagedRoles, Evaluation
<1>4. CASE StageSource
  <2>1. study' = study /\ torn' = torn /\ Creates("source_public", "as planned", "product_input")
    BY <1>4 DEF StageSource, Rest
  <2>2. QED
    BY <2>1, CreatesPuts DEF Writing, EvaluatedRoles, StagedRoles, Evaluation
<1>5. CASE StageInput
  <2>1. study' = study /\ torn' = torn /\ Creates("product_input", "as planned", "product_output")
    BY <1>5 DEF StageInput, Rest
  <2>2. QED
    BY <2>1, CreatesPuts DEF Writing, EvaluatedRoles, StagedRoles, Evaluation
<1>6. CASE RunProduct
  <2>1. study' = study /\ torn' = torn /\ pc = "product_output"
    BY <1>6 DEF RunProduct, Rest
  <2>2. PICK output \in Study[study].outputs :
          files' = files \/ (output # Nothing /\ files' = With("product_output", output))
    BY <1>6 DEF RunProduct
  <2>3. files' = files \/ Puts(output)
    BY <2>1, <2>2 DEF Puts, Writing, EvaluatedRoles, StagedRoles, Evaluation
  <2>4. QED
    BY <2>1, <2>3
<1>7. CASE StageExecution
  <2>1. study' = study /\ torn' = torn /\ pc = "execution"
    BY <1>7 DEF StageExecution, Rest
  <2>2. PICK content : files' = With("execution", content)
    BY <1>7 DEF StageExecution
  <2>3. Puts(content)
    BY <2>1, <2>2 DEF Puts, Writing, EvaluatedRoles, StagedRoles, Evaluation
  <2>4. QED
    BY <2>1, <2>3
<1>8. CASE WriteObservations
  <2>1. study' = study /\ torn' = torn /\ Creates("agent_authority_observations", call.bundle, "load truth")
    BY <1>8 DEF WriteObservations, Rest
  <2>2. QED
    BY <2>1, CreatesPuts DEF Writing, EvaluatedRoles, StagedRoles, Evaluation
<1>9. CASE WriteTruth
  <2>1. study' = study /\ torn' = torn /\ Creates("agent_authority_truth", call.truth, "agent_authority_evaluation")
    BY <1>9 DEF WriteTruth, Rest
  <2>2. QED
    BY <2>1, CreatesPuts DEF Writing, EvaluatedRoles, StagedRoles, Evaluation
<1>10. CASE Evaluate
  <2>1. study' = study /\ torn' = torn
        /\ Creates(Evaluation, Report(Plan, Stimuli, call.bundle, call.truth), "manifest")
    BY <1>10 DEF Evaluate, Rest, Evaluation
  <2>2. Evaluation \in Writing /\ Evaluation # "product_output"
    BY DEF Writing, EvaluatedRoles, Evaluation
  <2>3. QED
    BY <2>1, <2>2, CreatesPuts
<1>11. CASE Seal
  <2>1. study' = study /\ torn' = torn
    BY <1>11 DEF Seal, Rest
  <2>2. files' = files \/ \E content : Creates("manifest", content, "validate")
    BY <1>11 DEF Seal
  <2>3. QED
    BY <2>1, <2>2, CreatesPuts DEF Writing, EvaluatedRoles, StagedRoles, Evaluation
<1>12. CASE Stop
  <2>1. study' = study /\ (UNCHANGED <<files, torn>> \/ Puts(Nothing))
    BY <1>12 DEF Stop, Puts
  <2>2. QED
    BY <2>1
<1>13. CASE ProductWritesOn
  BY <1>13 DEF ProductWritesOn
<1>14. QED
  BY <1>1, <1>2, <1>3, <1>4, <1>5, <1>6, <1>7, <1>8, <1>9, <1>10, <1>11, <1>12, <1>13 DEF ReceiptNext

\* The bundle of a call is what it has read, from the moment it is normalised.
LEMMA CallGoesOn ==
  ASSUME ReceiptInv, ReceiptNext
  PROVE  /\ pc' = "normalise" => UNCHANGED <<pc, call>> \/ call'.reader \in Study[study].readers
         /\ Evaluates({Observations, "load truth", TruthFile, Evaluation})' =>
              \/ /\ Evaluates({Observations, "load truth", TruthFile, Evaluation})
                 /\ call'.bundle = call.bundle
              \/ /\ pc = "normalise"
                 /\ call'.bundle = Read(call.reader, files["product_output"])
                 /\ Read(call.reader, files["product_output"]) # Nothing
<1> USE DEF Evaluates, Observations, TruthFile, Evaluation
<1>0. pc # "idle" => call = [systems |-> call.systems, reader |-> call.reader, failed |-> call.failed,
                             bundle |-> call.bundle, truth |-> call.truth]
  BY DEF ReceiptInv, ReceiptTypeOK
<1>1. CASE \E systems \in Study[study].systems :
              \/ Preflight(systems)
              \/ \E reader \in Study[study].readers : Finalize(systems, reader)
              \/ FinalizeFailed(systems)
  <2>1. ASSUME NEW systems, NEW reader, NEW failed, NEW next, Begins(systems, reader, failed, next)
        PROVE  pc' = next /\ call'.reader = reader /\ call'.failed = failed
    BY <2>1 DEF Begins
  <2>2. ASSUME NEW systems, Preflight(systems)
        PROVE  pc' \in {"idle", "agent_authority_run_plan"}
    BY <2>1, <2>2 DEF Preflight, Ends
  <2>3. ASSUME NEW systems, NEW reader \in Study[study].readers, Finalize(systems, reader)
        PROVE  pc' = "idle" \/ (pc' = "normalise" /\ call'.reader \in Study[study].readers)
    BY <2>1, <2>3 DEF Finalize, Finalizes, Ends
  <2>4. ASSUME NEW systems, FinalizeFailed(systems)
        PROVE  pc' = "idle" \/ (pc' = "manifest" /\ call'.failed = TRUE)
    BY <2>1, <2>4 DEF FinalizeFailed, Finalizes, Ends
  <2>5. QED
    BY <1>1, <2>2, <2>3, <2>4
<1>2. CASE StagePlan \/ StageSource \/ StageInput
  BY <1>2 DEF StagePlan, StageSource, StageInput, Creates, Ends
<1>3. CASE RunProduct \/ StageExecution \/ Stop \/ ValidateReceipt
  <2>1. pc' \in {"idle", "execution"}
    BY <1>3 DEF RunProduct, StageExecution, Stop, ValidateReceipt, Ends
  <2>2. QED
    BY <2>1
<1>4. CASE Normalise
  <2>1. \/ pc' = "idle"
        \/ /\ pc' = "agent_authority_observations" /\ pc = "normalise"
           /\ Read(call.reader, files["product_output"]) # Nothing
           /\ call' = [call EXCEPT !.bundle = Read(call.reader, files["product_output"])]
    BY <1>4 DEF Normalise, Ends
  <2>2. QED
    BY <1>0, <2>1
<1>5. CASE \E truth \in Study[study].truths : LoadTruth(truth)
  <2>1. PICK truth : LoadTruth(truth)
    BY <1>5
  <2>2. \/ pc' = "idle"
        \/ pc' = "agent_authority_truth" /\ pc = "load truth" /\ call' = [call EXCEPT !.truth = truth]
    BY <2>1 DEF LoadTruth, Ends
  <2>3. QED
    BY <1>0, <2>2
<1>6. CASE WriteObservations \/ WriteTruth \/ Evaluate
  BY <1>6 DEF WriteObservations, WriteTruth, Evaluate, Creates, Ends
<1>7. CASE Seal
  <2>1. pc' \in {"idle", "validate"}
    BY <1>7 DEF Seal, Creates, Ends
  <2>2. QED
    BY <2>1
<1>8. CASE ProductWritesOn
  BY <1>8 DEF ProductWritesOn
<1>9. QED
  BY <1>1, <1>2, <1>3, <1>4, <1>5, <1>6, <1>7, <1>8 DEF ReceiptNext

LEMMA ReadingGoesOn ==
  ASSUME StudiesAreSound, RateInv, ReceiptNext
  PROVE  ReadingHolds'
<1> USE DEF RateInv
<1>1. study' = study /\ study \in Studies
  BY FilesGrow DEF ReadingHolds
<1>2. ASSUME Has("product_output")'
      PROVE  files'["product_output"] \in Study[study].outputs \ {Nothing}
  <2>1. CASE UNCHANGED <<files, torn>>
    BY <1>2, <2>1 DEF ReadingHolds, Has
  <2>2. ASSUME NEW content, Puts(content) PROVE files'["product_output"] \in Study[study].outputs \ {Nothing}
    <3>1. /\ DOMAIN files' = DOMAIN files \cup {pc} /\ files'[pc] = content
          /\ \A r \in DOMAIN files : r # pc => files'[r] = files[r]
      BY <2>2 DEF Puts, With
    <3>2. CASE pc = "product_output"
      BY <1>2, <2>2, <3>1, <3>2 DEF Puts, Has
    <3>3. CASE pc # "product_output"
      BY <1>2, <2>2, <3>1, <3>3 DEF Puts, Has, ReadingHolds
    <3>4. QED
      BY <3>2, <3>3
  <2>3. CASE ProductWritesOn
    <3>1. PICK output \in Study[study].outputs \ {Nothing} : files' = With("product_output", output)
      BY <2>3 DEF ProductWritesOn
    <3>2. QED
      BY <3>1 DEF With
  <2>4. QED
    BY <2>1, <2>2, <2>3, FilesGrow
<1>3. pc' = "normalise" => call'.reader \in Study[study].readers
  BY CallGoesOn DEF ReadingHolds
<1>4. ASSUME Evaluates({Observations, "load truth", TruthFile, Evaluation})'
      PROVE  BundleIsFinite(call'.bundle)
  <2>1. CASE /\ Evaluates({Observations, "load truth", TruthFile, Evaluation})
             /\ call'.bundle = call.bundle
    BY <2>1 DEF ReadingHolds
  <2>2. CASE /\ pc = "normalise"
             /\ call'.bundle = Read(call.reader, files["product_output"])
             /\ Read(call.reader, files["product_output"]) # Nothing
    <3>1. Has("product_output")
      BY <2>2 DEF ReceiptInv, StagedHolds, Finalising, Has, StagedRoles
    <3>2. call.reader \in Study[study].readers /\ files["product_output"] \in Study[study].outputs \ {Nothing}
      BY <2>2, <3>1 DEF ReadingHolds
    <3>3. QED
      BY <1>1, <2>2, <3>2 DEF StudiesAreSound
  <2>3. QED
    BY <1>4, <2>1, <2>2, CallGoesOn
<1>5. QED
  BY <1>1, <1>2, <1>3, <1>4 DEF ReadingHolds

LEMMA ReportGoesOn ==
  ASSUME StudiesAreSound, RateInv, ReceiptNext
  PROVE  ReportHolds'
<1> USE DEF RateInv
<1>1. /\ study' = study /\ study \in Studies
      /\ Plan' = Plan /\ Stimuli' = Stimuli
  BY FilesGrow DEF ReadingHolds, Plan, Stimuli
<1>2. SUFFICES ASSUME Has(Evaluation)'
      PROVE  /\ {Observations, TruthFile} \subseteq DOMAIN files'
             /\ \E systems : Scorable(Plan, Stimuli, files'[Observations], systems)
             /\ files'[Evaluation] = Report(Plan, Stimuli, files'[Observations], files'[TruthFile])
  BY <1>1 DEF ReportHolds
<1>3. ASSUME Has(Evaluation), {Observations, TruthFile, Evaluation} \cap DOMAIN files \subseteq DOMAIN files',
             \A r \in {Observations, TruthFile, Evaluation} \cap DOMAIN files : files'[r] = files[r]
      PROVE  /\ {Observations, TruthFile} \subseteq DOMAIN files'
             /\ \E systems : Scorable(Plan, Stimuli, files'[Observations], systems)
             /\ files'[Evaluation] = Report(Plan, Stimuli, files'[Observations], files'[TruthFile])
  <2>1. {Observations, TruthFile, Evaluation} \subseteq DOMAIN files
    BY <1>3 DEF ReportHolds, Has
  <2>2. /\ files'[Observations] = files[Observations] /\ files'[TruthFile] = files[TruthFile]
        /\ files'[Evaluation] = files[Evaluation]
    BY <1>3, <2>1
  <2>3. QED
    BY <1>3, <2>1, <2>2 DEF ReportHolds
<1>4. CASE UNCHANGED <<files, torn>>
  BY <1>2, <1>3, <1>4 DEF Has
<1>5. CASE ProductWritesOn
  <2>1. PICK output : files' = With("product_output", output)
    BY <1>5 DEF ProductWritesOn
  <2>2. /\ "product_output" \in DOMAIN files /\ torn' = torn \ {"product_output"}
        /\ DOMAIN files' = DOMAIN files \cup {"product_output"}
        /\ \A r \in DOMAIN files : r # "product_output" => files'[r] = files[r]
    BY <1>5, <2>1 DEF ProductWritesOn, With
  <2>3. Has(Evaluation)
    BY <1>2, <2>2 DEF Has, Evaluation
  <2>4. QED
    BY <1>3, <2>2, <2>3 DEF Observations, TruthFile, Evaluation
<1>6. ASSUME NEW content, Puts(content)
      PROVE  /\ {Observations, TruthFile} \subseteq DOMAIN files'
             /\ \E systems : Scorable(Plan, Stimuli, files'[Observations], systems)
             /\ files'[Evaluation] = Report(Plan, Stimuli, files'[Observations], files'[TruthFile])
  <2>1. /\ DOMAIN files' = DOMAIN files \cup {pc} /\ files'[pc] = content
        /\ \A r \in DOMAIN files : r # pc => files'[r] = files[r]
    BY <1>6 DEF Puts, With
  <2>2. \A r \in {Observations, TruthFile, Evaluation} \cap DOMAIN files : r # pc
    BY <1>6 DEF Puts, Observations, TruthFile, Evaluation
  <2>3. CASE pc # Evaluation
    <3>1. Has(Evaluation)
      BY <1>2, <1>6, <2>1, <2>3 DEF Has, Puts
    <3>2. QED
      BY <1>3, <2>1, <2>2, <3>1
  <2>4. CASE pc = Evaluation
    <3>1. content = Report(Plan, Stimuli, call.bundle, call.truth)
      BY <1>2, <1>6, <2>4 DEF Puts, Has
    <3>2. /\ Evaluates({Evaluation}) /\ Evaluates({TruthFile, Evaluation})
          /\ Evaluates({"load truth", TruthFile, Evaluation})
          /\ Evaluates({Observations, "load truth", TruthFile, Evaluation})
      BY <2>4 DEF Evaluates
    <3>3. /\ Observations \in DOMAIN files /\ files[Observations] = call.bundle
          /\ TruthFile \in DOMAIN files /\ files[TruthFile] = call.truth
          /\ ReferencesAreSound(Plan, Stimuli, call.bundle, call.systems)
          /\ BundleIsFinite(call.bundle)
      BY <3>2 DEF ReceiptInv, BundleHolds, EvaluationHolds, ReadingHolds
    <3>4. PlanIsSound(Plan, Stimuli, call.systems)
      BY <2>4 DEF ReceiptInv, DeploymentHolds, Evaluation
    <3>5. IsFiniteSet(Stimuli) /\ \A id \in Stimuli : StimulusIsSound(StimulusOf[id])
      BY <1>1 DEF StudiesAreSound, Stimuli
    <3>6. Scorable(Plan, Stimuli, call.bundle, call.systems)
      BY <3>3, <3>4, <3>5 DEF Scorable
    <3>7. files'[Observations] = call.bundle /\ files'[TruthFile] = call.truth /\ files'[Evaluation] = content
      BY <2>1, <2>2, <2>4, <3>3
    <3>8. QED
      BY <2>1, <3>1, <3>3, <3>6, <3>7
  <2>5. QED
    BY <2>3, <2>4
<1>7. QED
  BY <1>4, <1>5, <1>6, FilesGrow

\* Whatever a directory holds of a run, torn or replaced in part, the report in it that
\* could be read has rates that follow its findings (scoring.py:95-117, 465-520).
THEOREM RatesFollow ==
  ASSUME StudiesAreSound
  PROVE  ReceiptSpec => []RatesFollowFindings
<1>1. ReceiptInit => ReadingHolds /\ ReportHolds
  <2>1. SUFFICES ASSUME ReceiptInit PROVE ReadingHolds /\ ReportHolds
    OBVIOUS
  <2>2. study \in Studies /\ files = <<>> /\ pc = "idle"
    BY <2>1 DEF ReceiptInit
  <2>3. DOMAIN files = {}
    BY <2>2
  <2>4. QED
    BY <2>2, <2>3 DEF ReadingHolds, ReportHolds, Has, Evaluates, Observations, TruthFile, Evaluation
<1>2. ReceiptInv /\ (ReadingHolds /\ ReportHolds) /\ [ReceiptNext]_receiptVars => (ReadingHolds /\ ReportHolds)'
  <2>1. SUFFICES ASSUME ReceiptInv, ReadingHolds, ReportHolds, [ReceiptNext]_receiptVars
        PROVE  (ReadingHolds /\ ReportHolds)'
    OBVIOUS
  <2>2. CASE UNCHANGED receiptVars
    <3>1. UNCHANGED <<study, files, torn, pc, call>> /\ Plan' = Plan /\ Stimuli' = Stimuli
      BY <2>2 DEF receiptVars, Plan, Stimuli
    <3>2. QED
      BY <2>1, <3>1 DEF ReadingHolds, ReportHolds, Has, Evaluates
  <2>3. CASE ReceiptNext
    BY <2>1, <2>3, ReadingGoesOn, ReportGoesOn DEF RateInv
  <2>4. QED
    BY <2>1, <2>2, <2>3
<1>3. ReportHolds => RatesFollowFindings
  <2>1. SUFFICES ASSUME ReportHolds, Has(Evaluation)
        PROVE  RatesFollowFindingsIn(Stimuli, files[Observations], files[Evaluation])
    BY DEF RatesFollowFindings, Observations, Evaluation
  <2>2. PICK systems : Scorable(Plan, Stimuli, files[Observations], systems)
    BY <2>1 DEF ReportHolds
  <2>3. QED
    BY <2>1, <2>2, ReportFollowsFindings DEF ReportHolds
<1>4. QED
  BY <1>1, <1>2, <1>3, ReceiptInvariance, PTL DEF ReceiptSpec
===============================================================================
