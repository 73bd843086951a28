----------------------- MODULE EnterpriseAuthorization -----------------------
(***************************************************************************)
(* Attribute rules and relation rules over the cells of DirectoryRbac, and *)
(* their composition to one access decision per cell                       *)
(* (src/synthworld/enterprise/{abac,rebac,authorization}).  Each mechanism *)
(* is compiled for two layers, the actual state and the intent.  The       *)
(* preflight limits on numbers of facts, rules and records are left out.   *)
(***************************************************************************)
EXTENDS DirectoryRbac

CONSTANTS
  Targets, Units, Humans,
  TargetOf,       \* the target of each permission
  AttributeRank,  \* the order of the attribute values that have one
  ValuesOf,       \* the values an attribute can have
  MaxExpansions, MaxPathsPerCell, MaxRebacPaths,
  Pending, Failed

Layers == {"actual", "intended"}
Profiles == {"rbac", "abac", "rebac", "rbac_with_abac_guard", "rebac_with_abac_guard"}

ASSUME PolicyAssumption ==
  \A family \in Inputs : \A i \in family : \A c \in Cells : i.policy.profile[c] \in Profiles

VARIABLES
  abac,     \* layer -> cell -> [outcome, conflict], or Pending, or Failed
  rebac,    \* the same for the relation rules
  access    \* the compiled access state of each cell, or Pending, or Failed

authVars == <<abac, rebac, access>>
accessVars == <<rbacVars, authVars>>

(* abac and rebac: layer -> rules and what they look at; the profile of    *)
(* each cell; the mechanisms whose truth is supplied to the composition.   *)
policy == input.policy

InForce(records, tick) == {r \in records : Active(tick, r.from, r.until)}
RulesFor(rules, c) == {r \in InForce(rules, c.tick) : c \in r.cells}
Overlap(records) == \E r, s \in records : r # s /\ r.id = s.id

(***************************************************************************)
(* Rules give allow, deny, not_applicable or unknown; a denying rule wins, *)
(* and an allowing one beats those that are not known.                     *)
(***************************************************************************)
Combined(outcomes) ==
  [outcome  |-> CASE "deny" \in outcomes -> "deny"
                  [] "deny" \notin outcomes /\ "allow" \in outcomes -> "allow"
                  [] outcomes \cap {"deny", "allow"} = {} /\ "unknown" \in outcomes -> "unknown"
                  [] OTHER -> "not_applicable",
   conflict |-> {"allow", "deny"} \subseteq outcomes]

(***************************************************************************)
(* Attributes.  A fact is a revision of the value of a key for a cell.     *)
(***************************************************************************)
FactsFor(facts, c) == {f \in InForce(facts, c.tick) : f.cell = c}

Readings(test) == IF test.on \in {"equal", "within"} THEN {test.left, test.right} ELSE {test.left}

Compares(test, value) ==
  CASE test.on = "one_of" -> value[test.left] \in test.values
    [] test.on = "at_least" -> AttributeRank[value[test.left]] >= AttributeRank[test.minimum]
    [] test.on = "equal" -> value[test.left] = value[test.right]
    [] test.on = "within" -> AttributeRank[value[test.left]] <= AttributeRank[value[test.right]]

\* Mutant: a key without a fact makes the predicate false.
PredicateOfMissing(test, facts) ==
  LET known == {f \in facts : f.id \in Readings(test) /\ f.value # None}
  IN IF {f.id : f \in facts} \cap Readings(test) # Readings(test) THEN "false"
     ELSE IF {f.id : f \in known} # Readings(test) THEN "unknown"
     ELSE IF Compares(test, [k \in Readings(test) |-> (CHOOSE f \in known : f.id = k).value]) THEN "true"
     ELSE "false"

(* A key without a fact and a fact without a value are both unknown. *)
Predicate(test, facts) ==
  LET known == {f \in facts : f.id \in Readings(test) /\ f.value # None}
  IN IF {f.id : f \in known} # Readings(test) THEN "unknown"
     ELSE IF Compares(test, [k \in Readings(test) |-> (CHOOSE f \in known : f.id = k).value]) THEN "true"
     ELSE "false"

Decisive(rule) == IF rule.all THEN "false" ELSE "true"

PredicateOutcome(rule, facts) ==
  LET results == {Predicate(t, facts) : t \in rule.tests}
  IN CASE Decisive(rule) \in results -> Decisive(rule)
       [] Decisive(rule) \notin results /\ "unknown" \in results -> "unknown"
       [] OTHER -> IF rule.all THEN "true" ELSE "false"

RuleOutcome(rule, facts) ==
  CASE PredicateOutcome(rule, facts) = "unknown" -> "unknown"
    [] PredicateOutcome(rule, facts) = "false" -> "not_applicable"
    [] PredicateOutcome(rule, facts) = "true" -> rule.effect

RuleOutcomes(rules, facts) == {RuleOutcome(r, facts) : r \in rules}

AbacOutcome(layer, c) == Combined(RuleOutcomes(RulesFor(layer.rules, c), FactsFor(layer.facts, c)))

AbacFails ==
  \E l \in Layers, c \in Cells : \/ Overlap(FactsFor(policy.abac[l].facts, c))
                                 \/ Overlap(RulesFor(policy.abac[l].rules, c))

CompileAbac ==
  /\ abac = Pending
  /\ abac' = IF AbacFails THEN Failed
             ELSE [l \in Layers |-> [c \in Cells |-> AbacOutcome(policy.abac[l], c)]]
  /\ UNCHANGED <<rbacVars, rebac, access>>

(***************************************************************************)
(* Relations.  Three templates of one or two tuples, of one snapshot.      *)
(***************************************************************************)
RelationEnds ==
  [member_of       |-> Subjects \X Groups,
   owns            |-> (Principals \cup Units) \X Targets,
   manages         |-> Humans \X Humans,
   collaborates_on |-> (Subjects \cup Groups) \X Targets]

TuplesAreTyped(layer) ==
  \A t \in layer.tuples : /\ TenantOf[t.subject] = t.tenant /\ TenantOf[t.object] = t.tenant
                          /\ <<t.subject, t.object>> \in RelationEnds[t.relation]

Hops(rule) ==
  CASE rule.template = "direct" -> <<rule.relation>>
    [] rule.template = "group" -> <<"member_of", "collaborates_on">>
    [] rule.template = "manager" -> <<"manages", "owns">>

Ending(tuples, subject, relation, c) ==
  {t \in tuples : t.subject = subject /\ t.relation = relation /\ t.object = TargetOf[c.permission]}

FirstHops(rule, c, tuples) ==
  {t \in tuples : t.subject = c.subject /\ t.relation = Hops(rule)[1]}

SecondHops(rule, c, tuples, first) ==
  {t \in Ending(tuples, first.object, Hops(rule)[2], c) : t.snapshot = first.snapshot}

RulePaths(rule, c, tuples) ==
  IF rule.template = "direct" THEN {<<t>> : t \in Ending(tuples, c.subject, rule.relation, c)}
  ELSE UNION {{<<f, t>> : t \in SecondHops(rule, c, tuples, f)} : f \in FirstHops(rule, c, tuples)}

Expansions(rule, c, tuples) ==
  Cardinality(RulePaths(rule, c, tuples))
  + (IF rule.template = "direct" THEN 0 ELSE Cardinality(FirstHops(rule, c, tuples)))

RebacRuleOutcome(rule, c, tuples, unknown) ==
  CASE RulePaths(rule, c, tuples) # {} -> rule.effect
    [] RulePaths(rule, c, tuples) = {} /\ c \in unknown -> "unknown"
    [] OTHER -> "not_applicable"

RebacOutcome(layer, c) ==
  LET tuples == InForce(layer.tuples, c.tick)
  IN Combined({RebacRuleOutcome(r, c, tuples, layer.unknown) : r \in RulesFor(layer.rules, c)})

PathCount(rule, c, tuples) == Cardinality(RulePaths(rule, c, tuples))

(* One budget of each unit over both layers; the order of spending does not *)
(* matter.                                                                  *)
Spent(unit, cells) ==
  MapThenSumSet(LAMBDA x : LET tuples == InForce(policy.rebac[x[1]].tuples, x[2].tick) IN
                           MapThenSumSet(LAMBDA r : IF unit = "path" THEN PathCount(r, x[2], tuples)
                                                    ELSE Expansions(r, x[2], tuples),
                                         RulesFor(policy.rebac[x[1]].rules, x[2])),
                Layers \X cells)

RebacFails ==
  \/ \E l \in Layers :
       \/ ~TuplesAreTyped(policy.rebac[l])
       \/ \E c \in Cells : \/ Overlap(InForce(policy.rebac[l].tuples, c.tick))
                           \/ Overlap(RulesFor(policy.rebac[l].rules, c))
  \/ Spent("expansion", Cells) > MaxExpansions
  \/ Spent("path", Cells) > MaxRebacPaths
  \/ \E c \in Cells : Spent("path", {c}) > MaxPathsPerCell

CompileRebac ==
  /\ rebac = Pending
  /\ rebac' = IF RebacFails THEN Failed
              ELSE [l \in Layers |-> [c \in Cells |-> RebacOutcome(policy.rebac[l], c)]]
  /\ UNCHANGED <<rbacVars, abac, access>>

(***************************************************************************)
(* Composition.                                                            *)
(***************************************************************************)
Mechanisms(profile) ==
  CASE profile = "rbac" -> {"rbac"}
    [] profile = "abac" -> {"abac"}
    [] profile = "rebac" -> {"rebac"}
    [] profile = "rbac_with_abac_guard" -> {"rbac", "abac"}
    [] profile = "rebac_with_abac_guard" -> {"rebac", "abac"}

Guarded(profile) == Cardinality(Mechanisms(profile)) = 2

Effective(l, c) == IF l = "actual" THEN rows[c].effective ELSE rows[c].intended

(* The outcome of each mechanism of the profile for a cell. *)
Outcomes(l, c) ==
  [m \in Mechanisms(policy.profile[c]) |->
     CASE m = "rbac" -> IF Effective(l, c) THEN "allow" ELSE "deny"
       [] m = "abac" -> abac[l][c].outcome
       [] m = "rebac" -> rebac[l][c].outcome]

Normalize(profile, outcomes) ==
  LET values == {outcomes[m] : m \in DOMAIN outcomes}
  IN IF Guarded(profile) THEN values = {"allow"} ELSE "deny" \notin values /\ "allow" \in values

(* A conflict inside a supplied truth counts, used by the profile or not.  *)
Internal(l, c) ==
  {m \in policy.supplied : IF m = "abac" THEN abac[l][c].conflict ELSE rebac[l][c].conflict}

\* Mutant: the disagreement inside a mechanism is lost.
ConflictAcross(l, c) ==
  {"allow", "deny"} \subseteq {Outcomes(l, c)[m] : m \in Mechanisms(policy.profile[c])}

InConflict(l, c) ==
  \/ Internal(l, c) # {}
  \/ {"allow", "deny"} \subseteq {Outcomes(l, c)[m] : m \in Mechanisms(policy.profile[c])}

AccessOf(c) ==
  LET effective == Normalize(policy.profile[c], Outcomes("actual", c))
      intended == Normalize(policy.profile[c], Outcomes("intended", c))
  IN [effective |-> effective, intended |-> intended, final |-> effective /\ GatesPass(c),
      reconciliation |-> Reconciliation(intended, effective),
      conflict |-> [l \in Layers |-> InConflict(l, c)]]

Supplied == \A c \in Cells : Mechanisms(policy.profile[c]) \ {"rbac"} \subseteq policy.supplied

Compose ==
  /\ access = Pending /\ phase = "compiled"
  /\ abac \notin {Pending, Failed} /\ rebac \notin {Pending, Failed}
  /\ access' = IF Supplied THEN [c \in Cells |-> AccessOf(c)] ELSE Failed
  /\ UNCHANGED <<rbacVars, abac, rebac>>

AccessInit ==
  /\ Init
  /\ abac = Pending /\ rebac = Pending /\ access = Pending

CompileDirectory == Next /\ UNCHANGED authVars

AccessNext == CompileDirectory \/ CompileAbac \/ CompileRebac \/ Compose

AccessSpec == AccessInit /\ [][AccessNext]_accessVars

(***************************************************************************)
(* Properties.                                                             *)
(***************************************************************************)
Completions(rules, facts) ==
  LET known == {f \in facts : f.value # None}
      open == (UNION {UNION {Readings(t) : t \in r.tests} : r \in rules}) \ {f.id : f \in known}
  IN {known \cup {[id |-> k, value |-> value[k]] : k \in open} :
        value \in {v \in [open -> UNION {ValuesOf[k] : k \in open}] : \A k \in open : v[k] \in ValuesOf[k]}}

(* Three-valued evaluation says unknown where, and only where, it matters: *)
(* a deny or a not_applicable, and an allow with no deny rule unknown,     *)
(* stay what they are whatever the missing attributes turn out to be.  An  *)
(* allow beside an unknown deny rule is the one outcome that may flip      *)
(* (_combine_rules looks for an allow before an unknown).                  *)
KnownOutcomesAreStable ==
  abac \notin {Pending, Failed} =>
    \A l \in Layers, c \in Cells :
      LET rules == RulesFor(policy.abac[l].rules, c)
          facts == FactsFor(policy.abac[l].facts, c)
          stable == \/ abac[l][c].outcome \in {"deny", "not_applicable"}
                    \/ /\ abac[l][c].outcome = "allow"
                       /\ \A r \in rules : r.effect = "deny" => PredicateOutcome(r, facts) # "unknown"
      IN stable => \A f \in Completions(rules, facts) :
                     Combined(RuleOutcomes(rules, f)).outcome = abac[l][c].outcome

AllowFirst(outcomes) == IF "allow" \in outcomes THEN "allow" ELSE Combined(outcomes).outcome

OutcomesAllowFirst(l, c) ==
  LET tuples == InForce(policy.rebac[l].tuples, c.tick)
  IN [m \in Mechanisms(policy.profile[c]) |->
        CASE m = "rbac" -> Outcomes(l, c)[m]
          [] m = "abac" -> AllowFirst(RuleOutcomes(RulesFor(policy.abac[l].rules, c), FactsFor(policy.abac[l].facts, c)))
          [] m = "rebac" -> AllowFirst({RebacRuleOutcome(r, c, tuples, policy.rebac[l].unknown) :
                                          r \in RulesFor(policy.rebac[l].rules, c)})]

(* A cell that reports no conflict does not depend on which effect takes   *)
(* precedence: evaluated with allow before deny in every mechanism and in  *)
(* the composition, it gets the decision it has                            *)
(* (_conflict_sets, _normalize).                                           *)
SilentCellsIgnorePrecedence ==
  access \notin {Pending, Failed} =>
    \A l \in Layers, c \in Cells :
      ~access[c].conflict[l] =>
        LET first == OutcomesAllowFirst(l, c)
            values == {first[m] : m \in DOMAIN first}
            decision == IF l = "actual" THEN access[c].effective ELSE access[c].intended
        IN decision = IF Guarded(policy.profile[c]) THEN values = {"allow"} ELSE "allow" \in values

=============================================================================
