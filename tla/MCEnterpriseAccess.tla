------------------------- MODULE MCEnterpriseAccess -------------------------
(***************************************************************************)
(* One tenant with an account of ann's, and a role of another tenant.  The *)
(* kernel is the base with up to two edges added or removed, under every   *)
(* binding and session; the overlay differs in at most one edge.  The      *)
(* policies vary either in their attributes or in their relations.  Over   *)
(* two kernels more, an overlay of two agents: one attempt among the       *)
(* revocations and discards around it, or two that differ.                 *)
(***************************************************************************)
EXTENDS EnterpriseOverlay

MCPrincipals == {"ann", "bob", "bot", "rob"}
MCAccounts == {"acct"}
MCGroups == {"dev", "eng"}
MCRoles == {"owner", "writer", "reader", "far"}
MCPermissions == {"read"}
MCTenantOf ==
  [x \in MCPrincipals \cup MCAccounts \cup MCGroups \cup MCRoles \cup MCPermissions \cup {"doc"} |->
     IF x = "far" THEN "other" ELSE "acme"]
MCAttribute == [ann |-> "employee", bob |-> "service", bot |-> "agent", rob |-> "agent", acct |-> "interactive"]
MCCanonical == [acct |-> "ann"]

Cell(subject, tick, slot) == [subject |-> subject, permission |-> "read", tick |-> tick, slot |-> slot]
MCCells == {Cell("acct", 0, None), Cell("acct", 1, None), Cell("acct", 1, "s"), Cell("ann", 1, None),
            Cell("bot", 1, None)}
MCSlots ==
  [s |-> [subject |-> "acct", at |-> 0, until |-> 3, requested |-> {"writer"}],
   t |-> [subject |-> "ann", at |-> 0, until |-> None, requested |-> {"owner", "reader"}]]
MCStaticSod == {[tenant |-> "acme", subjects |-> {}, roles |-> {"owner", "reader"}, cardinality |-> 2]}
MCDynamicSod == {[tenant |-> "acme", subjects |-> {"acct"}, roles |-> {"owner", "reader"}, cardinality |-> 2]}
MCBirthrights ==
  {[all |-> TRUE, atoms |-> {<<"ann", "read">>},
    tests |-> {[on |-> "principal", values |-> {"employee"}], [on |-> "tenant", values |-> {"acme"}]}],
   [all |-> FALSE, atoms |-> {<<"acct", "read">>},
    tests |-> {[on |-> "account", values |-> {"batch"}], [on |-> "principal", values |-> {"service"}]}]}

Edge(kind, left, right) == [kind |-> kind, left |-> left, right |-> right]
BaseEdges ==
  {Edge("member", "ann", "dev"), Edge("nest", "dev", "eng"), Edge("groupRole", "eng", "writer"),
   Edge("hierarchy", "owner", "writer"), Edge("hierarchy", "writer", "reader"), Edge("grant", "reader", "read")}
Candidates ==
  BaseEdges \cup
  {Edge("member", "acct", "eng"), Edge("nest", "eng", "dev"), Edge("subjectRole", "acct", "owner"),
   Edge("subjectRole", "bob", "reader"), Edge("hierarchy", "reader", "owner"),
   Edge("hierarchy", "owner", "reader"), Edge("grant", "owner", "read"), Edge("subjectRole", "ann", "far")}
Changed(n) == {SymDiff(BaseEdges, d) : d \in UNION {kSubset(k, Candidates) : k \in 0..n}}

Bound(principal, active, until) == [acct |-> [principal |-> principal, active |-> active, from |-> 0, until |-> until]]
Bindings ==
  {[acct |-> None], Bound("ann", TRUE, None), Bound("bob", TRUE, None), Bound("ann", FALSE, None),
   Bound("ann", TRUE, 1), Bound(None, TRUE, None)}
Direct == [subject |-> "acct", permission |-> "read", from |-> 1, until |-> 2]
(* Attributes. *)
Fact(id, value, from, until) == [id |-> id, value |-> value, from |-> from, until |-> until, cell |-> Cell("acct", 1, "s")]
Facts == {Fact("zone", "corp", 0, None), Fact("zone", None, 0, 1), Fact("zone", "home", 1, 2),
          Fact("clearance", "low", 0, None), Fact("class", "high", 1, None)}
Test(on, left, values) == [on |-> on, left |-> left, values |-> values]
Within == [on |-> "within", left |-> "class", right |-> "clearance"]
Rule(id, effect, all, tests, from) ==
  [id |-> id, effect |-> effect, all |-> all, tests |-> tests, from |-> from, until |-> None, cells |-> MCCells]
AbacRules ==
  {Rule("a", "allow", TRUE, {Test("one_of", "zone", {"corp"}), Within}, 0),
   Rule("a", "allow", FALSE, {Test("one_of", "zone", {"corp", "home"}), Within}, 1),
   Rule("d", "deny", FALSE, {Test("one_of", "zone", {"home"}),
                             [on |-> "at_least", left |-> "clearance", minimum |-> "high"]}, 0),
   Rule("e", "deny", TRUE, {[on |-> "equal", left |-> "class", right |-> "clearance"]}, 0)}
MCAttributeRank == [low |-> 1, high |-> 2]
MCValuesOf == [zone |-> {"corp", "home"}, clearance |-> {"low", "high"}, class |-> {"low", "high"}]

(* Relations. *)
Tuple(id, subject, relation, object, snapshot) ==
  [id |-> id, tenant |-> "acme", subject |-> subject, relation |-> relation, object |-> object,
   snapshot |-> snapshot, from |-> 0, until |-> None]
Tuples ==
  {Tuple("t1", "acct", "member_of", "dev", 1), Tuple("t2", "dev", "collaborates_on", "doc", 1),
   [Tuple("t2", "dev", "collaborates_on", "doc", 2) EXCEPT !.until = 1],
   Tuple("t3", "ann", "manages", "bob", 1), Tuple("t4", "bob", "owns", "doc", 1),
   Tuple("t5", "acct", "collaborates_on", "doc", 2), Tuple("t6", "acct", "collaborates_on", "doc", 1)}
Relating(id, effect, template, relation) ==
  [id |-> id, effect |-> effect, template |-> template, relation |-> relation,
   from |-> 0, until |-> None, cells |-> MCCells]
RebacRules ==
  {Relating("g", "allow", "group", None), Relating("m", "allow", "manager", None),
   Relating("c", "deny", "direct", "collaborates_on")}
MCTargetOf == [read |-> "doc"]
MCHumans == {"ann", "bob"}

BaseAbac == [rules |-> {Rule("a", "allow", TRUE, {Test("one_of", "zone", {"corp"})}, 0)},
             facts |-> {Fact("zone", "corp", 0, None)}]
BaseRebac == [rules |-> {Relating("m", "allow", "manager", None)}, unknown |-> {},
              tuples |-> {Tuple("t3", "ann", "manages", "bob", 1), Tuple("t4", "bob", "owns", "doc", 1)}]
Both(actual, intended) == [actual |-> actual, intended |-> intended]
Policy(a, r, profile, supplied) ==
  [abac |-> Both(a, BaseAbac), rebac |-> Both(r, BaseRebac), profile |-> [c \in MCCells |-> profile],
   supplied |-> supplied]
BasePolicy == Policy(BaseAbac, BaseRebac, "rbac_with_abac_guard", {"abac", "rebac"})
AttributePolicies ==
  {Policy([rules |-> r, facts |-> f], BaseRebac, p, {"abac", "rebac"}) :
     r \in SUBSET AbacRules, f \in SUBSET Facts, p \in {"abac", "rbac_with_abac_guard"}}
\* One direct relation at a time; relations are unknown only where no guard adds to them.
RelationPolicies ==
  {Policy(BaseAbac, [rules |-> r, tuples |-> t, unknown |-> IF p = "rebac" THEN u ELSE {}], p, {"abac", "rebac"}) :
     r \in SUBSET RebacRules, t \in {ts \in SUBSET Tuples : Cardinality({x \in ts : x.id \in {"t5", "t6"}}) < 2},
     u \in {{}, MCCells}, p \in {"rebac", "rebac_with_abac_guard"}}
SuppliedPolicies ==
  {Policy(BaseAbac, BaseRebac, p, s) :
     p \in {"rbac", "abac", "rebac", "rbac_with_abac_guard", "rebac_with_abac_guard"},
     s \in SUBSET {"abac", "rebac"}}

Kernel(edges, direct, observed) == [edges |-> edges, direct |-> direct, observed |-> observed]
Exception(owner) == [subject |-> "acct", permission |-> "read", owner |-> owner, from |-> 0, until |-> 1]
Intent(edges, exceptions) == [edges |-> edges, exceptions |-> exceptions]
Session(roles, until) ==
  [s |-> [roles |-> roles, until |-> until], t |-> [roles |-> {"reader"}, until |-> None]]
Input(k, i, s) == [kernel |-> k, intent |-> i, sessions |-> s, policy |-> BasePolicy, pool |-> {}]

KernelInputs ==
  {Input(Kernel(e, {}, b), Intent(BaseEdges, {}), Session(r, 3)) :
     e \in Changed(2), b \in Bindings, r \in {{"writer"}, {"owner"}, {"owner", "reader"}}}
IntentInputs ==
  {Input(Kernel(e, d, Bound("ann", TRUE, None)), Intent(i, x), Session(r, u)) :
     e \in Changed(1), d \in {{}, {Direct}}, i \in Changed(1), x \in {{}, {Exception("bob")}},
     r \in {{"writer"}, {"far"}}, u \in {2, 4}}
PolicyInputs(principals, policies) ==
  {[Input(Kernel(BaseEdges, {}, Bound(b, TRUE, None)), Intent(BaseEdges, {}), Session({"writer"}, 3))
      EXCEPT !.policy = p] : b \in principals, p \in policies}

(* The overlay. *)
Account(tenant, agent, active) == [tenant |-> tenant, agent |-> agent, active |-> active, from |-> 0, until |-> None]
MCAgentAccounts ==
  [main |-> Account("acme", "bot", TRUE), off |-> Account("acme", "bot", FALSE),
   away |-> Account("other", "bot", TRUE), robs |-> Account("acme", "rob", TRUE)]
Runtime(tenant, agent, account) == [tenant |-> tenant, agent |-> agent, account |-> account]
MCRuntimes ==
  [r1 |-> Runtime("acme", "bot", "main"), r2 |-> Runtime("acme", "rob", "robs"), r3 |-> Runtime("acme", "bot", "off")]
Credential(agent, account, runtimes, until) ==
  [tenant |-> "acme", agent |-> agent, account |-> account, runtimes |-> runtimes, from |-> 0, until |-> until]
MCCredentials ==
  [k1 |-> Credential("bot", "main", {"r1", "r2"}, None), k2 |-> Credential("rob", "robs", {"r2"}, None),
   k3 |-> Credential("bot", "main", {"r1"}, 1)]
Capability(tenant, agent) ==
  [tenant |-> tenant, agent |-> agent, targets |-> {"doc"}, actions |-> {"read"}, scopes |-> {"standard"}]
MCCapabilities == [c1 |-> Capability("acme", "bot"), c2 |-> Capability("acme", "rob"), c3 |-> Capability("other", "bot")]
Delegation(human, agent, account, capability, until) ==
  [tenant |-> "acme", human |-> human, agent |-> agent, account |-> account, capability |-> capability,
   from |-> 0, until |-> until]
MCDelegations ==
  [d1 |-> Delegation("ann", "bot", "main", "c1", None), d2 |-> Delegation("ann", "rob", "robs", "c2", None),
   d3 |-> Delegation("bob", "bot", "main", "c1", None), d4 |-> Delegation("ann", "bot", "main", "c1", 1)]

Attempt(mapping, subject, human, delegation) ==
  [case |-> "one", mapping |-> mapping, subject |-> subject, human |-> human, agent |-> "bot",
   account |-> "main", runtime |-> "r1", credential |-> "k1", capability |-> "c1", delegation |-> delegation,
   cell |-> Cell(subject, 1, None), target |-> "doc", action |-> "read", scopes |-> {"standard"}, evidence |-> {"e1"}]
ByAgent == Attempt("agent_as_principal", "bot", None, None)
ByOwned == Attempt("agent_as_principal", "bot", "ann", "d1")
ForAnn == Attempt("human_subject_agent_context", "ann", "ann", "d1")
ForAnnByRob == [ForAnn EXCEPT !.agent = "rob", !.account = "robs", !.runtime = "r2", !.credential = "k2",
                              !.capability = "c2", !.delegation = "d2"]
Varied(a) ==
  {a} \cup
  {[a EXCEPT !.agent = "rob"], [a EXCEPT !.subject = "rob"], [a EXCEPT !.scopes = {"wide"}],
   [a EXCEPT !.evidence = {"e2"}], [a EXCEPT !.evidence = {"lost"}],
   [a EXCEPT !.account = "off", !.runtime = "r3"]} \cup
  {[a EXCEPT !.account = x] : x \in {"off", "away", "robs"}} \cup
  {[a EXCEPT !.runtime = x] : x \in {"r1", "r2"}} \cup
  {[a EXCEPT !.credential = x] : x \in {"k1", "k2", "k3"}} \cup
  {[a EXCEPT !.capability = x] : x \in {"c1", "c2", "c3"}} \cup
  {[a EXCEPT !.delegation = x] : x \in {"d1", "d2", "d3", "d4", None}}
Attempts == UNION {Varied(a) : a \in {ByAgent, ByOwned, ForAnn, ForAnnByRob}}

Event(tick, id, kind) == [tick |-> tick, id |-> id, kind |-> kind]
Attempted(tick, id, a) == [tick |-> tick, id |-> id, kind |-> "action_attempted", attempt |-> a]
Revoking(tick, id, kind, x) == [tick |-> tick, id |-> id, kind |-> kind, revoked |-> x]
Discarding(tick, id) == [tick |-> tick, id |-> id, kind |-> "evidence_discarded", refs |-> {"e1"}]
Audited == Event(1, 6, "audit_performed")
Around(a) ==
  {Revoking(0, 8, "credential_revoked", a.credential), Revoking(1, 2, "delegation_revoked", "d1"),
   Discarding(1, 1), Attempted(1, 3, a), Revoking(1, 4, "credential_revoked", a.credential),
   Revoking(1, 5, "delegation_revoked", "d1"), Audited, Discarding(2, 7)}
Together(a, b) == {Attempted(1, 3, a), Attempted(1, 4, [b EXCEPT !.case = "two"]), Audited}

OverlayKernels ==
  {Kernel(e, {}, Bound("ann", TRUE, None)) : e \in {BaseEdges \cup {Edge("subjectRole", "bot", "reader")},
                                                    BaseEdges \ {Edge("member", "ann", "dev")}}}
OverlayInputs(pools) ==
  {[Input(k, Intent(BaseEdges, {}), Session({"writer"}, 3))
      EXCEPT !.pool = p, !.policy = Policy(BaseAbac, BaseRebac, "rbac", {})] : k \in OverlayKernels, p \in pools}

MCInputs ==
  {KernelInputs, IntentInputs} \cup
  {PolicyInputs({"ann", "bob"}, AttributePolicies), PolicyInputs({"ann", "bob"}, SuppliedPolicies),
   PolicyInputs({"ann"}, RelationPolicies),
   OverlayInputs({Around(a) : a \in Attempts}),
   OverlayInputs({Together(a, b) : a \in Varied(ByAgent) \cup {ForAnn}, b \in Varied(ForAnnByRob) \cup Varied(ForAnn)})}

=============================================================================
