-------------------------- MODULE AgenticBenchmark --------------------------
(***************************************************************************)
(* The authority oracle over an agentic world: evaluate_action_authority,  *)
(* the canonical bindings it is asked about, and build_agentic_benchmark,  *)
(* which decides every attempted action twice, on the state before the     *)
(* action and on the state before the one audit event.                     *)
(*                                                                         *)
(* The code replays each prefix from the snapshot; the model keeps the     *)
(* state an action or the audit met (before), which is that prefix.  A     *)
(* stream on which an evaluation raises has no benchmark, so the steps     *)
(* require that it does not.                                               *)
(***************************************************************************)
EXTENDS AgenticWorld

CONSTANTS
  Bindings,        \* the canonical bindings a world author may declare
  MaxActions       \* bound: actions attempted in one stream

VARIABLES
  rows,            \* the attempted actions, each with its binding and prefix state
  audit            \* the prefix state of the audit event, or None

vars == <<as_of, delegations, credentials, runtimes, revoked, retained, actions, audits, rows, audit>>

State == [delegations |-> delegations, credentials |-> credentials, runtimes |-> runtimes,
          revoked |-> revoked, retained |-> retained]

FailureReason ==
  {"no_active_delegation", "delegation_revoked", "capability_exceeded",
   "overprivileged_subdelegation", "wrong_runtime", "credential_invalid",
   "tenant_mismatch", "policy_version_mismatch"}

ASSUME ReasonAssumption == None \notin FailureReason

(***************************************************************************)
(* _effective_chain: which delegation covers an attempt.                   *)
(***************************************************************************)
CapabilityAllows(d, a) ==
  /\ a.resource \in d.resources
  /\ a.action \in d.actions
  /\ a.scope \subseteq d.scopes
  /\ a.purpose = d.purpose

TimeValid(st, b, t) ==
  {d \in st.delegations : d.grantee = b.agent /\ d.origin = b.origin /\ ValidAt(d, t)}

Active(st, b, t) == {d \in TimeValid(st, b, t) : d.id \notin st.revoked}

Capable(st, a, b, t) == {d \in Active(st, b, t) : CapabilityAllows(d, a)}

\* Mutant: a disagreement on the policy version is settled by the id tie-break too.
NeverAmbiguous(st, a, b, t) == FALSE

\* Overlapping grants are ranked by id, and may not disagree on the policy version.
AuthorityIsAmbiguous(st, a, b, t) ==
  \E d, e \in Capable(st, a, b, t) : d.version # e.version

Selected(capable) == CHOOSE d \in capable : \A e \in capable : d.id <= e.id

Chain(st, a, b, t) ==
  LET capable == Capable(st, a, b, t) IN
  IF capable = {} THEN {} ELSE ChainIds(st.delegations, Selected(capable))

\* Mutant: the requested version is echoed.
EchoedVersion(st, a, b, t) == a.version

EffectiveVersion(st, a, b, t) ==
  LET capable == Capable(st, a, b, t) IN
  IF capable = {} THEN a.version ELSE Selected(capable).version

ResolutionFailure(st, a, b, t) ==
  CASE Capable(st, a, b, t) # {} ->
         IF EffectiveVersion(st, a, b, t) = a.version THEN None ELSE "policy_version_mismatch"
    [] Capable(st, a, b, t) = {} /\ (\E d \in TimeValid(st, b, t) :
                                       CapabilityAllows(d, a) /\ d.id \in st.revoked) ->
         "delegation_revoked"
    [] OTHER -> IF Active(st, b, t) # {} THEN "capability_exceeded" ELSE "no_active_delegation"

(***************************************************************************)
(* evaluate_action_authority.                                              *)
(***************************************************************************)
CredentialHolds(st, a, b, t) ==
  \E c \in st.credentials : c.id = a.credential /\ c.subject = b.subject /\ ValidAt(c, t)

RuntimeIsWrong(st, a, b, t) ==
  \/ ~ \E r \in st.runtimes : r.id = b.runtime /\ r.agent = b.agent /\ r.principal = b.principal
  \/ /\ CredentialHolds(st, a, b, t)
     /\ b.principal \notin ById(st.credentials, a.credential).allowed

\* Mutant: the delegator of a proposal is not checked.
ProposalIsWider(st, a, b, t) ==
  LET capable == Capable(st, a, b, t) IN
  a.proposal # None /\ capable # {} /\ ~ DelegationIsAttenuated(a.proposal, Selected(capable))

ProposalIsOverprivileged(st, a, b, t) ==
  LET capable == Capable(st, a, b, t) IN
  /\ a.proposal # None
  /\ capable # {}
  /\ ~ (/\ DelegationIsAttenuated(a.proposal, Selected(capable))
        /\ DelegatorIsAuthorised(st.runtimes, a.proposal, Selected(capable)))

Failures(st, a, b, t) ==
  {reason \in FailureReason :
     \/ reason = "wrong_runtime" /\ RuntimeIsWrong(st, a, b, t)
     \/ reason = "credential_invalid" /\ ~ CredentialHolds(st, a, b, t)
     \/ /\ reason = "tenant_mismatch"
        /\ ~ (PrincipalOrg[b.origin] = AgentOrg[b.agent] /\ AgentOrg[b.agent] = ResourceOrg[a.resource])
     \/ reason = "policy_version_mismatch" /\ a.version \notin Policies
     \/ reason = ResolutionFailure(st, a, b, t)
     \/ reason = "overprivileged_subdelegation" /\ ProposalIsOverprivileged(st, a, b, t)}

Allows(st, a, b, t) == Failures(st, a, b, t) = {}

RequiredEvidence(st, a, b, t) ==
  {<<"policy", EffectiveVersion(st, a, b, t)>>, <<"credential", a.credential>>, <<"runtime", b.runtime>>}
    \cup {<<"delegation", id>> : id \in Chain(st, a, b, t)}

EvaluationRaises(st, a, b, t) ==
  LET capable == Capable(st, a, b, t) IN
  \/ AuthorityIsAmbiguous(st, a, b, t)
  \/ /\ a.proposal # None /\ capable # {}
     /\ DelegationIsAttenuated(a.proposal, Selected(capable))
     /\ ~ OwnerChainsHold(a.proposal, Selected(capable))

(***************************************************************************)
(* validate_canonical_binding (integrity.py).                              *)
(***************************************************************************)
\* The first principal of a chain that is not a workload.
AttributedActors(chain) ==
  {q \in chain \ Workloads : \A p \in chain \ Workloads : p \in OwnerChain(q)}

ValidBinding(st, a, b) ==
  /\ b.origin \in Principals /\ b.agent \in Agents
  /\ PrincipalOrg[b.origin] = AgentOrg[b.agent]
  /\ \A q \in OwnerChain(AgentOwner[b.agent]) : PrincipalOrg[q] = AgentOrg[b.agent]
  /\ \E r \in st.runtimes, c \in st.credentials :
       /\ r.id = b.runtime /\ r.agent = b.agent /\ r.principal = b.principal
       /\ c.id = a.credential /\ c.subject = b.subject
       /\ PrincipalOrg[c.subject] # None
       /\ \A q \in OwnerChain(c.subject) : PrincipalOrg[q] = PrincipalOrg[c.subject]
       /\ AttributedActors(RuntimePath(r)) # {} /\ AttributedActors(OwnerChain(c.subject)) # {}
       /\ b.actor \in AttributedActors(RuntimePath(r)) \cup AttributedActors(OwnerChain(c.subject))

(***************************************************************************)
(* build_agentic_benchmark.                                                *)
(***************************************************************************)
Row(a, b, t) == [event |-> t, attempt |-> a, binding |-> b, before |-> State]

ReconstructableAtAudit(row) ==
  RequiredEvidence(row.before, row.attempt, row.binding, row.event) \subseteq audit.before.retained

BenchmarkInit == Init /\ rows = {} /\ audit = None

\* An attempt whose action-time decision can be evaluated, and whose audit-time one
\* can be when the audit has already been performed.
DecideAction(a, b, refs, t) ==
  /\ AttemptAction(a, refs, t)
  /\ Cardinality(rows) < MaxActions
  /\ ValidBinding(State, a, b)
  /\ ~ EvaluationRaises(State, a, b, t)
  /\ audit # None => ~ EvaluationRaises(audit.before, a, b, audit.event)
  /\ rows' = rows \cup {Row(a, b, t)}
  /\ UNCHANGED audit

\* The only audit event; it re-decides every action attempted so far.
AuditActions(refs, t) ==
  /\ audit = None
  /\ PerformAudit(refs, t)
  /\ \A row \in rows : ~ EvaluationRaises(State, row.attempt, row.binding, t)
  /\ audit' = [event |-> t, before |-> State]
  /\ UNCHANGED rows

BenchmarkNext ==
  \E t \in Times, refs \in EvidenceSets :
    \/ \E d \in Delegations : GrantDelegation(d, refs, t) /\ UNCHANGED <<rows, audit>>
    \/ \E c \in Credentials : IssueCredential(c, refs, t) /\ UNCHANGED <<rows, audit>>
    \/ \E r \in Runtimes : SpawnRuntime(r, refs, t) /\ UNCHANGED <<rows, audit>>
    \/ \E id \in Ids(Delegations) : RevokeDelegation(id, refs, t) /\ UNCHANGED <<rows, audit>>
    \/ \E lost \in EvidenceSets : DiscardEvidence(lost, refs, t) /\ UNCHANGED <<rows, audit>>
    \/ \E a \in Attempts, b \in Bindings : DecideAction(a, b, refs, t)
    \/ AuditActions(refs, t)

BenchmarkSpec == BenchmarkInit /\ [][BenchmarkNext]_vars

-----------------------------------------------------------------------------
\* A judgement: an action asked about on a prefix state at a time, as the projection
\* asks at action time and at audit time.
Judgements ==
  {[st |-> row.before, a |-> row.attempt, b |-> row.binding, t |-> row.event] : row \in rows}
    \cup (IF audit = None THEN {} ELSE
          {[st |-> audit.before, a |-> row.attempt, b |-> row.binding, t |-> audit.event] : row \in rows})

ByIdIn(st, id) == ById(st.delegations, id)

\* An allowed action is backed link by link up to a root, and never leaves an
\* organisation: every delegation of the published chain was unrevoked and inside its
\* window at the decision, covers the action and names the attempted policy version,
\* and the runtime, its principal, every delegator and every grantee belong to the
\* agent's organisation.  The evaluation looks at the last delegation only.
AllowIsBackedToTheRoot ==
  \A j \in Judgements :
    Allows(j.st, j.a, j.b, j.t) =>
      LET org == AgentOrg[j.b.agent] IN
      /\ PrincipalOrg[j.b.principal] = org
      /\ ById(j.st.runtimes, j.b.runtime).org = org
      /\ \E id \in Chain(j.st, j.a, j.b, j.t) : ByIdIn(j.st, id).parent = None
      /\ \A id \in Chain(j.st, j.a, j.b, j.t) :
           LET d == ByIdIn(j.st, id) IN
           /\ id \notin j.st.revoked
           /\ ValidAt(d, j.t)
           /\ CapabilityAllows(d, j.a)
           /\ d.version = j.a.version /\ d.origin = j.b.origin
           /\ PrincipalOrg[d.delegator] = org /\ AgentOrg[d.grantee] = org

\* A sub-delegation the oracle allows an agent to propose is one the replay would
\* accept as a grant event on that very state, given a fresh id and a current window.
AllowedProposalIsGrantable ==
  \A j \in Judgements :
    j.a.proposal # None /\ Allows(j.st, j.a, j.b, j.t) =>
      DelegationIsSound(j.st.delegations, j.st.revoked, j.st.runtimes, j.a.proposal)

\* A row the audit sees differently from the action: flipped(was, is).
Flipped(row, was, is) ==
  /\ audit # None
  /\ Allows(row.before, row.attempt, row.binding, row.event) = was
  /\ Allows(audit.before, row.attempt, row.binding, audit.event) = is

\* What was allowed and is denied at a later audit was revoked or has expired: the
\* delegation that covered it or the credential it presented.  A grant in between
\* takes nothing away, unless the action proposed a delegation of its own, which a
\* grant with a smaller id detaches from its parent.  What was denied and appears
\* allowed was granted in between: time, a revocation or a new credential or runtime
\* alone never turns a denial round.
AuditFlipsAreExplained ==
  \A row \in rows : audit # None /\ row.event < audit.event /\ row.attempt.proposal = None =>
    /\ Flipped(row, FALSE, TRUE) =>
         Selected(Capable(audit.before, row.attempt, row.binding, audit.event)) \notin row.before.delegations
    /\ Flipped(row, TRUE, FALSE) =>
      LET d == Selected(Capable(row.before, row.attempt, row.binding, row.event)) IN
      \/ d.id \in audit.before.revoked
      \/ ~ ValidAt(d, audit.event)
      \/ ~ ValidAt(ById(row.before.credentials, row.attempt.credential), audit.event)

\* If a decision counts as reconstructable at audit, the retained evidence names every
\* delegation that backed it, up to the root, and the policy version each of them was
\* granted under, whatever version the action asked for.
ReconstructionNamesWhatGoverned ==
  \A row \in rows :
    audit # None /\ ReconstructableAtAudit(row) =>
      \A d \in row.before.delegations :
        d.id \in Chain(row.before, row.attempt, row.binding, row.event) =>
          {<<"delegation", d.id>>, <<"policy", d.version>>} \subseteq audit.before.retained

\* AGENTIC_BENCHMARK.md:122 "`decision_at_audit` is the later historical evaluation."
AuditDecisionIsLater ==
  \A row \in rows : audit # None => row.event < audit.event
=============================================================================
