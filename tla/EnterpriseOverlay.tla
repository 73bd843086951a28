--------------------------- MODULE EnterpriseOverlay ---------------------------
(***************************************************************************)
(* Agents over the enterprise access state                                 *)
(* (src/synthworld/agentic/enterprise): a log of attempts, revocations and *)
(* discarded evidence, an audit, and the truth of each attempt, which is   *)
(* the enterprise decision of its cell narrowed by seven gates, on the log *)
(* as it was before the attempt.  The action of an atom is its permission. *)
(* A log that is refused raises and has no truth, so refused events have   *)
(* no step.  Digests and scenario tags are left out.                       *)
(***************************************************************************)
EXTENDS EnterpriseAuthorization

CONSTANTS
  AgentAccounts,  \* id -> [tenant, agent, active, from, until]
  Runtimes,       \* id -> [tenant, agent, account]
  Credentials,    \* id -> [tenant, agent, account, runtimes, from, until]
  Capabilities,   \* id -> [tenant, agent, targets, actions, scopes]
  Delegations,    \* id -> [tenant, human, agent, account, capability, from, until]
  Evidence,
  MaxEvents

Valid(record) == record.until = None \/ record.from < record.until

SnapshotIsSound ==
  /\ \A a \in DOMAIN AgentAccounts : Valid(AgentAccounts[a]) /\ AgentAccounts[a].agent \in Principals
  /\ \A r \in DOMAIN Runtimes : Runtimes[r].account \in DOMAIN AgentAccounts
  /\ \A k \in DOMAIN Credentials :
       /\ Valid(Credentials[k]) /\ Credentials[k].account \in DOMAIN AgentAccounts
       /\ Credentials[k].runtimes \subseteq DOMAIN Runtimes
  /\ \A d \in DOMAIN Delegations :
       /\ Valid(Delegations[d]) /\ Delegations[d].account \in DOMAIN AgentAccounts
       /\ Delegations[d].capability \in DOMAIN Capabilities

ASSUME SnapshotAssumption == SnapshotIsSound

VARIABLES
  log,     \* the events so far, by tick and then by id
  truths   \* case -> [final, failures, kind, reconstructable], or Pending

overlayVars == <<accessVars, log, truths>>

(***************************************************************************)
(* The log.                                                                *)
(***************************************************************************)
Positions(kind) == {i \in DOMAIN log : log[i].kind = kind}

RevokedBefore(i) ==
  {log[j].revoked : j \in {n \in Positions("credential_revoked") \cup Positions("delegation_revoked") : n < i}}

DiscardedBefore(i) == UNION {log[j].refs : j \in {n \in Positions("evidence_discarded") : n < i}}

Revoked == RevokedBefore(Len(log) + 1)

Follows(e) ==
  LET last == log[Len(log)]
  IN log # <<>> => /\ last.tick < e.tick \/ (last.tick = e.tick /\ last.id < e.id)
                   /\ \A i \in DOMAIN log : log[i].id # e.id

\* The pool stands for the events a pack is made of.
Occurs(e) ==
  /\ e \in input.pool
  /\ access \notin {Pending, Failed} /\ truths = Pending
  /\ Follows(e) /\ Len(log) < MaxEvents
  /\ log' = Append(log, e)
  /\ UNCHANGED <<accessVars, truths>>

RevokeCredential(e) ==
  /\ e.kind = "credential_revoked" /\ e.revoked \in DOMAIN Credentials \ Revoked
  /\ Occurs(e)

RevokeDelegation(e) ==
  /\ e.kind = "delegation_revoked" /\ e.revoked \in DOMAIN Delegations \ Revoked
  /\ Occurs(e)

DiscardEvidence(e) ==
  /\ e.kind = "evidence_discarded" /\ e.refs \subseteq Evidence
  /\ Occurs(e)

PerformAudit(e) ==
  /\ e.kind = "audit_performed" /\ Positions("audit_performed") = {}
  /\ Occurs(e)

(* An attempt names its subject, agent, account, runtime, credential,      *)
(* capability, cell, target, action, scopes and evidence.  An agent acts   *)
(* as a principal, with an owner and a delegation that do not count, or in *)
(* the context of a human, by a delegation.                                *)
AsPrincipal(a) == a.mapping = "agent_as_principal"

ReferencesResolve(a) ==
  /\ {a.subject, a.agent} \subseteq Principals /\ a.human \in Principals \cup {None}
  /\ a.account \in DOMAIN AgentAccounts /\ a.runtime \in DOMAIN Runtimes
  /\ a.credential \in DOMAIN Credentials /\ a.capability \in DOMAIN Capabilities
  /\ a.delegation \in DOMAIN Delegations \cup {None}
  /\ a.cell \in Cells /\ a.target = TargetOf[a.cell.permission] /\ a.action = a.cell.permission
  /\ a.evidence \subseteq Evidence

AttemptAction(e) ==
  /\ e.kind = "action_attempted" /\ ReferencesResolve(e.attempt)
  /\ Positions("audit_performed") = {}
  /\ \A i \in Positions("action_attempted") : log[i].attempt.case # e.attempt.case
  /\ Occurs(e)

(***************************************************************************)
(* The gates.                                                              *)
(***************************************************************************)
SubjectGate(a) ==
  /\ a.subject = a.cell.subject /\ Attribute[a.agent] = "agent"
  /\ IF AsPrincipal(a) THEN a.agent = a.cell.subject
     ELSE a.human = a.cell.subject /\ Attribute[a.human] # "agent"

Tenants(a) ==
  {TenantOf[a.subject], TenantOf[a.target], TenantOf[a.agent], AgentAccounts[a.account].tenant,
   Runtimes[a.runtime].tenant, Credentials[a.credential].tenant, Capabilities[a.capability].tenant}
  \cup IF AsPrincipal(a) THEN {}
       ELSE {TenantOf[a.human]} \cup {Delegations[d].tenant : d \in {a.delegation} \ {None}}

AccountIsBound(a) == AgentAccounts[a.account].agent = a.agent

AccountGate(a, tick) ==
  LET account == AgentAccounts[a.account]
  IN AccountIsBound(a) /\ account.active /\ Active(tick, account.from, account.until)

RuntimeGate(a) == Runtimes[a.runtime].agent = a.agent /\ Runtimes[a.runtime].account = a.account

\* Mutant: a credential is good for whoever runs in one of its runtimes.
CredentialOfTheRuntime(a, tick, revoked) ==
  LET credential == Credentials[a.credential]
  IN /\ a.runtime \in credential.runtimes
     /\ Active(tick, credential.from, credential.until) /\ a.credential \notin revoked

CredentialGate(a, tick, revoked) ==
  LET credential == Credentials[a.credential]
  IN /\ credential.agent = a.agent /\ credential.account = a.account
     /\ a.runtime \in credential.runtimes
     /\ Active(tick, credential.from, credential.until) /\ a.credential \notin revoked

CapabilityGate(a) ==
  LET capability == Capabilities[a.capability]
  IN /\ capability.agent = a.agent
     /\ a.target \in capability.targets /\ a.action \in capability.actions
     /\ a.scopes \subseteq capability.scopes

DelegationGate(a, tick, revoked) ==
  LET delegation == Delegations[a.delegation]
  IN AsPrincipal(a) \/
     /\ a.delegation # None
     /\ delegation.human = a.human /\ delegation.agent = a.agent
     /\ delegation.account = a.account /\ delegation.capability = a.capability
     /\ Active(tick, delegation.from, delegation.until) /\ a.delegation \notin revoked

Gates(a, tick, revoked) ==
  [enterprise |-> access[a.cell].final, subject |-> SubjectGate(a), tenant |-> Cardinality(Tenants(a)) = 1,
   account |-> AccountGate(a, tick), runtime |-> RuntimeGate(a),
   credential |-> CredentialGate(a, tick, revoked), capability |-> CapabilityGate(a),
   delegation |-> DelegationGate(a, tick, revoked)]

Reason(gate, a, revoked) ==
  CASE gate = "enterprise" -> "enterprise_denied"
    [] gate = "subject" -> "subject_mismatch"
    [] gate = "tenant" -> "tenant_mismatch"
    [] gate = "account" -> IF AccountIsBound(a) THEN "agent_account_inactive" ELSE "agent_account_binding_mismatch"
    [] gate = "runtime" -> "wrong_runtime"
    [] gate = "credential" -> "credential_invalid"
    [] gate = "capability" -> "capability_exceeded"
    [] gate = "delegation" -> IF a.delegation \in revoked \cup {None} THEN "no_active_delegation" ELSE "delegation_mismatch"

(***************************************************************************)
(* The kind of a case is named after the first gate, in an order of its    *)
(* own, that does not hold; a context is not labelled by its account, its  *)
(* subject or its credential.                                              *)
(***************************************************************************)
LabelOrder(a) ==
  IF AsPrincipal(a)
  THEN <<"tenant", "account", "subject", "runtime", "credential", "capability", "enterprise">>
  ELSE <<"tenant", "runtime", "capability", "delegation", "enterprise", "evidence">>

FirstFailing(order, holds) ==
  LET failing == {i \in DOMAIN order : ~holds[order[i]]}
  IN IF failing = {} THEN "none" ELSE order[Min(failing)]

AgentKind(first, a, revoked) ==
  CASE first = "tenant" -> "cross_tenant_agent"
    [] first = "account" -> "suspended_agent_account"
    [] first = "subject" -> "wrong_subject_agent"
    [] first = "runtime" -> "wrong_runtime_agent"
    [] first = "credential" -> IF a.credential \in revoked THEN "invalid_credential_agent" ELSE "shared_credential_agent"
    [] first = "capability" -> "wrong_scope_agent"
    [] first = "enterprise" -> IF a.human # None THEN "human_authority_not_unioned" ELSE "enterprise_denied_agent"
    [] first = "none" -> "valid_agent_principal"

DelegationKind(a, revoked) ==
  IF a.delegation = None THEN "missing_delegation"
  ELSE IF a.delegation \in revoked THEN "revoked_delegation"
  ELSE IF Delegations[a.delegation].human = a.human THEN "same_human_different_agent"
  ELSE "same_agent_different_human"

HumanKind(first, a, revoked) ==
  CASE first = "tenant" -> "cross_tenant_human"
    [] first = "runtime" -> "wrong_runtime_human"
    [] first = "capability" -> "wrong_scope_human"
    [] first = "delegation" -> DelegationKind(a, revoked)
    [] first = "enterprise" -> "enterprise_denied_human"
    [] first = "evidence" -> "evidence_discarded"
    [] first = "none" -> "valid_human_context"

Audit == CHOOSE i \in Positions("audit_performed") : TRUE

(* What is decided of an attempt, and how it is labelled. *)
Judge(a, tick, revoked, reconstructable) ==
  LET gates == Gates(a, tick, revoked)
      holds == [g \in DOMAIN gates \cup {"evidence"} |-> IF g = "evidence" THEN reconstructable ELSE gates[g]]
      first == FirstFailing(LabelOrder(a), holds)
  IN [final |-> \A g \in DOMAIN gates : gates[g],
      failures |-> {Reason(g, a, revoked) : g \in {h \in DOMAIN gates : ~gates[h]}},
      kind |-> IF AsPrincipal(a) THEN AgentKind(first, a, revoked) ELSE HumanKind(first, a, revoked),
      reconstructable |-> reconstructable]

Reconstructable(a) == a.evidence \cap DiscardedBefore(Audit) = {}

\* Mutants: a case is decided, or only labelled, on the state the audit finds.
TruthAtAudit(i) ==
  Judge(log[i].attempt, log[i].tick, RevokedBefore(Audit), Reconstructable(log[i].attempt))
LabelledAtAudit(i) ==
  [Judge(log[i].attempt, log[i].tick, RevokedBefore(i), Reconstructable(log[i].attempt))
     EXCEPT !.kind = TruthAtAudit(i).kind]

(* The truth of the attempt at position i: decided on the log before it,   *)
(* its evidence on the log before the audit.                               *)
Truth(i) == Judge(log[i].attempt, log[i].tick, RevokedBefore(i), Reconstructable(log[i].attempt))

CompileTruth ==
  /\ truths = Pending /\ Positions("audit_performed") # {}
  /\ truths' = [i \in Positions("action_attempted") |-> Truth(i)]
  /\ UNCHANGED <<accessVars, log>>

OverlayInit == AccessInit /\ log = <<>> /\ truths = Pending

CompileAccess == AccessNext /\ UNCHANGED <<log, truths>>

OverlayNext ==
  \/ CompileAccess
  \/ \E e \in input.pool :
       \/ RevokeCredential(e) \/ RevokeDelegation(e) \/ DiscardEvidence(e)
       \/ AttemptAction(e) \/ PerformAudit(e)
  \/ CompileTruth

OverlaySpec == OverlayInit /\ [][OverlayNext]_overlayVars

(***************************************************************************)
(* Properties.                                                             *)
(***************************************************************************)
\* What an attempt rests on: a delegation counts for a context only.
RestsOn(a) == {a.credential} \cup IF AsPrincipal(a) THEN {} ELSE {a.delegation}

Withdraws(e, a) == e.kind \in {"credential_revoked", "delegation_revoked"} /\ e.revoked \in RestsOn(a)

(* A revocation cuts off the attempts that follow it in the log, also in   *)
(* its own tick, and no attempt before it: an attempt is allowed exactly   *)
(* if every gate holds of a world without revocations and nothing it rests *)
(* on was revoked earlier, whatever is revoked later, and whatever happens *)
(* to a delegation that an agent with its own authority merely names       *)
(* (materialize_enterprise_agentic_overlay, before_event_id).              *)
RevocationsCutOffWhatFollows ==
  truths # Pending =>
    \A i \in DOMAIN truths :
      LET a == log[i].attempt
          unrevoked == Gates(a, log[i].tick, {})
      IN truths[i].final <=> /\ \A g \in DOMAIN unrevoked : unrevoked[g]
                             /\ \A j \in 1..i - 1 : ~Withdraws(log[j], a)

(* The labels, which pick a first failure in an order of their own, agree  *)
(* with the decision: only an allowed attempt of a principal is labelled   *)
(* valid, the owner's authority is named only where nothing but the        *)
(* agent's own lack of access stands against it, and a withdrawn           *)
(* credential or delegation only after its revocation.  A context that is  *)
(* labelled valid may be denied, over its account, subject or credential   *)
(* and over nothing else (_derive_case_kind).                              *)
LabelsFollowDecisions ==
  truths # Pending =>
    \A i \in DOMAIN truths :
      LET t == truths[i]
          a == log[i].attempt
      IN /\ t.kind = "valid_agent_principal" <=> AsPrincipal(a) /\ t.final
         /\ ~AsPrincipal(a) /\ t.final => t.kind \in {"valid_human_context", "evidence_discarded"}
         /\ t.kind \in {"valid_human_context", "evidence_discarded"} =>
              t.failures \subseteq {"subject_mismatch", "agent_account_inactive",
                                    "agent_account_binding_mismatch", "credential_invalid"}
         /\ t.kind = "human_authority_not_unioned" => t.failures = {"enterprise_denied"}
         /\ t.kind \in {"invalid_credential_agent", "revoked_delegation"} =>
              ~t.final /\ \E j \in 1..i - 1 : Withdraws(log[j], a)

(* Allowed actions can be told apart: two that share an account, a         *)
(* runtime, a credential or a capability are of one agent, two that share  *)
(* a delegation are in the context of one human, and whose access an       *)
(* allowed action uses is its agent's or that human's, never both          *)
(* (_evaluate_attempt).                                                    *)
AllowedActionsAttributeUniquely ==
  truths # Pending =>
    \A i, j \in {n \in DOMAIN truths : truths[n].final} :
      LET a == log[i].attempt
          b == log[j].attempt
      IN /\ access[a.cell].final /\ a.cell.subject = (IF AsPrincipal(a) THEN a.agent ELSE a.human)
         /\ \/ a.account = b.account \/ a.runtime = b.runtime
            \/ a.credential = b.credential \/ a.capability = b.capability
            => a.agent = b.agent
         /\ a.credential = b.credential \/ a.runtime = b.runtime => a.account = b.account
         /\ ~AsPrincipal(a) /\ ~AsPrincipal(b) /\ a.delegation = b.delegation =>
              a.human = b.human /\ a.agent = b.agent /\ a.capability = b.capability

=============================================================================
