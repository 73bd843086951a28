---------------------------- MODULE AgenticWorld ----------------------------
(***************************************************************************)
(* The event-sourced agentic world of synthworld/agentic/replay.py and the *)
(* v1 delegation rules of relationships.py.                                *)
(*                                                                         *)
(* A world is an immutable snapshot (the constants) and a stream of        *)
(* events.  materialize_agentic_world folds the stream, one event at a     *)
(* time, and raises on the first event its validators reject, so a state   *)
(* of this module is the AgenticWorldState of an accepted prefix, and each *)
(* event type is an action whose guard is the validator of that event.     *)
(*                                                                         *)
(* Identifiers are members of small sets.  Delegation identifiers are      *)
(* numbers, because the code breaks ties with their lexicographic order.   *)
(* Timestamps strictly increase, so an event's timestamp also identifies   *)
(* it, and through_event_index, which only counts the events, is left out. *)
(***************************************************************************)
EXTENDS Integers, FiniteSets

CONSTANTS
  None,                                       \* an absent optional reference
  Principals, PrincipalOrg, PrincipalOwner, Workloads,
  Agents, AgentOrg, AgentOwner, AgentParent,
  Resources, ResourceOrg, ResourceOwner, ResourceActions,
  Policies, InitialEvidence,
  Delegations, Credentials, Runtimes, Attempts,   \* the payloads events may carry
  EvidenceSets,                               \* the evidence an event may name
  Times                                       \* the timestamps an event may have

VARIABLES
  as_of,              \* the timestamp of the last event, 0 before the first
  delegations, credentials, runtimes,
  revoked,            \* revoked_delegation_ids
  retained,           \* retained_evidence_refs
  actions, audits     \* the events that attempted an action, that audited

worldVars == <<as_of, delegations, credentials, runtimes, revoked, retained, actions, audits>>

(***************************************************************************)
(* The snapshot's references are checked by its own validator, which also  *)
(* rejects cyclic ownership; validity windows are checked by the models.   *)
(***************************************************************************)
\* The principals from p up to its ultimate owner: those that no set containing p
\* and closed under ownership can leave out.
OwnerChains ==
  [p \in Principals |->
     {q \in Principals :
        \A S \in SUBSET Principals :
           (p \in S /\ \A s \in S : PrincipalOwner[s] \in S \cup {None}) => q \in S}]

OwnerChain(p) == OwnerChains[p]

ASSUME SnapshotAssumption ==
  /\ None \notin Principals
  /\ PrincipalOwner \in [Principals -> Principals \cup {None}]
  /\ \A p, q \in Principals : p \in OwnerChain(q) /\ q \in OwnerChain(p) => p = q
  /\ AgentOwner \in [Agents -> Principals]
  /\ AgentParent \in [Agents -> Agents \cup {None}]
  /\ ResourceOwner \in [Resources -> Principals]

ASSUME PayloadAssumption ==
  /\ Times \subseteq Nat \ {0}
  /\ None \notin Nat /\ None \notin Delegations
  /\ \A d \in Delegations :
       /\ d.id \in Nat /\ d.parent \in Nat \cup {None}
       /\ d.valid_from \in Int /\ d.expires_at \in Int
       /\ d.valid_from < d.expires_at
  /\ \A c \in Credentials : c.valid_from \in Int /\ c.expires_at \in Int

Ids(items) == {item.id : item \in items}
ById(items, id) == CHOOSE item \in items : item.id = id

(***************************************************************************)
(* Who may grant what (relationships.py).                                  *)
(***************************************************************************)
\* From a runtime's principal up to its declared owner, both included.
RuntimePath(r) == {q \in OwnerChain(r.principal) : r.owner \in OwnerChain(q)}

RuntimePathHolds(r) ==
  /\ AgentOrg[r.agent] = r.org
  /\ PrincipalOrg[r.owner] = r.org
  /\ r.owner = AgentOwner[r.agent]
  /\ r.owner \in OwnerChain(r.principal)
  /\ \A q \in RuntimePath(r) : PrincipalOrg[q] = r.org

\* Mutant: the organisation of the delegated resources is not compared.
ResourceOrganisationUnchecked(d) ==
  /\ PrincipalOrg[d.origin] = AgentOrg[d.grantee]
  /\ PrincipalOrg[d.delegator] = AgentOrg[d.grantee]

OrganisationIsCoherent(d) ==
  LET org == AgentOrg[d.grantee] IN
  /\ PrincipalOrg[d.origin] = org
  /\ PrincipalOrg[d.delegator] = org
  /\ \A r \in d.resources : ResourceOrg[r] = org

ParentAgentMatches(d, parent) ==
  /\ AgentOrg[parent.grantee] = AgentOrg[d.grantee]
  /\ AgentParent[d.grantee] = parent.grantee

\* The code raises when an owner chain it has to walk leaves the organisation.
OwnerChainsHold(d, parent) ==
  OrganisationIsCoherent(d) =>
    IF parent = None
      THEN \A r \in d.resources : \A q \in OwnerChain(ResourceOwner[r]) :
             PrincipalOrg[q] = ResourceOrg[r]
      ELSE ParentAgentMatches(d, parent) =>
             \A q \in OwnerChain(AgentOwner[parent.grantee]) :
               PrincipalOrg[q] = AgentOrg[parent.grantee]

RootDelegators(d) ==
  {d.origin} \cup {q \in Principals : \A r \in d.resources : q \in OwnerChain(ResourceOwner[r])}

SubDelegators(spawned, d, parent) ==
  {q \in {parent.origin, parent.delegator}
           \cup OwnerChain(AgentOwner[parent.grantee])
           \cup UNION {RuntimePath(r) : r \in {s \in spawned : s.agent = parent.grantee}} :
     PrincipalOrg[q] = AgentOrg[d.grantee]}

DelegatorIsAuthorised(spawned, d, parent) ==
  /\ OrganisationIsCoherent(d)
  /\ IF parent = None
       THEN d.delegator \in RootDelegators(d)
       ELSE ParentAgentMatches(d, parent) /\ d.delegator \in SubDelegators(spawned, d, parent)

\* Mutant: a child may outlive its parent.
OutlivingIsAttenuated(child, parent) ==
  /\ parent.may_delegate
  /\ child.origin = parent.origin
  /\ child.parent = parent.id
  /\ child.version = parent.version
  /\ child.resources \subseteq parent.resources
  /\ child.actions \subseteq parent.actions
  /\ child.scopes \subseteq parent.scopes
  /\ child.purpose = parent.purpose
  /\ parent.valid_from <= child.valid_from

DelegationIsAttenuated(child, parent) ==
  /\ parent.may_delegate
  /\ child.origin = parent.origin
  /\ child.parent = parent.id
  /\ child.version = parent.version
  /\ child.resources \subseteq parent.resources
  /\ child.actions \subseteq parent.actions
  /\ child.scopes \subseteq parent.scopes
  /\ child.purpose = parent.purpose
  /\ parent.valid_from <= child.valid_from
  /\ child.expires_at <= parent.expires_at

\* The ids of the delegations above d: those that no set containing d's parent and
\* closed under "parent of" can leave out.
Ancestors(granted, d) ==
  {a \in Ids(granted) :
     /\ d.parent # None
     /\ \A S \in SUBSET Ids(granted) :
          (/\ d.parent \in S
           /\ \A e \in granted : e.id \in S => e.parent \in S \cup {None}) => a \in S}

ChainIds(granted, d) == {d.id} \cup Ancestors(granted, d)

(***************************************************************************)
(* Event validators.                                                       *)
(***************************************************************************)
ValidAt(item, t) == item.valid_from <= t /\ t < item.expires_at

\* Mutant: a revoked parent may still be granted under.
RevokedParentIsSound(granted, withdrawn, spawned, d) ==
  /\ d.origin \in Principals /\ d.delegator \in Principals
  /\ d.grantee \in Agents
  /\ d.resources \subseteq Resources
  /\ d.version \in Policies
  /\ LET parent == IF d.parent \in Ids(granted) THEN ById(granted, d.parent) ELSE None IN
       /\ d.parent # None => parent # None /\ DelegationIsAttenuated(d, parent)
       /\ OwnerChainsHold(d, parent) /\ DelegatorIsAuthorised(spawned, d, parent)

\* What _validate_delegation asks beyond a fresh id and a current validity window.
DelegationIsSound(granted, withdrawn, spawned, d) ==
  /\ d.origin \in Principals /\ d.delegator \in Principals
  /\ d.grantee \in Agents
  /\ d.resources \subseteq Resources
  /\ d.version \in Policies
  /\ IF d.parent = None
       THEN OwnerChainsHold(d, None) /\ DelegatorIsAuthorised(spawned, d, None)
       ELSE /\ d.parent \in Ids(granted) \ withdrawn
            /\ LET parent == ById(granted, d.parent) IN
                 /\ DelegationIsAttenuated(d, parent)
                 /\ OwnerChainsHold(d, parent)
                 /\ DelegatorIsAuthorised(spawned, d, parent)

ValidDelegation(d, t) ==
  /\ d.id \notin Ids(delegations)
  /\ ValidAt(d, t)
  /\ DelegationIsSound(delegations, revoked, runtimes, d)

ValidCredential(c, t) ==
  /\ c.id \notin Ids(credentials)
  /\ c.issuer \in Principals /\ c.subject \in Principals
  /\ c.allowed \subseteq Principals
  /\ ValidAt(c, t)

ValidRuntime(r) ==
  /\ r.id \notin Ids(runtimes)
  /\ r.agent \in Agents /\ r.principal \in Principals /\ r.owner \in Principals
  /\ RuntimePathHolds(r)

ValidProposal(p) ==
  /\ p.grantee \in Agents
  /\ p.origin \in Principals /\ p.delegator \in Principals
  /\ p.resources \subseteq Resources
  /\ p.version \in Policies
  /\ p.parent \in Ids(delegations) \cup {None}

ValidAction(a) ==
  /\ a.credential \in Ids(credentials)
  /\ a.resource \in Resources
  /\ a.action \in ResourceActions[a.resource]
  /\ a.principal_claims \subseteq Principals /\ a.agent_claims \subseteq Agents
  /\ a.evidence \subseteq retained
  /\ a.proposal # None => ValidProposal(a.proposal)

(***************************************************************************)
(* The fold, one action per event type.  Every event first adds the        *)
(* evidence it carries; _validate_order makes timestamps strictly          *)
(* increase.                                                               *)
(***************************************************************************)
Init ==
  /\ as_of = 0
  /\ delegations = {} /\ credentials = {} /\ runtimes = {}
  /\ revoked = {}
  /\ retained = InitialEvidence
  /\ actions = {} /\ audits = {}

Occurs(t) == t > as_of /\ as_of' = t

GrantDelegation(d, refs, t) ==
  /\ Occurs(t)
  /\ ValidDelegation(d, t)
  /\ delegations' = delegations \cup {d}
  /\ retained' = retained \cup refs
  /\ UNCHANGED <<credentials, runtimes, revoked, actions, audits>>

IssueCredential(c, refs, t) ==
  /\ Occurs(t)
  /\ ValidCredential(c, t)
  /\ credentials' = credentials \cup {c}
  /\ retained' = retained \cup refs
  /\ UNCHANGED <<delegations, runtimes, revoked, actions, audits>>

SpawnRuntime(r, refs, t) ==
  /\ Occurs(t)
  /\ ValidRuntime(r)
  /\ runtimes' = runtimes \cup {r}
  /\ retained' = retained \cup refs
  /\ UNCHANGED <<delegations, credentials, revoked, actions, audits>>

\* An attempt is recorded whether or not it is authorised.
AttemptAction(a, refs, t) ==
  /\ Occurs(t)
  /\ ValidAction(a)
  /\ actions' = actions \cup {t}
  /\ retained' = retained \cup refs
  /\ UNCHANGED <<delegations, credentials, runtimes, revoked, audits>>

\* Mutants: the cascade stops after the direct children; there is none.
RevokedWithChildren(id) == {id} \cup {d.id : d \in {e \in delegations : e.parent = id}}
RevokedAlone(id) == {id}

\* Revoking a delegation revokes everything granted below it in the same event.
RevokedBy(id) == {id} \cup {d.id : d \in {e \in delegations : id \in Ancestors(delegations, e)}}

RevokeDelegation(id, refs, t) ==
  /\ Occurs(t)
  /\ id \in Ids(delegations) \ revoked
  /\ revoked' = revoked \cup RevokedBy(id)
  /\ retained' = retained \cup refs
  /\ UNCHANGED <<delegations, credentials, runtimes, actions, audits>>

DiscardEvidence(lost, refs, t) ==
  /\ Occurs(t)
  /\ lost \subseteq retained \cup refs
  /\ lost # {}
  /\ retained' = (retained \cup refs) \ lost
  /\ UNCHANGED <<delegations, credentials, runtimes, revoked, actions, audits>>

PerformAudit(refs, t) ==
  /\ Occurs(t)
  /\ audits' = audits \cup {t}
  /\ retained' = retained \cup refs
  /\ UNCHANGED <<delegations, credentials, runtimes, revoked, actions>>

Next ==
  \E t \in Times, refs \in EvidenceSets :
    \/ \E d \in Delegations : GrantDelegation(d, refs, t)
    \/ \E c \in Credentials : IssueCredential(c, refs, t)
    \/ \E r \in Runtimes : SpawnRuntime(r, refs, t)
    \/ \E a \in Attempts : AttemptAction(a, refs, t)
    \/ \E id \in Ids(Delegations) : RevokeDelegation(id, refs, t)
    \/ \E lost \in EvidenceSets : DiscardEvidence(lost, refs, t)
    \/ PerformAudit(refs, t)

Spec == Init /\ [][Next]_worldVars

-----------------------------------------------------------------------------
\* The reduced state holds records the validators accepted, each under a unique id,
\* and revokes only what was granted.
TypeOK ==
  /\ as_of \in Times \cup {0}
  /\ delegations \subseteq Delegations
  /\ credentials \subseteq Credentials
  /\ runtimes \subseteq Runtimes
  /\ revoked \subseteq Ids(delegations)
  /\ retained \subseteq InitialEvidence \cup UNION EvidenceSets
  /\ actions \subseteq Times /\ audits \subseteq Times
  /\ \A d, e \in delegations : d.id = e.id => d = e

\* A revocation reaches every delegation granted below the revoked one, whatever was
\* granted or revoked in between: nothing in force hangs from something revoked.
RevocationClosed ==
  \A d \in delegations : d.id \notin revoked => Ancestors(delegations, d) \cap revoked = {}

\* Every grant fits, in each field attenuation compares, inside every delegation
\* above it, not only inside its direct parent; so the end of a chain confers
\* nothing its root did not.
AuthorityNeverWidens ==
  \A d \in delegations : \A a \in delegations :
    a.id \in Ancestors(delegations, d) =>
      /\ a.may_delegate
      /\ d.origin = a.origin /\ d.version = a.version /\ d.purpose = a.purpose
      /\ d.resources \subseteq a.resources
      /\ d.actions \subseteq a.actions
      /\ d.scopes \subseteq a.scopes
      /\ a.valid_from <= d.valid_from /\ d.expires_at <= a.expires_at

\* A chain has no cycle and ends in a root whose delegator is its origin or owns
\* every resource it delegates, and every delegator, grantee and resource on the way
\* down belongs to the root grantee's organisation, though each grant is compared
\* with its direct parent only.
ChainsAreRootedInOneOrganisation ==
  \A d \in delegations :
    /\ d.id \notin Ancestors(delegations, d)
    /\ \E root \in delegations :
         LET org == AgentOrg[root.grantee] IN
         /\ root.id \in ChainIds(delegations, d)
         /\ root.parent = None
         /\ root.delegator \in RootDelegators(root)
         /\ AgentOrg[d.grantee] = org /\ PrincipalOrg[d.delegator] = org
         /\ \A r \in d.resources : ResourceOrg[r] = org
=============================================================================
