---------------------------- MODULE AgenticProofs ----------------------------
(***************************************************************************)
(* What holds of the fold, and of the oracle's decisions on it, for every  *)
(* snapshot, every set of payloads and every number of attempts.           *)
(***************************************************************************)
EXTENDS AgenticBenchmark, AgenticWorldRefinement, AgenticTrace, WellFoundedInduction, TLAPS

(***************************************************************************)
(* What holds of the fold for every snapshot and every set of payloads.    *)
(*                                                                         *)
(* The code enforces everything one parent link at a time, so the          *)
(* inductive invariant speaks of one link: a child's parent is granted,    *)
(* the child is attenuated against it, and it is revoked if the parent is. *)
(* Ancestors is the least set closed under "parent of", so a fact that     *)
(* passes from parent to child reaches a whole chain by naming the set of  *)
(* ids that have it and noting that the set is closed; no induction over   *)
(* the chain is needed.                                                    *)
(***************************************************************************)

LinkHolds(d) ==
  d.parent # None =>
    \E p \in delegations :
      /\ p.id = d.parent
      /\ DelegationIsAttenuated(d, p)
      /\ p.id \in revoked => d.id \in revoked

IInv == TypeOK /\ \A d \in delegations : LinkHolds(d)

-----------------------------------------------------------------------------
\* What is closed under "parent of" and holds d's parent holds d's ancestors.
LEMMA AncestorsLeast ==
  ASSUME NEW granted, NEW d, NEW S \in SUBSET Ids(granted),
         d.parent \in S,
         \A e \in granted : e.id \in S => e.parent \in S \cup {None}
  PROVE  Ancestors(granted, d) \subseteq S
BY DEF Ancestors

\* The parent of a delegation is an ancestor of it, and so is every ancestor of the
\* parent.
LEMMA ParentIsAncestor ==
  ASSUME NEW granted, NEW d, NEW p \in granted, d.parent = p.id, p.id # None
  PROVE  p.id \in Ancestors(granted, d) /\ Ancestors(granted, p) \subseteq Ancestors(granted, d)
<1>1. p.id \in Ids(granted)
  BY DEF Ids
<1>2. p.id \in Ancestors(granted, d)
  BY <1>1 DEF Ancestors
<1>3. ASSUME NEW a \in Ancestors(granted, p)
      PROVE  a \in Ancestors(granted, d)
  <2>1. a \in Ids(granted) /\ p.parent # None
    BY <1>3 DEF Ancestors
  <2>2. ASSUME NEW S \in SUBSET Ids(granted),
               d.parent \in S,
               \A e \in granted : e.id \in S => e.parent \in S \cup {None}
        PROVE  a \in S
    <3>1. p.parent \in S
      BY <2>1, <2>2
    <3>2. QED
      BY <1>3, <2>2, <3>1 DEF Ancestors
  <2>3. QED
    BY <2>1, <2>2 DEF Ancestors
<1>4. QED
  BY <1>2, <1>3

\* A revocation takes in, with a parent, its children.
LEMMA RevokedByClosed ==
  ASSUME NEW id, NEW d \in delegations, NEW p \in delegations,
         d.parent = p.id, p.id # None, p.id \in RevokedBy(id)
  PROVE  d.id \in RevokedBy(id)
<1>1. CASE p.id = id
  BY <1>1, ParentIsAncestor DEF RevokedBy
<1>2. CASE p.id # id
  <2>1. PICK e \in delegations : e.id = p.id /\ id \in Ancestors(delegations, e)
    BY <1>2 DEF RevokedBy
  <2>2. e.id # None /\ d.parent = e.id
    BY <2>1
  <2>3. id \in Ancestors(delegations, d)
    BY <2>1, <2>2, ParentIsAncestor
  <2>4. QED
    BY <2>3 DEF RevokedBy
<1>3. QED
  BY <1>1, <1>2

-----------------------------------------------------------------------------
LEMMA InitIInv == Init => IInv
BY DEF Init, IInv, TypeOK, Ids, LinkHolds

LEMMA GrantPreserves ==
  ASSUME IInv, NEW d \in Delegations, NEW refs \in EvidenceSets, NEW t \in Times,
         GrantDelegation(d, refs, t)
  PROVE  IInv'
<1> USE DEF GrantDelegation
<1>1. d.id \notin Ids(delegations)
  BY DEF ValidDelegation
<1>2. TypeOK'
  BY <1>1 DEF IInv, TypeOK, Occurs, Ids
<1>3. d.parent # None =>
        \E p \in delegations : p.id = d.parent /\ p.id \notin revoked /\ DelegationIsAttenuated(d, p)
  <2>1. SUFFICES ASSUME d.parent # None
                 PROVE  \E p \in delegations :
                          p.id = d.parent /\ p.id \notin revoked /\ DelegationIsAttenuated(d, p)
    OBVIOUS
  <2>2. d.parent \in Ids(delegations) \ revoked /\ DelegationIsAttenuated(d, ById(delegations, d.parent))
    BY <2>1 DEF ValidDelegation, DelegationIsSound
  <2>3. ById(delegations, d.parent) \in delegations /\ ById(delegations, d.parent).id = d.parent
    BY <2>2 DEF Ids, ById
  <2>4. QED
    BY <2>2, <2>3
<1>4. ASSUME NEW e \in delegations' PROVE LinkHolds(e)'
  <2>1. CASE e \in delegations
    BY <2>1 DEF IInv, LinkHolds, DelegationIsAttenuated
  <2>2. CASE e = d
    BY <1>3, <2>2 DEF LinkHolds, DelegationIsAttenuated
  <2>3. QED
    BY <2>1, <2>2
<1>5. QED
  BY <1>2, <1>4 DEF IInv

LEMMA RevokePreserves ==
  ASSUME IInv, NEW id, NEW refs \in EvidenceSets, NEW t \in Times,
         RevokeDelegation(id, refs, t)
  PROVE  IInv'
<1> USE DEF RevokeDelegation
<1>1. TypeOK'
  BY DEF IInv, TypeOK, Occurs, RevokedBy, Ids
<1>2. ASSUME NEW d \in delegations PROVE LinkHolds(d)'
  <2>1. SUFFICES ASSUME d.parent # None
                 PROVE  \E p \in delegations : /\ p.id = d.parent
                                               /\ DelegationIsAttenuated(d, p)
                                               /\ p.id \in revoked' => d.id \in revoked'
    BY DEF LinkHolds, DelegationIsAttenuated
  <2>2. PICK p \in delegations : /\ p.id = d.parent
                                 /\ DelegationIsAttenuated(d, p)
                                 /\ p.id \in revoked => d.id \in revoked
    BY <2>1 DEF IInv, LinkHolds
  <2>3. p.id \in RevokedBy(id) => d.id \in RevokedBy(id)
    BY <2>1, <2>2, RevokedByClosed
  <2>4. QED
    BY <2>2, <2>3
<1>3. QED
  BY <1>1, <1>2 DEF IInv

\* Every other event leaves the delegations and the revocations alone.
LEMMA OthersPreserve ==
  ASSUME IInv, TypeOK', UNCHANGED <<delegations, revoked>>
  PROVE  IInv'
BY DEF IInv, LinkHolds, DelegationIsAttenuated

LEMMA NextPreserves == IInv /\ [Next]_worldVars => IInv'
<1> SUFFICES ASSUME IInv, [Next]_worldVars PROVE IInv'
  OBVIOUS
<1>1. CASE UNCHANGED worldVars
  BY <1>1, OthersPreserve DEF worldVars, IInv, TypeOK, Ids
<1>2. CASE Next
  <2>1. PICK t \in Times, refs \in EvidenceSets :
          \/ \E d \in Delegations : GrantDelegation(d, refs, t)
          \/ \E c \in Credentials : IssueCredential(c, refs, t)
          \/ \E r \in Runtimes : SpawnRuntime(r, refs, t)
          \/ \E a \in Attempts : AttemptAction(a, refs, t)
          \/ \E id \in Ids(Delegations) : RevokeDelegation(id, refs, t)
          \/ \E lost \in EvidenceSets : DiscardEvidence(lost, refs, t)
          \/ PerformAudit(refs, t)
    BY <1>2 DEF Next
  <2> USE DEF IInv, TypeOK, Occurs, Ids
  <2>2. CASE \E d \in Delegations : GrantDelegation(d, refs, t)
    BY <2>2, GrantPreserves
  <2>3. CASE \E c \in Credentials : IssueCredential(c, refs, t)
    BY <2>3, OthersPreserve DEF IssueCredential
  <2>4. CASE \E r \in Runtimes : SpawnRuntime(r, refs, t)
    BY <2>4, OthersPreserve DEF SpawnRuntime
  <2>5. CASE \E a \in Attempts : AttemptAction(a, refs, t)
    BY <2>5, OthersPreserve DEF AttemptAction
  <2>6. CASE \E id \in Ids(Delegations) : RevokeDelegation(id, refs, t)
    BY <2>6, RevokePreserves
  <2>7. CASE \E lost \in EvidenceSets : DiscardEvidence(lost, refs, t)
    BY <2>7, OthersPreserve DEF DiscardEvidence
  <2>8. CASE PerformAudit(refs, t)
    BY <2>8, OthersPreserve DEF PerformAudit
  <2>9. QED
    BY <2>1, <2>2, <2>3, <2>4, <2>5, <2>6, <2>7, <2>8
<1>3. QED
  BY <1>1, <1>2

\* The inductive invariant holds in every reachable state of the fold.
THEOREM Invariance == Spec => []IInv
BY InitIInv, NextPreserves, PTL DEF Spec

\* The reduced state is well formed: what the fold keeps is what its validators
\* accepted, under unique ids (replay.py, _reduce).
THEOREM TypeCorrect == Spec => []TypeOK
<1>1. IInv => TypeOK
  BY DEF IInv
<1>2. QED
  BY <1>1, Invariance, PTL

-----------------------------------------------------------------------------
\* Within one link nothing in force hangs from something revoked, so within a chain
\* neither: the ids that are not revoked are closed under "parent of".
LEMMA LinksKeepRevocationClosed == IInv => RevocationClosed
<1> SUFFICES ASSUME IInv, NEW d \in delegations, d.id \notin revoked
             PROVE  Ancestors(delegations, d) \cap revoked = {}
  BY DEF RevocationClosed
<1> DEFINE S == Ids(delegations) \ revoked
<1>1. \A e \in delegations : e.id \in S => e.parent \in S \cup {None}
  BY DEF IInv, LinkHolds, Ids
<1>2. CASE d.parent = None
  BY <1>2 DEF Ancestors
<1>3. CASE d.parent # None
  <2>1. d.parent \in S
    BY <1>1, <1>3 DEF Ids
  <2>2. Ancestors(delegations, d) \subseteq S
    BY <1>1, <2>1, AncestorsLeast
  <2>3. QED
    BY <2>2
<1>4. QED
  BY <1>2, <1>3

\* A revocation reaches every delegation below the revoked one, in every reachable
\* state (replay.py, the DelegationRevoked arm of _apply_event).
THEOREM RevocationReachesDescendants == Spec => []RevocationClosed
BY Invariance, LinksKeepRevocationClosed, PTL

-----------------------------------------------------------------------------
\* What AuthorityNeverWidens says of a delegation and one above it.
Within(d, a) ==
  /\ a.may_delegate
  /\ d.origin = a.origin /\ d.version = a.version /\ d.purpose = a.purpose
  /\ d.resources \subseteq a.resources
  /\ d.actions \subseteq a.actions
  /\ d.scopes \subseteq a.scopes
  /\ a.valid_from <= d.valid_from /\ d.expires_at <= a.expires_at

\* Being attenuated composes along a chain.
LEMMA WithinComposes ==
  ASSUME NEW d \in Delegations, NEW e \in Delegations, NEW p \in Delegations,
         Within(d, e), DelegationIsAttenuated(e, p)
  PROVE  Within(d, p)
<1>1. /\ p.valid_from \in Int /\ p.expires_at \in Int
      /\ d.valid_from \in Int /\ d.expires_at \in Int
      /\ e.valid_from \in Int /\ e.expires_at \in Int
  BY PayloadAssumption
<1>2. p.valid_from <= d.valid_from /\ d.expires_at <= p.expires_at
  BY <1>1 DEF Within, DelegationIsAttenuated
<1>3. QED
  BY <1>2 DEF Within, DelegationIsAttenuated

LEMMA LinksNarrow == IInv => AuthorityNeverWidens
<1> SUFFICES ASSUME IInv, NEW d \in delegations, NEW a \in delegations,
                    a.id \in Ancestors(delegations, d)
             PROVE  Within(d, a)
  BY DEF AuthorityNeverWidens, Within
<1> DEFINE S == {i \in Ids(delegations) : \A e \in delegations : e.id = i => Within(d, e)}
<1>1. delegations \subseteq Delegations /\ \A e, f \in delegations : e.id = f.id => e = f
  BY DEF IInv, TypeOK
<1>2. \A e \in delegations : e.id \in S => e.parent \in S \cup {None}
  <2>1. SUFFICES ASSUME NEW e \in delegations, e.id \in S, e.parent # None
                 PROVE  e.parent \in S
    OBVIOUS
  <2>2. PICK p \in delegations : p.id = e.parent /\ DelegationIsAttenuated(e, p)
    BY <2>1 DEF IInv, LinkHolds
  <2>3. Within(d, p)
    BY <1>1, <2>1, <2>2, WithinComposes
  <2>4. QED
    BY <1>1, <2>2, <2>3 DEF Ids
<1>3. d.parent # None
  BY DEF Ancestors
<1>4. d.parent \in S
  <2>1. PICK p \in delegations : p.id = d.parent /\ DelegationIsAttenuated(d, p)
    BY <1>3 DEF IInv, LinkHolds
  <2>2. Within(d, p)
    BY <2>1 DEF Within, DelegationIsAttenuated
  <2>3. QED
    BY <1>1, <2>1, <2>2 DEF Ids
<1>5. a.id \in S
  BY <1>2, <1>4, AncestorsLeast
<1>6. QED
  BY <1>5

\* The end of a chain confers nothing its root did not, in every reachable state
\* (replay.py, _delegation_is_attenuated).
THEOREM AuthorityOnlyNarrows == Spec => []AuthorityNeverWidens
BY Invariance, LinksNarrow, PTL

-----------------------------------------------------------------------------
\* A grant adds no ancestor to a delegation granted before it.
LEMMA GrantKeepsAncestors ==
  ASSUME IInv, NEW d \in Delegations, d.id \notin Ids(delegations),
         NEW e \in delegations
  PROVE  Ancestors(delegations \cup {d}, e) \subseteq Ancestors(delegations, e)
<1> DEFINE bigger == delegations \cup {d}
<1> SUFFICES ASSUME NEW a \in Ancestors(bigger, e) PROVE a \in Ancestors(delegations, e)
  OBVIOUS
<1>1. e.parent # None
  BY DEF Ancestors
<1>2. ASSUME NEW S \in SUBSET Ids(delegations),
             e.parent \in S,
             \A f \in delegations : f.id \in S => f.parent \in S \cup {None}
      PROVE  a \in S
  <2>1. S \in SUBSET Ids(bigger)
    BY DEF Ids
  <2>2. \A f \in bigger : f.id \in S => f.parent \in S \cup {None}
    BY <1>2
  <2>3. QED
    BY <1>2, <2>1, <2>2, AncestorsLeast
<1>3. a \in Ids(delegations)
  <2>1. \A f \in delegations : f.parent \in Ids(delegations) \cup {None}
    BY DEF IInv, LinkHolds, Ids
  <2>2. Ids(delegations) \in SUBSET Ids(bigger)
    BY DEF Ids
  <2>3. \A f \in bigger : f.id \in Ids(delegations) => f.parent \in Ids(delegations) \cup {None}
    BY <2>1
  <2>4. e.parent \in Ids(delegations)
    BY <1>1, <2>1
  <2>5. QED
    BY <2>2, <2>3, <2>4, AncestorsLeast
<1>4. QED
  BY <1>1, <1>2, <1>3 DEF Ancestors

\* The ancestors of the granted delegation were granted before it.
LEMMA GrantedHasOldAncestors ==
  ASSUME IInv, NEW d \in Delegations, d.id \notin Ids(delegations),
         d.parent \in Ids(delegations) \cup {None}
  PROVE  Ancestors(delegations \cup {d}, d) \subseteq Ids(delegations)
<1> DEFINE bigger == delegations \cup {d}
<1>1. CASE d.parent = None
  BY <1>1 DEF Ancestors
<1>2. CASE d.parent # None
  <2>1. \A f \in bigger : f.id \in Ids(delegations) => f.parent \in Ids(delegations) \cup {None}
    BY DEF IInv, LinkHolds, Ids
  <2>2. Ids(delegations) \in SUBSET Ids(bigger)
    BY DEF Ids
  <2>3. QED
    BY <1>2, <2>1, <2>2, AncestorsLeast
<1>3. QED
  BY <1>1, <1>2

\* The ancestors of a granted delegation stay its ancestors.
LEMMA GrantLosesNoAncestor ==
  ASSUME IInv, NEW d, NEW e \in delegations
  PROVE  Ancestors(delegations, e) \subseteq Ancestors(delegations \cup {d}, e)
<1> SUFFICES ASSUME NEW a \in Ancestors(delegations, e)
             PROVE  a \in Ancestors(delegations \cup {d}, e)
  OBVIOUS
<1>1. a \in Ids(delegations \cup {d}) /\ e.parent # None
  BY DEF Ancestors, Ids
<1>2. ASSUME NEW S \in SUBSET Ids(delegations \cup {d}),
             e.parent \in S,
             \A f \in delegations \cup {d} : f.id \in S => f.parent \in S \cup {None}
      PROVE  a \in S
  <2> DEFINE T == S \cap Ids(delegations)
  <2>1. \A f \in delegations : f.parent \in Ids(delegations) \cup {None}
    BY DEF IInv, LinkHolds, Ids
  <2>2. \A f \in delegations : f.id \in T => f.parent \in T \cup {None}
    BY <1>2, <2>1
  <2>3. T \in SUBSET Ids(delegations) /\ e.parent \in T
    BY <1>1, <1>2, <2>1
  <2>4. QED
    BY <2>2, <2>3, AncestorsLeast
<1>3. QED
  BY <1>1, <1>2 DEF Ancestors

-----------------------------------------------------------------------------
\* What ChainsAreRootedInOneOrganisation says of one delegation.
Rooted(d) ==
  /\ d.id \notin Ancestors(delegations, d)
  /\ \E root \in delegations :
       /\ root.id \in ChainIds(delegations, d)
       /\ root.parent = None
       /\ root.delegator \in RootDelegators(root)
       /\ AgentOrg[d.grantee] = AgentOrg[root.grantee]
       /\ PrincipalOrg[d.delegator] = AgentOrg[root.grantee]
       /\ \A r \in d.resources : ResourceOrg[r] = AgentOrg[root.grantee]

RInv == IInv /\ \A d \in delegations : Rooted(d)

\* A grant leaves earlier chains rooted, and roots the new one: under the root of its
\* parent, or under itself.
LEMMA GrantRoots ==
  ASSUME RInv, NEW d \in Delegations, NEW refs \in EvidenceSets, NEW t \in Times,
         GrantDelegation(d, refs, t)
  PROVE  \A e \in delegations' : Rooted(e)'
<1> DEFINE bigger == delegations \cup {d}
<1>1. delegations' = bigger /\ ValidDelegation(d, t) /\ IInv
  BY DEF GrantDelegation, RInv
<1>2. d.id \notin Ids(delegations) /\ DelegationIsSound(delegations, revoked, runtimes, d)
  BY <1>1 DEF ValidDelegation
<1>3. ASSUME NEW e \in delegations PROVE Rooted(e)'
  <2>1. Ancestors(bigger, e) = Ancestors(delegations, e)
    BY <1>1, <1>2, GrantKeepsAncestors, GrantLosesNoAncestor
  <2>2. ChainIds(bigger, e) = ChainIds(delegations, e)
    BY <2>1 DEF ChainIds
  <2>3. Rooted(e)
    BY DEF RInv
  <2>4. QED
    BY <1>1, <2>1, <2>2, <2>3 DEF Rooted
<1>4. Rooted(d)'
  <2>1. d.parent \in Ids(delegations) \cup {None}
    BY <1>2 DEF DelegationIsSound
  <2>2. d.id \notin Ancestors(bigger, d)
    BY <1>1, <1>2, <2>1, GrantedHasOldAncestors
  <2>3. CASE d.parent = None
    <3>1. DelegatorIsAuthorised(runtimes, d, None)
      BY <1>2, <2>3 DEF DelegationIsSound
    <3>2. d.delegator \in RootDelegators(d) /\ OrganisationIsCoherent(d)
      BY <3>1 DEF DelegatorIsAuthorised
    <3>3. d \in bigger /\ d.id \in ChainIds(bigger, d)
      BY DEF ChainIds
    <3>4. QED
      BY <1>1, <2>2, <2>3, <3>2, <3>3 DEF Rooted, OrganisationIsCoherent
  <2>4. CASE d.parent # None
    <3> DEFINE p == ById(delegations, d.parent)
    <3>1. p \in delegations /\ p.id = d.parent /\ DelegatorIsAuthorised(runtimes, d, p)
      <4>1. d.parent \in Ids(delegations)
        BY <2>1, <2>4
      <4>2. p \in delegations /\ p.id = d.parent
        BY <4>1 DEF Ids, ById
      <4>3. QED
        BY <1>2, <2>4, <4>2 DEF DelegationIsSound
    <3>2. p # None
      BY <1>1, <3>1, PayloadAssumption DEF IInv, TypeOK
    <3>3. OrganisationIsCoherent(d) /\ AgentOrg[p.grantee] = AgentOrg[d.grantee]
      BY <3>1, <3>2 DEF DelegatorIsAuthorised, ParentAgentMatches
    <3>4. PICK root \in delegations :
            /\ root.id \in ChainIds(delegations, p)
            /\ root.parent = None
            /\ root.delegator \in RootDelegators(root)
            /\ AgentOrg[p.grantee] = AgentOrg[root.grantee]
      BY <3>1 DEF RInv, Rooted
    <3>5. root.id \in ChainIds(bigger, d)
      <4>1. p \in bigger /\ d.parent = p.id /\ p.id # None
        BY <2>4, <3>1
      <4>2. p.id \in Ancestors(bigger, d) /\ Ancestors(bigger, p) \subseteq Ancestors(bigger, d)
        BY <4>1, ParentIsAncestor
      <4>3. Ancestors(delegations, p) \subseteq Ancestors(bigger, p)
        BY <1>1, <3>1, GrantLosesNoAncestor
      <4>4. QED
        BY <3>4, <4>2, <4>3 DEF ChainIds
    <3>6. QED
      BY <1>1, <2>2, <3>3, <3>4, <3>5 DEF Rooted, OrganisationIsCoherent
  <2>5. QED
    BY <2>3, <2>4
<1>5. QED
  BY <1>1, <1>3, <1>4

LEMMA RInvPreserved == RInv /\ [Next]_worldVars => RInv'
<1> SUFFICES ASSUME RInv, [Next]_worldVars PROVE RInv'
  OBVIOUS
<1>1. IInv'
  BY NextPreserves DEF RInv
<1>2. CASE delegations' = delegations
  BY <1>1, <1>2 DEF RInv, Rooted
<1>3. CASE \E t \in Times, refs \in EvidenceSets, d \in Delegations : GrantDelegation(d, refs, t)
  BY <1>1, <1>3, GrantRoots DEF RInv
<1>4. QED
  BY <1>2, <1>3 DEF Next, worldVars, IssueCredential, SpawnRuntime, AttemptAction,
     RevokeDelegation, DiscardEvidence, PerformAudit

\* Every chain is acyclic, ends in a properly granted root and stays in the root's
\* organisation, in every reachable state (relationships.py).
THEOREM ChainsStayRooted == Spec => []ChainsAreRootedInOneOrganisation
<1>1. Init => RInv
  BY InitIInv DEF Init, RInv
<1>2. RInv => ChainsAreRootedInOneOrganisation
  BY DEF RInv, Rooted, ChainsAreRootedInOneOrganisation
<1>3. QED
  BY <1>1, <1>2, RInvPreserved, PTL DEF Spec

------------------------------------------------------------------------------
(***************************************************************************)
(* The fold implements the ledger.  A grant is an Enter because            *)
(* attenuation field by field makes what is conferred a subset; a          *)
(* revocation is a Withdraw because the upward search of every delegation  *)
(* for the revoked one finds exactly the branch that hangs from it.        *)
(***************************************************************************)
\* Attenuation compares fields; what a child confers is then part of what its parent
\* confers.
LEMMA AttenuatedConfersLess ==
  ASSUME NEW d \in Delegations, NEW p \in Delegations, DelegationIsAttenuated(d, p)
  PROVE  Ledger!Conferred(d) \subseteq Ledger!Conferred(p)
<1>1. /\ d.valid_from \in Int /\ d.expires_at \in Int
      /\ p.valid_from \in Int /\ p.expires_at \in Int
  BY PayloadAssumption
<1>2. d.valid_from .. (d.expires_at - 1) \subseteq p.valid_from .. (p.expires_at - 1)
  BY <1>1 DEF DelegationIsAttenuated
<1>3. QED
  BY <1>2 DEF Ledger!Conferred, DelegationIsAttenuated

LEMMA GrantEnters ==
  ASSUME IInv, NEW d \in Delegations, NEW refs \in EvidenceSets, NEW t \in Times,
         GrantDelegation(d, refs, t)
  PROVE  Ledger!Enter(d)
<1>1. /\ d.id \notin Ids(delegations)
      /\ DelegationIsSound(delegations, revoked, runtimes, d)
      /\ delegations' = delegations \cup {d} /\ revoked' = revoked
  BY DEF GrantDelegation, ValidDelegation
<1>2. Used' = Used \cup {d.id}
  BY <1>1 DEF Used, Ids
<1>3. InForce' = InForce \cup {d}
  BY <1>1 DEF InForce, IInv, TypeOK
<1>4. d.parent = None \/ \E p \in InForce : d.parent = p.id /\ Ledger!Conferred(d) \subseteq Ledger!Conferred(p)
  <2>1. CASE d.parent # None
    <3> DEFINE p == ById(delegations, d.parent)
    <3>1. d.parent \in Ids(delegations) /\ d.parent \notin revoked /\ DelegationIsAttenuated(d, p)
      BY <1>1, <2>1 DEF DelegationIsSound
    <3>2. p \in delegations /\ p.id = d.parent
      BY <3>1 DEF Ids, ById
    <3>3. p \in InForce /\ p \in Delegations
      BY <3>1, <3>2 DEF InForce, IInv, TypeOK
    <3>4. QED
      BY <3>1, <3>2, <3>3, AttenuatedConfersLess
  <2>2. QED
    BY <2>1
<1>5. QED
  BY <1>1, <1>2, <1>3, <1>4 DEF Ledger!Enter, Used

\* What a revocation takes of what is in force lies on the branch of the revoked
\* delegation.  If e did not, the ids of what is in force off the branch would be
\* closed under "parent of" and hold e's parent, hence its ancestors, hence x.
LEMMA RevokedIsOnTheBranch ==
  ASSUME IInv, NEW x \in InForce, NEW e \in InForce, e.id \in RevokedBy(x.id)
  PROVE  e \in Ledger!Branch(x)
<1> SUFFICES ASSUME NEW S \in SUBSET InForce,
                    x \in S,
                    \A f \in InForce : (\E p \in S : f.parent = p.id) => f \in S,
                    e \notin S
             PROVE  FALSE
  BY DEF Ledger!Branch
<1> DEFINE T == {f.id : f \in InForce \ S}
<1>1. \A f, g \in delegations : f.id = g.id => f = g
  BY DEF IInv, TypeOK
<1>2. \A f \in InForce \ S : f.parent \in T \cup {None}
  <2>1. SUFFICES ASSUME NEW f \in InForce \ S, f.parent # None PROVE f.parent \in T
    OBVIOUS
  <2>2. PICK p \in delegations : p.id = f.parent /\ (p.id \in revoked => f.id \in revoked)
    BY <2>1 DEF IInv, LinkHolds, InForce
  <2>3. p \in InForce /\ p \notin S
    BY <2>1, <2>2 DEF InForce
  <2>4. QED
    BY <2>2, <2>3
<1>3. \A f \in delegations : f.id \in T => f.parent \in T \cup {None}
  BY <1>1, <1>2 DEF InForce
<1>4. e.id # x.id
  BY <1>1 DEF InForce
<1>5. x.id \in Ancestors(delegations, e)
  BY <1>1, <1>4 DEF RevokedBy, InForce
<1>6. e.parent \in T
  BY <1>2, <1>5 DEF Ancestors
<1>7. x.id \in T
  <2>1. T \in SUBSET Ids(delegations)
    BY DEF Ids, InForce
  <2>2. QED
    BY <1>3, <1>5, <1>6, <2>1, AncestorsLeast
<1>8. QED
  BY <1>1, <1>7 DEF InForce

LEMMA RevokeWithdraws ==
  ASSUME IInv, NEW id, NEW refs \in EvidenceSets, NEW t \in Times,
         RevokeDelegation(id, refs, t)
  PROVE  \E x \in InForce : Ledger!Withdraw(x)
<1>1. /\ id \in Ids(delegations) \ revoked
      /\ delegations' = delegations /\ revoked' = revoked \cup RevokedBy(id)
  BY DEF RevokeDelegation
<1>2. PICK x \in InForce : x.id = id
  BY <1>1 DEF Ids, InForce
<1>3. InForce' = {e \in InForce : e.id \notin RevokedBy(id)}
  BY <1>1 DEF InForce
<1>4. ASSUME NEW e \in Ledger!Branch(x) PROVE e.id \in RevokedBy(id)
  <2> DEFINE S == {f \in InForce : f.id \in RevokedBy(id)}
  <2>1. x \in S
    BY <1>2 DEF RevokedBy
  <2>2. \A f \in InForce : (\E p \in S : f.parent = p.id) => f \in S
    <3>1. SUFFICES ASSUME NEW f \in InForce, NEW p \in S, f.parent = p.id
                   PROVE  f.id \in RevokedBy(id)
      OBVIOUS
    <3>2. f \in delegations /\ p \in delegations /\ p.id # None
      BY PayloadAssumption DEF InForce, IInv, TypeOK
    <3>3. QED
      BY <3>1, <3>2, RevokedByClosed
  <2>3. QED
    BY <2>1, <2>2 DEF Ledger!Branch
<1>5. \A e \in InForce : e.id \in RevokedBy(id) => e \in Ledger!Branch(x)
  BY <1>2, RevokedIsOnTheBranch
<1>6. InForce' = InForce \ Ledger!Branch(x)
  BY <1>3, <1>4, <1>5
<1>7. QED
  BY <1>1, <1>6 DEF Ledger!Withdraw, Used

LEMMA StepImplementsLedger ==
  IInv /\ [Next]_worldVars => [Ledger!Next]_(Ledger!ledgerVars)
<1> SUFFICES ASSUME IInv, [Next]_worldVars PROVE [Ledger!Next]_(Ledger!ledgerVars)
  OBVIOUS
<1>1. CASE delegations' = delegations /\ revoked' = revoked
  BY <1>1 DEF Ledger!ledgerVars, InForce, Used, Ids
<1>2. CASE \E t \in Times, refs \in EvidenceSets, d \in Delegations : GrantDelegation(d, refs, t)
  BY <1>2, GrantEnters DEF Ledger!Next
<1>3. CASE \E t \in Times, refs \in EvidenceSets, id \in Ids(Delegations) : RevokeDelegation(id, refs, t)
  BY <1>3, RevokeWithdraws DEF Ledger!Next
<1>4. QED
  BY <1>1, <1>2, <1>3 DEF Next, worldVars, IssueCredential, SpawnRuntime, AttemptAction,
     DiscardEvidence, PerformAudit

\* Every behaviour of the fold is, through what is in force, a behaviour of the ledger
\* (replay.py, _apply_event).
THEOREM WorldImplementsLedger == Spec => ImplementsLedger
<1>1. Init => Ledger!Init
  BY DEF Init, Ledger!Init, InForce, Used, Ids
<1>2. QED
  BY <1>1, Invariance, StepImplementsLedger, PTL DEF Spec, ImplementsLedger, Ledger!Spec

-----------------------------------------------------------------------------
(***************************************************************************)
(* What holds of the oracle's decisions for every snapshot, every set of   *)
(* payloads and every number of attempts.                                  *)
(*                                                                         *)
(* The oracle looks at one prefix state at a time, so the first half of    *)
(* the module is about a prefix state that is Sound: what the invariants   *)
(* of the fold say of the current state, said of a record.  Its decisions  *)
(* follow from the one delegation it selects, the one with the least id.   *)
(* The second half shows that the states the benchmark keeps are sound and *)
(* that the audit's has only grown since the action's.                     *)
(***************************************************************************)

UniqueIds(items) == \A x, y \in items : x.id = y.id => x = y

\* What the fold's own validators ensure of each record when it is added.
Admitted(st, t) ==
  /\ st.delegations \subseteq Delegations /\ UniqueIds(st.delegations)
  /\ st.credentials \subseteq Credentials /\ UniqueIds(st.credentials)
  /\ UniqueIds(st.runtimes)
  /\ \A d \in st.delegations : d.valid_from <= t /\ OrganisationIsCoherent(d)
  /\ \A c \in st.credentials : c.valid_from <= t
  /\ \A r \in st.runtimes : r.principal \in Principals /\ RuntimePathHolds(r)

\* What the links of its delegations give whole chains.
ChainsHold(st) ==
  \A d \in st.delegations :
    /\ d.id \notin st.revoked => Ancestors(st.delegations, d) \cap st.revoked = {}
    /\ \A e \in st.delegations : e.id \in Ancestors(st.delegations, d) => Within(d, e)
    /\ \E root \in st.delegations : root.id \in ChainIds(st.delegations, d) /\ root.parent = None

Sound(st, t) == Admitted(st, t) /\ ChainsHold(st)

-----------------------------------------------------------------------------
\* A set of numbers has a least element.
LEMMA LeastNumber ==
  ASSUME NEW T \in SUBSET Nat, T # {}
  PROVE  \E x \in T : \A y \in T : x <= y
<1>1. PICK x \in T : \A y \in T : <<y, x>> \notin OpToRel(<, Nat)
  BY WFMin, NatLessThanWellFounded, Zenon
<1>2. \A y \in T : ~ (y < x)
  BY <1>1, Zenon DEF OpToRel
<1>3. QED
  BY <1>2

\* Among delegations the tie-break by id selects one of them.
LEMMA SelectedIsOne ==
  ASSUME NEW capable \in SUBSET Delegations, capable # {}
  PROVE  Selected(capable) \in capable
<1>1. Ids(capable) \in SUBSET Nat /\ Ids(capable) # {}
  BY PayloadAssumption DEF Ids
<1>2. PICK x \in Ids(capable) : \A y \in Ids(capable) : x <= y
  BY <1>1, LeastNumber
<1>3. \E d \in capable : \A e \in capable : d.id <= e.id
  BY <1>2 DEF Ids
<1>4. QED
  BY <1>3 DEF Selected

\* A record under a unique id is the one looked up.
LEMMA LookUp ==
  ASSUME NEW items, UniqueIds(items), NEW item \in items
  PROVE  ById(items, item.id) = item
BY DEF UniqueIds, ById

-----------------------------------------------------------------------------
\* What an allow says of the selected delegation.
LEMMA AllowSelects ==
  ASSUME NEW st, NEW a, NEW b, NEW t, Sound(st, t), Allows(st, a, b, t)
  PROVE  LET s == Selected(Capable(st, a, b, t)) IN
         /\ Capable(st, a, b, t) # {}
         /\ s \in st.delegations /\ s \in Delegations
         /\ s.grantee = b.agent /\ s.origin = b.origin
         /\ s.id \notin st.revoked
         /\ ValidAt(s, t) /\ CapabilityAllows(s, a)
         /\ s.version = a.version
<1> DEFINE capable == Capable(st, a, b, t)
<1>1. ResolutionFailure(st, a, b, t) \notin FailureReason
  BY DEF Allows, Failures
<1>2. capable # {}
  BY <1>1 DEF ResolutionFailure, FailureReason
<1>3. capable \in SUBSET Delegations
  BY DEF Sound, Admitted, Capable, Active, TimeValid
<1>4. Selected(capable) \in capable
  BY <1>2, <1>3, SelectedIsOne
<1>5. EffectiveVersion(st, a, b, t) = a.version
  BY <1>1, <1>2 DEF ResolutionFailure, FailureReason
<1>6. Selected(capable).version = a.version
  BY <1>2, <1>5 DEF EffectiveVersion
<1>7. QED
  BY <1>2, <1>3, <1>4, <1>6 DEF Capable, Active, TimeValid

\* What an allow says of the runtime and the credential.
LEMMA AllowIdentifies ==
  ASSUME NEW st, NEW a, NEW b, NEW t, Allows(st, a, b, t)
  PROVE  /\ \E r \in st.runtimes : r.id = b.runtime /\ r.agent = b.agent /\ r.principal = b.principal
         /\ CredentialHolds(st, a, b, t)
         /\ b.principal \in ById(st.credentials, a.credential).allowed
         /\ ~ ProposalIsOverprivileged(st, a, b, t)
BY DEF Allows, Failures, FailureReason, RuntimeIsWrong

\* A delegation of a chain is the selected one or above it.
LEMMA ChainMember ==
  ASSUME NEW st, NEW a, NEW b, NEW t, Sound(st, t), Allows(st, a, b, t),
         NEW id \in Chain(st, a, b, t)
  PROVE  LET s == Selected(Capable(st, a, b, t))  d == ById(st.delegations, id) IN
         /\ d \in st.delegations /\ d.id = id
         /\ id \notin st.revoked
         /\ d = s \/ Within(s, d)
<1> DEFINE s == Selected(Capable(st, a, b, t))
<1> DEFINE d == ById(st.delegations, id)
<1>1. s \in st.delegations /\ s.id \notin st.revoked
  BY AllowSelects
<1>2. id \in ChainIds(st.delegations, s)
  BY AllowSelects DEF Chain
<1>3. d \in st.delegations /\ d.id = id
  BY <1>1, <1>2 DEF ChainIds, Ancestors, Ids, ById
<1>4. CASE id = s.id
  BY <1>1, <1>3, <1>4 DEF Sound, Admitted, UniqueIds
<1>5. CASE id \in Ancestors(st.delegations, s)
  BY <1>1, <1>3, <1>5 DEF Sound, ChainsHold
<1>6. QED
  BY <1>2, <1>4, <1>5 DEF ChainIds

-----------------------------------------------------------------------------
\* What AllowIsBackedToTheRoot says of one judgement.
Backed(st, a, b, t) ==
  LET org == AgentOrg[b.agent] IN
  /\ PrincipalOrg[b.principal] = org
  /\ ById(st.runtimes, b.runtime).org = org
  /\ \E id \in Chain(st, a, b, t) : ByIdIn(st, id).parent = None
  /\ \A id \in Chain(st, a, b, t) :
       LET d == ByIdIn(st, id) IN
       /\ id \notin st.revoked
       /\ ValidAt(d, t)
       /\ CapabilityAllows(d, a)
       /\ d.version = a.version /\ d.origin = b.origin
       /\ PrincipalOrg[d.delegator] = org /\ AgentOrg[d.grantee] = org

\* A principal is the first of its own chain of owners.
LEMMA OwnsItself ==
  ASSUME NEW p \in Principals
  PROVE  p \in OwnerChain(p)
BY DEF OwnerChain, OwnerChains

LEMMA AllowIsBacked ==
  ASSUME NEW st, NEW a, NEW b, NEW t \in Int, Sound(st, t), Allows(st, a, b, t)
  PROVE  Backed(st, a, b, t)
<1> DEFINE s == Selected(Capable(st, a, b, t))
<1> DEFINE org == AgentOrg[b.agent]
<1>1. /\ s \in st.delegations /\ s \in Delegations
      /\ s.grantee = b.agent /\ s.origin = b.origin
      /\ ValidAt(s, t) /\ CapabilityAllows(s, a)
      /\ s.version = a.version
      /\ Capable(st, a, b, t) # {}
  BY AllowSelects
<1>2. PICK r \in st.runtimes : r.id = b.runtime /\ r.agent = b.agent /\ r.principal = b.principal
  BY AllowIdentifies
<1>3. r.org = org /\ PrincipalOrg[b.principal] = org
  <2>1. r.principal \in Principals /\ RuntimePathHolds(r)
    BY DEF Sound, Admitted
  <2>2. r.principal \in RuntimePath(r)
    BY <2>1, OwnsItself DEF RuntimePath, RuntimePathHolds
  <2>3. QED
    BY <1>2, <2>1, <2>2 DEF RuntimePathHolds
<1>4. ById(st.runtimes, b.runtime) = r
  BY <1>2, LookUp DEF Sound, Admitted
<1>5. \E id \in Chain(st, a, b, t) : ByIdIn(st, id).parent = None
  <2>1. PICK root \in st.delegations : root.id \in ChainIds(st.delegations, s) /\ root.parent = None
    BY <1>1 DEF Sound, ChainsHold
  <2>2. root.id \in Chain(st, a, b, t)
    BY <1>1, <2>1 DEF Chain
  <2>3. ByIdIn(st, root.id) = root
    BY LookUp DEF Sound, Admitted, ByIdIn
  <2>4. QED
    BY <2>1, <2>2, <2>3
<1>6. ASSUME NEW id \in Chain(st, a, b, t)
      PROVE  LET d == ByIdIn(st, id) IN
             /\ id \notin st.revoked
             /\ ValidAt(d, t)
             /\ CapabilityAllows(d, a)
             /\ d.version = a.version /\ d.origin = b.origin
             /\ PrincipalOrg[d.delegator] = org /\ AgentOrg[d.grantee] = org
  <2> DEFINE d == ById(st.delegations, id)
  <2>1. d \in st.delegations /\ id \notin st.revoked /\ (d = s \/ Within(s, d))
    BY ChainMember
  <2>2. d.origin = s.origin /\ d.version = s.version
    BY <2>1 DEF Within
  <2>3. OrganisationIsCoherent(d) /\ OrganisationIsCoherent(s)
    BY <1>1, <2>1 DEF Sound, Admitted
  <2>4. AgentOrg[d.grantee] = org /\ PrincipalOrg[d.delegator] = org
    BY <1>1, <2>2, <2>3 DEF OrganisationIsCoherent
  <2>5. ValidAt(d, t)
    <3>1. /\ d.valid_from \in Int /\ d.expires_at \in Int
          /\ s.valid_from \in Int /\ s.expires_at \in Int
      BY <1>1, <2>1, PayloadAssumption DEF Sound, Admitted
    <3>2. QED
      BY <1>1, <2>1, <3>1 DEF ValidAt, Within
  <2>6. CapabilityAllows(d, a)
    BY <1>1, <2>1 DEF CapabilityAllows, Within
  <2>7. QED
    BY <1>1, <2>1, <2>2, <2>4, <2>5, <2>6 DEF ByIdIn
<1>7. QED
  BY <1>3, <1>4, <1>5, <1>6 DEF Backed

\* What _validate_delegation asks of a proposal itself, when the action is attempted.
ProposalIsKnown(p) ==
  /\ p.grantee \in Agents
  /\ p.origin \in Principals /\ p.delegator \in Principals
  /\ p.resources \subseteq Resources
  /\ p.version \in Policies

LEMMA AllowedProposalIsSound ==
  ASSUME NEW st, NEW a, NEW b, NEW t, Sound(st, t), Allows(st, a, b, t),
         a.proposal # None, ProposalIsKnown(a.proposal), ~ EvaluationRaises(st, a, b, t)
  PROVE  DelegationIsSound(st.delegations, st.revoked, st.runtimes, a.proposal)
<1> DEFINE s == Selected(Capable(st, a, b, t))
<1> DEFINE p == a.proposal
<1>1. /\ s \in st.delegations /\ s \in Delegations
      /\ s.id \notin st.revoked
      /\ Capable(st, a, b, t) # {}
  BY AllowSelects
<1>2. DelegationIsAttenuated(p, s) /\ DelegatorIsAuthorised(st.runtimes, p, s)
  BY <1>1, AllowIdentifies DEF ProposalIsOverprivileged
<1>3. OwnerChainsHold(p, s)
  BY <1>1, <1>2 DEF EvaluationRaises
<1>4. p.parent = s.id /\ p.parent # None
  BY <1>1, <1>2, PayloadAssumption DEF DelegationIsAttenuated
<1>5. p.parent \in Ids(st.delegations) \ st.revoked /\ ById(st.delegations, p.parent) = s
  BY <1>1, <1>4, LookUp DEF Sound, Admitted, Ids
<1>6. QED
  BY <1>2, <1>3, <1>4, <1>5 DEF DelegationIsSound, ProposalIsKnown

\* The evidence a decision needs names the version every delegation behind it was
\* granted under.
LEMMA EvidenceNamesTheChain ==
  ASSUME NEW st, NEW a, NEW b, NEW t, Sound(st, t),
         NEW d \in st.delegations, d.id \in Chain(st, a, b, t)
  PROVE  {<<"delegation", d.id>>, <<"policy", d.version>>} \subseteq RequiredEvidence(st, a, b, t)
<1> DEFINE capable == Capable(st, a, b, t)
<1> DEFINE s == Selected(capable)
<1>1. capable # {} /\ d.id \in ChainIds(st.delegations, s)
  BY DEF Chain
<1>2. capable \in SUBSET Delegations
  BY DEF Sound, Admitted, Capable, Active, TimeValid
<1>3. s \in st.delegations
  BY <1>1, <1>2, SelectedIsOne DEF Capable, Active, TimeValid
<1>4. d.version = s.version
  BY <1>1, <1>3 DEF ChainIds, Sound, Admitted, UniqueIds, ChainsHold, Within
<1>5. EffectiveVersion(st, a, b, t) = d.version
  BY <1>1, <1>4 DEF EffectiveVersion
<1>6. QED
  BY <1>5 DEF RequiredEvidence

-----------------------------------------------------------------------------
(***************************************************************************)
(* Two decisions about the same attempt, on a prefix and on a later one.   *)
(***************************************************************************)
\* Nothing is taken away between a prefix and a later one, revocations included.
Grew(st, later) ==
  /\ st.delegations \subseteq later.delegations
  /\ st.credentials \subseteq later.credentials
  /\ st.runtimes \subseteq later.runtimes
  /\ st.revoked \subseteq later.revoked

\* Without a proposal of its own an attempt is allowed by a capable delegation that
\* names its policy version, a credential that holds and admits the runtime's
\* principal, and a runtime that is there.
LEMMA WhatAllows ==
  ASSUME NEW st, NEW a, NEW b, NEW t, Sound(st, t), a.proposal = None,
         NEW d \in Capable(st, a, b, t), d.version = a.version, ~ AuthorityIsAmbiguous(st, a, b, t),
         \E r \in st.runtimes : r.id = b.runtime /\ r.agent = b.agent /\ r.principal = b.principal,
         CredentialHolds(st, a, b, t),
         b.principal \in ById(st.credentials, a.credential).allowed,
         PrincipalOrg[b.origin] = AgentOrg[b.agent] /\ AgentOrg[b.agent] = ResourceOrg[a.resource],
         a.version \in Policies
  PROVE  Allows(st, a, b, t)
<1> DEFINE capable == Capable(st, a, b, t)
<1>1. capable \in SUBSET Delegations
  BY DEF Sound, Admitted, Capable, Active, TimeValid
<1>2. Selected(capable) \in capable
  BY <1>1, SelectedIsOne
<1>3. EffectiveVersion(st, a, b, t) = a.version
  BY <1>2 DEF EffectiveVersion, AuthorityIsAmbiguous
<1>4. ResolutionFailure(st, a, b, t) = None
  BY <1>3 DEF ResolutionFailure
<1>5. ~ RuntimeIsWrong(st, a, b, t) /\ ~ ProposalIsOverprivileged(st, a, b, t)
  BY DEF RuntimeIsWrong, ProposalIsOverprivileged
<1>6. QED
  BY <1>4, <1>5, ReasonAssumption DEF Allows, Failures

\* A credential that holds later was issued with the prefix, if its id was.
LEMMA SameCredential ==
  ASSUME NEW st, NEW later, NEW a, NEW b, NEW t, NEW u,
         Sound(st, t), Sound(later, u), Grew(st, later), ValidBinding(st, a, b)
  PROVE  \E c \in st.credentials :
           /\ c.id = a.credential /\ c.subject = b.subject
           /\ c = ById(st.credentials, a.credential)
           /\ c = ById(later.credentials, a.credential)
           /\ CredentialHolds(later, a, b, u) <=> ValidAt(c, u)
<1>1. PICK c \in st.credentials : c.id = a.credential /\ c.subject = b.subject
  BY DEF ValidBinding
<1>2. c \in later.credentials
  BY DEF Grew
<1>3. c = ById(st.credentials, a.credential) /\ c = ById(later.credentials, a.credential)
  BY <1>1, <1>2, LookUp DEF Sound, Admitted
<1>4. CredentialHolds(later, a, b, u) <=> ValidAt(c, u)
  BY <1>1, <1>2 DEF CredentialHolds, Sound, Admitted, UniqueIds
<1>5. QED
  BY <1>1, <1>3, <1>4

\* What is denied and allowed later is covered later by a grant made in between.
LEMMA DenialTurnsRound ==
  ASSUME NEW st, NEW later, NEW a, NEW b, NEW t \in Int, NEW u \in Int, t < u,
         Sound(st, t), Sound(later, u), Grew(st, later), ValidBinding(st, a, b),
         a.proposal = None, ~ AuthorityIsAmbiguous(st, a, b, t),
         ~ Allows(st, a, b, t), Allows(later, a, b, u)
  PROVE  Selected(Capable(later, a, b, u)) \notin st.delegations
<1> DEFINE d == Selected(Capable(later, a, b, u))
<1> SUFFICES ASSUME d \in st.delegations PROVE FALSE
  OBVIOUS
<1>1. /\ d \in Delegations /\ d.grantee = b.agent /\ d.origin = b.origin
      /\ d.id \notin later.revoked
      /\ ValidAt(d, u) /\ CapabilityAllows(d, a) /\ d.version = a.version
  BY AllowSelects
<1>2. d \in Capable(st, a, b, t)
  <2>1. d.valid_from <= t /\ d.valid_from \in Int /\ d.expires_at \in Int
    BY <1>1, PayloadAssumption DEF Sound, Admitted
  <2>2. ValidAt(d, t)
    BY <1>1, <2>1 DEF ValidAt
  <2>3. QED
    BY <1>1, <2>2 DEF Capable, Active, TimeValid, Grew
<1>3. PICK c \in st.credentials :
        /\ c.id = a.credential /\ c.subject = b.subject
        /\ c = ById(st.credentials, a.credential)
        /\ c = ById(later.credentials, a.credential)
        /\ CredentialHolds(later, a, b, u) <=> ValidAt(c, u)
  BY SameCredential, Z3
<1>4. ValidAt(c, u) /\ b.principal \in c.allowed
  BY <1>3, AllowIdentifies
<1>5. CredentialHolds(st, a, b, t)
  <2>1. c.valid_from <= t /\ c.valid_from \in Int /\ c.expires_at \in Int
    BY PayloadAssumption DEF Sound, Admitted
  <2>2. ValidAt(c, t)
    BY <1>4, <2>1 DEF ValidAt
  <2>3. QED
    BY <1>3, <2>2 DEF CredentialHolds
<1>6. \E r \in st.runtimes : r.id = b.runtime /\ r.agent = b.agent /\ r.principal = b.principal
  BY DEF ValidBinding
<1>7. /\ PrincipalOrg[b.origin] = AgentOrg[b.agent] /\ AgentOrg[b.agent] = ResourceOrg[a.resource]
      /\ a.version \in Policies
  BY DEF Allows, Failures, FailureReason
<1>8. QED
  BY <1>1, <1>2, <1>3, <1>4, <1>5, <1>6, <1>7, WhatAllows

\* What is allowed and denied later has lost its delegation or its credential.
LEMMA AllowTurnsRound ==
  ASSUME NEW st, NEW later, NEW a, NEW b, NEW t, NEW u,
         Sound(st, t), Sound(later, u), Grew(st, later), ValidBinding(st, a, b),
         a.proposal = None, ~ AuthorityIsAmbiguous(later, a, b, u),
         Allows(st, a, b, t), ~ Allows(later, a, b, u)
  PROVE  LET d == Selected(Capable(st, a, b, t)) IN
         \/ d.id \in later.revoked
         \/ ~ ValidAt(d, u)
         \/ ~ ValidAt(ById(st.credentials, a.credential), u)
<1> DEFINE d == Selected(Capable(st, a, b, t))
<1> SUFFICES ASSUME d.id \notin later.revoked, ValidAt(d, u),
                    ValidAt(ById(st.credentials, a.credential), u)
             PROVE  FALSE
  OBVIOUS
<1>1. /\ d \in st.delegations /\ d.grantee = b.agent /\ d.origin = b.origin
      /\ CapabilityAllows(d, a) /\ d.version = a.version
  BY AllowSelects
<1>2. d \in Capable(later, a, b, u)
  BY <1>1 DEF Capable, Active, TimeValid, Grew
<1>3. PICK c \in st.credentials :
        /\ c = ById(st.credentials, a.credential)
        /\ c = ById(later.credentials, a.credential)
        /\ CredentialHolds(later, a, b, u) <=> ValidAt(c, u)
  BY SameCredential
<1>4. CredentialHolds(later, a, b, u) /\ b.principal \in ById(later.credentials, a.credential).allowed
  BY <1>3, AllowIdentifies
<1>5. \E r \in later.runtimes : r.id = b.runtime /\ r.agent = b.agent /\ r.principal = b.principal
  BY DEF ValidBinding, Grew
<1>6. /\ PrincipalOrg[b.origin] = AgentOrg[b.agent] /\ AgentOrg[b.agent] = ResourceOrg[a.resource]
      /\ a.version \in Policies
  BY DEF Allows, Failures, FailureReason
<1>7. QED
  BY <1>1, <1>2, <1>4, <1>5, <1>6, WhatAllows

-----------------------------------------------------------------------------
(***************************************************************************)
(* The states the benchmark keeps.                                         *)
(***************************************************************************)
\* What a row keeps is a prefix it was decidable on.
RowHolds(row) ==
  /\ row.event \in Int /\ row.event <= as_of
  /\ Sound(row.before, row.event)
  /\ Grew(row.before, State)
  /\ ValidBinding(row.before, row.attempt, row.binding)
  /\ row.attempt.proposal # None => ProposalIsKnown(row.attempt.proposal)
  /\ ~ EvaluationRaises(row.before, row.attempt, row.binding, row.event)

AuditHolds ==
  /\ audit.event \in Int /\ audit.event <= as_of
  /\ Sound(audit.before, audit.event)
  /\ Grew(audit.before, State)

RowMeetsAudit(row) ==
  /\ row.event < audit.event => Grew(row.before, audit.before)
  /\ ~ EvaluationRaises(audit.before, row.attempt, row.binding, audit.event)

BInv ==
  /\ RInv
  /\ Admitted(State, as_of)
  /\ \A row \in rows : RowHolds(row)
  /\ audit # None => AuditHolds /\ \A row \in rows : RowMeetsAudit(row)

\* The invariant of the fold makes the chains of the current state hold.
LEMMA FoldChains ==
  ASSUME RInv
  PROVE  ChainsHold(State)
<1> SUFFICES ASSUME NEW d \in delegations
             PROVE  /\ d.id \notin revoked => Ancestors(delegations, d) \cap revoked = {}
                    /\ \A e \in delegations : e.id \in Ancestors(delegations, d) => Within(d, e)
                    /\ \E root \in delegations : root.id \in ChainIds(delegations, d) /\ root.parent = None
  BY DEF ChainsHold, State
<1>1. d.id \notin revoked => Ancestors(delegations, d) \cap revoked = {}
  BY LinksKeepRevocationClosed DEF RInv, RevocationClosed
<1>2. \A e \in delegations : e.id \in Ancestors(delegations, d) => Within(d, e)
  BY LinksNarrow DEF RInv, AuthorityNeverWidens, Within
<1>3. QED
  BY <1>1, <1>2 DEF RInv, Rooted

\* Time passes, and what was admitted stays so.
LEMMA AdmittedLater ==
  ASSUME NEW st, NEW t \in Int, NEW u \in Int, t <= u, Admitted(st, t)
  PROVE  Admitted(st, u)
<1>1. \A d \in st.delegations : d.valid_from \in Int
  BY PayloadAssumption DEF Admitted
<1>2. \A c \in st.credentials : c.valid_from \in Int
  BY PayloadAssumption DEF Admitted
<1>3. QED
  BY <1>1, <1>2 DEF Admitted

\* An event admits at most one more record, which its validator has accepted.
LEMMA EventAdmits ==
  ASSUME RInv, Admitted(State, as_of), [Next]_worldVars
  PROVE  Admitted(State', as_of') /\ Grew(State, State') /\ as_of <= as_of' /\ as_of' \in Int
<1>1. as_of \in Int
  BY PayloadAssumption DEF RInv, IInv, TypeOK
<1>2. CASE UNCHANGED worldVars
  BY <1>1, <1>2 DEF worldVars, State, Grew, Admitted
<1>3. CASE Next
  <2>1. PICK t \in Times, refs \in EvidenceSets :
          \/ \E d \in Delegations : GrantDelegation(d, refs, t)
          \/ \E c \in Credentials : IssueCredential(c, refs, t)
          \/ \E r \in Runtimes : SpawnRuntime(r, refs, t)
          \/ \E a \in Attempts : AttemptAction(a, refs, t)
          \/ \E id \in Ids(Delegations) : RevokeDelegation(id, refs, t)
          \/ \E lost \in EvidenceSets : DiscardEvidence(lost, refs, t)
          \/ PerformAudit(refs, t)
    BY <1>3 DEF Next
  <2>2. as_of' = t /\ t \in Int /\ as_of < t
    BY <2>1, <1>1, PayloadAssumption DEF Occurs, GrantDelegation, IssueCredential, SpawnRuntime,
       AttemptAction, RevokeDelegation, DiscardEvidence, PerformAudit
  <2>3. Admitted(State, t)
    BY <1>1, <2>2, AdmittedLater
  <2>4. CASE \E d \in Delegations : GrantDelegation(d, refs, t)
    <3>1. PICK d \in Delegations : GrantDelegation(d, refs, t)
      BY <2>4
    <3>2. d.valid_from <= t /\ d.id \notin Ids(delegations) /\ OrganisationIsCoherent(d)
      BY <3>1 DEF GrantDelegation, ValidDelegation, ValidAt, DelegationIsSound, DelegatorIsAuthorised
    <3>3. delegations' = delegations \cup {d} /\ UNCHANGED <<credentials, runtimes, revoked>>
      BY <3>1 DEF GrantDelegation
    <3>4. Admitted(State', t)
      BY <2>3, <3>2, <3>3 DEF Admitted, State, UniqueIds, Ids
    <3>5. Grew(State, State')
      BY <3>3 DEF Grew, State
    <3>6. QED
      BY <1>1, <2>2, <3>4, <3>5
  <2>5. CASE \E c \in Credentials : IssueCredential(c, refs, t)
    <3>1. PICK c \in Credentials : IssueCredential(c, refs, t)
      BY <2>5
    <3>2. c.valid_from <= t /\ c.id \notin Ids(credentials)
      BY <3>1 DEF IssueCredential, ValidCredential, ValidAt
    <3>3. credentials' = credentials \cup {c} /\ UNCHANGED <<delegations, runtimes, revoked>>
      BY <3>1 DEF IssueCredential
    <3>4. Admitted(State', t)
      BY <2>3, <3>2, <3>3 DEF Admitted, State, UniqueIds, Ids
    <3>5. Grew(State, State')
      BY <3>3 DEF Grew, State
    <3>6. QED
      BY <1>1, <2>2, <3>4, <3>5
  <2>6. CASE \E r \in Runtimes : SpawnRuntime(r, refs, t)
    <3>1. PICK r \in Runtimes : SpawnRuntime(r, refs, t)
      BY <2>6
    <3>2. r.id \notin Ids(runtimes) /\ r.principal \in Principals /\ RuntimePathHolds(r)
      BY <3>1 DEF SpawnRuntime, ValidRuntime
    <3>3. runtimes' = runtimes \cup {r} /\ UNCHANGED <<delegations, credentials, revoked>>
      BY <3>1 DEF SpawnRuntime
    <3>4. Admitted(State', t)
      BY <2>3, <3>2, <3>3 DEF Admitted, State, UniqueIds, Ids
    <3>5. Grew(State, State')
      BY <3>3 DEF Grew, State
    <3>6. QED
      BY <1>1, <2>2, <3>4, <3>5
  <2>7. CASE UNCHANGED <<delegations, credentials, runtimes>> /\ revoked \subseteq revoked'
    <3>1. Admitted(State', t)
      BY <2>3, <2>7 DEF Admitted, State
    <3>2. Grew(State, State')
      BY <2>7 DEF Grew, State
    <3>3. QED
      BY <1>1, <2>2, <3>1, <3>2
  <2>8. QED
    BY <2>1, <2>4, <2>5, <2>6, <2>7 DEF AttemptAction, RevokeDelegation, DiscardEvidence, PerformAudit
<1>4. QED
  BY <1>2, <1>3

LEMMA GrewOnwards ==
  ASSUME NEW st, NEW mid, NEW later, Grew(st, mid), Grew(mid, later)
  PROVE  Grew(st, later)
BY DEF Grew

\* An event of the benchmark is an event of the fold.
LEMMA BenchmarkStepIsFoldStep == [BenchmarkNext]_vars => [Next]_worldVars
BY DEF BenchmarkNext, vars, worldVars, Next, DecideAction, AuditActions

\* The rows there are stay what they were, and what they keep goes on growing.
LEMMA RowsStay ==
  ASSUME BInv, [Next]_worldVars, NEW row \in rows
  PROVE  RowHolds(row)'
<1>1. Grew(State, State') /\ as_of <= as_of' /\ as_of' \in Int /\ as_of \in Int
  BY EventAdmits, PayloadAssumption DEF BInv, RInv, IInv, TypeOK
<1>2. RowHolds(row)
  BY DEF BInv
<1>3. Grew(row.before, State')
  BY <1>1, <1>2, GrewOnwards DEF RowHolds
<1>4. row.event <= as_of'
  BY <1>1, <1>2 DEF RowHolds
<1>5. QED
  BY <1>2, <1>3, <1>4 DEF RowHolds

LEMMA AuditStays ==
  ASSUME BInv, [Next]_worldVars, audit # None, UNCHANGED audit
  PROVE  AuditHolds'
<1>1. Grew(State, State') /\ as_of <= as_of' /\ as_of' \in Int /\ as_of \in Int
  BY EventAdmits, PayloadAssumption DEF BInv, RInv, IInv, TypeOK
<1>2. AuditHolds
  BY DEF BInv
<1>3. Grew(audit.before, State')
  BY <1>1, <1>2, GrewOnwards DEF AuditHolds
<1>4. audit.event <= as_of'
  BY <1>1, <1>2 DEF AuditHolds
<1>5. QED
  BY <1>2, <1>3, <1>4 DEF AuditHolds

\* The row of an attempt.
LEMMA DecideHolds ==
  ASSUME BInv, NEW a \in Attempts, NEW b \in Bindings, NEW refs \in EvidenceSets, NEW t \in Times,
         DecideAction(a, b, refs, t), NEW row, row = Row(a, b, t)
  PROVE  RowHolds(row)' /\ (audit # None => RowMeetsAudit(row))
<1>1. /\ row.event = t /\ row.before = State /\ row.attempt = a /\ row.binding = b
      /\ as_of' = t /\ as_of < t /\ t \in Int /\ as_of \in Int
  BY PayloadAssumption DEF Row, State, DecideAction, AttemptAction, Occurs, BInv, RInv, IInv, TypeOK
<1>2. Sound(State, t)
  <2>1. Admitted(State, as_of)
    BY DEF BInv
  <2>2. Admitted(State, t)
    BY <1>1, <2>1, AdmittedLater
  <2>3. QED
    BY <2>2, FoldChains DEF Sound, BInv
<1>3. Grew(State, State')
  BY EventAdmits DEF BInv, DecideAction, Next
<1>4. /\ ValidBinding(State, a, b) /\ ~ EvaluationRaises(State, a, b, t)
      /\ audit # None => ~ EvaluationRaises(audit.before, a, b, audit.event)
  BY DEF DecideAction
<1>5. a.proposal # None => ProposalIsKnown(a.proposal)
  BY DEF DecideAction, AttemptAction, ValidAction, ValidProposal, ProposalIsKnown
<1>6. RowHolds(row)'
  BY <1>1, <1>2, <1>3, <1>4, <1>5 DEF RowHolds
<1>7. audit # None => ~ (t < audit.event)
  BY <1>1 DEF BInv, AuditHolds
<1>8. QED
  BY <1>1, <1>4, <1>6, <1>7 DEF RowMeetsAudit

\* The audit, and every row there is when it is performed.
LEMMA AuditBegins ==
  ASSUME BInv, NEW refs \in EvidenceSets, NEW t \in Times, AuditActions(refs, t)
  PROVE  AuditHolds' /\ \A row \in rows : RowMeetsAudit(row)'
<1>1. /\ audit' = [event |-> t, before |-> State]
      /\ as_of' = t /\ as_of < t /\ t \in Int /\ as_of \in Int
      /\ \A row \in rows : ~ EvaluationRaises(State, row.attempt, row.binding, t)
  BY PayloadAssumption DEF AuditActions, PerformAudit, State, Occurs, BInv, RInv, IInv, TypeOK
<1>2. Sound(State, t)
  <2>1. Admitted(State, as_of)
    BY DEF BInv
  <2>2. Admitted(State, t)
    BY <1>1, <2>1, AdmittedLater
  <2>3. QED
    BY <2>2, FoldChains DEF Sound, BInv
<1>3. Grew(State, State')
  BY EventAdmits DEF BInv, AuditActions, Next
<1>4. AuditHolds'
  BY <1>1, <1>2, <1>3 DEF AuditHolds
<1>5. ASSUME NEW row \in rows PROVE RowMeetsAudit(row)'
  <2>1. Grew(row.before, State)
    BY DEF BInv, RowHolds
  <2>2. QED
    BY <1>1, <2>1 DEF RowMeetsAudit
<1>6. QED
  BY <1>4, <1>5

LEMMA BInvPreserved == BInv /\ [BenchmarkNext]_vars => BInv'
<1> SUFFICES ASSUME BInv, [BenchmarkNext]_vars PROVE BInv'
  OBVIOUS
<1>1. [Next]_worldVars
  BY BenchmarkStepIsFoldStep
<1>2. RInv'
  BY <1>1, RInvPreserved DEF BInv
<1>3. Admitted(State, as_of)'
  BY <1>1, EventAdmits DEF BInv
<1>4. CASE UNCHANGED <<rows, audit>>
  <2>1. \A row \in rows' : RowHolds(row)'
    BY <1>1, <1>4, RowsStay
  <2>2. audit' # None => AuditHolds' /\ \A row \in rows' : RowMeetsAudit(row)'
    BY <1>1, <1>4, AuditStays DEF BInv, RowMeetsAudit
  <2>3. QED
    BY <1>2, <1>3, <2>1, <2>2 DEF BInv
<1>5. CASE \E t \in Times, refs \in EvidenceSets, a \in Attempts, b \in Bindings : DecideAction(a, b, refs, t)
  <2>1. PICK t \in Times, refs \in EvidenceSets, a \in Attempts, b \in Bindings : DecideAction(a, b, refs, t)
    BY <1>5
  <2>2. rows' = rows \cup {Row(a, b, t)} /\ UNCHANGED audit
    BY <2>1 DEF DecideAction
  <2>3. \A row : row = Row(a, b, t) => RowHolds(row)' /\ (audit # None => RowMeetsAudit(row))
    BY <2>1, DecideHolds
  <2>4. \A row \in rows' : RowHolds(row)'
    BY <1>1, <2>2, <2>3, RowsStay
  <2>5. audit' # None => AuditHolds' /\ \A row \in rows' : RowMeetsAudit(row)'
    BY <1>1, <2>2, <2>3, AuditStays DEF BInv, RowMeetsAudit
  <2>6. QED
    BY <1>2, <1>3, <2>4, <2>5 DEF BInv
<1>6. CASE \E t \in Times, refs \in EvidenceSets : AuditActions(refs, t)
  <2>1. PICK t \in Times, refs \in EvidenceSets : AuditActions(refs, t)
    BY <1>6
  <2>2. UNCHANGED rows
    BY <2>1 DEF AuditActions
  <2>3. \A row \in rows' : RowHolds(row)'
    BY <1>1, <2>2, RowsStay
  <2>4. AuditHolds' /\ \A row \in rows' : RowMeetsAudit(row)'
    BY <2>1, <2>2, AuditBegins
  <2>5. QED
    BY <1>2, <1>3, <2>3, <2>4 DEF BInv
<1>7. QED
  BY <1>4, <1>5, <1>6 DEF BenchmarkNext, vars

LEMMA BInvInitially == BenchmarkInit => BInv
<1> SUFFICES ASSUME BenchmarkInit PROVE BInv
  OBVIOUS
<1>1. RInv
  BY InitIInv DEF BenchmarkInit, Init, RInv
<1>2. Admitted(State, as_of)
  BY DEF BenchmarkInit, Init, State, Admitted, UniqueIds
<1>3. QED
  BY <1>1, <1>2 DEF BenchmarkInit, BInv

\* The states the benchmark keeps are sound prefixes, and the audit's has only grown.
THEOREM BenchmarkInvariance == BenchmarkSpec => []BInv
BY BInvInitially, BInvPreserved, PTL DEF BenchmarkSpec

-----------------------------------------------------------------------------
LEMMA JudgementsHold ==
  ASSUME BInv, NEW j \in Judgements
  PROVE  /\ j.t \in Int /\ Sound(j.st, j.t)
         /\ j.a.proposal # None => ProposalIsKnown(j.a.proposal)
         /\ ~ EvaluationRaises(j.st, j.a, j.b, j.t)
BY DEF Judgements, BInv, RowHolds, AuditHolds, RowMeetsAudit

\* An allow, at action time or at audit, is backed link by link up to a root of the
\* agent's own organisation (authority.py, evaluate_action_authority).
THEOREM AllowsAreBacked == BenchmarkSpec => []AllowIsBackedToTheRoot
<1>1. BInv => AllowIsBackedToTheRoot
  BY JudgementsHold, AllowIsBacked DEF AllowIsBackedToTheRoot, Backed
<1>2. QED
  BY <1>1, BenchmarkInvariance, PTL

\* A sub-delegation the oracle lets an agent propose is one the replay accepts
\* (authority.py and replay.py, the two readings of the delegation rules).
THEOREM AllowedProposalsAreGrantable == BenchmarkSpec => []AllowedProposalIsGrantable
<1>1. BInv => AllowedProposalIsGrantable
  BY JudgementsHold, AllowedProposalIsSound DEF AllowedProposalIsGrantable
<1>2. QED
  BY <1>1, BenchmarkInvariance, PTL

\* What the audit sees differently from the action was revoked, has expired or was
\* granted in between (benchmark.py, decision_at_action and decision_at_audit).
THEOREM FlipsAreExplained == BenchmarkSpec => []AuditFlipsAreExplained
<1>1. ASSUME BInv, NEW row \in rows, audit # None, row.event < audit.event, row.attempt.proposal = None
      PROVE  /\ Flipped(row, FALSE, TRUE) =>
                  Selected(Capable(audit.before, row.attempt, row.binding, audit.event)) \notin row.before.delegations
             /\ Flipped(row, TRUE, FALSE) =>
                  LET d == Selected(Capable(row.before, row.attempt, row.binding, row.event)) IN
                  \/ d.id \in audit.before.revoked
                  \/ ~ ValidAt(d, audit.event)
                  \/ ~ ValidAt(ById(row.before.credentials, row.attempt.credential), audit.event)
  <2>1. /\ row.event \in Int /\ audit.event \in Int
        /\ Sound(row.before, row.event) /\ Sound(audit.before, audit.event)
        /\ Grew(row.before, audit.before)
        /\ ValidBinding(row.before, row.attempt, row.binding)
        /\ ~ AuthorityIsAmbiguous(row.before, row.attempt, row.binding, row.event)
        /\ ~ AuthorityIsAmbiguous(audit.before, row.attempt, row.binding, audit.event)
    BY <1>1 DEF BInv, RowHolds, AuditHolds, RowMeetsAudit, EvaluationRaises
  <2>2. QED
    BY <1>1, <2>1, DenialTurnsRound, AllowTurnsRound DEF Flipped
<1>2. BInv => AuditFlipsAreExplained
  BY <1>1 DEF AuditFlipsAreExplained
<1>3. QED
  BY <1>2, BenchmarkInvariance, PTL

\* A decision counts as reconstructable only if the evidence retained at audit names
\* every delegation behind it and the version each was granted under (benchmark.py,
\* required_evidence and reconstructable_at_audit).
THEOREM ReconstructionsNameWhatGoverned == BenchmarkSpec => []ReconstructionNamesWhatGoverned
<1>1. BInv => ReconstructionNamesWhatGoverned
  BY EvidenceNamesTheChain DEF ReconstructionNamesWhatGoverned, ReconstructableAtAudit, BInv, RowHolds
<1>2. QED
  BY <1>1, BenchmarkInvariance, PTL

-----------------------------------------------------------------------------
(***************************************************************************)
(* The observed-action trace.  What the two readers keep is what each made *)
(* of the document, which neither changes and nothing is added to after.   *)
(* The rest is about one document: what its validator calls an error is    *)
(* what its parser refuses, but for a document of empty rows.              *)
(***************************************************************************)
Readable(line) ==
  /\ line.form \in {"blank", "text", "json", "row"}
  /\ line.form = "row" => line.id # Null /\ IsRow(line.row)

Submittable == Lines \cup {RowLine(id, told[id]) : id \in Actions, told \in {DenyAlways, TellTheTruth}}

ReadersKeepTheirWord ==
  /\ report # Null => report = [valid |-> Errors = {}, issues |-> Errors \cup Warnings]
  /\ result # Null =>
       result = IF Rejection = Null THEN [rejected |-> Null, metrics |-> Metrics]
                ELSE [rejected |-> Rejection, metrics |-> Null]

TraceInv ==
  /\ document \in Seq(Submittable)
  /\ ReadersKeepTheirWord

LEMMA TraceInitInv == TraceInit => TraceInv
BY DEF TraceInit, TraceInv, ReadersKeepTheirWord

\* What the readers say is a function of the document.
LEMMA ReadersDependOn ==
  ASSUME document' = document
  PROVE  /\ Errors' = Errors /\ Warnings' = Warnings
         /\ Rejection' = Rejection /\ Metrics' = Metrics
BY DEF Errors, Warnings, Rejection, Metrics, RowIssues, CardinalityIssues, AllRowsNull, FirstRows, Parsed,
  Written, Recovered, RowOf, Evidence

LEMMA TraceNextInv == TraceInv /\ [TraceNext]_traceVars => TraceInv'
<1> SUFFICES ASSUME TraceInv, [TraceNext]_traceVars PROVE TraceInv'
  OBVIOUS
<1>0. Submittable' = Submittable
  BY DEF Submittable, DenyAlways, TellTheTruth
<1>1. ASSUME NEW line \in Lines, Write(line) PROVE TraceInv'
  <2>1. report' = Null /\ result' = Null
    BY <1>1 DEF Write
  <2>2. document' \in Seq(Submittable)
    BY <1>1 DEF Write, TraceInv, Submittable
  <2>3. QED
    BY <1>0, <2>1, <2>2 DEF TraceInv, ReadersKeepTheirWord
<1>2. ASSUME NEW told \in {DenyAlways, TellTheTruth}, SubmitBaseline(told) PROVE TraceInv'
  <2>1. report' = Null /\ result' = Null
    BY <1>2 DEF SubmitBaseline
  <2>2. ActionOrder \in Seq(Actions)
    BY TraceAssumption DEF BenchmarkIsDecided
  <2>3. \A n \in 1..Len(ActionOrder) : RowLine(ActionOrder[n], told[ActionOrder[n]]) \in Submittable
    BY <2>2 DEF Submittable
  <2>4. document' \in Seq(Submittable)
    BY <1>2, <2>2, <2>3 DEF SubmitBaseline
  <2>5. QED
    BY <1>0, <2>1, <2>4 DEF TraceInv, ReadersKeepTheirWord
<1>3. CASE Validate
  BY <1>0, <1>3, ReadersDependOn DEF Validate, TraceInv, ReadersKeepTheirWord
<1>4. CASE EvaluateTrace
  BY <1>0, <1>4, ReadersDependOn DEF EvaluateTrace, TraceInv, ReadersKeepTheirWord
<1>5. CASE UNCHANGED traceVars
  BY <1>0, <1>5, ReadersDependOn DEF traceVars, TraceInv, ReadersKeepTheirWord
<1>6. QED
  BY <1>1, <1>2, <1>3, <1>4, <1>5 DEF TraceNext

\* Every line of a document is one of the shapes the readers tell apart.
LEMMA LinesAreTold ==
  ASSUME document \in Seq(Submittable)
  PROVE  /\ DOMAIN document \subseteq Nat
         /\ \A n \in DOMAIN document : Readable(document[n])
<1>1. \A line \in Lines : Readable(line)
  BY TraceAssumption DEF LinesAreReadable, Readable
<1>2. \A id \in Actions, told \in {DenyAlways, TellTheTruth} : Readable(RowLine(id, told[id]))
  <2>1. \A id \in Actions : id # Null
    BY TraceAssumption DEF BenchmarkIsDecided
  <2>2. \A id \in Actions : IsRow(DenyAlways[id]) /\ IsRow(TellTheTruth[id])
    BY DEF IsRow, DenyAlways, TellTheTruth
  <2>3. QED
    BY <2>1, <2>2 DEF Readable, RowLine
<1>3. \A line \in Submittable : Readable(line)
  BY <1>1, <1>2 DEF Submittable
<1>4. QED
  BY <1>3

LEMMA ErrorsAreOneOfThese ==
  Errors = {} <=> RowIssues = {} /\ CardinalityIssues = {} /\ ~AllRowsNull
BY DEF Errors

\* Nothing is wrong with a line exactly when all are rows, each of an event of its own.
LEMMA RowsAreSound ==
  ASSUME \A n \in DOMAIN document : Readable(document[n])
  PROVE  RowIssues = {} <=> Parsed = Written /\ FirstRows = Parsed
<1>1. Parsed \subseteq Written /\ FirstRows \subseteq Parsed
  BY DEF Parsed, FirstRows
<1>2. \A n \in Written : document[n].form \in {"text", "json", "row"}
  BY DEF Written, Readable
<1>3. RowIssues = {} <=>
        /\ \A n \in Written : document[n].form # "text" /\ document[n].form # "json"
        /\ Parsed \subseteq FirstRows
  BY DEF RowIssues
<1>4. (\A n \in Written : document[n].form # "text" /\ document[n].form # "json") <=> Written \subseteq Parsed
  BY <1>2 DEF Parsed
<1>5. QED
  BY <1>1, <1>3, <1>4

\* In a document of rows the two readers see the same events.
LEMMA SameEvents ==
  ASSUME \A n \in DOMAIN document : Readable(document[n]), Parsed = Written
  PROVE  CardinalityIssues = {} <=> {document[n].id : n \in Parsed} = Actions
<1>1. \A n \in Parsed : document[n].id # Null
  BY DEF Parsed, Written, Readable
<1>2. Recovered = {document[n].id : n \in Parsed}
  BY <1>1 DEF Recovered
<1>3. CardinalityIssues = {} <=> Recovered \ Actions = {} /\ Actions \ Recovered = {}
  BY DEF CardinalityIssues
<1>4. QED
  BY <1>2, <1>3

\* The parser refuses what the validator blames on lines or on events, and nothing else.
LEMMA RefusedIsBlamed ==
  ASSUME \A n \in DOMAIN document : Readable(document[n])
  PROVE  Rejection = Null <=> RowIssues = {} /\ CardinalityIssues = {}
<1>1. Rejection = Null <=>
        Parsed = Written /\ FirstRows = Parsed /\ {document[n].id : n \in Parsed} = Actions
  BY TraceAssumption DEF Rejection
<1>2. QED
  BY <1>1, RowsAreSound, SameEvents

\* The parser finds the row of an event, and every row is that of its event.
LEMMA RowIsFound ==
  ASSUME DOMAIN document \subseteq Nat, FirstRows = Parsed, NEW n \in Parsed
  PROVE  RowOf(document[n].id) = document[n].row
<1>1. n \in Nat /\ Parsed \subseteq Nat
  BY DEF Parsed, Written
<1>2. ASSUME NEW m \in Parsed, document[m].id = document[n].id PROVE m = n
  <2>1. ~(m < n) /\ ~(n < m)
    BY <1>2 DEF FirstRows
  <2>2. m \in Nat
    BY <1>1
  <2>3. QED
    BY <1>1, <2>1, <2>2
<1>3. (CHOOSE m \in Parsed : document[m].id = document[n].id) = n
  BY <1>2
<1>4. QED
  BY <1>3 DEF RowOf

LEMMA NoSignal ==
  ASSUME NEW row, IsRow(row)
  PROVE  CarriesNoSignal(row) <=> row \in {EmptyRow, [EmptyRow EXCEPT !.evidence = {}]}
<1>1. row = [decision |-> row.decision, at_audit |-> row.at_audit, chain |-> row.chain,
             evidence |-> row.evidence, resource |-> row.resource]
  BY DEF IsRow
<1>2. CarriesNoSignal(row) <=>
        /\ row.decision = Null /\ row.at_audit = Null /\ row.chain = Null /\ row.resource = Null
        /\ row.evidence \in {Null, {}}
  BY <1>1 DEF CarriesNoSignal, IsAllNull, EmptyRow
<1>3. QED
  BY <1>1, <1>2 DEF EmptyRow

\* Of a document that is scored, what makes it valid is a row that says something.
LEMMA ValidSaysSomething ==
  ASSUME DOMAIN document \subseteq Nat, \A n \in DOMAIN document : Readable(document[n]), Rejection = Null
  PROVE  Errors = {} <=> \E id \in Actions : RowOf(id) \notin {EmptyRow, [EmptyRow EXCEPT !.evidence = {}]}
<1>1. RowIssues = {} /\ CardinalityIssues = {}
  BY RefusedIsBlamed
<1>2. Parsed = Written /\ FirstRows = Parsed
  BY <1>1, RowsAreSound
<1>3. {document[n].id : n \in Parsed} = Actions
  BY <1>1, <1>2, SameEvents
<1>4. Errors = {} <=> ~AllRowsNull
  BY <1>1, ErrorsAreOneOfThese
<1>5. Actions # {}
  BY TraceAssumption DEF BenchmarkIsDecided
<1>6. FirstRows # {}
  BY <1>2, <1>3, <1>5
<1>7. \A n \in Parsed : IsRow(document[n].row)
  BY DEF Parsed, Written, Readable
<1>8. \A n \in Parsed :
        CarriesNoSignal(document[n].row) <=>
          RowOf(document[n].id) \in {EmptyRow, [EmptyRow EXCEPT !.evidence = {}]}
  BY <1>2, <1>7, NoSignal, RowIsFound
<1>9. AllRowsNull <=> \A id \in Actions : RowOf(id) \in {EmptyRow, [EmptyRow EXCEPT !.evidence = {}]}
  BY <1>2, <1>3, <1>6, <1>8 DEF AllRowsNull
<1>10. QED
  BY <1>4, <1>9

\* The metrics of one submission, against each other.
LEMMA MetricsAgree ==
  /\ Metrics.false_allows = Metrics.predicted_positive \ Metrics.true_positive
  /\ Metrics.decision \ Metrics.denied = Metrics.true_positive
  /\ Metrics.decision \cap Metrics.false_allows = {}
  /\ Metrics.exact = Metrics.complete \ Metrics.unneeded
  /\ Told(TellTheTruth) =>
       \A metric \in {"decision", "chain", "complete", "exact"} : Metrics[metric] = Actions
  /\ Told(DenyAlways) => Metrics.decision = Metrics.denied
<1>1. \A id \in Actions : Truth[id].decision \in {"allow", "deny"} /\ Truth[id].evidence # Null
  BY TraceAssumption DEF BenchmarkIsDecided
<1>2. /\ Metrics.false_allows = Metrics.predicted_positive \ Metrics.true_positive
      /\ Metrics.decision \ Metrics.denied = Metrics.true_positive
      /\ Metrics.decision \cap Metrics.false_allows = {}
  BY <1>1 DEF Metrics
<1>3. Metrics.exact = Metrics.complete \ Metrics.unneeded
  BY DEF Metrics
<1>4. ASSUME Told(TellTheTruth)
      PROVE  \A metric \in {"decision", "chain", "complete", "exact"} : Metrics[metric] = Actions
  <2>1. \A id \in Actions : /\ RowOf(id).decision = Truth[id].decision /\ RowOf(id).chain = Truth[id].chain
                            /\ RowOf(id).evidence = Truth[id].evidence
    BY <1>4 DEF Told, TellTheTruth
  <2>2. \A id \in Actions : RowOf(id).evidence # Null /\ Evidence(id) = Truth[id].evidence
    BY <1>1, <2>1 DEF Evidence
  <2>3. Metrics.decision = Actions /\ Metrics.chain = Actions
    BY <2>1 DEF Metrics
  <2>4. Metrics.complete = Actions /\ Metrics.exact = Actions
    BY <2>2 DEF Metrics
  <2>5. QED
    BY <2>3, <2>4
<1>5. ASSUME Told(DenyAlways)
      PROVE  Metrics.decision = Metrics.denied
  <2>1. \A id \in Actions : RowOf(id).decision = "deny"
    BY <1>5 DEF Told, DenyAlways
  <2>2. QED
    BY <2>1 DEF Metrics
<1>6. QED
  BY <1>2, <1>3, <1>4, <1>5

\* The validator and the scorer, which share no code, agree on every document a vendor
\* can write, and the metrics of what is scored on every submission
\* (trace_validation.py, evaluation.py).
THEOREM ValidTracesScore == TraceSpec => []ValidTracesAreScored
<1>1. ASSUME TraceInv, report # Null, result # Null
      PROVE  ValidTracesAreScored
  <2>1. DOMAIN document \subseteq Nat /\ \A n \in DOMAIN document : Readable(document[n])
    BY <1>1, LinesAreTold DEF TraceInv
  <2>2. report.valid = (Errors = {})
    BY <1>1 DEF TraceInv, ReadersKeepTheirWord
  <2>3. result.rejected = Rejection /\ (Rejection = Null => result.metrics = Metrics)
    BY <1>1 DEF TraceInv, ReadersKeepTheirWord
  <2>4. report.valid => result.rejected = Null
    BY <2>1, <2>2, <2>3, RefusedIsBlamed, ErrorsAreOneOfThese
  <2>5. ASSUME result.rejected = Null
        PROVE  report.valid = \E id \in Actions : RowOf(id) \notin {EmptyRow, [EmptyRow EXCEPT !.evidence = {}]}
    BY <2>1, <2>2, <2>3, <2>5, ValidSaysSomething
  <2>6. result.rejected = Null => result.metrics = Metrics
    BY <2>3
  <2>7. QED
    BY <2>4, <2>5, <2>6, MetricsAgree DEF ValidTracesAreScored
<1>2. TraceInv => ValidTracesAreScored
  BY <1>1 DEF ValidTracesAreScored
<1>3. TraceSpec => []TraceInv
  BY TraceInitInv, TraceNextInv, PTL DEF TraceSpec
<1>4. QED
  BY <1>2, <1>3, PTL
=============================================================================
