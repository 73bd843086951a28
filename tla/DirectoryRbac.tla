---------------------------- MODULE DirectoryRbac ----------------------------
(***************************************************************************)
(* Compilation of directory and role facts into the truth of each access  *)
(* cell (src/synthworld/enterprise/rbac).  The actual relations (the       *)
(* kernel) and the intended ones (the overlay) have one shape: a set of    *)
(* edges.  A role is authorized by a chain: an assignment, the groups      *)
(* from the member's up to the assigned one, and the roles from the        *)
(* assigned one down to a junior.  The compiler enumerates every chain     *)
(* within its budgets, or fails.  Digests, identifiers and references      *)
(* that do not resolve are left out.                                       *)
(***************************************************************************)
EXTENDS Integers, FiniteSets, Sequences, FiniteSetsExt

CONSTANTS
  Principals, Accounts, Groups, Roles, Permissions,
  TenantOf,      \* the tenant of each of them
  Attribute,     \* the kind of each principal and account
  Canonical,     \* the principal an account belongs to, or None
  Cells,         \* what is asked: [subject, permission, tick, slot]
  Slots,         \* the frozen sessions: slot -> [subject, at, until, requested]
  StaticSod, DynamicSod,  \* constraints [tenant, subjects, roles, cardinality]
  Birthrights,   \* rules [all, tests, atoms, target]
  Inputs,        \* families of records [kernel, intent, sessions, policy]
  MaxPerCell, MaxTotal, MaxRelations, MaxDepth,
  None

Subjects == Principals \cup Accounts

(* The ends of an edge of each kind. *)
EdgeEnds ==
  [member |-> Subjects \X Groups, nest |-> Groups \X Groups, subjectRole |-> Subjects \X Roles,
   groupRole |-> Groups \X Roles, hierarchy |-> Roles \X Roles, grant |-> Roles \X Permissions]

ASSUME CorpusAssumption ==
  /\ IsFiniteSet(Groups) /\ IsFiniteSet(Roles) /\ None \notin DOMAIN Slots
  /\ \A k \in StaticSod : IsFiniteSet(k.roles) /\ k.cardinality \in Nat
  /\ Cells \subseteq [subject : Subjects, permission : Permissions, tick : Nat, slot : DOMAIN Slots \cup {None}]
  /\ \A c \in Cells : c.slot # None => c.subject = Slots[c.slot].subject /\ c.tick >= Slots[c.slot].at

ASSUME EdgesAssumption ==
  \A family \in Inputs : \A i \in family : \A e \in i.kernel.edges \cup i.intent.edges :
    e.kind \in DOMAIN EdgeEnds /\ <<e.left, e.right>> \in EdgeEnds[e.kind]

VARIABLES
  input,          \* kernel: edges, direct, observed; intent: edges, exceptions; sessions
  phase,          \* "input", "valid", "roles", "sessions", "compiled" or "rejected"
  actualRoles,    \* the chains of the kernel
  intendedRoles,  \* the chains of the overlay
  activations,    \* the decision on each activation request, with its session
  rows            \* the truth of each cell

rbacVars == <<input, phase, actualRoles, intendedRoles, activations, rows>>

kernel == input.kernel
intent == input.intent

(***************************************************************************)
(* Edges and chains.                                                       *)
(***************************************************************************)
Related(edges, kind) == {<<e.left, e.right>> : e \in {f \in edges : f.kind = kind}}

Active(tick, from, until) == tick >= from /\ (until = None \/ tick < until)

Acyclic(nodes, succ) ==
  \A S \in (SUBSET nodes) \ {{}} : \E x \in S : \A y \in S : <<y, x>> \notin succ

(* Every path of an acyclic graph, which meets no node twice. *)
Chains(nodes, succ) ==
  {q \in UNION {[1..n -> nodes] : n \in 1..Cardinality(nodes)} :
     \A i \in 1..Len(q) - 1 : <<q[i], q[i + 1]>> \in succ}

RoleChains(edges) == Chains(Roles, Related(edges, "hierarchy"))
GroupChains(edges) == Chains(Groups, Related(edges, "nest"))

MembershipPaths(edges) ==
  {[subject |-> m[1][1], groups |-> m[2]] :
     m \in {x \in Related(edges, "member") \X GroupChains(edges) : x[2][1] = x[1][2]}}

\* Mutant: a group assignment reaches the direct members only.
OwnRolesOfMembers(edges) ==
  {[subject |-> a[1][1], owner |-> a[1][1], via |-> a[1], groups |-> <<>>, roles |-> a[2]] :
     a \in {x \in Related(edges, "subjectRole") \X RoleChains(edges) : x[2][1] = x[1][2]}}
  \cup
  {[subject |-> a[2].subject, owner |-> a[2].subject, via |-> a[1], groups |-> a[2].groups, roles |-> a[3]] :
     a \in {x \in Related(edges, "groupRole") \X MembershipPaths(edges) \X RoleChains(edges) :
              x[2].groups = <<x[1][1]>> /\ x[3][1] = x[1][2]}}

(* What a subject holds by an assignment of its own or of a group above it. *)
OwnRoles(edges) ==
  {[subject |-> a[1][1], owner |-> a[1][1], via |-> a[1], groups |-> <<>>, roles |-> a[2]] :
     a \in {x \in Related(edges, "subjectRole") \X RoleChains(edges) : x[2][1] = x[1][2]}}
  \cup
  {[subject |-> a[2].subject, owner |-> a[2].subject, via |-> a[1], groups |-> a[2].groups, roles |-> a[3]] :
     a \in {x \in Related(edges, "groupRole") \X MembershipPaths(edges) \X RoleChains(edges) :
              x[2].groups[Len(x[2].groups)] = x[1][1] /\ x[3][1] = x[1][2]}}

(* An account has its own chains and those of the principal it is bound to. *)
AuthorizedRoles(edges, boundTo) ==
  LET own == OwnRoles(edges)
  IN own \cup {[x[2] EXCEPT !.subject = x[1]] : x \in {y \in Accounts \X own : y[2].subject = boundTo[y[1]]}}

RolesOf(chains, subject) == {c.roles[Len(c.roles)] : c \in {d \in chains : d.subject = subject}}

(* The account observations of the kernel bind the actual chains, the      *)
(* canonical binding truth the intended ones.                              *)
ObservedPrincipal ==
  [a \in Accounts |-> IF kernel.observed[a] = None THEN None ELSE kernel.observed[a].principal]

(***************************************************************************)
(* Validation.                                                             *)
(***************************************************************************)
StaysInTenant(edges) == \A e \in edges : TenantOf[e.left] = TenantOf[e.right]

HasGraphs(edges) ==
  Acyclic(Groups, Related(edges, "nest")) /\ Acyclic(Roles, Related(edges, "hierarchy"))

KernelIsValid ==
  /\ \A a \in Accounts : ObservedPrincipal[a] # None => TenantOf[ObservedPrincipal[a]] = TenantOf[a]
  /\ StaysInTenant(kernel.edges)
  /\ \A d \in kernel.direct : TenantOf[d.subject] = TenantOf[d.permission]
  /\ HasGraphs(kernel.edges)

BirthrightRelations ==
  MapThenSumSet(LAMBDA r : Cardinality({c.subject : c \in Cells}) * (Cardinality(r.tests) + 1)
                           + Cardinality({c \in Cells : <<c.subject, c.permission>> \in r.atoms}),
                Birthrights)
  + MapThenSumSet(LAMBDA x : Cardinality({c \in Cells : c.subject = x.subject /\ c.permission = x.permission}),
                  intent.exceptions)

Relations ==
  Cardinality(kernel.edges) + Cardinality(kernel.direct)
  + Cardinality({a \in Accounts : kernel.observed[a] # None}) + Cardinality(intent.edges) + BirthrightRelations

IntentIsValid ==
  /\ \A x \in intent.exceptions : TenantOf[x.subject] = TenantOf[x.owner]
  /\ StaysInTenant(intent.edges)
  /\ HasGraphs(intent.edges)
  /\ \A c \in GroupChains(intent.edges) \cup RoleChains(intent.edges) : Len(c) <= MaxDepth + 1
  /\ Relations <= MaxRelations

(* A session is what was observed: it may hold roles nobody authorized.    *)
SessionsAreValid ==
  \A s \in DOMAIN Slots :
    LET observed == input.sessions[s] IN
    /\ Slots[s].until # None => observed.until # None /\ observed.until <= Slots[s].until
    /\ \A r \in observed.roles : TenantOf[r] = TenantOf[Slots[s].subject]
    /\ \A c \in Cells : c.slot = s /\ observed.until # None => c.tick < observed.until

Init ==
  /\ \E family \in Inputs : input \in family
  /\ phase = "input"
  /\ actualRoles = {} /\ intendedRoles = {}
  /\ activations = [s \in {} |-> None] /\ rows = [c \in {} |-> None]

Reject ==
  /\ phase' = "rejected"
  /\ UNCHANGED <<input, actualRoles, intendedRoles, activations, rows>>

Validate ==
  /\ phase = "input"
  /\ phase' = IF KernelIsValid /\ IntentIsValid /\ SessionsAreValid THEN "valid" ELSE "rejected"
  /\ UNCHANGED <<input, actualRoles, intendedRoles, activations, rows>>

(***************************************************************************)
(* Role facts, actual and intended, within one budget of derivations.      *)
(***************************************************************************)
Derivations(edges, chains) == Cardinality(MembershipPaths(edges)) + Cardinality(chains)

PathsFit(edges) ==
  LET groups == GroupChains(edges)
      roles == RoleChains(edges)
      From(chains, x) == Cardinality({c \in chains : c[1] = x})
  IN /\ \A m \in Related(edges, "member") : From(groups, m[2]) <= MaxPerCell
     /\ Cardinality(MembershipPaths(edges)) <= MaxTotal
     /\ \A r \in Roles : From(roles, r) <= MaxPerCell
     /\ Cardinality(roles) <= MaxTotal

CompileRoles ==
  LET actual == AuthorizedRoles(kernel.edges, ObservedPrincipal)
      intended == AuthorizedRoles(intent.edges, Canonical)
  IN /\ phase = "valid"
     /\ IF /\ PathsFit(kernel.edges) /\ PathsFit(intent.edges)
           /\ Derivations(kernel.edges, actual) + Derivations(intent.edges, intended) <= MaxTotal
        THEN /\ phase' = "roles"
             /\ actualRoles' = actual /\ intendedRoles' = intended
             /\ UNCHANGED <<input, activations, rows>>
        ELSE Reject

(***************************************************************************)
(* Separation of duty and sessions.                                        *)
(***************************************************************************)
Applies(constraint, subject) ==
  /\ TenantOf[subject] = constraint.tenant
  /\ constraint.subjects = {} \/ subject \in constraint.subjects

Meets(roles, constraint) == Cardinality(roles \cap constraint.roles) >= constraint.cardinality

StaticViolations(subject) ==
  {k \in StaticSod : Applies(k, subject) /\ Meets(RolesOf(actualRoles, subject), k)}

Breaks(roles, subject) == \E k \in DynamicSod : Applies(k, subject) /\ Meets(roles, k)

Activation(s) ==
  LET slot == Slots[s]
      authorized == RolesOf(actualRoles, slot.subject)
      activated == input.sessions[s].roles
  IN [accepted  |-> slot.requested \subseteq authorized /\ ~Breaks(slot.requested, slot.subject),
      usable    |-> activated \cap authorized,
      compliant |-> ~Breaks(activated, slot.subject)]

CompileSessions ==
  /\ phase = "roles"
  /\ phase' = "sessions"
  /\ activations' = [s \in DOMAIN Slots |-> Activation(s)]
  /\ UNCHANGED <<input, actualRoles, intendedRoles, rows>>

(***************************************************************************)
(* Cells.                                                                  *)
(***************************************************************************)
\* Mutant: in a session, the grants of the seniors of a role are reached.
RolePathsUpward(chains, edges, usable, c) ==
  LET own == {x \in chains : x.subject = c.subject}
      Grants(role) == <<role, c.permission>> \in Related(edges, "grant")
  IN IF c.slot = None THEN {<<x, <<>>>> : x \in {y \in own : Grants(y.roles[Len(y.roles)])}}
     ELSE {x \in {y \in own : y.roles[Len(y.roles)] \in usable} \X RoleChains(edges) :
             x[2][Len(x[2])] = x[1].roles[Len(x[1].roles)] /\ Grants(x[2][1])}

(* The chains of a subject that reach a grant: of the last role itself     *)
(* where no session is asked about, of a junior of a usable role in one.   *)
RolePaths(chains, edges, usable, c) ==
  LET own == {x \in chains : x.subject = c.subject}
      Grants(role) == <<role, c.permission>> \in Related(edges, "grant")
  IN IF c.slot = None THEN {<<x, <<>>>> : x \in {y \in own : Grants(y.roles[Len(y.roles)])}}
     ELSE {x \in {y \in own : y.roles[Len(y.roles)] \in usable} \X RoleChains(edges) :
             x[2][1] = x[1].roles[Len(x[1].roles)] /\ Grants(x[2][Len(x[2])])}

Entitlements(c) ==
  {d \in kernel.direct : /\ d.subject = c.subject /\ d.permission = c.permission
                         /\ Active(c.tick, d.from, d.until)}

ActualRolePaths(c) ==
  RolePaths(actualRoles, kernel.edges, IF c.slot = None THEN {} ELSE activations[c.slot].usable, c)

IntendedRolePaths(c) ==
  RolePaths(intendedRoles, intent.edges,
            IF c.slot # None /\ activations[c.slot].accepted THEN Slots[c.slot].requested ELSE {}, c)

BoundTo(subject) == IF subject \in Accounts THEN Canonical[subject] ELSE subject

TestHolds(test, subject) ==
  CASE test.on = "principal" -> BoundTo(subject) # None /\ Attribute[BoundTo(subject)] \in test.values
    [] test.on = "tenant" -> TenantOf[subject] \in test.values
    [] test.on = "account" -> subject \in Accounts /\ Attribute[subject] \in test.values

Eligible(rule, subject) ==
  IF rule.all THEN \A t \in rule.tests : TestHolds(t, subject) ELSE \E t \in rule.tests : TestHolds(t, subject)

EntitledBy(c) ==
  {r \in Birthrights : <<c.subject, c.permission>> \in r.atoms /\ Eligible(r, c.subject)}

Excepted(c) ==
  \E x \in intent.exceptions : /\ x.subject = c.subject /\ x.permission = c.permission
                               /\ Active(c.tick, x.from, x.until)

\* Mutant: any principal of the tenant will do.
BindingByTenant(account) ==
  IF ObservedPrincipal[account] = None THEN "missing"
  ELSE IF TenantOf[ObservedPrincipal[account]] = TenantOf[account] THEN "matches"
  ELSE "mismatch"

Binding(account) ==
  IF ObservedPrincipal[account] = None THEN "missing"
  ELSE IF ObservedPrincipal[account] = Canonical[account] THEN "matches"
  ELSE "mismatch"

Lifecycle(account, tick) ==
  LET o == kernel.observed[account] IN
  CASE o = None -> "inactive"
    [] o # None /\ tick < o.from -> "not_yet_valid"
    [] o # None /\ o.until # None /\ tick >= o.until -> "expired"
    [] OTHER -> IF o.active THEN "active" ELSE "inactive"

GatesPass(c) ==
  c.subject \in Accounts => Binding(c.subject) = "matches" /\ Lifecycle(c.subject, c.tick) = "active"

Reconciliation(intended, effective) ==
  CASE intended /\ effective -> "aligned_allow"
    [] intended /\ ~effective -> "missing"
    [] ~intended /\ effective -> "excessive"
    [] OTHER -> "aligned_deny"

CellPaths(c) == Cardinality(Entitlements(c)) + Cardinality(ActualRolePaths(c)) + Cardinality(IntendedRolePaths(c))

Row(c) ==
  LET effective == Entitlements(c) # {} \/ ActualRolePaths(c) # {}
      birthright == EntitledBy(c) # {}
      intended == birthright \/ Excepted(c) \/ IntendedRolePaths(c) # {}
  IN [birthright |-> birthright, intended |-> intended, effective |-> effective,
      final |-> effective /\ GatesPass(c), reconciliation |-> Reconciliation(intended, effective)]

CellsFit ==
  /\ \A c \in Cells : CellPaths(c) <= MaxPerCell
  /\ Derivations(kernel.edges, actualRoles) + Derivations(intent.edges, intendedRoles)
     + MapThenSumSet(CellPaths, Cells) <= MaxTotal

CompileCells ==
  /\ phase = "sessions"
  /\ IF CellsFit
     THEN /\ phase' = "compiled"
          /\ rows' = [c \in Cells |-> Row(c)]
          /\ UNCHANGED <<input, actualRoles, intendedRoles, activations>>
     ELSE Reject

Next == Validate \/ CompileRoles \/ CompileSessions \/ CompileCells

Spec == Init /\ [][Next]_rbacVars

(***************************************************************************)
(* Properties.                                                             *)
(***************************************************************************)
Reach(x, nodes, succ) ==
  {y \in nodes : \A S \in SUBSET nodes :
     (x \in S /\ \A e \in succ : e[1] \in S => e[2] \in S) => y \in S}

Held(subject) ==
  LET holders == {subject} \cup (IF subject \in Accounts THEN {ObservedPrincipal[subject]} ELSE {})
      groups == UNION {Reach(m[2], Groups, Related(kernel.edges, "nest")) :
                         m \in {n \in Related(kernel.edges, "member") : n[1] \in holders}}
      assigned == {a[2] : a \in {b \in Related(kernel.edges, "subjectRole") : b[1] \in holders}
                             \cup {b \in Related(kernel.edges, "groupRole") : b[1] \in groups}}
  IN UNION {Reach(r, Roles, Related(kernel.edges, "hierarchy")) : r \in assigned}

(* The enumeration of chains finds access exactly where the relations      *)
(* reach it: from the subject or the principal its account is observed to  *)
(* be bound to, through nested groups and role hierarchy, to a grant, in a *)
(* session only through a role that is held and activated                  *)
(* (_compile_actual_role_facts, _actual_cell_paths).                       *)
EffectiveIsReachability ==
  phase = "compiled" =>
    \A c \in Cells :
      LET juniors(r) == Reach(r, Roles, Related(kernel.edges, "hierarchy"))
          entry == IF c.slot = None THEN Held(c.subject)
                   ELSE UNION {juniors(r) : r \in Held(c.subject) \cap input.sessions[c.slot].roles}
      IN rows[c].effective <=> \/ Entitlements(c) # {}
                              \/ \E r \in entry : <<r, c.permission>> \in Related(kernel.edges, "grant")

(* A session never adds access: what a cell allows in a session, also in   *)
(* one that was accepted wrongly or activated roles nobody holds, the same *)
(* subject has without a session; and the roles it can use together meet a *)
(* static constraint only where the subject violates that constraint       *)
(* already (_compile_session_truth, _compile_ssd_truth).                   *)
SessionsNeverWiden ==
  phase = "compiled" =>
    /\ \A c \in Cells : c.slot # None /\ rows[c].effective => Row([c EXCEPT !.slot = None]).effective
    /\ \A s \in DOMAIN Slots, k \in StaticSod :
         Applies(k, Slots[s].subject) /\ Meets(activations[s].usable, k)
           => k \in StaticViolations(Slots[s].subject)

(* A final allow of an account rests on what the account or its canonical  *)
(* owner holds, and on nothing of another tenant: a chain inherited over a *)
(* wrong or stale binding, however it is built, never gets through the     *)
(* gates (_runtime_gates, _validate_kernel_references).                    *)
FinalAllowIsTheOwners ==
  phase = "compiled" =>
    \A c \in Cells :
      c.subject \in Accounts /\ rows[c].final =>
        \A x \in ActualRolePaths(c) :
          /\ x[1].owner \in {c.subject, Canonical[c.subject]}
          /\ \A n \in {x[1].groups[i] : i \in DOMAIN x[1].groups}
                       \cup {x[1].roles[i] : i \in DOMAIN x[1].roles}
                       \cup {x[2][i] : i \in DOMAIN x[2]} : TenantOf[n] = TenantOf[c.subject]

=============================================================================
