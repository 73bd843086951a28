-------------------- MODULE EnterpriseAuthorizationProofs --------------------
(***************************************************************************)
(* The three-valued attribute rules, the composition of the mechanisms and *)
(* the agents over them, for all rules, facts, relations and logs.  The    *)
(* inductive invariant says that what is compiled is what its inputs,      *)
(* which never change, determine, and that nothing is compiled again under *)
(* an access state that rests on it.                                       *)
(***************************************************************************)
EXTENDS EnterpriseOverlay, FiniteSetTheorems, FunctionTheorems, WellFoundedInduction, TLAPS

------------------------------------------------------------------------------
(* Reachability in a directory.  A chain of an acyclic graph meets no node  *)
(* twice, so the bounded enumeration has every path; what is true of all    *)
(* places of a path is shown at the least place where it would fail.        *)

LEMMA LeastNumber ==
  ASSUME NEW T \in SUBSET Nat, T # {}
  PROVE  \E x \in T : \A y \in T : x <= y
<1>1. PICK x \in T : \A y \in T : <<y, x>> \notin OpToRel(<, Nat)
  BY WFMin, NatLessThanWellFounded, Zenon
<1>2. \A y \in T : ~ (y < x)
  BY <1>1, Zenon DEF OpToRel
<1>3. QED
  BY <1>2

\* A path of a graph, of any length.
Path(q, nodes, succ) ==
  /\ q \in Seq(nodes) /\ Len(q) >= 1
  /\ \A i \in 1..Len(q) - 1 : <<q[i], q[i + 1]>> \in succ

Graph(nodes, succ) ==
  IsFiniteSet(nodes) /\ succ \subseteq nodes \X nodes /\ Acyclic(nodes, succ)

LEMMA ChainsArePaths ==
  ASSUME NEW nodes, NEW succ, IsFiniteSet(nodes)
  PROVE  \A q : q \in Chains(nodes, succ) <=> Path(q, nodes, succ) /\ Len(q) <= Cardinality(nodes)
<1>1. Cardinality(nodes) \in Nat
  BY FS_CardinalityType
<1>2. ASSUME NEW q \in Chains(nodes, succ)
      PROVE  Path(q, nodes, succ) /\ Len(q) <= Cardinality(nodes)
  <2>1. PICK n \in 1..Cardinality(nodes) : q \in [1..n -> nodes]
    BY DEF Chains
  <2>2. q \in Seq(nodes) /\ Len(q) = n
    BY <1>1, <2>1
  <2>3. \A i \in 1..Len(q) - 1 : <<q[i], q[i + 1]>> \in succ
    BY DEF Chains
  <2>4. QED
    BY <1>1, <2>2, <2>3 DEF Path
<1>3. ASSUME NEW q, Path(q, nodes, succ), Len(q) <= Cardinality(nodes)
      PROVE  q \in Chains(nodes, succ)
  <2>1. Len(q) \in 1..Cardinality(nodes) /\ q \in [1..Len(q) -> nodes]
    BY <1>1, <1>3 DEF Path
  <2>2. \A i \in 1..Len(q) - 1 : <<q[i], q[i + 1]>> \in succ
    BY <1>3 DEF Path
  <2>3. q \in UNION {[1..n -> nodes] : n \in 1..Cardinality(nodes)}
    BY <2>1
  <2>4. QED
    BY <2>2, <2>3 DEF Chains
<1>4. QED
  BY <1>2, <1>3

LEMMA PathsMeetNoNodeTwice ==
  ASSUME NEW nodes, NEW succ, Graph(nodes, succ), NEW q, Path(q, nodes, succ),
         NEW i \in 1..Len(q), NEW j \in 1..Len(q), i < j
  PROVE  q[i] # q[j]
<1> SUFFICES ASSUME q[i] = q[j] PROVE FALSE
  OBVIOUS
<1> DEFINE S == {q[k] : k \in i..j}
<1>1. Len(q) \in Nat /\ \A k \in i..j : k \in 1..Len(q) /\ q[k] \in nodes
  BY DEF Path
<1>2. S \in (SUBSET nodes) \ {{}}
  <2>1. q[i] \in S
    BY <1>1
  <2>2. QED
    BY <1>1, <2>1
<1>3. PICK x \in S : \A y \in S : <<y, x>> \notin succ
  <2>1. \A R \in (SUBSET nodes) \ {{}} : \E x \in R : \A y \in R : <<y, x>> \notin succ
    BY DEF Graph, Acyclic
  <2> HIDE DEF S
  <2>2. QED
    BY <1>2, <2>1
<1>4. PICK k \in i + 1..j : q[k] = x
  <2>1. PICK k \in i..j : q[k] = x
    OBVIOUS
  <2>2. j \in i + 1..j /\ (k \in i + 1..j \/ k = i)
    BY <1>1
  <2>3. QED
    BY <2>1, <2>2
<1>5. k - 1 \in i..j /\ k - 1 \in 1..Len(q) - 1 /\ (k - 1) + 1 = k
  BY <1>1
<1>6. <<q[k - 1], q[k]>> \in succ
  BY <1>5 DEF Path
<1>7. q[k - 1] \in S
  BY <1>5
<1>8. QED
  BY <1>3, <1>4, <1>6, <1>7

\* So no path of an acyclic graph is too long to be a chain.
LEMMA PathsAreChains ==
  ASSUME NEW nodes, NEW succ, Graph(nodes, succ), NEW q, Path(q, nodes, succ)
  PROVE  q \in Chains(nodes, succ)
<1> DEFINE n == Len(q)
<1>0. n \in Nat /\ 1 \in Int /\ n \in Int
  BY DEF Path
<1>1. n \in Nat /\ q \in [1..n -> nodes] /\ IsFiniteSet(nodes)
  BY DEF Path, Graph
<1>2. \A i, j \in 1..n : i # j => q[i] # q[j]
  <2> SUFFICES ASSUME NEW i \in 1..n, NEW j \in 1..n, i # j
               PROVE  q[i] # q[j]
    OBVIOUS
  <2>1. i < j \/ j < i
    BY <1>1
  <2>2. QED
    BY <2>1, PathsMeetNoNodeTwice
<1>3. q \in Injection(1..n, nodes)
  BY <1>1, <1>2, Fun_IsInj
<1>4. Cardinality(1..n) <= Cardinality(nodes)
  BY <1>1, <1>3, FS_Injection
<1>5. Cardinality(1..n) = n
  <2>1. \A a, b \in Int : Cardinality(a..b) = IF a > b THEN 0 ELSE b - a + 1
    BY FS_Interval, Zenon
  <2>2. ASSUME NEW a \in Int, NEW b \in Int, a = 1, b = n
        PROVE  Cardinality(a..b) = n
    <3> HIDE DEF n
    <3>1. Cardinality(a..b) = IF a > b THEN 0 ELSE b - a + 1
      BY <2>1, Zenon
    <3>2. (IF a > b THEN 0 ELSE b - a + 1) = n
      BY <1>1, <2>2
    <3>3. QED
      BY <3>1, <3>2, Zenon
  <2> HIDE DEF n
  <2>3. QED
    BY <1>0, <2>2, Zenon
<1>6. QED
  BY <1>1, <1>4, <1>5, ChainsArePaths

Linked(x, y, nodes, succ) == \E q \in Chains(nodes, succ) : q[1] = x /\ q[Len(q)] = y

\* A closed set that has the first node of a path has its last.
LEMMA ClosedSetsKeepPaths ==
  ASSUME NEW nodes, NEW succ, NEW q, Path(q, nodes, succ), NEW S, q[1] \in S,
         \A e \in succ : e[1] \in S => e[2] \in S
  PROVE  q[Len(q)] \in S
<1> DEFINE Out == {k \in 1..Len(q) : q[k] \notin S}
<1>1. Len(q) \in Nat /\ Len(q) \in 1..Len(q)
  BY DEF Path
<1>2. ASSUME Out # {} PROVE FALSE
  <2>1. PICK k \in Out : \A m \in Out : k <= m
    <3>1. Out \in SUBSET Nat
      BY <1>1
    <3> HIDE DEF Out
    <3>2. QED
      BY <1>2, <3>1, LeastNumber
  <2>2. k # 1 /\ k \in 1..Len(q)
    OBVIOUS
  <2>3. k - 1 \in 1..Len(q) - 1 /\ (k - 1) + 1 = k /\ k - 1 \in 1..Len(q)
    BY <1>1, <2>2
  <2>4. k - 1 \notin Out
    BY <1>1, <2>1, <2>3
  <2>5. <<q[k - 1], q[k]>> \in succ
    BY <2>3 DEF Path
  <2>6. QED
    BY <2>1, <2>3, <2>4, <2>5
<1>3. QED
  BY <1>1, <1>2

LEMMA ReachIsLinked ==
  ASSUME NEW nodes, NEW succ, Graph(nodes, succ), NEW x \in nodes
  PROVE  \A y : y \in Reach(x, nodes, succ) <=> Linked(x, y, nodes, succ)
<1>1. ASSUME NEW y, Linked(x, y, nodes, succ)
      PROVE  y \in Reach(x, nodes, succ)
  <2>1. PICK q \in Chains(nodes, succ) : q[1] = x /\ q[Len(q)] = y
    BY <1>1 DEF Linked
  <2>2. Path(q, nodes, succ)
    BY ChainsArePaths DEF Graph
  <2>3. y \in nodes
    BY <2>1, <2>2 DEF Path
  <2>4. QED
    BY <2>1, <2>2, <2>3, ClosedSetsKeepPaths DEF Reach
<1>2. ASSUME NEW y \in Reach(x, nodes, succ)
      PROVE  Linked(x, y, nodes, succ)
  <2> DEFINE S == {z \in nodes : Linked(x, z, nodes, succ)}
  <2>1. x \in S
    <3>1. Path(<<x>>, nodes, succ)
      BY DEF Path
    <3>2. QED
      BY <3>1, PathsAreChains DEF Linked
  <2>2. ASSUME NEW e \in succ, e[1] \in S
        PROVE  e[2] \in S
    <3>1. e \in nodes \X nodes
      BY DEF Graph
    <3>2. PICK q \in Chains(nodes, succ) : q[1] = x /\ q[Len(q)] = e[1]
      BY <2>2 DEF Linked
    <3>3. Path(q, nodes, succ)
      BY ChainsArePaths DEF Graph
    <3> DEFINE r == Append(q, e[2])
    <3>4. /\ q \in Seq(nodes) /\ Len(q) \in Nat /\ Len(q) >= 1 /\ e[2] \in nodes /\ e = <<e[1], e[2]>>
          /\ \A i \in 1..Len(q) - 1 : <<q[i], q[i + 1]>> \in succ
      BY <3>1, <3>3 DEF Path
    <3>5. /\ r \in Seq(nodes) /\ Len(r) = Len(q) + 1
          /\ r[Len(r)] = e[2] /\ \A i \in 1..Len(q) : r[i] = q[i]
      BY <3>4
    <3> HIDE DEF r
    <3>6. ASSUME NEW i \in 1..Len(r) - 1
          PROVE  <<r[i], r[i + 1]>> \in succ
      <4>1. CASE i = Len(q)
        BY <3>2, <3>4, <3>5, <4>1
      <4>2. CASE i # Len(q)
        <5>1. i \in 1..Len(q) - 1 /\ i \in 1..Len(q) /\ i + 1 \in 1..Len(q)
          BY <3>4, <3>5, <4>2
        <5>2. QED
          BY <3>4, <3>5, <5>1
      <4>3. QED
        BY <4>1, <4>2
    <3>7. Path(r, nodes, succ)
      BY <3>4, <3>5, <3>6 DEF Path
    <3>8. r[1] = x
      BY <3>2, <3>4, <3>5
    <3>9. r \in Chains(nodes, succ)
      BY <3>7, PathsAreChains
    <3>10. QED
      BY <3>4, <3>5, <3>8, <3>9 DEF Linked
  <2>3. S \in SUBSET nodes
    OBVIOUS
  <2> HIDE DEF S
  <2>4. y \in S
    BY <2>1, <2>2, <2>3 DEF Reach
  <2>5. QED
    BY <2>4 DEF S
<1>3. QED
  BY <1>1, <1>2

LEMMA ReachIsTransitive ==
  ASSUME NEW x, NEW nodes, NEW succ, NEW y \in Reach(x, nodes, succ), NEW z \in Reach(y, nodes, succ)
  PROVE  z \in Reach(x, nodes, succ)
BY DEF Reach


------------------------------------------------------------------------------
(* What the compiled chains hold. *)

Hierarchy(edges) == Related(edges, "hierarchy")
Nesting(edges) == Related(edges, "nest")

\* Edges of a valid kernel or overlay.
GoodEdges(edges) ==
  /\ \A e \in edges : e.kind \in DOMAIN EdgeEnds /\ <<e.left, e.right>> \in EdgeEnds[e.kind]
  /\ StaysInTenant(edges) /\ HasGraphs(edges)

LEMMA GoodEdgesMakeGraphs ==
  ASSUME NEW edges, GoodEdges(edges)
  PROVE  /\ Graph(Roles, Hierarchy(edges)) /\ Graph(Groups, Nesting(edges))
         /\ \A p \in Related(edges, "member") : p[2] \in Groups
         /\ \A p \in Related(edges, "subjectRole") : p[2] \in Roles
         /\ \A p \in Related(edges, "groupRole") : p[1] \in Groups /\ p[2] \in Roles
<1>1. IsFiniteSet(Roles) /\ IsFiniteSet(Groups)
  BY CorpusAssumption
<1>2. /\ Hierarchy(edges) \subseteq Roles \X Roles
      /\ Nesting(edges) \subseteq Groups \X Groups
  BY DEF Hierarchy, Nesting, Related, GoodEdges, EdgeEnds
<1>3. /\ \A p \in Related(edges, "member") : p[2] \in Groups
      /\ \A p \in Related(edges, "subjectRole") : p[2] \in Roles
      /\ \A p \in Related(edges, "groupRole") : p[1] \in Groups /\ p[2] \in Roles
  BY DEF Related, GoodEdges, EdgeEnds
<1>4. QED
  BY <1>1, <1>2, <1>3 DEF Graph, GoodEdges, HasGraphs, Hierarchy, Nesting

\* The roles a subject of its own is assigned, or a group that it reaches.
Assigned(edges, h) ==
  {p[2] : p \in {q \in Related(edges, "subjectRole") : q[1] = h}}
  \cup {p[2] : p \in {q \in Related(edges, "groupRole") :
                        \E m \in Related(edges, "member") :
                          m[1] = h /\ q[1] \in Reach(m[2], Groups, Nesting(edges))}}

Own(edges, h, r) == \E x \in OwnRoles(edges) : x.subject = h /\ x.roles[Len(x.roles)] = r

LEMMA OwnChains ==
  ASSUME NEW edges, NEW x \in OwnRoles(edges)
  PROVE  /\ x.owner = x.subject /\ x.roles \in RoleChains(edges)
         /\ \/ /\ x.groups = <<>>
               /\ \E a \in Related(edges, "subjectRole") : a[1] = x.subject /\ a[2] = x.roles[1]
            \/ /\ x.groups \in GroupChains(edges)
               /\ \E m \in Related(edges, "member") : m[1] = x.subject /\ m[2] = x.groups[1]
               /\ \E a \in Related(edges, "groupRole") :
                    a[1] = x.groups[Len(x.groups)] /\ a[2] = x.roles[1]
<1>1. CASE x \in {[subject |-> a[1][1], owner |-> a[1][1], via |-> a[1], groups |-> <<>>, roles |-> a[2]] :
                    a \in {y \in Related(edges, "subjectRole") \X RoleChains(edges) : y[2][1] = y[1][2]}}
  BY <1>1
<1>2. CASE x \in {[subject |-> a[2].subject, owner |-> a[2].subject, via |-> a[1], groups |-> a[2].groups, roles |-> a[3]] :
                    a \in {y \in Related(edges, "groupRole") \X MembershipPaths(edges) \X RoleChains(edges) :
                             y[2].groups[Len(y[2].groups)] = y[1][1] /\ y[3][1] = y[1][2]}}
  <2>1. PICK a \in Related(edges, "groupRole"), p \in MembershipPaths(edges), q \in RoleChains(edges) :
          /\ x = [subject |-> p.subject, owner |-> p.subject, via |-> a, groups |-> p.groups, roles |-> q]
          /\ p.groups[Len(p.groups)] = a[1] /\ q[1] = a[2]
    BY <1>2
  <2>2. PICK m \in Related(edges, "member"), g \in GroupChains(edges) :
          p = [subject |-> m[1], groups |-> g] /\ g[1] = m[2]
    BY DEF MembershipPaths
  <2>3. QED
    BY <2>1, <2>2
<1>3. QED
  BY <1>1, <1>2 DEF OwnRoles

LEMMA OwnRolesReach ==
  ASSUME NEW edges, GoodEdges(edges), NEW h, NEW r
  PROVE  Own(edges, h, r) <=> \E a \in Assigned(edges, h) : r \in Reach(a, Roles, Hierarchy(edges))
<1>0. /\ \A b : \A a \in Roles : b \in Reach(a, Roles, Hierarchy(edges)) <=> Linked(a, b, Roles, Hierarchy(edges))
      /\ \A b : \A a \in Groups : b \in Reach(a, Groups, Nesting(edges)) <=> Linked(a, b, Groups, Nesting(edges))
  BY GoodEdgesMakeGraphs, ReachIsLinked
<1>a. /\ \A p \in Related(edges, "member") : p[2] \in Groups
      /\ \A p \in Related(edges, "subjectRole") : p[2] \in Roles
      /\ \A p \in Related(edges, "groupRole") : p[1] \in Groups /\ p[2] \in Roles
  BY GoodEdgesMakeGraphs
<1>b. RoleChains(edges) = Chains(Roles, Hierarchy(edges)) /\ GroupChains(edges) = Chains(Groups, Nesting(edges))
  BY DEF RoleChains, GroupChains, Hierarchy, Nesting
<1>1. ASSUME Own(edges, h, r)
      PROVE  \E a \in Assigned(edges, h) : r \in Reach(a, Roles, Hierarchy(edges))
  <2>1. PICK x \in OwnRoles(edges) : x.subject = h /\ x.roles[Len(x.roles)] = r
    BY <1>1 DEF Own
  <2>2. Linked(x.roles[1], r, Roles, Hierarchy(edges))
    BY <1>b, <2>1, OwnChains DEF Linked
  <2>3. x.roles[1] \in Assigned(edges, h) /\ x.roles[1] \in Roles
    <3>1. CASE \E a \in Related(edges, "subjectRole") : a[1] = x.subject /\ a[2] = x.roles[1]
      BY <1>a, <2>1, <3>1 DEF Assigned
    <3>2. CASE /\ x.groups \in GroupChains(edges)
               /\ \E m \in Related(edges, "member") : m[1] = x.subject /\ m[2] = x.groups[1]
               /\ \E a \in Related(edges, "groupRole") :
                    a[1] = x.groups[Len(x.groups)] /\ a[2] = x.roles[1]
      <4>1. PICK m \in Related(edges, "member"), a \in Related(edges, "groupRole") :
              /\ m[1] = h /\ m[2] = x.groups[1]
              /\ a[1] = x.groups[Len(x.groups)] /\ a[2] = x.roles[1]
        BY <2>1, <3>2
      <4>2. Linked(m[2], a[1], Groups, Nesting(edges))
        BY <1>b, <3>2, <4>1 DEF Linked
      <4>3. a[1] \in Reach(m[2], Groups, Nesting(edges))
        BY <1>0, <1>a, <4>2
      <4>4. QED
        BY <1>a, <4>1, <4>3 DEF Assigned
    <3>3. QED
      BY <3>1, <3>2, OwnChains
  <2>4. QED
    BY <1>0, <2>2, <2>3
<1>2. ASSUME NEW a \in Assigned(edges, h), r \in Reach(a, Roles, Hierarchy(edges))
      PROVE  Own(edges, h, r)
  <2>0. a \in Roles
    BY <1>a DEF Assigned
  <2>1. PICK q \in RoleChains(edges) : q[1] = a /\ q[Len(q)] = r
    BY <1>0, <1>2, <1>b, <2>0 DEF Linked
  <2>2. CASE \E p \in Related(edges, "subjectRole") : p[1] = h /\ p[2] = a
    <3>1. PICK p \in Related(edges, "subjectRole") : p[1] = h /\ p[2] = a
      BY <2>2
    <3> DEFINE x == [subject |-> p[1], owner |-> p[1], via |-> p, groups |-> <<>>, roles |-> q]
    <3>2. x \in OwnRoles(edges)
      <4>1. <<p, q>> \in {y \in Related(edges, "subjectRole") \X RoleChains(edges) : y[2][1] = y[1][2]}
        BY <2>1, <3>1
      <4>2. PICK t \in {y \in Related(edges, "subjectRole") \X RoleChains(edges) : y[2][1] = y[1][2]} : t = <<p, q>>
        BY <4>1
      <4>3. x = [subject |-> t[1][1], owner |-> t[1][1], via |-> t[1], groups |-> <<>>, roles |-> t[2]]
        BY <4>2
      <4> HIDE DEF x
      <4>4. QED
        BY <4>3, Zenon DEF OwnRoles
    <3>3. x.subject = h /\ x.roles = q
      BY <3>1
    <3> HIDE DEF x
    <3>4. QED
      BY <2>1, <3>2, <3>3 DEF Own
  <2>3. CASE \E p \in Related(edges, "groupRole"), m \in Related(edges, "member") :
               p[2] = a /\ m[1] = h /\ p[1] \in Reach(m[2], Groups, Nesting(edges))
    <3>1. PICK p \in Related(edges, "groupRole"), m \in Related(edges, "member") :
            p[2] = a /\ m[1] = h /\ p[1] \in Reach(m[2], Groups, Nesting(edges))
      BY <2>3
    <3>2. PICK g \in GroupChains(edges) : g[1] = m[2] /\ g[Len(g)] = p[1]
      BY <1>0, <1>a, <1>b, <3>1 DEF Linked
    <3> DEFINE path == [subject |-> m[1], groups |-> g]
               x == [subject |-> path.subject, owner |-> path.subject, via |-> p, groups |-> path.groups, roles |-> q]
    <3>3. path \in MembershipPaths(edges)
      <4>1. <<m, g>> \in {y \in Related(edges, "member") \X GroupChains(edges) : y[2][1] = y[1][2]}
        BY <3>2
      <4>2. QED
        BY <4>1 DEF MembershipPaths
    <3>4. path.subject = h /\ path.groups = g
      BY <3>1
    <3> HIDE DEF path
    <3>5. x \in OwnRoles(edges)
      <4>1. <<p, path, q>> \in {y \in Related(edges, "groupRole") \X MembershipPaths(edges) \X RoleChains(edges) :
                                  y[2].groups[Len(y[2].groups)] = y[1][1] /\ y[3][1] = y[1][2]}
        BY <2>1, <3>1, <3>2, <3>3, <3>4
      <4>2. PICK t \in {y \in Related(edges, "groupRole") \X MembershipPaths(edges) \X RoleChains(edges) :
                          y[2].groups[Len(y[2].groups)] = y[1][1] /\ y[3][1] = y[1][2]} : t = <<p, path, q>>
        BY <4>1
      <4>3. x = [subject |-> t[2].subject, owner |-> t[2].subject, via |-> t[1], groups |-> t[2].groups, roles |-> t[3]]
        BY <4>2
      <4> HIDE DEF x
      <4>4. QED
        BY <4>3, Zenon DEF OwnRoles
    <3>6. x.subject = h /\ x.roles = q
      BY <3>4
    <3> HIDE DEF x
    <3>7. QED
      BY <2>1, <3>5, <3>6 DEF Own
  <2>4. QED
    BY <2>2, <2>3 DEF Assigned
<1>3. QED
  BY <1>1, <1>2

\* What a chain of an account is made of: its own or an inherited one.
LEMMA AuthorizedChains ==
  ASSUME NEW edges, NEW boundTo
  PROVE  \A x : x \in AuthorizedRoles(edges, boundTo) <=>
                  \/ x \in OwnRoles(edges)
                  \/ \E a \in Accounts, y \in OwnRoles(edges) :
                       y.subject = boundTo[a] /\ x = [y EXCEPT !.subject = a]
<1> DEFINE own == OwnRoles(edges)
<1>1. AuthorizedRoles(edges, boundTo) =
        own \cup {[x[2] EXCEPT !.subject = x[1]] : x \in {y \in Accounts \X own : y[2].subject = boundTo[y[1]]}}
  BY DEF AuthorizedRoles
<1> HIDE DEF own
<1>2. \A x : x \in {[z[2] EXCEPT !.subject = z[1]] : z \in {y \in Accounts \X own : y[2].subject = boundTo[y[1]]}}
               <=> \E a \in Accounts, y \in own : y.subject = boundTo[a] /\ x = [y EXCEPT !.subject = a]
  <2>1. ASSUME NEW a \in Accounts, NEW y \in own, y.subject = boundTo[a]
        PROVE  [y EXCEPT !.subject = a]
                 \in {[z[2] EXCEPT !.subject = z[1]] : z \in {w \in Accounts \X own : w[2].subject = boundTo[w[1]]}}
    <3>1. <<a, y>> \in {w \in Accounts \X own : w[2].subject = boundTo[w[1]]}
      BY <2>1
    <3>2. QED
      BY <3>1
  <2>2. QED
    BY <2>1
<1>3. QED
  BY <1>1, <1>2 DEF own

\* Every authorized chain is a chain of its owner: of the subject or of what it is bound to.
LEMMA AuthorizedChainsHaveOwners ==
  ASSUME NEW edges, NEW boundTo, NEW x \in AuthorizedRoles(edges, boundTo)
  PROVE  \E y \in OwnRoles(edges) :
           /\ x.roles = y.roles /\ x.groups = y.groups /\ x.owner = y.owner
           /\ \/ x.subject = y.subject
              \/ x.subject \in Accounts /\ y.subject = boundTo[x.subject]
<1>0. \A a : \A y \in OwnRoles(edges) : LET z == [y EXCEPT !.subject = a]
                                   IN z.roles = y.roles /\ z.groups = y.groups /\ z.owner = y.owner /\ z.subject = a
  BY DEF OwnRoles
<1>1. CASE x \in OwnRoles(edges)
  BY <1>1
<1>2. CASE \E a \in Accounts, y \in OwnRoles(edges) :
             y.subject = boundTo[a] /\ x = [y EXCEPT !.subject = a]
  BY <1>0, <1>2
<1>3. QED
  BY <1>1, <1>2, AuthorizedChains

\* The last roles of the authorized chains are those held.
LEMMA RolesAreHeld ==
  ASSUME GoodEdges(kernel.edges), NEW s
  PROVE  RolesOf(AuthorizedRoles(kernel.edges, ObservedPrincipal), s) = Held(s)
<1> DEFINE edges == kernel.edges
           holders == {s} \cup (IF s \in Accounts THEN {ObservedPrincipal[s]} ELSE {})
           auth == AuthorizedRoles(edges, ObservedPrincipal)
<1>1. \A r : r \in RolesOf(auth, s) <=> \E h \in holders : Own(edges, h, r)
  <2>1. ASSUME NEW x \in auth, x.subject = s
        PROVE  \E h \in holders : Own(edges, h, x.roles[Len(x.roles)])
    <3>1. PICK y \in OwnRoles(edges) :
            /\ x.roles = y.roles
            /\ x.subject = y.subject \/ (x.subject \in Accounts /\ y.subject = ObservedPrincipal[x.subject])
      BY AuthorizedChainsHaveOwners
    <3>2. y.subject \in holders
      BY <2>1, <3>1
    <3>3. QED
      BY <3>1, <3>2 DEF Own
  <2>2. ASSUME NEW h \in holders, NEW r, Own(edges, h, r)
        PROVE  \E x \in auth : x.subject = s /\ x.roles[Len(x.roles)] = r
    <3>1. PICK y \in OwnRoles(edges) : y.subject = h /\ y.roles[Len(y.roles)] = r
      BY <2>2 DEF Own
    <3>2. CASE h = s
      BY <3>1, <3>2, AuthorizedChains
    <3>3. CASE s \in Accounts /\ h = ObservedPrincipal[s]
      <4>1. [y EXCEPT !.subject = s] \in auth
        BY <3>1, <3>3, AuthorizedChains
      <4>2. [y EXCEPT !.subject = s].subject = s /\ [y EXCEPT !.subject = s].roles = y.roles
        BY DEF OwnRoles
      <4>3. QED
        BY <3>1, <4>1, <4>2
    <3>4. QED
      BY <3>2, <3>3
  <2> HIDE DEF auth, holders
  <2>3. QED
    BY <2>1, <2>2 DEF RolesOf
<1>2. \A h, r : Own(edges, h, r) <=> \E a \in Assigned(edges, h) : r \in Reach(a, Roles, Hierarchy(edges))
  BY OwnRolesReach
<1> DEFINE groups == UNION {Reach(m[2], Groups, Nesting(edges)) :
                              m \in {n \in Related(edges, "member") : n[1] \in holders}}
           assigned == {a[2] : a \in {b \in Related(edges, "subjectRole") : b[1] \in holders}
                                       \cup {b \in Related(edges, "groupRole") : b[1] \in groups}}
<1>3. Held(s) = UNION {Reach(r, Roles, Hierarchy(edges)) : r \in assigned}
  BY Zenon DEF Held, Hierarchy, Nesting
<1>4. \A a : a \in assigned <=> \E h \in holders : a \in Assigned(edges, h)
  <2> HIDE DEF holders
  <2>1. QED
    BY DEF Assigned
<1> HIDE DEF assigned, holders, edges, auth
<1>5. \A r : r \in Held(s) <=> r \in RolesOf(auth, s)
  BY <1>1, <1>2, <1>3, <1>4
<1>6. QED
  BY <1>5, Zenon DEF auth, edges

\* Roles are held under the juniors of what is held.
LEMMA HeldIsClosed ==
  ASSUME NEW s, NEW r \in Held(s), NEW q \in Reach(r, Roles, Hierarchy(kernel.edges))
  PROVE  q \in Held(s)
<1> DEFINE edges == kernel.edges
           holders == {s} \cup (IF s \in Accounts THEN {ObservedPrincipal[s]} ELSE {})
           groups == UNION {Reach(m[2], Groups, Nesting(edges)) :
                              m \in {n \in Related(edges, "member") : n[1] \in holders}}
           assigned == {a[2] : a \in {b \in Related(edges, "subjectRole") : b[1] \in holders}
                                       \cup {b \in Related(edges, "groupRole") : b[1] \in groups}}
<1>1. Held(s) = UNION {Reach(a, Roles, Hierarchy(edges)) : a \in assigned}
  BY Zenon DEF Held, Hierarchy, Nesting
<1> HIDE DEF assigned
<1>2. PICK a \in assigned : r \in Reach(a, Roles, Hierarchy(edges))
  BY <1>1
<1>3. q \in Reach(a, Roles, Hierarchy(edges))
  BY <1>2, ReachIsTransitive
<1>4. QED
  BY <1>1, <1>3

------------------------------------------------------------------------------
(* The inductive invariant: what is compiled is what the input, which never *)
(* changes, determines.                                                     *)

RbacInv ==
  /\ \E family \in Inputs : input \in family
  /\ phase \in {"valid", "roles", "sessions", "compiled"} => KernelIsValid
  /\ phase \in {"roles", "sessions", "compiled"} => actualRoles = AuthorizedRoles(kernel.edges, ObservedPrincipal)
  /\ phase \in {"sessions", "compiled"} => activations = [s \in DOMAIN Slots |-> Activation(s)]
  /\ phase = "compiled" => rows = [c \in Cells |-> Row(c)]

LEMMA RowsAreDetermined ==
  ASSUME kernel' = kernel, intent' = intent, ObservedPrincipal' = ObservedPrincipal,
         UNCHANGED <<input, actualRoles, intendedRoles, activations>>
  PROVE  \A c : Row(c)' = Row(c)
<1>1. \A c : ActualRolePaths(c)' = ActualRolePaths(c) /\ IntendedRolePaths(c)' = IntendedRolePaths(c)
  BY DEF ActualRolePaths, IntendedRolePaths
<1>2. \A c : Entitlements(c)' = Entitlements(c) /\ Excepted(c)' = Excepted(c)
  BY DEF Entitlements, Excepted
<1>3. \A c : GatesPass(c)' = GatesPass(c)
  BY DEF GatesPass, Binding, Lifecycle
<1>4. QED
  BY <1>1, <1>2, <1>3 DEF Row

LEMMA NextKeepsRbacInv ==
  ASSUME RbacInv, [Next]_rbacVars
  PROVE  RbacInv'
<1>1. input' = input
  BY DEF Next, Validate, CompileRoles, CompileSessions, CompileCells, Reject, rbacVars
<1>2. /\ kernel' = kernel /\ intent' = intent /\ ObservedPrincipal' = ObservedPrincipal
      /\ KernelIsValid' = KernelIsValid
  BY <1>1 DEF kernel, intent, ObservedPrincipal, KernelIsValid
<1>3. CASE Validate
  <2>1. phase' \in {"valid", "rejected"} /\ (phase' = "valid" => KernelIsValid)
    BY <1>3 DEF Validate
  <2>2. QED
    BY <1>1, <1>2, <2>1 DEF RbacInv
<1>4. CASE CompileRoles
  <2>1. /\ phase = "valid"
        /\ \/ phase' = "roles" /\ actualRoles' = AuthorizedRoles(kernel.edges, ObservedPrincipal)
           \/ phase' = "rejected"
    BY <1>4 DEF CompileRoles, Reject
  <2>2. QED
    BY <1>1, <1>2, <2>1 DEF RbacInv
<1>5. CASE CompileSessions
  <2>1. /\ phase = "roles" /\ phase' = "sessions" /\ actualRoles' = actualRoles
        /\ activations' = [s \in DOMAIN Slots |-> Activation(s)]
    BY <1>5 DEF CompileSessions
  <2>2. \A s : Activation(s)' = Activation(s)
    BY <1>1, <2>1 DEF Activation
  <2>3. QED
    BY <1>1, <1>2, <2>1, <2>2 DEF RbacInv
<1>6. CASE CompileCells
  <2>1. /\ phase = "sessions"
        /\ actualRoles' = actualRoles /\ intendedRoles' = intendedRoles /\ activations' = activations
        /\ \/ phase' = "compiled" /\ rows' = [c \in Cells |-> Row(c)]
           \/ phase' = "rejected"
    BY <1>6 DEF CompileCells, Reject
  <2>2. \A s : Activation(s)' = Activation(s)
    BY <1>1, <2>1 DEF Activation
  <2>3. \A c : Row(c)' = Row(c)
    BY <1>1, <1>2, <2>1, RowsAreDetermined
  <2>4. QED
    BY <1>1, <1>2, <2>1, <2>2, <2>3 DEF RbacInv
<1>7. CASE UNCHANGED rbacVars
  <2>1. UNCHANGED <<input, phase, actualRoles, intendedRoles, activations, rows>>
    BY <1>7 DEF rbacVars
  <2>2. \A s : Activation(s)' = Activation(s)
    BY <1>1, <2>1 DEF Activation
  <2>3. \A c : Row(c)' = Row(c)
    BY <1>1, <1>2, <2>1, RowsAreDetermined
  <2>4. QED
    BY <1>1, <1>2, <2>1, <2>2, <2>3 DEF RbacInv
<1>8. QED
  BY <1>3, <1>4, <1>5, <1>6, <1>7 DEF Next

\* What was compiled.
LEMMA CompiledFacts ==
  ASSUME RbacInv, phase = "compiled"
  PROVE  /\ GoodEdges(kernel.edges) /\ KernelIsValid
         /\ actualRoles = AuthorizedRoles(kernel.edges, ObservedPrincipal)
         /\ \A s : RolesOf(actualRoles, s) = Held(s)
         /\ \A s \in DOMAIN Slots : activations[s].usable = input.sessions[s].roles \cap Held(Slots[s].subject)
         /\ \A c \in Cells : rows[c] = Row(c)
<1>1. KernelIsValid /\ actualRoles = AuthorizedRoles(kernel.edges, ObservedPrincipal)
      /\ activations = [s \in DOMAIN Slots |-> Activation(s)] /\ rows = [c \in Cells |-> Row(c)]
  BY DEF RbacInv
<1>2. GoodEdges(kernel.edges)
  <2>1. \A e \in kernel.edges : e.kind \in DOMAIN EdgeEnds /\ <<e.left, e.right>> \in EdgeEnds[e.kind]
    BY EdgesAssumption DEF RbacInv, kernel
  <2>2. QED
    BY <1>1, <2>1 DEF GoodEdges, KernelIsValid
<1>3. \A s : RolesOf(actualRoles, s) = Held(s)
  BY <1>1, <1>2, RolesAreHeld
<1>4. \A s \in DOMAIN Slots : activations[s].usable = input.sessions[s].roles \cap Held(Slots[s].subject)
  BY <1>1, <1>3 DEF Activation
<1>5. QED
  BY <1>1, <1>2, <1>3, <1>4

Proper(c) == c.slot # None => c.slot \in DOMAIN Slots /\ Slots[c.slot].subject = c.subject

Entry(c) ==
  IF c.slot = None THEN Held(c.subject)
  ELSE UNION {Reach(r, Roles, Hierarchy(kernel.edges)) : r \in Held(c.subject) \cap input.sessions[c.slot].roles}

\* The enumerated paths of a cell are there exactly where a grant is reached.
LEMMA PathsReachGrants ==
  ASSUME RbacInv, phase = "compiled", NEW c, Proper(c)
  PROVE  ActualRolePaths(c) # {} <=> \E r \in Entry(c) : <<r, c.permission>> \in Related(kernel.edges, "grant")
<1> DEFINE Last(x) == x.roles[Len(x.roles)]
           own == {x \in actualRoles : x.subject = c.subject}
           Granted(r) == <<r, c.permission>> \in Related(kernel.edges, "grant")
<1>1. \A r : r \in Held(c.subject) <=> \E x \in own : Last(x) = r
  <2>1. RolesOf(actualRoles, c.subject) = Held(c.subject)
    BY CompiledFacts
  <2>2. QED
    BY <2>1 DEF RolesOf
<1>2. CASE c.slot = None
  <2>1. ActualRolePaths(c) = {<<x, <<>>>> : x \in {y \in own : Granted(Last(y))}}
    BY <1>2 DEF ActualRolePaths, RolePaths
  <2> HIDE DEF own
  <2>2. ActualRolePaths(c) # {} <=> \E x \in own : Granted(Last(x))
    BY <2>1
  <2>3. QED
    BY <1>1, <1>2, <2>2 DEF Entry
<1>3. CASE c.slot # None
  <2> DEFINE usable == activations[c.slot].usable
             chains == RoleChains(kernel.edges)
  <2>1. ActualRolePaths(c) = {x \in {y \in own : Last(y) \in usable} \X chains :
                                x[2][1] = Last(x[1]) /\ Granted(x[2][Len(x[2])])}
    BY <1>3 DEF ActualRolePaths, RolePaths
  <2>2. usable = input.sessions[c.slot].roles \cap Held(c.subject)
    BY <1>3, CompiledFacts DEF Proper
  <2>3. \A s : \A r \in Held(c.subject) : s \in Reach(r, Roles, Hierarchy(kernel.edges))
                                      <=> \E q \in chains : q[1] = r /\ q[Len(q)] = s
    <3>1. \A r \in Held(c.subject) : r \in Roles
      <4>1. \A x \in actualRoles : x.roles \in RoleChains(kernel.edges)
        BY CompiledFacts, AuthorizedChainsHaveOwners, OwnChains
      <4>2. \A q \in RoleChains(kernel.edges) : q \in Seq(Roles) /\ Len(q) >= 1
        BY CorpusAssumption, ChainsArePaths DEF RoleChains, Path
      <4>3. \A q \in RoleChains(kernel.edges) : q[Len(q)] \in Roles
        BY <4>2
      <4>4. QED
        BY <1>1, <4>1, <4>3
    <3>2. chains = Chains(Roles, Hierarchy(kernel.edges))
      BY DEF RoleChains, Hierarchy
    <3>3. Graph(Roles, Hierarchy(kernel.edges))
      BY CompiledFacts, GoodEdgesMakeGraphs
    <3> HIDE DEF chains
    <3>4. QED
      BY <3>1, <3>2, <3>3, ReachIsLinked DEF Linked
  <2> HIDE DEF own, usable, chains
  <2>4. ASSUME ActualRolePaths(c) # {}
        PROVE  \E r \in Entry(c) : Granted(r)
    <3>1. PICK x \in own, q \in chains : Last(x) \in usable /\ q[1] = Last(x) /\ Granted(q[Len(q)])
      BY <2>1, <2>4
    <3>2. Last(x) \in Held(c.subject) \cap input.sessions[c.slot].roles
      BY <2>2, <3>1
    <3>3. q[Len(q)] \in Reach(Last(x), Roles, Hierarchy(kernel.edges))
      BY <2>3, <3>1, <3>2
    <3>4. q[Len(q)] \in Entry(c)
      BY <1>3, <3>2, <3>3 DEF Entry
    <3>5. QED
      BY <3>1, <3>4
  <2>5. ASSUME NEW s \in Entry(c), Granted(s)
        PROVE  ActualRolePaths(c) # {}
    <3>1. PICK r \in Held(c.subject) \cap input.sessions[c.slot].roles :
            s \in Reach(r, Roles, Hierarchy(kernel.edges))
      BY <1>3 DEF Entry
    <3>2. PICK x \in own : Last(x) = r
      BY <1>1, <3>1
    <3>3. PICK q \in chains : q[1] = r /\ q[Len(q)] = s
      BY <2>3, <3>1
    <3>4. <<x, q>> \in {y \in own : Last(y) \in usable} \X chains
      BY <2>2, <3>1, <3>2, <3>3
    <3>5. <<x, q>> \in ActualRolePaths(c)
      BY <2>1, <2>5, <3>2, <3>3, <3>4
    <3>6. QED
      BY <3>5
  <2>6. QED
    BY <2>4, <2>5
<1>4. QED
  BY <1>2, <1>3

LEMMA CellsAreProper ==
  ASSUME NEW c \in Cells
  PROVE  Proper(c) /\ Proper([c EXCEPT !.slot = None])
         /\ LET d == [c EXCEPT !.slot = None]
            IN d.slot = None /\ d.subject = c.subject /\ d.permission = c.permission /\ d.tick = c.tick
BY CorpusAssumption DEF Proper

LEMMA ReachabilityFollows == RbacInv => EffectiveIsReachability
<1> SUFFICES ASSUME RbacInv, phase = "compiled", NEW c \in Cells
             PROVE  rows[c].effective <=> \/ Entitlements(c) # {}
                                          \/ \E r \in Entry(c) : <<r, c.permission>> \in Related(kernel.edges, "grant")
  BY Zenon DEF EffectiveIsReachability, Entry, Hierarchy
<1>1. rows[c] = Row(c) /\ Proper(c)
  BY CompiledFacts, CellsAreProper
<1>2. Row(c).effective <=> Entitlements(c) # {} \/ ActualRolePaths(c) # {}
  BY DEF Row
<1>3. QED
  BY <1>1, <1>2, PathsReachGrants

LEMMA SessionsFollow == RbacInv => SessionsNeverWiden
<1> SUFFICES ASSUME RbacInv, phase = "compiled"
             PROVE  /\ \A c \in Cells : c.slot # None /\ rows[c].effective => Row([c EXCEPT !.slot = None]).effective
                    /\ \A s \in DOMAIN Slots, k \in StaticSod :
                         Applies(k, Slots[s].subject) /\ Meets(activations[s].usable, k)
                           => k \in StaticViolations(Slots[s].subject)
  BY DEF SessionsNeverWiden
<1>1. ASSUME NEW c \in Cells, c.slot # None, rows[c].effective
      PROVE  Row([c EXCEPT !.slot = None]).effective
  <2>1. PICK d : d = [c EXCEPT !.slot = None]
    OBVIOUS
  <2>2. Proper(c) /\ Proper(d) /\ d.slot = None /\ d.subject = c.subject /\ d.permission = c.permission /\ d.tick = c.tick
    BY <2>1, CellsAreProper
  <2>3. \A x : Row(x).effective <=> Entitlements(x) # {} \/ ActualRolePaths(x) # {}
    BY DEF Row
  <2>4. rows[c] = Row(c)
    BY CompiledFacts
  <2>5. Entitlements(d) = Entitlements(c)
    BY <2>2 DEF Entitlements
  <2>6. Entry(c) \subseteq Entry(d)
    BY <1>1, <2>2, HeldIsClosed DEF Entry
  <2>7. ActualRolePaths(c) # {} => ActualRolePaths(d) # {}
    BY <2>2, <2>6, PathsReachGrants
  <2>8. QED
    BY <1>1, <2>1, <2>3, <2>4, <2>5, <2>7
<1>2. ASSUME NEW s \in DOMAIN Slots, NEW k \in StaticSod,
             Applies(k, Slots[s].subject), Meets(activations[s].usable, k)
      PROVE  k \in StaticViolations(Slots[s].subject)
  <2> DEFINE all == RolesOf(actualRoles, Slots[s].subject) \cap k.roles
             some == activations[s].usable \cap k.roles
  <2>1. IsFiniteSet(k.roles) /\ k.cardinality \in Nat
    BY CorpusAssumption
  <2>2. some \in SUBSET all /\ all \in SUBSET k.roles
    BY CompiledFacts
  <2> HIDE DEF all, some
  <2>3. IsFiniteSet(all)
    BY <2>1, <2>2, FS_Subset
  <2>4. IsFiniteSet(some) /\ Cardinality(some) <= Cardinality(all)
    BY <2>2, <2>3, FS_Subset
  <2>5. Cardinality(some) \in Nat /\ Cardinality(all) \in Nat
    BY <2>3, <2>4, FS_CardinalityType
  <2>6. Cardinality(some) >= k.cardinality
    BY <1>2 DEF Meets, some
  <2>7. Cardinality(all) >= k.cardinality
    BY <2>1, <2>4, <2>5, <2>6
  <2>8. QED
    BY <1>2, <2>7 DEF StaticViolations, Meets, all
<1>3. QED
  BY <1>1, <1>2

\* A path over edges of one tenant stays in it.
LEMMA ChainsStayInTenant ==
  ASSUME NEW edges, StaysInTenant(edges), NEW nodes, IsFiniteSet(nodes), NEW kind,
         NEW q \in Chains(nodes, Related(edges, kind)), NEW i \in DOMAIN q
  PROVE  TenantOf[q[i]] = TenantOf[q[1]]
<1>0. Path(q, nodes, Related(edges, kind))
  BY ChainsArePaths
<1>1. Len(q) \in Nat /\ DOMAIN q = 1..Len(q)
  BY <1>0 DEF Path
<1>2. \A e \in Related(edges, kind) : TenantOf[e[1]] = TenantOf[e[2]]
  BY DEF Related, StaysInTenant
<1> DEFINE Out == {k \in 1..Len(q) : TenantOf[q[k]] # TenantOf[q[1]]}
<1>3. ASSUME Out # {} PROVE FALSE
  <2>1. PICK k \in Out : \A m \in Out : k <= m
    <3>1. Out \in SUBSET Nat
      BY <1>1
    <3> HIDE DEF Out
    <3>2. QED
      BY <1>3, <3>1, LeastNumber
  <2>2. k # 1 /\ k \in 1..Len(q)
    OBVIOUS
  <2>3. k - 1 \in 1..Len(q) - 1 /\ (k - 1) + 1 = k /\ k - 1 \in 1..Len(q)
    BY <1>1, <2>2
  <2>4. k - 1 \notin Out
    BY <1>1, <2>1, <2>3
  <2>5. <<q[k - 1], q[k]>> \in Related(edges, kind)
    BY <1>0, <2>3 DEF Path
  <2>6. TenantOf[q[k - 1]] = TenantOf[q[k]]
    BY <1>2, <2>5
  <2>7. QED
    BY <2>1, <2>3, <2>4, <2>6
<1>4. QED
  BY <1>1, <1>3

LEMMA OwnersFollow == RbacInv => FinalAllowIsTheOwners
<1> SUFFICES ASSUME RbacInv, phase = "compiled", NEW c \in Cells, c.subject \in Accounts, rows[c].final,
                    NEW x \in ActualRolePaths(c)
             PROVE  /\ x[1].owner \in {c.subject, Canonical[c.subject]}
                    /\ \A n \in {x[1].groups[i] : i \in DOMAIN x[1].groups}
                                 \cup {x[1].roles[i] : i \in DOMAIN x[1].roles}
                                 \cup {x[2][i] : i \in DOMAIN x[2]} : TenantOf[n] = TenantOf[c.subject]
  BY DEF FinalAllowIsTheOwners
<1> DEFINE edges == kernel.edges
<1>1. GoodEdges(edges) /\ StaysInTenant(edges) /\ KernelIsValid
  BY CompiledFacts DEF GoodEdges
<1>2. ObservedPrincipal[c.subject] = Canonical[c.subject] /\ ObservedPrincipal[c.subject] # None
  <2>1. rows[c].final = Row(c).final
    BY CompiledFacts
  <2>2. GatesPass(c)
    BY <2>1 DEF Row
  <2>3. QED
    BY <2>2 DEF GatesPass, Binding
<1>3. TenantOf[ObservedPrincipal[c.subject]] = TenantOf[c.subject]
  BY <1>1, <1>2 DEF KernelIsValid
<1>4. /\ x[1] \in actualRoles /\ x[1].subject = c.subject
      /\ \/ x[2] = <<>>
         \/ x[2] \in RoleChains(edges) /\ x[2][1] = x[1].roles[Len(x[1].roles)]
  <2> DEFINE own == {y \in actualRoles : y.subject = c.subject}
             Granted(r) == <<r, c.permission>> \in Related(edges, "grant")
  <2>1. CASE c.slot = None
    <3>1. ActualRolePaths(c) = {<<y, <<>>>> : y \in {z \in own : Granted(z.roles[Len(z.roles)])}}
      BY <2>1 DEF ActualRolePaths, RolePaths
    <3> HIDE DEF Granted
    <3>2. QED
      BY <3>1
  <2>2. CASE c.slot # None
    <3> DEFINE usable == activations[c.slot].usable
    <3>1. ActualRolePaths(c) = {z \in {y \in own : y.roles[Len(y.roles)] \in usable} \X RoleChains(edges) :
                                  z[2][1] = z[1].roles[Len(z[1].roles)] /\ Granted(z[2][Len(z[2])])}
      BY <2>2 DEF ActualRolePaths, RolePaths
    <3> HIDE DEF Granted, usable
    <3>2. QED
      BY <3>1
  <2>3. QED
    BY <2>1, <2>2
<1>5. PICK y \in OwnRoles(edges) :
        /\ x[1].roles = y.roles /\ x[1].groups = y.groups /\ x[1].owner = y.owner
        /\ y.subject = c.subject \/ y.subject = ObservedPrincipal[c.subject]
  BY <1>4, CompiledFacts, AuthorizedChainsHaveOwners
<1>6. x[1].owner \in {c.subject, Canonical[c.subject]}
  BY <1>2, <1>5, OwnChains
<1>7. TenantOf[y.subject] = TenantOf[c.subject]
  BY <1>3, <1>5
<1>8. /\ \A q \in RoleChains(edges) : \A i \in DOMAIN q : TenantOf[q[i]] = TenantOf[q[1]]
      /\ \A q \in GroupChains(edges) : \A i \in DOMAIN q : TenantOf[q[i]] = TenantOf[q[1]]
  BY <1>1, CorpusAssumption, ChainsStayInTenant DEF RoleChains, GroupChains
<1>9. \A kind : \A e \in Related(edges, kind) : TenantOf[e[1]] = TenantOf[e[2]]
  BY <1>1 DEF Related, StaysInTenant
<1>10. \A q \in RoleChains(edges) \cup GroupChains(edges) : Len(q) \in DOMAIN q
  BY CorpusAssumption, ChainsArePaths DEF RoleChains, GroupChains, Path
<1>11. /\ y.roles \in RoleChains(edges) /\ TenantOf[y.roles[1]] = TenantOf[y.subject]
       /\ \A i \in DOMAIN y.groups : TenantOf[y.groups[i]] = TenantOf[y.subject]
  <2>1. y.roles \in RoleChains(edges)
    BY OwnChains
  <2>2. CASE /\ y.groups = <<>>
             /\ \E a \in Related(edges, "subjectRole") : a[1] = y.subject /\ a[2] = y.roles[1]
    BY <1>9, <2>1, <2>2
  <2>3. CASE /\ y.groups \in GroupChains(edges)
             /\ \E m \in Related(edges, "member") : m[1] = y.subject /\ m[2] = y.groups[1]
             /\ \E a \in Related(edges, "groupRole") :
                  a[1] = y.groups[Len(y.groups)] /\ a[2] = y.roles[1]
    <3>1. TenantOf[y.groups[1]] = TenantOf[y.subject]
      BY <1>9, <2>3
    <3>2. TenantOf[y.groups[Len(y.groups)]] = TenantOf[y.subject]
      BY <1>8, <1>10, <2>3, <3>1
    <3>3. TenantOf[y.roles[1]] = TenantOf[y.subject]
      BY <1>9, <2>3, <3>2
    <3>4. QED
      BY <1>8, <2>1, <2>3, <3>1, <3>3
  <2>4. QED
    BY <2>2, <2>3, OwnChains
<1>12. \A i \in DOMAIN y.roles : TenantOf[y.roles[i]] = TenantOf[y.subject]
  BY <1>8, <1>11
<1>13. \A i \in DOMAIN x[2] : TenantOf[x[2][i]] = TenantOf[y.subject]
  <2>1. CASE x[2] = <<>>
    BY <2>1
  <2>2. CASE x[2] \in RoleChains(edges) /\ x[2][1] = y.roles[Len(y.roles)]
    BY <1>8, <1>10, <1>11, <1>12, <2>2
  <2>3. QED
    BY <1>4, <1>5, <2>1, <2>2
<1>14. QED
  BY <1>5, <1>6, <1>7, <1>11, <1>12, <1>13

\* What the compiler has compiled is what the kernel and the overlay determine, at every
\* phase (enterprise/rbac/compiler.py).
THEOREM DirectoryIsDetermined == Spec => []RbacInv
<1>1. Init => RbacInv
  BY DEF Init, RbacInv
<1>2. RbacInv /\ [Next]_rbacVars => RbacInv'
  BY NextKeepsRbacInv
<1>3. QED
  BY <1>1, <1>2, PTL DEF Spec

\* The bounded enumeration of paths allows a cell exactly where groups, hierarchy and
\* grants reach it (enterprise/rbac/compiler.py, bounded_paths and _actual_cell_paths).
THEOREM EffectiveMeansReachable == Spec => []EffectiveIsReachability
<1>1. RbacInv => EffectiveIsReachability
  BY ReachabilityFollows
<1>2. QED
  BY <1>1, DirectoryIsDetermined, PTL

\* A session gives nothing that its subject does not have without it
\* (_compile_session_truth, _compile_ssd_truth).
THEOREM NoSessionWidens == Spec => []SessionsNeverWiden
<1>1. RbacInv => SessionsNeverWiden
  BY SessionsFollow
<1>2. QED
  BY <1>1, DirectoryIsDetermined, PTL

\* A final allow of an account rests on itself or its canonical owner, in its tenant
\* (_runtime_gates, _validate_kernel_references).
THEOREM FinalAllowsAreTheOwners == Spec => []FinalAllowIsTheOwners
<1>1. RbacInv => FinalAllowIsTheOwners
  BY OwnersFollow
<1>2. QED
  BY <1>1, DirectoryIsDetermined, PTL

\* Attributes, relations and agents run beside the compiler of the directory and leave it
\* alone: what is proved of it holds under them too (enterprise/authorization).
THEOREM DirectoryRunsUnderTheOverlay == OverlaySpec => Spec
<1>1. OverlayInit => Init
  BY DEF OverlayInit, AccessInit
<1>2. [OverlayNext]_overlayVars => [Next]_rbacVars
  <2> SUFFICES ASSUME [OverlayNext]_overlayVars PROVE [Next]_rbacVars
    OBVIOUS
  <2>1. CASE CompileAccess
    BY <2>1 DEF CompileAccess, AccessNext, CompileDirectory, CompileAbac, CompileRebac, Compose
  <2>2. CASE UNCHANGED accessVars
    BY <2>2 DEF accessVars
  <2>3. QED
    BY <2>1, <2>2 DEF OverlayNext, overlayVars, CompileTruth, RevokeCredential, RevokeDelegation, DiscardEvidence,
                      AttemptAction, PerformAudit, Occurs, accessVars
<1>3. QED
  BY <1>1, <1>2, PTL DEF OverlaySpec, Spec

------------------------------------------------------------------------------
(* The mechanisms and their composition. *)

AbacDone == abac \notin {Pending, Failed}
RebacDone == rebac \notin {Pending, Failed}
AccessDone == access \notin {Pending, Failed}

IInv ==
  /\ \A c \in Cells : policy.profile[c] \in Profiles
  /\ AbacDone => abac = [l \in Layers |-> [c \in Cells |-> AbacOutcome(policy.abac[l], c)]]
  /\ RebacDone => rebac = [l \in Layers |-> [c \in Cells |-> RebacOutcome(policy.rebac[l], c)]]
  /\ AccessDone => /\ AbacDone /\ RebacDone /\ Supplied /\ phase = "compiled"
                   /\ access = [c \in Cells |-> AccessOf(c)]

------------------------------------------------------------------------------
(* Precedence. *)

\* Without a conflict the allow-first combination is the combination.
LEMMA CombinedWithoutConflict ==
  ASSUME NEW O, ~Combined(O).conflict
  PROVE  AllowFirst(O) = Combined(O).outcome
<1>1. ~({"allow", "deny"} \subseteq O)
  BY DEF Combined
<1>2. CASE "allow" \in O
  <2>1. "deny" \notin O
    BY <1>1, <1>2
  <2>2. QED
    BY <1>2, <2>1 DEF AllowFirst, Combined
<1>3. CASE "allow" \notin O
  BY <1>3 DEF AllowFirst
<1>4. QED
  BY <1>2, <1>3

LEMMA SilentOutcomesAgree ==
  ASSUME IInv, AccessDone, NEW l \in Layers, NEW c \in Cells, ~InConflict(l, c)
  PROVE  OutcomesAllowFirst(l, c) = Outcomes(l, c)
<1> DEFINE M == Mechanisms(policy.profile[c])
<1>1. /\ AbacDone /\ RebacDone /\ Supplied
      /\ abac[l][c] = AbacOutcome(policy.abac[l], c)
      /\ rebac[l][c] = RebacOutcome(policy.rebac[l], c)
  BY DEF IInv
<1>2. M \subseteq {"rbac", "abac", "rebac"} /\ M \ {"rbac"} \subseteq policy.supplied
  BY <1>1 DEF IInv, Profiles, Mechanisms, Supplied
<1>3. Internal(l, c) = {}
  BY DEF InConflict
<1>4. ASSUME NEW m \in M PROVE OutcomesAllowFirst(l, c)[m] = Outcomes(l, c)[m]
  <2>1. CASE m = "rbac"
    BY <2>1 DEF OutcomesAllowFirst
  <2>2. CASE m = "abac"
    <3> DEFINE O == RuleOutcomes(RulesFor(policy.abac[l].rules, c), FactsFor(policy.abac[l].facts, c))
    <3>1. abac[l][c] = Combined(O)
      BY <1>1 DEF AbacOutcome
    <3>2. ~abac[l][c].conflict
      BY <1>2, <1>3, <2>2 DEF Internal
    <3>3. AllowFirst(O) = Combined(O).outcome
      BY <3>1, <3>2, CombinedWithoutConflict
    <3>4. Outcomes(l, c)[m] = abac[l][c].outcome
      BY <2>2 DEF Outcomes
    <3>5. OutcomesAllowFirst(l, c)[m] = AllowFirst(O)
      BY <2>2 DEF OutcomesAllowFirst
    <3>6. QED
      BY <3>1, <3>3, <3>4, <3>5
  <2>3. CASE m = "rebac"
    <3> DEFINE O == {RebacRuleOutcome(r, c, InForce(policy.rebac[l].tuples, c.tick), policy.rebac[l].unknown) :
                       r \in RulesFor(policy.rebac[l].rules, c)}
    <3>1. rebac[l][c] = Combined(O)
      BY <1>1 DEF RebacOutcome
    <3>2. ~rebac[l][c].conflict
      BY <1>2, <1>3, <2>3 DEF Internal
    <3>3. AllowFirst(O) = Combined(O).outcome
      BY <3>1, <3>2, CombinedWithoutConflict
    <3>4. Outcomes(l, c)[m] = rebac[l][c].outcome
      BY <2>3 DEF Outcomes
    <3>5. OutcomesAllowFirst(l, c)[m] = AllowFirst(O)
      BY <2>3 DEF OutcomesAllowFirst
    <3>6. QED
      BY <3>1, <3>3, <3>4, <3>5
  <2>4. QED
    BY <1>2, <2>1, <2>2, <2>3
<1>5. QED
  BY <1>4 DEF OutcomesAllowFirst, Outcomes

LEMMA SilenceFollows ==
  ASSUME IInv
  PROVE  SilentCellsIgnorePrecedence
<1> SUFFICES ASSUME AccessDone, NEW l \in Layers, NEW c \in Cells, ~access[c].conflict[l]
             PROVE  LET first == OutcomesAllowFirst(l, c)
                        values == {first[m] : m \in DOMAIN first}
                        decision == IF l = "actual" THEN access[c].effective ELSE access[c].intended
                    IN decision = IF Guarded(policy.profile[c]) THEN values = {"allow"} ELSE "allow" \in values
  BY DEF SilentCellsIgnorePrecedence, AccessDone
<1> DEFINE O == Outcomes(l, c)
           V == {O[m] : m \in DOMAIN O}
<1>1. access[c] = AccessOf(c)
  BY DEF IInv
<1>2. ~InConflict(l, c)
  BY <1>1 DEF AccessOf
<1>3. OutcomesAllowFirst(l, c) = O
  BY <1>2, SilentOutcomesAgree
<1>4. DOMAIN O = Mechanisms(policy.profile[c])
  BY DEF Outcomes
<1>5. ~({"allow", "deny"} \subseteq V)
  BY <1>2, <1>4 DEF InConflict
<1>6. (IF l = "actual" THEN access[c].effective ELSE access[c].intended) = Normalize(policy.profile[c], O)
  BY <1>1 DEF AccessOf, Layers
<1>7. Normalize(policy.profile[c], O) = IF Guarded(policy.profile[c]) THEN V = {"allow"} ELSE "allow" \in V
  <2>1. CASE Guarded(policy.profile[c])
    BY <2>1 DEF Normalize
  <2>2. CASE ~Guarded(policy.profile[c])
    BY <1>5, <2>2 DEF Normalize
  <2>3. QED
    BY <2>1, <2>2
<1> HIDE DEF O
<1>8. QED
  BY <1>3, <1>6, <1>7

------------------------------------------------------------------------------
(* Three-valued evaluation. *)

\* A completion adds values of unknown keys, and only those.
LEMMA CompletionKeepsTheKnown ==
  ASSUME NEW rules, NEW facts, NEW f \in Completions(rules, facts), NEW r \in rules, NEW t \in r.tests,
         Predicate(t, facts) # "unknown"
  PROVE  Predicate(t, f) = Predicate(t, facts)
<1> DEFINE known == {x \in facts : x.value # None}
           all == UNION {UNION {Readings(q) : q \in s.tests} : s \in rules}
           ids == {x.id : x \in known}
           open == all \ ids
           Known(S) == {x \in S : x.id \in Readings(t) /\ x.value # None}
           Value(K) ==
             IF {x.id : x \in K} # Readings(t) THEN "unknown"
             ELSE IF Compares(t, [k \in Readings(t) |-> (CHOOSE x \in K : x.id = k).value]) THEN "true"
             ELSE "false"
<1>0. \A S : Predicate(t, S) = Value(Known(S))
  BY DEF Predicate
<1>1. PICK value : f = known \cup {[id |-> k, value |-> value[k]] : k \in open}
  BY DEF Completions
<1>2. {x.id : x \in Known(facts)} = Readings(t)
  <2>1. \A K : {x.id : x \in K} # Readings(t) => Value(K) = "unknown"
    OBVIOUS
  <2> HIDE DEF Value, Known
  <2>2. QED
    BY <1>0, <2>1
<1>3. Readings(t) \subseteq ids
  BY <1>2
<1>4. \A k \in open : k \notin Readings(t)
  <2> HIDE DEF all, ids
  <2>1. QED
    BY <1>3
<1>5. Known(f) = Known(facts)
  <2>1. ASSUME NEW x \in f, x.id \in Readings(t) PROVE x \in known
    <3> DEFINE Rec(k) == [id |-> k, value |-> value[k]]
    <3>1. x \in known \/ \E k \in open : x = Rec(k)
      BY <1>1
    <3>2. \A k : Rec(k).id = k
      OBVIOUS
    <3> HIDE DEF Rec, open, known
    <3>3. QED
      BY <1>4, <2>1, <3>1, <3>2
  <2>2. known \subseteq f
    BY <1>1
  <2>3. QED
    BY <2>1, <2>2
<1>6. QED
  <2> HIDE DEF Value, Known
  <2>1. QED
    BY <1>0, <1>5

LEMMA CompletionKeepsOutcomes ==
  ASSUME NEW rules, NEW facts, NEW f \in Completions(rules, facts), NEW r \in rules,
         PredicateOutcome(r, facts) # "unknown"
  PROVE  RuleOutcome(r, f) = RuleOutcome(r, facts)
<1> DEFINE before == {Predicate(t, facts) : t \in r.tests}
           after == {Predicate(t, f) : t \in r.tests}
<1>1. \A t \in r.tests : Predicate(t, facts) # "unknown" => Predicate(t, f) = Predicate(t, facts)
  BY CompletionKeepsTheKnown
<1>2. Decisive(r) # "unknown"
  BY DEF Decisive
<1>3. PredicateOutcome(r, f) = PredicateOutcome(r, facts)
  <2>1. CASE Decisive(r) \in before
    <3>1. Decisive(r) \in after
      BY <1>1, <1>2, <2>1
    <3>2. PredicateOutcome(r, f) = Decisive(r) /\ PredicateOutcome(r, facts) = Decisive(r)
      BY <2>1, <3>1 DEF PredicateOutcome
    <3>3. QED
      BY <3>2
  <2>2. CASE Decisive(r) \notin before
    <3>1. "unknown" \notin before
      BY <2>2 DEF PredicateOutcome
    <3>2. after = before
      BY <1>1, <3>1
    <3>3. QED
      BY <3>2 DEF PredicateOutcome
  <2>3. QED
    BY <2>1, <2>2
<1>4. QED
  BY <1>3 DEF RuleOutcome

LEMMA PredicateOutcomes ==
  ASSUME NEW r, NEW facts
  PROVE  PredicateOutcome(r, facts) \in {"true", "false", "unknown"}
BY DEF PredicateOutcome, Decisive

\* The outcome of a rule is unknown, not applicable, or the effect of a rule that is known.
LEMMA RuleOutcomeIsItsEffect ==
  ASSUME NEW r, NEW facts, RuleOutcome(r, facts) \notin {"unknown", "not_applicable"}
  PROVE  RuleOutcome(r, facts) = r.effect /\ PredicateOutcome(r, facts) = "true"
BY PredicateOutcomes DEF RuleOutcome

LEMMA StableFollows ==
  ASSUME IInv
  PROVE  KnownOutcomesAreStable
<1> SUFFICES ASSUME AbacDone, NEW l \in Layers, NEW c \in Cells
             PROVE  LET rules == RulesFor(policy.abac[l].rules, c)
                        facts == FactsFor(policy.abac[l].facts, c)
                        stable == \/ abac[l][c].outcome \in {"deny", "not_applicable"}
                                  \/ /\ abac[l][c].outcome = "allow"
                                     /\ \A r \in rules :
                                          r.effect = "deny" => PredicateOutcome(r, facts) # "unknown"
                    IN stable => \A f \in Completions(rules, facts) :
                                   Combined(RuleOutcomes(rules, f)).outcome = abac[l][c].outcome
  BY DEF KnownOutcomesAreStable, AbacDone
<1> DEFINE rules == RulesFor(policy.abac[l].rules, c)
           facts == FactsFor(policy.abac[l].facts, c)
           O == RuleOutcomes(rules, facts)
<1>1. abac[l][c] = Combined(O)
  BY DEF IInv, AbacOutcome
<1> HIDE DEF rules, facts
<1>2. SUFFICES ASSUME NEW f \in Completions(rules, facts),
                      \/ Combined(O).outcome \in {"deny", "not_applicable"}
                      \/ /\ Combined(O).outcome = "allow"
                         /\ \A r \in rules : r.effect = "deny" => PredicateOutcome(r, facts) # "unknown"
               PROVE  Combined(RuleOutcomes(rules, f)).outcome = Combined(O).outcome
  BY <1>1 DEF rules, facts
<1> DEFINE N == RuleOutcomes(rules, f)
<1>3. \A r \in rules : PredicateOutcome(r, facts) # "unknown" => RuleOutcome(r, f) = RuleOutcome(r, facts)
  BY CompletionKeepsOutcomes
<1>4. CASE Combined(O).outcome = "deny"
  <2>1. "deny" \in O
    BY <1>4 DEF Combined
  <2>2. PICK r \in rules : RuleOutcome(r, facts) = "deny"
    BY <2>1 DEF RuleOutcomes
  <2>3. RuleOutcome(r, f) = "deny"
    BY <1>3, <2>2, RuleOutcomeIsItsEffect
  <2>4. "deny" \in N
    BY <2>3 DEF RuleOutcomes
  <2>5. QED
    BY <1>4, <2>4 DEF Combined
<1>5. CASE Combined(O).outcome = "not_applicable"
  <2>1. O \cap {"deny", "allow"} = {} /\ "unknown" \notin O
    BY <1>5 DEF Combined
  <2>2. \A r \in rules : PredicateOutcome(r, facts) # "unknown"
    BY <2>1 DEF RuleOutcomes, RuleOutcome
  <2>3. N = O
    BY <1>3, <2>2 DEF RuleOutcomes
  <2>4. QED
    BY <2>3
<1>6. CASE /\ Combined(O).outcome = "allow"
           /\ \A r \in rules : r.effect = "deny" => PredicateOutcome(r, facts) # "unknown"
  <2>1. "allow" \in O /\ "deny" \notin O
    BY <1>6 DEF Combined
  <2>2. PICK a \in rules : RuleOutcome(a, facts) = "allow"
    BY <2>1 DEF RuleOutcomes
  <2>3. RuleOutcome(a, f) = "allow"
    BY <1>3, <2>2, RuleOutcomeIsItsEffect
  <2>4. ASSUME NEW r \in rules PROVE RuleOutcome(r, f) # "deny"
    <3> SUFFICES ASSUME RuleOutcome(r, f) = "deny" PROVE FALSE
      OBVIOUS
    <3>1. r.effect = "deny"
      BY RuleOutcomeIsItsEffect
    <3>2. RuleOutcome(r, facts) = "deny"
      BY <1>3, <1>6, <3>1
    <3>3. QED
      BY <2>1, <3>2 DEF RuleOutcomes
  <2>5. "allow" \in N /\ "deny" \notin N
    BY <2>3, <2>4 DEF RuleOutcomes
  <2>6. QED
    BY <1>6, <2>5 DEF Combined
<1>7. QED
  BY <1>2, <1>4, <1>5, <1>6

------------------------------------------------------------------------------
(* The inductive invariant. *)

LEMMA NextKeepsIInv ==
  ASSUME IInv, [AccessNext]_accessVars
  PROVE  IInv'
<1>1. input' = input /\ policy' = policy
  BY DEF AccessNext, CompileDirectory, CompileAbac, CompileRebac, Compose, Next, Validate, CompileRoles,
         CompileSessions, CompileCells, Reject, accessVars, rbacVars, policy
<1>2. \A c \in Cells : policy'.profile[c] \in Profiles
  BY <1>1 DEF IInv
<1>3. /\ \A x, c : AbacOutcome(x, c)' = AbacOutcome(x, c)
      /\ \A x, c : RebacOutcome(x, c)' = RebacOutcome(x, c)
  BY DEF AbacOutcome, RebacOutcome
<1>4. CASE CompileDirectory
  <2>1. UNCHANGED <<abac, rebac, access>>
    BY <1>4 DEF CompileDirectory, authVars
  <2>2. phase # "compiled"
    BY <1>4 DEF CompileDirectory, Next, Validate, CompileRoles, CompileSessions, CompileCells
  <2>3. ~AccessDone
    BY <2>2 DEF IInv
  <2>4. QED
    BY <1>1, <1>2, <1>3, <2>1, <2>3 DEF IInv, AbacDone, RebacDone, AccessDone
<1>5. CASE CompileAbac
  <2>1. UNCHANGED <<rebac, access>> /\ abac = Pending
    BY <1>5 DEF CompileAbac
  <2>2. ~AccessDone
    BY <2>1 DEF IInv, AbacDone
  <2>3. AbacDone' => abac' = [l \in Layers |-> [c \in Cells |-> AbacOutcome(policy.abac[l], c)]]
    BY <1>5 DEF CompileAbac, AbacDone
  <2>4. QED
    BY <1>1, <1>2, <1>3, <2>1, <2>2, <2>3 DEF IInv, RebacDone, AccessDone
<1>6. CASE CompileRebac
  <2>1. UNCHANGED <<abac, access>> /\ rebac = Pending
    BY <1>6 DEF CompileRebac
  <2>2. ~AccessDone
    BY <2>1 DEF IInv, RebacDone
  <2>3. RebacDone' => rebac' = [l \in Layers |-> [c \in Cells |-> RebacOutcome(policy.rebac[l], c)]]
    BY <1>6 DEF CompileRebac, RebacDone
  <2>4. QED
    BY <1>1, <1>2, <1>3, <2>1, <2>2, <2>3 DEF IInv, AbacDone, AccessDone
<1>7. CASE Compose
  <2>1. UNCHANGED <<input, phase, actualRoles, intendedRoles, activations, rows, abac, rebac>>
        /\ AbacDone /\ RebacDone /\ phase = "compiled"
    BY <1>7 DEF Compose, rbacVars, AbacDone, RebacDone
  <2>2. /\ Supplied' = Supplied
        /\ \A c : AccessOf(c)' = AccessOf(c)
    BY <1>1, <2>1 DEF Supplied, AccessOf, Outcomes, Effective, InConflict, Internal, GatesPass, Binding, Lifecycle,
                      ObservedPrincipal, kernel
  <2>3. AccessDone' => Supplied /\ access' = [c \in Cells |-> AccessOf(c)]
    BY <1>7 DEF Compose, AccessDone
  <2>4. QED
    BY <1>1, <1>2, <1>3, <2>1, <2>2, <2>3 DEF IInv, AbacDone, RebacDone
<1>8. CASE UNCHANGED accessVars
  <2>1. UNCHANGED <<input, phase, actualRoles, intendedRoles, activations, rows, abac, rebac, access>>
    BY <1>8 DEF accessVars, rbacVars, authVars
  <2>2. /\ Supplied' = Supplied
        /\ \A c : AccessOf(c)' = AccessOf(c)
    BY <1>1, <2>1 DEF Supplied, AccessOf, Outcomes, Effective, InConflict, Internal, GatesPass, Binding, Lifecycle,
                      ObservedPrincipal, kernel
  <2>3. QED
    BY <1>1, <1>2, <1>3, <2>1, <2>2 DEF IInv, AbacDone, RebacDone, AccessDone
<1>9. QED
  BY <1>4, <1>5, <1>6, <1>7, <1>8 DEF AccessNext

\* What is compiled is what the inputs determine, in every reachable state.
THEOREM CompiledStateIsDetermined == AccessSpec => []IInv
<1>1. AccessInit => IInv
  BY PolicyAssumption DEF AccessInit, Init, IInv, AbacDone, RebacDone, AccessDone, policy
<1>2. IInv /\ [AccessNext]_accessVars => IInv'
  BY NextKeepsIInv
<1>3. QED
  BY <1>1, <1>2, PTL DEF AccessSpec

\* A deny or a not_applicable, and an allow with no deny rule unknown, hold under every
\* value of the missing attributes (abac/compiler.py, _combine_rules).
THEOREM KnownOutcomesStayKnown == AccessSpec => []KnownOutcomesAreStable
<1>1. IInv => KnownOutcomesAreStable
  BY StableFollows
<1>2. QED
  BY <1>1, CompiledStateIsDetermined, PTL

\* A cell without a reported conflict does not depend on whether deny or allow takes
\* precedence (authorization/compiler.py, _conflict_sets, _normalize).
THEOREM SilenceMeansNoPrecedence == AccessSpec => []SilentCellsIgnorePrecedence
<1>1. IInv => SilentCellsIgnorePrecedence
  BY SilenceFollows
<1>2. QED
  BY <1>1, CompiledStateIsDetermined, PTL

------------------------------------------------------------------------------
(* The agents of the overlay.  Once the access state is there nothing      *)
(* changes it, and once the truth is there nothing changes the log, so the *)
(* truths are always those of the log that is read beside them.            *)

OverlayInv ==
  /\ log \in Seq(input.pool)
  /\ log # <<>> => AccessDone
  /\ truths # Pending => truths = [i \in Positions("action_attempted") |-> Truth(i)]

LEMMA OverlayStepKeepsInv ==
  ASSUME OverlayInv, [OverlayNext]_overlayVars
  PROVE  OverlayInv'
<1>1. CASE CompileTruth
  <2>1. UNCHANGED <<input, access, log>>
        /\ truths' = [i \in Positions("action_attempted") |-> Truth(i)]
    BY <1>1 DEF CompileTruth, accessVars, rbacVars, authVars
  <2>2. (\A i : Truth(i)' = Truth(i)) /\ Positions("action_attempted")' = Positions("action_attempted")
    <3>1. \A kind : Positions(kind)' = Positions(kind)
      BY <2>1 DEF Positions
    <3>2. \A i : RevokedBefore(i)' = RevokedBefore(i) /\ DiscardedBefore(i)' = DiscardedBefore(i)
      BY <2>1, <3>1 DEF RevokedBefore, DiscardedBefore
    <3>3. \A a : Reconstructable(a)' = Reconstructable(a)
      BY <3>1, <3>2 DEF Reconstructable, Audit
    <3>4. \A a, tick, R : Gates(a, tick, R)' = Gates(a, tick, R)
      BY <2>1 DEF Gates
    <3>5. ASSUME NEW a, NEW tick, NEW R, NEW reconstructable
          PROVE  Judge(a, tick, R, reconstructable)' = Judge(a, tick, R, reconstructable)
      <4>1. Gates(a, tick, R)' = Gates(a, tick, R)
        BY <3>4
      <4> HIDE DEF Gates
      <4>2. QED
        BY <4>1, Zenon DEF Judge
    <3>6. QED
      BY <2>1, <3>1, <3>2, <3>3, <3>5 DEF Truth
  <2>3. QED
    BY <2>1, <2>2 DEF OverlayInv, AccessDone
<1>2. CASE \E e \in input.pool :
             RevokeCredential(e) \/ RevokeDelegation(e) \/ DiscardEvidence(e) \/ AttemptAction(e) \/ PerformAudit(e)
  <2>1. PICK e \in input.pool : Occurs(e)
    BY <1>2 DEF RevokeCredential, RevokeDelegation, DiscardEvidence, AttemptAction, PerformAudit
  <2>2. UNCHANGED <<input, access>> /\ AccessDone /\ truths' = Pending /\ log' = Append(log, e)
    BY <2>1 DEF Occurs, accessVars, rbacVars, authVars, AccessDone
  <2>3. QED
    BY <2>2 DEF OverlayInv, AccessDone
<1>3. CASE CompileAccess \/ UNCHANGED overlayVars
  <2>1. input' = input /\ UNCHANGED <<log, truths>>
    BY <1>3 DEF CompileAccess, AccessNext, CompileDirectory, CompileAbac, CompileRebac, Compose, Next, Validate,
                CompileRoles, CompileSessions, CompileCells, Reject, overlayVars, accessVars, rbacVars
  <2>2. AccessDone => access' = access
    BY <1>3 DEF CompileAccess, AccessNext, CompileDirectory, CompileAbac, CompileRebac, Compose, AccessDone,
                overlayVars, accessVars, authVars
  <2>3. CASE log = <<>>
    <3>1. Positions("action_attempted") = {} /\ Positions("action_attempted")' = {}
      BY <2>1, <2>3 DEF Positions
    <3>2. QED
      BY <2>1, <2>3, <3>1 DEF OverlayInv
  <2>4. CASE log # <<>>
    <3>1. access' = access /\ AccessDone
      BY <2>2, <2>4 DEF OverlayInv
    <3>2. (\A i : Truth(i)' = Truth(i)) /\ Positions("action_attempted")' = Positions("action_attempted")
      BY <2>1, <3>1 DEF Truth, Judge, Gates, Positions, RevokedBefore, Reconstructable, DiscardedBefore, Audit
    <3>3. QED
      BY <2>1, <3>1, <3>2 DEF OverlayInv, AccessDone
  <2>5. QED
    BY <2>3, <2>4
<1>4. QED
  BY <1>1, <1>2, <1>3 DEF OverlayNext

\* Every reachable overlay has the truths of its log, under a compiled access state.
THEOREM TruthsAreOfTheLog == OverlaySpec => []OverlayInv
<1>1. OverlayInit => OverlayInv
  BY DEF OverlayInit, OverlayInv
<1>2. OverlayInv /\ [OverlayNext]_overlayVars => OverlayInv'
  BY OverlayStepKeepsInv
<1>3. QED
  BY <1>1, <1>2, PTL DEF OverlaySpec

\* An attempt is allowed when, and only when, each of its gates lets it through.
LEMMA FinalMeansAllGates ==
  ASSUME OverlayInv, truths # Pending, NEW i \in DOMAIN truths
  PROVE  LET gates == Gates(log[i].attempt, log[i].tick, RevokedBefore(i))
         IN /\ i \in 1..Len(log)
            /\ truths[i].final <=> \A g \in DOMAIN gates : gates[g]
<1>1. i \in Positions("action_attempted") /\ truths[i] = Truth(i)
  BY DEF OverlayInv
<1>2. i \in 1..Len(log)
  BY <1>1 DEF OverlayInv, Positions
<1>3. Truth(i).final <=> LET gates == Gates(log[i].attempt, log[i].tick, RevokedBefore(i))
                         IN \A g \in DOMAIN gates : gates[g]
  BY DEF Truth, Judge
<1>4. QED
  BY <1>1, <1>2, <1>3

\* The gates, one by one.
LEMMA GatesOpen ==
  ASSUME NEW a, NEW tick, NEW R
  PROVE  (LET gates == Gates(a, tick, R) IN \A g \in DOMAIN gates : gates[g])
         <=> /\ access[a.cell].final /\ SubjectGate(a) /\ Cardinality(Tenants(a)) = 1
             /\ AccountGate(a, tick) /\ RuntimeGate(a) /\ CredentialGate(a, tick, R)
             /\ CapabilityGate(a) /\ DelegationGate(a, tick, R)
<1>1. DOMAIN Gates(a, tick, R) = {"enterprise", "subject", "tenant", "account", "runtime", "credential", "capability", "delegation"}
  BY DEF Gates
<1>2. /\ Gates(a, tick, R)["enterprise"] <=> access[a.cell].final
      /\ Gates(a, tick, R)["subject"] <=> SubjectGate(a)
      /\ Gates(a, tick, R)["tenant"] <=> Cardinality(Tenants(a)) = 1
      /\ Gates(a, tick, R)["account"] <=> AccountGate(a, tick)
      /\ Gates(a, tick, R)["runtime"] <=> RuntimeGate(a)
      /\ Gates(a, tick, R)["credential"] <=> CredentialGate(a, tick, R)
      /\ Gates(a, tick, R)["capability"] <=> CapabilityGate(a)
      /\ Gates(a, tick, R)["delegation"] <=> DelegationGate(a, tick, R)
  BY DEF Gates
<1>3. QED
  BY <1>1, <1>2

LEMMA AttributionFollows == OverlayInv => AllowedActionsAttributeUniquely
<1> SUFFICES ASSUME OverlayInv, truths # Pending,
                    NEW i \in {n \in DOMAIN truths : truths[n].final},
                    NEW j \in {n \in DOMAIN truths : truths[n].final}
             PROVE  LET a == log[i].attempt
                        b == log[j].attempt
                    IN /\ access[a.cell].final /\ a.cell.subject = (IF AsPrincipal(a) THEN a.agent ELSE a.human)
                       /\ \/ a.account = b.account \/ a.runtime = b.runtime
                          \/ a.credential = b.credential \/ a.capability = b.capability
                          => a.agent = b.agent
                       /\ a.credential = b.credential \/ a.runtime = b.runtime => a.account = b.account
                       /\ ~AsPrincipal(a) /\ ~AsPrincipal(b) /\ a.delegation = b.delegation =>
                            a.human = b.human /\ a.agent = b.agent /\ a.capability = b.capability
  BY DEF AllowedActionsAttributeUniquely
<1> DEFINE a == log[i].attempt
           b == log[j].attempt
<1>1. \A n \in {i, j} :
        LET c == log[n].attempt
            gates == Gates(c, log[n].tick, RevokedBefore(n))
        IN \A g \in DOMAIN gates : gates[g]
  BY FinalMeansAllGates
<1>2. \A n \in {i, j} :
        LET c == log[n].attempt
        IN /\ access[c.cell].final /\ SubjectGate(c)
           /\ AccountGate(c, log[n].tick) /\ RuntimeGate(c) /\ CredentialGate(c, log[n].tick, RevokedBefore(n))
           /\ CapabilityGate(c) /\ DelegationGate(c, log[n].tick, RevokedBefore(n))
  BY <1>1, GatesOpen
<1>3. access[a.cell].final /\ a.cell.subject = (IF AsPrincipal(a) THEN a.agent ELSE a.human)
  BY <1>2 DEF SubjectGate
<1>4. a.account = b.account \/ a.runtime = b.runtime \/ a.credential = b.credential \/ a.capability = b.capability
        => a.agent = b.agent
  BY <1>2 DEF AccountGate, AccountIsBound, RuntimeGate, CredentialGate, CapabilityGate
<1>5. a.credential = b.credential \/ a.runtime = b.runtime => a.account = b.account
  BY <1>2 DEF RuntimeGate, CredentialGate
<1>6. ~AsPrincipal(a) /\ ~AsPrincipal(b) /\ a.delegation = b.delegation =>
        a.human = b.human /\ a.agent = b.agent /\ a.capability = b.capability
  BY <1>2 DEF DelegationGate
<1>7. QED
  BY <1>3, <1>4, <1>5, <1>6

\* Allowed actions that share a credential, a runtime, an account, a capability or a
\* delegation are attributed alike (agentic/enterprise/projection.py, _evaluate_attempt).
THEOREM AttributionIsUnique == OverlaySpec => []AllowedActionsAttributeUniquely
<1>1. OverlayInv => AllowedActionsAttributeUniquely
  BY AttributionFollows
<1>2. QED
  BY <1>1, TruthsAreOfTheLog, PTL

LEMMA RevocationFollows == OverlayInv => RevocationsCutOffWhatFollows
<1> SUFFICES ASSUME OverlayInv, truths # Pending, NEW i \in DOMAIN truths
             PROVE  LET a == log[i].attempt
                        unrevoked == Gates(a, log[i].tick, {})
                    IN truths[i].final <=> /\ \A g \in DOMAIN unrevoked : unrevoked[g]
                                           /\ \A j \in 1..i - 1 : ~Withdraws(log[j], a)
  BY DEF RevocationsCutOffWhatFollows
<1> DEFINE a == log[i].attempt
           tick == log[i].tick
           R == RevokedBefore(i)
<1>1. i \in 1..Len(log) /\ (truths[i].final <=> LET gates == Gates(a, tick, R) IN \A g \in DOMAIN gates : gates[g])
  BY FinalMeansAllGates
<1>2. DOMAIN log = 1..Len(log) /\ Len(log) \in Nat
  BY DEF OverlayInv
<1>3. RestsOn(a) \cap R = {} <=> \A j \in 1..i - 1 : ~Withdraws(log[j], a)
  <2>1. \A j : (j \in Positions("credential_revoked") \cup Positions("delegation_revoked") /\ j < i)
               <=> (j \in 1..i - 1 /\ log[j].kind \in {"credential_revoked", "delegation_revoked"})
    BY <1>1, <1>2 DEF Positions
  <2>2. QED
    BY <2>1 DEF RevokedBefore, Withdraws
<1>4. CredentialGate(a, tick, R) /\ DelegationGate(a, tick, R)
      <=> CredentialGate(a, tick, {}) /\ DelegationGate(a, tick, {}) /\ RestsOn(a) \cap R = {}
  BY DEF CredentialGate, DelegationGate, RestsOn
<1>5. QED
  BY <1>1, <1>3, <1>4, GatesOpen

\* A revocation cuts off the attempts after it in the log and none before it
\* (agentic/enterprise/replay.py, before_event_id).
THEOREM RevocationCutsOffWhatFollows == OverlaySpec => []RevocationsCutOffWhatFollows
<1>1. OverlayInv => RevocationsCutOffWhatFollows
  BY RevocationFollows
<1>2. QED
  BY <1>1, TruthsAreOfTheLog, PTL

------------------------------------------------------------------------------
(* The labels of the overlay. *)

\* The first failing gate fails, and those before it hold.
LEMMA FirstFailingIsFirst ==
  ASSUME NEW holds, NEW n \in 1..7, NEW order, DOMAIN order = 1..n
  PROVE  \/ FirstFailing(order, holds) = "none" /\ \A k \in 1..n : holds[order[k]]
         \/ \E k \in 1..n : /\ FirstFailing(order, holds) = order[k] /\ ~holds[order[k]]
                            /\ \A m \in 1..k - 1 : holds[order[m]]
<1> DEFINE failing == {i \in DOMAIN order : ~holds[order[i]]}
<1>1. failing \subseteq 1..n
  OBVIOUS
<1>2. CASE failing = {}
  BY <1>2 DEF FirstFailing
<1>3. CASE failing # {}
  <2>1. \E k \in failing : \A m \in failing : k <= m
    BY <1>1, <1>3, SMTT(30)
  <2>2. Min(failing) \in failing /\ \A m \in failing : Min(failing) <= m
    BY <2>1 DEF Min
  <2>3. PICK k \in 1..n : k = Min(failing) /\ ~holds[order[k]] /\ \A m \in failing : k <= m
    BY <1>1, <2>2
  <2>4. FirstFailing(order, holds) = order[k]
    BY <1>3, <2>3 DEF FirstFailing
  <2>5. \A m \in 1..k - 1 : m \in 1..n /\ ~(k <= m)
    OBVIOUS
  <2>6. \A m \in 1..k - 1 : holds[order[m]]
    BY <2>3, <2>5
  <2>7. QED
    BY <2>3, <2>4, <2>6
<1>4. QED
  BY <1>2, <1>3

HoldsOf(gates, reconstructable) ==
  [g \in DOMAIN gates \cup {"evidence"} |-> IF g = "evidence" THEN reconstructable ELSE gates[g]]

\* The label of an agent that acts as a principal tells which of its gates hold.
LEMMA AgentLabels ==
  ASSUME NEW a, AsPrincipal(a), NEW R, NEW holds
  PROVE  LET first == FirstFailing(LabelOrder(a), holds)
             kind == AgentKind(first, a, R)
         IN /\ kind = "valid_agent_principal" <=>
                 \A g \in {"tenant", "account", "subject", "runtime", "credential", "capability", "enterprise"} : holds[g]
            /\ kind = "human_authority_not_unioned" =>
                 /\ \A g \in {"tenant", "account", "subject", "runtime", "credential", "capability"} : holds[g]
                 /\ ~holds["enterprise"]
            /\ kind = "invalid_credential_agent" => ~holds["credential"] /\ a.credential \in R
            /\ kind \notin {"valid_human_context", "evidence_discarded", "revoked_delegation"}
<1> DEFINE order == <<"tenant", "account", "subject", "runtime", "credential", "capability", "enterprise">>
<1>1. LabelOrder(a) = order /\ DOMAIN order = 1..7
  BY DEF LabelOrder
<1>2. \/ FirstFailing(order, holds) = "none" /\ \A k \in 1..7 : holds[order[k]]
      \/ \E k \in 1..7 : /\ FirstFailing(order, holds) = order[k] /\ ~holds[order[k]]
                         /\ \A m \in 1..k - 1 : holds[order[m]]
  BY <1>1, FirstFailingIsFirst
<1>3. CASE FirstFailing(order, holds) = "none" /\ \A k \in 1..7 : holds[order[k]]
  BY <1>1, <1>3 DEF AgentKind
<1>4. ASSUME NEW k \in 1..7, FirstFailing(order, holds) = order[k], ~holds[order[k]],
             \A m \in 1..k - 1 : holds[order[m]]
      PROVE  LET first == FirstFailing(LabelOrder(a), holds)
                 kind == AgentKind(first, a, R)
             IN /\ kind # "valid_agent_principal"
                /\ kind = "human_authority_not_unioned" => k = 7
                /\ kind = "invalid_credential_agent" => k = 5 /\ a.credential \in R
                /\ kind \notin {"valid_human_context", "evidence_discarded", "revoked_delegation"}
  <2>1. order[k] \in {"tenant", "account", "subject", "runtime", "credential", "capability", "enterprise"}
        /\ (order[k] = "enterprise" => k = 7) /\ (order[k] = "credential" => k = 5)
    OBVIOUS
  <2>2. /\ AgentKind("tenant", a, R) = "cross_tenant_agent"
        /\ AgentKind("account", a, R) = "suspended_agent_account"
        /\ AgentKind("subject", a, R) = "wrong_subject_agent"
        /\ AgentKind("runtime", a, R) = "wrong_runtime_agent"
        /\ AgentKind("capability", a, R) = "wrong_scope_agent"
    BY DEF AgentKind
  <2>3. AgentKind("enterprise", a, R) \in {"human_authority_not_unioned", "enterprise_denied_agent"}
    BY DEF AgentKind
  <2>4. /\ a.credential \in R => AgentKind("credential", a, R) = "invalid_credential_agent"
        /\ a.credential \notin R => AgentKind("credential", a, R) = "shared_credential_agent"
    BY DEF AgentKind
  <2>5. QED
    BY <1>1, <1>4, <2>1, <2>2, <2>3, <2>4
<1>5. QED
  BY <1>1, <1>2, <1>3, <1>4

\* The label of an agent in the context of a human tells less.
LEMMA HumanLabels ==
  ASSUME NEW a, ~AsPrincipal(a), NEW R, NEW holds
  PROVE  LET first == FirstFailing(LabelOrder(a), holds)
             kind == HumanKind(first, a, R)
         IN /\ kind \in {"valid_human_context", "evidence_discarded"} <=>
                 \A g \in {"tenant", "runtime", "capability", "delegation", "enterprise"} : holds[g]
            /\ kind = "revoked_delegation" => ~holds["delegation"] /\ a.delegation \in R
            /\ kind \notin {"valid_agent_principal", "human_authority_not_unioned", "invalid_credential_agent"}
<1> DEFINE order == <<"tenant", "runtime", "capability", "delegation", "enterprise", "evidence">>
<1>1. LabelOrder(a) = order /\ DOMAIN order = 1..6
  BY DEF LabelOrder
<1>2. \/ FirstFailing(order, holds) = "none" /\ \A k \in 1..6 : holds[order[k]]
      \/ \E k \in 1..6 : /\ FirstFailing(order, holds) = order[k] /\ ~holds[order[k]]
                         /\ \A m \in 1..k - 1 : holds[order[m]]
  BY <1>1, FirstFailingIsFirst
<1>3. CASE FirstFailing(order, holds) = "none" /\ \A k \in 1..6 : holds[order[k]]
  BY <1>1, <1>3 DEF HumanKind
<1>4. ASSUME NEW k \in 1..6, FirstFailing(order, holds) = order[k], ~holds[order[k]],
             \A m \in 1..k - 1 : holds[order[m]]
      PROVE  LET first == FirstFailing(LabelOrder(a), holds)
                 kind == HumanKind(first, a, R)
             IN /\ kind \in {"valid_human_context", "evidence_discarded"} <=> k = 6
                /\ kind = "revoked_delegation" => k = 4 /\ a.delegation \in R
                /\ kind \notin {"valid_agent_principal", "human_authority_not_unioned", "invalid_credential_agent"}
  BY <1>1, <1>4 DEF HumanKind, DelegationKind
<1>5. QED
  BY <1>1, <1>2, <1>3, <1>4

LEMMA LabelsFollow == OverlayInv => LabelsFollowDecisions
<1> SUFFICES ASSUME OverlayInv, truths # Pending, NEW i \in DOMAIN truths
             PROVE  LET t == truths[i]
                        a == log[i].attempt
                    IN /\ t.kind = "valid_agent_principal" <=> AsPrincipal(a) /\ t.final
                       /\ ~AsPrincipal(a) /\ t.final => t.kind \in {"valid_human_context", "evidence_discarded"}
                       /\ t.kind \in {"valid_human_context", "evidence_discarded"} =>
                            t.failures \subseteq {"subject_mismatch", "agent_account_inactive",
                                                  "agent_account_binding_mismatch", "credential_invalid"}
                       /\ t.kind = "human_authority_not_unioned" => t.failures = {"enterprise_denied"}
                       /\ t.kind \in {"invalid_credential_agent", "revoked_delegation"} =>
                            ~t.final /\ \E j \in 1..i - 1 : Withdraws(log[j], a)
  BY DEF LabelsFollowDecisions
<1> DEFINE a == log[i].attempt
           R == RevokedBefore(i)
           gates == Gates(a, log[i].tick, R)
           holds == HoldsOf(gates, Reconstructable(a))
           names == {"enterprise", "subject", "tenant", "account", "runtime", "credential", "capability", "delegation"}
<1>1. i \in 1..Len(log) /\ i \in Positions("action_attempted") /\ truths[i] = Truth(i)
  BY DEF OverlayInv, Positions
<1>2. DOMAIN gates = names /\ DOMAIN log = 1..Len(log) /\ Len(log) \in Nat
  BY DEF Gates, OverlayInv
<1>3. /\ truths[i].final <=> \A g \in names : gates[g]
      /\ truths[i].failures = {Reason(g, a, R) : g \in {h \in names : ~gates[h]}}
      /\ truths[i].kind = IF AsPrincipal(a) THEN AgentKind(FirstFailing(LabelOrder(a), holds), a, R)
                          ELSE HumanKind(FirstFailing(LabelOrder(a), holds), a, R)
  BY <1>1, <1>2 DEF Truth, Judge, HoldsOf
<1>4. \A g \in names : holds[g] <=> gates[g]
  BY <1>2 DEF HoldsOf
<1>5. \A x \in R : x \in RestsOn(a) => \E j \in 1..i - 1 : Withdraws(log[j], a)
  <2>1. \A j : (j \in Positions("credential_revoked") \cup Positions("delegation_revoked") /\ j < i)
               => (j \in 1..i - 1 /\ log[j].kind \in {"credential_revoked", "delegation_revoked"})
    BY <1>1, <1>2 DEF Positions
  <2>2. QED
    BY <2>1 DEF RevokedBefore, Withdraws
<1>6. CASE AsPrincipal(a)
  <2>1. gates["delegation"]
    BY <1>6 DEF Gates, DelegationGate
  <2>2. truths[i].kind = AgentKind(FirstFailing(LabelOrder(a), holds), a, R)
    BY <1>3, <1>6
  <2>3. truths[i].kind = "valid_agent_principal" <=> truths[i].final
    BY <1>3, <1>4, <1>6, <2>1, <2>2, AgentLabels
  <2>4. ASSUME truths[i].kind = "human_authority_not_unioned"
        PROVE  truths[i].failures = {"enterprise_denied"}
    <3>1. {h \in names : ~gates[h]} = {"enterprise"}
      <4>1. /\ \A g \in {"tenant", "account", "subject", "runtime", "credential", "capability"} : holds[g]
            /\ ~holds["enterprise"]
        BY <1>6, <2>2, <2>4, AgentLabels
      <4>2. QED
        BY <1>4, <2>1, <4>1
    <3>2. Reason("enterprise", a, R) = "enterprise_denied"
      BY DEF Reason
    <3>3. QED
      BY <1>3, <3>1, <3>2
  <2>5. ASSUME truths[i].kind = "invalid_credential_agent"
        PROVE  ~truths[i].final /\ \E j \in 1..i - 1 : Withdraws(log[j], a)
    <3>1. ~holds["credential"] /\ a.credential \in R
      BY <1>6, <2>2, <2>5, AgentLabels
    <3>2. ~truths[i].final
      BY <1>3, <1>4, <3>1
    <3>3. a.credential \in RestsOn(a)
      BY DEF RestsOn
    <3>4. QED
      BY <1>5, <3>1, <3>2, <3>3
  <2>6. truths[i].kind \notin {"valid_human_context", "evidence_discarded", "revoked_delegation"}
    BY <1>6, <2>2, AgentLabels
  <2>7. QED
    BY <1>6, <2>3, <2>4, <2>5, <2>6
<1>7. CASE ~AsPrincipal(a)
  <2>1. truths[i].kind = HumanKind(FirstFailing(LabelOrder(a), holds), a, R)
    BY <1>3, <1>7
  <2>2. truths[i].kind \in {"valid_human_context", "evidence_discarded"} <=>
          \A g \in {"tenant", "runtime", "capability", "delegation", "enterprise"} : gates[g]
    BY <1>4, <1>7, <2>1, HumanLabels
  <2>3. ASSUME truths[i].kind \in {"valid_human_context", "evidence_discarded"}
        PROVE  truths[i].failures \subseteq {"subject_mismatch", "agent_account_inactive",
                                             "agent_account_binding_mismatch", "credential_invalid"}
    <3>1. {h \in names : ~gates[h]} \subseteq {"subject", "account", "credential"}
      BY <2>2, <2>3
    <3>2. /\ Reason("subject", a, R) = "subject_mismatch" /\ Reason("credential", a, R) = "credential_invalid"
          /\ Reason("account", a, R) \in {"agent_account_inactive", "agent_account_binding_mismatch"}
      BY DEF Reason
    <3>3. QED
      BY <1>3, <3>1, <3>2
  <2>4. ASSUME truths[i].kind = "revoked_delegation"
        PROVE  ~truths[i].final /\ \E j \in 1..i - 1 : Withdraws(log[j], a)
    <3>1. ~holds["delegation"] /\ a.delegation \in R
      BY <1>7, <2>1, <2>4, HumanLabels
    <3>2. ~truths[i].final
      BY <1>3, <1>4, <3>1
    <3>3. a.delegation \in RestsOn(a)
      BY <1>7 DEF RestsOn
    <3>4. QED
      BY <1>5, <3>1, <3>2, <3>3
  <2>5. truths[i].kind \notin {"valid_agent_principal", "human_authority_not_unioned", "invalid_credential_agent"}
    BY <1>7, <2>1, HumanLabels
  <2>6. QED
    BY <1>3, <1>7, <2>2, <2>3, <2>4, <2>5
<1>8. QED
  BY <1>6, <1>7

\* Labels and decisions agree, as far as the labels look
\* (agentic/enterprise/projection.py, _derive_case_kind).
THEOREM LabelsAgreeWithDecisions == OverlaySpec => []LabelsFollowDecisions
<1>1. OverlayInv => LabelsFollowDecisions
  BY LabelsFollow
<1>2. QED
  BY <1>1, TruthsAreOfTheLog, PTL
=============================================================================
