-------------------------- MODULE MCAgenticWorld --------------------------
(***************************************************************************)
(* Two organisations: acme, where boss owns staff and staff owns the       *)
(* workload bot, and zeta, with rival and with guest, whom staff of acme   *)
(* owns.  Three acme agents in a line, planner above worker above helper,  *)
(* and the resources doc (acme) and vault (zeta).  Grant payloads include  *)
(* ones the validators reject: a foreign delegator or resource, a parent   *)
(* that is not granted, a wider capability, an id already used, a window   *)
(* that is over.                                                           *)
(***************************************************************************)
EXTENDS AgenticWorldRefinement

CONSTANTS acme, zeta, boss, staff, bot, rival, guest, planner, worker, helper,
          doc, vault, read, write, low, high, v1, v2, work

MCPrincipals == {boss, staff, bot, rival, guest}
MCPrincipalOrg == [p \in MCPrincipals |-> IF p \in {rival, guest} THEN zeta ELSE acme]
MCPrincipalOwner ==
  [p \in MCPrincipals |-> CASE p \in {bot, guest} -> staff [] p = staff -> boss [] OTHER -> None]
MCWorkloads == {bot}

MCAgents == {planner, worker, helper}
MCAgentOrg == [a \in MCAgents |-> acme]
MCAgentOwner == [a \in MCAgents |-> IF a = planner THEN boss ELSE staff]
MCAgentParent ==
  [a \in MCAgents |-> CASE a = worker -> planner [] a = helper -> worker [] OTHER -> None]

MCResources == {doc, vault}
MCResourceOrg == [r \in MCResources |-> IF r = vault THEN zeta ELSE acme]
MCResourceOwner == [r \in MCResources |-> IF r = vault THEN rival ELSE boss]
MCResourceActions == [r \in MCResources |-> {read, write}]

\* A grant from boss's authority, of the narrow or the wide capability.
Grant(id, parent, delegator, grantee, wide, may_delegate, from, to) ==
  [id |-> id, parent |-> parent, origin |-> boss, delegator |-> delegator,
   grantee |-> grantee, resources |-> {doc},
   actions |-> IF wide THEN {read, write} ELSE {read}, scopes |-> {low},
   purpose |-> work, may_delegate |-> may_delegate, version |-> v1,
   valid_from |-> from, expires_at |-> to]

WorldDelegations ==
  {Grant(id, None, delegator, planner, wide, TRUE, 1, to) :
     id \in {1, 3}, delegator \in {boss, rival}, wide \in BOOLEAN, to \in {4, 9}}
  \cup
  {Grant(id, parent, delegator, worker, wide, TRUE, 1, 6) :
     id \in {1, 2}, parent \in {1, 3}, delegator \in {boss, bot}, wide \in BOOLEAN}
  \cup
  {Grant(id, 2, staff, helper, wide, deleg, 3, to) :
     id \in {4, 5}, wide \in BOOLEAN, deleg \in BOOLEAN, to \in {6, 9}}
  \cup {[Grant(6, None, boss, planner, FALSE, TRUE, 1, 9) EXCEPT !.resources = {doc, vault}]}

WorldRuntimes ==
  {[id |-> 1, agent |-> planner, principal |-> bot, owner |-> boss, org |-> org] : org \in {acme, zeta}}

\* One credential, one action with it, and one piece of evidence to lose.
LedgerCredentials ==
  {[id |-> 1, issuer |-> boss, subject |-> bot, allowed |-> {bot}, valid_from |-> 1, expires_at |-> 9]}

LedgerAttempts ==
  {[credential |-> 1, resource |-> doc, action |-> read, scope |-> {low}, purpose |-> work,
    version |-> v1, evidence |-> {<<"policy", v1>>}, principal_claims |-> {boss},
    agent_claims |-> {}, proposal |-> None]}

LedgerEvidence == {<<"policy", v1>>}
LedgerEvidenceSets == {{}, LedgerEvidence}
=============================================================================
