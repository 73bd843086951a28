------------------------- MODULE MCAgenticBenchmark -------------------------
(***************************************************************************)
(* Inputs of the oracle's runs, over the organisations of MCAgenticWorld.  *)
(* The worker acts.  Its authority may come from delegation 3 under the    *)
(* planner's root 2, or from the overlapping roots 1 (a smaller id, under  *)
(* either policy version); credentials expire or admit another runtime     *)
(* principal only; runtimes may be the foreign guest's.  Attempts ask for  *)
(* too much, for the other policy version, and propose sub-delegations.    *)
(***************************************************************************)
EXTENDS MCAgenticWorld, AgenticBenchmark

OracleDelegations ==
  {Grant(2, None, boss, planner, TRUE, TRUE, 1, 8),
   Grant(3, 2, boss, worker, TRUE, TRUE, 1, 8),
   Grant(1, None, boss, worker, FALSE, TRUE, 1, 9),
   [Grant(1, None, boss, worker, FALSE, TRUE, 1, 9) EXCEPT !.version = v2]}

OracleRuntimes ==
  {[id |-> 1, agent |-> worker, principal |-> p, owner |-> staff, org |-> acme] : p \in {bot, guest}}

OracleCredentials ==
  {[id |-> 1, issuer |-> boss, subject |-> bot, allowed |-> {bot, guest},
    valid_from |-> window[1], expires_at |-> window[2]] : window \in {<<1, 7>>, <<1, 9>>, <<6, 9>>}}
  \cup {[id |-> 1, issuer |-> boss, subject |-> bot, allowed |-> {staff},
         valid_from |-> 1, expires_at |-> 9]}

Attempt(action, version, proposal) ==
  [credential |-> 1, resource |-> doc, action |-> action, scope |-> {low}, purpose |-> work,
   version |-> version, evidence |-> {}, principal_claims |-> {boss}, agent_claims |-> {},
   proposal |-> proposal]

OracleAttempts ==
  {Attempt(read, version, None) : version \in {v1, v2}} \cup {Attempt(write, v1, None)}
    \cup {Attempt(read, v1, Grant(5, 3, delegator, helper, FALSE, FALSE, 1, to)) :
            delegator \in {bot, rival}, to \in {8, 9}}

MCBindings ==
  {[origin |-> boss, agent |-> agent, runtime |-> 1, principal |-> p, subject |-> bot, actor |-> actor] :
     agent \in {planner, worker}, p \in {bot, guest}, actor \in {boss, staff}}

EvidenceDelegations ==
  {Grant(2, None, boss, planner, TRUE, TRUE, 1, 9), Grant(3, 2, boss, worker, TRUE, TRUE, 1, 9),
   Grant(1, None, boss, worker, FALSE, FALSE, 1, 9),
   [Grant(3, 2, boss, worker, TRUE, TRUE, 1, 9) EXCEPT !.version = v2]}
EvidenceRuntimes ==
  {[id |-> 1, agent |-> worker, principal |-> bot, owner |-> staff, org |-> acme]}
EvidenceCredentials ==
  {[id |-> 1, issuer |-> boss, subject |-> bot, allowed |-> {bot}, valid_from |-> 1, expires_at |-> 9]}
EvidenceAttempts ==
  {[Attempt(read, version, None) EXCEPT !.evidence = cited] :
     version \in {v1, v2}, cited \in {{}, {<<"delegation", 2>>}}}
MCInitialEvidence ==
  {<<"policy", v2>>, <<"credential", 1>>, <<"runtime", 1>>, <<"delegation", 1>>, <<"delegation", 3>>}
OneEvidenceSet == {{}, {<<"delegation", 2>>, <<"policy", v1>>}}
=============================================================================
