----------------------- MODULE MCAuthorityGovernance -----------------------
(***************************************************************************)
(* A run is about one of two things, which share no state: histories that  *)
(* are recorded event by event (turn = "history"), or the replay and the   *)
(* scoring of the reference package (turn = "reference").                  *)
(*                                                                         *)
(* History: two overlapping changes of one authority, one of which may     *)
(* carry a copy of another authority, over three ticks, with up to two     *)
(* decisions each.                                                         *)
(*                                                                         *)
(* Reference: its twelve changes, on their 125 ticks.                      *)
(***************************************************************************)
EXTENDS AuthorityGovernance, GovernanceReference

VARIABLE turn

MCChanges == {1, 2}
MCAuthorities == {"a1", "a2"}
MCRequested == [c \in MCChanges |-> [type |-> "grant", affected |-> IF c = 1 THEN "a1" ELSE "a2"]]
MCInitialState == [a \in MCAuthorities |-> IF a = "a1" THEN None ELSE "broad"]
MCAfterStates == {[a \in {} |-> None], [a \in {"a1", "a2"} |-> "narrow"]}
MCPolicies ==
  {[id |-> 1, from |-> 0, until |-> 1, rules |-> {[id |-> "permit", effect |-> "permit"], [id |-> "deny", effect |-> "deny"]}],
   [id |-> 2, from |-> 1, until |-> None, rules |-> {[id |-> "permit", effect |-> "permit"]}]}
MCMandates == {[id |-> "m1", approver |-> "p1", from |-> 0, until |-> 2, types |-> {"grant"}, affected |-> MCAuthorities]}
MCVerdicts ==
  {[outcome |-> "denied", policy |-> 1, rules |-> {"deny"}, mandates |-> {"m1"}],
   [outcome |-> "approved", policy |-> 3, rules |-> {"permit"}, mandates |-> {}]}

MCInit ==
  \/ /\ turn = "history" /\ Init
     /\ log = None /\ standing = None /\ tick = None
     /\ submitted = Unset /\ findings = None /\ metrics = None
  \/ turn = "reference" /\ ReferenceInit /\ Init

MCNext ==
  \/ turn = "history" /\ Next /\ UNCHANGED <<turn, referenceVars>>
  \/ turn = "reference" /\ ReferenceNext /\ UNCHANGED <<turn, vars>>

MCSpec == MCInit /\ [][MCNext]_<<turn, vars, referenceVars>>
=============================================================================
