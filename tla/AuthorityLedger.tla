-------------------------- MODULE AuthorityLedger --------------------------
(***************************************************************************)
(* What the delegation half of an agentic world promises, with no events,  *)
(* no revocation list and no field-by-field comparison: a forest of the    *)
(* delegations in force.  A delegation enters under one in force and       *)
(* confers no more than it; a withdrawal takes out a delegation and what   *)
(* hangs from it, and nothing else; an id that was used is never used      *)
(* again, so what left the forest does not come back.                      *)
(*                                                                         *)
(* AgenticWorld implements it: see Ledger in AgenticWorldRefinement.       *)
(***************************************************************************)
EXTENDS Integers

CONSTANTS None, Delegations

VARIABLES
  inForce,     \* the delegations in force
  used         \* every id ever granted

ledgerVars == <<inForce, used>>

\* Everything d permits: what may be done, for which purpose, on whose behalf, under
\* which policy, and at which instants.
Conferred(d) ==
  [resource : d.resources, action : d.actions, scope : d.scopes, purpose : {d.purpose},
   origin : {d.origin}, version : {d.version}, instant : d.valid_from .. (d.expires_at - 1)]

\* x and the delegations in force that hang from it: the least set that holds x and
\* every delegation in force whose parent it holds.
Branch(x) ==
  {d \in inForce :
     \A S \in SUBSET inForce :
        (x \in S /\ \A e \in inForce : (\E p \in S : e.parent = p.id) => e \in S) => d \in S}

Init == inForce = {} /\ used = {}

Enter(d) ==
  /\ d.id \notin used
  /\ d.parent = None \/ \E p \in inForce : d.parent = p.id /\ Conferred(d) \subseteq Conferred(p)
  /\ inForce' = inForce \cup {d}
  /\ used' = used \cup {d.id}

Withdraw(x) ==
  /\ inForce' = inForce \ Branch(x)
  /\ UNCHANGED used

Next == (\E d \in Delegations : Enter(d)) \/ (\E x \in inForce : Withdraw(x))

Spec == Init /\ [][Next]_ledgerVars
=============================================================================
