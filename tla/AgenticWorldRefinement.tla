----------------------- MODULE AgenticWorldRefinement -----------------------
(***************************************************************************)
(* The fold implements the ledger: the delegations in force are those      *)
(* granted and not revoked.  The code never builds that forest downwards;  *)
(* a revocation tests every delegation for an ancestor, and in-force is    *)
(* read off two separate tuples.                                           *)
(***************************************************************************)
EXTENDS AgenticWorld

InForce == {d \in delegations : d.id \notin revoked}
Used == Ids(delegations)

Ledger == INSTANCE AuthorityLedger WITH inForce <- InForce, used <- Used

\* Each event enters one delegation under one in force, withdraws exactly one branch,
\* or leaves the forest alone.
ImplementsLedger == Ledger!Spec
=============================================================================
