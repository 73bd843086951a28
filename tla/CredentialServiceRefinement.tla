-------------------- MODULE CredentialServiceRefinement --------------------
(***************************************************************************)
(* The credential service implements the registry.  An issue counts from   *)
(* the moment it takes the lock: the table is asked under the lock only,   *)
(* so that nobody sees it between the two.  A service that does not run    *)
(* holds what its files hold, and is broken when one of them is torn.      *)
(***************************************************************************)
EXTENDS CredentialService

Status == IF up = "up" THEN "open" ELSE IF torn = {} THEN "closed" ELSE "broken"

Held == IF up = "up" THEN records \cup {RecordOf(i) : i \in lock} ELSE files

Used == {i \in IssueCall : issue[i].pc \notin {"idle", "called"}}

View == [a \in Access |-> access[a].snapshot]

Registry == INSTANCE CredentialRegistry WITH
  Groups <- Group, Instants <- 0..MaxTime, Questions <- Access,
  status <- Status, held <- Held, used <- Used, view <- View

\* However calls, stops and starts interleave, the service is a registry: re-issues
\* replace at once, a revocation reaches all of a group or none, a question is about
\* one moment, and what was replaced or cut off never comes back (service.py:131-217).
ImplementsRegistry == Registry!Spec
=============================================================================
