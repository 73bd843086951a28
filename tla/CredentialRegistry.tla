------------------------- MODULE CredentialRegistry -------------------------
(***************************************************************************)
(* What the credential service promises to those who call it, with no      *)
(* threads, no lock, no files and no table: a registry that names one      *)
(* credential for a handle.  A new credential takes the place of the one   *)
(* before it in one step; a revocation marks all credentials of a group at *)
(* once; a question looks at one credential of one moment.                 *)
(*                                                                         *)
(* It promises little about a stop: every mark is forgotten, and a         *)
(* credential that was just being entered may be lost with the one it      *)
(* replaces, after which the registry never opens again.                   *)
(*                                                                         *)
(* CredentialService implements it: see Registry in                        *)
(* CredentialServiceRefinement.                                            *)
(***************************************************************************)
EXTENDS Naturals

CONSTANTS
  Groups,
  Instants,     \* the moments of revocations
  Questions     \* those who ask

VARIABLES
  status,       \* "open", "closed", or "broken"
  held,         \* the credentials on record: [token, body, expires, revoked]
  used,         \* the tokens that were ever on record, or never will be
  view          \* of each question the credential it has looked at, if any

registryVars == <<status, held, used, view>>

Unmarked(x) == [x EXCEPT !.revoked = {}]
Displaces(c, x) == x.body.handle = c.body.handle

Init == status = "open" /\ held = {} /\ used = {} /\ view = [q \in Questions |-> {}]

Enter(c) ==
  /\ status = "open"
  /\ c.token \notin used /\ c.revoked = {}
  /\ held' = {x \in held : ~Displaces(c, x)} \cup {c}
  /\ used' = used \cup {c.token}
  /\ UNCHANGED <<status, view>>

Revoke(g, e) ==
  /\ status = "open"
  /\ held' = {IF x.body.group = g THEN [x EXCEPT !.revoked = {e}] ELSE x : x \in held}
  /\ UNCHANGED <<status, used, view>>

Look(q, c) ==
  /\ status = "open"
  /\ view[q] = {} /\ view' = [view EXCEPT ![q] = {c}]
  /\ UNCHANGED <<status, held, used>>

\* An entry that is cut off before it counts has spent its token.
Close ==
  /\ status = "open" /\ used \subseteq used'
  /\ \/ status' = "closed" /\ held' = {Unmarked(x) : x \in held}
     \/ \E c \in held : status' = "broken" /\ held' = {Unmarked(x) : x \in held \ {c}}
  /\ UNCHANGED view

Open ==
  /\ status = "closed" /\ status' = "open"
  /\ UNCHANGED <<held, used, view>>

Next ==
  \/ \E c \in held' \ held : Enter(c)
  \/ \E g \in Groups, e \in Instants : Revoke(g, e)
  \/ \E q \in Questions, c \in held : Look(q, c)
  \/ Close \/ Open

Spec == Init /\ [][Next]_registryVars
=============================================================================
