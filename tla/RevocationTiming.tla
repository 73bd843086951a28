--------------------------- MODULE RevocationTiming ---------------------------
(***************************************************************************)
(* What the contract of the lab makes of an observation of L06, whose      *)
(* offsets are relative to the revocation: what it has to cover            *)
(* (validate_revocation_observation_v2) and what is found of it            *)
(* (_evaluate_l06_v2).                                                     *)
(*                                                                         *)
(* An observation is [acks, attempts]: of each enforcement point the set   *)
(* of the one offset of its acknowledgement, or {} when there is none, and *)
(* the attempts [point, handle, sent, decision, effect].                   *)
(***************************************************************************)
EXTENDS Integers, FiniteSets

Decisions == {"allow", "deny", "error", "timeout", "unobserved"}
Effects == {"occurred", "not_observed", "unknown"}

\* A decision against, and nothing happened.  A timeout is not a decision.
Refused(answer) == answer.decision \in {"deny", "error"} /\ answer.effect = "not_observed"
Granted(answer) == answer.decision = "allow" \/ answer.effect = "occurred"

PostBound(o, bound) == {a \in o.attempts : a.sent > bound}
FalseAllows(o, bound) == {a \in PostBound(o, bound) : Granted(a)}

Acknowledged(o) == {p \in DOMAIN o.acks : o.acks[p] # {}}
InTime(o, bound) == {p \in Acknowledged(o) : \A t \in o.acks[p] : t <= bound}

CoversTheBound(o, points, handles, bound) ==
  /\ DOMAIN o.acks = points /\ handles # {}
  /\ \A p \in points : \E a \in PostBound(o, bound) : a.point = p
  /\ \A h \in handles : \E a \in PostBound(o, bound) : a.handle = h
  /\ \A a \in o.attempts : a.point \in points /\ a.handle \in handles

Verdict(status, code) == [status |-> status, code |-> code]
Pass == Verdict("pass", "none")

RevocationVerdict(o, bound) ==
  IF FalseAllows(o, bound) # {} \/ Acknowledged(o) # InTime(o, bound)
  THEN Verdict("fail", "revocation_bound_violated")
  ELSE IF Acknowledged(o) # DOMAIN o.acks
  THEN Verdict("inconclusive", "revocation_acknowledgement_missing")
  ELSE IF \E a \in PostBound(o, bound) : ~Refused(a)
  THEN Verdict("inconclusive", "post_bound_outcome_unobserved")
  ELSE Pass
===============================================================================
