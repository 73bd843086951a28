--------------------------- MODULE GovernanceCases ---------------------------
(***************************************************************************)
(* The rows the reference package of the authority-governance contract is  *)
(* built from: twelve changes, the versions of the policy and the mandates *)
(* of the approvers.                                                       *)
(***************************************************************************)
EXTENDS Integers, Sequences

CONSTANT Unset   \* Python's None

(***************************************************************************)
(* _case_specs.  Rows of [type, affected, ticks of request, decision,      *)
(* enactment and audit, the tick expected, the states before, requested,   *)
(* approved and enacted, the decision, the truth].                         *)
(***************************************************************************)
Spec12(type, affected, ticks, expected, states, outcome, ruling, approver, verdict) ==
  [type |-> type, affected |-> affected, ticks |-> ticks, expected |-> expected,
   before |-> states[1], requested |-> states[2], approved |-> states[3], enacted |-> states[4],
   outcome |-> outcome, policy |-> ruling[1], rule |-> ruling[2],
   approver |-> approver[1], mandates |-> approver[2],
   authorised |-> verdict[1], approver_authorised |-> verdict[2], consistent |-> verdict[3]]

ByStandard1 == <<1, "standard">>
ByStandard2 == <<2, "standard">>
Valid == <<"valid", {"valid"}>>
Granted == <<Unset, "narrow", "narrow", "narrow">>

Cases == <<
  Spec12("grant", 1, <<1, 2, 3, 4>>, 3, Granted, "approved", ByStandard1, Valid, <<TRUE, TRUE, TRUE>>),
  Spec12("grant", 2, <<11, 12, 13, 14>>, 13, Granted, "approved", ByStandard1, <<"wrong", {}>>, <<FALSE, FALSE, TRUE>>),
  Spec12("attenuate", 3, <<21, 22, 23, 24>>, 23, <<"broad", "narrow", "narrow", "broad">>, "partial",
         ByStandard1, Valid, <<TRUE, TRUE, FALSE>>),
  Spec12("grant", 4, <<31, 32, 33, 34>>, 33, <<Unset, "narrow", Unset, "narrow">>, "denied",
         <<1, "deny">>, Valid, <<FALSE, TRUE, FALSE>>),
  Spec12("grant", 5, <<41, 42, 43, 44>>, 43, <<Unset, "timed", "timed", "timed">>, "approved",
         <<1, "emergency">>, <<"emergency", {"emergency"}>>, <<TRUE, TRUE, TRUE>>),
  Spec12("grant", 6, <<56, 60, 61, 62>>, 61, Granted, "approved", ByStandard1, <<"expired", {"expired"}>>, <<FALSE, FALSE, TRUE>>),
  Spec12("grant", 7, <<64, 65, 66, 75>>, 66, Granted, "approved", ByStandard1, Valid, <<TRUE, TRUE, TRUE>>),
  Spec12("grant", 8, <<76, 77, 78, 90>>, 78, Granted, "approved", ByStandard2, Valid, <<TRUE, TRUE, TRUE>>),
  Spec12("supersede", 1, <<91, 92, 93, 94>>, 93, <<"narrow", "changed", "changed", "changed">>, "approved",
         ByStandard2, Valid, <<FALSE, TRUE, TRUE>>),
  Spec12("revoke", 10, <<100, 101, 108, 110>>, 102, <<"broad", Unset, Unset, Unset>>, "approved",
         ByStandard2, Valid, <<TRUE, TRUE, FALSE>>),
  Spec12("grant", 11, <<111, 112, 114, 115>>, 114, <<Unset, "narrow", Unset, "narrow">>, "denied",
         <<2, "deny">>, Valid, <<FALSE, TRUE, FALSE>>),
  Spec12("grant", 12, <<121, 122, 123, 124>>, 123, Granted, "approved", <<2, "deny">>, Valid, <<FALSE, TRUE, TRUE>>) >>

Conflicting(c) == c = 11
ExceptionOf(c) == IF c = 5 THEN "emergency-05" ELSE Unset
Reconstructable(c) == c # 8
CanonicalSupersedes(c) == IF c = 9 THEN 1 ELSE Unset
ObservedSupersedes(c) == Unset

\* _policies and _mandates.
ReferencePolicies ==
  {[id |-> 1, from |-> 0, until |-> 70,
    rules |-> {[id |-> "deny", effect |-> "deny", approvers |-> {"valid"}, exceptions |-> {}],
               [id |-> "emergency", effect |-> "permit", approvers |-> {"emergency"}, exceptions |-> {"emergency-05"}],
               [id |-> "standard", effect |-> "permit", approvers |-> {"valid"}, exceptions |-> {}]}],
   [id |-> 2, from |-> 70, until |-> Unset,
    rules |-> {[id |-> "deny", effect |-> "deny", approvers |-> {"valid"}, exceptions |-> {}],
               [id |-> "standard", effect |-> "permit", approvers |-> {"valid"}, exceptions |-> {}]}]}

ReferenceMandates ==
  {[id |-> "emergency", approver |-> "emergency", from |-> 40, until |-> 50, types |-> {"grant"}, affected |-> {5}],
   [id |-> "expired", approver |-> "expired", from |-> 0, until |-> 55, types |-> {"grant"}, affected |-> {6}],
   [id |-> "valid", approver |-> "valid", from |-> 0, until |-> Unset,
    types |-> {"grant", "attenuate", "revoke", "supersede"}, affected |-> 1..12]}
=============================================================================
