------------------------- MODULE MCContextualAccess -------------------------
(***************************************************************************)
(* A run is about one of two things, which share no state: the drawing,    *)
(* delivery and compilation of a package (turn = "package"), or an         *)
(* external run against a compiled one (turn = "run").                     *)
(*                                                                         *)
(* Package: one subject, an assignment, a device, and a policy that allows *)
(* the assigned and denies a noncompliant device, with a second policy     *)
(* that the requests of the last atom meet alone.                          *)
(*                                                                         *)
(* Run: one request, one event delivered twice, the second time past the   *)
(* feed bound; one probe of every kind, and two that refer to nothing.     *)
(***************************************************************************)
EXTENDS ContextualAccess, ContextualProtocol, TLC

CONSTANTS asg, dev, read, write, rq, ev, fault, sut, feed, stranger, trace, log, v1, v2

VARIABLE turn

MCKeys == {asg, dev}
MCKindOf == [k \in MCKeys |-> IF k = asg THEN "case_assignment" ELSE "device_posture"]
MCValuesOf == [k \in MCKeys |-> IF k = asg THEN {"assigned"} ELSE {"trusted", "noncompliant"}]

IsAssigned == [kind |-> "case_assignment", keys |-> {asg}, accepts |-> {"assigned"}]
PostureIs(posture) == [kind |-> "device_posture", keys |-> {}, accepts |-> {posture}]

Rule(effect, composition, predicates) ==
  [effect |-> effect, composition |-> composition, predicates |-> predicates]

MCPolicies ==
  {[scope |-> {read},
    rules |-> {Rule("allow", "all", {IsAssigned}), Rule("deny", "any", {PostureIs("noncompliant")})}],
   [scope |-> {write}, rules |-> {Rule("allow", "any", {IsAssigned, PostureIs("trusted")})}]}

Request(tick, atom) == [tick |-> tick, atom |-> atom, device |-> dev]

MCRequests == <<Request(0, write), Request(1, read), Request(2, read)>>

MCPackages ==
  {[decision |-> [r \in {rq} |-> d], policies |-> [r \in {rq} |-> {v1}],
    effective |-> [e \in {ev} |-> 1], attempts |-> [e \in {ev} |-> <<2, 3>>],
    mapping |-> [k \in {"on_call"} |-> "subject_attribute"], faults |-> {fault}] :
     d \in {"allow", "deny"}}

DecisionProbe(id, request, trigger) ==
  [id |-> id, control |-> "access_decision", component |-> sut, request |-> request, trigger |-> trigger]
DeliveryProbe(id, attempt) ==
  [id |-> id, control |-> "delivery_acceptance", component |-> feed, event |-> ev, attempt |-> attempt]

MCProbes ==
  {DecisionProbe(1, rq, Nothing), DecisionProbe(2, rq, ev), DecisionProbe(3, rq, fault),
   DeliveryProbe(4, 1), DeliveryProbe(5, 2), DeliveryProbe(6, 3),
   [id |-> 7, control |-> "mapping_ingestion", component |-> feed, fact_type |-> "on_call",
    mapping_kind |-> "subject_attribute"],
   [id |-> 8, control |-> "protected_enforcement", component |-> sut, request |-> rq],
   [id |-> 9, control |-> "synchronization_fault", component |-> feed, fault |-> fault],
   [id |-> 10, control |-> "evidence_correlation", component |-> sut, request |-> rq, kind |-> trace]}

MCKindOfHandle == [h \in {1, 2} |-> IF h = 1 THEN trace ELSE log]

Observation(p, fields) ==
  fields @@ [probe |-> p.id, control |-> p.control, component |-> p.component, evidence |-> {}]

Attempt(tick, decision, elapsed) == [tick |-> tick, decision |-> decision, elapsed |-> elapsed]

Elapsed == {2, 3}
AttemptLists ==
  {<<Attempt(1, d, Nothing)>> : d \in {"allow", "deny"}}
  \cup {<<Attempt(1, "allow", x), Attempt(t, "deny", y)>> : t \in {0, 2}, x, y \in Elapsed}
  \cup {<<Attempt(1, "error", 2), Attempt(1, "allow", x)>> : x \in Elapsed}

DecisionObservations(p) ==
  {Observation(p, [request |-> rq, trigger |-> trigger, accepted_attempt |-> accepted,
                   policies |-> policies, attempts |-> list]) :
     trigger \in {Nothing, ev}, accepted \in {Nothing, 1, 2}, policies \in {{v2}, {v1, v2}},
     list \in AttemptLists}

DeliveryObservations(p) ==
  {Observation(p, [event |-> ev, attempt |-> attempt, projected |-> projected, issued |-> issued,
                   delivered |-> delivered, accepted |-> accepted, elapsed |-> elapsed]) :
     attempt \in {p.attempt, 3}, projected \in {0, 1}, issued \in {2}, delivered \in {1, 2, 3},
     accepted \in BOOLEAN, elapsed \in Elapsed \cup {Nothing}}

OtherObservations(p) ==
  CASE p.control = "mapping_ingestion" ->
         {Observation(p, [fact_type |-> "on_call", mapping_kind |-> kind, status |-> status]) :
            kind \in {p.mapping_kind, "environment_attribute"}, status \in {"ingested", "error"}}
    [] p.control = "protected_enforcement" ->
         {Observation(p, [request |-> rq, decision |-> d, side_effect |-> s]) :
            d \in {"allow", "deny", "error"}, s \in {"occurred", "not_observed", "unknown"}}
    [] p.control = "synchronization_fault" ->
         {Observation(p, [fault |-> fault, status |-> status, elapsed |-> elapsed]) :
            status \in {"recovered", "failed"}, elapsed \in {Nothing, 1}}
    [] p.control = "evidence_correlation" ->
         {[Observation(p, [request |-> rq, kind |-> kind, correlated |-> correlated])
             EXCEPT !.evidence = evidence] :
            kind \in {trace, log}, correlated \in BOOLEAN, evidence \in {{}, {1}, {2}, {1, 3}}}

MCComponents == {sut, feed}
MCKnownComponents == {sut, feed, stranger}

MCObservations ==
  UNION {CASE p.control = "access_decision" -> DecisionObservations(p)
           [] p.control = "delivery_acceptance" -> DeliveryObservations(p)
           [] OTHER -> OtherObservations(p) : p \in MCProbes \ {DecisionProbe(3, rq, fault), DeliveryProbe(6, 3)}}
  \cup {[o EXCEPT !.component = feed] : o \in OtherObservations([id |-> 8, control |-> "protected_enforcement",
                                                                   component |-> sut, request |-> rq])}

MCInit ==
  \/ /\ turn = "package" /\ Init
     /\ package = Nothing /\ plan = Nothing /\ coverage = Nothing
     /\ staged = Nothing /\ phase = Nothing /\ report = Nothing
  \/ /\ turn = "run" /\ RunInit
     /\ stage = "drawing" /\ initial = [key \in Keys |-> None]
     /\ events = <<>> /\ attempts = <<>> /\ cases = <<>>

MCNext ==
  \/ turn = "package" /\ Next /\ UNCHANGED <<turn, runVars>>
  \/ turn = "run" /\ RunNext /\ UNCHANGED <<turn, vars>>

MCSpec == MCInit /\ [][MCNext]_<<turn, vars, runVars>>
=============================================================================
