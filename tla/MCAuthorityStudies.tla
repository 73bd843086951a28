-------------------------- MODULE MCAuthorityStudies --------------------------
(***************************************************************************)
(* Runs of the agent-authority lab for TLC: two gateways, a dependency, a  *)
(* client and a target; two stimuli of most of the controls, and for each  *)
(* study what the product may write, how it may be read, what the truth    *)
(* may be and how much may go wrong.                                       *)
(*                                                                         *)
(* The studies of one or two stimuli of a control enumerate what can be    *)
(* observed and let nothing go wrong; "eventful" has two products, two     *)
(* normalisers, a wrong truth, a wrong deployment and three mishaps.       *)
(***************************************************************************)
EXTENDS RevocationTiming, TLC

LabComponents == {"gate", "back", "idp", "client", "target"}

LabStimulusOf ==
  [L01a |-> [control |-> "L01", channels |-> {"log", "net"}],
   L01b |-> [control |-> "L01", channels |-> {"log"}],
   L02a |-> [control |-> "L02"],
   L02b |-> [control |-> "L02"],
   L03a |-> [control |-> "L03", path |-> {"client", "target"}, points |-> {"gate"}],
   L04a |-> [control |-> "L04", points |-> {"gate"}],
   L05a |-> [control |-> "L05", points |-> {"gate", "back"}, dependency |-> "idp"],
   L05b |-> [control |-> "L05", points |-> {"gate"}, dependency |-> "idp"],
   L06a |-> [control |-> "L06", points |-> {"gate", "back"}, handles |-> {"parent", "child"}, bound |-> "short"],
   L06b |-> [control |-> "L06", points |-> {"gate"}, handles |-> {"parent"}, bound |-> "long"]]

LabKindOf == [log1 |-> "log", log2 |-> "log", net1 |-> "net"]

LabPlan(stimuli) ==
  [selected |-> {LabStimulusOf[id].control : id \in stimuli}, points |-> {"gate", "back"},
   dependencies |-> {"idp"}, bounds |-> [short |-> 1, long |-> 2]]

(***************************************************************************)
(* Observations and bundles.                                               *)
(***************************************************************************)
Answers == [decision : Decisions, effect : Effects]
Decided == {a \in Answers : a.decision \in {"allow", "deny", "timeout"}}

Seeing(id, refs, fields) ==
  {[f \in DOMAIN o \cup {"control", "refs", "by"} |->
      CASE f = "control" -> LabStimulusOf[id].control
        [] f = "refs" -> refs
        [] f = "by" -> {"client"}
        [] OTHER -> o[f]] : o \in fields}

Scans(id) == [scans : [LabStimulusOf[id].channels -> {"clear", "match", "uncollected"}]]
Replays == [reach : {"direct"}, decision : Decisions, effect : Effects]
Probes(decisions) == [reach : {"blocked", "open", "unknown"}, decision : decisions, effect : Effects]
Bypasses == [reach : {"blocked", "open", "unknown"}, decision : Decisions, effect : Effects,
             traversed : {{}, {"back"}, {"target"}}]
Faults(id, answers) == [confirmed : BOOLEAN, outcomes : [LabStimulusOf[id].points -> answers]]

Tried(point, handle, sent, answer) ==
  [point |-> point, handle |-> handle, sent |-> sent, decision |-> answer.decision, effect |-> answer.effect]

\* Two attempts after the bound, of each gateway and of each credential.
Propagations ==
  {[acks |-> acks, attempts |-> {Tried("gate", "parent", 2, x), Tried("back", "child", sent, y)}] :
     acks \in [{"gate", "back"} -> {{}, {1}, {2}}], sent \in {2, 3},
     x \in Decided, y \in {a \in Answers : a.decision \in {"allow", "error"}}}

\* One or two attempts, the first perhaps within the bound.
Narrow ==
  {[acks |-> [p \in {"gate"} |-> ack], attempts |-> {Tried("gate", "parent", sent, x), Tried("gate", "parent", 3, y)}] :
     ack \in {{}, {2}, {3}}, sent \in {1, 2, 3}, x, y \in {a \in Answers : a.decision \in {"allow", "deny"}}}

FaultsOf(stimuli) == [id \in {i \in stimuli : LabStimulusOf[i].control = "L05"} |-> "idp"]

Bundle(stimuli, observations) ==
  [observations |-> observations, declared |-> DOMAIN LabKindOf, faults |-> FaultsOf(stimuli)]

\* Of two stimuli, each observed as one of its set or not at all.
Pairs(a, seen_a, b, seen_b) ==
  {Bundle({a, b}, [id \in {i \in {a, b} : IF i = a THEN x # {} ELSE y # {}} |->
                    CHOOSE o \in IF id = a THEN x ELSE y : TRUE]) :
     x \in {{}} \cup {{o} : o \in seen_a}, y \in {{}} \cup {{o} : o \in seen_b}}

One(id, seen) == {Bundle({id}, [i \in {id} |-> o]) : o \in seen} \cup {Bundle({id}, <<>>)}

(***************************************************************************)
(* What a truth says of its stimuli, and what the normalisers make of an   *)
(* output: the faithful one reads it as it is, the forgetful one loses the *)
(* observations.                                                           *)
(***************************************************************************)
LabTruth(stimuli, kinds) ==
  [id \in stimuli |->
     LET s == LabStimulusOf[id] IN
     [control |-> s.control, kinds |-> kinds,
      restates |-> CASE s.control = "L01" -> <<s.channels>>
                     [] s.control = "L05" -> <<s.points>>
                     [] s.control = "L06" -> <<s.points, s.handles, IF s.bound = "short" THEN 1 ELSE 2>>
                     [] OTHER -> <<>>]]

Wrong(truth) == [id \in DOMAIN truth |-> [truth[id] EXCEPT !.restates = <<{"agent"}>>]]

LabStudy(stimuli, outputs) ==
  [plan |-> LabPlan(stimuli), stimuli |-> stimuli, systems |-> {LabComponents}, outputs |-> outputs,
   readers |-> {"faithful"}, truths |-> {LabTruth(stimuli, {"log"})}, mishaps |-> 0]

LogRefs == {"log1"}

QuietStudy ==
  [L01 |-> LabStudy({"L01a", "L01b"}, Pairs("L01a", Seeing("L01a", LogRefs, Scans("L01a")),
                                            "L01b", Seeing("L01b", {"net1"}, Scans("L01b")))),
   L02 |-> LabStudy({"L02a", "L02b"}, Pairs("L02a", Seeing("L02a", LogRefs, Replays),
                                            "L02b", Seeing("L02b", {"log1", "net1"}, Replays))),
   L03 |-> LabStudy({"L03a"}, One("L03a", Seeing("L03a", LogRefs, Bypasses) \cup Seeing("L03a", {}, Bypasses))),
   L04 |-> LabStudy({"L04a"}, One("L04a", Seeing("L04a", LogRefs, Probes(Decisions)))),
   L05 |-> LabStudy({"L05a", "L05b"}, Pairs("L05a", Seeing("L05a", {"log2"}, Faults("L05a", Decided)),
                                            "L05b", Seeing("L05b", {}, Faults("L05b", Decided)))),
   L06 |-> LabStudy({"L06a"}, One("L06a", Seeing("L06a", LogRefs, Propagations))),
   L06l |-> LabStudy({"L06b"}, One("L06b", Seeing("L06b", LogRefs, Narrow)))]

(***************************************************************************)
(* The eventful study, and what does not depend on None.                   *)
(***************************************************************************)
Unconfirmed(id) == CHOOSE o \in Seeing(id, LogRefs, Faults(id, Decided)) : ~o.confirmed
EventfulBundle == Bundle({"L05b"}, [id \in {"L05b"} |-> Unconfirmed(id)])
Astray == [EventfulBundle EXCEPT !.faults = <<>>]

EventfulStudy(none) ==
  [LabStudy({"L05b"}, {EventfulBundle, Astray, none}) EXCEPT
     !.systems = {LabComponents, LabComponents \ {"idp"}, LabComponents \cup {"probe"}},
     !.readers = {"faithful", "forgetful"},
     !.truths = {LabTruth({"L05b"}, {"log"}), Wrong(LabTruth({"L05b"}, {"log"}))},
     !.mishaps = 3]

LabStudyOf(none) == QuietStudy @@ [eventful |-> EventfulStudy(none)]

LabRead(reader, output) == IF reader = "faithful" THEN output ELSE [output EXCEPT !.observations = <<>>]
===============================================================================
