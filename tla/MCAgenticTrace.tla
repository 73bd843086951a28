---------------------------- MODULE MCAgenticTrace ----------------------------
(***************************************************************************)
(* A run is about one of three things, which share no state: the world of  *)
(* MCAgenticWorld (turn = "world"), an observed-action trace that is       *)
(* written, validated and scored (turn = "trace"), or the receipt of a run *)
(* of the agent-authority lab (turn = "receipt", MCAuthorityStudies).      *)
(*                                                                         *)
(* Trace: an allowed and a denied action, documents of up to three lines,  *)
(* rows with one or two fields of every kind of value.                     *)
(***************************************************************************)
EXTENDS MCAgenticWorld, AgenticTrace, AuthorityReceipt, MCAuthorityStudies

VARIABLE turn

TraceActionOrder == <<"a1", "a2">>

TraceTruth ==
  [id \in {"a1", "a2"} |->
     IF id = "a1" THEN [decision |-> "allow", at_audit |-> "deny", chain |-> <<1>>, evidence |-> {"e1"},
                        kind |-> "valid_then_revoked"]
     ELSE [decision |-> "deny", at_audit |-> "deny", chain |-> <<>>, evidence |-> {}, kind |-> "wrong_runtime"]]

TraceCited == [id \in {"a1", "a2"} |-> [resource |-> doc, evidence |-> IF id = "a1" THEN {"e1", "e2"} ELSE {}]]

TraceRow(decision, chain, evidence, resource) ==
  [decision |-> decision, at_audit |-> Null, chain |-> chain, evidence |-> evidence, resource |-> resource]

TraceRows ==
  {TraceRow(Null, Null, evidence, Null) : evidence \in {Null, {}, {"e1"}, {"e1", "e2"}}}
  \cup {TraceRow(Null, Null, evidence, doc) : evidence \in {Null, {}}}
  \cup {TraceRow(Null, <<>>, Null, Null)}
  \cup {TraceRow(decision, Null, Null, Null) : decision \in {"allow", "deny"}}

TraceLines ==
  {[form |-> form, id |-> Null] : form \in {"blank", "text", "json"}}
  \cup {[form |-> "json", id |-> id] : id \in {"a1", "a3"}}
  \cup {[form |-> "row", id |-> id, row |-> row] : id \in {"a1", "a2"}, row \in TraceRows}
  \cup {[form |-> "row", id |-> "a3", row |-> row] : row \in {TraceRow(Null, Null, Null, Null)}}

MCStudy == LabStudyOf(Nothing)
MCStudies == DOMAIN MCStudy

ASSUME StudyAssumption == StudiesAreSound

MCInit ==
  /\ turn \in {"world", "trace", "receipt"}
  /\ Init /\ TraceInit
  /\ IF turn = "receipt" THEN ReceiptInit
     ELSE study = Nothing /\ files = <<>> /\ torn = {} /\ pc = "idle" /\ call = Nothing /\ outcome = "new"
          /\ mishaps = 0 /\ truth_loads = 0 /\ scored = Nothing /\ quiet = TRUE

MCNext ==
  \/ turn = "world" /\ Next /\ UNCHANGED <<turn, traceVars, receiptVars>>
  \/ turn = "trace" /\ TraceNext /\ UNCHANGED <<turn, worldVars, receiptVars>>
  \/ turn = "receipt" /\ ReceiptNext /\ UNCHANGED <<turn, worldVars, traceVars>>

MCSpec == MCInit /\ [][MCNext]_<<turn, worldVars, traceVars, receiptVars>>
===============================================================================
