----------------------------- MODULE AgenticTrace -----------------------------
(***************************************************************************)
(* An observed-action trace: a document of one JSON line per action, which *)
(* a vendor writes, validate_trace_jsonl diagnoses without the truth, and  *)
(* trace_submission_from_jsonl and evaluate_agentic_trace parse and score  *)
(* with it.  The three share no code; the first promises to know what the  *)
(* others accept (src/synthworld/agentic/trace_validation.py,              *)
(* evaluation.py, baselines.py).                                           *)
(*                                                                         *)
(* A line is what either reader sees of it: whether it is blank, is JSON,  *)
(* carries an event id, and is a row of the model.  Of the fields of a row *)
(* there is one of each treatment: decisions, a chain and evidence that    *)
(* are scored, and a resource, which no metric reads.                      *)
(***************************************************************************)
EXTENDS Naturals, Sequences, Functions

CONSTANTS
  ActionOrder, \* the action events of the benchmark, in its order, each once
  Truth,       \* of each: [decision, at_audit, chain, evidence, kind]
  Cited,       \* of each: [resource, evidence], what its public attempt says
  Lines,       \* the lines a vendor may write
  MaxLines,    \* bound: lines of a document
  Null         \* what JSON says of an absent field

Actions == Range(ActionOrder)

IsRow(row) ==
  row = [decision |-> row.decision, at_audit |-> row.at_audit, chain |-> row.chain,
         evidence |-> row.evidence, resource |-> row.resource]

\* A benchmark has an action (models.py:354) and decides each with evidence for it.
BenchmarkIsDecided ==
  /\ ActionOrder \in Seq(Actions) /\ Actions # {}
  /\ \A id \in Actions : id # Null /\ Truth[id].decision \in {"allow", "deny"} /\ Truth[id].evidence # Null

LinesAreReadable ==
  \A line \in Lines :
    /\ line.form \in {"blank", "text", "json", "row"}
    /\ line.form = "row" => line.id # Null /\ IsRow(line.row)

ASSUME TraceAssumption ==
  /\ BenchmarkIsDecided /\ LinesAreReadable
  /\ Null \notin {"invalid_row", "not_unique", "not_covered", "allow", "deny"}

VARIABLES
  document,   \* the lines written
  report,     \* what the validator says of them, or Null
  result      \* what the evaluator makes of them, or Null

traceVars == <<document, report, result>>

EmptyRow == [decision |-> Null, at_audit |-> Null, chain |-> Null, evidence |-> Null, resource |-> Null]
RowLine(id, row) == [form |-> "row", id |-> id, row |-> row]

\* form is "blank", "text", "json", which is JSON of another shape, or "row".
Written == {n \in DOMAIN document : document[n].form # "blank"}
Parsed == {n \in Written : document[n].form = "row"}

(***************************************************************************)
(* validate_trace_jsonl: an issue is its code and the line or event.       *)
(***************************************************************************)
Recovered == {document[n].id : n \in {m \in Written : document[m].id # Null}}

\* Of the rows of one event the first counts.
FirstRows == {n \in Parsed : \A m \in Parsed : m < n => document[m].id # document[n].id}

RowIssues ==
  {<<"malformed_json", n>> : n \in {m \in Written : document[m].form = "text"}}
  \cup {<<"invalid_row", n>> : n \in {m \in Written : document[m].form = "json"}}
  \cup {<<"duplicate_event_id", n>> : n \in Parsed \ FirstRows}

CardinalityIssues ==
  {<<"unexpected_event_id", id>> : id \in Recovered \ Actions}
  \cup {<<"missing_event_id", id>> : id \in Actions \ Recovered}

IsAllNull(row) == row = EmptyRow

\* An empty list of evidence is no signal; an empty chain is one.  (IsAllNull is also a
\* mutant of it: an empty list of evidence counts as signal.)
CarriesNoSignal(row) == IsAllNull([row EXCEPT !.evidence = IF @ = {} THEN Null ELSE @])

AllRowsNull == FirstRows # {} /\ \A n \in FirstRows : CarriesNoSignal(document[n].row)

Errors == RowIssues \cup CardinalityIssues \cup IF AllRowsNull THEN {<<"all_rows_null", Null>>} ELSE {}

ScoresNothing(row) == row.resource # Null /\ [row EXCEPT !.resource = Null] = EmptyRow

Warnings ==
  {<<"cardinality_unchecked", n>> : n \in {m \in Written : document[m].id = Null}}
  \cup (IF AllRowsNull THEN {}
        ELSE {<<"all_null_row", n>> : n \in {m \in FirstRows : IsAllNull(document[m].row)}}
             \cup {<<"no_scored_fields", n>> : n \in {m \in FirstRows : ScoresNothing(document[m].row)}}
             \cup {<<"empty_evidence_refs", n>> : n \in {m \in FirstRows : document[m].row.evidence = {}}})

(***************************************************************************)
(* trace_submission_from_jsonl and evaluate_agentic_trace.  A metric is    *)
(* the set of the actions it counts.                                       *)
(***************************************************************************)
Rejection ==
  CASE Parsed # Written -> "invalid_row"
    [] Parsed = Written /\ FirstRows # Parsed -> "not_unique"
    [] Parsed = Written /\ FirstRows = Parsed /\ {document[n].id : n \in Parsed} # Actions -> "not_covered"
    [] OTHER -> Null

RowOf(id) == document[CHOOSE n \in Parsed : document[n].id = id].row

Evidence(id) == IF RowOf(id).evidence = Null THEN {} ELSE RowOf(id).evidence

TemporalKinds == {"valid_then_revoked", "post_revocation_action", "invalid_then_later_granted"}

Metrics ==
  LET denied == {id \in Actions : Truth[id].decision = "deny"} IN
  [decision |-> {id \in Actions : RowOf(id).decision = Truth[id].decision},
   true_positive |-> {id \in Actions : RowOf(id).decision = "allow" /\ Truth[id].decision = "allow"},
   predicted_positive |-> {id \in Actions : RowOf(id).decision = "allow"},
   denied |-> denied,
   false_allows |-> {id \in denied : RowOf(id).decision = "allow"},
   chain |-> {id \in Actions : RowOf(id).chain = Truth[id].chain},
   complete |-> {id \in Actions : RowOf(id).evidence # Null /\ Truth[id].evidence \subseteq Evidence(id)},
   exact |-> {id \in Actions : RowOf(id).evidence # Null /\ Truth[id].evidence = Evidence(id)},
   unneeded |-> {id \in Actions : ~(Evidence(id) \subseteq Truth[id].evidence)},
   temporal |-> {id \in Actions : Truth[id].kind \in TemporalKinds /\ RowOf(id).at_audit = Truth[id].at_audit}]

(***************************************************************************)
(* The steps.                                                              *)
(***************************************************************************)
TraceInit == document = <<>> /\ report = Null /\ result = Null

Write(line) ==
  /\ report = Null /\ result = Null /\ Len(document) < MaxLines
  /\ document' = Append(document, line)
  /\ UNCHANGED <<report, result>>

\* always_deny_agentic_trace and reference_agentic_trace: a row for each action, in
\* their order.
DenyAlways ==
  [id \in Actions |-> [decision |-> "deny", at_audit |-> "deny", chain |-> Null,
                       evidence |-> Cited[id].evidence, resource |-> Cited[id].resource]]

TellTheTruth ==
  [id \in Actions |-> [decision |-> Truth[id].decision, at_audit |-> Truth[id].at_audit, chain |-> Truth[id].chain,
                       evidence |-> Truth[id].evidence, resource |-> Cited[id].resource]]

SubmitBaseline(rows) ==
  /\ document = <<>> /\ report = Null /\ result = Null
  /\ document' = [n \in 1..Len(ActionOrder) |-> RowLine(ActionOrder[n], rows[ActionOrder[n]])]
  /\ UNCHANGED <<report, result>>

\* validate and evaluate are commands of their own, in either order.
Validate ==
  /\ report = Null
  /\ report' = [valid |-> Errors = {}, issues |-> Errors \cup Warnings]
  /\ UNCHANGED <<document, result>>

EvaluateTrace ==
  /\ result = Null
  /\ result' = IF Rejection = Null THEN [rejected |-> Null, metrics |-> Metrics]
               ELSE [rejected |-> Rejection, metrics |-> Null]
  /\ UNCHANGED <<document, report>>

TraceNext ==
  \/ \E line \in Lines : Write(line)
  \/ \E rows \in {DenyAlways, TellTheTruth} : SubmitBaseline(rows)
  \/ Validate
  \/ EvaluateTrace

TraceSpec == TraceInit /\ [][TraceNext]_traceVars

-----------------------------------------------------------------------------
Told(rows) == \A id \in Actions : RowOf(id) = rows[id]

\* The validator, which has no truth and shares no code with the evaluator, calls valid
\* exactly what the evaluator scores, but for submissions whose every row is empty,
\* which it refuses (trace_validation.py:7-14).  What is scored is scored alike by all
\* metrics: those of decisions are of one matrix, an exact account of the evidence is a
\* complete one that names nothing else, and a row that says nothing is never right
\* about a decision nor an excess of authority.
ValidTracesAreScored ==
  report # Null /\ result # Null =>
    /\ report.valid => result.rejected = Null
    /\ result.rejected = Null =>
         LET m == result.metrics IN
         /\ report.valid = \E id \in Actions : RowOf(id) \notin {EmptyRow, [EmptyRow EXCEPT !.evidence = {}]}
         /\ m.false_allows = m.predicted_positive \ m.true_positive
         /\ m.decision \ m.denied = m.true_positive /\ m.decision \cap m.false_allows = {}
         /\ m.exact = m.complete \ m.unneeded
         /\ Told(TellTheTruth) => \A metric \in {"decision", "chain", "complete", "exact"} : m[metric] = Actions
         /\ Told(DenyAlways) => m.decision = m.denied
===============================================================================
