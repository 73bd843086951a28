--------------------------- MODULE AuthorityReceipt ---------------------------
(***************************************************************************)
(* The receipt of an agent-authority run: a directory that is filled file  *)
(* by file, each created and never overwritten, while the product is run   *)
(* on the plan and then, in a call of its own, its output is normalised,   *)
(* scored with the evaluator's truth and sealed by a manifest              *)
(* (src/synthworld/assurance/agent_authority.py, receipt_v2.py).           *)
(*                                                                         *)
(* The process may stop at any point, in the middle of a write too, and    *)
(* be started again with other metadata and another normaliser; the        *)
(* product may go on writing its output after its runner has returned.     *)
(* A digest of a file is the file itself.                                  *)
(***************************************************************************)
EXTENDS AuthorityScoring

CONSTANTS
  Studies,      \* what may be run
  Study,        \* of each: [plan, stimuli, systems, outputs, readers, truths, mishaps]
  Read(_, _),   \* what a normaliser makes of an output, or Nothing
  Nothing

\* systems: what the metadata may name; outputs: what the product may write, Nothing for
\* no file; readers: the normalisers; truths: what the loader may return; mishaps: bound
\* of stops, late writes and repeated calls.

VARIABLES
  study,
  files,        \* the files of the directory, by their role
  torn,         \* the roles of those that were being written when the process stopped
  pc,           \* the file the running call is about to write, or what it is about to do
  call,         \* its arguments, and the bundle it has normalised
  outcome,      \* how the last call ended
  mishaps,      \* how much went wrong so far
  truth_loads,  \* history: how often the truth was loaded,
  scored,       \* the observations on disk when it was,
  quiet         \* and whether the product has kept to its output

receiptVars == <<study, files, torn, pc, call, outcome, mishaps, truth_loads, scored, quiet>>

Plan == Study[study].plan
Stimuli == Study[study].stimuli

\* Whatever is run is of the models' shapes.
StudiesAreSound ==
  \A st \in Studies :
    /\ IsFiniteSet(Study[st].stimuli)
    /\ \A id \in Study[st].stimuli : StimulusIsSound(StimulusOf[id])
    /\ \A reader \in Study[st].readers, output \in Study[st].outputs \ {Nothing} :
         Read(reader, output) # Nothing => BundleIsFinite(Read(reader, output))

StagedRoles == {"agent_authority_run_plan", "source_public", "product_input", "product_output", "execution"}
EvaluatedRoles == StagedRoles \cup {"agent_authority_observations", "agent_authority_truth", "agent_authority_evaluation"}

Writing == EvaluatedRoles \cup {"manifest"}
Has(role) == role \in DOMAIN files \ torn

With(role, content) == [r \in DOMAIN files \cup {role} |-> IF r = role THEN content ELSE files[r]]

ReceiptInit ==
  /\ study \in Studies
  /\ files = <<>> /\ torn = {} /\ pc = "idle" /\ call = Nothing /\ outcome = "new"
  /\ mishaps = 0 /\ truth_loads = 0 /\ scored = Nothing /\ quiet = TRUE

GoesWrong == mishaps < Study[study].mishaps /\ mishaps' = mishaps + 1

Begins(systems, reader, failed, next) ==
  /\ pc' = next /\ UNCHANGED outcome
  /\ call' = [systems |-> systems, reader |-> reader, failed |-> failed, bundle |-> Nothing, truth |-> Nothing]

Ends(how) == pc' = "idle" /\ call' = Nothing /\ outcome' = how

\* Mutant: the file is opened for writing.
Overwrites(role, content, next) ==
  pc = role /\ files' = With(role, content) /\ pc' = next /\ UNCHANGED <<call, outcome>>

\* _write_new, write_canonical_model: the call fails when the file exists.
Creates(role, content, next) ==
  /\ pc = role
  /\ IF role \in DOMAIN files
     THEN Ends("refused") /\ UNCHANGED files
     ELSE files' = With(role, content) /\ pc' = next /\ UNCHANGED <<call, outcome>>

Rest == UNCHANGED <<study, torn, mishaps, truth_loads, scored, quiet>>

(***************************************************************************)
(* run_product_stage_with_preflight.  It refuses a directory that exists,  *)
(* as it does from the moment a call begins to fill it.                    *)
(***************************************************************************)
Preflight(systems) ==
  /\ pc = "idle" /\ outcome \in {"new", "not begun"}
  /\ IF PlanIsSound(Plan, Stimuli, systems)
     THEN Begins(systems, Nothing, FALSE, "agent_authority_run_plan")
     ELSE Ends("not begun")
  /\ Rest /\ UNCHANGED files

StagePlan == Creates("agent_authority_run_plan", "as planned", "source_public") /\ Rest
StageSource == Creates("source_public", "as planned", "product_input") /\ Rest

\* The adapter has derived the declared stimuli from the source.
StageInput == Creates("product_input", "as planned", "product_output") /\ Rest

RunProduct ==
  /\ pc = "product_output"
  /\ \E output \in Study[study].outputs, failed \in BOOLEAN :
       IF output = Nothing
       THEN Ends("refused") /\ UNCHANGED files
       ELSE /\ files' = With("product_output", output) /\ pc' = "execution"
            /\ call' = [call EXCEPT !.failed = failed]
            /\ UNCHANGED outcome
  /\ Rest

StageExecution ==
  /\ pc = "execution"
  /\ files' = With("execution", [systems |-> call.systems, output |-> files["product_output"], failed |-> call.failed])
  /\ Ends("staged")
  /\ Rest

(***************************************************************************)
(* finalize_agent_authority_run_receipt, and the one of a failed run.      *)
(***************************************************************************)
StagedIsSound(systems, failed) ==
  /\ \A role \in StagedRoles : Has(role)
  /\ files["execution"] = [systems |-> systems, output |-> files["product_output"], failed |-> failed]

Finalizes(systems, reader, failed, next) ==
  /\ pc = "idle" /\ outcome \notin {"new", "not begun"}
  /\ IF outcome = "staged" THEN UNCHANGED mishaps ELSE GoesWrong
  /\ IF StagedIsSound(systems, failed) THEN Begins(systems, reader, failed, next) ELSE Ends("refused")
  /\ UNCHANGED <<study, files, torn, truth_loads, scored, quiet>>

Finalize(systems, reader) == Finalizes(systems, reader, FALSE, "normalise")
FinalizeFailed(systems) == Finalizes(systems, Nothing, TRUE, "manifest")

\* The output is read again, after it was compared with the execution record.
Normalise ==
  /\ pc = "normalise"
  /\ LET bundle == Read(call.reader, files["product_output"]) IN
     IF bundle # Nothing /\ ReferencesAreSound(Plan, Stimuli, bundle, call.systems)
     THEN pc' = "agent_authority_observations" /\ call' = [call EXCEPT !.bundle = bundle] /\ UNCHANGED outcome
     ELSE Ends("refused")
  /\ Rest /\ UNCHANGED files

WriteObservations == Creates("agent_authority_observations", call.bundle, "load truth") /\ Rest

LoadTruth(truth) ==
  /\ pc = "load truth"
  /\ truth_loads' = truth_loads + 1
  /\ scored' = files["agent_authority_observations"]
  /\ IF TruthIsSound(Plan, Stimuli, truth)
     THEN pc' = "agent_authority_truth" /\ call' = [call EXCEPT !.truth = truth] /\ UNCHANGED outcome
     ELSE Ends("refused")
  /\ UNCHANGED <<study, files, torn, mishaps, quiet>>

WriteTruth == Creates("agent_authority_truth", call.truth, "agent_authority_evaluation") /\ Rest

Evaluate ==
  /\ Creates("agent_authority_evaluation", Report(Plan, Stimuli, call.bundle, call.truth), "manifest")
  /\ Rest

\* The artifacts are described as they are now; there must be no others.
Seal ==
  LET roles == IF call.failed THEN StagedRoles ELSE EvaluatedRoles IN
  /\ pc = "manifest"
  /\ IF DOMAIN files = roles
     THEN Creates("manifest", [digests |-> files, systems |-> call.systems, failed |-> call.failed], "validate")
     ELSE Ends("refused") /\ UNCHANGED files
  /\ Rest

(***************************************************************************)
(* validate_agent_authority_run_receipt: the files are those of the        *)
(* manifest, agree with each other, and their derivation can be repeated,  *)
(* that of the observations if there is a normaliser.                      *)
(***************************************************************************)
EvaluationReplays(reader) ==
  LET bundle == files["agent_authority_observations"]
      truth == files["agent_authority_truth"]
  IN /\ ReferencesAreSound(Plan, Stimuli, bundle, files["manifest"].systems)
     /\ TruthIsSound(Plan, Stimuli, truth)
     /\ reader # Nothing => bundle = Read(reader, files["product_output"])
     /\ files["agent_authority_evaluation"] = Report(Plan, Stimuli, bundle, truth)

IsReceipt(reader) ==
  /\ Has("manifest")
  /\ LET manifest == files["manifest"] IN
     /\ DOMAIN files = DOMAIN manifest.digests \cup {"manifest"}
     /\ \A role \in DOMAIN manifest.digests : files[role] = manifest.digests[role]
     /\ DOMAIN manifest.digests = (IF manifest.failed THEN StagedRoles ELSE EvaluatedRoles)
     /\ PlanIsSound(Plan, Stimuli, manifest.systems)
     /\ files["execution"] = [systems |-> manifest.systems, output |-> manifest.digests["product_output"],
                              failed |-> manifest.failed]
     /\ ~manifest.failed => EvaluationReplays(reader)

ValidateReceipt ==
  /\ pc = "validate"
  /\ Ends(IF IsReceipt(call.reader) THEN "sealed" ELSE "refused")
  /\ Rest /\ UNCHANGED files

(***************************************************************************)
(* What may go wrong.                                                      *)
(***************************************************************************)
Stop ==
  /\ pc # "idle" /\ GoesWrong
  /\ \/ UNCHANGED <<files, torn>>
     \/ pc \in Writing \ DOMAIN files /\ files' = With(pc, Nothing) /\ torn' = torn \cup {pc}
  /\ Ends("stopped")
  /\ UNCHANGED <<study, truth_loads, scored, quiet>>

ProductWritesOn ==
  /\ "product_output" \in DOMAIN files /\ GoesWrong
  /\ \E output \in Study[study].outputs \ {Nothing, files["product_output"]} : files' = With("product_output", output)
  /\ torn' = torn \ {"product_output"} /\ quiet' = FALSE
  /\ UNCHANGED <<study, pc, call, outcome, truth_loads, scored>>

ReceiptNext ==
  \/ \E systems \in Study[study].systems :
       \/ Preflight(systems)
       \/ \E reader \in Study[study].readers : Finalize(systems, reader)
       \/ FinalizeFailed(systems)
  \/ StagePlan \/ StageSource \/ StageInput \/ RunProduct \/ StageExecution
  \/ Normalise \/ WriteObservations
  \/ \E truth \in Study[study].truths : LoadTruth(truth)
  \/ WriteTruth \/ Evaluate \/ Seal \/ ValidateReceipt
  \/ Stop \/ ProductWritesOn

ReceiptSpec == ReceiptInit /\ [][ReceiptNext]_receiptVars

-----------------------------------------------------------------------------
\* The findings of a report and its rates tell the same story: those of a control are
\* ideal exactly if each of its stimuli is blameless, no rate exceeds one, and those
\* that must not be empty are not, whatever was left unobserved; that of the allows
\* after the bound is empty only when L06 was not observed at all
\* (scoring.py:95-117, 465-520, agent-authority-contract/README.md:145-151).
RatesFollowFindings ==
  Has("agent_authority_evaluation") =>
    RatesFollowFindingsIn(Stimuli, files["agent_authority_observations"], files["agent_authority_evaluation"])

\* A directory that validates, now or later, with a normaliser or without, was fixed
\* before the truth was known: its truth was loaded once, in all the calls there were,
\* after its observations had been written as they still are, and never for a failed
\* run.  And what is sealed of a product that kept to its output validates with the
\* normaliser it was sealed with, however often the process had been stopped and
\* started (agent_authority.py:288-292, 354-366, receipt.py:92-97).
ReceiptsAreFixedBeforeTheTruth ==
  /\ IsReceipt(Nothing) =>
       IF files["manifest"].failed THEN truth_loads = 0
       ELSE truth_loads = 1 /\ scored = files["agent_authority_observations"]
  /\ pc = "validate" /\ quiet => IsReceipt(call.reader)
  /\ outcome = "sealed" /\ pc = "idle" => Has("manifest")
===============================================================================
