# TLA+ verification of SynthWorld

SynthWorld is a Python library that builds synthetic enterprise worlds and scores
how systems decide, attribute and audit what happens in them. Most of it is pure
construction and arithmetic. The parts that carry state, or rules that relate facts of
different times, are hard to test, and this directory models, checks and proves
things about them:

* the **agentic authority core** (`src/src/synthworld/agentic/`): an event-sourced
  world of delegations, credentials, runtimes and evidence, the oracle that decides, at
  action time and again at audit time, whether an action was allowed, and the traces in
  which a vendor says what it thinks;
* the **reference lab** (`src/agent-authority-contract/reference-deployment/`): a
  small distributed system of HTTP services (credential, policy, audit, target, two
  gateways and a baseline endpoint) with threads, a lock, files, timeouts, container
  stops and a revocation scenario;
* **contextual access** (`src/src/synthworld/contextual_access/`): facts that are
  revised, a feed that delivers the revisions late, twice or out of order, decisions on
  both, and the protocol of an external run;
* **authority governance** and **continuous assurance**
  (`src/src/synthworld/authority_governance/`, `.../continuous_assurance/`): logs on one
  clock in which decisions, enactments, signals, remediations and outages of several
  cases overlap, their replay, and the scoring of answers about them;
* **agent-authority receipts** (`src/src/synthworld/agent_authority/`,
  `.../assurance/`): the scoring of what a live lab observed, and the directory that a run
  of a product fills file by file, with stops and repeated calls in between;
* **enterprise access** (`src/src/synthworld/enterprise/`, `.../agentic/enterprise/`):
  the compilation of roles, attribute rules and relation rules into one decision per
  cell, and agents that act on top of it.

## 1. Inventory

| Component | State | Operations | Correct when |
|---|---|---|---|
| Agentic replay (`replay.py`, `relationships.py`) | runtimes, credentials, delegations, revoked ids, retained evidence, action and audit ids, folded from events over an immutable snapshot | seven event types, each with a validator that raises | revocation reaches every descendant; authority narrows along every chain; chains stay in one organisation |
| Authority oracle (`evaluate_action_authority`, `_effective_chain`, `integrity.py`) | none: a function of a replayed prefix, an attempt, a binding and a time | resolve the covering delegation, compare version, credential, runtime and proposal, name the evidence required | an allow is backed up to the root; the decision names the policy that governed it |
| Projection (`projection.py`) | one truth row per action | evaluates every action on its own prefix and on the audit's prefix | what differs between the two is explained by what happened in between |
| Traces, metrics, baselines (`trace_validation.py`, `evaluation.py`, `baselines.py`) | a document, the report on it, its score | validate without the truth; parse and score with it | what the validator accepts is scored as the row it was taken for |
| Credential service (`CredentialHandler`) | the table `records` in memory, a lock, one secret file per handle, the clock | `/issue`, `/introspect`, `/revoke`, `load_records` at start | files and table agree; acknowledged issues survive a restart; acknowledged revocations deny |
| Gateways, policy, audit, target, baseline | audit records and effects in memory; the request in progress | `/access` through four calls with a timeout each | an effect was checked and audited; a refusal has no effect, ever; an access is answered |
| Revocation scenario (`_revoke_scenario`, `_run_l06`) | the client's progress, its epoch, acknowledgements, attempts | issue, send, revoke, poll, wait, attempt | an acknowledgement at a gateway holds for every credential of the group afterwards |
| Contextual access: packages | revisions of facts, delivery attempts, compiled cases | validate, replay, present, decide | what was presented is a beginning of the history; a stale decision has a cause |
| Contextual access: external runs | the plan, staged observations, the report | declare, stage, score | findings and metrics of a control do not contradict each other |
| Authority governance | the log of changes; authorities of a tick | record, validate, replay, look up the controlling decision, score | the decision looked up is the last before the enactment, and is judged by the rules of its own time |
| Continuous assurance | signals, remediations, outage windows, checkpoints | validate, replay, generate, checkpoint, score | an outage hides and never rewrites; no checkpoint knows the future |
| Enterprise roles, attributes, relations, composition | none between compilations: facts in, truth out, in phases | enumerate chains, activate sessions, evaluate rules, combine | the chains are what the relations reach; more knowledge never turns a known outcome |
| Enterprise agentic overlay | a log of attempts, revocations, lost evidence; the truths | order, replay, decide, label, audit | a revocation cuts off what follows; labels and decisions agree |
| Agent authority contract (`scoring.py`, `scoring_v2.py`, `models.py`) | none | check the references of a plan, of observations and of the truth; score L01 to L06 | findings and rates of a control tell the same story |
| Assurance receipts (`agent_authority.py`, `receipt_v2.py`) | the files of a directory; the arguments of the running call | preflight, stage, run, normalise, load the truth, score, seal, validate | what validates had its observations fixed before the truth was loaded; a sealed receipt validates |
| C08 v2; explorer; profiles; CLI; examples; generators; ambiguity, connection, exposure, extraction, risk, search, broker tasks | none that a sequence of operations changes | construction, statistics, rendering, I/O | not modelled: see section 7 |

How they interact. The agentic parts call one another as functions: the projection
replays a prefix of the log, hands the state to the oracle, and stores the answers; the
trace evaluator reads its rows. The enterprise overlay reads the access state that the
composition of roles, attributes and relations compiled. Contextual access, governance
and assurance share the clock of integer ticks and the shape "log, validation, replay to
a tick, truth, score", and no state. The lab's parts talk over HTTP: the client calls a
gateway; the gateway reads a secret file from a volume it shares with the credential
service, asks that service, then policy, then audit, and last the target. All containers
share the host's monotonic clock. The lab stops and starts the credential, policy and
audit containers (its stimulus L05) and revokes a group of credentials under load (L06).

What is hard to test: in the logs, *orders of legal events* (a grant under a revoked
parent, a smaller id granted later, a second decision after the first was acted on, two
enactments that write one authority, several things on one tick) and facts about *whole
chains* that the code checks or enumerates one link at a time; in the feeds, *deliveries*
that are late, repeated or out of order; in scoring, *two computations of one thing*
that must not disagree; in the lab, *interleavings* of handler threads around a lock
that does not cover the clock or the file reads, *stops* between any two steps, *lost
answers* of calls whose handler runs on, and *revocations* that become visible at
different times. `PROJECT.json` lists each hazard at its line with the properties that
watch it.

## 2. Modules

### Agentic core

* `AgenticWorld` — one action per event type, its guard the validator of that event,
  its effect the branch of `_apply_event`. The snapshot is the constants; payloads
  are drawn from constant sets that also hold payloads the validators refuse. A
  rejected event raises in the code and the log is not replayed, so it has no step.
  Delegation ids are numbers because the code breaks ties by id order. An owner
  chain is the least set closed under ownership, which is what walking
  `owner_principal_id` computes and needs no recursion. The timestamp of an event,
  strictly increasing in the code, also stands for its identity.
* `AuthorityLedger` — the abstraction: a forest of grants in force; a grant enters
  under a grant in force, at most as wide; a withdrawal removes a whole branch; an
  identifier never comes back.
* `AgenticWorldRefinement` — the mapping: in force = granted and not revoked.
* `AgenticBenchmark` — extends `AgenticWorld` with the oracle as operators over a
  state (`Capable`, `Selected`, `Chain`, `Failures`, `RequiredEvidence`, ...) and
  with the projection: `DecideAction` is an action event whose row remembers the
  prefix it was decided on, `AuditActions` is the audit event that re-decides every
  row. Where the code raises (capable grants that disagree on the version) the
  projection stops, so the guards of the two actions exclude it.
* `AgenticTrace` — a document of lines, the report of the validator, which does not
  know the truth, and the result of the evaluator, which parses the same lines by other
  code. A line is what either of them tells apart (blank, text, other JSON, a row with or
  without a known id), and a row has one field of each treatment: decisions, chain and
  evidence, which are scored, and a resource, which nothing reads.
* `AgenticProofs` — the theorems about the world, its refinement, the oracle and traces.

### Reference lab

* `CredentialService` — handler threads with their locals as records: the record is
  built and the epoch is read *before* the lock, the table is changed *under* it,
  the answer is computed *outside* it with a later reading of the clock. The file of
  a handle is truncated, then written, under the lock that gateways do not take.
  A token is named after the call of `/issue` that drew it, since it is random and
  fresh. A stop loses memory and threads and leaves the files, whole or torn; a
  start loads them or fails on a torn one. Fields named `owed` and `after` are
  history that the properties need and no guard reads.
* `CredentialRegistry` — the abstraction: what a caller may count on, with no threads,
  lock, files or table. Entering a credential in place of the one before, revoking a
  group and looking one up are one step each; a stop forgets the marks and may lose the
  entry that was being made, and then the registry stays broken.
* `CredentialServiceRefinement` — the mapping: held = the table, with the record of the
  thread that has the lock; without a process, the whole files. Broken = a file is torn.
* `ReferenceLab` — extends it with the gateway's pipeline. Each call to another
  service is two things: the caller's wait, which an answer or a loss ends, and the
  handler's own step, which may come after the caller has given up.
* `RevocationScenario` — extends that with the client of L06 and with what its runner
  makes of the readings. A poller uses its access again and again; no container stops.
* `RevocationTiming` — what the contract makes of the times of an observation of L06. The
  scenario is compared with it, and the scoring below uses it.
* `ReferenceLabProofs` — theorems about the service and the lab, and that `LabSpec`
  implements the specification of the service, so what is proved of the service holds in
  the lab. `RevocationScenarioProofs` — those about the scenario, which build on them.

The content of messages is cut down to what decides something: handle, group, sender,
audience, actions, lifetime and point. Digests, wording, HTTP status and logging are
left out.

### Agent-authority receipts

* `AuthorityScoring` — plans, observations and truths of stimuli for L01 to L06, the
  references each of them must resolve, the finding of a stimulus, and the rates of a
  control, which the code adds up beside the findings and not from them.
* `AuthorityReceipt` — extends it with the directory of a receipt: `files`, each created
  and never overwritten, a program counter that names the file a call is about to write,
  and the arguments of the call, which is all a call remembers. A call can stop at any
  point, in the middle of a write too (`torn`), and be made again with other metadata and
  another normaliser; the product may go on writing its output. A digest stands for the
  file. `truth_loads`, `scored` and `quiet` are history that no guard reads.
* `AuthorityReceiptProofs` — the theorems about both.

### Contextual access

* `ContextualAccess` — a package is drawn up (initial facts, revisions in canonical
  order, the ticks of each revision's delivery attempts), projected, which validates it,
  and compiled request by request. A replay is a fold over some of the events; the model
  names it by the set of their positions, which decides both whether the fold raises and
  where it ends. `Decision` is the evaluator of policies: open-world and closed-world
  facts, scopes, `all` and `any`, deny before allow.
* `ContextualProtocol` — an external run: probes of six controls are declared,
  observations are staged, and each probe gets a finding while, by other code, it counts
  in the metrics of its control. A plan's probes have ids of their own, as its validation
  requires.
* `ContextualAccessProofs` — the theorems about packages and external runs.

### Authority governance

* `AuthorityGovernance` — the history of several changes: requests, one or more
  decisions, enactments and audits at ticks, recorded in any order and validated as a
  whole; `AuthoritiesAt` and `ControllingDecision` are what the replay and the lookup
  compute.
* `GovernanceCases`, `GovernanceReference` — the twelve changes of the reference package
  as rows of data, the log they give, its replay tick by tick, the truth of each change,
  and the scoring of a perfect prediction and the three baselines. The log is state of its
  own; an instance of `AuthorityGovernance`, with the package's changes, policies and
  mandates for its constants, validates it and looks things up in it.
* `AuthorityGovernanceProofs` — the theorems about both.

### Continuous assurance

* `ContinuousAssurance` — packages put together part by part (signals, remediations,
  outage windows, checkpoints), their validation, and the three baselines that answer a
  valid one. An event carries five ticks (action, decision, effective, observation,
  audit) that the properties tell apart.
* `AssuranceGeneration` — the generator of the eight templates, the truth of the findings
  they should raise, its replay, and the scoring of predictions. The package it makes is
  state of its own, to which an instance of `ContinuousAssurance` applies validation,
  replay and baselines. A lifecycle is a set of transitions in the order of their ticks,
  which the code sorts by; a clear and its submitted counterpart are paired by rank, the
  code's index; a sum of lengths or ticks is the number of pairs it counts, which tells the
  same numbers apart and can be reasoned about without recursion. `RowIsValid` is what the
  constructor of a submitted row admits.
* `ContinuousAssuranceProofs` — the theorems about both.

### Enterprise access

* `DirectoryRbac` — compilation in the phases of the code: validate, enumerate the
  chains of the actual relations (`kernel`) and of the intended ones, decide session
  activations, write a row per cell. Chains are enumerated within budgets, by a
  recursive function over their length; the definition they are compared with is
  reachability, as the least closed set.
* `EnterpriseAuthorization` — extends it with attribute rules and relation rules, each
  compiled for the actual and the intended layer, and their composition by the profile of
  the cell.
* `EnterpriseOverlay` — extends that with agents: a log ordered by tick and id, an
  attempt judged on the log before it by seven gates that narrow the enterprise decision,
  and the label of the case, which the code derives by a second walk over the gates.
* `EnterpriseAuthorizationProofs` — the theorems about all three.

### Model-checking modules

`MCAgenticWorld` holds the small snapshot the agentic runs share; every other `MC` module
instantiates one or two specifications. Four of them carry a variable `turn`, chosen
initially and never changed: such a run explores two specifications side by side that
share no state (`MCAgenticTrace`: the world, a trace, or a receipt of the studies of
`MCAuthorityStudies`; `MCContextualAccess`: a package,
or an external run; `MCAuthorityGovernance`: histories, or the reference package;
`MCContinuousAssurance`: packages, or the generated ones).

`PROJECT.json` maps every definition to the lines it stands for.

## 3. Runs

| Run | Question | Bounds |
|---|---|---|
| `world` | do revocation, attenuation and rooting survive every order of events, and is the world a forest of grants? is a trace scored as it was validated? do findings and rates agree, and is a receipt fixed before the truth? | two organisations, five principals, three agents in a line (chains of three links, so that a cascade and attenuation pass through a middle), nearly thirty grant payloads half of which must be refused, a credential, an action, evidence that is lost and cited again, six timestamps: enough for three grants, a runtime and two revocations. Traces: a benchmark of an allowed and a denied action, every document of up to three of 24 kinds of lines (a row, a repeated row and a bad one). Receipts: seven studies of one or two stimuli of a control that enumerate what can be observed, and an eventful one with two outputs and a failing product, two normalisers, a wrong truth, a wrong deployment and three mishaps, enough for a torn file, a stop after the truth was loaded, and a second finalisation |
| `oracle` | is an allow founded, is each change at audit explained, does reconstructable evidence name what governed? | overlapping roots, both policy versions, credentials and delegations that end during the run, proposals in and out of bounds, evidence discarded and cited again, eight timestamps, one action (rows do not affect each other) |
| `audit_order` | is the audit decision the later one? | **violation**, see section 6; five timestamps |
| `credential` | do issue, revoke, introspection, stop and start interleave safely, is the service a registry of single steps, and does every accepted call finish? | two issues (so that a re-issue replaces), two revokes (so that epochs are applied in the opposite order), one introspection, time 0..1 with delays 1 and 2 (so that a gateway sees a revocation that the other does not), any number of restarts |
| `lab` | is an effect checked, is a refusal without effect, is every access answered? | one access by any endpoint, one issue, one revoke, time 0..2, any number of stops of three services |
| `revocation` | does an acknowledgement hold, is the runner no laxer than the contract, does L06 end? | the lab's own two credentials, two gateways and four accesses (in flight, attempt, two pollers), one lost call; `Bound` 3 above the largest delay 2, time 0..4, and `MaxStart` 1 so that the service's epoch can be late against the client's |
| `context` | is the presented feed a beginning of the history, and staleness explained? do findings agree with metrics? | two facts (one closed-world, one open-world), three requests, ticks 0..2, two revisions, up to three delivery attempts (late, repeated, in the opposite order). Runs: plans of up to two probes of ten, one and more of each control, with all their observations |
| `context_gap` | does a valid package compile? | **violation**, see section 6 |
| `governance` | which decision controls, which enactment stands, is each verdict of its own time, do the baselines miss what they should? | two overlapping changes with up to two decisions each on three ticks; the reference package as it is, twelve changes on 125 ticks |
| `assurance` | do outages hide and nothing else, do checkpoints know the future, when do baselines fail, do reports agree? | one case with two events on three ticks (so that any two of the coordinates can coincide or swap), a window, two checkpoints; the smoke tier of the generator, one cycle of eight templates (the code's tiers repeat it, 200 ticks later) from two seeds and in two orders, replayed on every tick to the horizon, and eleven predictions: the truth's, three baselines, seven ways to be wrong |
| `assurance_single` | does validation end as it says? | **violation**, see section 6 |
| `access` | are chains reachability, do sessions widen, who owns an allow, is knowledge monotone, does silence hide precedence, do revocations cut off, do labels agree? | every kernel that differs from a base in at most two edges, times bindings and sessions of an account; variants of the intent; every subset of four attribute rules with every value of five facts; three relation rules over seven tuples (two direct ones never together); every subset of supplied mechanisms; logs of the overlay: every order of revocations, lost evidence and an audit around one attempt (up to seven events), and pairs of attempts |

One tick of the lab is 50 ms, the delay of `component-gateway-a`; the bound of the
contract is 300 ms and the scenario sleeps 20 ms more. What matters is the order of the
two delays and of the bound, not their ratio. No symmetry is used, since three of the runs check
liveness. `CHECK_DEADLOCK FALSE` is set everywhere because a log may end at any event and
a bounded number of calls comes to its end.

Type correctness is proved and not run. Each property has a mutant in `PROJECT.json`: an
edit of one mapped definition, as a plausible bug would make it, under which the same run
finds the property violated. The mutated forms stand beside the definitions they mutate.

### Fairness

* `FairSpec` of `CredentialService`: weak fairness of each handler thread. The
  operating system runs a thread that can run, and calls are finitely many, so a
  thread that waits for the lock gets it. No client, stop, start or loss is fair.
* `LabFairSpec`: weak fairness of each gateway handler, including its timeouts:
  `urlopen(..., timeout=3)` ends every wait. Other services owe nothing.
* `ScenarioFairSpec`: the client, pollers, handlers and the clock; losses are not
  fair and are at most `MaxLosses`, since a poller that lost every answer would poll
  for ever (the code then gives up after `join(timeout=3)` and raises).

## 4. Proofs

The theorems hold for every value of the constants that meets the named assumptions of
the modules; TLC evaluates those assumptions in the runs. What they establish:

| Module | Theorems | Inductive invariant |
|---|---|---|
| `AgenticProofs` | `TypeCorrect`, `RevocationReachesDescendants`, `AuthorityOnlyNarrows`, `ChainsStayRooted`, `WorldImplementsLedger`; `AllowsAreBacked`, `AllowedProposalsAreGrantable`, `FlipsAreExplained`, `ReconstructionsNameWhatGoverned`; `ValidTracesScore` | one link of a chain (`IInv`, `RInv`); what each row and the audit were decided on (`BInv`); what a reader said is still so (`TraceInv`) |
| `ReferenceLabProofs` | `CredentialTypeCorrect`, `FilesAgree`, `HandlesStayKnown`, `RevocationDenies`; `ServiceImplementsRegistry`, `LabImplementsRegistry`; `LabRunsTheService`, `EffectsAreCheckedAndAudited`, `RefusalsHaveNoEffect`, `EffectsStayAccountable` | what the holder of the lock is doing (`IInv`); a revocation from the table to the answer (`RInv`); whose file a truncation tears, what a record shares with its issue (`RegistryInv`); an access, its calls and their late replies (`LabInv`) |
| `RevocationScenarioProofs` | `ScenarioInvariance`, `AcknowledgedPointsAreClosed`, `RunnerIsNoLaxer` | what service, pollers, handlers and client hold of the one revocation (`ScenarioInv`) |
| `ContextualAccessProofs` | `PackagesAreSound`, `PresentationIsAPrefix`, `PresentationStaysSound`, `StalenessIsExplained`, `OnlyGapsRaise`; `RunInvariance`, `FindingsMatchMetrics` | canonical order, and what each compiled case was decided on (`IInv`); from which observations a report was made (`RunInv`) |
| `AuthorityGovernanceProofs` | `HistoriesAreSound`, `ControlIsOfTheLastDecision`, `TheLastEnactmentWins`; `ReferenceIsAccepted`, `VerdictsStayOfTheirTime`, `BaselinesStayDiscriminated` | a public history has valid cases (`IInv`); the package is the log of its rows and never rejected (`ReferenceInv`) |
| `ContinuousAssuranceProofs` | `CasesAreSound`, `OutagesHideAndRewriteNothing`, `NoCheckpointKnowsTheFuture`, `OnlyCoincidencesStayUnanswered`; `GeneratedPackageIsSound`, `FindingsFollowObservations`, `ReportsAlwaysAgree`, `TruthIsCoherent`, `GeneratedPackageIsAccepted`, `TruthIsScoredRight` | a public package has valid cases, and events the shape their constructors give them (`IInv`); a generated package is what its base ticks determine (`PackageInv`) |
| `EnterpriseAuthorizationProofs` | `DirectoryIsDetermined`, `EffectiveMeansReachable`, `NoSessionWidens`, `FinalAllowsAreTheOwners`, `DirectoryRunsUnderTheOverlay`; `CompiledStateIsDetermined`, `KnownOutcomesStayKnown`, `SilenceMeansNoPrecedence`; `TruthsAreOfTheLog`, `RevocationCutsOffWhatFollows`, `LabelsAgreeWithDecisions`, `AttributionIsUnique` | what is compiled is what the inputs determine (`RbacInv`, `IInv`); what is decided is what the log before it determines (`OverlayInv`) |
| `AuthorityReceiptProofs` | `ReceiptInvariance`, `ReceiptsAreFixed`, `RatesFollow` | which files agree with the arguments of the running call, and over what the truth was loaded (`ReceiptInv`); the report on file is that of the files beside it (`ReportHolds`) |

No induction theorem of the library can be used, so where an argument is one over numbers
or places it takes a *least counterexample* instead: a nonempty set of naturals has a least
element (`LeastNumber`, from the well-foundedness of `<`), and at the least place where a
statement fails it holds one place earlier. This is how folds, sums and paths are reasoned
about below, and why the modules that are proved about write recursion as folds and
recursive functions.

**The fold of the world** (`AgenticProofs`). The properties speak of chains of any length,
the code and the inductive invariant of one link: `IInv` says that a child's parent is
granted, that the child is attenuated against it, and that the child is revoked if the
parent is. `Ancestors` is defined as the least set closed under "parent of" (which is what
the code's walk computes), so it is enough to exhibit, for each property, the set of ids
that have it and to show that the set is closed. The refinement to `AuthorityLedger`
follows from the same invariant.

**The oracle.** A row keeps the prefix it was decided on, so `BInv` says of that prefix
what `RInv` says of the present: chains hold, what is granted was valid when it was
admitted, the evaluation does not raise. `Grew` relates two prefixes of one log. The
covering delegation is a choice of the smallest capable id; that there is one is
`LeastNumber`. `AllowsAreBacked` then goes from that delegation to its root by the chains
of the prefix. `FlipsAreExplained` compares the evaluations of an action and of its audit
reason by reason: each ground on which they differ is a revocation or an expiry between
the two, or a smaller id that took over the covering of a proposal.

**Traces.** Neither reader changes the document and nothing is written once one has read it,
so `TraceInv` keeps what each said. The rest is about one document. `RowsAreSound` and
`SameEvents` say that a document without errors in lines and events is one of rows, one for
each action, and `RefusedIsBlamed` that the parser refuses all others; since every action
then has one row (`RowIsFound`), the validator's rejection of empty submissions is a
statement about the rows that are scored (`ValidSaysSomething`). The assumptions are that a
benchmark has an action and decides each, as its model requires.

**The credential service.** The properties speak of moments at which the lock is free;
`IInv` has to describe what one thread does while it holds it. `LockInv`: whoever has
truncated or written a file holds the lock of a running service, so there is at most one.
`FilesInv`: a whole file is the record of an issue that got that far, one per handle; an
acknowledged handle has a file, whole or torn. `TableInv`: table and files differ exactly by
the record that is about to be stored, and only the writer's file is torn. `RInv` follows a
revocation from the table to the answer: what a revoke is owed was acknowledged in this
process (`OwedInv`, so a record stored later is owed to nobody); marks in the table are
epochs of applied revokes, and every applied revoke left one on what it was owed
(`MarksInv`); an asker holds a copy of one record, taken after the revokes that count, and
answered against every mark (`AccessIsCurrent`).

**The registry.** An issue counts from the moment it takes the lock: the table is asked
under the lock only, so nobody sees it between the two, and `IssueWrite` and `IssueStore`
are stutters. The step that takes the lock has to drop exactly the old credential of the
handle (`ReplaceEnters`), though the code finds it by the token the file names: that is
`IInv` at a free lock. A revoke is one step of the whole group (`ApplyRevokes`), because no
issue is half made when it runs. The hard step is a stop (`StopCloses`): the files hold what
the table held without its marks, or everything but the one entry whose file was torn.
`RegistryInv` adds what the mapping shows and the other invariants do not speak of.
`AcknowledgedHandlesStayKnown`, which the registry implies for the run, is a theorem of
its own (`HandlesStayKnown`).

**The lab.** `LabInv` says of each access what holds at the place its handler waits at
(`PlaceOK`), what had to happen before the target was called (`CallOK`), and what a refusal
leaves behind (`ReplyOK`): no call of the target, unless the target itself was the call that
failed, whose handler runs on after the gateway gave up. Every step of the lab is a step of
the credential service or leaves its variables alone, which carries that module's theorems
over. `EffectsStayAccountable` is what the run checks, put together from the two.

**The scenario.** Only the client issues and nothing stops, so the table holds its two
records and one revoke marks both with one epoch. `QuestionInv` says of a poller that
asked with the parent what its answer proves: a denial was given when the revocation was
visible at that gateway (`Closed`), and visibility does not end. So every later question
about either credential is denied. `RunnerIsNoLaxer` adds the clock: acknowledgements were
read before the client went on, the attempts were sent after the bound, hence the contract's
verdict is a pass exactly if no acknowledgement was late. It holds for any delays, bound and
number of lost calls, under assumptions that say what the lab configures: distinct calls
and handles, four attempts, lifetimes and a clock that outlast the scenario.

**Contextual access.** The expected revision of an event is a count of the events of its
key before it, so a replay that does not raise has taken all of them
(`MaterializedHasAllEarlier`): facts about finite cardinalities turn a check of numbers, one
revision at a time, into one of prefixes. `StalenessIsExplained` compares two evaluations of
the same policies and finds a fact they read on which the two replays differ, hence a
displaced event.

**External runs.** `RunInv` says that at most one well-formed observation of each probe is
staged, that ids of probes are unique and that a scored report was made of observations that
match their probes. `WhatIsObserved` therefore gives, for each probe, nothing or one
observation of its control, and the finding and the metrics become functions of it:
`DeliveriesAgree`, `DecisionsAgree` (the first correct attempt is a least number) and
`OnlyTransitionsAreCensored` compare them control by control. That a latency is absent
exactly where nothing was waited for comes from the constructor of observations, and is what
makes the comparison with the bound defined.

**Governance and assurance.** Recording is free; the step that makes a log public checks it.
The invariant is that a public log has valid cases, and most properties follow from what
validity says of every pair of events, for any number of changes, cases and ticks. Two
follow from an order. `TheLastEnactmentWins`: the enactments of a public history have
distinct places in time, the replay goes through them in that order, and after each place
of the fold an authority is what the last enactment so far that concerns it made of it.
`OnlyCoincidencesStayUnanswered`: the rank of an event is the number of those before it,
which is a bijection where no two coincide, so the latest problem and its remediation are
unique and the baseline's row is coherent.

**The reference package.** Its rows are read once, in `RowsAreOK`: when each change was
decided, by which version, rule and approver, and how the verdict written beside it follows
from these. What the lookups find of a change is then shown from the shape of the log alone
(`EventsOfCase`, `ControlOfCase`): the events of one case, and the later of two conflicting
decisions. `VerdictsStayOfTheirTime` puts the two together and adds the evidence, which a
change has lost exactly if it lapsed before the audit. `BaselinesStayDiscriminated` names the
change each baseline fails on, the second, approved without a mandate and enacted, and the
first, decided under the version that was replaced.

**The generated benchmark.** `PackageInv` says that signals, remediations, windows, truth and
checkpoints are, through validation, replay and scoring, what the base ticks make of them,
for any number of cycles, any seed and any order that places each template. The replay can
then be followed case by case: `ObservationsOfCase` says that the problems and the clears of
a case are observed at exactly the ticks its truth lists, and `StateOfLifecycle` what the
state of a lifecycle is whose transitions come by turns; `FindingsFollowObservations` puts
them together. `ReportsAlwaysAgree` needs no case analysis of predictions: the counts are
cardinalities of sets of cases that part the positives, a total is largest exactly if each of
its terms is, and equal rows have equal states at every checkpoint. Three theorems say more
than a run could: no package of the generator is rejected by the public validator
(`GeneratedPackageIsAccepted`, where ids matter: a window names its signal by the id, which
no other case has), no truth by `coherent_truth` (`TruthIsCoherent`), and the submitted truth
is right in every finding (`TruthIsScoredRight`), which is no identity, since truth and
prediction are replayed by two functions that break ties differently.

**Enterprise access.** The compilation works in phases and each phase reads what an earlier
one wrote; the invariant says that what is written is what the inputs determine, so a
property of the finished state is one of the operators alone. For the directory these
operators enumerate chains within a budget, and the property speaks of reachability, the
least closed set. In an acyclic directory a path meets no node twice, so it is no longer
than there are nodes and the enumeration has it; conversely all nodes of a chain are in any
closed set that holds the first. Held roles are then closed under the hierarchy, which is
why a session that activates some of them widens nothing. The overlay adds that each truth
is the one of its log's prefix (`TruthsAreOfTheLog`): later events have larger ticks or
ids, so they are in no prefix that was read before.

**Receipts.** A file is created once, so the files bound what can have happened in all the
calls there were: while there are no observations the truth has not been loaded, and once
there are, no call gets past writing them to load it again (`TruthIsLate`). What a call has
checked it keeps in its arguments; `StagedHolds`, `BundleHolds` and `EvaluationHolds` say of
each point of the call which files agree with them, so all that `validate` compares has been
compared or derived before (`SealedIsReceipt`), provided the product kept to its output.
`RatesFollow` is about two computations of one thing. The rates are sums over stimuli of a
numerator and a denominator; `SumsFollowTerms` says that of two sums with pointwise smaller
terms the first is at most the second, and equal exactly if every term is. A lemma for each
control then says when its finding is blameless and that its term is ideal exactly then,
whatever was unobserved; the invariant carries the report to the files it was made from,
through stops and late output. It assumes `StudiesAreSound`: finite studies whose stimuli and
observations have the nonempty tuples the models require.

**Assumptions.** `SnapshotAssumption`, `PayloadAssumption`, `ReasonAssumption` (records of
the agentic snapshot and events, typed as pydantic types them, ownership without cycles,
`None` apart from the rest); `CallAssumption`, `TimeAssumption`, `ScenarioAssumption`,
`AskAssumption`, `AttemptAssumption` (the lab's calls); `ContextualAssumption`,
`GovernanceAssumption`, `AssuranceAssumption`, `NoneAssumption`; `GenerationAssumption` (at
least one cycle, seeds that are naturals, orders that have every template) and
`UnsetAssumption` and `ReferenceAssumption` (what stands for Python's `None` is no tick,
truth value or name); `CorpusAssumption` (finite
groups and roles, cells of known subjects), `EdgesAssumption` (an edge of a kind joins what
`EdgeEnds` says, as the edges' constructors do), `PolicyAssumption`, the overlay's
`SnapshotAssumption`; `StudiesAreSound`, which TLC evaluates as `StudyAssumption`; `LatencyAssumption` (latencies are
naturals or absent) and `TraceAssumption` (readable lines, a decided benchmark). Bounds
such as `MaxTick` are any numbers in the theorems.

Only model-checked is liveness (`CallsFinish`, `EveryAccessIsAnswered`, `ScenarioEnds`) under
the fairness above, which the proof system does not do. Every invariant and every action
property of a passing run is a theorem. The three properties that runs violate are refuted,
so there is nothing to prove of them.

## 5. Plan

1. Done: the agentic core with oracle, projection and traces; the lab with its theorems
   and the revocation scenario; contextual access; governance; assurance; the compilation
   of enterprise access and the agents over it.
2. Done: the scoring and the receipts of the agent authority contract; theorems for all
   safety properties of the runs; the world and the credential
   service shown to implement abstract specifications.
3. Worth proving next: that `RevocationScenario` implements an abstract revocation with
   one acknowledgement per gateway.
4. Worth modelling next: the identity metrics and the current-state baseline of traces; the
   metrics and baselines of the enterprise overlay; L07, L08 and the first version's times
   of the contract; the transition of C08 to its second format.

## 6. What the checks found

* `audit_order`: `build_agentic_benchmark` accepts actions after the audit event and
  evaluates their `decision_at_audit` on the earlier state and time of the audit, while
  `AGENTIC_BENCHMARK.md` calls it "the later historical evaluation". Every property
  about the change between action and audit is therefore stated for actions before it.
* An action that proposes a sub-delegation may be denied at audit although nothing was
  revoked and nothing expired: a grant with a smaller id becomes the covering one, and
  the proposal no longer hangs under it. `AuditFlipsAreExplained` names the exception.
* Evidence that was discarded is retained again when a later event cites it.
* In the credential service a revocation is kept in memory only and does not survive a
  restart; a second revoke of a group postpones the first at the gateways with a delay;
  a stop in the middle of an issue leaves a torn file on which every later start fails.
  No statement of the repository says otherwise, so these are hazards, not findings,
  and the properties are stated around them, each saying so.
* A gateway that gives up on the target answers `side_effect: False` and the effect may
  still land; `RefusalHasNoEffect` shows that this is the only such case.
* `context_gap`: a package whose feed presents a later revision of a fact before an
  earlier one passes `validate_contextual_access_public`, and the truth compiler raises on
  it. `RaisedIsAGap` shows that this is the only reason for which it raises.
* `assurance_single`: a package of one signal, without remediation and window, makes the
  validation call `max` with a single integer and end in a `TypeError`.
* In enterprise access the accepted request is judged by the *actual* roles of its subject
  while the intended cells use the intended ones; an allow beats an unknown deny; and a
  disagreement inside a mechanism is counted as a conflict of the cell also when the
  cell's profile does not use that mechanism. The properties are stated around this.
* In the overlay an attempt of a human context with an inactive account, the wrong subject
  or an invalid credential is denied and still labelled `valid_human_context`; an agent's
  expired credential is labelled `shared_credential_agent`; an expired delegation counts as
  a mismatch. `LabelsFollowDecisions` says what labels do promise.
* The evaluator of traces scores a submission whose every row is empty; the validator
  refuses it, as its documentation says. `ValidTracesAreScored` shows that this is the only
  difference between them.

## 7. Not modelled

* **Pure construction**: the seeded generators of worlds, surfaces and tasks, the generated
  tiers of the overlay, the enterprise corpus compiler and the identity fabric. They are
  single passes from a seed to data, with no step that another could precede or interrupt.
* **Bytes, digests and layout**: canonical serialisation, provenance and the lineages of
  receipts of the other tasks, C08 v2, the
  registry and capability tools, the explorer and profiles. Their properties are about
  strings, which a model would have to spell out character by character.
* **Floating-point statistics**: identity ambiguity, exposure, risk, search and broker
  metrics.
* **Input and output**: the command line, benchmark reproduction, examples and adapters.
* **Of the agent authority contract**: latency and compatibility (L07, L08), which are
  reported and never scored, schemas and migration, and the first version's times of L06.
* **Left out of modelled components**: identity metrics, the current-state baseline,
  quotients and failure slices of traces; scope checks of the registry, the shared-signals
  view and the reference pack of contextual access; requester, owner chain, control ids and
  rationale codes of governance, compared like the fields kept; source bindings of assurance
  to its four consumers; import and parsing of enterprise artifacts and the reference
  evaluators, which are a second implementation of the compilers; tags, metrics and baselines
  of the overlay; network isolation (L03, L04), canary scans (L01, L02) and the latency sample
  (L07) of the lab, which are properties of the container platform.

The map covers about a tenth of the repository's implementation lines. Most of the rest is of
the first four kinds: tens of thousands of lines of generators, schemas, tools and tests of
format that keep no state between calls.
