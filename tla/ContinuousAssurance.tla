------------------------ MODULE ContinuousAssurance ------------------------
(***************************************************************************)
(* Packages of the continuous-assurance contract: signals that something   *)
(* has drifted, remediations, windows in which a feed was down, and        *)
(* checkpoints that say what was known at a tick.  A package is built and  *)
(* validated, and the public baselines answer it.                          *)
(*                                                                         *)
(* A case is the signals and remediations that name it.                    *)
(***************************************************************************)
EXTENDS Integers, Sequences, FiniteSets, SequencesExt

CONSTANTS
  Cases, Families,
  ProblemStates, ClearStates,   \* what a signal or a remediation may show
  MaxTick,                      \* bound: the last tick
  MaxEvents,                    \* bound: signals and remediations of a package
  MaxCheckpoints,               \* bound: checkpoints of a package
  None

VARIABLES
  signals, remediations,   \* [id, case, dimension, family, state] and five ticks
  windows,                 \* [case, family, from, restored, delayed]
  checkpoints,             \* [tick, signals, remediations, evidence]
  stage,     \* "building", "public", "rejected" or "raised", and "answered" or "unanswered"
  answers    \* of the baseline that answered: a row for each case

package == <<signals, remediations, windows, checkpoints>>
vars == <<package, stage, answers>>

Ticks == 0..MaxTick
States == ProblemStates \cup ClearStates

ASSUME AssuranceAssumption ==
  /\ ProblemStates \cap ClearStates = {}
  /\ MaxTick \in Nat /\ MaxEvents \in Nat /\ MaxCheckpoints \in Nat

\* None is no tick, no state and not the dimension of an event.
ASSUME NoneAssumption == None \notin Nat /\ None \notin States /\ None # "drift"

Events == signals \cup remediations
SignalsOf(c) == {s \in signals : s.case = c}
EventsOf(c) == {e \in Events : e.case = c}

Ordered(e) ==
  e.action <= e.decision /\ e.decision <= e.effective /\ e.effective <= e.observation /\ e.observation <= e.audit

(***************************************************************************)
(* Replay: what is effective, and what is observed, at a tick.             *)
(***************************************************************************)
CanonicalAt(t) == {s \in signals : s.effective <= t}
ObservedAt(S, t) == {e \in S : e.observation <= t}

\* Mutant: evidence is there as soon as something takes effect.
EvidenceWhenEffective(t) == {e.id : e \in {f \in Events : f.effective <= t}}

\* The evidence of an event is available when the event was audited.
EvidenceAt(t) == {e.id : e \in {f \in Events : f.audit <= t}}

CheckpointAt(t) ==
  [tick |-> t, signals |-> {s.id : s \in ObservedAt(signals, t)},
   remediations |-> {r.id : r \in ObservedAt(remediations, t)}, evidence |-> EvidenceAt(t)]

(***************************************************************************)
(* validate_continuous_assurance_public.                                   *)
(***************************************************************************)
CasesAreWhole == \A e \in remediations \cup windows : SignalsOf(e.case) # {}

\* Mutant: a delayed signal may be observed while the feed is still down.
OpenEndedWindow(w, s) ==
  s.family = w.family /\ w.from <= s.effective /\ s.effective < w.restored

DelayedInWindow(w, s) ==
  s.family = w.family /\ w.from <= s.effective /\ s.effective < w.restored /\ w.restored <= s.observation

WindowsHold ==
  \A w \in windows, s \in signals : s.id \in w.delayed => DelayedInWindow(w, s)

\* The final checkpoint is at the horizon.
Horizon == CHOOSE t \in {p.tick : p \in checkpoints} : \A p \in checkpoints : p.tick <= t

HorizonHolds ==
  /\ \A e \in Events : e.audit <= Horizon
  /\ \A w \in windows : w.restored <= Horizon

CheckpointsHold == \A p \in checkpoints : p = CheckpointAt(p.tick)

\* The horizon is compared with max(*ticks), which is no maximum of a single tick.
OneTick == Cardinality(Events) + Cardinality(windows) = 1

Verdict ==
  IF ~(CasesAreWhole /\ WindowsHold) THEN "rejected"
  ELSE IF OneTick THEN "raised"
  ELSE IF HorizonHolds /\ CheckpointsHold THEN "public"
  ELSE "rejected"

(***************************************************************************)
(* The baselines.                                                          *)
(***************************************************************************)
Earlier(e, f) == e.observation < f.observation \/ (e.observation = f.observation /\ e.id < f.id)

\* sorted by observation, then by id: before an event are those earlier than it.
InOrder(S) == [i \in 1..Cardinality(S) |-> CHOOSE e \in S : Cardinality({f \in S : Earlier(f, e)}) = i - 1]

ProblemsOf(c) == InOrder({s \in SignalsOf(c) : s.state \in ProblemStates})

NoFinding == [dimension |-> None, opened |-> None, clears |-> {}, recurrences |-> <<>>,
              complete |-> None, continuous |-> None]

RemediationGuess(c) ==
  LET R == {r \in remediations : r.case = c} IN
  IF R = {} THEN None ELSE \A r \in R : r.state \in ClearStates

LatestRow(c) ==
  LET latest == CHOOSE e \in EventsOf(c) : \A f \in EventsOf(c) : e = f \/ Earlier(f, e) IN
  IF latest.state \in ClearStates THEN NoFinding
  ELSE [NoFinding EXCEPT !.dimension = latest.dimension, !.opened = latest.observation,
                         !.complete = RemediationGuess(c), !.continuous = (latest.state # "missing")]

\* Mutant: a finding is cleared when what clears it takes effect.
ClearsWhenEffective(c) == {e.effective : e \in {f \in EventsOf(c) : f.state \in ClearStates}}

ClearTicks(c) == {e.observation : e \in {f \in EventsOf(c) : f.state \in ClearStates}}

Time(mode, s) == IF mode = "effective" THEN s.effective ELSE s.observation

ObservedRow(mode, c) ==
  LET problems == ProblemsOf(c) IN
  IF problems = <<>> THEN NoFinding
  ELSE [dimension |-> problems[1].dimension, opened |-> Time(mode, problems[1]),
        clears |-> IF mode = "never_clear" THEN {} ELSE ClearTicks(c),
        recurrences |-> [i \in 1..Len(problems) - 1 |-> Time(mode, problems[i + 1])],
        complete |-> RemediationGuess(c),
        continuous |-> \A s \in SignalsOf(c) : s.state # "missing"]

Baselines == {"latest", "effective", "never_clear"}

BaselineRow(mode, c) == IF mode = "latest" THEN LatestRow(c) ELSE ObservedRow(mode, c)

\* coherent_finding and canonical_ticks: a row that is not coherent cannot be built.
CoherentRow(row) ==
  /\ \A i, j \in DOMAIN row.recurrences : i < j => row.recurrences[i] < row.recurrences[j]
  /\ IF row.opened = None
     THEN row.dimension = None /\ row.clears = {} /\ row.recurrences = <<>>
     ELSE /\ row.dimension # None
          /\ \A t \in row.clears : t > row.opened
          /\ \A t \in ToSet(row.recurrences) : t > row.opened /\ t \notin row.clears

(***************************************************************************)
(* Building a package.  Events come in the order of their ids.             *)
(***************************************************************************)
Init ==
  /\ signals = {} /\ remediations = {} /\ windows = {} /\ checkpoints = {}
  /\ stage = "building"
  /\ answers = None

Event(c, family, state, effective, observation, audit) ==
  [id |-> Cardinality(Events) + 1, case |-> c, dimension |-> "drift", family |-> family, state |-> state,
   action |-> 0, decision |-> 0, effective |-> effective, observation |-> observation, audit |-> audit]

AddSignal(e) ==
  /\ stage = "building" /\ windows = {} /\ checkpoints = {}
  /\ Cardinality(Events) < MaxEvents
  /\ Ordered(e)
  /\ signals' = signals \cup {e}
  /\ UNCHANGED <<remediations, windows, checkpoints, stage, answers>>

AddRemediation(e) ==
  /\ stage = "building" /\ windows = {} /\ checkpoints = {}
  /\ Cardinality(Events) < MaxEvents
  /\ Ordered(e)
  /\ remediations' = remediations \cup {e}
  /\ UNCHANGED <<signals, windows, checkpoints, stage, answers>>

\* Bound: one window, and none after the first checkpoint.
AddWindow(c, family, from, restored, delayed) ==
  /\ stage = "building" /\ windows = {} /\ checkpoints = {}
  /\ from < restored /\ delayed # {}
  /\ windows' = {[case |-> c, family |-> family, from |-> from, restored |-> restored, delayed |-> delayed]}
  /\ UNCHANGED <<signals, remediations, checkpoints, stage, answers>>

\* A checkpoint may say what was known at another tick.  Bound: the next tick, or for a
\* package with a wrong window none.
AddCheckpoint(t, content) ==
  /\ stage = "building" /\ signals # {}
  /\ Cardinality(checkpoints) < MaxCheckpoints
  /\ \A p \in checkpoints : p.tick < t
  /\ content = t \/ (content = t + 1 /\ WindowsHold)
  /\ checkpoints' = checkpoints \cup {[CheckpointAt(content) EXCEPT !.tick = t]}
  /\ UNCHANGED <<signals, remediations, windows, stage, answers>>

Validate ==
  /\ stage = "building" /\ signals # {} /\ checkpoints # {}
  /\ stage' = Verdict
  /\ UNCHANGED <<package, answers>>

PublicCases == {s.case : s \in signals}

Answer(mode) ==
  /\ stage = "public"
  /\ LET rows == [c \in PublicCases |-> BaselineRow(mode, c)] IN
     IF \A c \in PublicCases : CoherentRow(rows[c])
     THEN answers' = rows /\ stage' = "answered"
     ELSE UNCHANGED answers /\ stage' = "unanswered"
  /\ UNCHANGED package

Next ==
  \/ \E c \in Cases, family \in Families, state \in States, t1, t2, t3 \in Ticks :
       AddSignal(Event(c, family, state, t1, t2, t3))
  \/ \E c \in Cases, state \in States, t1, t2, t3 \in Ticks : AddRemediation(Event(c, None, state, t1, t2, t3))
  \/ \E c \in Cases, family \in Families, from, restored \in Ticks :
       \E delayed \in SUBSET {s.id : s \in signals} : AddWindow(c, family, from, restored, delayed)
  \/ \E t, content \in Ticks : AddCheckpoint(t, content)
  \/ Validate
  \/ \E mode \in Baselines : Answer(mode)

Spec == Init /\ [][Next]_vars

(***************************************************************************)
(* Properties.                                                             *)
(***************************************************************************)
Public == stage \in {"public", "answered", "unanswered"}

\* A feed that is down hides a signal and rewrites nothing: while it is down the drift is
\* in effect, and neither a checkpoint nor a replay of what was observed shows it.
OutageHidesAndRewritesNothing ==
  Public =>
    \A w \in windows, s \in signals :
      s.id \in w.delayed =>
        \A t \in s.effective..w.restored - 1 :
          /\ s \in CanonicalAt(t) /\ s \notin ObservedAt(signals, t)
          /\ \A p \in checkpoints : p.tick = t => s.id \notin p.signals

\* No checkpoint knows the future: the evidence it has is of events it observed, these are
\* in effect, and a later checkpoint knows all that an earlier one does.
CheckpointsKnowNoFuture ==
  Public =>
    \A p \in checkpoints :
      /\ p.evidence \subseteq p.signals \cup p.remediations
      /\ p.signals \subseteq {s.id : s \in CanonicalAt(p.tick)}
      /\ \A q \in checkpoints :
           p.tick < q.tick => p.signals \subseteq q.signals /\ p.evidence \subseteq q.evidence

\* Only a case that shows two problems, or a problem and what clears it, at one tick, or
\* an order of effects other than that of their observations, is beyond a baseline.
OnlyCoincidencesAreUnanswered ==
  stage = "unanswered" =>
    \E c \in PublicCases, e, f \in Events :
      /\ e # f /\ e.case = c /\ f.case = c /\ e \in signals /\ e.state \in ProblemStates
      /\ \/ f.state \in ClearStates /\ f.observation <= e.observation
         \/ f \in signals /\ f.state \in ProblemStates /\ f.observation >= e.observation /\ f.effective <= e.effective
         \/ f \in signals /\ f.state \in ProblemStates /\ f.observation = e.observation

\* The error class of the validator says that it is raised for artifacts that violate the
\* contract: validation accepts or rejects.
ValidationDecides == stage # "raised"
=============================================================================
