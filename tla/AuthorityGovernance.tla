------------------------ MODULE AuthorityGovernance ------------------------
(***************************************************************************)
(* The history of changes to governed authorities: a change is requested,  *)
(* decided once or more often, enacted and audited, at integer ticks, and  *)
(* the histories of several changes overlap.  A history is recorded, then  *)
(* validated as a whole; a valid one is replayed to the authorities of any *)
(* tick, and the decision that controls a change is looked up in it.       *)
(*                                                                         *)
(* Events are ordered by tick and then by id.  An id is a number.          *)
(***************************************************************************)
EXTENDS Integers, Sequences, FiniteSets, SequencesExt

CONSTANTS
  Changes,        \* the changes, drawn up in their order
  Requested,      \* what each one asks for: [type, affected]
  Authorities,
  AfterStates,    \* what an enactment may leave behind: authorities and what they say
  InitialState,   \* the authorities at the start
  Policies,       \* the versions: [id, from, until, rules]
  Mandates,       \* of the approvers: [id, approver, from, until, types, affected]
  Verdicts,       \* what a decision may be: [outcome, policy, rules, mandates]
  MaxTick,        \* bound: the last tick
  MaxDecisions,   \* bound: decisions of one change
  None

VARIABLES
  events,   \* the recorded events
  stage     \* "recording", "public" or "rejected"

vars == <<events, stage>>

Ticks == 0..MaxTick

ASSUME GovernanceAssumption ==
  /\ Changes \subseteq Nat
  /\ MaxTick \in Nat /\ MaxDecisions \in Nat
  /\ \A c \in Changes : Requested[c].affected \in Authorities

Before(e, f) == e.tick < f.tick \/ (e.tick = f.tick /\ e.id < f.id)

Of(c, type) == {e \in events : e.change = c /\ e.type = type}
Decisions(c) == Of(c, "decision")

(***************************************************************************)
(* _validate_case, and the references of validate_authority_governance_    *)
(* public.  A case lists its decisions in the order of their ids.          *)
(***************************************************************************)
\* Mutant: decisions have to follow the request only.
LooselyOrdered(c) ==
  /\ \A r \in Of(c, "request"), d \in Decisions(c) : Before(r, d)
  /\ \A n \in Of(c, "enactment"), a \in Of(c, "audit") : Before(n, a)
  /\ \A d, e \in Decisions(c) : d.id < e.id => Before(d, e)

PhasesAreOrdered(c) ==
  /\ \A r \in Of(c, "request"), d \in Decisions(c) : Before(r, d)
  /\ \A d \in Decisions(c), n \in Of(c, "enactment") : Before(d, n)
  /\ \A n \in Of(c, "enactment"), a \in Of(c, "audit") : Before(n, a)
  /\ \A d, e \in Decisions(c) : d.id < e.id => Before(d, e)

DecisionIsKnown(c) == \A n \in Of(c, "enactment") : n.decision \in {d.id : d \in Decisions(c)}

ReferencesAreKnown(c) ==
  \A d \in Decisions(c) :
    /\ \E p \in Policies : p.id = d.policy /\ d.rules \subseteq {r.id : r \in p.rules}
    /\ d.mandates \subseteq {m.id : m \in Mandates}

ValidCase(c) == PhasesAreOrdered(c) /\ DecisionIsKnown(c) /\ ReferencesAreKnown(c)

(***************************************************************************)
(* The lookups.                                                            *)
(***************************************************************************)
ControllingDecision(c) == CHOOSE d \in Decisions(c) : \A e \in Decisions(c) : e = d \/ Before(e, d)

\* Mutant: a version has no end, and stays in force under its successor.
ActiveForEver(item, t) == item.from <= t

\* active_governance_policies and active_approver_mandates: half-open intervals.
ActiveAt(item, t) == item.from <= t /\ (item.until = None \/ t < item.until)

ActivePolicies(t) == {p \in Policies : ActiveAt(p, t)}
ActiveMandates(t) == {m \in Mandates : ActiveAt(m, t)}

\* Mutant: an enactment overlays its state, without taking the old authority out.
OverlayOnly(state, n) ==
  [a \in Authorities |-> IF a \in DOMAIN n.after THEN n.after[a] ELSE state[a]]

\* One enactment: the affected authority goes, the state it left behind comes in.
Enact(state, n) ==
  [a \in Authorities |->
     IF a \in DOMAIN n.after THEN n.after[a]
     ELSE IF a = Requested[n.change].affected THEN None ELSE state[a]]

\* materialize_authority_state: the enactments of a tick and before, in order.
EnactmentsBy(t) == {e \in events : e.type = "enactment" /\ e.tick <= t}

InOrder(S) == [i \in 1..Cardinality(S) |-> CHOOSE e \in S : Cardinality({f \in S : Before(f, e)}) = i - 1]

AuthoritiesAt(t) == FoldLeft(Enact, InitialState, InOrder(EnactmentsBy(t)))

(***************************************************************************)
(* Recording.  Changes are recorded one after the other, whatever their    *)
(* ticks.  Bound: a case that is broken goes on at the last tick only.     *)
(***************************************************************************)
Init == events = {} /\ stage = "recording"

\* The ids of a change's events: those of its decisions in any order.
RequestId(c) == 10 * c + 1
DecisionIds(c) == {10 * c + k : k \in 2..1 + MaxDecisions}
EnactmentId(c) == 10 * c + 8
AuditId(c) == 10 * c + 9

Recording(c, t) ==
  /\ stage = "recording"
  /\ Of(c, "audit") = {}
  /\ \A b \in Changes : b < c => Of(b, "audit") # {}
  /\ t = MaxTick \/ \A b \in Changes : ValidCase(b)

Record(e) == events' = events \cup {e} /\ UNCHANGED stage

Request(c, t) ==
  /\ Recording(c, t)
  /\ Of(c, "request") = {}
  /\ Record([type |-> "request", change |-> c, tick |-> t, id |-> RequestId(c)])

Decide(c, t, id, verdict) ==
  /\ Recording(c, t)
  /\ Of(c, "request") # {} /\ Of(c, "enactment") = {}
  /\ id \notin {d.id : d \in Decisions(c)}
  /\ Cardinality(Decisions(c)) < MaxDecisions
  /\ Record([type |-> "decision", change |-> c, tick |-> t, id |-> id, outcome |-> verdict.outcome,
             policy |-> verdict.policy, rules |-> verdict.rules, mandates |-> verdict.mandates])

\* What is enacted need not be what was approved, nor by the decision that controls.
EnactChange(c, t, id, after) ==
  /\ Recording(c, t)
  /\ Decisions(c) # {} /\ Of(c, "enactment") = {}
  /\ Record([type |-> "enactment", change |-> c, tick |-> t, id |-> EnactmentId(c),
             decision |-> id, after |-> after])

Audit(c, t) ==
  /\ Recording(c, t)
  /\ Of(c, "enactment") # {}
  /\ Record([type |-> "audit", change |-> c, tick |-> t, id |-> AuditId(c)])

Recorded(c) == Of(c, "audit") # {}

\* A package of the changes recorded so far.
Validate ==
  /\ stage = "recording"
  /\ events # {}
  /\ \A c \in Changes : Recorded(c) \/ {e \in events : e.change = c} = {}
  /\ stage' = IF \A c \in Changes : ValidCase(c) THEN "public" ELSE "rejected"
  /\ UNCHANGED events

Next ==
  \/ \E c \in Changes, t \in Ticks : Request(c, t) \/ Audit(c, t)
  \/ \E c \in Changes, t \in Ticks, verdict \in Verdicts :
       \E id \in DecisionIds(c) : Decide(c, t, id, verdict)
  \/ \E c \in Changes, t \in Ticks, after \in AfterStates :
       \E id \in DecisionIds(c) : EnactChange(c, t, id, after)
  \/ Validate

Spec == Init /\ [][Next]_vars

(***************************************************************************)
(* Properties.                                                             *)
(***************************************************************************)
Public == stage = "public"

\* A decision that comes after the change was enacted never controls it, and none that
\* was taken before the enactment is passed over for an earlier one.
ControllingDecisionIsTheLastBefore ==
  Public =>
    \A c \in Changes : \A n \in Of(c, "enactment") :
      LET d == ControllingDecision(c) IN
      /\ Before(d, n)
      /\ ~\E e \in Decisions(c) : Before(d, e) /\ Before(e, n)

\* At any tick an authority is what the last enactment that concerns it made of it, be
\* it the change asked for this authority or one that carried a copy of it along.
Concerns(n, a) == a \in DOMAIN n.after \/ a = Requested[n.change].affected

LastEnactmentWins ==
  Public =>
    \A t \in Ticks, a \in Authorities :
      LET concerned == {n \in EnactmentsBy(t) : Concerns(n, a)} IN
      IF concerned = {} THEN AuthoritiesAt(t)[a] = InitialState[a]
      ELSE \E n \in concerned :
             /\ \A m \in concerned : m = n \/ Before(m, n)
             /\ AuthoritiesAt(t)[a] = IF a \in DOMAIN n.after THEN n.after[a] ELSE None
=============================================================================
