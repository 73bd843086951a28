-------------------------- MODULE RevocationScenario --------------------------
(***************************************************************************)
(* The revocation scenario of the reference lab (_revoke_scenario of       *)
(* service.py, started by _run_l06 of run.py): a client issues a parent    *)
(* and a child credential of one group, sends a request that is still in   *)
(* flight when it revokes the group, polls both gateways with the parent   *)
(* until each denies, waits for the declared bound, and then tries both    *)
(* credentials at both gateways.  No container stops meanwhile.            *)
(***************************************************************************)
EXTENDS ReferenceLab, Sequences, Functions

Timing == INSTANCE RevocationTiming

CONSTANTS
    ParentIssue, ChildIssue, ParentBody, ChildBody,
    GroupRevoke, ScenarioGroup,
    Flight, Attempt,  \* the accesses of the request in flight, and of the attempts
    Poller,           \* [Point -> Access]: the access a poller uses again and again
    Ask,              \* [Handle \X Point -> Question]: what the client asks with a handle
    FlightPoint,      \* the gateway of the request in flight
    AttemptOrder,     \* the attempts after the bound, a sequence of <<handle, point>>
    Bound,            \* REVOCATION_BOUND_MS, in ticks
    MaxStart,         \* bound of the clock until the revoke is called
    MaxLosses         \* bound of the calls that time out

ASSUME ScenarioAssumption ==
    /\ {ParentIssue, ChildIssue} \subseteq IssueCall /\ ParentIssue # ChildIssue
    /\ {ParentBody, ChildBody} \subseteq IssueBody /\ ParentBody.handle # ChildBody.handle
    /\ GroupRevoke \in RevokeCall
    /\ ScenarioGroup \in Group /\ ParentBody.group = ScenarioGroup /\ ChildBody.group = ScenarioGroup
    /\ Flight \in Access /\ Attempt \in Access \ {Flight} /\ FlightPoint \in Point
    /\ Poller \in [Point -> Access \ {Flight, Attempt}]
    /\ \A p, q \in Point : Poller[p] = Poller[q] => p = q
    /\ \A p \in Point : MaxStart + Delay[p] <= MaxTime
    /\ Bound \in Nat /\ MaxStart + Bound <= MaxTime
    /\ MaxTime < ParentBody.lifetime /\ MaxTime < ChildBody.lifetime

\* The client asks for what both credentials were issued for.
ASSUME AskAssumption ==
    \A b \in {ParentBody, ChildBody}, p \in Point :
      LET q == Ask[<<b.handle, p>>]
      IN  /\ q \in Question /\ q.handle = b.handle /\ q.point = p
          /\ b.sender \in {AnySender, q.sender} /\ b.audience = q.audience /\ q.action \in b.actions

\* Four attempts: each credential once at each gateway.
ASSUME AttemptAssumption ==
    /\ AttemptOrder \in Seq({ParentBody.handle, ChildBody.handle} \X Point)
    /\ Len(AttemptOrder) = 4 /\ IsInjective(AttemptOrder)
    /\ Range(AttemptOrder) = {ParentBody.handle, ChildBody.handle} \X Point

VARIABLES
    step,      \* where the client is
    epoch,     \* its own reading of the clock, before it calls /revoke
    acked,     \* the gateways whose poller has seen a denial
    late,      \* those of them that it saw only after the bound
    attempts,  \* the replies to the attempts after the bound
    losses

scenarioVars == <<step, epoch, acked, late, attempts, losses>>
everything == <<allVars, scenarioVars>>

ScenarioInit ==
    /\ LabInit
    /\ step = "start" /\ epoch = 0 /\ acked = {} /\ late = {} /\ attempts = <<>> /\ losses = 0

Goto(s) == step' = s /\ UNCHANGED <<epoch, acked, late, attempts, losses>>

------------------------------------------------------------------------------
(* The client *)

IssueParent ==
    /\ step = "start"
    /\ IssueBegin(ParentIssue, ParentBody) /\ UNCHANGED labVars
    /\ Goto("parent issued")

IssueChild ==
    /\ step = "parent issued" /\ issue[ParentIssue].pc = "done"
    /\ IssueBegin(ChildIssue, ChildBody) /\ UNCHANGED labVars
    /\ Goto("child issued")

SendFlight ==
    /\ step = "child issued" /\ issue[ChildIssue].pc = "done"
    /\ GatewayBegin(Flight, Ask[<<ParentBody.handle, FlightPoint>>])
    /\ Goto("in flight")

\* The target's pending file shows that the request has passed the gateway.
TakeEpoch ==
    /\ step = "in flight" /\ targetCall[Flight] = "pending"
    /\ step' = "epoch taken" /\ epoch' = now
    /\ UNCHANGED <<allVars, acked, late, attempts, losses>>

CallRevoke ==
    /\ step = "epoch taken"
    /\ RevokeBegin(GroupRevoke, ScenarioGroup) /\ UNCHANGED labVars
    /\ Goto("revoking")

Polling(p) ==
    /\ step = "revoking" /\ revoke[GroupRevoke].pc = "done"
    /\ p \notin acked

PollBegin(p) ==
    /\ Polling(p)
    /\ GatewayBegin(Poller[p], Ask[<<ParentBody.handle, p>>])
    /\ UNCHANGED scenarioVars

\* The thread is free for its next request (an effect still on its way is waited
\* for, since the request that causes it has the thread's place in the model).
Release(a) ==
    /\ targetCall[a] \in {"none", "applied"} /\ auditCall[a] # "sent"
    /\ access' = [access EXCEPT ![a] = IdleAccess]
    /\ gate' = [gate EXCEPT ![a] = "idle"]
    /\ auditCall' = [auditCall EXCEPT ![a] = "none"]
    /\ targetCall' = [targetCall EXCEPT ![a] = "none"]
    /\ reply' = [reply EXCEPT ![a] = NoReply]
    /\ UNCHANGED <<now, service, volume, issue, revoke, containers, stores>>

\* A mutant of Denies: any answer but an allow ends the poll.
NotAllowed(a) == reply[a].decision # "allow"
Denies(a) == reply[a].decision = "deny"

PollAgain(p) ==
    /\ Polling(p) /\ gate[Poller[p]] = "answered" /\ ~Denies(Poller[p])
    /\ Release(Poller[p])
    /\ UNCHANGED scenarioVars

PollAcknowledged(p) ==
    /\ Polling(p) /\ gate[Poller[p]] = "answered" /\ Denies(Poller[p])
    /\ acked' = acked \cup {p}
    /\ late' = IF now > epoch + Bound THEN late \cup {p} ELSE late
    /\ UNCHANGED <<allVars, step, epoch, attempts, losses>>

SleepToBound ==
    /\ step = "revoking" /\ acked = Point
    /\ now >= epoch + Bound
    /\ Goto("attempting")
    /\ UNCHANGED allVars

AttemptBegin ==
    /\ step = "attempting" /\ Len(attempts) < Len(AttemptOrder)
    /\ GatewayBegin(Attempt, Ask[AttemptOrder[Len(attempts) + 1]])
    /\ UNCHANGED scenarioVars

AttemptEnd ==
    /\ step = "attempting" /\ gate[Attempt] = "answered"
    /\ attempts' = Append(attempts, reply[Attempt])
    /\ Release(Attempt)
    /\ UNCHANGED <<step, epoch, acked, late, losses>>

JoinFlight ==
    /\ step = "attempting" /\ Len(attempts) = Len(AttemptOrder)
    /\ gate[Flight] = "answered"
    /\ Goto("done")
    /\ UNCHANGED allVars

Client ==
    \/ IssueParent \/ IssueChild \/ SendFlight \/ TakeEpoch \/ CallRevoke
    \/ SleepToBound \/ AttemptBegin \/ AttemptEnd \/ JoinFlight

PollerStep(p) == PollBegin(p) \/ PollAgain(p) \/ PollAcknowledged(p)

------------------------------------------------------------------------------
(* The services, the calls that are lost, and the clock *)

Serve ==
    /\ \/ (\E i \in IssueCall : ServeIssue(i)) /\ UNCHANGED labVars
       \/ (\E r \in RevokeCall : RevokeApply(r)) /\ UNCHANGED labVars
    /\ UNCHANGED scenarioVars

HandlerStep(a) ==
    /\ \/ ServeAccess(a) /\ UNCHANGED labVars
       \/ AfterIntrospection(a) \/ PolicyAnswers(a) \/ AuditAnswers(a) \/ TargetAnswers(a)
    /\ UNCHANGED scenarioVars

StoreStep(a) ==
    /\ AuditRecord(a) \/ TargetPending(a) \/ TargetApply(a)
    /\ UNCHANGED scenarioVars

\* The request in flight is not lost before its pending file shows: the client
\* would raise and the scenario would not run.
Lose(a) ==
    /\ losses < MaxLosses
    /\ \/ a # Flight /\ AskLost(a) /\ UNCHANGED labVars
       \/ a # Flight /\ (PolicyLost(a) \/ AuditLost(a))
       \/ (a = Flight => targetCall[a] # "sent") /\ TargetLost(a)
    /\ losses' = losses + 1
    /\ UNCHANGED <<step, epoch, acked, late, attempts>>

RevokeIsCalled == revoke[GroupRevoke].pc # "idle"

Passes ==
    /\ RevokeIsCalled \/ now < MaxStart
    /\ Tick
    /\ UNCHANGED <<labVars, scenarioVars>>

\* The target sleeps for 600 ms, longer than the client takes to see the file.
FlightIsSeen == targetCall[Flight] = "pending" => RevokeIsCalled

ScenarioNext ==
    \/ Client
    \/ \E p \in Point : PollerStep(p)
    \/ Serve
    \/ \E a \in Access : HandlerStep(a) \/ Lose(a)
                         \/ (StoreStep(a) /\ (a = Flight => FlightIsSeen))
    \/ Passes

ScenarioSpec == ScenarioInit /\ [][ScenarioNext]_everything

\* Client, pollers, handlers and clock go on; which calls are lost is left open,
\* but they are finitely many.
ScenarioFairSpec ==
    /\ ScenarioSpec
    /\ WF_everything(Client) /\ WF_everything(Serve) /\ WF_everything(Passes)
    /\ \A p \in Point : WF_everything(PollerStep(p))
    /\ \A a \in Access : /\ WF_everything(HandlerStep(a))
                         /\ WF_everything(StoreStep(a) /\ (a = Flight => FlightIsSeen))

------------------------------------------------------------------------------
(* What the client reports, and what the runner makes of it (_run_l06).  Of an
   offset it matters on which side of the bound, or of the epoch, it is. *)

\* The client sleeps for 20 ms longer than the bound; NoMargin is a mutant of it.
NoMargin == 0
Margin == 1

Observed ==
    LET Told(h, p, sent, r) ==
          [handle |-> h, point |-> p, sent |-> sent, decision |-> r.decision,
           effect |-> IF r.sideEffect THEN "occurred" ELSE "not_observed"]
    IN [acks |-> [p \in acked |-> {IF p \in late THEN Bound + 1 ELSE Bound}],
        attempts |-> {Told(AttemptOrder[k][1], AttemptOrder[k][2], Bound + Margin, attempts[k])
                        : k \in 1..Len(attempts)}
                     \cup {Told(ParentBody.handle, FlightPoint, -1, reply[Flight])}]

\* It raises unless four attempts are after the bound and denied without an effect,
\* and no acknowledgement is late.
RunnerAccepts ==
    LET after == Timing!PostBound(Observed, Bound) IN
    /\ Cardinality(after) = 4
    /\ \A x \in after : x.decision = "deny" /\ x.effect = "not_observed"
    /\ late = {}

------------------------------------------------------------------------------
(* Properties *)

\* Once a gateway has denied a poll made with the parent credential, it denies
\* every credential of the group from then on: what the client has measured for
\* the parent holds for the child (service.py:580-597, 174-217).
AcknowledgedPointIsClosed ==
    \A p \in acked : \A x \in records :
        x.body.group = ScenarioGroup
        => ReasonFor(x, Ask[<<x.body.handle, p>>], now) = "revoked"

\* What the scenario measures is what the contract can score: it covers the bound,
\* the request in flight is not taken for one after the bound, whatever came of it,
\* and no attempt after the bound was allowed or is on its way to the target.  The
\* finding is then a pass exactly if both gateways acknowledged in time, also when
\* calls were lost, for which the runner may raise though the contract would not
\* (run.py:1216-1229, models_v2.py:257-296, scoring_v2.py:152-209).
TheRunnerIsNoLaxerThanTheContract ==
    step = "done" =>
        LET verdict == Timing!RevocationVerdict(Observed, Bound) IN
        /\ Timing!CoversTheBound(Observed, Point, {ParentBody.handle, ChildBody.handle}, Bound)
        /\ verdict = Timing!Pass <=> late = {}
        /\ RunnerAccepts => verdict = Timing!Pass
        /\ ~RunnerAccepts => late # {} \/ losses > 0
        /\ targetCall[Attempt] = "none"

\* The client finishes: the pollers see both gateways deny however their requests
\* interleave with the revocation and with each other.
ScenarioEnds == <>(step = "done")
==============================================================================
