----------------------- MODULE RevocationScenarioProofs -----------------------
(***************************************************************************)
(* The revocation scenario, for any delays, bounds and number of lost      *)
(* calls.  Nothing stops during it and only the client issues, so the      *)
(* table holds its two records and nothing else, and one revoke marks      *)
(* both: what a poller was denied with the parent, every later question    *)
(* about either credential is denied.                                      *)
(***************************************************************************)
EXTENDS RevocationScenario, ReferenceLabProofs, FiniteSetTheorems, FunctionTheorems

Issues == {ParentIssue, ChildIssue}
BodyOf(i) == IF i = ParentIssue THEN ParentBody ELSE ChildBody
FromRevoke == {"revoking", "attempting", "done"}

IsRevoked == revoke[GroupRevoke].pc = "done"
Epoch == revoke[GroupRevoke].epoch

\* The revocation is visible at a gateway.
Closed(p) == IsRevoked /\ now >= Epoch + Delay[p]

\* Only the client issues, the parent first; it revokes once, after both.
CallsInv ==
  /\ \A i \in IssueCall : issue[i].pc # "idle" =>
       i \in Issues /\ issue[i].body = BodyOf(i) /\ issue[i].expires >= BodyOf(i).lifetime
  /\ step = "start" => issue[ParentIssue].pc = "idle"
  /\ step \in {"start", "parent issued"} => issue[ChildIssue].pc = "idle"
  /\ step \notin {"start", "parent issued"} => issue[ParentIssue].pc = "done"
  /\ step \notin {"start", "parent issued", "child issued"} => issue[ChildIssue].pc = "done"
  /\ \A r \in RevokeCall : revoke[r].pc # "idle" =>
       r = GroupRevoke /\ revoke[r].group = ScenarioGroup /\ step \in FromRevoke

\* A record, or a copy of one, is of a finished issue, and its mark is that revoke's.
Known(x) ==
  /\ x.token \in Issues /\ issue[x.token].pc = "done"
  /\ x.body = BodyOf(x.token) /\ x.expires >= x.body.lifetime
  /\ x.revoked # {} => IsRevoked /\ x.revoked = {Epoch}

RecordsInv ==
  /\ \A f \in files : /\ f.token \in Issues /\ f.body = BodyOf(f.token)
                      /\ issue[f.token].pc \in {"written", "done"}
  /\ \A i \in Issues : issue[i].pc \in {"written", "done"} => \E f \in files : f.token = i
  /\ \A x \in records : Known(x) /\ (IsRevoked => x.revoked = {Epoch})
  /\ \A i \in Issues : issue[i].pc = "done" => \E x \in records : x.token = i

ServiceInv == TypeOK /\ up = "up" /\ now <= MaxTime /\ CallsInv /\ RecordsInv

Watched == {Poller[p] : p \in Point} \cup {Attempt}

\* A poller and the client's attempts ask about the token of the handle's only file;
\* they are denied for the revocation only, and an attempt always is.
QuestionInv(a) ==
  access[a].pc # "idle" =>
    /\ step \in FromRevoke
    /\ access[a].pc \in {"snapshot", "active"} => access[a].snapshot # {}
    /\ access[a].pc = "error" => losses > 0
    /\ a = Attempt => /\ step = "attempting" /\ access[a].pc # "active"
                      /\ \A x \in access[a].snapshot : x.revoked # {}
    /\ \E i \in Issues, p \in Point :
         /\ access[a].question = Ask[<<BodyOf(i).handle, p>>]
         /\ access[a].token = {i}
         /\ \A q \in Point : a = Poller[q] => q = p
         /\ \A x \in access[a].snapshot : Known(x) /\ x.token = i
         /\ access[a].pc = "denied" => Closed(p)

HandlerInv(a) ==
  /\ gate[a] = "idle" <=> access[a].pc = "idle"
  /\ gate[a] # "answered" => reply[a] = NoReply
  /\ gate[a] # "baseline"
  /\ gate[a] \in {"policy", "audit", "target"} => access[a].pc = "active"
  /\ reply[a].decision = "deny" => access[a].pc = "denied"
  /\ a = Attempt =>
       /\ targetCall[a] = "none"
       /\ gate[a] = "answered" => reply[a] = Deny \/ (reply[a] = FailedClosed("credential") /\ losses > 0)

ClientInv ==
  /\ acked \subseteq Point /\ late \subseteq acked /\ losses \in Nat
  /\ \A p \in acked : Closed(p)
  /\ step \in {"attempting", "done"} => acked = Point
  /\ attempts \in Seq({Deny, FailedClosed("credential")})
  /\ losses = 0 => \A k \in 1..Len(attempts) : attempts[k] = Deny
  /\ Len(attempts) <= 4
  /\ gate[Attempt] # "idle" => Len(attempts) < 4
  /\ step = "done" => Len(attempts) = 4

ScenarioInv ==
  /\ ServiceInv /\ LabFunctions /\ ClientInv
  /\ \A a \in Watched : QuestionInv(a) /\ HandlerInv(a)

------------------------------------------------------------------------------
(* Which steps touch what. *)

\* What the credential service keeps, the questions to it left out, and its clock.
serviceState == <<now, service, volume, issue, revoke>>

\* The steps that change it.
ServiceStep ==
  \/ IssueParent \/ IssueChild \/ CallRevoke
  \/ \E i \in IssueCall : ServeIssue(i) /\ UNCHANGED <<labVars, scenarioVars>>
  \/ \E r \in RevokeCall : RevokeApply(r) /\ UNCHANGED <<labVars, scenarioVars>>
  \/ Tick /\ UNCHANGED <<labVars, scenarioVars>>

\* The steps of one access, and what the client does with it.
BeginStep(a) == \E h \in {ParentBody.handle, ChildBody.handle}, p \in Point : GatewayBegin(a, Ask[<<h, p>>])
AnswerStep(a) ==
  \/ AfterIntrospection(a) \/ PolicyAnswers(a) \/ PolicyLost(a) \/ AuditAnswers(a) \/ AuditLost(a)
  \/ TargetAnswers(a) \/ TargetLost(a)
StoringStep(a) == AuditRecord(a) \/ TargetPending(a) \/ TargetApply(a)
AccessStepOf(a) ==
  \/ BeginStep(a) \/ Introspect(a) \/ AnswerStep(a) \/ StoringStep(a) \/ Release(a)

\* The steps that the client takes alone.
ClientStep == (TakeEpoch \/ SleepToBound \/ JoinFlight \/ \E p \in Point : PollAcknowledged(p))

LEMMA AttemptAsks ==
  ASSUME NEW n \in Nat, n < 4
  PROVE  AttemptOrder[n + 1] \in {ParentBody.handle, ChildBody.handle} \X Point
BY AttemptAssumption

LEMMA StepKinds ==
  ASSUME ScenarioNext, ClientInv
  PROVE  ServiceStep \/ ClientStep \/ \E a \in Access : AccessStepOf(a)
<1>1. CASE Client
  <2>1. SendFlight => BeginStep(Flight) /\ Flight \in Access
    BY ScenarioAssumption DEF SendFlight, BeginStep
  <2>2. AttemptBegin => BeginStep(Attempt) /\ Attempt \in Access
    <3>1. SUFFICES ASSUME AttemptBegin PROVE BeginStep(Attempt)
      BY ScenarioAssumption
    <3>2. AttemptOrder[Len(attempts) + 1] \in {ParentBody.handle, ChildBody.handle} \X Point
      BY <3>1, AttemptAsks, AttemptAssumption DEF AttemptBegin, ClientInv
    <3>3. QED
      BY <3>1, <3>2 DEF AttemptBegin, BeginStep
  <2>3. AttemptEnd => Release(Attempt) /\ Attempt \in Access
    BY ScenarioAssumption DEF AttemptEnd
  <2>4. QED
    BY <1>1, <2>1, <2>2, <2>3 DEF Client, ServiceStep, ClientStep, AccessStepOf
<1>2. CASE \E p \in Point : PollerStep(p)
  <2>1. PICK p \in Point : PollerStep(p)
    BY <1>2
  <2>2. Poller[p] \in Access
    BY ScenarioAssumption
  <2>3. QED
    BY <2>1, <2>2 DEF PollerStep, PollBegin, PollAgain, ClientStep, AccessStepOf, BeginStep
<1>3. CASE Serve
  BY <1>3 DEF Serve, ServiceStep
<1>4. CASE \E a \in Access : HandlerStep(a) \/ Lose(a) \/ StoreStep(a)
  BY <1>4 DEF HandlerStep, Lose, StoreStep, AccessStepOf, Introspect, AnswerStep, StoringStep
<1>5. CASE Passes
  BY <1>5 DEF Passes, ServiceStep
<1>6. QED
  BY <1>1, <1>2, <1>3, <1>4, <1>5 DEF ScenarioNext

\* A step of an access leaves the service and every other access alone.
LEMMA AccessStepIsLocal ==
  ASSUME TypeOK, LabFunctions, NEW b \in Access, AccessStepOf(b)
  PROVE  /\ UNCHANGED serviceState
         /\ LabFunctions' /\ TypeOK'
         /\ \A a \in Access \ {b} : /\ access'[a] = access[a] /\ gate'[a] = gate[a]
                                    /\ reply'[a] = reply[a] /\ targetCall'[a] = targetCall[a]
<1> USE DEF LabFunctions
<1>0. /\ NoReply \in Reply /\ Allow \in Reply /\ Deny \in Reply
      /\ \A d \in Dependency : FailedClosed(d) \in Reply
  BY DEF NoReply, Reply, Allow, Deny, FailedClosed, Dependency
<1>1. CASE BeginStep(b)
  <2>1. PICK q : GatewayBegin(b, q) /\ q \in Question
    BY <1>1, AskAssumption DEF BeginStep
  <2>2. TypeOK'
    BY <2>1, TypeStep DEF GatewayBegin, Next
  <2>3. QED
    BY <2>1, <2>2 DEF GatewayBegin, AskRead, Proceed, stores, calls, containers, serviceState, TypeOK
<1>2. CASE Introspect(b)
  <2>1. TypeOK'
    BY <1>2, TypeStep DEF Introspect, Next
  <2>2. UNCHANGED <<serviceState, labVars>>
    BY <1>2 DEF Introspect, ServeAccess, AskSnapshot, AskAnswer, AskLost, serviceState
  <2>3. \A a \in Access \ {b} : access'[a] = access[a]
    BY <1>2 DEF Introspect, ServeAccess, AskSnapshot, AskAnswer, AskLost, TypeOK
  <2>4. QED
    BY <2>1, <2>2, <2>3 DEF labVars, calls
<1>3. CASE AnswerStep(b)
  <2>1. UNCHANGED vars
    BY <1>3 DEF AnswerStep, AfterIntrospection, PolicyAnswers, PolicyLost, AuditAnswers, AuditLost,
                TargetAnswers, TargetLost
  <2>2. TypeOK'
    BY <2>1, TypeStep
  <2>3. LabFunctions'
    <3>1. CASE AfterIntrospection(b) \/ PolicyLost(b) \/ TargetAnswers(b) \/ TargetLost(b)
      BY <1>0, <3>1 DEF AfterIntrospection, PolicyLost, TargetAnswers, TargetLost, Answer, Proceed, calls, Dependency
    <3>2. CASE PolicyAnswers(b) \/ AuditAnswers(b) \/ AuditLost(b)
      BY <1>0, <3>2 DEF PolicyAnswers, AuditAnswers, AuditLost, Answer, Proceed, Dependency
    <3>3. QED
      BY <1>3, <3>1, <3>2 DEF AnswerStep
  <2>4. \A a \in Access \ {b} : gate'[a] = gate[a] /\ reply'[a] = reply[a] /\ targetCall'[a] = targetCall[a]
    BY <1>3 DEF AnswerStep, AfterIntrospection, PolicyAnswers, PolicyLost, AuditAnswers, AuditLost,
                TargetAnswers, TargetLost, Answer, Proceed, calls
  <2>5. QED
    BY <2>1, <2>2, <2>3, <2>4 DEF vars, threads, serviceState
<1>4. CASE StoringStep(b)
  <2>1. UNCHANGED <<vars, gate, reply>>
    BY <1>4 DEF StoringStep, AuditRecord, TargetPending, TargetApply
  <2>2. TypeOK'
    BY <2>1, TypeStep
  <2>3. QED
    BY <1>4, <2>1, <2>2 DEF StoringStep, AuditRecord, TargetPending, TargetApply, vars, threads, serviceState
<1>5. CASE Release(b)
  <2>1. UNCHANGED serviceState
    BY <1>5 DEF Release, serviceState
  <2>2. TypeOK'
    BY <1>5, <2>1, ThreadsStartIdle DEF Release, TypeOK, serviceState, service, volume
  <2>3. QED
    BY <1>0, <1>5, <2>1, <2>2 DEF Release, TypeOK
<1>6. QED
  BY <1>1, <1>2, <1>3, <1>4, <1>5 DEF AccessStepOf

------------------------------------------------------------------------------
(* The service under the client's calls. *)

LEMMA ClientMovesOn ==
  ASSUME ScenarioNext
  PROVE  /\ UNCHANGED step
            \/ (step = "start" /\ step' = "parent issued" /\ IssueParent)
            \/ (step = "parent issued" /\ step' = "child issued" /\ IssueChild)
            \/ (step = "child issued" /\ step' = "in flight" /\ issue[ChildIssue].pc = "done")
            \/ (step = "in flight" /\ step' = "epoch taken")
            \/ (step = "epoch taken" /\ step' = "revoking" /\ CallRevoke)
            \/ (step = "revoking" /\ step' = "attempting" /\ acked = Point)
            \/ (step = "attempting" /\ step' = "done" /\ JoinFlight)
         /\ losses' = losses \/ losses' = losses + 1
<1>1. CASE Client
  BY <1>1 DEF Client, IssueParent, IssueChild, SendFlight, TakeEpoch, CallRevoke, SleepToBound,
     AttemptBegin, AttemptEnd, JoinFlight, Goto, scenarioVars
<1>2. CASE ~ Client
  BY <1>2 DEF ScenarioNext, PollerStep, PollBegin, PollAgain, PollAcknowledged, Serve, HandlerStep,
     Lose, StoreStep, Passes, scenarioVars
<1>3. QED
  BY <1>1, <1>2

\* What an access or the client alone does leaves the service as it was.
LEMMA QuietKeepsService ==
  ASSUME ServiceInv, ScenarioNext, UNCHANGED serviceState, TypeOK',
         ~ IssueParent, ~ IssueChild, ~ CallRevoke
  PROVE  ServiceInv'
<1>1. CallsInv'
  BY ClientMovesOn DEF ServiceInv, CallsInv, serviceState, FromRevoke
<1>2. RecordsInv'
  BY DEF ServiceInv, RecordsInv, Known, IsRevoked, Epoch, serviceState, service, volume
<1>3. QED
  BY <1>1, <1>2 DEF ServiceInv, serviceState, service

LEMMA IssueCalled ==
  ASSUME ServiceInv, NEW i \in Issues, issue[i].pc = "idle", IssueBegin(i, BodyOf(i)),
         \A j \in Issues \ {i} : issue[j].pc = "idle" \/ issue[j].pc = "done"
  PROVE  /\ RecordsInv'
         /\ \A j \in IssueCall \ {i} : issue'[j] = issue[j]
         /\ issue'[i].pc = "called" /\ issue'[i].body = BodyOf(i) /\ issue'[i].expires >= BodyOf(i).lifetime
         /\ UNCHANGED <<now, up, revoke>>
<1>1. i \in IssueCall /\ BodyOf(i) \in IssueBody /\ BodyOf(i).lifetime \in Nat /\ now \in Nat
  BY ScenarioAssumption, CallAssumption DEF Issues, BodyOf, ServiceInv, TypeOK
<1>2. /\ issue' = [issue EXCEPT ![i] = [pc |-> "called", body |-> BodyOf(i), expires |-> now + BodyOf(i).lifetime]]
      /\ UNCHANGED <<now, up, records, files, revoke>>
  BY DEF IssueBegin, service, volume
<1>3. /\ \A j \in IssueCall \ {i} : issue'[j] = issue[j]
      /\ issue'[i].pc = "called" /\ issue'[i].body = BodyOf(i) /\ issue'[i].expires = now + BodyOf(i).lifetime
  BY <1>1, <1>2 DEF ServiceInv, TypeOK
<1>4. RecordsInv'
  BY <1>2, <1>3, ScenarioAssumption DEF ServiceInv, RecordsInv, Known, IsRevoked, Epoch, Issues
<1>5. QED
  BY <1>1, <1>2, <1>3, <1>4

LEMMA ClientCallsKeepService ==
  ASSUME ServiceInv, ClientInv, IssueParent \/ IssueChild \/ CallRevoke, TypeOK'
  PROVE  ServiceInv'
<1> USE ScenarioAssumption
<1>1. CASE IssueParent
  <2>1. /\ issue[ParentIssue].pc = "idle" /\ issue[ChildIssue].pc = "idle"
        /\ IssueBegin(ParentIssue, ParentBody) /\ step = "start" /\ step' = "parent issued"
    BY <1>1 DEF IssueParent, ServiceInv, CallsInv, Goto
  <2>2. /\ RecordsInv'
        /\ \A j \in IssueCall \ {ParentIssue} : issue'[j] = issue[j]
        /\ issue'[ParentIssue].pc = "called" /\ issue'[ParentIssue].body = ParentBody
        /\ issue'[ParentIssue].expires >= ParentBody.lifetime
        /\ UNCHANGED <<now, up, revoke>>
    BY <2>1, IssueCalled DEF Issues, BodyOf
  <2>3. CallsInv'
    <3>1. \A j \in IssueCall : issue'[j].pc # "idle" =>
             j \in Issues /\ issue'[j].body = BodyOf(j) /\ issue'[j].expires >= BodyOf(j).lifetime
      BY <2>2 DEF ServiceInv, CallsInv, Issues, BodyOf
    <3>2. issue'[ChildIssue] = issue[ChildIssue] /\ issue[ChildIssue].pc = "idle"
      BY <2>1, <2>2 DEF ServiceInv, CallsInv
    <3>3. \A r \in RevokeCall : revoke'[r].pc = "idle"
      BY <2>1, <2>2 DEF ServiceInv, CallsInv, FromRevoke
    <3>4. QED
      BY <2>1, <3>1, <3>2, <3>3 DEF CallsInv
  <2>4. QED
    BY <2>2, <2>3 DEF ServiceInv
<1>2. CASE IssueChild
  <2>1. /\ issue[ParentIssue].pc = "done" /\ issue[ChildIssue].pc = "idle"
        /\ IssueBegin(ChildIssue, ChildBody) /\ step = "parent issued" /\ step' = "child issued"
    BY <1>2 DEF IssueChild, ServiceInv, CallsInv, Goto
  <2>2. /\ RecordsInv'
        /\ \A j \in IssueCall \ {ChildIssue} : issue'[j] = issue[j]
        /\ issue'[ChildIssue].pc = "called" /\ issue'[ChildIssue].body = ChildBody
        /\ issue'[ChildIssue].expires >= ChildBody.lifetime
        /\ UNCHANGED <<now, up, revoke>>
    BY <2>1, IssueCalled DEF Issues, BodyOf
  <2>3. CallsInv'
    <3>1. \A j \in IssueCall : issue'[j].pc # "idle" =>
             j \in Issues /\ issue'[j].body = BodyOf(j) /\ issue'[j].expires >= BodyOf(j).lifetime
      <4>1. \A j \in IssueCall \ {ChildIssue} : issue'[j].pc # "idle" =>
               j \in Issues /\ issue'[j].body = BodyOf(j) /\ issue'[j].expires >= BodyOf(j).lifetime
        BY <2>2 DEF ServiceInv, CallsInv
      <4>2. ChildIssue \in Issues /\ BodyOf(ChildIssue) = ChildBody
        BY DEF Issues, BodyOf
      <4>3. QED
        BY <2>2, <4>1, <4>2
    <3>2. issue'[ParentIssue].pc = "done"
      BY <2>1, <2>2 DEF Issues
    <3>3. \A r \in RevokeCall : revoke'[r].pc = "idle"
      BY <2>1, <2>2 DEF ServiceInv, CallsInv, FromRevoke
    <3>4. QED
      BY <2>1, <3>1, <3>2, <3>3 DEF CallsInv
  <2>4. QED
    BY <2>2, <2>3 DEF ServiceInv
<1>3. CASE CallRevoke
  <2>1. /\ step = "epoch taken" /\ step' = "revoking"
        /\ UNCHANGED <<now, up, records, files, issue>>
        /\ revoke[GroupRevoke].pc = "idle"
        /\ \A r \in RevokeCall \ {GroupRevoke} : revoke'[r] = revoke[r]
        /\ revoke'[GroupRevoke].pc = "called" /\ revoke'[GroupRevoke].group = ScenarioGroup
    BY <1>3 DEF CallRevoke, RevokeBegin, Goto, service, volume, ServiceInv, TypeOK
  <2>2. CallsInv'
    BY <2>1 DEF ServiceInv, CallsInv, FromRevoke
  <2>3. RecordsInv'
    BY <2>1 DEF ServiceInv, RecordsInv, Known, IsRevoked, Epoch
  <2>4. QED
    BY <2>1, <2>2, <2>3 DEF ServiceInv
<1>4. QED
  BY <1>1, <1>2, <1>3

\* No file of a handle stands in the way of its one issue.
LEMMA IssueServed ==
  ASSUME ServiceInv, NEW i \in IssueCall, ServeIssue(i), TypeOK', UNCHANGED scenarioVars
  PROVE  ServiceInv'
<1> USE ScenarioAssumption
<1>1. /\ i \in Issues /\ issue[i].body = BodyOf(i) /\ issue[i].expires >= BodyOf(i).lifetime
      /\ issue[i].pc \in {"called", "truncated", "written"}
  BY DEF ServeIssue, IssueReplace, IssueWrite, IssueStore, ServiceInv, CallsInv
<1>2. ~ IsRevoked
  BY <1>1 DEF ServiceInv, CallsInv, IsRevoked, FromRevoke, Issues
<1>3. /\ RecordOf(i).token = i /\ RecordOf(i).body = BodyOf(i) /\ RecordOf(i).revoked = {}
      /\ RecordOf(i).expires = issue[i].expires
  BY <1>1 DEF RecordOf
<1>4. UNCHANGED <<now, up, revoke, step>>
  BY DEF ServeIssue, IssueReplace, IssueWrite, IssueStore, scenarioVars, service
<1>5. /\ \A j \in IssueCall \ {i} : issue'[j] = issue[j]
      /\ issue'[i].body = BodyOf(i) /\ issue'[i].expires = issue[i].expires
      /\ issue'[i].pc # "idle"
  BY <1>1 DEF ServeIssue, IssueReplace, IssueWrite, IssueStore, ServiceInv, TypeOK, IssueThread
<1>6. CallsInv'
  BY <1>1, <1>4, <1>5 DEF ServiceInv, CallsInv, FromRevoke, Issues
<1>7. \A x : Known(x) => Known(x)'
  BY <1>1, <1>4, <1>5 DEF Known, IsRevoked, Epoch, Issues
<1>8. CASE IssueReplace(i)
  <2>1. issue[i].pc = "called" /\ issue'[i].pc = "truncated"
    BY <1>8 DEF IssueReplace, ServiceInv, TypeOK
  <2>2. \A f \in files : f.body.handle # issue[i].body.handle
    BY <1>1, <2>1 DEF ServiceInv, RecordsInv, Issues, BodyOf
  <2>3. files' = files /\ records' = records
    BY <1>8, <2>2 DEF IssueReplace
  <2>4. RecordsInv'
    BY <1>1, <1>2, <1>4, <1>5, <1>7, <2>1, <2>3 DEF ServiceInv, RecordsInv, IsRevoked, Issues
  <2>5. QED
    BY <1>4, <1>6, <2>4 DEF ServiceInv
<1>9. CASE IssueWrite(i)
  <2>1. issue[i].pc = "truncated" /\ issue'[i].pc = "written"
        /\ files' = files \cup {RecordOf(i)} /\ records' = records
    BY <1>9 DEF IssueWrite, ServiceInv, TypeOK, service
  <2>2. RecordsInv'
    BY <1>1, <1>2, <1>3, <1>4, <1>5, <1>7, <2>1 DEF ServiceInv, RecordsInv, IsRevoked, Issues
  <2>3. QED
    BY <1>4, <1>6, <2>2 DEF ServiceInv
<1>10. CASE IssueStore(i)
  <2>1. issue[i].pc = "written" /\ issue'[i].pc = "done"
        /\ files' = files /\ records' = records \cup {RecordOf(i)}
    BY <1>10 DEF IssueStore, ServiceInv, TypeOK, volume
  <2>2. PICK row : row = RecordOf(i)
    OBVIOUS
  <2>3. Known(row)' /\ row.token = i
    BY <1>1, <1>3, <1>5, <2>1, <2>2 DEF Known
  <2>4. records' = records \cup {row}
    BY <2>1, <2>2
  <2>5. ~ IsRevoked'
    BY <1>2, <1>4 DEF IsRevoked
  <2>6. RecordsInv'
    BY <1>1, <1>5, <1>7, <2>1, <2>3, <2>4, <2>5 DEF ServiceInv, RecordsInv, Issues
  <2>7. QED
    BY <1>4, <1>6, <2>6 DEF ServiceInv
<1>11. QED
  BY <1>8, <1>9, <1>10 DEF ServeIssue

LEMMA RevokeServed ==
  ASSUME ServiceInv, NEW r \in RevokeCall, RevokeApply(r), TypeOK', UNCHANGED scenarioVars
  PROVE  ServiceInv'
<1> USE ScenarioAssumption
<1>1. r = GroupRevoke /\ revoke[r].group = ScenarioGroup /\ step \in FromRevoke /\ revoke[r].pc = "called"
  BY DEF RevokeApply, ServiceInv, CallsInv
<1>2. /\ \A s \in RevokeCall \ {r} : revoke'[s] = revoke[s]
      /\ revoke'[r].pc = "done" /\ revoke'[r].group = revoke[r].group /\ revoke'[r].epoch = revoke[r].epoch
      /\ records' = {Revoked(x, r) : x \in records}
      /\ UNCHANGED <<now, up, files, issue, step>>
  BY DEF RevokeApply, ServiceInv, TypeOK, RevokeThread, volume, scenarioVars
<1>3. CallsInv'
  BY <1>1, <1>2 DEF ServiceInv, CallsInv
<1>4. ASSUME NEW y \in records'
      PROVE  Known(y)' /\ y.revoked = {Epoch'}
  <2>1. PICK x \in records : y = Revoked(x, r)
    BY <1>2
  <2>2. Known(x) /\ x \in Record
    BY DEF ServiceInv, RecordsInv, TypeOK
  <2>3. x.body.group = ScenarioGroup
    BY <2>2 DEF Known, BodyOf
  <2>4. y.token = x.token /\ y.body = x.body /\ y.expires = x.expires /\ y.revoked = {revoke[r].epoch}
    BY <1>1, <2>1, <2>2, <2>3 DEF Revoked, Record
  <2>5. QED
    BY <1>1, <1>2, <2>2, <2>4 DEF Known, IsRevoked, Epoch
<1>5. \A x \in records : \E y \in records' : y.token = x.token
  <2>1. SUFFICES ASSUME NEW x \in records PROVE Revoked(x, r).token = x.token
    BY <1>2
  <2>2. x \in Record
    BY DEF ServiceInv, TypeOK
  <2>3. QED
    BY <2>2 DEF Revoked, Record
<1>6. RecordsInv'
  BY <1>2, <1>4, <1>5 DEF ServiceInv, RecordsInv
<1>7. QED
  BY <1>2, <1>3, <1>6 DEF ServiceInv

LEMMA ServiceStepKeepsService ==
  ASSUME ServiceInv, ClientInv, ServiceStep
  PROVE  ServiceInv'
<1>1. TypeOK'
  <2>1. [Next]_vars
    BY ScenarioAssumption DEF ServiceStep, IssueParent, IssueChild, CallRevoke, Next
  <2>2. QED
    BY <2>1, TypeStep DEF ServiceInv
<1>2. CASE Tick /\ UNCHANGED <<labVars, scenarioVars>>
  <2>1. now' <= MaxTime
    BY <1>2, TimeAssumption DEF Tick, ServiceInv, TypeOK
  <2>2. CallsInv' /\ RecordsInv'
    BY <1>2 DEF Tick, ServiceInv, CallsInv, RecordsInv, Known, IsRevoked, Epoch, service, volume, threads,
       scenarioVars
  <2>3. QED
    BY <1>1, <1>2, <2>1, <2>2 DEF Tick, ServiceInv, service
<1>3. QED
  BY <1>1, <1>2, ClientCallsKeepService, IssueServed, RevokeServed DEF ServiceStep

\* The service only ever learns: what is known stays known, what is closed closed.
LEMMA ServiceLearns ==
  ASSUME ServiceInv, ClientInv, ScenarioNext, ServiceStep \/ UNCHANGED serviceState, ServiceInv'
  PROVE  /\ \A x : Known(x) => Known(x)'
         /\ \A p \in Point : Closed(p) => Closed(p)'
<1> USE ScenarioAssumption
<1>1. \A i \in Issues : issue[i].pc = "done" => issue'[i].pc = "done"
  BY DEF ServiceStep, serviceState, IssueParent, IssueChild, CallRevoke, IssueBegin, RevokeBegin,
     ServeIssue, IssueReplace, IssueWrite, IssueStore, RevokeApply, Tick, threads, ServiceInv, TypeOK, Issues
<1>2. IsRevoked => IsRevoked' /\ Epoch' = Epoch
  BY DEF IsRevoked, Epoch, ServiceStep, serviceState, IssueParent, IssueChild, CallRevoke, IssueBegin, RevokeBegin,
     ServeIssue, IssueReplace, IssueWrite, IssueStore, RevokeApply, Tick, threads, ServiceInv, TypeOK
<1>3. now' >= now
  <2>1. now \in Nat
    BY DEF ServiceInv, TypeOK
  <2>2. now' = now \/ now' = now + 1
    BY DEF ServiceStep, serviceState, IssueParent, IssueChild, CallRevoke, IssueBegin, RevokeBegin,
       ServeIssue, IssueReplace, IssueWrite, IssueStore, RevokeApply, Tick
  <2>3. QED
    BY <2>1, <2>2
<1>4. \A x : Known(x) => Known(x)'
  BY <1>1, <1>2 DEF Known
<1>5. \A p \in Point : Closed(p) => Closed(p)'
  <2>1. Epoch \in Nat /\ now \in Nat /\ now' \in Nat
    BY DEF ServiceInv, TypeOK, Epoch, RevokeThread
  <2>2. \A p \in Point : Delay[p] \in Nat
    BY TimeAssumption
  <2>3. QED
    BY <1>2, <1>3, <2>1, <2>2 DEF Closed
<1>6. QED
  BY <1>4, <1>5

------------------------------------------------------------------------------
(* A watched access. *)

Untouched(a) ==
  access'[a] = access[a] /\ gate'[a] = gate[a] /\ reply'[a] = reply[a] /\ targetCall'[a] = targetCall[a]

\* Who begins a poll or an attempt, and when.
AsksFor(a) ==
  \E i \in Issues, p \in Point :
    /\ GatewayBegin(a, Ask[<<BodyOf(i).handle, p>>])
    /\ \A q \in Point : a = Poller[q] => q = p
    /\ step \in FromRevoke
    /\ a = Attempt => step = "attempting" /\ Len(attempts) < 4
Serves(a) == (AskSnapshot(a) \/ AskAnswer(a)) /\ UNCHANGED labVars
Answers(a) == AfterIntrospection(a) \/ PolicyAnswers(a) \/ AuditAnswers(a) \/ TargetAnswers(a)
Loses(a) ==
  /\ (AskLost(a) /\ UNCHANGED labVars) \/ PolicyLost(a) \/ AuditLost(a) \/ TargetLost(a)
  /\ losses' = losses + 1

LEMMA WatchedMoves ==
  ASSUME ScenarioInv, ScenarioNext, NEW a \in Watched
  PROVE  \/ Untouched(a) /\ (ServiceStep \/ UNCHANGED serviceState)
         \/ AsksFor(a) /\ UNCHANGED scenarioVars
         \/ (Serves(a) \/ Answers(a) \/ StoringStep(a)) /\ UNCHANGED scenarioVars
         \/ Loses(a) /\ UNCHANGED <<step, attempts>>
         \/ Release(a)
<1> USE ScenarioAssumption
<1>1. a \in Access /\ a # Flight /\ TypeOK /\ LabFunctions /\ ClientInv
  BY DEF Watched, ScenarioInv, ServiceInv
<1>2. ASSUME NEW b \in Access, AccessStepOf(b), a # b
      PROVE  Untouched(a) /\ UNCHANGED serviceState
  BY <1>1, <1>2, AccessStepIsLocal DEF Untouched
<1>3. CASE Client
  <2>1. CASE SendFlight
    <3>1. BeginStep(Flight)
      BY <2>1 DEF SendFlight, BeginStep
    <3>2. QED
      BY <1>1, <1>2, <3>1 DEF AccessStepOf
  <2>2. CASE AttemptBegin
    <3>1. AttemptOrder[Len(attempts) + 1] \in {ParentBody.handle, ChildBody.handle} \X Point
          /\ Len(attempts) < 4 /\ step = "attempting"
      BY <1>1, <2>2, AttemptAsks, AttemptAssumption DEF AttemptBegin, ClientInv
    <3>2. PICK i \in Issues, p \in Point : AttemptOrder[Len(attempts) + 1] = <<BodyOf(i).handle, p>>
      BY <3>1 DEF Issues, BodyOf
    <3>3. GatewayBegin(Attempt, Ask[<<BodyOf(i).handle, p>>]) /\ UNCHANGED scenarioVars
      BY <2>2, <3>2 DEF AttemptBegin
    <3>4. CASE a = Attempt
      BY <3>1, <3>3, <3>4 DEF AsksFor, FromRevoke
    <3>5. CASE a # Attempt
      <4>1. BeginStep(Attempt)
        BY <3>3 DEF BeginStep, BodyOf
      <4>2. QED
        BY <1>2, <3>5, <4>1 DEF AccessStepOf
    <3>6. QED
      BY <3>4, <3>5
  <2>3. CASE AttemptEnd
    BY <1>2, <2>3 DEF AttemptEnd, AccessStepOf
  <2>4. CASE IssueParent \/ IssueChild \/ CallRevoke
    BY <2>4 DEF ServiceStep, IssueParent, IssueChild, CallRevoke, IssueBegin, RevokeBegin, Untouched, labVars, calls
  <2>5. CASE TakeEpoch \/ SleepToBound \/ JoinFlight
    BY <2>5 DEF TakeEpoch, SleepToBound, JoinFlight, Untouched, allVars, vars, threads, labVars, calls, serviceState
  <2>6. QED
    BY <1>3, <2>1, <2>2, <2>3, <2>4, <2>5 DEF Client
<1>4. CASE \E p \in Point : PollerStep(p)
  <2>1. PICK p \in Point : PollerStep(p)
    BY <1>4
  <2>2. CASE PollBegin(p)
    <3>1. CASE a = Poller[p]
      <4>1. GatewayBegin(a, Ask[<<BodyOf(ParentIssue).handle, p>>]) /\ UNCHANGED scenarioVars
            /\ step = "revoking" /\ ParentIssue \in Issues
        BY <2>2, <3>1 DEF PollBegin, Polling, BodyOf, Issues
      <4>2. QED
        BY <3>1, <4>1 DEF AsksFor, FromRevoke
    <3>2. CASE a # Poller[p]
      BY <1>2, <2>2, <3>2 DEF PollBegin, BeginStep, AccessStepOf
    <3>3. QED
      BY <3>1, <3>2
  <2>3. CASE PollAgain(p)
    BY <1>2, <2>3 DEF PollAgain, AccessStepOf
  <2>4. CASE PollAcknowledged(p)
    BY <2>4 DEF PollAcknowledged, Untouched, allVars, vars, threads, labVars, calls, serviceState
  <2>5. QED
    BY <2>1, <2>2, <2>3, <2>4 DEF PollerStep
<1>5. CASE Serve \/ Passes
  BY <1>5 DEF Serve, Passes, ServiceStep, ServeIssue, IssueReplace, IssueWrite, IssueStore, RevokeApply, Tick,
     Untouched, labVars, calls, threads
<1>6. CASE \E b \in Access : HandlerStep(b) \/ Lose(b) \/ StoreStep(b)
  <2>1. PICK b \in Access : HandlerStep(b) \/ Lose(b) \/ StoreStep(b)
    BY <1>6
  <2>2. AccessStepOf(b)
    BY <2>1 DEF HandlerStep, Lose, StoreStep, AccessStepOf, Introspect, AnswerStep, StoringStep
  <2>3. CASE a = b
    BY <2>1, <2>3 DEF HandlerStep, Lose, StoreStep, Serves, ServeAccess, Answers, StoringStep, Loses
  <2>4. CASE a # b
    BY <1>2, <2>2, <2>4
  <2>5. QED
    BY <2>3, <2>4
<1>7. QED
  BY <1>3, <1>4, <1>5, <1>6 DEF ScenarioNext

\* The facts of the client that a step keeps or lets grow.
LEMMA ClientGoesOn ==
  ASSUME ScenarioInv, ScenarioNext
  PROVE  /\ step \in FromRevoke => step' \in FromRevoke
         /\ losses' \in Nat /\ losses' >= losses
         /\ step = "attempting" /\ Len(attempts) < 4 => step' = "attempting"
<1>1. losses \in Nat /\ Len(AttemptOrder) = 4
  BY AttemptAssumption DEF ScenarioInv, ClientInv
<1>2. losses' \in Nat /\ losses' >= losses
  <2>1. losses' = losses \/ losses' = losses + 1
    BY ClientMovesOn
  <2>2. QED
    BY <1>1, <2>1
<1>3. JoinFlight => ~ Len(attempts) < 4
  BY <1>1 DEF JoinFlight
<1>4. step = "attempting" /\ Len(attempts) < 4 => step' = "attempting"
  BY <1>3, ClientMovesOn
<1>5. step \in FromRevoke => step' \in FromRevoke
  BY ClientMovesOn DEF FromRevoke
<1>6. QED
  BY <1>2, <1>4, <1>5

\* The service goes on under every step.
LEMMA ServiceKept ==
  ASSUME ScenarioInv, ScenarioNext
  PROVE  /\ ServiceInv' /\ LabFunctions'
         /\ \A x : Known(x) => Known(x)'
         /\ \A p \in Point : Closed(p) => Closed(p)'
<1>1. ServiceInv /\ ClientInv /\ LabFunctions /\ TypeOK
  BY DEF ScenarioInv, ServiceInv
<1>2. CASE ServiceStep
  <2>1. UNCHANGED labVars
    BY <1>2 DEF ServiceStep, IssueParent, IssueChild, CallRevoke
  <2>2. QED
    BY <1>1, <1>2, <2>1, ServiceStepKeepsService, ServiceLearns DEF LabFunctions, labVars, calls
<1>3. ASSUME ~ ServiceStep, UNCHANGED serviceState, TypeOK', LabFunctions'
      PROVE  ServiceInv' /\ LabFunctions'
             /\ (\A x : Known(x) => Known(x)') /\ (\A p \in Point : Closed(p) => Closed(p)')
  <2>1. ServiceInv'
    BY <1>1, <1>3, QuietKeepsService DEF ServiceStep
  <2>2. QED
    BY <1>1, <1>3, <2>1, ServiceLearns
<1>4. CASE ClientStep
  <2>1. UNCHANGED <<serviceState, vars, labVars>>
    BY <1>4 DEF ClientStep, TakeEpoch, SleepToBound, JoinFlight, PollAcknowledged, allVars, vars, threads, serviceState
  <2>2. TypeOK' /\ LabFunctions'
    BY <1>1, <2>1, TypeStep DEF LabFunctions, labVars, calls
  <2>3. QED
    BY <1>2, <1>3, <2>1, <2>2
<1>5. CASE \E b \in Access : AccessStepOf(b)
  <2>1. UNCHANGED serviceState /\ LabFunctions' /\ TypeOK'
    BY <1>1, <1>5, AccessStepIsLocal
  <2>2. QED
    BY <1>2, <1>3, <2>1
<1>6. QED
  BY <1>1, <1>2, <1>4, <1>5, StepKinds

\* An access that nobody touches stays as the service and the client go on.
LEMMA UntouchedStays ==
  ASSUME ScenarioInv, ScenarioNext, NEW a \in Watched, Untouched(a),
         a = Attempt => step' = step \/ access[a].pc = "idle"
  PROVE  QuestionInv(a)' /\ HandlerInv(a)'
<1>1. QuestionInv(a) /\ HandlerInv(a)
  BY DEF ScenarioInv
<1>2. HandlerInv(a)'
  <2>1. losses > 0 => losses' > 0
    BY ClientGoesOn DEF ScenarioInv, ClientInv
  <2>2. QED
    BY <1>1, <2>1 DEF HandlerInv, Untouched
<1>3. SUFFICES ASSUME access'[a].pc # "idle" PROVE QuestionInv(a)'
  BY <1>2 DEF QuestionInv
<1>4. PICK i \in Issues, p \in Point :
         /\ access[a].question = Ask[<<BodyOf(i).handle, p>>]
         /\ access[a].token = {i}
         /\ \A q \in Point : a = Poller[q] => q = p
         /\ \A x \in access[a].snapshot : Known(x) /\ x.token = i
         /\ access[a].pc = "denied" => Closed(p)
  BY <1>1, <1>3 DEF QuestionInv, Untouched
<1>5. \A x \in access'[a].snapshot : Known(x)' /\ x.token = i
  BY <1>4, ServiceKept DEF Untouched
<1>6. access'[a].pc = "denied" => Closed(p)'
  BY <1>4, ServiceKept DEF Untouched
<1>7. step' \in FromRevoke /\ (losses > 0 => losses' > 0)
  <2>1. step \in FromRevoke
    BY <1>1, <1>3 DEF QuestionInv, Untouched
  <2>2. losses \in Nat
    BY DEF ScenarioInv, ClientInv
  <2>3. step' \in FromRevoke /\ losses' \in Nat /\ losses' >= losses
    BY <2>1, ClientGoesOn
  <2>4. QED
    BY <2>2, <2>3
<1>8. /\ access'[a].pc \in {"snapshot", "active"} => access'[a].snapshot # {}
      /\ access'[a].pc = "error" => losses' > 0
      /\ a = Attempt => /\ step' = "attempting" /\ access'[a].pc # "active"
                        /\ \A x \in access'[a].snapshot : x.revoked # {}
  BY <1>1, <1>3, <1>7 DEF QuestionInv, Untouched
<1>9. /\ access'[a].question = Ask[<<BodyOf(i).handle, p>>]
      /\ access'[a].token = {i}
  BY <1>4 DEF Untouched
<1>10. QED
  BY <1>4, <1>5, <1>6, <1>7, <1>8, <1>9 DEF QuestionInv

\* The handle's file is that of its one issue, whose record the service has.
LEMMA TheHandleHasItsToken ==
  ASSUME ScenarioInv, step \in FromRevoke, NEW i \in Issues
  PROVE  /\ {f.token : f \in FilesOf(BodyOf(i).handle)} = {i} /\ FilesOf(BodyOf(i).handle) # {}
         /\ \E x \in records : x.token = i
<1>1. issue[i].pc = "done"
  BY DEF ScenarioInv, ServiceInv, CallsInv, FromRevoke, Issues
<1>2. PICK f \in files : f.token = i
  BY <1>1 DEF ScenarioInv, ServiceInv, RecordsInv
<1>3. f.body = BodyOf(i)
  BY <1>2 DEF ScenarioInv, ServiceInv, RecordsInv
<1>4. \A g \in FilesOf(BodyOf(i).handle) : g.token = i
  BY ScenarioAssumption DEF FilesOf, ScenarioInv, ServiceInv, RecordsInv, Issues, BodyOf
<1>5. f \in FilesOf(BodyOf(i).handle)
  BY <1>2, <1>3 DEF FilesOf
<1>6. \E x \in records : x.token = i
  BY <1>1 DEF ScenarioInv, ServiceInv, RecordsInv
<1>7. QED
  BY <1>2, <1>4, <1>5, <1>6

LEMMA AskedStays ==
  ASSUME ScenarioInv, ScenarioNext, NEW a \in Watched, AsksFor(a), UNCHANGED scenarioVars
  PROVE  QuestionInv(a)' /\ HandlerInv(a)'
<1>1. PICK i \in Issues, p \in Point :
         /\ GatewayBegin(a, Ask[<<BodyOf(i).handle, p>>])
         /\ \A q \in Point : a = Poller[q] => q = p
         /\ step \in FromRevoke
         /\ a = Attempt => step = "attempting" /\ Len(attempts) < 4
  BY DEF AsksFor
<1> DEFINE q == Ask[<<BodyOf(i).handle, p>>]
<1>2. q.handle = BodyOf(i).handle
  BY AskAssumption DEF BodyOf
<1>3. a \in Access /\ TypeOK /\ LabFunctions /\ HandlerInv(a)
  BY ScenarioAssumption DEF Watched, ScenarioInv, ServiceInv
<1>4. {f.token : f \in FilesOf(q.handle)} = {i} /\ FilesOf(q.handle) # {}
  BY <1>1, <1>2, TheHandleHasItsToken
<1>5. /\ access'[a].pc = "asking" /\ access'[a].question = q /\ access'[a].token = {i}
      /\ access'[a].snapshot = {}
  <2>1. access' = [access EXCEPT ![a] =
                    [IdleAccess EXCEPT
                       !.pc = IF FilesOf(q.handle) = {} THEN "error" ELSE "asking",
                       !.question = q,
                       !.token = {f.token : f \in FilesOf(q.handle)},
                       !.after = {r \in RevokeCall : revoke[r].pc = "done"}]]
    BY <1>1 DEF GatewayBegin, AskRead
  <2>2. access'[a] = [IdleAccess EXCEPT
                       !.pc = IF FilesOf(q.handle) = {} THEN "error" ELSE "asking",
                       !.question = q,
                       !.token = {f.token : f \in FilesOf(q.handle)},
                       !.after = {r \in RevokeCall : revoke[r].pc = "done"}]
    BY <1>3, <2>1 DEF TypeOK
  <2>3. access'[a] = [IdleAccess EXCEPT !.pc = "asking", !.question = q, !.token = {i},
                                        !.after = {r \in RevokeCall : revoke[r].pc = "done"}]
    BY <1>4, <2>2, Zenon
  <2> HIDE DEF q
  <2>4. QED
    BY <2>3 DEF IdleAccess
<1>6. gate[a] = "idle" /\ gate'[a] = "credential" /\ reply'[a] = reply[a] /\ targetCall'[a] = targetCall[a]
  BY <1>1, <1>3 DEF GatewayBegin, Proceed, calls, LabFunctions
<1>7. QuestionInv(a)'
  BY <1>1, <1>5 DEF QuestionInv, scenarioVars
<1>8. HandlerInv(a)'
  BY <1>3, <1>5, <1>6 DEF HandlerInv, NoReply
<1>9. QED
  BY <1>7, <1>8

\* Of a credential that the client asks for, the answer depends on the revocation alone.
LEMMA OnlyTheRevocationDenies ==
  ASSUME ScenarioInv, NEW i \in Issues, NEW p \in Point, NEW x \in Record, Known(x), x.token = i
  PROVE  LET reason == ReasonFor(x, Ask[<<BodyOf(i).handle, p>>], now)
         IN  /\ reason \in {"none", "revoked"}
             /\ reason = "revoked" => Closed(p)
             /\ x.revoked # {} /\ Closed(p) => reason = "revoked"
<1> DEFINE q == Ask[<<BodyOf(i).handle, p>>]
<1>1. /\ q.point = p /\ x.body = BodyOf(i)
      /\ x.body.sender \in {AnySender, q.sender} /\ x.body.audience = q.audience
  BY AskAssumption DEF Known, BodyOf
<1>2. ~ now > x.expires
  <2>1. now <= MaxTime /\ now \in Nat /\ MaxTime \in Nat
    BY TimeAssumption DEF ScenarioInv, ServiceInv, TypeOK
  <2>2. MaxTime < BodyOf(i).lifetime /\ BodyOf(i).lifetime \in Nat
    BY ScenarioAssumption, CallAssumption DEF BodyOf
  <2>3. x.expires >= BodyOf(i).lifetime
    BY <1>1 DEF Known
  <2>4. x.expires \in Nat
    BY DEF Record
  <2>5. QED
    BY <2>1, <2>2, <2>3, <2>4
<1>3. x.revoked # {} => IsRevoked /\ x.revoked = {Epoch}
  BY DEF Known
<1> HIDE DEF q
<1>4. (\E e \in x.revoked : now >= e + Delay[q.point]) => Closed(p)
  BY <1>1, <1>3 DEF Closed
<1>5. x.revoked # {} /\ Closed(p) => \E e \in x.revoked : now >= e + Delay[q.point]
  BY <1>1, <1>3 DEF Closed
<1>6. /\ ReasonFor(x, q, now) \in {"none", "revoked"}
      /\ ReasonFor(x, q, now) = "revoked" <=> \E e \in x.revoked : now >= e + Delay[q.point]
  BY <1>1, <1>2 DEF ReasonFor
<1>7. QED
  BY <1>4, <1>5, <1>6 DEF q

LEMMA ServedStays ==
  ASSUME ScenarioInv, ScenarioNext, NEW a \in Watched, Serves(a), UNCHANGED scenarioVars
  PROVE  QuestionInv(a)' /\ HandlerInv(a)'
<1>1. a \in Access /\ TypeOK /\ LabFunctions /\ HandlerInv(a) /\ QuestionInv(a)
  BY ScenarioAssumption DEF Watched, ScenarioInv, ServiceInv
<1>2. access[a].pc \in {"asking", "snapshot"} /\ access[a] \in AccessThread
  BY <1>1 DEF Serves, AskSnapshot, AskAnswer, TypeOK
<1>3. PICK i \in Issues, p \in Point :
         /\ access[a].question = Ask[<<BodyOf(i).handle, p>>]
         /\ access[a].token = {i}
         /\ \A q \in Point : a = Poller[q] => q = p
         /\ \A x \in access[a].snapshot : Known(x) /\ x.token = i
  BY <1>1, <1>2 DEF QuestionInv
<1>4. step \in FromRevoke /\ (a = Attempt => step = "attempting" /\ \A x \in access[a].snapshot : x.revoked # {})
  BY <1>1, <1>2 DEF QuestionInv
<1>5. step = "attempting" => Closed(p)
  BY DEF ScenarioInv, ClientInv
<1>6. /\ access'[a].question = access[a].question /\ access'[a].token = access[a].token
      /\ access'[a].pc \in {"snapshot", "active", "denied"}
      /\ access'[a].pc = "snapshot" => access'[a].snapshot = {x \in records : x.token = i} /\ access'[a].snapshot # {}
      /\ access'[a].pc = "active" =>
           /\ access'[a].snapshot = access[a].snapshot
           /\ \E x \in access[a].snapshot : ReasonFor(x, access[a].question, now) = "none"
      /\ access'[a].pc = "denied" =>
           /\ access'[a].snapshot = access[a].snapshot
           /\ \E x \in access[a].snapshot : ReasonFor(x, access[a].question, now) # "none"
  <2>1. CASE AskSnapshot(a)
    <3>1. {x \in records : x.token \in access[a].token} = {x \in records : x.token = i}
      BY <1>3
    <3>2. {x \in records : x.token = i} # {}
      BY <1>4, TheHandleHasItsToken
    <3>3. access' = [access EXCEPT ![a] = [@ EXCEPT !.pc = "snapshot", !.snapshot = {x \in records : x.token = i}]]
      BY <2>1, <3>1, <3>2 DEF AskSnapshot
    <3>4. QED
      BY <1>1, <1>2, <3>2, <3>3 DEF TypeOK, AccessThread
  <2>2. CASE AskAnswer(a)
    <3>1. PICK x \in access[a].snapshot :
             access' = [access EXCEPT ![a] =
                          [@ EXCEPT !.pc = IF ReasonFor(x, access[a].question, now) = "none"
                                           THEN "active" ELSE "denied",
                                    !.reason = ReasonFor(x, access[a].question, now), !.answered = now]]
      BY <2>2 DEF AskAnswer
    <3>2. QED
      BY <1>1, <1>2, <3>1 DEF TypeOK, AccessThread
  <2>3. QED
    BY <2>1, <2>2 DEF Serves
<1>7. ASSUME NEW x \in access[a].snapshot
      PROVE  LET reason == ReasonFor(x, access[a].question, now)
             IN  /\ reason \in {"none", "revoked"}
                 /\ reason = "revoked" => Closed(p)
                 /\ x.revoked # {} /\ Closed(p) => reason = "revoked"
  <2>1. x \in Record
    BY <1>2 DEF AccessThread
  <2>2. QED
    BY <1>3, <2>1, OnlyTheRevocationDenies
<1>8. access'[a].pc = "denied" => Closed(p)'
  BY <1>6, <1>7, ServiceKept
<1>9. a = Attempt => access'[a].pc # "active"
  BY <1>4, <1>5, <1>6, <1>7
<1>10. \A x \in access'[a].snapshot : Known(x) /\ x.token = i
  BY <1>3, <1>6 DEF ScenarioInv, ServiceInv, RecordsInv
<1>11. a = Attempt => \A x \in access'[a].snapshot : x.revoked # {}
  <2>1. SUFFICES ASSUME a = Attempt, access'[a].pc = "snapshot", NEW x \in access'[a].snapshot PROVE x.revoked # {}
    BY <1>4, <1>6
  <2>2. IsRevoked /\ x \in records
    BY <1>4, <1>5, <1>6, <2>1 DEF Closed
  <2>3. QED
    BY <2>2 DEF ScenarioInv, ServiceInv, RecordsInv
<1>12. \A x \in access'[a].snapshot : Known(x)' /\ x.token = i
  BY <1>10, ServiceKept
<1>13. access'[a].pc \in {"snapshot", "active"} => access'[a].snapshot # {}
  BY <1>6
<1>14. QuestionInv(a)'
  BY <1>3, <1>4, <1>6, <1>8, <1>9, <1>11, <1>12, <1>13 DEF QuestionInv, scenarioVars
<1>15. HandlerInv(a)'
  BY <1>1, <1>2, <1>6 DEF Serves, HandlerInv, scenarioVars, labVars, calls
<1>16. QED
  BY <1>14, <1>15

\* What the gateway makes of an answer: a denial or a lost call ends it.
LEMMA AnsweredStays ==
  ASSUME ScenarioInv, ScenarioNext, NEW a \in Watched, Answers(a), UNCHANGED scenarioVars
  PROVE  QuestionInv(a)' /\ HandlerInv(a)'
<1>1. a \in Access /\ TypeOK /\ LabFunctions /\ HandlerInv(a) /\ QuestionInv(a)
  BY ScenarioAssumption DEF Watched, ScenarioInv, ServiceInv
<1>2. access' = access /\ access[a].pc # "idle"
  BY <1>1 DEF Answers, AfterIntrospection, PolicyAnswers, AuditAnswers, TargetAnswers, HandlerInv, vars, threads
<1>3. QuestionInv(a)'
  <2>1. PICK i \in Issues, p \in Point :
         /\ access[a].question = Ask[<<BodyOf(i).handle, p>>]
         /\ access[a].token = {i}
         /\ \A q \in Point : a = Poller[q] => q = p
         /\ \A x \in access[a].snapshot : Known(x) /\ x.token = i
         /\ access[a].pc = "denied" => Closed(p)
    BY <1>1, <1>2 DEF QuestionInv
  <2>2. \A x \in access[a].snapshot : Known(x)' /\ x.token = i
    BY <2>1, ServiceKept
  <2>3. access[a].pc = "denied" => Closed(p)'
    BY <2>1, ServiceKept
  <2>4. QED
    BY <1>1, <1>2, <2>1, <2>2, <2>3 DEF QuestionInv, scenarioVars
<1>4. access[a].pc = "active" => PolicyAllows(a)
  <2>1. SUFFICES ASSUME access[a].pc = "active" PROVE PolicyAllows(a)
    OBVIOUS
  <2>2. PICK i \in Issues, p \in Point, x \in access[a].snapshot :
           access[a].question = Ask[<<BodyOf(i).handle, p>>] /\ x.body = BodyOf(i)
    BY <1>1, <2>1 DEF QuestionInv, Known
  <2>3. access[a].question.action \in x.body.actions
    BY <2>2, AskAssumption DEF BodyOf
  <2>4. QED
    BY <2>3 DEF PolicyAllows
<1>5. a = Attempt => access[a].pc # "active"
  BY <1>1, <1>2 DEF QuestionInv
<1>6. CASE AfterIntrospection(a)
  <2>1. targetCall' = targetCall /\ gate[a] = "credential"
    BY <1>6 DEF AfterIntrospection, calls
  <2>2. CASE access[a].pc = "active"
    BY <1>1, <1>2, <1>3, <1>5, <1>6, <2>1, <2>2 DEF AfterIntrospection, Proceed, HandlerInv, LabFunctions
  <2>3. CASE access[a].pc = "denied"
    <3>1. gate'[a] = "answered" /\ reply'[a] = Deny
      BY <1>1, <1>6, <2>3 DEF AfterIntrospection, Answer, LabFunctions
    <3>2. QED
      BY <1>1, <1>2, <1>3, <2>1, <2>3, <3>1 DEF HandlerInv
  <2>4. CASE access[a].pc = "error"
    <3>1. gate'[a] = "answered" /\ reply'[a] = FailedClosed("credential")
      BY <1>1, <1>6, <2>4 DEF AfterIntrospection, Answer, LabFunctions
    <3>2. losses' > 0 /\ FailedClosed("credential").decision = "error"
      BY <1>1, <2>4 DEF QuestionInv, FailedClosed, NoReply, scenarioVars
    <3>3. QED
      BY <1>1, <1>2, <1>3, <2>1, <2>4, <3>1, <3>2 DEF HandlerInv
  <2>5. QED
    BY <1>3, <1>6, <2>2, <2>3, <2>4 DEF AfterIntrospection
<1>7. CASE PolicyAnswers(a)
  BY <1>1, <1>2, <1>3, <1>4, <1>5, <1>7 DEF PolicyAnswers, Proceed, HandlerInv, LabFunctions
<1>8. CASE AuditAnswers(a)
  BY <1>1, <1>2, <1>3, <1>5, <1>8 DEF AuditAnswers, Proceed, HandlerInv, LabFunctions
<1>9. CASE TargetAnswers(a)
  <2>1. Allow.decision = "allow"
    BY DEF Allow, NoReply
  <2>2. a # Attempt /\ gate'[a] = "answered" /\ reply'[a] = Allow /\ targetCall'[a] = targetCall[a]
    BY <1>1, <1>5, <1>9 DEF TargetAnswers, Answer, HandlerInv, LabFunctions, calls
  <2>3. QED
    BY <1>2, <1>3, <2>1, <2>2 DEF HandlerInv
<1>10. QED
  BY <1>3, <1>6, <1>7, <1>8, <1>9 DEF Answers

LEMMA LostStays ==
  ASSUME ScenarioInv, ScenarioNext, NEW a \in Watched, Loses(a), UNCHANGED <<step, attempts>>
  PROVE  QuestionInv(a)' /\ HandlerInv(a)'
<1>1. a \in Access /\ TypeOK /\ LabFunctions /\ HandlerInv(a) /\ QuestionInv(a)
  BY ScenarioAssumption DEF Watched, ScenarioInv, ServiceInv
<1>2. losses' > 0
  BY DEF Loses, ScenarioInv, ClientInv
<1>3. access[a].pc # "idle"
  BY <1>1 DEF Loses, AskLost, PolicyLost, AuditLost, TargetLost, HandlerInv
<1>4. PICK i \in Issues, p \in Point :
         /\ access[a].question = Ask[<<BodyOf(i).handle, p>>]
         /\ access[a].token = {i}
         /\ \A q \in Point : a = Poller[q] => q = p
         /\ \A x \in access[a].snapshot : Known(x) /\ x.token = i
         /\ access[a].pc = "denied" => Closed(p)
  BY <1>1, <1>3 DEF QuestionInv
<1>5. \A x \in access[a].snapshot : Known(x)' /\ x.token = i
  BY <1>4, ServiceKept
<1>6. access[a].pc = "denied" => Closed(p)'
  BY <1>4, ServiceKept
<1>7. CASE AskLost(a) /\ UNCHANGED labVars
  <2>1. /\ access'[a].question = access[a].question /\ access'[a].token = access[a].token
        /\ access'[a].snapshot = access[a].snapshot /\ access'[a].pc = "error"
        /\ access[a].pc \in {"asking", "snapshot"}
    BY <1>1, <1>7 DEF AskLost, TypeOK, AccessThread
  <2>2. QuestionInv(a)'
    BY <1>1, <1>2, <1>3, <1>4, <1>5, <2>1 DEF QuestionInv
  <2>3. HandlerInv(a)'
    BY <1>1, <1>2, <1>7, <2>1 DEF HandlerInv, labVars, calls
  <2>4. QED
    BY <2>2, <2>3
<1>8. CASE PolicyLost(a) \/ AuditLost(a) \/ TargetLost(a)
  <2>1. /\ access' = access /\ targetCall' = targetCall
        /\ gate'[a] = "answered" /\ \E d \in Dependency : reply'[a] = FailedClosed(d)
        /\ gate[a] \in {"policy", "audit", "target"}
    BY <1>1, <1>8 DEF PolicyLost, AuditLost, TargetLost, Answer, HandlerInv, LabFunctions, vars, threads, calls,
       Dependency
  <2>2. \A d \in Dependency : FailedClosed(d).decision = "error"
    BY DEF FailedClosed, NoReply
  <2>3. access[a].pc = "active" /\ a # Attempt
    BY <1>1, <2>1 DEF HandlerInv, QuestionInv
  <2>4. QuestionInv(a)'
    BY <1>1, <1>4, <1>5, <2>1, <2>3 DEF QuestionInv
  <2>5. HandlerInv(a)'
    BY <1>1, <2>1, <2>2, <2>3 DEF HandlerInv
  <2>6. QED
    BY <2>4, <2>5
<1>9. QED
  BY <1>7, <1>8 DEF Loses

LEMMA StoredStays ==
  ASSUME ScenarioInv, ScenarioNext, NEW a \in Watched, StoringStep(a), UNCHANGED scenarioVars
  PROVE  QuestionInv(a)' /\ HandlerInv(a)'
<1>1. a \in Access /\ LabFunctions /\ HandlerInv(a) /\ QuestionInv(a)
  BY ScenarioAssumption DEF Watched, ScenarioInv, ServiceInv
<1>2. /\ access' = access /\ gate' = gate /\ reply' = reply
      /\ a = Attempt => targetCall'[a] = targetCall[a]
  BY <1>1 DEF StoringStep, AuditRecord, TargetPending, TargetApply, HandlerInv, vars, threads
<1>3. HandlerInv(a)'
  BY <1>1, <1>2 DEF HandlerInv, scenarioVars
<1>4. CASE access[a].pc = "idle"
  BY <1>2, <1>3, <1>4 DEF QuestionInv
<1>5. CASE access[a].pc # "idle"
  <2>1. PICK i \in Issues, p \in Point :
         /\ access[a].question = Ask[<<BodyOf(i).handle, p>>]
         /\ access[a].token = {i}
         /\ \A q \in Point : a = Poller[q] => q = p
         /\ \A x \in access[a].snapshot : Known(x) /\ x.token = i
         /\ access[a].pc = "denied" => Closed(p)
    BY <1>1, <1>5 DEF QuestionInv
  <2>2. \A x \in access[a].snapshot : Known(x)' /\ x.token = i
    BY <2>1, ServiceKept
  <2>3. access[a].pc = "denied" => Closed(p)'
    BY <2>1, ServiceKept
  <2>4. QuestionInv(a)'
    BY <1>1, <1>2, <1>5, <2>1, <2>2, <2>3 DEF QuestionInv, scenarioVars
  <2>5. QED
    BY <1>3, <2>4
<1>6. QED
  BY <1>4, <1>5

LEMMA ReleasedStays ==
  ASSUME ScenarioInv, NEW a \in Watched, Release(a)
  PROVE  QuestionInv(a)' /\ HandlerInv(a)'
<1>1. a \in Access /\ TypeOK /\ LabFunctions
  BY ScenarioAssumption DEF Watched, ScenarioInv, ServiceInv
<1>2. /\ access'[a].pc = "idle" /\ gate'[a] = "idle" /\ reply'[a] = NoReply /\ targetCall'[a] = "none"
  BY <1>1 DEF Release, IdleAccess, TypeOK, LabFunctions
<1>3. QED
  BY <1>2 DEF QuestionInv, HandlerInv, NoReply

LEMMA WatchedStays ==
  ASSUME ScenarioInv, ScenarioNext, NEW a \in Watched
  PROVE  QuestionInv(a)' /\ HandlerInv(a)'
<1>1. CASE Untouched(a)
  <2>1. a = Attempt => step' = step \/ access[a].pc = "idle"
    <3>1. SUFFICES ASSUME a = Attempt, access[a].pc # "idle" PROVE step' = step
      OBVIOUS
    <3>2. step = "attempting" /\ gate[a] # "idle"
      BY <3>1 DEF ScenarioInv, QuestionInv, HandlerInv
    <3>3. Len(attempts) < 4
      BY <3>1, <3>2 DEF ScenarioInv, ClientInv
    <3>4. QED
      BY <3>2, <3>3, ClientGoesOn
  <2>2. QED
    BY <1>1, <2>1, UntouchedStays
<1>2. QED
  BY <1>1, WatchedMoves, AskedStays, ServedStays, AnsweredStays, StoredStays, LostStays, ReleasedStays

------------------------------------------------------------------------------
(* What the client has seen. *)

LEMMA ClientSeesRight ==
  ASSUME ScenarioInv, ScenarioNext
  PROVE  ClientInv'
<1> USE ScenarioAssumption
<1>1. /\ ServiceInv /\ ClientInv /\ LabFunctions /\ Attempt \in Watched
      /\ \A a \in Watched : QuestionInv(a) /\ HandlerInv(a) /\ HandlerInv(a)'
  BY WatchedStays DEF ScenarioInv, Watched
<1>2. losses' \in Nat /\ losses \in Nat /\ (losses' = losses \/ losses' = losses + 1)
  BY <1>1, ClientMovesOn, ClientGoesOn DEF ClientInv
<1>3. /\ acked' \subseteq Point /\ late' \subseteq acked'
      /\ \A p \in acked' : Closed(p)'
  <2>1. CASE UNCHANGED <<acked, late>>
    BY <1>1, <2>1, ServiceKept DEF ClientInv
  <2>2. CASE \E p \in Point : PollAcknowledged(p)
    <3>1. PICK p \in Point : PollAcknowledged(p)
      BY <2>2
    <3>2. gate[Poller[p]] = "answered" /\ reply[Poller[p]].decision = "deny" /\ Poller[p] \in Watched
      BY <3>1 DEF PollAcknowledged, Denies, Watched
    <3>3. access[Poller[p]].pc = "denied"
      BY <1>1, <3>2 DEF HandlerInv
    <3>4. Closed(p)
      BY <1>1, <3>2, <3>3 DEF QuestionInv
    <3>5. acked' = acked \cup {p} /\ late' \subseteq late \cup {p}
      BY <3>1 DEF PollAcknowledged
    <3>6. QED
      BY <1>1, <3>4, <3>5, ServiceKept DEF ClientInv
  <2>3. UNCHANGED <<acked, late>> \/ \E p \in Point : PollAcknowledged(p)
    BY DEF ScenarioNext, Client, IssueParent, IssueChild, SendFlight, TakeEpoch, CallRevoke, SleepToBound,
       AttemptBegin, AttemptEnd, JoinFlight, Goto, PollerStep, PollBegin, PollAgain, Serve, HandlerStep,
       Lose, StoreStep, Passes, scenarioVars
  <2>4. QED
    BY <2>1, <2>2, <2>3
<1>4. step' \in {"attempting", "done"} => acked' = Point
  <2>1. SUFFICES ASSUME step' \in {"attempting", "done"} PROVE acked = Point
    <3>1. acked \subseteq acked'
      BY DEF ScenarioNext, Client, IssueParent, IssueChild, SendFlight, TakeEpoch, CallRevoke, SleepToBound,
         AttemptBegin, AttemptEnd, JoinFlight, Goto, PollerStep, PollBegin, PollAgain, PollAcknowledged, Serve,
         HandlerStep, Lose, StoreStep, Passes, scenarioVars
    <3>2. QED
      BY <1>3, <2>1, <3>1
  <2>2. QED
    BY <1>1, <2>1, ClientMovesOn DEF ClientInv
<1>5. CASE AttemptEnd
  <2>1. /\ attempts' = Append(attempts, reply[Attempt]) /\ gate[Attempt] = "answered" /\ Release(Attempt)
        /\ step = "attempting" /\ step' = step /\ losses' = losses
    BY <1>5 DEF AttemptEnd
  <2>2. reply[Attempt] = Deny \/ (reply[Attempt] = FailedClosed("credential") /\ losses > 0)
    BY <1>1, <2>1 DEF HandlerInv
  <2>3. /\ attempts \in Seq({Deny, FailedClosed("credential")})
        /\ reply[Attempt] \in {Deny, FailedClosed("credential")} /\ Len(attempts) < 4
    BY <1>1, <2>1, <2>2 DEF ClientInv
  <2>4. attempts' \in Seq({Deny, FailedClosed("credential")}) /\ Len(attempts') <= 4
    BY <2>1, <2>3
  <2>5. losses' = 0 => \A k \in 1..Len(attempts') : attempts'[k] = Deny
    BY <1>1, <2>1, <2>2, <2>3 DEF ClientInv
  <2>6. gate'[Attempt] = "idle"
    BY <1>1, <2>1 DEF Release, LabFunctions
  <2>7. QED
    BY <1>2, <1>3, <1>4, <2>1, <2>4, <2>5, <2>6 DEF ClientInv
<1>6. CASE ~ AttemptEnd
  <2>1. attempts' = attempts
    BY <1>6 DEF ScenarioNext, Client, IssueParent, IssueChild, SendFlight, TakeEpoch, CallRevoke, SleepToBound,
       AttemptBegin, JoinFlight, Goto, PollerStep, PollBegin, PollAgain, PollAcknowledged, Serve, HandlerStep,
       Lose, StoreStep, Passes, scenarioVars
  <2>2. losses' = 0 => losses = 0
    BY <1>2
  <2>3. gate'[Attempt] # "idle" => Len(attempts) < 4
    <3>1. CASE gate[Attempt] # "idle"
      BY <1>1, <3>1 DEF ClientInv
    <3>2. CASE gate[Attempt] = "idle" /\ gate'[Attempt] # "idle"
      <4>1. AsksFor(Attempt)
        BY <1>1, <3>2, WatchedMoves DEF Untouched, Serves, labVars, Answers, AfterIntrospection, PolicyAnswers,
           AuditAnswers, TargetAnswers, StoringStep, AuditRecord, TargetPending, TargetApply, Loses, PolicyLost,
           AuditLost, TargetLost, Release, LabFunctions
      <4>2. QED
        BY <4>1 DEF AsksFor
    <3>3. QED
      BY <3>1, <3>2
  <2>4. step' = "done" => Len(attempts) = 4
    BY <1>1, ClientMovesOn, AttemptAssumption DEF JoinFlight, ClientInv
  <2>5. QED
    BY <1>1, <1>2, <1>3, <1>4, <2>1, <2>2, <2>3, <2>4 DEF ClientInv
<1>7. QED
  BY <1>5, <1>6

------------------------------------------------------------------------------
(* The theorems. *)

LEMMA ScenarioStarts == ScenarioInit => ScenarioInv
<1> SUFFICES ASSUME ScenarioInit PROVE ScenarioInv
  OBVIOUS
<1>1. Init /\ LabInit /\ step = "start" /\ acked = {} /\ late = {} /\ attempts = <<>> /\ losses = 0
  BY DEF ScenarioInit, LabInit
<1>2. TypeOK
  BY <1>1, InitIInv DEF IInv
<1>3. LabFunctions
  BY <1>1 DEF LabInit, LabFunctions, Reply, NoReply, Dependency
<1>4. /\ \A i \in IssueCall : issue[i].pc = "idle"
      /\ \A r \in RevokeCall : revoke[r].pc = "idle"
      /\ \A a \in Access : access[a].pc = "idle" /\ gate[a] = "idle" /\ reply[a] = NoReply /\ targetCall[a] = "none"
      /\ up = "up" /\ now = 0 /\ records = {} /\ files = {}
  BY <1>1 DEF Init, LabInit, IdleIssue, IdleRevoke, IdleAccess
<1>5. ServiceInv
  <2>1. CallsInv
    BY <1>1, <1>4, ScenarioAssumption DEF CallsInv, FromRevoke
  <2>2. RecordsInv
    BY <1>4, ScenarioAssumption DEF RecordsInv, Issues
  <2>3. QED
    BY <1>2, <1>4, <2>1, <2>2, TimeAssumption DEF ServiceInv
<1>6. \A a \in Watched : QuestionInv(a) /\ HandlerInv(a)
  BY <1>4, ScenarioAssumption DEF Watched, QuestionInv, HandlerInv, NoReply
<1>7. ClientInv
  BY <1>1, <1>4, ScenarioAssumption DEF ClientInv
<1>8. QED
  BY <1>3, <1>5, <1>6, <1>7 DEF ScenarioInv

LEMMA ScenarioStutters == ScenarioInv /\ UNCHANGED everything => ScenarioInv'
<1> SUFFICES ASSUME ScenarioInv, UNCHANGED everything PROVE ScenarioInv'
  OBVIOUS
<1>1. UNCHANGED <<now, up, lock, records, files, torn, issue, revoke, access, gate, auditCall, targetCall, reply,
                  step, acked, late, attempts, losses>>
  BY DEF everything, allVars, vars, service, volume, threads, labVars, calls, scenarioVars
<1>2. ServiceInv'
  BY <1>1 DEF ScenarioInv, ServiceInv, TypeOK, CallsInv, RecordsInv, Known, IsRevoked, Epoch
<1>3. LabFunctions' /\ ClientInv'
  BY <1>1 DEF ScenarioInv, LabFunctions, ClientInv, Closed, IsRevoked, Epoch
<1>4. ASSUME NEW a \in Watched
      PROVE  QuestionInv(a)' /\ HandlerInv(a)'
  <2>1. (\A x : Known(x)' <=> Known(x)) /\ (\A p \in Point : Closed(p)' <=> Closed(p))
    BY <1>1 DEF Known, Closed, IsRevoked, Epoch
  <2>2. QuestionInv(a) /\ HandlerInv(a)
    BY DEF ScenarioInv
  <2>3. HandlerInv(a)'
    BY <1>1, <2>2 DEF HandlerInv
  <2>4. CASE access[a].pc = "idle"
    BY <1>1, <2>3, <2>4 DEF QuestionInv
  <2>5. CASE access[a].pc # "idle"
    <3>1. PICK i \in Issues, p \in Point :
           /\ access[a].question = Ask[<<BodyOf(i).handle, p>>]
           /\ access[a].token = {i}
           /\ \A q \in Point : a = Poller[q] => q = p
           /\ \A x \in access[a].snapshot : Known(x)' /\ x.token = i
           /\ access[a].pc = "denied" => Closed(p)'
      BY <2>1, <2>2, <2>5 DEF QuestionInv
    <3>2. QuestionInv(a)'
      BY <1>1, <2>2, <2>5, <3>1 DEF QuestionInv
    <3>3. QED
      BY <2>3, <3>2
  <2>6. QED
    BY <2>4, <2>5
<1>5. QED
  BY <1>2, <1>3, <1>4 DEF ScenarioInv

\* Of the revocation scenario, whatever is lost and however long the calls take: the
\* client's calls, the records they leave, its pollers and its attempts (service.py:551-653).
THEOREM ScenarioInvariance == ScenarioSpec => []ScenarioInv
<1>1. ScenarioInv /\ [ScenarioNext]_everything => ScenarioInv'
  BY ServiceKept, WatchedStays, ClientSeesRight, ScenarioStutters DEF ScenarioInv
<1>2. QED
  BY <1>1, ScenarioStarts, PTL DEF ScenarioSpec

\* A gateway that denied one poll denies both credentials from then on
\* (service.py:174-217, 580-597).
THEOREM AcknowledgedPointsAreClosed == ScenarioSpec => []AcknowledgedPointIsClosed
<1>1. ScenarioInv => AcknowledgedPointIsClosed
  <2>1. SUFFICES ASSUME ScenarioInv, NEW p \in acked, NEW x \in records
                 PROVE  ReasonFor(x, Ask[<<x.body.handle, p>>], now) = "revoked"
    BY DEF AcknowledgedPointIsClosed
  <2>2. p \in Point /\ Closed(p)
    BY <2>1 DEF ScenarioInv, ClientInv
  <2>3. x \in Record /\ Known(x) /\ x.revoked = {Epoch}
    BY <2>1, <2>2 DEF ScenarioInv, ServiceInv, TypeOK, RecordsInv, Closed
  <2>4. x.token \in Issues /\ x.body = BodyOf(x.token)
    BY <2>3 DEF Known
  <2>5. QED
    BY <2>1, <2>2, <2>3, <2>4, OnlyTheRevocationDenies
<1>2. QED
  BY <1>1, ScenarioInvariance, PTL

LEMMA FourElements ==
  ASSUME NEW S, NEW s \in Seq(S), Len(s) = 4
  PROVE  \A k \in 1..4 : s[k] \in S
<1>1. s \in [1..4 -> S]
  OBVIOUS
<1>2. QED
  BY <1>1

\* The four attempts differ, however they were answered.
LEMMA FourReports ==
  ASSUME NEW f, DOMAIN f = 1..4,
         \A k \in 1..4 : f[k].handle = AttemptOrder[k][1] /\ f[k].point = AttemptOrder[k][2]
  PROVE  Cardinality({f[k] : k \in 1..4}) = 4
<1> DEFINE T == {f[k] : k \in 1..4}
<1> DEFINE F == [k \in 1..4 |-> f[k]]
<1>1. \A j, k \in 1..4 : F[j] = F[k] => j = k
  <2>1. SUFFICES ASSUME NEW j \in 1..4, NEW k \in 1..4, f[j] = f[k] PROVE j = k
    OBVIOUS
  <2>2. AttemptOrder[j] = AttemptOrder[k]
    <3>1. /\ AttemptOrder[j] \in {ParentBody.handle, ChildBody.handle} \X Point
          /\ AttemptOrder[k] \in {ParentBody.handle, ChildBody.handle} \X Point
      BY AttemptAssumption, FourElements
    <3>2. AttemptOrder[j][1] = AttemptOrder[k][1] /\ AttemptOrder[j][2] = AttemptOrder[k][2]
      <4>1. /\ f[j].handle = AttemptOrder[j][1] /\ f[j].point = AttemptOrder[j][2]
            /\ f[k].handle = AttemptOrder[k][1] /\ f[k].point = AttemptOrder[k][2]
        BY Zenon
      <4>2. QED
        BY <2>1, <4>1, Zenon
    <3>3. QED
      BY <3>1, <3>2
  <2>3. DOMAIN AttemptOrder = 1..4
    BY AttemptAssumption
  <2>4. QED
    BY <2>2, <2>3, AttemptAssumption DEF IsInjective
<1>2. F \in [1..4 -> T] /\ \A t \in T : \E k \in 1..4 : F[k] = t
  OBVIOUS
<1>3. F \in Bijection(1..4, T)
  BY <1>1, <1>2, Fun_IsBij
<1>4. ExistsBijection(1..4, T)
  BY <1>3, Fun_ExistsBij
<1> HIDE DEF T, F
<1>5. IsFiniteSet(1..4) /\ Cardinality(1..4) = 4
  <2>1. \A a, b \in Int : IsFiniteSet(a..b) /\ Cardinality(a..b) = IF a > b THEN 0 ELSE b - a + 1
    BY FS_Interval, Zenon
  <2>2. ASSUME NEW a \in Int, NEW b \in Int, a = 1, b = 4
        PROVE  IsFiniteSet(a..b) /\ Cardinality(a..b) = 4
    <3>1. Cardinality(a..b) = IF a > b THEN 0 ELSE b - a + 1
      BY <2>1, Zenon
    <3>2. (IF a > b THEN 0 ELSE b - a + 1) = 4
      BY <2>2
    <3>3. QED
      BY <2>1, <3>1, <3>2, Zenon
  <2>3. 1 \in Int /\ 4 \in Int
    OBVIOUS
  <2>4. QED
    BY <2>2, <2>3, Zenon
<1>6. Cardinality(T) = Cardinality(1..4)
  BY <1>4, <1>5, FS_Bijection
<1>7. QED
  BY <1>5, <1>6 DEF T

\* Of the attempts that were made for a handle at a point, one is for it there.
LEMMA EveryAttemptIsMade ==
  ASSUME NEW h \in {ParentBody.handle, ChildBody.handle}, NEW p \in Point
  PROVE  \E k \in 1..4 : AttemptOrder[k][1] = h /\ AttemptOrder[k][2] = p
<1>1. <<h, p>> \in Range(AttemptOrder)
  BY AttemptAssumption
<1>2. PICK k \in DOMAIN AttemptOrder : AttemptOrder[k] = <<h, p>>
  BY <1>1 DEF Range
<1>3. k \in 1..4
  BY AttemptAssumption
<1>4. QED
  BY <1>2, <1>3

LEMMA ReportIsJudged ==
  ASSUME ScenarioInv, step = "done"
  PROVE  TheRunnerIsNoLaxerThanTheContract
<1> USE ScenarioAssumption
<1> DEFINE Told(h, p, sent, r) ==
          [handle |-> h, point |-> p, sent |-> sent, decision |-> r.decision,
           effect |-> IF r.sideEffect THEN "occurred" ELSE "not_observed"]
           f == [k \in 1..4 |-> Told(AttemptOrder[k][1], AttemptOrder[k][2], Bound + Margin, attempts[k])]
           after == {f[k] : k \in 1..4}
           flight == Told(ParentBody.handle, FlightPoint, -1, reply[Flight])
           handles == {ParentBody.handle, ChildBody.handle}
<1>1. /\ acked = Point /\ late \subseteq Point /\ Len(attempts) = 4
      /\ attempts \in Seq({Deny, FailedClosed("credential")})
      /\ losses \in Nat /\ (losses = 0 => \A k \in 1..4 : attempts[k] = Deny)
      /\ targetCall[Attempt] = "none"
  BY DEF ScenarioInv, ClientInv, HandlerInv, Watched
<1>2. \A k \in 1..4 : attempts[k] \in {Deny, FailedClosed("credential")}
  BY <1>1, FourElements
<1>3. /\ Deny.decision = "deny" /\ Deny.sideEffect = FALSE
      /\ FailedClosed("credential").decision = "error" /\ FailedClosed("credential").sideEffect = FALSE
  BY DEF Deny, FailedClosed, NoReply
<1>4. \A k \in 1..4 : /\ f[k].handle = AttemptOrder[k][1] /\ f[k].point = AttemptOrder[k][2]
                      /\ f[k].sent = Bound + 1 /\ f[k].effect = "not_observed"
                      /\ f[k].decision = attempts[k].decision
                      /\ f[k].decision \in {"deny", "error"}
  BY <1>2, <1>3 DEF Margin
<1>5. /\ Observed.attempts = after \cup {flight}
      /\ Observed.acks = [p \in Point |-> {IF p \in late THEN Bound + 1 ELSE Bound}]
  BY <1>1 DEF Observed
<1>6. flight.sent = -1 /\ flight.point = FlightPoint /\ flight.handle = ParentBody.handle
  OBVIOUS
<1> HIDE DEF f, Told
<1>7. \A x \in after : /\ x.sent = Bound + 1 /\ x.effect = "not_observed" /\ x.decision \in {"deny", "error"}
  BY <1>4
<1>8. \A x \in after : x.point \in Point /\ x.handle \in handles
  <2>1. \A k \in 1..4 : AttemptOrder[k] \in handles \X Point
    BY AttemptAssumption, FourElements
  <2>2. QED
    BY <1>4, <2>1
<1>9. \A h \in handles, p \in Point : \E x \in after : x.handle = h /\ x.point = p
  BY <1>4, EveryAttemptIsMade
<1>10. Cardinality(after) = 4
  <2>1. DOMAIN f = 1..4
    BY DEF f
  <2>2. QED
    BY <1>4, <2>1, FourReports
<1>11. losses = 0 => \A x \in after : x.decision = "deny"
  BY <1>1, <1>3, <1>4
<1> HIDE DEF after, flight
<1>12. Timing!PostBound(Observed, Bound) = after
  BY <1>5, <1>6, <1>7 DEF Timing!PostBound
<1>13. Timing!CoversTheBound(Observed, Point, handles, Bound)
  BY <1>5, <1>6, <1>8, <1>9, <1>12 DEF Timing!CoversTheBound
<1>14. Timing!FalseAllows(Observed, Bound) = {}
  BY <1>7, <1>12 DEF Timing!FalseAllows, Timing!Granted
<1>15. /\ DOMAIN Observed.acks = Point
       /\ Timing!Acknowledged(Observed) = Point
       /\ Timing!InTime(Observed, Bound) = Point \ late
  <2>1. DOMAIN Observed.acks = Point
    BY <1>5
  <2>2. \A p \in Point : Observed.acks[p] = {IF p \in late THEN Bound + 1 ELSE Bound}
    BY <1>5
  <2>3. Timing!Acknowledged(Observed) = Point
    BY <2>1, <2>2 DEF Timing!Acknowledged
  <2>4. \A p \in Point : (\A t \in Observed.acks[p] : t <= Bound) <=> p \notin late
    BY <2>2
  <2>5. QED
    BY <2>1, <2>3, <2>4 DEF Timing!InTime
<1>16. \A x \in after : Timing!Refused(x)
  BY <1>7 DEF Timing!Refused
<1>17. Timing!RevocationVerdict(Observed, Bound) = Timing!Pass <=> late = {}
  BY <1>1, <1>12, <1>14, <1>15, <1>16 DEF Timing!RevocationVerdict, Timing!Pass, Timing!Verdict
<1>18. RunnerAccepts <=> late = {} /\ \A x \in after : x.decision = "deny"
  BY <1>7, <1>10, <1>12 DEF RunnerAccepts
<1>19. QED
  BY <1>1, <1>11, <1>13, <1>17, <1>18 DEF TheRunnerIsNoLaxerThanTheContract

\* Whatever was lost or late, the report of a finished scenario covers the bound, and
\* what the runner accepts the contract passes (run.py:1216-1229, scoring_v2.py:152-209).
THEOREM RunnerIsNoLaxer == ScenarioSpec => []TheRunnerIsNoLaxerThanTheContract
<1>1. ScenarioInv => TheRunnerIsNoLaxerThanTheContract
  BY ReportIsJudged DEF TheRunnerIsNoLaxerThanTheContract
<1>2. QED
  BY <1>1, ScenarioInvariance, PTL
===============================================================================
