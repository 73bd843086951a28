-------------------------- MODULE CredentialService --------------------------
(***************************************************************************)
(* The credential service of the reference lab (CredentialHandler of       *)
(* reference-deployment/service.py), the volume of secret files it shares  *)
(* with the gateways, and the gateways' side of a question to it.          *)
(*                                                                         *)
(* ThreadingHTTPServer gives every call a thread.  A thread takes the lock *)
(* of the handler class for the record table only: it reads the clock and  *)
(* answers outside the lock, and a gateway reads a secret file without it. *)
(* The table lives in memory; the files survive a stop of the container.   *)
(***************************************************************************)
EXTENDS Integers, FiniteSets

CONSTANTS
    IssueCall,   \* calls of /issue; a call draws one fresh token, named after it
    RevokeCall,  \* calls of /revoke
    Access,      \* requests a gateway handles
    IssueBody,   \* bodies of /issue: handle, group, sender, audience, actions, lifetime
    Question,    \* what a gateway asks: handle, sender, audience, point, action
    Group, Handle, Point,
    AnySender,   \* the sender "*" of a credential bound to none
    Delay,       \* [Point -> Nat]: when a revocation becomes visible at a point
    MaxTime      \* bound of the clock

ASSUME CallAssumption ==
    /\ \A b \in IssueBody : b.handle \in Handle /\ b.group \in Group /\ b.lifetime \in Nat
    /\ \A q \in Question : q.handle \in Handle /\ q.point \in Point
    /\ IssueBody # {} /\ Question # {}

ASSUME TimeAssumption == Delay \in [Point -> Nat] /\ MaxTime \in Nat

VARIABLES
    now,      \* time.monotonic_ns, one clock for every container of the host
    up,       \* the service process: "up", "down", or "failed" at its start
    lock,     \* the issuing thread that holds CredentialHandler.lock, if any
    records,  \* CredentialHandler.records
    files,    \* the secret files that hold a whole record
    torn,     \* the handles whose secret file is truncated and not yet written
    issue, revoke, access  \* the threads

service == <<up, lock, records>>
volume == <<files, torn>>
threads == <<issue, revoke, access>>
vars == <<now, service, volume, threads>>

Record == [token : IssueCall, body : IssueBody, expires : Nat, revoked : SUBSET Nat]

\* A thread's locals.  "owed" and "after" are history: the tokens acknowledged
\* before a revoke was called, and the revokes acknowledged before a token was read.
IssueThread == [pc : {"idle", "called", "truncated", "written", "done", "lost"},
                body : IssueBody, expires : Nat]
RevokeThread == [pc : {"idle", "called", "done", "lost"}, group : Group, epoch : Nat,
                 owed : SUBSET IssueCall]
AccessThread == [pc : {"idle", "asking", "snapshot", "active", "denied", "error"},
                 question : Question, token : SUBSET IssueCall,
                 snapshot : SUBSET Record, answered : Nat,
                 reason : {"none", "unknown", "expired", "sender", "audience", "revoked"},
                 after : SUBSET RevokeCall]

IdleIssue == [pc |-> "idle", body |-> CHOOSE b \in IssueBody : TRUE, expires |-> 0]
IdleRevoke == [pc |-> "idle", group |-> CHOOSE g \in Group : TRUE, epoch |-> 0, owed |-> {}]
IdleAccess == [pc |-> "idle", question |-> CHOOSE q \in Question : TRUE, token |-> {},
               snapshot |-> {}, answered |-> 0, reason |-> "none", after |-> {}]

Init ==
    /\ now = 0 /\ up = "up" /\ lock = {} /\ records = {} /\ files = {} /\ torn = {}
    /\ issue = [i \in IssueCall |-> IdleIssue]
    /\ revoke = [r \in RevokeCall |-> IdleRevoke]
    /\ access = [a \in Access |-> IdleAccess]

------------------------------------------------------------------------------
(* /issue *)

RecordOf(i) == [token |-> i, body |-> issue[i].body, expires |-> issue[i].expires,
                revoked |-> {}]

\* The record is built, and its lifetime starts, before the lock is taken.
IssueBegin(i, b) ==
    /\ up = "up" /\ issue[i].pc = "idle"
    /\ issue' = [issue EXCEPT ![i] = [pc |-> "called", body |-> b,
                                      expires |-> now + b.lifetime]]
    /\ UNCHANGED <<now, service, volume, revoke, access>>

\* A mutant of IssueReplace: it does not wait for the lock.
UnlockedReplace(i) ==
    LET h == issue[i].body.handle
        old == {f \in files : f.body.handle = h}
    IN  /\ up = "up" /\ issue[i].pc = "called"
        /\ lock' = {i}
        /\ records' = {x \in records : \A f \in old : f.token # x.token}
        /\ files' = files \ old
        /\ torn' = torn \cup {h}
        /\ issue' = [issue EXCEPT ![i].pc = "truncated"]
        /\ UNCHANGED <<now, up, revoke, access>>

\* A mutant of IssueReplace: the old file is removed before the new one is written.
UnlinkedReplace(i) ==
    LET h == issue[i].body.handle
        old == {f \in files : f.body.handle = h}
    IN  /\ up = "up" /\ issue[i].pc = "called" /\ lock = {}
        /\ lock' = {i}
        /\ records' = {x \in records : \A f \in old : f.token # x.token}
        /\ files' = files \ old
        /\ issue' = [issue EXCEPT ![i].pc = "truncated"]
        /\ UNCHANGED <<now, up, torn, revoke, access>>

\* Under the lock: the token the handle's file names is forgotten, and opening
\* the file for writing truncates it.
IssueReplace(i) ==
    LET h == issue[i].body.handle
        old == {f \in files : f.body.handle = h}
    IN  /\ up = "up" /\ issue[i].pc = "called" /\ lock = {}
        /\ lock' = {i}
        /\ records' = {x \in records : \A f \in old : f.token # x.token}
        /\ files' = files \ old
        /\ torn' = torn \cup {h}
        /\ issue' = [issue EXCEPT ![i].pc = "truncated"]
        /\ UNCHANGED <<now, up, revoke, access>>

IssueWrite(i) ==
    /\ issue[i].pc = "truncated"
    /\ files' = files \cup {RecordOf(i)}
    /\ torn' = torn \ {issue[i].body.handle}
    /\ issue' = [issue EXCEPT ![i].pc = "written"]
    /\ UNCHANGED <<now, service, revoke, access>>

IssueStore(i) ==
    /\ issue[i].pc = "written"
    /\ records' = records \cup {RecordOf(i)}
    /\ lock' = {}
    /\ issue' = [issue EXCEPT ![i].pc = "done"]
    /\ UNCHANGED <<now, up, volume, revoke, access>>

------------------------------------------------------------------------------
(* /revoke *)

\* The epoch is read before the lock is taken.
RevokeBegin(r, g) ==
    /\ up = "up" /\ revoke[r].pc = "idle"
    /\ revoke' = [revoke EXCEPT ![r] =
                    [pc |-> "called", group |-> g, epoch |-> now,
                     owed |-> {i \in IssueCall : issue[i].pc = "done"}]]
    /\ UNCHANGED <<now, service, volume, issue, access>>

\* A mutant of Revoked: a group stands for the credential of one of its handles.
OneHandleRevoked(x, r) ==
    IF x.body.handle = CHOOSE h \in Handle : \E y \in records : y.body.group = revoke[r].group
                                                              /\ y.body.handle = h
    THEN [x EXCEPT !.revoked = {revoke[r].epoch}] ELSE x

Revoked(x, r) ==
    IF x.body.group = revoke[r].group THEN [x EXCEPT !.revoked = {revoke[r].epoch}] ELSE x

\* A mutant of RevokeApply: the lock is not released.
LockKept(r) ==
    /\ up = "up" /\ revoke[r].pc = "called" /\ lock = {}
    /\ records' = {Revoked(x, r) : x \in records}
    /\ lock' = IssueCall
    /\ revoke' = [revoke EXCEPT ![r].pc = "done"]
    /\ UNCHANGED <<now, up, volume, issue, access>>

RevokeApply(r) ==
    /\ up = "up" /\ revoke[r].pc = "called" /\ lock = {}
    /\ records' = {Revoked(x, r) : x \in records}
    /\ revoke' = [revoke EXCEPT ![r].pc = "done"]
    /\ UNCHANGED <<now, up, lock, volume, issue, access>>

------------------------------------------------------------------------------
(* A gateway's question: _token_for, then /introspect *)

FilesOf(h) == {f \in files : f.body.handle = h}

\* The gateway reads the handle's file; an absent or a truncated one fails closed.
AskRead(a, q) ==
    /\ access[a].pc = "idle"
    /\ access' = [access EXCEPT ![a] =
                    [IdleAccess EXCEPT
                       !.pc = IF FilesOf(q.handle) = {} THEN "error" ELSE "asking",
                       !.question = q,
                       !.token = {f.token : f \in FilesOf(q.handle)},
                       !.after = {r \in RevokeCall : revoke[r].pc = "done"}]]
    /\ UNCHANGED <<now, service, volume, issue, revoke>>

\* Under the lock: a copy of the record of the token.
AskSnapshot(a) ==
    LET found == {x \in records : x.token \in access[a].token}
    IN  /\ up = "up" /\ access[a].pc = "asking" /\ lock = {}
        /\ access' = IF found = {}
                     THEN [access EXCEPT ![a] = [@ EXCEPT !.pc = "denied", !.reason = "unknown"]]
                     ELSE [access EXCEPT ![a] = [@ EXCEPT !.pc = "snapshot", !.snapshot = found]]
        /\ UNCHANGED <<now, service, volume, issue, revoke>>

\* A revocation that is visible at the point overrides every other reason.
ReasonFor(x, q, time) ==
    IF \E e \in x.revoked : time >= e + Delay[q.point] THEN "revoked"
    ELSE IF time > x.expires THEN "expired"
    ELSE IF x.body.sender \notin {AnySender, q.sender} THEN "sender"
    ELSE IF x.body.audience # q.audience THEN "audience"
    ELSE "none"

\* The clock is read after the lock is released.
AskAnswer(a) ==
    \E x \in access[a].snapshot :
      LET reason == ReasonFor(x, access[a].question, now)
      IN  /\ access[a].pc = "snapshot"
          /\ access' = [access EXCEPT ![a] =
                          [@ EXCEPT !.pc = IF reason = "none" THEN "active" ELSE "denied",
                                    !.reason = reason, !.answered = now]]
          /\ UNCHANGED <<now, service, volume, issue, revoke>>

\* The call times out or the connection breaks: the gateway fails closed.
AskLost(a) ==
    /\ access[a].pc \in {"asking", "snapshot"}
    /\ access' = [access EXCEPT ![a].pc = "error"]
    /\ UNCHANGED <<now, service, volume, issue, revoke>>

------------------------------------------------------------------------------
(* The container and the clock *)

\* Memory and threads are gone, the files stay.  What a revoke is owed ends with
\* the process: the table is loaded again from files that hold no revocation.
Stop ==
    /\ up = "up"
    /\ up' = "down" /\ lock' = {} /\ records' = {}
    /\ issue' = [i \in IssueCall |->
                   IF issue[i].pc \in {"called", "truncated", "written"}
                   THEN [issue[i] EXCEPT !.pc = "lost"] ELSE issue[i]]
    /\ revoke' = [r \in RevokeCall |->
                    [revoke[r] EXCEPT !.pc = IF @ = "called" THEN "lost" ELSE @,
                                      !.owed = {}]]
    /\ access' = [a \in Access |->
                    IF access[a].pc = "snapshot" THEN [access[a] EXCEPT !.pc = "error"]
                    ELSE access[a]]
    /\ UNCHANGED <<now, volume>>

\* load_records parses every file before the server listens; a torn one raises.
Start ==
    /\ up = "down"
    /\ IF torn = {} THEN up' = "up" /\ records' = files
                    ELSE up' = "failed" /\ records' = records
    /\ UNCHANGED <<now, lock, volume, threads>>

Tick ==
    /\ now < MaxTime
    /\ now' = now + 1
    /\ UNCHANGED <<service, volume, threads>>

ServeIssue(i) == IssueReplace(i) \/ IssueWrite(i) \/ IssueStore(i)
ServeAccess(a) == AskSnapshot(a) \/ AskAnswer(a)

Next ==
    \/ \E i \in IssueCall : (\E b \in IssueBody : IssueBegin(i, b)) \/ ServeIssue(i)
    \/ \E r \in RevokeCall : (\E g \in Group : RevokeBegin(r, g)) \/ RevokeApply(r)
    \/ \E a \in Access : (\E q \in Question : AskRead(a, q)) \/ ServeAccess(a) \/ AskLost(a)
    \/ Stop \/ Start \/ Tick

Spec == Init /\ [][Next]_vars

\* A thread that can run is scheduled; nothing says a client calls, a container
\* stops or starts, or an answer is lost.
Fairness ==
    /\ \A i \in IssueCall : WF_vars(ServeIssue(i))
    /\ \A r \in RevokeCall : WF_vars(RevokeApply(r))
    /\ \A a \in Access : WF_vars(ServeAccess(a))

FairSpec == Spec /\ Fairness
------------------------------------------------------------------------------
(* Properties *)

TypeOK ==
    /\ now \in Nat /\ up \in {"up", "down", "failed"} /\ lock \in SUBSET IssueCall
    /\ records \in SUBSET Record /\ files \in SUBSET Record /\ torn \in SUBSET Handle
    /\ issue \in [IssueCall -> IssueThread]
    /\ revoke \in [RevokeCall -> RevokeThread]
    /\ access \in [Access -> AccessThread]

Tokens(S) == {x.token : x \in S}

\* Whenever the running service can be asked (its lock is free), the tokens the
\* gateways find in the files are exactly the tokens it knows, no file is
\* truncated, and a handle has one token: _issue replaces file and table together
\* (service.py:161-171) through stops, restarts and concurrent re-issues.
FilesAndTableAgree ==
    up = "up" /\ lock = {} =>
        /\ Tokens(files) = Tokens(records)
        /\ torn = {}
        /\ \A x, y \in records : x.body.handle = y.body.handle => x = y

\* Once an issue for a handle was acknowledged, the service knows a token of the
\* handle whenever it can be asked: a stop at any point of a re-issue leaves the old
\* file, the new one, or a torn one it refuses to start on (service.py:131-171).
AcknowledgedHandlesStayKnown ==
    \A i \in IssueCall :
        up = "up" /\ lock = {} /\ issue[i].pc = "done"
        => \E x \in records : x.body.handle = issue[i].body.handle

\* The epochs of the revokes that were applied to a group.
Epochs(g) == {revoke[r].epoch : r \in {s \in RevokeCall : revoke[s].pc = "done"
                                                          /\ revoke[s].group = g}}

\* A credential issued before a revoke of its group was called, asked for after
\* that revoke was acknowledged by the same process, is not active once the
\* latest revoke of the group is visible at the point, whatever thread ran in
\* between (service.py:174-217).
AcknowledgedRevocationDenies ==
    \A a \in Access : \A x \in access[a].snapshot : \A r \in access[a].after :
        /\ access[a].pc = "active"
        /\ x.token \in revoke[r].owed /\ x.body.group = revoke[r].group
        => \E e \in Epochs(x.body.group) :
              access[a].answered < e + Delay[access[a].question.point]

\* A thread that was started finishes, or its process was stopped: no thread
\* keeps the lock, and none waits for it forever.
CallsFinish ==
    /\ \A i \in IssueCall : (issue[i].pc = "called") ~> (issue[i].pc \in {"done", "lost"})
    /\ \A r \in RevokeCall : (revoke[r].pc = "called") ~> (revoke[r].pc \in {"done", "lost"})
==============================================================================
