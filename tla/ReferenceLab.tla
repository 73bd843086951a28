----------------------------- MODULE ReferenceLab -----------------------------
(***************************************************************************)
(* The request path of the reference lab: a gateway (GatewayHandler) asks  *)
(* the credential service, then the policy service, then the audit         *)
(* service, and only then calls the target; a baseline endpoint            *)
(* (BaselineHandler) calls the target at once.  Every call has a timeout,  *)
(* and a handler of the other side runs on when its caller has given up.   *)
(* The lab stops and starts the credential, policy and audit containers    *)
(* (run.py, L05); the target and the gateways stay.                        *)
(***************************************************************************)
EXTENDS CredentialService

VARIABLES
    policyUp, auditUp,
    auditRecords, \* AuditHandler.records, in memory
    effects,      \* TargetHandler.effects, in memory
    gate,         \* what the handler of an access waits for
    auditCall,    \* the fate of its call to /record
    targetCall,   \* the fate of its call to /effect
    reply         \* its answer to the client

containers == <<policyUp, auditUp>>
stores == <<auditRecords, effects>>
calls == <<auditCall, targetCall>>
labVars == <<containers, stores, gate, calls, reply>>
allVars == <<vars, labVars>>

Dependency == {"credential", "policy", "audit", "target"}
Reply == [decision : {"none", "allow", "deny", "error"},
          dependency : Dependency \cup {"none"}, sideEffect : BOOLEAN]
NoReply == [decision |-> "none", dependency |-> "none", sideEffect |-> FALSE]
Allow == [NoReply EXCEPT !.decision = "allow", !.sideEffect = TRUE]
Deny == [NoReply EXCEPT !.decision = "deny"]

\* _failed_closed
FailedClosed(d) == [NoReply EXCEPT !.decision = "error", !.dependency = d]

LabInit ==
    /\ Init
    /\ policyUp = TRUE /\ auditUp = TRUE /\ auditRecords = {} /\ effects = {}
    /\ gate = [a \in Access |-> "idle"]
    /\ auditCall = [a \in Access |-> "none"]
    /\ targetCall = [a \in Access |-> "none"]
    /\ reply = [a \in Access |-> NoReply]

Answer(a, r) ==
    /\ gate' = [gate EXCEPT ![a] = "answered"]
    /\ reply' = [reply EXCEPT ![a] = r]

\* The gateway goes on to what the next guard waits for.
Proceed(a, next) == gate' = [gate EXCEPT ![a] = next] /\ UNCHANGED reply

------------------------------------------------------------------------------
(* GatewayHandler.handle_post *)

GatewayBegin(a, q) ==
    /\ gate[a] = "idle"
    /\ AskRead(a, q)
    /\ Proceed(a, "credential")
    /\ UNCHANGED <<containers, stores, calls>>

AfterIntrospection(a) ==
    /\ gate[a] = "credential"
    /\ \/ access[a].pc = "error" /\ Answer(a, FailedClosed("credential"))
       \/ access[a].pc = "denied" /\ Answer(a, Deny)
       \/ access[a].pc = "active" /\ Proceed(a, "policy")
    /\ UNCHANGED <<vars, containers, stores, calls>>

\* PolicyHandler: the action is one of those the introspection returned.
PolicyAllows(a) == \E x \in access[a].snapshot : access[a].question.action \in x.body.actions

PolicyAnswers(a) ==
    /\ gate[a] = "policy" /\ policyUp
    /\ IF PolicyAllows(a)
       THEN Proceed(a, "audit") /\ auditCall' = [auditCall EXCEPT ![a] = "sent"]
       ELSE Answer(a, Deny) /\ UNCHANGED auditCall
    /\ UNCHANGED <<vars, containers, stores, targetCall>>

PolicyLost(a) ==
    /\ gate[a] = "policy"
    /\ Answer(a, FailedClosed("policy"))
    /\ UNCHANGED <<vars, containers, stores, calls>>

\* AuditHandler: the record may be made after the gateway has given up.
AuditRecord(a) ==
    /\ auditUp /\ auditCall[a] = "sent"
    /\ auditCall' = [auditCall EXCEPT ![a] = "recorded"]
    /\ auditRecords' = auditRecords \cup {a}
    /\ UNCHANGED <<vars, containers, effects, gate, targetCall, reply>>

AuditAnswers(a) ==
    /\ gate[a] = "audit" /\ auditCall[a] = "recorded"
    /\ Proceed(a, "target")
    /\ targetCall' = [targetCall EXCEPT ![a] = "sent"]
    /\ UNCHANGED <<vars, containers, stores, auditCall>>

\* Mutants of AuditLost: the gateway goes on without the record; it waits until
\* the service is back.
IgnoredAuditLoss(a) ==
    /\ gate[a] = "audit"
    /\ Proceed(a, "target")
    /\ auditCall' = [auditCall EXCEPT ![a] = IF auditUp \/ @ = "recorded" THEN @ ELSE "lost"]
    /\ targetCall' = [targetCall EXCEPT ![a] = "sent"]
    /\ UNCHANGED <<vars, containers, stores>>
PatientAuditLoss(a) == AuditAnswers(a)

\* A refused connection leaves no call behind, a timeout may.
AuditLost(a) ==
    /\ gate[a] = "audit"
    /\ Answer(a, FailedClosed("audit"))
    /\ auditCall' = [auditCall EXCEPT ![a] = IF auditUp \/ @ = "recorded" THEN @ ELSE "lost"]
    /\ UNCHANGED <<vars, containers, stores, targetCall>>

TargetAnswers(a) ==
    /\ gate[a] \in {"target", "baseline"} /\ targetCall[a] = "applied"
    /\ Answer(a, Allow)
    /\ UNCHANGED <<vars, containers, stores, calls>>

TargetLost(a) ==
    /\ gate[a] \in {"target", "baseline"}
    /\ Answer(a, FailedClosed("target"))
    /\ UNCHANGED <<vars, containers, stores, calls>>

------------------------------------------------------------------------------
(* BaselineHandler and TargetHandler *)

BaselineBegin(a) ==
    /\ gate[a] = "idle"
    /\ Proceed(a, "baseline")
    /\ targetCall' = [targetCall EXCEPT ![a] = "sent"]
    /\ UNCHANGED <<vars, containers, stores, auditCall>>

\* The target marks the request as pending, sleeps for its delay, then appends.
TargetPending(a) ==
    /\ targetCall[a] = "sent"
    /\ targetCall' = [targetCall EXCEPT ![a] = "pending"]
    /\ UNCHANGED <<vars, containers, stores, gate, auditCall, reply>>

TargetApply(a) ==
    /\ targetCall[a] = "pending"
    /\ targetCall' = [targetCall EXCEPT ![a] = "applied"]
    /\ effects' = effects \cup {a}
    /\ UNCHANGED <<vars, containers, auditRecords, gate, auditCall, reply>>

------------------------------------------------------------------------------
(* lab.stop and lab.start *)

PolicyStopOrStart ==
    /\ policyUp' = ~policyUp
    /\ UNCHANGED <<vars, auditUp, stores, gate, calls, reply>>

\* A call nobody waits for any longer ends with the process that held it.
AuditStop ==
    /\ auditUp /\ auditUp' = FALSE /\ auditRecords' = {}
    /\ auditCall' = [a \in Access |-> IF auditCall[a] = "sent" /\ gate[a] # "audit"
                                      THEN "lost" ELSE auditCall[a]]
    /\ UNCHANGED <<vars, policyUp, effects, gate, targetCall, reply>>

AuditStart ==
    /\ ~auditUp /\ auditUp' = TRUE
    /\ UNCHANGED <<vars, policyUp, stores, gate, calls, reply>>

------------------------------------------------------------------------------
\* The steps of the credential service and of the gateways' call to it.
CredentialNext ==
    /\ \/ \E i \in IssueCall : (\E b \in IssueBody : IssueBegin(i, b)) \/ ServeIssue(i)
       \/ \E r \in RevokeCall : (\E g \in Group : RevokeBegin(r, g)) \/ RevokeApply(r)
       \/ \E a \in Access : ServeAccess(a) \/ AskLost(a)
       \/ Stop \/ Start \/ Tick
    /\ UNCHANGED labVars

\* What the handler of an access does once it has begun: it or a timeout moves on.
GatewayStep(a) ==
    \/ AfterIntrospection(a)
    \/ PolicyAnswers(a) \/ PolicyLost(a)
    \/ AuditAnswers(a) \/ AuditLost(a)
    \/ TargetAnswers(a) \/ TargetLost(a)

Introspect(a) == (ServeAccess(a) \/ AskLost(a)) /\ UNCHANGED labVars

LabNext ==
    \/ CredentialNext
    \/ \E a \in Access :
        \/ (\E q \in Question : GatewayBegin(a, q)) \/ GatewayStep(a)
        \/ BaselineBegin(a)
        \/ AuditRecord(a) \/ TargetPending(a) \/ TargetApply(a)
    \/ PolicyStopOrStart \/ AuditStop \/ AuditStart

LabSpec == LabInit /\ [][LabNext]_allVars

\* urlopen(timeout=3): the handler of an access never waits forever.
LabFairSpec ==
    LabSpec /\ \A a \in Access : WF_allVars(Introspect(a)) /\ WF_allVars(GatewayStep(a))

------------------------------------------------------------------------------
(* Properties *)

\* The accesses that went through a gateway, and not through the baseline endpoint.
Guarded == {a \in Access : access[a].pc # "idle"}

\* An effect a gateway caused was audited before, by whichever audit process was
\* running, and its credential was active and covered the action
\* (service.py:274-351).
EffectIsCheckedAndAudited ==
    \A a \in Guarded \cap effects :
        /\ access[a].pc = "active" /\ PolicyAllows(a)
        /\ auditCall[a] = "recorded"

\* An access that was refused, or that failed closed on the credential, policy or
\* audit service, never has an effect, not even a late one; only a lost answer of
\* the target can hide an effect from the client (service.py:292-343, 381-387).
RefusalHasNoEffect ==
    \A a \in Access :
        reply[a].decision \in {"deny", "error"} /\ reply[a].dependency # "target"
        => targetCall[a] = "none"

\* Whatever races or fails, an effect was checked and audited before and is not denied
\* to the client that asked for it (service.py:274-351, 381-387).
EffectsAreAccountable == EffectIsCheckedAndAudited /\ RefusalHasNoEffect

\* An access that began is answered, whichever services are stopped meanwhile:
\* every call of the handler ends in an answer or an OSError (service.py:78-93, 281-343).
EveryAccessIsAnswered == \A a \in Access : (gate[a] # "idle") ~> (gate[a] = "answered")
==============================================================================
