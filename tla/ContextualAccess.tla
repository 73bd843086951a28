-------------------------- MODULE ContextualAccess --------------------------
(***************************************************************************)
(* A contextual access package: facts about subjects that are revised over *)
(* integer ticks, the attempts by which a feed delivers the revisions, the *)
(* policies, and the requests decided from them.  The package is drawn up  *)
(* (initial facts, events, attempts), projected, which validates it, and   *)
(* compiled request by request: each request is decided on the canonical   *)
(* facts of its tick and on those the feed has presented by then.          *)
(*                                                                         *)
(* A replay is a fold over a subsequence of the events.  It is modelled by *)
(* the set of their positions: the fold raises or not, and ends in a state *)
(* that depends on that set alone.                                         *)
(***************************************************************************)
EXTENDS Naturals, Sequences, FiniteSets

CONSTANTS
  Keys,                  \* the stable keys of facts, one per subject and object
  KindOf,                \* the kind of the facts of a key
  ValuesOf,              \* what a fact of the key may say
  Lifetimes,             \* how long a fact holds: a number of ticks, or None for ever
  Policies,              \* records [scope, rules]
  Requests,              \* the requests in index order, records [tick, atom, device]
  MaxTick,               \* bound: the last tick of an event or of an attempt
  MaxEvents,             \* bound: events in a package
  MaxDeliveryAttempts,   \* bound: attempts in a package
  None

VARIABLES
  stage,      \* "drawing", "delivering", "public", "refused", "raised" or "compiled"
  initial,    \* for each key its initial fact, or None
  events,     \* the fact revisions in canonical order: by effective tick, then by id
  attempts,   \* for each event the ticks of its delivery attempts, by attempt index
  cases       \* the case truths compiled so far, one per request

vars == <<stage, initial, events, attempts, cases>>

Ticks == 0..MaxTick

ClosedWorld == {"case_assignment", "on_call", "business_justification"}
OpenWorld == {"device_posture", "risk_signal"}

ASSUME ContextualAssumption ==
  /\ MaxTick \in Nat
  /\ MaxEvents \in Nat
  /\ MaxDeliveryAttempts \in Nat
  /\ KindOf \in [Keys -> ClosedWorld \cup OpenWorld]
  /\ Lifetimes \subseteq Nat \cup {None}
  /\ Len(Requests) \in Nat
  /\ DOMAIN Requests = 1..Len(Requests)
  /\ \A n \in DOMAIN Requests : Requests[n].tick \in Nat

\* A revision in force from start, until end when there is one.
Fact(key, revision, start, lifetime, tombstone, value) ==
  [key |-> key, revision |-> revision, start |-> start,
   end |-> IF lifetime = None THEN None ELSE start + lifetime,
   tombstone |-> tombstone, value |-> value]

\* Initial facts are live revisions zero at tick zero, one per key.
InitialFacts(key) ==
  {Fact(key, 0, 0, lifetime, FALSE, value) : lifetime \in Lifetimes, value \in ValuesOf[key]}

(***************************************************************************)
(* materialize_contextual_state on the events at a set S of positions.     *)
(***************************************************************************)
Earlier(S, i) == {j \in S : j < i /\ events[j].key = events[i].key}

\* Mutant: revisions of a key only have to grow.
GrowingRevision(S, i) ==
  IF \E j \in Earlier(S, i) : events[j].revision >= events[i].revision
  THEN events[i].revision + 1 ELSE events[i].revision

ExpectedRevision(S, i) ==
  Cardinality(Earlier(S, i)) + (IF initial[events[i].key] = None THEN 0 ELSE 1)

\* The fold does not raise: the revisions of a key are contiguous from zero.
Materializes(S) == \A i \in S : events[i].revision = ExpectedRevision(S, i)

Latest(S, key) ==
  LET revisions == {i \in S : events[i].key = key} IN
  IF revisions = {} THEN initial[key]
  ELSE events[CHOOSE i \in revisions : \A j \in revisions : j <= i]

IsActive(fact, t) ==
  /\ fact # None
  /\ ~fact.tombstone
  /\ fact.start <= t
  /\ fact.end = None \/ t < fact.end

\* active_contextual_facts: the latest fact of each key, where it is in force.
ActiveFacts(S, t) == {f \in {Latest(S, key) : key \in Keys} : IsActive(f, t)}

\* The events in effect at a tick: a request sees all events of its own tick.
Canonical(t) == {i \in DOMAIN events : events[i].start <= t}

\* presented_contextual_state: the events delivered at least once by a tick.
Presented(t) ==
  {i \in DOMAIN events : \E n \in DOMAIN attempts[i] : attempts[i][n] <= t}

\* contextual_checkpoints: the first events of the canonical order.
Prefix(count) == {i \in DOMAIN events : i <= count}

(***************************************************************************)
(* evaluate_contextual_request: three truth values, deny overrides.        *)
(***************************************************************************)
Outcome(b) == IF b THEN "true" ELSE "false"

\* The facts a predicate looks at; that of a device is named by the request.
Matching(p, request, facts) ==
  {f \in facts : KindOf[f.key] = p.kind
                 /\ IF p.kind = "device_posture" THEN f.key = request.device ELSE f.key \in p.keys}

\* A missing relation is false; a missing or unknown observation is unknown.
Evaluate(p, request, facts) ==
  LET matching == Matching(p, request, facts) IN
  IF p.kind \in ClosedWorld
  THEN Outcome(\E f \in matching : f.value \in p.accepts)
  ELSE IF matching = {} \/ \E f \in matching : f.value = "unknown"
       THEN "unknown"
       ELSE Outcome(\A f \in matching : f.value \in p.accepts)

Compose(outcomes, composition) ==
  LET absorbing == IF composition = "all" THEN "false" ELSE "true"
      neutral == IF composition = "all" THEN "true" ELSE "false" IN
  IF absorbing \in outcomes THEN absorbing
  ELSE IF outcomes \subseteq {neutral} THEN neutral ELSE "unknown"

Applicable(request) == UNION {policy.rules : policy \in {p \in Policies : request.atom \in p.scope}}

Matched(rule, request, facts) ==
  Compose({Evaluate(p, request, facts) : p \in rule.predicates}, rule.composition) = "true"

Decision(request, facts) ==
  LET matched == {rule.effect : rule \in {r \in Applicable(request) : Matched(r, request, facts)}} IN
  IF "deny" \in matched \/ "allow" \notin matched THEN "deny" ELSE "allow"

(***************************************************************************)
(* Drawing a package up.                                                   *)
(***************************************************************************)
Init ==
  /\ stage = "drawing"
  /\ initial \in [Keys -> (UNION {InitialFacts(key) : key \in Keys}) \cup {None}]
  /\ \A key \in Keys : initial[key] \in InitialFacts(key) \cup {None}
  /\ events = <<>>
  /\ attempts = <<>>
  /\ cases = <<>>

NextRevision(key) ==
  Cardinality({i \in DOMAIN events : events[i].key = key}) + (IF initial[key] = None THEN 0 ELSE 1)

InsertAt(s, i, e) == SubSeq(s, 1, i - 1) \o <<e>> \o SubSeq(s, i, Len(s))

\* The next revision of a key takes effect at tick t.  Its id, a digest, puts it
\* at any place among the events of that tick.
AddEvent(fact) ==
  /\ stage = "drawing"
  /\ Len(events) < MaxEvents
  /\ \A i \in DOMAIN events : events[i].start <= fact.start
  /\ \E i \in 1..Len(events) + 1 :
       /\ \A j \in DOMAIN events : j < i \/ events[j].start = fact.start
       /\ events' = InsertAt(events, i, fact)
  /\ UNCHANGED <<stage, initial, attempts, cases>>

UpsertFact(key, t, lifetime, value) ==
  AddEvent(Fact(key, NextRevision(key), t, lifetime, FALSE, value))

\* What a removed fact says, and for how long, is never read.
RemoveFact(key, t) ==
  AddEvent(Fact(key, NextRevision(key), t, None, TRUE, None))

EndOfEvents ==
  /\ stage = "drawing"
  /\ stage' = "delivering"
  /\ attempts' = [i \in DOMAIN events |-> <<>>]
  /\ UNCHANGED <<initial, events, cases>>

AttemptCount(a) == Cardinality(UNION {{i} \X DOMAIN a[i] : i \in DOMAIN a})

\* One more attempt to deliver an event, late, early, again or out of order.
AddAttempt(i, t) ==
  /\ stage = "delivering"
  /\ AttemptCount(attempts) < MaxDeliveryAttempts
  /\ \A j \in DOMAIN events : j > i => attempts[j] = <<>>
  /\ \A n \in DOMAIN attempts[i] : attempts[i][n] <= t
  /\ attempts' = [attempts EXCEPT ![i] = Append(@, t)]
  /\ UNCHANGED <<stage, initial, events, cases>>

\* project_contextual_access_public: what validation accepts.
EveryEventIsAttempted == \A i \in DOMAIN events : attempts[i] # <<>>

EveryDeviceIsNamed ==
  \A n \in DOMAIN Requests :
    (\E rule \in Applicable(Requests[n]) : \E p \in rule.predicates : p.kind = "device_posture")
      => Requests[n].device # None

Accepted ==
  /\ Materializes(DOMAIN events)
  /\ EveryEventIsAttempted
  /\ EveryDeviceIsNamed

Project ==
  /\ stage = "delivering"
  /\ stage' = IF Accepted THEN "public" ELSE "refused"
  /\ UNCHANGED <<initial, events, attempts, cases>>

(***************************************************************************)
(* compile_contextual_access_truth, one request at a time.                 *)
(***************************************************************************)
CanonicalDecision(r) == Decision(r, ActiveFacts(Canonical(r.tick), r.tick))

\* Mutant: the presented facts are not cut off where they end.
PresentedUnexpired(r) ==
  Decision(r, {f \in {Latest(Presented(r.tick), key) : key \in Keys} : f # None /\ ~f.tombstone})

PresentedDecision(r) == Decision(r, ActiveFacts(Presented(r.tick), r.tick))

CaseTruth(r) ==
  [canonical |-> CanonicalDecision(r), presented |-> PresentedDecision(r),
   stale |-> CanonicalDecision(r) # PresentedDecision(r)]

Raises(r) == ~Materializes(Canonical(r.tick)) \/ ~Materializes(Presented(r.tick))

CompileCase ==
  /\ stage = "public"
  /\ Len(cases) < Len(Requests)
  /\ LET r == Requests[Len(cases) + 1] IN
     IF Raises(r)
     THEN stage' = "raised" /\ UNCHANGED cases
     ELSE /\ cases' = Append(cases, CaseTruth(r))
          /\ stage' = IF Len(cases') = Len(Requests) THEN "compiled" ELSE "public"
  /\ UNCHANGED <<initial, events, attempts>>

Next ==
  \/ \E key \in Keys, t \in Ticks, lifetime \in Lifetimes :
       \E value \in ValuesOf[key] : UpsertFact(key, t, lifetime, value)
  \/ \E key \in Keys, t \in Ticks : RemoveFact(key, t)
  \/ EndOfEvents
  \/ \E i \in DOMAIN events, t \in Ticks : AddAttempt(i, t)
  \/ Project
  \/ CompileCase

(***************************************************************************)
(* Properties.                                                             *)
(***************************************************************************)
IsPublic == stage \in {"public", "raised", "compiled"}

\* What a feed has presented of a key is the beginning of its history, or the
\* replay raises: a late revision is never skipped, and none is taken for another.
PresentedIsAPrefix ==
  IsPublic =>
    \A t \in Ticks : Materializes(Presented(t)) =>
      \A i \in Presented(t) : Earlier(DOMAIN events, i) \subseteq Presented(t)

\* An event a decision reads that its request meets late or too early.
Reads(r, key) ==
  \E rule \in Applicable(r) : \E p \in rule.predicates :
    IF p.kind = "device_posture" THEN key = r.device ELSE key \in p.keys

FirstDelivery(i) == attempts[i][1]

Displaced(r, i) ==
  \/ events[i].start <= r.tick /\ r.tick < FirstDelivery(i)
  \/ FirstDelivery(i) <= r.tick /\ r.tick < events[i].start

\* A case is stale only over an event of a fact its policies read, delivered after
\* the request that was to see it or before it took effect: repeated deliveries and
\* their order within the ticks never change a decision.
StaleIsExplained ==
  \A n \in DOMAIN cases :
    cases[n].stale => \E i \in DOMAIN events : Reads(Requests[n], events[i].key) /\ Displaced(Requests[n], i)

\* The compiler raises only where a revision was presented before one it follows.
RaisedIsAGap ==
  stage = "raised" =>
    \E i, j \in DOMAIN events :
      /\ events[i].key = events[j].key
      /\ events[i].revision < events[j].revision
      /\ FirstDelivery(j) < FirstDelivery(i)

\* A feed shows the beginning of a history or makes the replay raise, and it makes it
\* raise only by showing a revision before one that it follows.
PresentationIsSound == PresentedIsAPrefix /\ RaisedIsAGap

\* projection.py says that the compiler compiles canonical and presented-feed
\* decisions from exact public inputs.
PublicPackagesCompile == stage # "raised"

Spec == Init /\ [][Next]_vars
=============================================================================
