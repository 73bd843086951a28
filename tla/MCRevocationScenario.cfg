\* L06 with up to one lost call, to its end.
SPECIFICATION ScenarioFairSpec
CONSTANTS
    i1 = i1
    i2 = i2
    r1 = r1
    flight = flight
    attempt = attempt
    pollA = pollA
    pollB = pollB
    IssueCall = {i1, i2}
    RevokeCall = {r1}
    Access = {flight, attempt, pollA, pollB}
    IssueBody <- MCIssueBody
    Question <- MCQuestion
    Group = {"authority"}
    Handle = {"parent", "child"}
    Point = {"gateway-a", "gateway-b"}
    AnySender = "*"
    Delay <- MCDelay
    MaxTime = 4
    ParentIssue = i1
    ChildIssue = i2
    ParentBody <- MCParentBody
    ChildBody <- MCChildBody
    GroupRevoke = r1
    ScenarioGroup = "authority"
    Flight = flight
    Attempt = attempt
    Poller <- MCPoller
    Ask <- MCAsk
    FlightPoint = "gateway-a"
    AttemptOrder <- MCAttemptOrder
    Bound = 3
    MaxStart = 1
    MaxLosses = 1
INVARIANTS
    AcknowledgedPointIsClosed
    TheRunnerIsNoLaxerThanTheContract
PROPERTY ScenarioEnds
CHECK_DEADLOCK FALSE
