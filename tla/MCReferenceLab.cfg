\* An access races an issue, a revocation and stops of the services it needs, and is answered.
SPECIFICATION LabFairSpec
CONSTANTS
    IssueCall = {i1}
    RevokeCall = {r1}
    Access = {a1}
    IssueBody <- MCIssueBody
    Question <- MCQuestion
    Group = {"authority"}
    Handle = {"parent"}
    Point = {"gateway-a"}
    AnySender = "*"
    Delay <- MCDelay
    MaxTime = 2
INVARIANTS
    EffectsAreAccountable
PROPERTY EveryAccessIsAnswered
CHECK_DEADLOCK FALSE
