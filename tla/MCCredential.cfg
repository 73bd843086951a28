\* Issues, revokes, a question and stops of the container, interleaved; every call that was served ends.
SPECIFICATION FairSpec
CONSTANTS
    IssueCall = {i1, i2}
    RevokeCall = {r1, r2}
    Access = {a1}
    IssueBody <- MCIssueBody
    Question <- MCChildQuestion
    Group = {"authority"}
    Handle = {"parent", "child"}
    Point = {"gateway-a", "gateway-b"}
    AnySender = "*"
    Delay <- MCDelay
    MaxTime = 1
INVARIANTS
    FilesAndTableAgree
    AcknowledgedRevocationDenies
PROPERTIES
    CallsFinish
    ImplementsRegistry
CHECK_DEADLOCK FALSE
