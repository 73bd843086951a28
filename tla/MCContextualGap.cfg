\* A feed that presents a later revision before an earlier one.
SPECIFICATION MCSpec
CONSTANTS
  None = None
  Nothing = Nothing
  asg = asg
  dev = dev
  read = read
  write = write
  rq = rq
  ev = ev
  fault = fault
  sut = sut
  feed = feed
  stranger = stranger
  trace = trace
  log = log
  v1 = v1
  v2 = v2
  Keys <- MCKeys
  KindOf <- MCKindOf
  ValuesOf <- MCValuesOf
  Lifetimes = {None, 1}
  Policies <- MCPolicies
  Requests <- MCRequests
  MaxTick = 2
  MaxEvents = 2
  MaxDeliveryAttempts = 3
  Packages <- MCPackages
  Probes <- MCProbes
  Components <- MCComponents
  KnownComponents <- MCKnownComponents
  Handles = {1, 2}
  KindOfHandle <- MCKindOfHandle
  Observations <- MCObservations
  FeedBound = 1
  AcceptanceBound = 2
  DecisionBound = 2
  MaxProbes = 2
INVARIANTS
  PublicPackagesCompile
CHECK_DEADLOCK FALSE
