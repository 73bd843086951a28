CONSTANTS
  Changes <- MCChanges
  Requested <- MCRequested
  Authorities <- MCAuthorities
  AfterStates <- MCAfterStates
  InitialState <- MCInitialState
  Policies <- MCPolicies
  Mandates <- MCMandates
  Verdicts <- MCVerdicts
  MaxTick = 2
  MaxDecisions = 2
  None = None
  Unset = Unset
SPECIFICATION MCSpec
INVARIANTS
  ControllingDecisionIsTheLastBefore
  LastEnactmentWins
  VerdictsAreOfTheirTime
  BaselinesDiscriminate
CHECK_DEADLOCK FALSE
