CONSTANTS
  Cases = {1}
  Families = {"identity", "context"}
  ProblemStates = {"present"}
  ClearStates = {"healthy"}
  MaxTick = 2
  MaxEvents = 2
  MaxCheckpoints = 2
  None = None
  Cycles = 1
  Seeds = {0, 20260804}
  Orders <- MCOrders
  Unset = Unset
SPECIFICATION MCSpec
INVARIANT
  ValidationDecides
CHECK_DEADLOCK FALSE
