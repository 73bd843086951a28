\* Every action decided at action time and at audit time, with evidence discarded and cited again.
SPECIFICATION BenchmarkSpec
CONSTANTS
  None = None
  acme = acme
  zeta = zeta
  boss = boss
  staff = staff
  bot = bot
  rival = rival
  guest = guest
  planner = planner
  worker = worker
  helper = helper
  doc = doc
  vault = vault
  read = read
  write = write
  low = low
  high = high
  v1 = v1
  v2 = v2
  work = work
  Principals <- MCPrincipals
  PrincipalOrg <- MCPrincipalOrg
  PrincipalOwner <- MCPrincipalOwner
  Workloads <- MCWorkloads
  Agents <- MCAgents
  AgentOrg <- MCAgentOrg
  AgentOwner <- MCAgentOwner
  AgentParent <- MCAgentParent
  Resources <- MCResources
  ResourceOrg <- MCResourceOrg
  ResourceOwner <- MCResourceOwner
  ResourceActions <- MCResourceActions
  Policies = {v1, v2}
  InitialEvidence <- MCInitialEvidence
  Delegations <- OracleDelegations
  Runtimes <- OracleRuntimes
  Credentials <- OracleCredentials
  Attempts <- OracleAttempts
  EvidenceSets <- OneEvidenceSet
  Times = {1, 2, 3, 4, 5, 6, 7, 8}
  Bindings <- MCBindings
  MaxActions = 1
INVARIANTS
  AllowIsBackedToTheRoot
  AllowedProposalIsGrantable
  AuditFlipsAreExplained
  ReconstructionNamesWhatGoverned
CHECK_DEADLOCK FALSE
