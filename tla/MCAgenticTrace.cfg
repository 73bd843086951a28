\* Grants, credentials, runtimes, evidence, actions and revocations over six timestamps; traces of three lines.
SPECIFICATION MCSpec
CONSTANTS
  None = None
  Nothing = Nothing
  Null = Null
  ActionOrder <- TraceActionOrder
  Truth <- TraceTruth
  Cited <- TraceCited
  Lines <- TraceLines
  MaxLines = 3
  StimulusOf <- LabStimulusOf
  KindOf <- LabKindOf
  Studies <- MCStudies
  Study <- MCStudy
  Read <- LabRead
  acme = acme
  zeta = zeta
  boss = boss
  staff = staff
  bot = bot
  rival = rival
  guest = guest
  planner = planner
  worker = worker
  helper = helper
  doc = doc
  vault = vault
  read = read
  write = write
  low = low
  high = high
  v1 = v1
  v2 = v2
  work = work
  Principals <- MCPrincipals
  PrincipalOrg <- MCPrincipalOrg
  PrincipalOwner <- MCPrincipalOwner
  Workloads <- MCWorkloads
  Agents <- MCAgents
  AgentOrg <- MCAgentOrg
  AgentOwner <- MCAgentOwner
  AgentParent <- MCAgentParent
  Resources <- MCResources
  ResourceOrg <- MCResourceOrg
  ResourceOwner <- MCResourceOwner
  ResourceActions <- MCResourceActions
  Policies = {v1, v2}
  InitialEvidence <- LedgerEvidence
  Delegations <- WorldDelegations
  Credentials <- LedgerCredentials
  Runtimes <- WorldRuntimes
  Attempts <- LedgerAttempts
  EvidenceSets <- LedgerEvidenceSets
  Times = {1, 2, 3, 4, 5, 6}
INVARIANTS
  RevocationClosed
  AuthorityNeverWidens
  ChainsAreRootedInOneOrganisation
  ValidTracesAreScored
  RatesFollowFindings
  ReceiptsAreFixedBeforeTheTruth
PROPERTY ImplementsLedger
CHECK_DEADLOCK FALSE
