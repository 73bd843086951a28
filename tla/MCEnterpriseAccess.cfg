CONSTANTS
  Principals <- MCPrincipals
  Accounts <- MCAccounts
  Groups <- MCGroups
  Roles <- MCRoles
  Permissions <- MCPermissions
  TenantOf <- MCTenantOf
  Attribute <- MCAttribute
  Canonical <- MCCanonical
  Cells <- MCCells
  Slots <- MCSlots
  StaticSod <- MCStaticSod
  DynamicSod <- MCDynamicSod
  Birthrights <- MCBirthrights
  Inputs <- MCInputs
  MaxPerCell = 3
  MaxTotal = 32
  MaxRelations = 39
  MaxDepth = 2
  None = None
  Pending = Pending
  Failed = Failed
  Targets = {"doc"}
  Units = {}
  Humans <- MCHumans
  TargetOf <- MCTargetOf
  AttributeRank <- MCAttributeRank
  ValuesOf <- MCValuesOf
  MaxExpansions = 14
  MaxPathsPerCell = 2
  MaxRebacPaths = 8
  AgentAccounts <- MCAgentAccounts
  Runtimes <- MCRuntimes
  Credentials <- MCCredentials
  Capabilities <- MCCapabilities
  Delegations <- MCDelegations
  Evidence = {"e1", "e2"}
  MaxEvents = 7
SPECIFICATION OverlaySpec
INVARIANTS
  EffectiveIsReachability
  SessionsNeverWiden
  FinalAllowIsTheOwners
  KnownOutcomesAreStable
  SilentCellsIgnorePrecedence
  RevocationsCutOffWhatFollows
  LabelsFollowDecisions
  AllowedActionsAttributeUniquely
CHECK_DEADLOCK FALSE
