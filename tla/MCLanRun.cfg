CONSTANTS
  Address <- MCAddress
  PrivateAddress <- MCPrivate
  Port <- MCPort
  Target <- MCTarget
  Call <- MCCall
  Budgets <- MCBudgets
  Timeout = 1
  VerifyTimeout = 1
  McpPaths = 2
  Trickle = TRUE
  Horizon = 8
SPECIFICATION Spec
INVARIANTS
  ScopeDecision
  ScopeExact
  ScopeAuthorised
  NoPacketWithoutAuthority
  PacedAndBounded
  CompleteUnlessStopped
  FindingsMatchResults
  StatusTellsOutcome
  HardDeadline
  AbortHalts
PROPERTIES
  Terminates
  ImplementsEngagement
