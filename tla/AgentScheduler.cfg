SPECIFICATION FairSpec
CONSTANTS
  a1 = a1
  a2 = a2
  a3 = a3
  Agents = {a1, a2, a3}
  DependencyLists <- ShortLists
  Priority <- MCPriority
  RetryLimit <- MCRetryLimit
  Resources <- MCResources
  Request <- MCRequest
  Samples <- MCSamples
  MaxAmount = 3
  AgingUnit = 2
  Blockers = {}
  MaxExecutions = 0
  MaxClock = 1
INVARIANTS
  ReservationsExact
  DependenciesMet
  NoLostWakeup
PROPERTIES
  ImplementsTaskGraph
  StopCascades
  Settles
