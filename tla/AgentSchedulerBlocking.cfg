SPECIFICATION Spec
CONSTANTS
  a1 = a1
  a2 = a2
  a3 = a3
  Agents = {a1, a2, a3}
  DependencyLists <- ShortLists
  Priority <- MCPriority
  RetryLimit <- MCRetryLimit
  Resources <- MCResources
  Request <- MCRequest
  Samples <- MCSamples
  MaxAmount = 3
  AgingUnit = 2
  Blockers = {a1}
  MaxExecutions = 2
  MaxClock = 2
INVARIANTS
  ReadyConsistent
  ReservationsCover
