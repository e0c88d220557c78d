SPECIFICATION FairRuntimeSpec
CONSTANTS
  a1 = a1
  a2 = a2
  Agents = {a1}
  DependencyLists <- Lists
  Priority <- SamePriority
  RetryLimit <- NoRetry
  Resources <- OneResource
  Request <- OneUnit
  Samples <- TwoFit
  MaxAmount = 2
  AgingUnit = 1
  Blockers = {}
  MaxExecutions = 0
  MaxClock = 0
  w1 = w1
  w2 = w2
  Workers = {w1}
  Kind <- Commands
  NoAgent = NoAgent
  MaxStarts = 1
PROPERTIES
  StopReturns
