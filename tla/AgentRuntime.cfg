SPECIFICATION RuntimeSpec
SYMMETRY WorkerSymmetry
CONSTANTS
  a1 = a1
  a2 = a2
  Agents = {a1, a2}
  DependencyLists <- Lists
  Priority <- SamePriority
  RetryLimit <- OneRetry
  Resources <- OneResource
  Request <- OneUnit
  Samples <- TwoFit
  MaxAmount = 2
  AgingUnit = 1
  Blockers = {}
  MaxExecutions = 0
  MaxClock = 0
  w1 = w1
  w2 = w2
  Workers = {w1, w2}
  Kind <- Mixed
  NoAgent = NoAgent
  MaxStarts = 2
INVARIANTS
  TokensMatchExecutions
  CompletedHasResult
  ExecutionsDisjoint
  NoSpuriousCancel
