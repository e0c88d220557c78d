CONSTANTS
  a1 = a1
  a2 = a2
  t1 = t1
  t2 = t2
  NoAgent = NoAgent
  NoThread = NoThread
  Agents <- TwoAgents
  Threads <- OneThread
  MaxResident = 1
  MaxLogical = 3
  MaxContextId = 3
  MaxPins = 2
  MaxTurns = 2
  SwapEnabled = TRUE
  RollbackMayFail = FALSE
SPECIFICATION FairTopSpec
INVARIANTS
  HistoryKept
PROPERTIES
  LockReturned
CHECK_DEADLOCK FALSE
