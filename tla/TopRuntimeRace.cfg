CONSTANTS
  a1 = a1
  a2 = a2
  t1 = t1
  t2 = t2
  NoAgent = NoAgent
  NoThread = NoThread
  Agents <- TwoAgents
  Threads <- TwoThreads
  MaxResident = 1
  MaxLogical = 1
  MaxContextId = 2
  MaxPins = 2
  MaxTurns = 2
  SwapEnabled = TRUE
  RollbackMayFail = FALSE
SPECIFICATION TopSpec
INVARIANTS
  HistoryKept
CHECK_DEADLOCK FALSE
