CONSTANTS
  a1 = a1
  a2 = a2
  t1 = t1
  t2 = t2
  NoAgent = NoAgent
  NoThread = NoThread
  Agents <- TwoAgents
  Threads <- TwoThreads
  MaxResident = 1
  MaxLogical = 2
  MaxContextId = 3
  MaxPins = 2
  MaxTurns = 2
  SwapEnabled = TRUE
  RollbackMayFail = TRUE
SPECIFICATION TopSpec
SYMMETRY Interchangeable
INVARIANTS
  TopTypeOK
  NoForeignTurns
  SnapshotsExact
  ContextsBegun
  ContextsSound
  StatsExact
PROPERTIES
  PinnedStays
CHECK_DEADLOCK FALSE
