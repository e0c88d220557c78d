CONSTANTS
  KVAgents = {g1, g2}
  NoOwner = NoOwner
  BlockCount = 2
  BlockSize = 2
  Sizes = {0, 3}
  Handles = {h1, h2, h3}
  NoRange = NoRange
  Contents = {0, 1}
  Modulus = 2
  QueueAgents = {g1, g2}
  QueueSize = 3
  NoId = NoId
  Pickers = {p1, p2, p3}
  EngineAgents = {g1, g2}
  NoLease = NoLease
  MaxContexts = 2
  MaxIds = 3
  ModelBytes = 2
  ContextBytes = 2
  SafetyMargin = 1
  MemorySamples <- SomeMemory
  Width = 16
  q1 = q1
  q2 = q2
  q3 = q3
  q4 = q4
  EngineThreads = {p1, p2}
  NoThread = NoThread
  Prompts = {q1, q2, q3, q4}
  NoPrompt = NoPrompt
  TokenCount <- Counts
  MaxShared = 2
  Private = {1}
  Window = 6
  MaxTurn = 3
  MaxLoads = 2
  Runners = {1, 2}
  Parent = 0
  PipeSize = 2
  Capacity = 1
  MaxWritten <- FirstWrites
  d1 = d1
  d2 = d2
  Daemons = {d1, d2}
  Nobody = Nobody
  CallCount = 3
  Requests <- SomeRequests
  Foreign = {1}
  AgentIds = {1, 2}
  ControlBacklog = 2
  LongError <- ErrorText
  MaxString = 2
  MaxMessage = 60
  WordRange = 8
  MaxTimeout = 4
  MaxDataType = 3
  MaxElements = 2
SPECIFICATION Spec
INVARIANTS
  ComponentsTypeOK
  HeldBlocksCounted
  NoWaiterForgotten
  RunsAccounted
  SocketKept
  PrefixesExact
  ModelHeld
PROPERTIES
  ExclusiveDataKept
  ImplementsFifo
  EngineConsistent
  ControlImplementsRemoteCall
  DrivenRunsReturn
  DaemonResponds
CHECK_DEADLOCK FALSE
