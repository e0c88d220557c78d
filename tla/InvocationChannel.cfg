CONSTANTS
  AgentCount = 2
  RetryLimit <- FirstRetries
  Regions = {1, 2, 3}
  Producers = {1, 2}
  NoRegion = 0
  Dependencies <- Chain
  Specs <- SmallSpecs
  HandlerResults <- SmallResults
  MaxClients = 1
  MaxOutput = 2
  Backlog = 2
  ServerPid = 2
  MaxString = 2
  MaxMessage = 50
  WordRange = 8
  MaxTimeout = 4
  MaxDataType = 3
  MaxInputs = 2
SPECIFICATION ChannelSpec
INVARIANTS
  ResultsImmutable
  NothingLeaks
  StopWaits
PROPERTIES
  ImplementsRemoteCall
  CallsReturn
CHECK_DEADLOCK FALSE
