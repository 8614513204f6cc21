SPECIFICATION FairSpec
CONSTANTS
  MaxCalls = 3
  CallShapes <- KeyedOnly
  QueueDepth = 1
  OutboundBytes = 3
  InFlight = 1
  MaxReconnectAttempts = 1
  MaxGeneration = 2
  Incarnations = {1, 2}
PROPERTIES
  EveryCallEnds
  ReconnectEnds
CHECK_DEADLOCK FALSE
