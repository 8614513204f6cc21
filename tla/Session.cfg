SPECIFICATION SessionSpec
CONSTANTS
  MaxCalls = 1
  CallShapes <- Shapes
  QueueDepth = 1
  OutboundBytes = 2
  InFlight = 1
  MaxReconnectAttempts = 1
  MaxGeneration = 3
  Incarnations = {1, 2}
  NoKey = NoKey
INVARIANTS
  AnswersAreReal
PROPERTIES
  KeepsPromise
CHECK_DEADLOCK FALSE
