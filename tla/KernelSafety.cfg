SPECIFICATION Spec
CONSTANTS
  MaxCalls = 3
  CallShapes <- Shapes
  QueueDepth = 1
  OutboundBytes = 4
  InFlight = 2
  MaxReconnectAttempts = 1
  MaxGeneration = 3
  Incarnations = {1, 2}
INVARIANTS
  TypeOK
  SettledOnceWithItsOwnAnswer
  HonestClassification
  ReplayOnlyWhereDeduplicated
  TablesExact
  SendOrder
  ReconnectDriven
PROPERTIES
  StopIsFinal
CHECK_DEADLOCK FALSE
