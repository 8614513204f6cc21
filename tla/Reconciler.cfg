SPECIFICATION Spec
CONSTANTS
  BoxCap = 2
  Membership = {1}
  Departures = {1}
  TimelineDepth = 2
  BufferDepth = 1
  MaxRestartChain = 1
  MaxEvents = 3
  MaxCalls = 2
  FaultCost = 1
  MaxJunk = 1
  Anchors = {0, 1}
INVARIANTS ViewIsCommittedHistory ConvergedIsCurrent FrontierCovered
PROPERTIES LossKept
CHECK_DEADLOCK FALSE
