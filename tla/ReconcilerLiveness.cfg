SPECIFICATION FairSpec
CONSTANTS
  BoxCap = 2
  Membership = {1}
  Departures = {1}
  TimelineDepth = 2
  BufferDepth = 1
  MaxRestartChain = 1
  MaxEvents = 2
  MaxCalls = 2
  FaultCost = 0
  MaxJunk = 0
  Anchors = {0}
PROPERTIES Settles
CHECK_DEADLOCK FALSE
