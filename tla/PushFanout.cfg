SPECIFICATION FairSpec
CONSTANTS
  pump = pump
  poll = poll
  Tasks = {pump, poll}
  Pump = pump
  ChannelCap = 2
  MaxEvents = 4
  MaxLapses = 1
  MaxSubscribes = 1
INVARIANTS PushedOnce NoSilentDivergence
PROPERTIES EventuallyPushed
CHECK_DEADLOCK FALSE
