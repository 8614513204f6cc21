SPECIFICATION FairSpec
CONSTANTS
  up = up
  down = down
  Calls = {up, down}
  Uploads = {up}
  Total <- Totals
  SourceLengths = {1, 2}
  Window = 1
  MaxStreams = 1
  InFlight = 1
  MaxJunk = 2
INVARIANTS TimersGuardCalls
PROPERTIES HonestDaemonNotFaulted SuccessIsComplete EveryStreamEnds
CHECK_DEADLOCK FALSE
