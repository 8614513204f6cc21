SPECIFICATION FairSpec
CONSTANTS
  t1 = t1
  t2 = t2
  Nobody = Nobody
  Threads = {t1, t2}
  MaxCalls = 2
  MaxDrives = 3
  MaxDepth = 2
INVARIANTS DeliveredInDriveOrder NothingStranded OneAnswerToCome StopIsTotal
PROPERTIES EveryWakeRuns
CHECK_DEADLOCK FALSE
