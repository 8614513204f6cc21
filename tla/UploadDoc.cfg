SPECIFICATION Spec
CONSTANTS
  Declared = 1
  Sources = {1}
  Window = 1
  LaneCap = 1
  TermCap = 1
  Cancellers = {c1}
  MaxRude = 0
  MaxWithdrawn = 0
INVARIANTS EchoedAbortIsHonoured
CHECK_DEADLOCK FALSE
