SPECIFICATION Spec
CONSTANTS
  Declared = 2
  Sources = {1, 2, 3}
  Window = 1
  LaneCap = 1
  TermCap = 1
  Cancellers = {c1}
  MaxRude = 0
  MaxWithdrawn = 1
INVARIANTS HonestProducerServed
PROPERTIES UploadEnds
CHECK_DEADLOCK FALSE
