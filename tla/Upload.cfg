SPECIFICATION Spec
CONSTANTS
  Declared = 1
  Sources = {1}
  Window = 1
  LaneCap = 1
  TermCap = 1
  Cancellers = {c1, c2}
  MaxRude = 1
  MaxWithdrawn = 0
SYMMETRY CancellersAlike
VIEW Relevant
INVARIANTS FinalizedIsWhole
PROPERTIES CancelAnswersTrue
CHECK_DEADLOCK FALSE
