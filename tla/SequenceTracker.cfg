SPECIFICATION Spec
CONSTANTS
  Modulus = 8
  HalfRange = 4
  MaxSent = 6
  MaxHeard = 5
  None = None
INVARIANTS
  VerdictIsTrue
  LossAddsUp
CHECK_DEADLOCK FALSE
