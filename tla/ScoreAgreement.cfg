SPECIFICATION Spec
CONSTANTS
  MaxPrice     = 12
  MaxThreshold = 20
  BasisPoints  = 10
  MaxLong      = 240
CHECK_DEADLOCK FALSE
INVARIANTS
  Agreement
  ExactVerdict
