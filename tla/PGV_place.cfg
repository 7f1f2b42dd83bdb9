SPECIFICATION Spec
CONSTANTS
  Callers = {p}
  Keys = {k1, k2}
  OwnIds = {o1}
  MaxCalls = 3
INVARIANTS
  PlacedMeansFilled
CHECK_DEADLOCK FALSE
