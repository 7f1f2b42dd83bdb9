SPECIFICATION FairSpec
CONSTANTS
  Callers = {c1, c2, c3}
  FailureThreshold = 2
  SuccessThreshold = 2
PROPERTIES
  ClosesAfterFailures
CHECK_DEADLOCK FALSE
