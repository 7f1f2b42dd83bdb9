SPECIFICATION FairSpec
CONSTANTS
  Callers = {p, q}
  Orders = {a, b}
  NoCaller = NoCaller
  NoOrder = NoOrder
  FirstId = 1000
  MaxCalls = 4
  MaxFaults = 2
  Scale = 2
  MaxI64 = 4
INVARIANTS
  IdsNotShared
  PlacedIsReachable
PROPERTIES
  CallsReturn
CHECK_DEADLOCK FALSE
