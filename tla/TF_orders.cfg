SPECIFICATION FlowSpec
CONSTANTS
  Orders = {o1}
  Execs = {e1, e2}
  Cancels = {c1}
  o1 = o1
  e1 = e1
  e2 = e2
  c1 = c1
  ExecOrder <- ExecsOfO1
  ExecQty <- GrowingQty
  ExecKey <- DistinctKeys
  OrderSide <- AllBuy
  InitOrders <- EmptyRepository
  InitPositions <- LongOne
  Updates <- AckAndCancel
  Decoding = "memory"
  MaxStarts = 1
  MaxDeliveries = 1
  MaxFaults = 0
  MaxRetries = 0
  DedupCap = 10
  DedupTrim = 5
  SerialControl = TRUE
  NoOrder = NoOrder
  NoPosition = NoPosition
  NoExec = NoExec
  NoUpdate = NoUpdate
  OrderQty <- TwoUnits
  PlacedAs <- EitherConstructor
  CancelTarget <- CancelO1
  MaxAttempts = 2
  MaxMishaps = 2
INVARIANTS
  KnownAtMarket
  FailedPlacementIsClosed
PROPERTIES
  ServiceInterface
CHECK_DEADLOCK FALSE
