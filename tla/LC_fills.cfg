SPECIFICATION Spec
CONSTANTS
  Orders = {o1}
  Execs = {e1, e2}
  o1 = o1
  e1 = e1
  e2 = e2
  ExecOrder <- ExecsOfO1
  ExecQty <- GrowingQty
  ExecKey <- DistinctKeys
  OrderSide <- AllBuy
  InitOrders <- PendingCancelledOrUnknown
  InitPositions <- AnyPosition
  Updates <- NoUpdates
  Decoding = "memory"
  MaxStarts = 1
  MaxDeliveries = 2
  MaxFaults = 2
  MaxRetries = 1
  DedupCap = 1
  DedupTrim = 1
  SerialControl = FALSE
  NoOrder = NoOrder
  NoPosition = NoPosition
  NoExec = NoExec
  NoUpdate = NoUpdate
INVARIANTS
  NeverOverfilled
  FillEffectsInOrder
  ProcessedOnlyAfterEffects
  OrderAccountsForFills
CHECK_DEADLOCK FALSE
