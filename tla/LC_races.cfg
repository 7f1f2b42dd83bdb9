SPECIFICATION FairSpec
CONSTANTS
  Orders = {o1}
  Execs = {e1, e2}
  o1 = o1
  e1 = e1
  e2 = e2
  ExecOrder <- ExecsOfO1
  ExecQty <- UnitQty
  ExecKey <- OneKey
  OrderSide <- AllBuy
  InitOrders <- SubmittedPendingOrUnknown
  InitPositions <- LongOne
  Updates <- Complete
  Decoding = "memory"
  MaxStarts = 2
  MaxDeliveries = 1
  MaxFaults = 1
  MaxRetries = 1
  DedupCap = 1
  DedupTrim = 1
  SerialControl = TRUE
  NoOrder = NoOrder
  NoPosition = NoPosition
  NoExec = NoExec
  NoUpdate = NoUpdate
INVARIANTS
  StopLeavesNoTask
  FilledIsBacked
PROPERTIES
  FillsSettle
  UpdatesSettle
CHECK_DEADLOCK FALSE
