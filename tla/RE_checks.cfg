SPECIFICATION Spec
CONSTANTS
  Checks = {c1, c2}
  Symbols = {s1}
  c1 = c1
  c2 = c2
  s1 = s1
  CheckedSymbol <- BothOnS1
  CheckedQty <- OneEach
  Price <- PriceTwo
  LimitOrders = {c1, c2}
  MaxPositionSize <- SizeTwo
  MaxSymbolExposure <- ExposureSix
  MaxTotalExposure = 6
  DailyLossLimit = 0
  MaxDrawdown = 10
  KillSwitchEnabled = TRUE
  BreakerFailures = 2
  BreakerTimeout = 1
  HistoryCap = 1
  InitialEquity = 8
  Equities <- EightOrTen
  Pnls <- UpOrDown
  MaxFailures = 2
  MaxWorking = 2
  MaxPnl = 1
  Scale = 2
  MaxI64 = 4
SYMMETRY Callers
INVARIANTS
  BlockedNeverAllowed
  BreakerAgrees
  OvershootBounded
