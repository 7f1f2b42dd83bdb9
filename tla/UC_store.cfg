SPECIFICATION ServicesSpec
CONSTANTS
  Orders = {o1, o2}
  Callers = {c1, c2}
  OrderQty = 2
  PositionQty = 1
  NoRow = NoRow
  NoDraft = NoDraft
  MaxRetries = 2
  MaxCalls = 3
  MaxFaults = 3
  Probes = {p1, p2}
  Checked = {ib}
  Placeholders = {db}
  Pushed = {pipeline}
  MaxProbes = 3
  MaxChanges = 3
  Servers = {s1, s2}
  MaxBars = 5
  CacheCallers = {c1, c2, c3}
  FailureThreshold = 2
  SuccessThreshold = 2
  Users = {u1}
  Ingester = ingester
  NoOwner = NoOwner
  MaxFed = 4
  TimeOf <- SecondAndThirdMeet
  BatchSize = 2
  ChanSize = 2
  MaxUses = 2
  Managers = {m1, m2}
  NoManager = NoManager
  EventCap = 1
  MaxAttempts = 1
  AutoReconnect = TRUE
  LinkMayFail = TRUE
  MaxClientCalls = 2
INVARIANTS
  StoredThenSubmitted
  CancelledAtMarket
  LoneProbeTellsTruth
  RatesAddUp
  NoTransitionMissed
  ReceivedIsAccountedFor
  SavedCountIsStored
  AddedOncePerAnswer
  OneManager
  ConnectedIsWatched
PROPERTIES
  ReplacedOnlyByOverlap
CHECK_DEADLOCK FALSE
