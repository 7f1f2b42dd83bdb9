SPECIFICATION Spec
CONSTANTS
  Callers = {c1}
  Managers = {m1, m2}
  NoManager = NoManager
  EventCap = 2
  MaxAttempts = 1
  AutoReconnect = TRUE
  LinkMayFail = FALSE
  MaxCalls = 2
INVARIANTS
  EveryConnectionWatched
CHECK_DEADLOCK FALSE
