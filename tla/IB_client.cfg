SPECIFICATION FairSpec
CONSTANTS
  Callers = {c1, c2}
  Managers = {m1, m2}
  NoManager = NoManager
  EventCap = 1
  MaxAttempts = 1
  AutoReconnect = TRUE
  LinkMayFail = TRUE
  MaxCalls = 2
PROPERTIES
  CallsReturn
CHECK_DEADLOCK FALSE
