SPECIFICATION FairSpec
CONSTANTS
  BufferSize = 2
  ConfigBufferSize = 3
  BatchSize = 2
  Threshold = 2
  Timeout = 1
  NoBar = NoBar
  MaxBars = 4
  MaxFailures = 3
INVARIANTS
  EachBarOnce
  ArrivalOrder
  BufferBounded
PROPERTIES
  LostOnlyWhenFull
  BatchesDrain
  ShutdownEndsAll
CHECK_DEADLOCK FALSE
