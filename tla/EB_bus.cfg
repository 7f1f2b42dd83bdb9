SPECIFICATION FairSpec
CONSTANTS
  Publishers = {p}
  Subscribers = {"filtered", "resumable"}
  Kind <- Kinds
  Pattern <- Patterns
  Types <- EventTypes
  Capacity = 2
  MaxEvents = 4
INVARIANTS
  EveryEventAccountedFor
PROPERTIES
  RecvEnds
  DeliverySpec
CHECK_DEADLOCK FALSE
