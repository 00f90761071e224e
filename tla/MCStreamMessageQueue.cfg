SPECIFICATION FairSpec
CONSTANTS
  p1 = p1
  p2 = p2
  p3 = p3
  NoOne = NoOne
  Producers <- ThreeProducers
  Policies = {"block", "backpressure", "drop"}
  maxSize = 5
  threshold = 80
CHECK_DEADLOCK FALSE
INVARIANTS RoomHasTaker
PROPERTIES TimedWaitEnds
