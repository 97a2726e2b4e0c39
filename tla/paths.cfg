CONSTANTS
  h = h
  a = a
  b = b
  c = c
  Home = h
  Relays = {a, b}
  PATHFINDER_M = 3
  PATHFINDER_R = 1
  LOCAL_REBROADCASTS_MAX = 2
  Nodes = {a, b}
  Segments <- Ring
  Mode <- RingMode
  Capped <- RingCapped
  MaxAnnounces = 1
  MaxRequests = 1
  MaxMishaps = 1
  Faults = {"EXPIRE", "UNRESPONSIVE", "RATE", "FORGET"}
SPECIFICATION Spec
INVARIANT LoopFree
CHECK_DEADLOCK FALSE
