CONSTANTS
  h = h
  a = a
  b = b
  c = c
  Home = h
  Relays = {a, b}
  PATHFINDER_M = 3
  PATHFINDER_R = 1
  LOCAL_REBROADCASTS_MAX = 2
  Nodes = {a, b, c}
  Segments <- Line
  Mode <- LineMode
  Capped = {}
  MaxAnnounces = 1
  MaxRequests = 1
  MaxMishaps = 1
  Faults = {"BURST"}
SPECIFICATION FairSpec
PROPERTY AnnouncesSpread
PROPERTY RequestsAnswered
CHECK_DEADLOCK FALSE
