CONSTANTS
  i = i
  d = d
  r1 = r1
  r2 = r2
  Initiator = i
  Destination = d
  Relays = {r1, r2}
  Media = {"radio", "slow", "cable"}
  Hears <- RadioAndCables
  HW_MTU <- MediaMtu
  Tuned = {"radio", "slow", "cable"}
  MTU = 5
  Routes <- SomeRoutes
  PATHFINDER_M = 4
  Contexts = {"CHANNEL"}
  MaxPackets = 1
  MaxReroutes = 0
  MaxMishaps = 0
  Faults = {}
SPECIFICATION Spec
INVARIANT OnceFromPeer
CHECK_DEADLOCK FALSE
