CONSTANTS
  i = i
  d = d
  r1 = r1
  r2 = r2
  Initiator = i
  Destination = d
  Relays = {r1, r2}
  Media = {"radio", "slow", "cable"}
  Hears <- RadioAndCables
  HW_MTU <- MediaMtu
  Tuned = {"radio", "slow", "cable"}
  MTU = 5
  Routes <- SomeRoutes
  PATHFINDER_M = 4
  Contexts = {"NONE"}
  MaxPackets = 1
  MaxReroutes = 1
  MaxMishaps = 1
  Faults <- SomeFaults
SPECIFICATION FairSpec
INVARIANTS OnceFromPeer MtuFits
PROPERTY Carries
CHECK_DEADLOCK FALSE
