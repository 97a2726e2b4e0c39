CONSTANTS
  a1 = a1
  a2 = a2
  r1 = r1
  Announcers = {a1, a2}
  Readers = {r1}
  RATCHET_COUNT = 2
  Retained = 2
  Enforced = TRUE
  MaxRatchets = 3
  MaxHeard = 2
  MaxMishaps = 1
  Faults = {"CRASH", "IO", "RESTART", "OVERTAKE", "EXPIRY"}
SPECIFICATION Spec
INVARIANTS NothingLost StoresLatest
SYMMETRY Alike
CHECK_DEADLOCK FALSE
