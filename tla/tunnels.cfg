CONSTANTS
  MaxEmitted = 2
  TunnelHops = 2
  LanHops = {1, 3}
  MaxMishaps = 1
  Faults = {"BREAK", "CRASH", "STOP", "EXPIRY", "OVERLAP"}
SPECIFICATION FairSpec
INVARIANTS PathIsCached PathIsKnown
PROPERTIES PathReturns JobsResume
CHECK_DEADLOCK FALSE
