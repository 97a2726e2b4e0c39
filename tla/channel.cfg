SPECIFICATION FairSpec
CONSTANTS
  WINDOW = 2
  WINDOW_MIN = 1
  WINDOW_MIN_LIMIT_MEDIUM = 1
  WINDOW_MIN_LIMIT_FAST = 2
  WINDOW_MAX_SLOW = 2
  WINDOW_MAX_MEDIUM = 3
  WINDOW_MAX_FAST = 5
  WINDOW_FLEXIBILITY = 1
  FAST_RATE_THRESHOLD = 1
  MaxSend = 3
  First = 0
  SEQ_MODULUS = 8
  WINDOW_MAX = 3
  MaxTries = 2
  Rtts <- SlowRtts
  Unregistered = {}
  Faults <- Interfaceless
INVARIANTS ProvedIsHeld RetryPending
PROPERTIES EventuallyDelivered EventuallyReady
CHECK_DEADLOCK FALSE
