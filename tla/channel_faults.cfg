SPECIFICATION Spec
CONSTANTS
  WINDOW = 2
  WINDOW_MIN = 1
  WINDOW_MIN_LIMIT_MEDIUM = 2
  WINDOW_MIN_LIMIT_FAST = 3
  WINDOW_MAX_SLOW = 3
  WINDOW_MAX_MEDIUM = 4
  WINDOW_MAX_FAST = 5
  WINDOW_FLEXIBILITY = 1
  FAST_RATE_THRESHOLD = 1
  MaxSend = 3
  First = 0
  SEQ_MODULUS = 8
  WINDOW_MAX = 3
  MaxTries = 2
  Rtts <- MixedRtts
  Unregistered = {2}
  Faults <- SenderFaults
INVARIANTS InOrderExactlyOnce NothingDeliverableHeld WindowSound
PROPERTY ReliableDelivery
CHECK_DEADLOCK FALSE
