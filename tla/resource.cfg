SPECIFICATION FairSpec
CONSTANTS
  Sizes <- OneLongOrTwoShort
  HASHMAP_MAX_LEN = 2
  WINDOW = 2
  WINDOW_MIN = 2
  WINDOW_MAX_SLOW = 3
  WINDOW_MAX_FAST = 3
  WINDOW_MAX_VERY_SLOW = 3
  WINDOW_FLEXIBILITY = 2
  Capacity = 2
  MAX_RETRIES = 1
  MAX_ADV_RETRIES = 1
  PROOF_RETRIES = 1
  Faults <- Mishaps
INVARIANTS ProgressIsExact DemandServed NeverIdle LeavesWithOutcome
PROPERTIES TransfersAsPromised SenderConcludes ReceiverConcludes
CHECK_DEADLOCK FALSE
