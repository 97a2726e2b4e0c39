CONSTANTS
  t1 = t1
  t2 = t2
  t3 = t3
  t4 = t4
  Main = main
  Threads = {t1, t2, t3, t4}
  FlowControl = TRUE
  MaxPackets = 2
  MaxFailures = 2
  MaxMishaps = 1
  Faults = {"SLOW", "LINGER", "TOGETHER", "MUTE", "KEPT"}
SPECIFICATION FairSpec
INVARIANTS OneAtATime
PROPERTY Serves
CHECK_DEADLOCK FALSE
