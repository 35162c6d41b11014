SPECIFICATION Spec
CONSTANTS
  Threads = {t1, t2, t3, t4}
  MaxSize = 1
  MaxCalls = 2
  NoItem = NoItem
INVARIANTS
  NoLostWakeup
PROPERTIES
  FifoSpec
  BlockedAreServed
  StopReleases
CHECK_DEADLOCK FALSE
