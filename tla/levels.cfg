CONSTANTS
  T1 = T1
  T2 = T2
  T3 = T3
  Thread <- ThreeThreads
  Mutex = {m}
  NULL = NULL
  NLEVELS = 2
  CHECK_FRQ = 1
  AGE_THRSHLD = 1
  AlarmAnywhere = FALSE
  MaxAgings = 1
  MaxSize = 3
SPECIFICATION Spec
SYMMETRY ThreadsAlike
INVARIANTS TypeOK QueueInv InQuota LockInv
PROPERTIES LevelsFifo HighestFirst LocksExclude
\* The process ends.
CHECK_DEADLOCK FALSE
