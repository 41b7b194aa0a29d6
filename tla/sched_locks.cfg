\* Two mutexes, taken one inside the other.
CONSTANTS
  Main = Main
  T1 = T1
  T2 = T2
  T3 = T3
  NULL = NULL
  Thread <- TwoThreads
  Mutex = {1, 2}
  Joins <- MainJoinsAll
  AgeLimit = 1
  AlarmAnywhere = FALSE
  ClockAnywhere = FALSE
SPECIFICATION Spec
SYMMETRY ThreadsAlike
INVARIANTS
  MutualExclusion
  NoLostWakeup
  SchedulerFindsThread
PROPERTY LocksQueue
