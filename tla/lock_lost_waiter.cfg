\* SIGALRM between activeFlag = BLOCKING and gen_enqueue.
CONSTANTS
  Main = Main
  T1 = T1
  T2 = T2
  T3 = T3
  NULL = NULL
  Thread <- TwoThreads
  Mutex = {1}
  Joins <- MainJoinsAll
  AgeLimit = 0
  AlarmAnywhere = TRUE
  ClockAnywhere = FALSE
SPECIFICATION Spec
INVARIANT BlockedIsQueued
