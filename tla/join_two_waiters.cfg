\* Two threads join the same one.
CONSTANTS
  Main = Main
  T1 = T1
  T2 = T2
  T3 = T3
  NULL = NULL
  Thread <- TwoThreads
  Mutex = {1}
  Joins <- TwoJoinOne
  AgeLimit = 0
  AlarmAnywhere = FALSE
  ClockAnywhere = FALSE
SPECIFICATION Spec
INVARIANT JoinWaitsForExit
