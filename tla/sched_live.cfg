\* Every thread that can run runs, is woken, or returns from its join.
CONSTANTS
  Main = Main
  T1 = T1
  T2 = T2
  T3 = T3
  NULL = NULL
  Thread <- TwoThreads
  Mutex = {1}
  Joins <- MainJoinsAll
  AgeLimit = 0
  AlarmAnywhere = FALSE
  ClockAnywhere = FALSE
SPECIFICATION FairSpec
PROPERTIES
  NoStarvation
  BlockedIsWoken
  JoinReturns
