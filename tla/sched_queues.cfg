\* The lists, with three threads that Main makes and joins.
CONSTANTS
  Main = Main
  T1 = T1
  T2 = T2
  T3 = T3
  NULL = NULL
  Thread <- ThreeThreads
  Mutex = {1}
  Joins <- MainJoinsAll
  AgeLimit = 0
  AlarmAnywhere = FALSE
  ClockAnywhere = FALSE
SPECIFICATION Spec
SYMMETRY ThreadsAlike
INVARIANTS
  TypeOK
  EachThreadInItsPlace
  ListsEnd
  JoinWaitsForExit
  JoinFindsValue
  NoLostJoiner
  CalmInv
