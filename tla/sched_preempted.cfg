\* The alarm and the clock strike inside library calls too.
CONSTANTS
  Main = Main
  T1 = T1
  T2 = T2
  T3 = T3
  NULL = NULL
  Thread <- TwoThreads
  Mutex = {1}
  Joins <- MainJoinsAll
  AgeLimit = 0
  AlarmAnywhere = TRUE
  ClockAnywhere = TRUE
SPECIFICATION Spec
SYMMETRY ThreadsAlike
INVARIANTS
  Inv
PROPERTIES DeadStaysDead LocksExclude
