\* Main and two threads that lock; a second has two ticks.
CONSTANTS
  Main = Main
  T1 = T1
  T2 = T2
  NULL = NULL
  Thread <- TwoThreads
  Lockers <- Made
  Mutex = {1}
  Second = 2
SPECIFICATION Spec
INVARIANTS TypeOK ReadyAreQueued CountsAreLengths AgeNeverPromotes JoinReturnsAlone
PROPERTY ParkedForever
SYMMETRY ThreadsAlike
