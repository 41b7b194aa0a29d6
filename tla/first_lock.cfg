\* Two threads that lock, and SIGALRM between any two statements.
CONSTANTS
  Main = Main
  T1 = T1
  T2 = T2
  NULL = NULL
  Thread <- TwoThreads
  Lockers <- Made
  Mutex = {1}
  Second = 2
SPECIFICATION Spec
INVARIANT OneInside
