SPECIFICATION Spec
CONSTANTS
  TOTALPAGES = 7
  SYSPAGES = 4
  PAGE_SIZE = 12
  HEADER = 3
  DATA = 2
  StackSize = 8
  QueuesSize = 2
  Sizes = {3}
  MaxThreads = 3
  AlarmAnywhere = TRUE
INVARIANT BlocksApart
\* The process may crash.
CHECK_DEADLOCK FALSE
