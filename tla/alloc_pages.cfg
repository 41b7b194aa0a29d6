SPECIFICATION Spec
CONSTANTS
  TOTALPAGES = 7
  SYSPAGES = 3
  PAGE_SIZE = 16
  HEADER = 3
  DATA = 2
  StackSize = 8
  QueuesSize = 2
  Sizes = {7, 14, 20}
  MaxThreads = 3
  AlarmAnywhere = FALSE
INVARIANTS TypeOK AccountsCover BlocksApart
PROPERTY OwnersStay
\* The process may crash, and does when no page is left.
CHECK_DEADLOCK FALSE
