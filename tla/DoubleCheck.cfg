SPECIFICATION FairSpec
CONSTANTS
  Op = {o1, o2}
  Moves = 1
  LogsOut = FALSE
  None = None
CHECK_DEADLOCK FALSE
PROPERTY PendingKept
