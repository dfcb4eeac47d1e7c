SPECIFICATION FairSpec
CONSTANTS
  Op = {o1, o2}
  Moves = 1
  LogsOut = TRUE
  None = None
CHECK_DEADLOCK FALSE
INVARIANT ToldTrue
PROPERTY Resolved
