SPECIFICATION FairSpec
CONSTANTS
  Batch    = {"b1", "b2"}
  Lot      = {"l1", "l2"}
  Follows <- MCFollows
  Lifetime = 3
  None     = None
CHECK_DEADLOCK FALSE
INVARIANTS
  TypeOK
  PagesTrue
  NeverRefused
PROPERTIES
  DeliversInOrder
  CatchesUp
