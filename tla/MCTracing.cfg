SPECIFICATION FairTracingSpec
CONSTANTS
  BatchId    = {"b1", "b2"}
  OpId       = {"o1", "o2", "o3", "o4", "w6", "w7", "w8"}
  TransferId = {"t1", "t2", "t3", "t4"}
  DocId      = {"d1", "d2", "d3", "d4", "d5", "d6"}
  CostId     = {"c1", "c2"}
  ReportId   = {"r1", "r2"}
  LotId      = {"l1", "l2"}
  AnomalyId  = {"a1", "a2", "w6", "w7", "w8"}
  PolicyId   = {"p1"}
  Issuer     = {"i1"}
  KeyName    = {"kc", "ke", "kh", "ku"}
  Nonce      = {"n1", "n2", "n3", "n4", "n5", "n6"}
  MaxVersion   = 10
  MaxQuantity  = 5000
  MaxTotal     = 100
  MaxPrice     = 5
  MaxThreshold = 100
  BasisPoints  = 100
  MaxLong      = 511
  Lag        = 1
  Digest    <- MCDigest
  None       = None
  Proposal  <- MCProposal
CHECK_DEADLOCK FALSE
INVARIANTS
  PagesAgree
  FreshRequestsStand
PROPERTIES
  FeedsProjection
  ReportsEvaluated
