SPECIFICATION QueriesSpec
CONSTANTS
  BatchId    = {"b1", "b2", "b3"}
  OpId       = {"o1", "o2", "o3", "o4", "o5", "o6", "o7"}
  TransferId = {"t1", "t2", "t3", "t4", "t6"}
  DocId      = {"d1", "d2", "d3", "d4", "d5", "d6", "d7", "d8", "d9", "d10", "d11"}
  CostId     = {"c1", "c2", "c3"}
  ReportId   = {"r1", "r2", "r3"}
  LotId      = {"l1", "l2", "l3"}
  AnomalyId  = {"a1", "a2", "a3"}
  PolicyId   = {"p1"}
  Issuer     = {"i1"}
  KeyName    = {"kc", "ke", "kh", "ku"}
  Nonce      = {"n1", "n2", "n3", "n4", "n5", "n6", "n7", "n8", "n9", "n10", "n11"}
  MaxVersion   = 9
  MaxQuantity  = 5000
  MaxTotal     = 100
  MaxPrice     = 5
  MaxThreshold = 100
  BasisPoints  = 100
  MaxLong      = 511
  PageSize   = 1
  Order     <- MCOrder
  None       = None
  Proposal  <- MCProposal
CHECK_DEADLOCK FALSE
INVARIANTS
  
  Listed
  ReadersServed
