SPECIFICATION Spec
CONSTANTS
  Row         = {"auditor", "reviewer"}
  Key         = {"k"}
  KeyOf      <- MCSharedKey
  Evaluations = {}
  Alone       = {}
  Trouble     = {"FABRIC_UNAVAILABLE", "INTERNAL_ERROR", "VERSION_CONFLICT"}
  MaxCrashes  = 2
  None        = None
  Foreign     = Foreign
CHECK_DEADLOCK FALSE
INVARIANTS
  TypeOK
  CommittedIsOurs
  FailedIsDead
  OneTransaction
  EvidenceServed
PROPERTIES
  FinalStays
