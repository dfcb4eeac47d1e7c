SPECIFICATION FairSpec
CONSTANTS
  Row         = {"reviewer"}
  Key         = {"k"}
  KeyOf      <- MCSharedKey
  Evaluations = {}
  Alone       = {}
  Trouble     = {"FABRIC_UNAVAILABLE", "INTERNAL_ERROR", "VERSION_CONFLICT"}
  MaxCrashes  = 3
  None        = None
  Foreign     = Foreign
CHECK_DEADLOCK FALSE
PROPERTY Settles
