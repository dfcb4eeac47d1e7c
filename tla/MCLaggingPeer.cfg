SPECIFICATION FairSpec
CONSTANTS
  Row         = {"oracle"}
  Key         = {"k"}
  KeyOf      <- MCSharedKey
  Evaluations = {"oracle"}
  Alone       = {"oracle"}
  Trouble     = {"FABRIC_UNAVAILABLE", "VERSION_CONFLICT"}
  MaxCrashes  = 1
  None        = None
  Foreign     = Foreign
CHECK_DEADLOCK FALSE
PROPERTY EvaluationCompletes
