SPECIFICATION FairSpec
CONSTANTS
  Row         = {"oracle"}
  Key         = {"k"}
  KeyOf      <- MCSharedKey
  Evaluations = {"oracle"}
  Alone       = {"oracle"}
  Trouble     = {"FABRIC_UNAVAILABLE", "POLICY_MISMATCH"}
  MaxCrashes  = 3
  None        = None
  Foreign     = Foreign
CHECK_DEADLOCK FALSE
PROPERTY EvaluationCompletes
