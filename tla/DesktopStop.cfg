CONSTANTS
  Profile = {a}
  MaxAttempt = 2
  MaxAsk = 2
  MaxFault = 0
  MaxCrash = 0
  Prompt = FALSE
  Recreate = FALSE
SPECIFICATION Spec
CHECK_DEADLOCK FALSE
PROPERTY StopHonoured
