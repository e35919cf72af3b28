CONSTANTS
  Profile = {a}
  MaxAttempt = 2
  MaxAsk = 2
  MaxFault = 1
  MaxCrash = 0
  Prompt = TRUE
  Recreate = TRUE
  MaxOut = 1
  MaxIn = 1
  MaxRuns = 1
  MaxSignals = 1
  Persistent = TRUE
  Events = TRUE
  Native = TRUE
SPECIFICATION MCSpec
CONSTRAINT EarlySignals
CHECK_DEADLOCK FALSE
PROPERTIES DesktopEnds EngineStops
