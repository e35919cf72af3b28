CONSTANTS
  Profile = {a, b}
  MaxAttempt = 2
  MaxAsk = 3
  MaxFault = 1
  MaxCrash = 1
  Prompt = TRUE
  Recreate = FALSE
SPECIFICATION Spec
CHECK_DEADLOCK FALSE
SYMMETRY Symmetry
CONSTRAINT Bounds
INVARIANTS NothingForgotten OneOwner ChildrenWatched ExitLeavesNothing
PROPERTIES StopHonoured
