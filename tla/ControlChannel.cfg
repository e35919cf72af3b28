SPECIFICATION Spec
CONSTANTS
  MaxAttempt = 2
  MaxResource = 2
  MaxLoss = 1
  User = {u1, u2}
SYMMETRY Users
CONSTRAINT FirstAttempt
CHECK_DEADLOCK FALSE
INVARIANTS ReadyMeansApplied NetworkOwned PlanWhole ChallengesSound
