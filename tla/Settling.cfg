CONSTANTS
  p1 = p1  x1 = x1  x2 = x2
  Nobody = nobody
  Attempt = {x1, x2}
  Fresh = {x1, x2}
  Helpers = {}
  Profile = {p1}
  Gates = {TRUE}
  MaxBoot = 0
SPECIFICATION MCSpec
CHECK_DEADLOCK FALSE
PROPERTIES ManagerSettles AttemptEnds
