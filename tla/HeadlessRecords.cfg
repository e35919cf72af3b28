CONSTANTS
  p1 = p1  p2 = p2  x1 = x1  x2 = x2  h1 = h1
  Nobody = nobody
  Attempt = {x1, x2}
  Fresh = {x1, x2}
  Helpers = {}
  Profile = {p1}
  Gates = {TRUE}
  MaxBoot = 0
SPECIFICATION Spec
INVARIANT OneRecord
SYMMETRY Symmetries
