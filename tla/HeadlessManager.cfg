CONSTANTS
  p1 = p1  p2 = p2  x1 = x1  x2 = x2  h1 = h1
  Nobody = nobody
  Attempt = {x1, x2, h1}
  Fresh = {x1, x2}
  Helpers = {h1}
  Profile = {p1, p2}
  Gates = {TRUE, FALSE}
  MaxBoot = 1
SPECIFICATION Spec
CONSTRAINT OneByOne
SYMMETRY Symmetries
INVARIANTS EnginesSupervised ReservationAccounted TerminalMeansGone
PROPERTIES LeaseHonoured
