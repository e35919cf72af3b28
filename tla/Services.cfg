CONSTANTS
  p1 = p1  p2 = p2  c1 = c1  c2 = c2  d1 = d1
  Profile = {p1, p2}
  Command = {c1, c2, d1}
  Channel = {k1, k2, k3}
  ProfileOf <- Owners
  Capacity = 1
  Room = 1
  NoChannel = NoChannel
  NoCommand = NoCommand
  Attempt = {a1, a2}
  Nobody = Nobody
  Pid = {n1, n2}
  NoPid = NoPid
  Exe <- SameEngine
  Failures = 3
  PowerFails = TRUE
  Clients = {b1, b2}
  TRIES = 2
  None = None
SPECIFICATION MCSpec
CHECK_DEADLOCK FALSE
INVARIANTS DispatchSound ReservationSound
PROPERTIES LeaseKept SessionSound ServicesAnswer
