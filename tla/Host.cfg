CONSTANTS
  a1 = a1  a2 = a2  own = own  alien = alien
  AddressBits = 2
  Attempt = {a1, a2}
  Profile = {a1, a2}
  Resource <- Resources
  Request <- Requests
  Submission <- Submissions
  Transport = 3
  Own = own
  Foreign = {alien}
  MaxEpoch = 0
  MaxRecords = 2
  Hostile = TRUE
  N = 2
  Gens <- Generations
  Uninstallers = {"none", "helper", "headless", "purge"}
  Failures = 2
  Crashes = 3
SPECIFICATION MCSpec
CONSTRAINT Bounds
INVARIANTS JournalAnchored BundleSound
PROPERTIES JobsHonest AtomicSwitch
