CONSTANTS
  a1 = a1  a2 = a2  own = own  alien = alien
  AddressBits = 3
  Label = {"a", "b"}
  Attempt = {a1, a2}
  Profile = {a1, a2}
  Resource <- GateAndSplit
  Request <- TwoAttempts
  Own = own
  Foreign = {alien}
  MaxEpoch = 1
  MaxRecords = 2
  Hostile = FALSE
SPECIFICATION MCSpec
CONSTRAINT OneByOne
INVARIANTS NoOrphan OwnershipSound ResourcesExact
PROPERTIES LeasesSafe
