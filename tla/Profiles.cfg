CONSTANTS
  Ids = {a, b}
  Thread = {t1, t2}
  Command = {c1}
  Orphans = {}
  MaxRevision = 2
  MaxPassword = 1
  MaxCrash = 1
  MaxFault = 1
  ProfileIds = {"a", "b"}
  Refs = {"r1", "r2"}
  Worker = {w1, w2}
  Legacy = {"a"}
  MaxStoreRevision = 2
  MaxLife = 2
  MaxAppCrash = 1
  MaxStoreFault = 1
  UnsyncedFault = TRUE
  PowerLoss = TRUE
SPECIFICATION MCSpec
SYMMETRY Interchangeable
CONSTRAINT Bounds
CHECK_DEADLOCK FALSE
INVARIANTS RepositoryCurrent CredentialsKept UsesCurrentSecret
PROPERTIES CatalogueKept NoRevisionLost
