SPECIFICATION CarefulSpec
CONSTANTS
  Instances = {i1}
  Requests = {c1, c2, c3}
  StorageTypes = {"FILE", "MONGO"}
  MaxCrashes = 2
  MaxFaults = 1
  Torn = Torn
  None = None
SYMMETRY Symmetry
INVARIANTS TypeOK ChainOK IssuedValid UsedIsStored
CHECK_DEADLOCK FALSE
