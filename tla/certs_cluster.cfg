SPECIFICATION Spec
CONSTANTS
  Instances = {i1, i2}
  Requests = {c1}
  StorageTypes = {"MONGO"}
  MaxCrashes = 0
  MaxFaults = 0
  Torn = Torn
  None = None
INVARIANTS IssuedValid
CHECK_DEADLOCK FALSE
