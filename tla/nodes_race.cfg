SPECIFICATION Spec
CONSTANTS
  StorageTypes = {"MONGO"}
  AllowNodeKeyChange = FALSE
  MaxCrashes = 0
  Publications = {p1, p2}
  Deletions = {}
  Names = {n1}
  Keys = {k1, k2}
INVARIANTS UniqueKey
CHECK_DEADLOCK FALSE
