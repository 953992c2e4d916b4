SPECIFICATION Spec
CONSTANTS
  StorageTypes = {"MONGO"}
  AllowNodeKeyChange = FALSE
  MaxCrashes = 0
  Publications = {p1, p2}
  Deletions = {d1}
  Names = {n1}
  Keys = {k1}
INVARIANTS DeletionSticks
CHECK_DEADLOCK FALSE
