SPECIFICATION PoliteSpec
CONSTANTS
  StorageTypes = {"FILE", "MONGO"}
  AllowNodeKeyChange = FALSE
  MaxCrashes = 1
  Publications = {p1, p2, p3}
  Deletions = {d1, d2}
  Names = {n1, n2}
  Keys = {k1, k2}
SYMMETRY Symmetry
INVARIANTS TypeOK UniqueKey Exclusive DeletionSticksInFiles ListedReadable
PROPERTIES NoSpuriousFailure
CHECK_DEADLOCK FALSE
