SPECIFICATION Spec
CONSTANTS
  StorageType = "FILE"
  Delay = 1
  MaxInFlight = 2
  MaxTime = 2
  MaxCrashes = 1
  StorageFaults = TRUE
  Requests = {r1, r2}
  Readers = {m1, m2}
  Absent = Absent
  Torn = Torn
  None = None
SYMMETRY Symmetry
INVARIANTS TypeOK Downloadable StoredFirst Punctual MapCoherent
PROPERTIES FlagDay
CHECK_DEADLOCK FALSE
