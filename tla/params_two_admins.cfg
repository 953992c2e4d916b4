SPECIFICATION TimelySpec
CONSTANTS
  StorageType = "MONGO"
  Delay = 1
  MaxInFlight = 2
  MaxTime = 2
  MaxCrashes = 0
  StorageFaults = FALSE
  Requests = {r1, r2}
  Readers = {}
  Absent = Absent
  Torn = Torn
  None = None
INVARIANTS NoLostUpdate
CHECK_DEADLOCK FALSE
