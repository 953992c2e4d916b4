SPECIFICATION TimelyAcksSpec
CONSTANTS
  StorageType = "MONGO"
  Delay = 1
  MaxInFlight = 1
  MaxTime = 2
  MaxCrashes = 0
  StorageFaults = FALSE
  Requests = {r1}
  Readers = {m1}
  Nodes = {n1}
  Absent = Absent
  Torn = Torn
  None = None
PROPERTIES FutureIsAccepted
CHECK_DEADLOCK FALSE
