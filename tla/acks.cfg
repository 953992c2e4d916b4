SPECIFICATION TimelyAcksSpec
CONSTANTS
  StorageType = "MONGO"
  Delay = 1
  MaxInFlight = 1
  MaxTime = 2
  MaxCrashes = 1
  StorageFaults = FALSE
  Requests = {r1, r2}
  Readers = {m1}
  Nodes = {n1}
  Absent = Absent
  Torn = Torn
  None = None
INVARIANTS AcksTypeOK AcceptedInForce OkIsRecorded
PROPERTIES AcceptedForward
CHECK_DEADLOCK FALSE
