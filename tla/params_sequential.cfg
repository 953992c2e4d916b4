SPECIFICATION FairTimelySpec
CONSTANTS
  StorageType = "MONGO"
  Delay = 1
  MaxInFlight = 1
  MaxTime = 2
  MaxCrashes = 1
  StorageFaults = FALSE
  Requests = {r1, r2, r3}
  Readers = {m1}
  Absent = Absent
  Torn = Torn
  None = None
INVARIANTS NoLostUpdate
PROPERTIES ForwardOnly TwoPhases TemplateOnlyAtFirst Implements EventuallyInForce ScheduleDrains
CHECK_DEADLOCK FALSE
