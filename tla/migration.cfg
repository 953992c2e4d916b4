SPECIFICATION Spec
CONSTANTS
  hash = hash
  n1 = n1
  n2 = n2
  Instances = {i1, i2}
  Stores = {"text", "nodeInfo"}
  Upserting = {"text"}
  Docs <- MCDocs
  StoreOf <- MCStoreOf
  MaxFaults = 1
  MaxStarts = 3
INVARIANTS
  TypeOK
  NothingLost
  ReadyComplete
  RevisionPerStart
PROPERTIES
  MovesDocuments
  SetupEnds
CHECK_DEADLOCK FALSE
