SPECIFICATION FairSpec
CONSTANTS
  N = 2
  StaleAfter = 1
  RerequestEvery = 1
  SendTimeout = 1
  Oldest = 3
  Grain = 10
  Scenarios <- MCScenarios
INVARIANTS
  SnapshotsFresh
  KeysOutliveRestarts
  ShownIsReported
PROPERTIES
  KeysComeToDisk
  DeliveryHeals
CHECK_DEADLOCK FALSE
