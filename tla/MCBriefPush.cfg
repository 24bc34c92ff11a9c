SPECIFICATION FairSpec
CONSTANTS
  m1 = m1
  m2 = m2
  Members <- MCMembers
  Crew <- MCMembers
  InitialStores <- MCOlder
  Faults = {"fails"}
  Blank = Blank
  Torn = Torn
  MaxDay = 2
  MaxCompile = 2
  MaxQueue = 2
  MaxInbox = 6
  MaxCrashes = 2
INVARIANTS StoreNeverTorn RecordedOrInFlight RepetitionsNeedCrashes
PROPERTIES EverySubscriberServed
CHECK_DEADLOCK FALSE
