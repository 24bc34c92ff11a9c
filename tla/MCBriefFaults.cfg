SPECIFICATION Spec
CONSTANTS
  m1 = m1
  m2 = m2
  Members <- MCOne
  Crew <- MCOne
  InitialStores <- MCAll
  Faults = {"midnight", "fails", "noLines", "late", "saveFails", "commands"}
  Blank = Blank
  Torn = Torn
  MaxDay = 2
  MaxCompile = 2
  MaxQueue = 1
  MaxInbox = 2
  MaxCrashes = 1
INVARIANTS
  NeverMarkedUndelivered
CHECK_DEADLOCK FALSE
