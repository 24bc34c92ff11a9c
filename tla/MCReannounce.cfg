SPECIFICATION FairSpec
CONSTANTS
  a = a
  b = b
  Ifaces = {a, b}
  Rounds = {1, 2}
  MinInterval = 2
  Horizon = 3
  Scenarios <- MCScenarios
INVARIANTS
  DeadWindowExplained
PROPERTIES
  DeadWindowEnds
  StoppedLoopRearmed
CHECK_DEADLOCK FALSE
