SPECIFICATION Spec
CONSTANTS
  near = near
  away = away
  alert = alert
  letter = letter
  NoNode = NoNode
  Nodes <- MCNodes
  Far = 1
  Sends = {alert}
  Deposits = {letter}
  Configured = near
  Modes = {"configured", "discover", "embedded"}
  MaxSessions = 2
  Faults = {"loadFails", "nodeFails", "crash", "saveFails", "rejects", "ages"}
INVARIANTS
  NothingElseIsLost
PROPERTIES
  SelectsClosestOnce
CHECK_DEADLOCK FALSE
