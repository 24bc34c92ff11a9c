SPECIFICATION MCSpec
CONSTANTS
  crew = crew
  stranger = stranger
  ping = ping
  intrusion = intrusion
  again = again
  log = log
  forgery = forgery
  switch = switch
  position = position
  a = a
  b = b
  c = c
  Messages <- MCMessages
  Senders <- MCSenders
  Sender <- MCSender
  Kind <- MCKind
  Genuine <- MCGenuine
  Crew <- MCCrew
  DigitalSwitching = TRUE
  PopulateCrewTelemetry = TRUE
  Capacity = 2
  ReplyInterval = 2
  SendTimeout = 1
  Faults = {"fails", "late", "verifyFails"}
  MaxCalls = 6
  MaxTime = 2
  MaxRestarts = 1
INVARIANTS
  OnlyProvenCrewAct
  FallbackRateLimited
  SlotHeldByReply
  SilenceIsExplained
  TruthfulAnswers
  DuplicatesAreRecent
CHECK_DEADLOCK FALSE
