SPECIFICATION FairSpec
CONSTANTS
  ana = ana
  ben = ben
  Paths = {p1}
  CrewLists <- MCCrew
  Debounce = 3
  MaxSend = 1
  MaxTime = 6
  MaxEpisodes = 2
  MaxTransitions = 2
INVARIANTS AlertTriedBeforeClear
PROPERTIES EveryMemberTried ClearIsReported
