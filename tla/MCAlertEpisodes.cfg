SPECIFICATION Spec
CONSTANTS
  ana = ana
  ben = ben
  Paths = {p1}
  CrewLists <- MCCrewLists
  Debounce = 2
  MaxSend = 9
  MaxTime = 4
  MaxEpisodes = 2
  MaxTransitions = 2
INVARIANTS EpisodeMirrorsBus AtMostOncePerMember
PROPERTIES OnlyAfterQuiet
