SPECIFICATION FairSpec
CONSTANTS
  a = a
  b = b
  chain = chain
  group = group
  chord = chord
  Job = {a, b}
  Composite = {chain, group, chord}
  Kind <- MCKind
  Members <- MCMembers
  Callback <- MCCallback
  MaxRuns <- MCMaxRuns
  MaxRequests = 1
INVARIANTS
  OwnRunsAwaited
  NoStaleSuccess
PROPERTIES
  EveryCompositeEnds
CHECK_DEADLOCK FALSE
