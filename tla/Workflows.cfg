SPECIFICATION FairSpec
CONSTANTS
  a = a
  b = b
  chain = chain
  group = group
  chord = chord
  NoOne = NoOne
  Other = Other
  Job = {a, b}
  Run = {chain, group, chord}
  Type <- MCType
  Jobs <- MCJobs
  Callback <- MCCallback
  StopOnFailure = {chain}
  MaxParallel = 2
  MaxEvents = 2
INVARIANTS
  SuccessIsReal
  ResumedUnlessEnded
PROPERTIES
  NoStartAfterCancel
  EveryRunEnds
CHECK_DEADLOCK FALSE
