SPECIFICATION FairSpec
CONSTANT MaxRuns = 3
INVARIANTS
  NothingUnmanaged
  OneCommandAtATime
PROPERTIES
  CodeKeptUnlessAdopted
  RecordedInTheEnd
CHECK_DEADLOCK FALSE
