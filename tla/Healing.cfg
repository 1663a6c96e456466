SPECIFICATION FairHealing
CONSTANTS
  r1 = r1
  r2 = r2
  r3 = r3
  x = x
  y = y
  RunId = {r1, r2, r3}
  NoRun = NoRun
  JobOf <- MCJobOf
  Answers = {"fixed", "manual", "unknown"}
  CanRestart = TRUE
  CanFail = TRUE
INVARIANTS
  OneRequestPerJob
PROPERTIES
  EndsUnlessStuck
CHECK_DEADLOCK FALSE
