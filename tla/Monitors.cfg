SPECIFICATION FairMonitors
CONSTANTS
  MaxRuns = 2
  MaxQueue = 1
  Configs <- MCConfigs
  Unlimited = TRUE
INVARIANTS
  NotesFollowChecks
  KillExplainsFailure
PROPERTIES
  LimitEnforced
CHECK_DEADLOCK FALSE
