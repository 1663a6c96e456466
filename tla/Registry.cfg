SPECIFICATION FairSpec
CONSTANTS
  c = c
  o = o
  Cron = {c}
  Oneshot = {o}
  History = {c}
  Policies = {"skip", "queue"}
  Hours = {c}
  Content <- MCContent
  MaxEvents = 2
  MaxQueued = 1
INVARIANTS
  ConfigServed
  OncePerSlot
PROPERTIES
  FinishedStaysFinished
  DueIsTaken
CHECK_DEADLOCK FALSE
