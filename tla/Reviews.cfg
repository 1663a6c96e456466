SPECIFICATION FairSpec
CONSTANTS
  a = a
  Job = {a}
  EnabledToday = {a}
  Kinds = {"auto", "plain", "ready", "ask"}
  MaxReviews = 2
  MaxWrites = 1
  MaxActions = 2
  MaxDowns = 1
INVARIANTS
  OncePerInterval
  StatusMatchesActions
PROPERTIES
  RollbackRestores
  EveryReviewEnds
CHECK_DEADLOCK FALSE
