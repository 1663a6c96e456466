SPECIFICATION FairSpec
CONSTANTS
  a = a
  b = b
  Job = {a, b}
  Needs <- MCNeeds
  After <- MCAfter
  Dedup = {b}
  Webhook = {b}
  Param = {p}
  NoParam = NoParam
  Key = {k}
  NoKey = NoKey
  Windows = {1, 3}
  Hour = 2
  Long = 3
  MaxCache = 1
  Revocable = {b}
  Timed = {b}
INVARIANTS
  NothingStartsAgain
PROPERTIES
  RevokedNeverStarts
  NeverBesideItsDependency
  EveryEtaIsDecided
CHECK_DEADLOCK FALSE
