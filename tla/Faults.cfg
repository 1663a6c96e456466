SPECIFICATION FairSpec
CONSTANTS
  a = a
  b = b
  q1 = q1
  Job = {a, b}
  NoJob = NoJob
  Queue = {q1}
  NoQueue = NoQueue
  QueueOf <- MCQueueOf
  RetryJobs = {a}
  DedupJobs = {b}
  ExcessJobs = {a}
  MaxAttempts = 1
  RateLimitMaxAttempts = 2
  Inputs <- MCFaults
INVARIANTS
  Consistent
  StatusAgrees
PROPERTIES
  ExitFinalized
  ShutdownEnds
CHECK_DEADLOCK FALSE
