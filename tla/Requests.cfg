SPECIFICATION Spec
CONSTANTS
  a = a
  b = b
  q1 = q1
  Job = {a, b}
  NoJob = NoJob
  Queue = {q1}
  NoQueue = NoQueue
  QueueOf <- MCQueueOf
  RetryJobs = {a}
  DedupJobs = {}
  ExcessJobs = {a}
  MaxAttempts = 1
  RateLimitMaxAttempts = 2
  Inputs <- MCRequests
INVARIANTS
  OneAtATime
PROPERTIES
  OnlyEligibleLaunched
  NoRetryAfterStop
CHECK_DEADLOCK FALSE
