SPECIFICATION FairSpec
CONSTANTS
  a = a
  b = b
  c = c
  q1 = q1
  Job = {a, b, c}
  NoJob = NoJob
  Queue = {q1}
  NoQueue = NoQueue
  QueueOf <- MCQueueOf
  RetryJobs = {}
  DedupJobs = {}
  ExcessJobs = {a, b}
  MaxAttempts = 0
  RateLimitMaxAttempts = 0
  Inputs <- MCInputs
PROPERTIES
  ImplementsSequential
  WaiterRuns
