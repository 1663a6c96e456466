------------------------ MODULE SupervisorProperties ------------------------
(***************************************************************************)
(* What the job life cycle of module Supervisor promises.                  *)
(***************************************************************************)
EXTENDS Supervisor

InQueue(q) == {j \in Job : QueueOf[j] = q}

\* The jobs that run with the slot of queue q.
Inside(q) == (alive \cap slotted) \cap InQueue(q)

\* Well-formed queues, each with its own jobs only.
WellFormed(qs) ==
  \A q \in Queue :
    /\ QueueWF(qs[q])
    /\ \A j \in Job :
         (qs[q].running = j \/ InLine(qs[q], j)) => QueueOf[j] = q

-----------------------------------------------------------------------------
(* Invariants                                                              *)

\* Queues: a job is nowhere twice, is in its own queue only, and nobody waits for
\* a slot that is free (a lost wake-up would strand the whole line).
QueuesWellFormed == WellFormed(queues)

\* Mutual exclusion: of the jobs of one queue started through it, at most one has
\* a running process.  Manual and forced starts are exempt, as documented.
OneAtATime ==
  \A q \in Queue : \A j, k \in Inside(q) : j = k

\* A process started with the slot of its queue keeps it as long as it runs:
\* release and the callback never hand the slot of a running job to another.
SlotHeld ==
  \A j \in alive \cap slotted :
    QueueOf[j] # NoQueue /\ queues[QueueOf[j]].running = j

\* The concurrency limiter's counter is the number of handles, on every path that
\* starts or finalizes: a drift would refuse the job forever or let it overlap.
LimiterAgrees ==
  /\ alive \cap exited = {}
  /\ \A j \in Job : count[j] = IF j \in Handles THEN 1 ELSE 0

\* Every process of the daemon has an unfinished run record, which its end will
\* complete; no path finalizes the record of a process that lives on.
RunsRecorded == Handles \subseteq openRun

\* A pending retry is of a job that does not run: any other start cancels it.
RetryOnlyWhenIdle == retrying \cap Handles = {}

\* The operator's mark outlives stop_job only while the job is still to be
\* finalized: a stale mark would deny a later failure its retry.
MarkNotStale == manual \subseteq exited

\* Whoever holds a slot has a handle: finalizing it ends its stay in the queue.
SlotOfHandle == slotted \subseteq Handles

\* The invariants together: none of them is inductive without the others.
Consistent ==
  /\ TypeOK
  /\ QueuesWellFormed
  /\ SlotHeld
  /\ SlotOfHandle
  /\ LimiterAgrees
  /\ RunsRecorded
  /\ RetryOnlyWhenIdle
  /\ MarkNotStale

\* The row of a job says RUNNING exactly while the daemon holds its process.
StatusAgrees ==
  \A j \in Job : status[j] = "RUNNING" <=> j \in Handles

-----------------------------------------------------------------------------
(* What a step may never do                                                *)

\* Nothing is launched that is disabled, revoked, already has a process or ran
\* within its dedup window, whichever way its start was requested or however long
\* it waited for its slot.
OnlyEligibleLaunched ==
  [][\A j \in alive' \ alive :
       j \in enabled /\ j \notin revoked \cup Handles \cup recent]_vars

\* A process of j ended in this step, but not of itself: stop_job ended it.
StopEnds(j) == j \in alive \ alive' /\ Up /\ ~ProcessExit(j)

\* A job the operator stops is not restarted by the retry manager, whoever finalizes
\* it: the step that ends its process, and every later one until it is finalized,
\* either leaves it to be finalized with its mark or schedules no retry for it.
NoRetryAfterStop ==
  [][\A j \in Job : StopEnds(j) \/ j \in manual =>
       IF j \in exited' THEN j \in manual' ELSE j \notin retrying']_vars

\* Every queue is a sequential queue.
Sequential == INSTANCE SequentialQueue WITH
  inside <- [q \in Queue |-> Inside(q)],
  line <- [q \in Queue |-> queues[q].pending]

ImplementsSequential == Sequential!Spec

-----------------------------------------------------------------------------
(* Liveness                                                                *)

\* Nobody starves: a job that waits for its queue runs eventually, whoever else
\* asks for the queue.
WaiterRuns ==
  \A j \in Job : (\E q \in Queue : InLine(queues[q], j)) ~> (j \in alive)

\* A process that has exited is finalized, or else the daemon has ended.
ExitFinalized ==
  \A j \in Job : (j \in exited) ~> (j \notin exited \/ daemon = "down")

\* A shutdown ends, although finalizing a job on the way may start another one
\* and a job that exits on its own may never be seen by the last loop.
ShutdownEnds == (daemon # "up") ~> (daemon = "down")
=============================================================================
