---------------------------- MODULE QueueManager ----------------------------
(***************************************************************************)
(* The in-memory execution queues of core/queue_manager.py.  "Jobs in the  *)
(* same queue run one at a time": a queue has one slot, held by            *)
(* running_job, and a FIFO list of the jobs that wait for it.              *)
(*                                                                         *)
(* The methods are pure operators from the state of one queue to its next  *)
(* state, so that module Supervisor can compose them with the handlers     *)
(* that call them.  A QueuedJob is abstracted to its job id: its queued_at *)
(* and trigger are only logged and copied into the run record.             *)
(***************************************************************************)
EXTENDS Naturals, SequencesExt

CONSTANTS
  Job,      \* job ids
  NoJob     \* None

ASSUME NoJobAssumption == NoJob \notin Job

QueueState == [running : Job \cup {NoJob}, pending : Seq(Job)]

EmptyQueue == [running |-> NoJob, pending |-> <<>>]

\* get_position(job_id) is not None
InLine(q, j) == Contains(q.pending, j)

\* Fault: whether the queue is busy is not looked at.
AcquiresBusy(q, j) == q.running # j /\ ~InLine(q, j)

\* try_acquire returns True without force: the job takes the slot.
Acquires(q, j) == q.running = NoJob /\ ~InLine(q, j)

\* try_acquire when it returns False: a job that runs or waits already is not
\* queued twice, any other job joins the end of the line.
JoinLine(q, j) ==
  IF q.running = j \/ InLine(q, j)
  THEN q
  ELSE [q EXCEPT !.pending = Append(q.pending, j)]

TryAcquire(q, j) ==
  IF Acquires(q, j) THEN [q EXCEPT !.running = j] ELSE JoinLine(q, j)

\* The filter of release and remove_from_queue.  A line has no duplicates
\* (QueueWF), so filtering a job out removes its only occurrence.
RemoveFromQueue(q, j) ==
  IF InLine(q, j)
  THEN [q EXCEPT !.pending =
          RemoveAt(q.pending, CHOOSE i \in 1..Len(q.pending) : q.pending[i] = j)]
  ELSE q

\* Fault: release frees the slot and leaves the line to the next release.
ReleaseOnly(q, j) ==
  IF q.running # j THEN RemoveFromQueue(q, j) ELSE [q EXCEPT !.running = NoJob]

\* Fault: the newest waiter is served first.
ReleaseNewest(q, j) ==
  IF q.running # j THEN RemoveFromQueue(q, j)
  ELSE IF q.pending = <<>> THEN [q EXCEPT !.running = NoJob]
  ELSE [running |-> Last(q.pending), pending |-> Front(q.pending)]

\* release: the slot passes to the head of the line.  A job that does not hold
\* the slot (it was started past the queue) only leaves the line.
Release(q, j) ==
  IF q.running # j THEN RemoveFromQueue(q, j)
  ELSE IF q.pending = <<>> THEN [q EXCEPT !.running = NoJob]
  ELSE [running |-> Head(q.pending), pending |-> Tail(q.pending)]

\* The job release hands to the on_job_ready callback, if any.
ReadyOnRelease(q, j) ==
  IF q.running = j /\ q.pending # <<>> THEN {Head(q.pending)} ELSE {}

ClearQueue(q) == [q EXCEPT !.pending = <<>>]

-----------------------------------------------------------------------------
\* A queue is well formed: nobody waits twice, the holder of the slot does not
\* wait for it, and nobody waits for a free slot.
QueueWF(q) ==
  /\ \A i, k \in 1..Len(q.pending) : q.pending[i] = q.pending[k] => i = k
  /\ ~InLine(q, q.running)
  /\ q.pending # <<>> => q.running # NoJob
=============================================================================
