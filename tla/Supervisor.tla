----------------------------- MODULE Supervisor -----------------------------
(***************************************************************************)
(* The life cycle of jobs in the ProcClaw daemon: core/supervisor.py with  *)
(* the queue manager, the retry manager and the API handlers that drive    *)
(* it.                                                                     *)
(*                                                                         *)
(* The daemon is one asyncio event loop and start_job, stop_job and        *)
(* _finalize_job never await, so each of them is one atomic step, together *)
(* with the calls it makes.  What interleaves with them is the operating   *)
(* system: a process may exit at any time, and stays in _processes as a    *)
(* handle with a return code until the one second poll finalizes it.       *)
(*                                                                         *)
(* Finalizing a job that holds the slot of its queue starts the next       *)
(* waiting job from inside the handler, so one step may finalize a job and *)
(* start another.                                                          *)
(*                                                                         *)
(* The jobs here are scheduled jobs without lock, depends_on or session    *)
(* triggers, at the default concurrency.max_instances of 1.  Delays (the   *)
(* retry back-off, the dedup window) are abstracted to "may have passed".  *)
(***************************************************************************)
EXTENDS QueueManager

CONSTANTS
  Queue,        \* execution queues
  NoQueue,      \* job.queue is None
  QueueOf,      \* job.queue
  RetryJobs,    \* jobs with retry.enabled (the default)
  DedupJobs,    \* jobs with dedup.enabled (the default)
  ExcessJobs,   \* jobs with concurrency.queue_excess (the default)
  MaxAttempts,  \* retry.max_attempts
  RateLimitMaxAttempts, \* retry.rate_limit_max_attempts
  Inputs        \* which operator requests and faults the environment makes

ASSUME SupervisorAssumption ==
  /\ NoQueue \notin Queue
  /\ QueueOf \in [Job -> Queue \cup {NoQueue}]
  /\ RetryJobs \subseteq Job
  /\ DedupJobs \subseteq Job
  /\ ExcessJobs \subseteq Job
  /\ MaxAttempts \in Nat
  /\ RateLimitMaxAttempts \in Nat

VARIABLES
  enabled,     \* jobs enabled in the configuration
  revoked,     \* jobs with an active revocation
  alive,       \* jobs whose handle in _processes is of a running process
  exited,      \* jobs whose handle is of an exited process, not yet finalized
  failed,      \* those of exited whose return code is not 0
  slotted,     \* history: the process was started with the slot of its queue
  count,       \* ConcurrencyLimiter._running
  openRun,     \* jobs whose newest run record is unfinished
  staleRun,    \* jobs with an older run record that is unfinished
  recent,      \* jobs with an execution inside the dedup window
  status,      \* JobState.status
  attempt,     \* JobState.retry_attempt
  paused,      \* JobState.paused
  retrying,    \* RetryManager._pending_retries
  manual,      \* _manually_stopped
  schedPaused, \* Scheduler._paused_jobs
  schedulerUp, \* the scheduler task has not died of an exception
  queues,      \* QueueManager._queues
  dlq,         \* jobs with an entry in the dead letter queue
  daemon,      \* phase of Supervisor.run
  sweep        \* handles the final loop of _cleanup has still to visit

procVars == <<alive, exited, failed, slotted, count, openRun, staleRun, recent>>
rowVars  == <<status, attempt, paused>>
confVars == <<enabled, revoked, schedPaused>>
ctrlVars == <<schedulerUp, dlq, daemon, sweep>>
vars == <<procVars, rowVars, confVars, ctrlVars, retrying, manual, queues>>

Status == {"NONE", "RUNNING", "STOPPED", "FAILED", "QUEUED"}
Phase  == {"up", "stopping", "killing", "down"}

\* The larger of the two limits of a retry policy.
MostAttempts ==
  IF MaxAttempts < RateLimitMaxAttempts THEN RateLimitMaxAttempts ELSE MaxAttempts

TypeOK ==
  /\ enabled \subseteq Job /\ revoked \subseteq Job /\ schedPaused \subseteq Job
  /\ alive \subseteq Job /\ exited \subseteq Job
  /\ failed \subseteq Job /\ slotted \subseteq Job
  /\ count \in [Job -> Nat]
  /\ openRun \subseteq Job /\ staleRun \subseteq Job /\ recent \subseteq Job
  /\ status \in [Job -> Status]
  /\ attempt \in [Job -> 0..MostAttempts]
  /\ paused \subseteq Job /\ retrying \subseteq Job /\ manual \subseteq Job
  /\ schedulerUp \in BOOLEAN
  /\ queues \in [Queue -> QueueState]
  /\ dlq \subseteq Job
  /\ daemon \in Phase
  /\ sweep \subseteq Job

Init ==
  /\ enabled = Job /\ revoked = {} /\ schedPaused = {}
  /\ alive = {} /\ exited = {} /\ failed = {} /\ slotted = {}
  /\ count = [j \in Job |-> 0]
  /\ openRun = {} /\ staleRun = {} /\ recent = {}
  /\ status = [j \in Job |-> "NONE"]
  /\ attempt = [j \in Job |-> 0]
  /\ paused = {} /\ retrying = {} /\ manual = {}
  /\ schedulerUp = TRUE
  /\ queues = [q \in Queue |-> EmptyQueue]
  /\ dlq = {}
  /\ daemon = "up"
  /\ sweep = {}

Handles == alive \cup exited

-----------------------------------------------------------------------------
(* start_job                                                               *)

\* Fault: whether the job may run is left to whoever asked for its start.
RefusedIfBusy(j) ==
  \/ j \in alive \cup recent
  \/ count[j] >= 1 /\ j \notin ExcessJobs

\* The checks of start_job that make it return False.
Refused(j) ==
  \/ j \notin enabled
  \/ j \in alive
  \/ j \in revoked
  \/ j \in recent
  \/ count[j] >= 1 /\ j \notin ExcessJobs

\* At the limit, queue_job is called without its priority and with a timeout it
\* does not take: the TypeError leaves start_job.
StartRaises(j) == ~Refused(j) /\ count[j] >= 1

Startable(j) == ~Refused(j) /\ ~StartRaises(j)

\* What one step does to jobs: the jobs it finalizes, those it starts, those whose
\* process could not be spawned (the exception handler of start_job), and of the
\* finalized those whose error log speaks of a rate limit.
Outcome(D, S) ==
  {[done |-> D, launched |-> L, broken |-> S \ L, limited |-> R] :
     L \in IF "spawn_error" \in Inputs THEN SUBSET S ELSE {S},
     R \in IF "rate_limit" \in Inputs THEN SUBSET D ELSE {{}}}

\* Fault: record_stop is not reached when another job was started on the way.
CountSkipped(o) ==
  [j \in Job |-> IF j \in o.launched THEN count[j] + 1
                ELSE IF j \in o.done /\ o.launched = {} THEN count[j] - 1
                ELSE count[j]]

\* record_start and record_stop.
CountAfter(o) ==
  [j \in Job |-> IF j \in o.launched THEN count[j] + 1
                ELSE IF j \in o.done /\ count[j] > 0 THEN count[j] - 1
                ELSE count[j]]

\* Processes, run records and counters after a step with outcome o that has seen
\* the processes of the jobs in gone end; slot: the launched jobs that hold the
\* slot of their queue.  The run record is added before the process is spawned
\* and nothing closes it when spawning fails.
Processes(gone, o, slot) ==
  /\ alive' = (alive \ gone) \cup o.launched
  /\ exited' = (exited \cup gone) \ o.done
  /\ failed' = (failed \cup gone) \ o.done
  /\ slotted' = (slotted \ o.done) \cup slot
  /\ count' = CountAfter(o)
  /\ openRun' = (openRun \ o.done) \cup o.launched \cup o.broken
  /\ staleRun' = staleRun \cup (openRun \cap (o.launched \cup o.broken))
  /\ recent' = recent \cup (o.launched \cap DedupJobs)

\* schedule_retry: another attempt, or None at the limit, which is another one for
\* a job that was rate limited.
AtLimit(j, o) ==
  attempt[j] >= IF j \in o.limited THEN RateLimitMaxAttempts ELSE MaxAttempts

Retried(o, f) == {j \in f \cap RetryJobs : ~AtLimit(j, o)}
GivenUp(o, f) == {j \in f \cap RetryJobs : AtLimit(j, o)}

\* Fault: the row of a failed job is written before its retry is known, and lost.
StatusLost(o, f) ==
  [j \in Job |->
     IF j \in o.launched THEN "RUNNING"
     ELSE IF j \in o.broken THEN "FAILED"
     ELSE IF j \in o.done \ f THEN "STOPPED"
     ELSE status[j]]

\* The rows of job_states after a step; f: the finalized jobs that failed and
\* were not stopped by the operator.
StatusAfter(o, f) ==
  [j \in Job |->
     IF j \in o.launched THEN "RUNNING"
     ELSE IF j \in o.broken \cup f THEN "FAILED"
     ELSE IF j \in o.done THEN "STOPPED"
     ELSE status[j]]

\* A success leaves retry_attempt as it is.
AttemptAfter(o, f) ==
  [j \in Job |->
     IF j \in o.broken \cup GivenUp(o, f) THEN 0
     ELSE IF j \in Retried(o, f) THEN attempt[j] + 1
     ELSE attempt[j]]

\* start_job writes a new JobState, whose paused is False.
PausedAfter(o) == paused \ (o.launched \cup o.broken)

\* cancel_retry, by every start.
Cancelled(retries, o) == retries \ o.launched

\* start_job past its checks; viaQueue is false when the queue is bypassed
\* (trigger "manual", or _from_queue).  The caller sets queues'.
StartJob(j, viaQueue, retries) ==
  LET queued == viaQueue /\ QueueOf[j] # NoQueue IN
  /\ Startable(j)
  /\ \/ /\ queued /\ ~Acquires(queues[QueueOf[j]], j)
        /\ status' = [status EXCEPT ![j] = "QUEUED"]
        /\ retrying' = retries
        /\ UNCHANGED <<procVars, attempt, paused>>
     \/ /\ queued => Acquires(queues[QueueOf[j]], j)
        /\ \E o \in Outcome({}, {j}) :
             /\ Processes({}, o, IF queued THEN o.launched ELSE {})
             /\ status' = StatusAfter(o, {})
             /\ attempt' = AttemptAfter(o, {})
             /\ paused' = PausedAfter(o)
             /\ retrying' = Cancelled(retries, o)

\* The queues after a start that goes through the queue.
Requested(j) ==
  IF QueueOf[j] = NoQueue THEN queues
  ELSE [queues EXCEPT ![QueueOf[j]] = TryAcquire(@, j)]

Removed(qs, j) ==
  IF QueueOf[j] = NoQueue THEN qs
  ELSE [qs EXCEPT ![QueueOf[j]] = RemoveFromQueue(@, j)]

-----------------------------------------------------------------------------
(* _finalize_job                                                           *)

Released(j) ==
  IF QueueOf[j] = NoQueue THEN queues
  ELSE [queues EXCEPT ![QueueOf[j]] = Release(@, j)]

\* The job handed to _on_queue_job_ready when j is finalized.
Ready(j) ==
  IF QueueOf[j] = NoQueue THEN {} ELSE ReadyOnRelease(queues[QueueOf[j]], j)

\* The nested start_job raises and finalizing j stops right after release.
Aborts(j) == \E n \in Ready(j) : StartRaises(n)

FinalizeOutcome(j) ==
  IF Aborts(j) THEN {[done |-> {}, launched |-> {}, broken |-> {}, limited |-> {}]}
  ELSE Outcome({j}, {n \in Ready(j) : Startable(n)})

\* DeadLetterQueue.add: it is handed job.model_dump(), a dict, on which it calls
\* model_dump_json(): the AttributeError comes before add_to_dlq.
DlqAdd(entries, f) == entries

\* Finalizing with the return codes of the jobs in fails not 0 and the jobs in
\* flagged stopped by the operator: retries, flags and dead letters.  An
\* exception leaves the caller in phase onRaise.
Failures(o, fails, flagged) == (o.done \cap fails) \ flagged

MarksAfter(o, flagged) == flagged \ o.done

Bookkeep(o, f, flagged, onRaise) ==
  /\ attempt' = AttemptAfter(o, f)
  /\ retrying' = Cancelled(retrying, o) \cup Retried(o, f)
  /\ manual' = MarksAfter(o, flagged)
  /\ dlq' = DlqAdd(dlq, GivenUp(o, f))
  /\ daemon' = IF o.done = {} \/ GivenUp(o, f) # {} THEN onRaise ELSE daemon

\* _finalize_job on a handle whose process has exited.
Reap(j, onRaise) ==
  /\ j \in exited
  /\ \E o \in FinalizeOutcome(j) :
       LET f == Failures(o, failed, manual) IN
       /\ Processes({}, o, o.launched)
       /\ status' = StatusAfter(o, f)
       /\ paused' = PausedAfter(o)
       /\ Bookkeep(o, f, manual, onRaise)
  /\ queues' = Released(j)
  /\ UNCHANGED <<confVars, schedulerUp, sweep>>

\* Fault: stop_job does not mark the job.
Unflagged(j) == manual

\* The mark of the operator on a job about to be stopped.
Flagged(j) == manual \cup {j}

\* stop_job on a running job, but for the row, which pause_job overwrites:
\* terminate or kill, wait, finalize.  It catches what finalizing raises; the
\* mark then stays.
StopProcess(j, o, f) ==
  /\ j \in alive
  /\ Processes({j}, o, o.launched)
  /\ Bookkeep(o, f, Flagged(j), daemon)
  /\ UNCHANGED <<schedulerUp, sweep>>

StoppedFailures(j, o) == Failures(o, failed \cup {j}, Flagged(j))

NotStopped == UNCHANGED <<procVars, attempt, retrying, manual, ctrlVars>>

-----------------------------------------------------------------------------
(* The operating system and the clock                                      *)

ProcessExit(j) ==
  /\ j \in alive
  /\ alive' = alive \ {j}
  /\ exited' = exited \cup {j}
  /\ \E f \in {{}, {j}} : failed' = failed \cup f
  /\ UNCHANGED <<slotted, count, openRun, staleRun, recent, rowVars, confVars,
                 ctrlVars, retrying, manual, queues>>

DedupWindowEnds(j) ==
  /\ j \in recent
  /\ recent' = recent \ {j}
  /\ UNCHANGED <<alive, exited, failed, slotted, count, openRun, staleRun,
                 rowVars, confVars, ctrlVars, retrying, manual, queues>>

-----------------------------------------------------------------------------
(* The tasks of the daemon                                                 *)

Up == daemon = "up"

\* Fault: the poll leaves jobs alone whose stop is under way.
CheckUnmarked(j) == Up /\ j \notin manual /\ Reap(j, "stopping")

\* One iteration of the loop of _check_processes.
CheckProcess(j) == Up /\ Reap(j, "stopping")

\* Scheduler._trigger_job; a job that still runs is skipped (on_overlap).
ScheduledStart(j) ==
  /\ Up /\ schedulerUp
  /\ j \in enabled /\ j \notin schedPaused /\ j \notin alive
  /\ \/ StartJob(j, TRUE, retrying) /\ queues' = Requested(j) /\ UNCHANGED schedulerUp
     \/ /\ StartRaises(j)
        /\ schedulerUp' = FALSE
        /\ UNCHANGED <<procVars, rowVars, retrying, queues>>
  /\ UNCHANGED <<confVars, manual, dlq, daemon, sweep>>

\* RetryManager._process_retries: the entry goes whatever start_job answers.
RetryFires(j) ==
  /\ Up
  /\ j \in retrying
  /\ \/ StartJob(j, TRUE, retrying \ {j}) /\ queues' = Requested(j)
     \/ /\ ~Startable(j)
        /\ retrying' = retrying \ {j}
        /\ UNCHANGED <<procVars, rowVars, queues>>
  /\ UNCHANGED <<confVars, ctrlVars, manual>>

-----------------------------------------------------------------------------
(* API handlers                                                            *)

ApiStart(j) ==
  /\ Up
  /\ j \notin alive
  /\ StartJob(j, TRUE, retrying)
  /\ queues' = Requested(j)
  /\ UNCHANGED <<confVars, ctrlVars, manual>>

\* POST /run: trigger "manual" bypasses the queue.
RunJob(j) ==
  /\ Up /\ "run" \in Inputs
  /\ j \notin alive
  /\ StartJob(j, FALSE, retrying)
  /\ UNCHANGED <<confVars, ctrlVars, manual, queues>>

ForceStart(j) ==
  /\ Up /\ "force" \in Inputs
  /\ j \in enabled \ alive
  /\ queues' = Removed(queues, j)
  /\ \/ StartJob(j, FALSE, retrying)
     \/ ~Startable(j) /\ UNCHANGED <<procVars, rowVars, retrying>>
  /\ UNCHANGED <<confVars, ctrlVars, manual>>

\* GET /jobs/{id}: get_job_status finalizes a job whose process has exited.
GetJobStatus(j) ==
  /\ Up /\ "status" \in Inputs
  /\ status[j] = "RUNNING"
  /\ Reap(j, "up")

\* stop_job as its callers see it.
Stop(j) ==
  /\ \E o \in FinalizeOutcome(j) :
       LET f == StoppedFailures(j, o) IN
       /\ StopProcess(j, o, f)
       /\ status' = StatusAfter(o, f)
       /\ paused' = PausedAfter(o)
  /\ queues' = Released(j)

StopIfRunning(j) ==
  \/ Stop(j)
  \/ j \notin alive /\ NotStopped /\ UNCHANGED <<status, paused, queues>>

StopJob(j) ==
  /\ Up /\ "stop" \in Inputs
  /\ Stop(j)
  /\ UNCHANGED confVars

\* pause_job reads the row before it stops the job and saves it afterwards: the
\* row keeps the status it had while the job ran.
PauseJob(j) ==
  /\ Up /\ "pause" \in Inputs
  /\ j \notin paused
  /\ \/ /\ \E o \in FinalizeOutcome(j) :
             LET f == StoppedFailures(j, o) IN
             /\ StopProcess(j, o, f)
             /\ status' = [StatusAfter(o, f) EXCEPT ![j] = status[j]]
             /\ paused' = PausedAfter(o) \cup {j}
        /\ queues' = Removed(Released(j), j)
     \/ /\ j \notin alive /\ NotStopped
        /\ paused' = paused \cup {j}
        /\ queues' = Removed(queues, j)
        /\ UNCHANGED status
  /\ schedPaused' = schedPaused \cup {j}
  /\ UNCHANGED <<enabled, revoked>>

ResumeJob(j) ==
  /\ Up
  /\ j \in paused
  /\ paused' = paused \ {j}
  /\ schedPaused' = schedPaused \ {j}
  /\ UNCHANGED <<procVars, status, attempt, enabled, revoked, ctrlVars, retrying,
                 manual, queues>>

\* set_job_enabled reloads the configuration, and the scheduler forgets the job
\* with its pause; the queue manager is not told.
DisableJob(j) ==
  /\ Up /\ "disable" \in Inputs
  /\ j \in enabled
  /\ StopIfRunning(j)
  /\ enabled' = enabled \ {j}
  /\ schedPaused' = schedPaused \ {j}
  /\ UNCHANGED revoked

EnableJob(j) ==
  /\ Up
  /\ j \notin enabled
  /\ enabled' = enabled \cup {j}
  /\ UNCHANGED <<procVars, rowVars, revoked, schedPaused, ctrlVars, retrying,
                 manual, queues>>

\* revoke_job, with terminate or without.
RevokeJob(j) ==
  /\ Up /\ "revoke" \in Inputs
  /\ revoked' = revoked \cup {j}
  /\ \/ StopIfRunning(j)
     \/ NotStopped /\ UNCHANGED <<status, paused, queues>>
  /\ UNCHANGED <<enabled, schedPaused>>

\* unrevoke_job, or the revocation expires.
UnrevokeJob(j) ==
  /\ Up
  /\ j \in revoked
  /\ revoked' = revoked \ {j}
  /\ UNCHANGED <<procVars, rowVars, enabled, schedPaused, ctrlVars, retrying,
                 manual, queues>>

\* DELETE /queues/{name}: the rows of the dropped jobs keep status QUEUED.
ClearPending(q) ==
  /\ Up /\ "clear" \in Inputs
  /\ queues[q].pending # <<>>
  /\ queues' = [queues EXCEPT ![q] = ClearQueue(@)]
  /\ UNCHANGED <<procVars, rowVars, confVars, ctrlVars, retrying, manual>>

-----------------------------------------------------------------------------
(* Shutdown: Supervisor.run leaves its loop and calls _cleanup             *)

ShutdownRequest ==
  /\ Up /\ "shutdown" \in Inputs
  /\ daemon' = "stopping"
  /\ UNCHANGED <<procVars, rowVars, confVars, schedulerUp, dlq, sweep, retrying,
                 manual, queues>>

\* The finally block awaits the scheduler task before it calls _cleanup: if the
\* task died of an exception, the await raises it again and _cleanup never runs.
Cleaning == daemon = "stopping" /\ schedulerUp

\* The wait loop of _cleanup; an exception leaves run() and ends the daemon.
CleanupReap(j) == Cleaning /\ Reap(j, "down")

\* The deadline of 60 s has passed: the last loop runs over a copy of _processes.
CleanupDeadline ==
  /\ Cleaning
  /\ Handles # {}
  /\ daemon' = "killing"
  /\ sweep' = Handles
  /\ UNCHANGED <<procVars, rowVars, confVars, schedulerUp, dlq, retrying, manual,
                 queues>>

\* kill() is not followed by a wait: the return code is still None, which is not
\* 0.  A process that has exited in the meantime is not visited any more.
CleanupKill(j) ==
  /\ daemon = "killing"
  /\ j \in sweep
  /\ sweep' = sweep \ {j}
  /\ \/ /\ j \in alive
        /\ \E o \in FinalizeOutcome(j) :
             LET f == Failures(o, o.done, manual) IN
             /\ Processes({j}, o, o.launched)
             /\ status' = StatusAfter(o, f)
             /\ paused' = PausedAfter(o)
             /\ Bookkeep(o, f, manual, "down")
        /\ queues' = Released(j)
     \/ /\ j \notin alive
        /\ UNCHANGED <<procVars, rowVars, retrying, manual, queues, dlq, daemon>>
  /\ UNCHANGED <<confVars, schedulerUp>>

\* Fault: the last loop waits until _processes is empty.
CleanupDrained ==
  /\ daemon \in {"stopping", "killing"} /\ Handles = {}
  /\ daemon' = "down"
  /\ UNCHANGED <<procVars, rowVars, confVars, schedulerUp, dlq, sweep, retrying,
                 manual, queues>>

CleanupEnds ==
  /\ \/ Cleaning /\ Handles = {}
     \/ daemon = "stopping" /\ ~schedulerUp
     \/ daemon = "killing" /\ sweep = {}
  /\ daemon' = "down"
  /\ UNCHANGED <<procVars, rowVars, confVars, schedulerUp, dlq, sweep, retrying,
                 manual, queues>>

-----------------------------------------------------------------------------
JobNext(j) ==
  \/ ProcessExit(j) \/ DedupWindowEnds(j)
  \/ CheckProcess(j) \/ ScheduledStart(j) \/ RetryFires(j)
  \/ ApiStart(j) \/ RunJob(j) \/ ForceStart(j) \/ GetJobStatus(j)
  \/ StopJob(j) \/ PauseJob(j) \/ ResumeJob(j)
  \/ DisableJob(j) \/ EnableJob(j) \/ RevokeJob(j) \/ UnrevokeJob(j)
  \/ CleanupReap(j) \/ CleanupKill(j)

Next ==
  \/ \E j \in Job : JobNext(j)
  \/ \E q \in Queue : ClearPending(q)
  \/ ShutdownRequest \/ CleanupDeadline \/ CleanupEnds

Spec == Init /\ [][Next]_vars

\* The loops of the daemon run forever and the processes of scheduled jobs end.
\* Nothing makes an operator act, or a schedule come due.
Fairness ==
  /\ \A j \in Job :
       /\ WF_vars(ProcessExit(j))
       /\ WF_vars(CheckProcess(j))
       /\ WF_vars(RetryFires(j))
       /\ WF_vars(DedupWindowEnds(j))
       /\ WF_vars(CleanupReap(j))
       /\ WF_vars(CleanupKill(j))
  /\ WF_vars(CleanupEnds)

FairSpec == Spec /\ Fairness
=============================================================================
