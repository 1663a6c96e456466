# ProcClaw in TLA+

ProcClaw (`src/`) is a job supervisor: a daemon that starts jobs as operating
system processes, on schedules, on request and on events, watches them, retries
them and keeps their history in SQLite. This directory holds TLA+ models of it,
TLC configurations that check them on small instances, and proofs checked by
TLAPS that hold for every instance.

Source paths below are relative to `src/src/procclaw/`.

## The system

One daemon process runs one asyncio event loop. The loop carries the supervisor's
main loop (`Supervisor.run`), a dozen background tasks and the REST API. Jobs are
child processes in sessions of their own; the file watcher of the event triggers
is the only other thread that calls into the supervisor. Whatever does not
`await` is therefore atomic with respect to the rest of the daemon, but never
with respect to the child processes.

| Component | State | Operations | Interacts with | Hard because |
|---|---|---|---|---|
| Supervisor, `core/supervisor.py` | `_processes`, `_manually_stopped`, rows of `job_states` and `job_runs` | start, stop, finalize, pause, enable, revoke, adopt, shut down | everything below | a process exits at any time and is finalized later; finalizing one job starts another from inside; exceptions leave in the middle |
| Queue manager, `core/queue_manager.py` | per queue: the running job, the FIFO of waiters | try_acquire, release, remove, clear | start and finalize; calls back into start | the callback may fail; bypasses; nothing is persisted |
| Retry manager, `core/retry.py` | pending retries | schedule, cancel, fire, restore | finalize, start, restart of the daemon | a retry races every other start; limits |
| Scheduler, `core/scheduler.py` | next runs, paused jobs, overlap counter, catch-up set | add, remove, pause, trigger | start | overlap policies, reloads, missed runs, exceptions end its task |
| Concurrency limiter, `core/concurrency.py` | running counters, a persisted queue | record start and stop, queue, remove | start, finalize | a counter beside the set it counts |
| Deduplication, `core/dedup.py` | recent executions | check, record | start | windows; drops retries of a quick failure |
| Revocation, `core/revocation.py` | revocations with expiry | revoke, unrevoke, check | start, stop | a start that waited meets a revocation |
| Dead letter queue, `core/dlq.py` | entries | add, reinject, purge | finalize, start | raises; reinjection starts a job |
| Watchdog, `core/watchdog.py` | misses already alerted | check, alert, forget | run records | grace periods, time zones |
| Recovery, `core/supervisor.py`, `core/job_wrapper.py` | marker and heartbeat files | adopt, recover, clean up | restart of the daemon | daemon and jobs die independently |
| Healing queue, `core/healing_queue.py`, `core/self_healing.py` | current request, FIFO, history | enqueue, dequeue, send, respond, time out, cancel | finalize, an external AI session | awaits between steps, late answers |
| Healing engine, `core/healing_engine.py` | running reviews, suggestions | review, approve, apply | running jobs | a semaphore, long waits |
| Composite jobs, `core/composite.py` | runs and their steps | chain, group, chord | start, the job's row | completion is guessed by polling the row |
| Workflows, `core/workflow.py`, `core/results.py` | runs, tasks, completion events, results | start, cancel, time out, resume | jobs of the host | events and results belong to a job, not to a run |
| Configuration, `config.py` | one file per job | load, validate, save, delete | supervisor, scheduler | the file changes before it is known to be valid |
| Dependencies, `core/dependencies.py`; ETA, `core/eta.py`; triggers, `core/triggers.py` | start and completion times; scheduled times | check, record; schedule, cancel, trigger | start, finalize | half in memory, half guessed from rows after a restart |
| Health checker, `core/health.py`; resource monitor, `core/resources.py` | results, failures; registered processes | register, check, kill | start, finalize, alerts | late answers, kills by pid, a loop that an exception ends |
| Alerts and output, `openclaw.py`, `core/output_parser.py` | a queue of alerts; log files | queue, deliver; scan, rotate | finalize, the monitors | order, loss at shutdown, stale log lines |
| Locks, priority queue, SLA | | | | not reached, or arithmetic without state |
| API and CLI, `api/server.py`, `cli/` | none of their own | handlers | the supervisor | several supervisor calls in one request |

What makes each of them correct:

- *Job life cycle*: nothing is launched that may not run; a job has at most one
  process; every exit is finalized once; the row, the counter and the run record
  agree with the process; a job stopped by the operator is not restarted; a job
  out of retries becomes a dead letter; shutdown ends and leaves nothing running.
- *Queues*: one job of a queue at a time, first come first served, no lost
  wake-up, no leaked slot, whoever waits runs.
- *Recovery*: every run ends up recorded with the exit code it had; no orphan is
  started twice.
- *Watchdog*: each missed run is alerted, once.
- *Healing queue*: one request at a time, in order, each one ends.
- *Composites and workflows*: all that was started is awaited, success is that of
  the very run started, a cancelled run starts nothing, each one ends.
- *Reviews*: one per interval; the status of a suggestion, the recorded actions and
  the file agree through approval, application and rollback.
- *Configuration and schedule*: the schedule is that of the files, a slot runs once,
  a finished one-shot never again.
- *Gates*: what is revoked, recent or waiting for its dependency does not start,
  also after a restart.
- *Monitors*: what is noted and alerted is true and in order; a limit is enforced.

## Modules

| Module | Models |
|---|---|
| `QueueManager` | one execution queue and its operations, as operators |
| `Supervisor` | the job life cycle: start, finalize, stop, the poll, the scheduler, the retries, the API handlers and shutdown, with the queue manager |
| `SequentialQueue` | abstract: what a queue promises |
| `SupervisorProperties` | the properties of `Supervisor`, and the refinement mapping to `SequentialQueue` |
| `Watchdog` | expected runs, misses and alerts over the daemon's local clock |
| `RunRecovery` | the runs of one job across crashes and restarts of the daemon, with the wrapper script, its markers and heartbeats |
| `HealingQueue` | the queue of healing requests and the task that works through it |
| `Composite` | chains, groups and chords over the start, the row and the process of their jobs |
| `Workflow` | workflow runs, their tasks, events and results, over cancellation, timeouts and crashes |
| `Reviews` | proactive reviews behind their semaphore, and the life of a suggestion |
| `Registry` | the jobs' files, what is loaded of them, and the scheduler's next runs |
| `Gates` | revocation, deduplication and dependencies as a start meets them; ETA and webhooks as two that start; and what a restart reads back |
| `Monitors` | health checks, limits, output check and alerts of the runs of a job |
| `SupervisorProofs` | theorems about `QueueManager`, `Supervisor` and its refinement of `SequentialQueue` |
| `RunRecoveryProofs`, `CompositeProofs`, `WorkflowProofs`, `ReviewsProofs`, `RegistryProofs`, `GatesProofs` | theorems about the module of that name |
| `WatchersProofs` | theorems about `Watchdog`, `Monitors` and `HealingQueue` |
| `MC...` | instances for TLC |

`Supervisor` is the composition of the queue manager, the scheduler's and the
retry manager's calls and the job life cycle. `Watchdog` reads only the run
records and the configuration, and `HealingQueue` only the row of a failed run,
so each is a system of its own whose environment (`Run`, `Toggle`;
`TriggerHealing`, `Age`) is what the supervisor may do to it at any time.
`RunRecovery` looks at the same start, stop and finalization as `Supervisor`, but
across lives of the daemon: there one life and many jobs, here many lives and one
job, with the process split into wrapper and command. The later modules each
take one neighbour of the supervisor and reduce the supervisor to what that
neighbour sees of it: `Composite` keeps the row, the process and the outcomes of a
start; `Gates` opens up the refusals that `Supervisor` has as one condition;
`Registry` opens up the triggers of its scheduler; `Monitors` hangs on starts and
finalizations; the host of `Workflow` is only a set of jobs that end.

### How `Supervisor` corresponds to the code

- `_processes` is split into `alive` and `exited`: a handle whose process runs and
  one whose process has exited but has not been finalized. `failed` is its exit
  code, 0 or not.
- One action is one run of a handler to its end or to its next `await`.
  `start_job` is `StartJob`; `_finalize_job` is `Reap`, or a part of
  `StopProcess` and `CleanupKill`; each includes the start of the next job of the
  queue, because `release` calls back into `start_job`. When that nested call
  raises (`Aborts`), the finalization ends half-way, as in the code.
- `_check_processes` finalizes all exited handles in one pass; the model
  finalizes them one by one, in any order. This adds interleavings (an API call
  between two of them) the code does not have, and loses none.
- Exceptions are modelled where the code raises them on paths that are reached:
  `queue_job` called with arguments it does not take (`StartRaises`), and the
  dead letter queue given a dict (`DlqAdd`). Where they end up depends on the
  caller: the API answers 500, `stop_job` and the retry manager catch them, the
  scheduler task dies (`schedulerUp`), the main loop ends.
- `count` is the concurrency counter, `openRun` and `staleRun` the unfinished run
  records, `recent` the dedup window, `retrying` the pending retries, `manual`
  the set of manually stopped jobs.
- `slotted` is a history variable: the process was started with its queue's slot,
  not by a manual or forced start, which bypass the queue.
- The outcome of an ended process says whether its output was taken for a rate limit
  (`limited`). `AtLimit` counts the attempts against `RateLimitMaxAttempts` then and
  against `MaxAttempts` otherwise, although the counter is one and the same; so it is
  bounded by the larger of the two (`MostAttempts`).
- Operators commented "Fault:" are not part of the specification. Each is one way
  a definition could be wrong; replacing the definition with it must break a
  property.

Left out of `Supervisor`: jobs of type continuous, oneshot and openclaw, `lock`,
`depends_on` and session triggers, `max_instances` other than 1, payload
dependent dedup keys, I/O errors of the database and log files, processes that
survive SIGKILL, reuse of process ids. The delays of retries and of the dedup
window are abstracted to "may have passed", so every order of expiry is covered.

### How `Watchdog` corresponds to the code

- `now` is the daemon's local time in ticks; a tick is one round of the loop of
  `run`, which calls `CheckAndAlert` (`_check_and_alert`). `alertedMisses` is
  `_alerted_misses`; `ran` the `started_at` of the newest run of each job.
- A cron expression is the set of the instants at which it matches (`Slots`), which
  need not be evenly spread: `*/5 9-17 * * *` has a night. `SlotBefore` and `SlotAfter`
  are croniter's `get_prev` and `get_next`.
- `PreviousSlot`, `GracePeriod`, `Overdue`, `NotRunSince` are the steps of
  `check_job`. The grace period is that of the gap after the next slot
  (`IntervalAt`), for which the code reads the expression in local time, whatever the
  zone of the job.
- The code stores naive local times and reads them in the zone of the job;
  `Offset` keeps the difference (`ReadAsZoned`, `Forget`).
- `Start` is the start of the daemon with `_suppress_startup_alerts`; `Stop` its
  end or crash. Nothing is persisted. `alerts` and `old`, the misses that were there
  when the daemon started, are history variables.

Left out: the text and the channels of alerts, alerts that fail to be sent, run
records deleted by retention.

### How `RunRecovery` corresponds to the code

- Runs are numbered by `add_run`; `recorded` is the exit code of each row, `"open"`
  while `finished_at` is NULL. `pid` is the pid of the job's row, named by the run
  the process belongs to, and `handle` the entry of `_processes` with the run its
  process belongs to and the `run_id` it carries, which the code keeps separately.
- `wrapper` and `command` are the living processes: SIGTERM to the wrapper takes
  effect when the command has ended (bash defers the trap), SIGKILL leaves the
  command and the heartbeat loop behind. `marker` and `heart` are the files.
- `StartJob`, `StartRefused` and `StartFails` are the outcomes of `start_job`;
  `CrashInStart` is a crash between `add_run` and `save_state`. The branch that
  adopts an orphan from inside `start_job` is not reached, which `MayStart` says
  with `~Alive(pid)`: by `NothingUnmanaged` the orphan has been adopted before.
- `_finalize_job` removes the marker and the heartbeat of the handle's run, releases the
  queue slot, from which other jobs are started, and only then closes the run.
  `Finalize` is all of that; `FinalizeRaises` is the finalization that an exception of
  the release ends half-way: the files are gone, the run and the handle stay for the
  next poll. A crash in the middle is `FinalizeRaises` followed by `Crash`.
- `Adopt` and `Recover` are the two ways through `_cleanup_zombie_runs`, which runs
  before anything else can start a job.
- The model keeps what the code does: finalization closes the newest run, not the
  run of the handle; an orphan is not counted against `max_instances`; a run with a
  fresh heartbeat and no process is passed over.
- `lost` and `cut` are history variables: runs whose wrapper was killed, or whose pid
  was never saved; and runs whose finalization was cut short. What is managed is the
  wrapper: after a forced stop the command goes on and nobody sees it.

Left out: reuse of process ids, loss of the marker files (they are in `/tmp`), the
status of the job's row, deletion of the job, the retries restored at startup.

### How `HealingQueue` corresponds to the code

- `pending` and `current` are `_queue` and `_current`, `state` the history, a
  request standing for its run. `late` says that the response timeout has passed
  since `sent_at`; `answer` what the response file says.
- No coroutine of the queue suspends: its lock is never contended, and sending to
  the session writes a file. So `enqueue`, `cancel` and one poll
  (`_run_healing_queue`, every 30 seconds) are atomic steps.
- "In the queue" is what `_queue` and `_current` hold. The session of the agent works
  on after its request has timed out, was cancelled, or was lost with the daemon, and
  then a second session of the same job may be asked; the queue does not know.
- `healing` is `healing_status` of the run's row. Storing `SUCCESS` or `FAILURE`,
  which the enumeration lacks, raises: the poll fails, and so does the next
  (`Stuck`).
- `recent` is the set of runs `_get_run` can find; it reads the newest 500 rows.
- An update that raises before anything has changed leaves no trace, and the next
  poll tries again; one that raises after the request has been sent is
  `SendFails`.

### How `Composite` corresponds to the code

- `runs[j]` numbers the runs of a job and stands for its process id, `row` is what
  `job_states` says (`pid`, `last_exit_code`, and whether there is a row at all),
  `proc` the process: alive, a child that has exited and was not reaped, or gone.
- `BeginPart` is the call of `start_job` in `_run_and_wait`, whose answer is ignored;
  `Poll` one look of its loop, `WaitResult` what it decides. `PidAlive` is
  `check_pid`, which takes an unreaped child for alive.
- A group begins its members one after the other, which is how `asyncio.gather`
  lets them reach their first `await`; a chord then waits for all of them.
- `OtherStart`, `Delete`, `AskRunning` are what anybody else does to the same jobs.
- `launched` is a history variable: the run a part really launched, 0 if none.

Left out: the dictionary of composite runs, in which two requests of the same
second overwrite each other.

### How `Workflow` corresponds to the code

- `mem` is the status in `_active_runs`, `db` the persisted one, `task` the asyncio
  task; `cancelling` holds the tasks that were cancelled and have not run since.
- `BeginStep`, `Wake`, `Timeout` are `_start_and_wait` before its `await`, when the
  event is set, and when the wait times out; the event is registered under the name
  of the job, so the last to wait takes it over.
- `Ends` is `ResultCollector.capture`, followed by `notify_job_complete`.
- `BeginStep` has the start that is refused and the one that raises
  (`core/supervisor.py:571`); what follows is `AfterStep`.
- `cancel_workflow` sets the status in memory, stops the jobs, blocking the loop, and
  then persists. No task of the loop runs in between, so it is one action,
  `CancelWorkflow`, but the host may die there: `CrashInCancel`, after which the run is
  loaded as running and some of its jobs are stopped.
- `SeeCancel` is the task that sees its cancellation. On Python 3.11, which
  `pyproject.toml` allows, `asyncio.wait_for` returns the result when the event was set
  before the cancellation came (`deaf`); then `Wake` goes on instead (`LosesCancel`).
- The daemon constructs the manager but neither starts its loop nor notifies it. The
  host of the model does both, as the unit tests do.
- `own`, `deaf` and `cancelled` are history variables: how the job that a step itself
  started ended, which steps were told of the end of their job before their task was
  cancelled, and the runs `cancel_workflow` has returned for.

Left out: the numbering of runs, which after a restart begins again, the clean-up of
ended runs from memory, errors of the database that `_persist_run` swallows, and a
crash between `_persist_run` and `finish_workflow`, which write the same row.

### How `Reviews` corresponds to the code

- A request passes the stages queued, slot (it holds the semaphore), analysing and
  over, which are the awaits of `run_review`. `BeginPass` and `LookAt` are
  one round of the scheduler, which waits for each review it asks for (`looping`).
- A suggestion has the kind of content it came with: `ready` with the whole file,
  `ask` if the agent is asked again when it is applied, `plain` without any,
  `auto` if it is applied without approval. `Ask` and `Answer` are the two halves of
  an application on either side of that `await`.
- `actions` are the rows of `healing_actions`, with the content before and after.
- The file, the action and the suggestion are written one after the other.
  `DiesApplying`, `DiesFailing` and `DiesRollingBack` are the ends of the daemon between
  two of them. `RollbackFails` is a rollback whose write fails: the action becomes
  `failed` and keeps its original content, so it can be tried again, and the suggestion
  stays applied.
- `turns` and `cut`, suggestions that a crash left behind their action, are history
  variables.

Left out: contents that are empty, a write that fails half-way (it is taken to leave the
file as it was), errors of the database between two writes, prompts, the parsing of
answers, the check that a file belongs to the job, and the deletion of rows older than
90 days.

### How `Registry` corresponds to the code

- `file` is the file of each job: none, one that is not a dictionary and is skipped,
  or a configuration that is enabled or not, sound or not, and depends on others.
  `Loadable` and `Read` are `load_jobs` with its validation; one bad file refuses
  them all. `loaded` is what the supervisor holds.
- Time is reduced to what `_calculate_next_run` tells apart: for the newest slot of
  a job whether it is ahead, recent or beyond the grace period, and whether the job
  has run since. `Missed` and `NextSlot` are its branches.
- `Save` followed by `Reload` is one action per handler: when the reload raises,
  the file has changed and the configuration has not.
- `reload_jobs` replaces the jobs and then calls `update_jobs`, where a `timezone` that
  is not in pytz's database raises (nothing validates it; `zone`). `Schedule` leaves the
  schedule half made then, at any point; `held` is what `Scheduler._jobs` has. The next
  run of such a job cannot be computed when it is due either (`Decided`): the exception
  ends the loop.
- `OutOfHours`, `Overlaps` and `Trigger` are the paths of `_trigger_job`; `LoopDies`
  is a start that raises. `HangUp` is SIGHUP, whose failing reload ends the daemon.
- `started` and `finished` are history variables.

Left out: cron arithmetic, what time zones that are known do to slots, retries,
`kill_restart` in the run (it starts without killing, which the model has), the content
of job files that neither schedules nor orders.

### How `Gates` corresponds to the code

- `Outcomes` is `start_job` up to the spawn, in the order of its checks; `Start` what
  follows, with `Recorded` and `StillComplete`. A crash in the middle is
  `CrashInStart`: the run is there, and the process not yet, or with a pid that was never
  saved (`lost`), or with its row; nothing else is.
- `Boot` adopts a process whose pid is in the row. One that was lost is passed over,
  since its heartbeat is fresh, and nobody manages it (`Verdicts` has what becomes of
  the runs without a process).
- `Completed` is `check_dependency` with `after_complete`: the memory of this life, the
  newest run if it has ended, and else the status of the row.
- An execution is a job with a payload; ages are ticks up to `Long`. `window_seconds`
  may be longer than the hour after which the cache forgets and up to which `Boot`
  reads the records back.
- The API, the webhook and the ETA loop are the callers. The daemon never starts the
  ETA loop; the model's host does.
- `banned` and `again` are history variables.

Left out: reasons, `should_terminate`, `consume_revocation`, `clear_job`,
`wait_for_dependencies`, `validate_no_cycles`, `get_start_order`, none of which has a
caller.

### How `Monitors` corresponds to the code

- One job; `newest` numbers its runs. `process` tells an ended child from a reaped
  one, because `psutil` and `os.kill` do. `managed` is its handle, own or adopted;
  the adopted are registered with neither monitor.
- `Check` is `_check_all` reaching the job; an HTTP check suspends (`asked`) and
  `Answer` records the result, of whatever run is registered by then.
  `HealthFail` with alerts raises, and the loop is dead for all jobs.
- `ResourceCheck` is one round of the resource monitor; each limit exceeded is
  handled, and told, by itself.
- `Deliver` and `Posted` are the alert worker, `delivered` the file of pending
  alerts; `log` and `detached` the log file and a process that writes to a renamed
  one.
- `killed` and `stranger` are history variables.

Left out: check intervals, the processor limit (each sample is the first of a new
`psutil` object, which is 0, so it never fires), reuse of pids, the memory log.

## Runs

All runs pass; the longest take about three minutes on two workers.

| Run | Instance | Checks |
|---|---|---|
| `Requests` | 2 jobs, 1 queue; stop, pause, disable, manual and forced starts, clear, rate limits | mutual exclusion, eligibility of every launch, no retry after a stop |
| `Faults` | 2 jobs, 1 queue; spawn errors, rate limits, revocation, manual starts, status requests, shutdown | the inductive invariant, rows agree with processes, every exit is finalized, shutdown ends |
| `Queue` | 3 jobs, 1 queue; nothing refused | refinement of `SequentialQueue`, every waiter runs; deadlock is checked |
| `Watchdog` | 3 jobs: hourly, unevenly frequent, daily in a zone ahead; restarts, edits | one alert per miss, what is older than the daemon is not alerted, misses are detected |
| `Recovery` | 3 runs; crashes, kills, failing spawns, finalizations cut short, stops | nothing alive is unmanaged, one command at a time, codes are kept, every ended run is recorded |
| `Healing` | 3 runs of 2 jobs; crash, failing updates | one request per job, every request ends unless its answer cannot be stored |
| `Composites` | a chain, a group and a chord over 2 jobs, one requested; others start, delete and ask | own runs are awaited, no stale success, every composite ends |
| `Workflows` | a chain that stops on failure, a group with two steps at once, a chord; 2 runs, or a run and a crash, also in the middle of a cancel | success is real, resumed unless ended, nothing starts after a cancel, every run ends |
| `Reviews` | 1 job, 2 reviews, every kind of suggestion, 2 actions, failing rollbacks, 1 restart, also between two writes | once per interval, status matches actions, rollback restores, every review ends |
| `Registry` | a scheduled job with hours and a one-shot, known and unknown time zones; 2 events of any kind | the schedule is that of the files, a slot runs once, a finished one-shot stays finished, what is due is taken |
| `Gates` | 2 jobs, one after the other, a payload, a key, windows shorter and longer than an hour, a cache of 1; crashes | revoked does not start, recorded does not start again, never beside a dependency the daemon knows of, every ETA is decided |
| `Monitors` | 2 runs of a job of 6 configurations; crashes, shutdown | the log follows the checks, a kill is told before the failure, limits are enforced |

Every safety property in this table is also a theorem (see Proofs); the properties
left to TLC alone are those of progress. `StatusAgrees` is checked and proved
without requests to pause: see divergence 19.

The types that a module states in `TypeOK`, or that its proof module states as
`...Typed`, are part of the inductive invariants.

### Bounds

Two jobs in one queue are the holder and a waiter, enough for every pairwise
race; FIFO order needs two waiters, hence the third job in `Queue`. The jobs
differ in retry, dedup and overflow settings, so that each combination meets each
other one. `MaxAttempts = 1` has both a retry and its exhaustion, and
`RateLimitMaxAttempts = 2` an attempt beyond it. The requests
are split over two runs to keep each within two minutes. `CHECK_DEADLOCK FALSE` is set
where the daemon may end for good or the bounded inputs run out.

The watchdog compares instants only with gaps between slots, grace periods, a day and
the offset of a zone; an hour of 4 ticks and a day of 8 keep their order. The slots of
the instance reach a day back, so that misses older than the daemon are there from the
beginning; 7 ticks (`MaxTime`) reach the second expected run and the end of the grace
of every kind of job, and forget the misses of the day before. For the healing queue two
runs of one job and one of another are enough for a duplicate, a waiter and an
overtaking. Recovery needs a run that was lost, one that replaces it and one after
that: three runs.

A composite looks only at its own jobs, so that another composite is to it somebody who
starts jobs: one request at a time is enough, with a second run of the job that is
member and callback. `MaxRuns` also bounds those others: that a composite may wait as
long as somebody keeps restarting its job is not in the run. Two workflow runs are what
it takes to share an event. Two reviews contend for the semaphore and for the file; two
actions are an application and another one after a rollback. In `Registry` two events
are an edit and what follows it (a reload, a pause, a start, an end of the daemon),
while slots pass freely. In `Gates` windows of 1 and 3 ticks and an hour of 2 keep
"within the window", "past it but in the cache" and "within it but forgotten" apart; a
cache of 1 evicts at the second execution. Two runs in `Monitors` are the one whose
answer or kill comes late and the one it could be taken for. The safety properties do
not depend on these bounds: they are proved for all of them.

### Fairness

`Supervisor` (`FairSpec`): weak fairness of the poll, of the retry loop, of the
clean-up and of the end of a dedup window, all loops or clocks of the daemon that
nothing disables; and of the exit of a process, since these are jobs that run to
an end. Operators, schedules and shutdown requests are under no fairness.
`WaiterRuns` is claimed only where no start is refused: see the first divergence. In
`RunRecovery` commands end, the daemon polls, and its service manager restarts it
(`KeepAlive`, `Restart=always` in `service.py`); it may crash for ever. In `Watchdog`
the clock and the loop are fair, not the jobs, the edits or the restarts; in
`HealingQueue` the poll and the clock, not the agent, who may never answer.

In `Composite` processes end, are finalized and are looked at; what others do is not
fair. In `Workflow` the tasks take their turns and timeouts pass, but a job need
not end. In `Reviews` the semaphore wakes its first waiter, the patience of a waiting
review ends, and an analysis ends (it has a timeout); OpenClaw jobs may run for ever.
In `Registry` only the scheduler's look at a due job is fair. In `Gates` the ETA
loop is strongly fair, because a start raises while an exit is not finalized, and
the job is not always in that window when the loop looks (each second); the daemon
may die again and again. In `Monitors` the poll, the loops and the alert worker
are fair and an endpoint answers or times out; processes and crashes are not.

## Divergences between the code and what it says

The models follow the code. Where its documentation, comments or tests say
otherwise, or where a property had to be stated with an exception, this is why.

1. A slot handed to a job whose start is then refused or fails is never released:
   `_on_queue_job_ready` (`core/supervisor.py:1970`) ignores what `start_job`
   answers, while `queue_manager.py:34` calls `running_job` the "Currently executing
   job". Hence `WaiterRuns` has an instance without refusals.
2. A job out of retries is not added to the dead letter queue
   (`core/supervisor.py:1922`): `DeadLetterQueue.add` calls a method of the job model
   on a dict, and the exception ends the daemon's loop. `README.md:61` of the
   repository promises the entry. Nothing is ever there to reinject.
3. Finalizing in `_cleanup` (`core/supervisor.py:2723`, "Clean up all running
   processes") starts the next job of a queue, and the last loop works on a copy:
   `ShutdownEnds` holds, but a process may be left running.
4. A start that meets an exited, not yet finalized process calls `queue_job` with an
   argument it does not take; called by the scheduler, the `TypeError` ends the
   scheduler's task (`core/supervisor.py:571`), hence "unless the loop is dead" in
   `DueIsTaken`. `models.py:200` says the excess is queued or rejected.
5. An alert may name a job that has run, if its zone is ahead of the daemon's
   (`core/watchdog.py:255`); one whose zone is behind may be alerted twice, or for a
   miss older than the daemon. A miss is never alerted if the next slot comes before its
   grace ends: so a job expected more than once an hour, at gaps none of which is more
   than twice another, is never alerted (`SteadyNeverAlerted`, proved), and one that
   rests at night only for the last run of the day.
6. An answer "fixed" or "gave up" stops the healing queue for good
   (`core/self_healing.py:598`): its status is not a member of `HealingStatus`. Hence
   `EndsUnlessStuck`.
7. A run that outlives a daemon is recorded as killed even if it succeeds
   (`core/supervisor.py:157`): an adopted process has no exit code, and its marker is
   deleted unread. `README.md:1193` says the exit code is preserved. Hence
   `CodeKeptUnlessAdopted`. Its other exception: finalizing removes the marker
   (`core/supervisor.py:1774`) before it starts other jobs (1793, 1799) and saves the
   code (1822). If the daemon dies between, or an exception ends the finalization and
   the daemon dies before the next poll, the run is recorded as killed.
8. A composite whose step is refused or queued takes the exit code of an earlier run
   for its result (`core/composite.py:168`); `NoStaleSuccess` speaks of the
   starts that were accepted.
9. Workflows: a run resumed after a crash begins at its first step again;
   `on_failure: retry` behaves like `continue`; a graceful stop records interrupted
   runs as ended; a cancel does not stop the callback of a chord
   (`core/workflow.py:299`). A cancel is persisted only when the jobs have been stopped
   (289 to 303): if the host dies between, the run is executed again, so that
   `NoStartAfterCancel` and `ResumedUnlessEnded` speak of cancels that returned. On
   Python 3.11 `wait_for` (498) loses a cancel that comes just after the job has ended:
   the chain starts its next job.
10. Reviews: rows of reviews cut off by a restart stay "running"; two applications
    of one suggestion that asks the agent can overlap, so that one is applied that
    has been rejected meanwhile; rolling back an older action discards what came
    after it; an automatic application marks a suggestion applied without changing
    anything; `enabled_at` is compared after it was overwritten. A crash between the
   writes of an application (`core/healing_engine.py:1089`, 1102) or of a rollback
   (`api/server.py:1110`, 1120, 1128) leaves action and suggestion disagreeing, which
   `StatusMatchesActions` excepts; a rollback that cannot write marks the action failed
   (1111 to 1116) although its change is in force.
11. Configuration: an invalid update is answered with an error after the file has
    changed; from then on every reload fails, SIGHUP ends the daemon, and it cannot be
    restarted. `ConfigServed` says what is served nevertheless. A timezone that is not
   known is accepted and raises when the job is scheduled (`core/scheduler.py:116`),
   after the jobs were replaced (`core/supervisor.py:387`): some jobs are served and not
   scheduled, and the scheduler's loop ends when such a job is due.
12. Schedule: with `on_overlap: queue` a reload counts a waiting slot a second time,
    which `OncePerSlot` excepts; `kill_restart` does not kill; queued runs go on
    although the job is paused; a paused job that is started by hand can no longer be
    resumed in the scheduler; a never-run job whose slot coincides with a reload
    loses it; a daemon that dies between the success of a one-shot and the rewrite of its
   file runs it again, which `FinishedStaysFinished`, of one-shots that were disabled,
   does not cover.
13. Dependencies: `after_complete` accepts a failed run of this life of the daemon,
    where `README.md:662` says exit 0, and a job that was paused before it ever ran. A
   process whose daemon died between `Popen` and the save of its pid is not adopted
   (`core/supervisor.py:2456`), where `README.md:762` says "Job still running, adopt the
   process"; if the row still says stopped, its dependents start beside it.
   `NeverBesideItsDependency` speaks of the processes the daemon knew of.
14. Deduplication: a key is global and holds for the life of the daemon, but only an
    hour after a restart or an eviction; so does an execution, also when
    `window_seconds` (`models.py:192`, "Don't run same job within this window") is
    longer than an hour, hence the hour in `NothingStartsAgain`; a crash in the middle
    of a start leaves no record.
15. The ETA loop (`README.md:67`), the workflow loop and the result collector are
    never started; `register_file_trigger` and the lock manager's `try_acquire` do
    not exist, so that a file trigger or a lock raises when it is used;
    `get_concurrency_stats` raises.
16. Health: the callback of a failed check with alerts reads an attribute the result
    does not have (`core/supervisor.py:1972`): no such alert is ever queued, the health
    loop ends for all jobs, and at shutdown the exception is raised again, so that jobs
    are not stopped. An HTTP answer that comes late is recorded for the next run;
    `NotesFollowChecks` excepts books that hold one.
17. Limits: adopted processes are not watched; the kill reaches the wrapper only; an
    ended process that was not reaped is killed and told again; several limits
    exceeded are several alerts; the processor limit never fires.
18. Output: the whole appended log is read again at every finalization, so that old
    errors are alerted again; alerts queued during the shutdown are lost.
19. Pausing a running job (`api/server.py:1559`) saves the row that was read before
    the job was stopped: it says RUNNING, with the pid of a process that is gone, until
    the next start. `StatusAgrees` is therefore stated of a daemon whose jobs are not
    paused; that the row of a job with a process says RUNNING holds anyway
    (`HandlesHaveRunningRows`).

## Proofs

Everything proved holds for every value of the constants that satisfies the named
assumptions of the module: any number of jobs, runs, queues, composites, and so on.
No theorem about a specification has a hypothesis of its own but `RowsFollowHandles`.

Each proof module has the same plan: an inductive invariant, named parts of which say
what a reader of the code would have to keep in mind; one lemma per action, or per
kind of action, that it is kept; and the theorems, which follow from it or, for the
action properties, from it and one step.

### `SupervisorProofs`

`TryAcquireKeepsWellFormed`, `ReleaseKeepsWellFormed` and `RemoveKeepsWellFormed` are
about any queue, in whatever way the supervisor uses it: it stays well formed, and
they say who holds it afterwards.

`Consistent` is the inductive invariant of the supervisor. Mutual exclusion is not
inductive: to know that the slot of a running job is not handed on, one needs that
the job holds it (`SlotHeld`), that only jobs with a handle were started with a slot
(`SlotOfHandle`), and that queues are well formed, in particular that nobody waits
for a free slot, which `release` relies on. The counter enters because the limit
check is what keeps a job with an unfinalized handle from being started over it
(`LimiterAgrees`). Steps that finalize share `FinalizeStep`, steps that start share
`StartStep`.

For what a step may never do, `StepKinds` sorts all steps into four kinds: a start
(`Starts`), the recording of an end (`Finalizes`), the two events of the environment,
and steps that leave processes, rows and retries alone (`Rests`). On it rest
`OnlyEligibleLaunched`, since a launched job has passed `Startable` in the same step,
also when it is launched from inside the finalization of another; `NoRetryAfterStop`, in
which the mark of a stopped job stays through every kind of step until the job is
finalized, by whatever step, and no retry is scheduled then; and the rows.
`AttemptBounded` is why the counter of attempts stays within either limit.
`StatusAgrees` is kept by every kind of step except the end of a paused job (`RowKept`),
hence the hypothesis that nobody pauses; its first half needs none.

`QueuesAreSequential` is the refinement. A job inside an abstract queue is a process
that was started with its slot (`Inside`), the line is `pending`. `Rests` maps to a
stutter, a give-up or a clear; an exit to `Exit`; a start to `Enter`, `Join` or a
stutter; and finalizing to `Admit`, by which the one inside leaves and the head of the
line gets in, or is passed over if its start fails. That `Enter` finds the abstract
queue empty is where `SlotHeld` and "nobody waits for a free slot" are needed.

### `RunRecoveryProofs`

All safety properties of `RunRecovery`, for any number of runs. `Managed` adds
`Linked` to them: a living process of the row's pid is that of the newest run, and
its row is open; a handle's pid is the row's, unless a failed start has reset it;
whatever else is alive is lost. Without it adoption cannot be shown to find the right
run, nor a start to be safe, since the code looks only at one pid. All starts share
the lemma `OpeningSound`. `CodesAreKept` needs one more invariant, `MarkerKept`: the
marker of the newest run lives as long as its row is open, unless a finalization of it
was cut short.

### `CompositeProofs`

For composites of any kind, any number of parts and any jobs. `RowsFollowRuns` relates
the row that the composite polls to the runs it cannot see: a row of a job with a
process has its pid and no exit code, and a row that tells a success tells that of the
newest run. `PartFine` says of each part by itself that what it launched lives only
while it waits and that what it returned is not stale. `InOrder`, the parts of a chain
one after the other, is needed because a chain begins its next part in the step in
which the last one ends. `StaysFine` carries a part over any step of the jobs; whoever
made it is of no interest (`JobsGoOn`).

### `WorkflowProofs`

For any workflows, sharing any jobs. The manager keeps one event per job, so that a
second run takes over the event of the first. `SuccessIsReal` holds nevertheless, by three
invariants: an event is of a step that waits for that job, which runs for it or has
ended and told it (`EventsOfWaiting`); a step that was told still waits, and a success
that it would read is its own (`SignaledWait`); a job that runs for a step has not
told it yet (`OwnersUntold`). So the result of somebody else's run is never between
the telling and the reading. `ResumedUnlessEnded` and `NoStartAfterCancel` need
that a task nobody cancelled is of a run that goes on, or has lost its cancellation to
an event that was set (`TasksRun`), and that a run whose cancellation was reported is
persisted as ended (`CancelledEnded`). `NoOneAssumption` says that the two markers
are no steps.

### `ReviewsProofs`

`OncePerInterval` from `TurnsTaken`: a job whose turn was taken has been checked
recently, or the scheduler is still waiting for its review. For the suggestions:
nothing has been done about a review that is not over (`NothingYet`); the agent is
asked only about suggestions of that kind (`OnlyAsked`), so that its late answers,
which do overlap (divergence 10), cannot touch one that came with its content; such a
suggestion has one action in force or none, as its status says, unless the daemon died
between the two writes (`OneInForce`); and its
actions hold as original what the file held (`OriginalKept`). `StatusMatchesActions`
counts the actions, `OneInForce` names the one, which is what rolling back needs.

### `RegistryProofs`

`ConfigServed` is inductive once `Reloaded` says what any reload leaves, also one that
raises half-way, and it is used for all handlers that end in one. It needs that a job
the scheduler holds with a known timezone has a next run (`HeldScheduled`).
`OncePerSlot` is not: a slot that was taken must not come due again at the next reload,
so that the job must have run since the slot and nothing of it may wait (`StartedOnce`).
`FinishedStaysFinished` rests on `FinishedOff`: a finished one-shot is disabled in the
file and in what is loaded, both.

### `GatesProofs`

The three safety properties of `Gates` from `Guarded`. Bans are in the table and in
the memory of a living daemon (`BansHeld`); a job with a process has an open run and is
not complete (`RunningIsOpen`), which is why a remembered completion can be trusted;
and what was executed within its window and within an hour is in the cache of a living
daemon (`Remembered`), since eviction and reload drop only what is older than an hour;
windows may be of any length. `OnlyThroughGates` then says that a process
appears only by a start the gates let through, a crash in its middle included.

### `WatchersProofs`

`Watchdog`, `Monitors` and `HealingQueue` share nothing, and their names are kept apart
(`MonitorsSpec`, `HealingSpec`), so that one module extends them all.

`OneAlertPerMiss` and `NothingOldIsAlerted` follow from `Remembered`: what has been
alerted, or was there when the daemon started, stays among the known misses until it is
older than a day, and an expected run that old is no longer looked for. The boundary
matters: the two comparisons differ at exactly one day, which is why the invariant
mentions `checked`. They hold for all schedules that go on (`SchedulesGoOn`: croniter
finds a slot on either side), all zones not behind, and all grace periods that satisfy
`UnitsAreOrdered`. `SteadyNeverAlerted` holds in all zones: the gap that the grace is
taken from and the one the run is missed in may be different ones, hence the factor two.

`NotesFollowChecks` follows from `Books`: the counter of failures, the last result and
the audit log agree, unless a stranger's result is in the books, and nothing is
remembered of a job that is not registered.

`KillExplainsFailure` follows from `Kills`, which looks into the queue of alerts: as
long as the word of a kill is not delivered, no failure of that run stands in front of
it (`Explained`), and while the failure is still to be found, the word waits (`Waits`);
nor is a run that lives told to have failed (`FailuresAreOver`), without which a kill
could come after its failure.

`OneRequestPerJob` follows from `Exclusive`, which speaks of places of the queue, not of
requests: no two places and no place and the current request are of one job.
`RemoveAtProperties` carries that over the removal of a cancelled request.

### Only model-checked

The twelve properties of progress (`WaiterRuns`, `ExitFinalized`, `ShutdownEnds`,
`MissDetected`, `EndsUnlessStuck`, `RecordedInTheEnd`, `EveryCompositeEnds`,
`EveryRunEnds`, `EveryReviewEnds`, `DueIsTaken`, `EveryEtaIsDecided`, `LimitEnforced`):
they hold by fairness, which is out of the prover's reach.

## Not modelled

- *Locks*: never taken by the daemon (divergence 15). *Priority queue*: constructed
  and not used. *SLA*: arithmetic over finished runs, without state of its own.
- *Database*: each call is one transaction and its rows are variables of the modules
  above; metrics, retention and reporting queries are left out. So are the writes whose
  errors the code swallows (`core/revocation.py:257`, the file of pending alerts, the
  persisting of workflow runs): after such an error a revocation, an alert or a status
  is lost with the daemon, which no property here says anything about.
- *Command line, service files, web page*: clients of the API and of the operating
  system. `Registry` has the start of the daemon and its signals. The CLI's fallbacks,
  which change the database and signal processes beside a daemon that does not
  answer, and the check of the pid file, which is not atomic with the fork, are not
  modelled.
- Several instances of one job (`max_instances` above 1): the second overwrites the
  handle of the first, and the code has no mechanism against it to check.
- Queue slots and pending retries across a restart: neither is restored, except for
  retries that are still ahead.

## Next

1. A theorem about the rows in the presence of pauses: which rows may be left behind.
2. Queue slots across a restart, in a module of several jobs and several lives.
