------------------------------ MODULE Registry ------------------------------
(***************************************************************************)
(* The configuration of the jobs and the schedule made from it: the files  *)
(* of jobs/ (config.py), what the supervisor has loaded of them, the       *)
(* handlers that write a file and reload, and the Scheduler of             *)
(* core/scheduler.py, which every reload sets up again.                    *)
(*                                                                         *)
(* Time is what the scheduler can tell apart: for each job, whether its    *)
(* newest slot is still ahead, recent or beyond the grace period, whether  *)
(* the job has run since that slot, and whether the next run is due.  A    *)
(* one-shot job has a single slot, run_at.  The daemon's time zone is that *)
(* of the jobs, which are in no execution queue and are not retried.       *)
(***************************************************************************)
EXTENDS Naturals, FiniteSets

CONSTANTS
  Cron,       \* jobs with a schedule
  Oneshot,    \* jobs with a run_at
  History,    \* jobs that have run before
  Policies,   \* values of on_overlap: "skip", "queue" or "kill_restart"
  Hours,      \* jobs with operating hours
  Content,    \* what a job's file may say
  MaxEvents,  \* bound: requests that write, pause or start, edits by hand, and
              \* ends of the daemon, all together
  MaxQueued   \* bound: overlapping runs that wait

Job == Cron \cup Oneshot
Config == [on : BOOLEAN, ok : BOOLEAN, zone : BOOLEAN, needs : SUBSET Job]

ASSUME RegistryAssumption ==
  /\ Cron \cap Oneshot = {} /\ Hours \subseteq Job /\ History \subseteq Job
  /\ Policies \subseteq {"skip", "queue", "kill_restart"}
  /\ Content \subseteq Config
  /\ MaxEvents \in Nat /\ MaxQueued \in Nat

\* What a file says: whether the job is enabled, whether the file can be loaded, whether
\* pytz knows the timezone in it, which is not validated, and the dependencies.
NoFile == [on |-> FALSE, ok |-> TRUE, zone |-> TRUE, needs |-> {}, is |-> "none"]
Junk   == [on |-> FALSE, ok |-> TRUE, zone |-> TRUE, needs |-> {}, is |-> "junk"]  \* no dictionary
File(c) == [on |-> c.on, ok |-> c.ok, zone |-> c.zone, needs |-> c.needs, is |-> "job"]

VARIABLES
  overlap,     \* on_overlap, which nobody changes
  up,
  file,        \* the file of each job
  events,      \* how many of them there were
  loaded,      \* Supervisor.jobs
  held,        \* Scheduler._jobs: "none", or whether the timezone held there is
               \* "known" or "unknown"
  next,        \* Scheduler._next_runs: "none", "later" or "now"
  catchup,     \* Scheduler._pending_catchup
  queued,      \* Scheduler._queued
  schedPaused, \* Scheduler._paused_jobs
  loop,        \* the scheduler's task: "alive" or "dead"
  paused,      \* JobState.paused
  slot,        \* the newest slot: "ahead", "recent" or "old"
  ran,         \* the last run: "never", "before" or "since" that slot
  proc,        \* the process: "idle", "running", or until it is finalized
               \* "succeeded" (a one-shot) or "ended"
  started,     \* history: runs the scheduler has started since the newest slot
  byHand,      \* history: files were edited by hand since the last reload
  finished     \* history: one-shots disabled after a success, and not enabled since

diskVars == <<file, events, byHand>>
schedVars == <<held, next, catchup, queued, schedPaused>>
timeVars == <<slot, ran>>
vars == <<overlap, up, diskVars, loaded, schedVars, loop, paused, timeVars, proc, started,
          finished>>

Defined(f) == {j \in Job : f[j].is = "job"}
Enabled(l) == {j \in Defined(l) : l[j].on}
Scheduled == {j \in Job : next[j] # "none"}
Strange(l) == {j \in Enabled(l) : ~l[j].zone}

Init ==
  /\ overlap \in [Cron -> Policies]
  /\ up = TRUE
  /\ file = [j \in Job |-> File([on |-> TRUE, ok |-> TRUE, zone |-> TRUE, needs |-> {}])]
  /\ events = 0 /\ byHand = FALSE
  /\ loaded = file
  /\ held = [j \in Job |-> "known"]
  /\ next = [j \in Job |-> "later"]
  /\ catchup = {} /\ schedPaused = {} /\ paused = {}
  /\ queued = [j \in Job |-> 0]
  /\ loop = "alive"
  /\ slot = [j \in Job |-> IF j \in Cron THEN "old" ELSE "ahead"]
  /\ ran = [j \in Cron |-> IF j \in History THEN "before" ELSE "never"]
  /\ proc = [j \in Job |-> "idle"]
  /\ started = [j \in Cron |-> 0]
  /\ finished = {}

-----------------------------------------------------------------------------
(* Loading                                                                   *)

\* load_jobs skips a file that holds no dictionary; what is left must have sound
\* cron expressions, known dependencies and no cycle of them.
Cyclic(l) == \E S \in SUBSET Defined(l) : S # {} /\ \A j \in S : l[j].needs \cap S # {}

Loadable(l) ==
  /\ \A j \in Defined(l) : l[j].ok
  /\ \A j \in Defined(l) : l[j].needs \subseteq Defined(l)
  /\ ~Cyclic(l)

Read(f) == [j \in Job |-> IF f[j].is = "job" THEN f[j] ELSE NoFile]

\* Fault: any slot of the last hour counts as missed.
MissedIfRecent(j) == j \in Cron /\ slot[j] = "recent" /\ ran[j] # "never"

\* _calculate_next_run: a slot of the last hour that the job has not run since is
\* caught up now, unless the job has no history.
Missed(j) == j \in Cron /\ slot[j] = "recent" /\ ran[j] = "before"

NextSlot(j) == IF j \in Cron \/ slot[j] = "ahead" THEN "later" ELSE "now"

NextRun(j) == IF Missed(j) THEN "now" ELSE NextSlot(j)

\* remove_job for all that are not enabled (it forgets the runs that wait and the
\* pause, nothing forgets a pending catch-up), then add_job for those of added.
Update(l, added) ==
  LET removed == {j \in Job : held[j] # "none"} \ Enabled(l)
  IN /\ next' = [j \in Job |-> IF j \notin Enabled(l) THEN "none"
                               ELSE IF j \in added THEN NextRun(j) ELSE next[j]]
     /\ catchup' = catchup \cup {j \in added : Missed(j)}
     /\ queued' = [j \in Job |-> IF j \in removed THEN 0 ELSE queued[j]]
     /\ schedPaused' = schedPaused \ removed

\* Which configurations the scheduler holds then; that of stuck could not be scheduled.
Held(l, added, stuck) ==
  held' = [j \in Job |-> IF j \notin Enabled(l) THEN "none"
                         ELSE IF j \in added THEN "known"
                         ELSE IF j \in stuck THEN "unknown" ELSE held[j]]

\* Scheduler.update_jobs adds the enabled jobs one by one (the order of their names is
\* left open); a timezone that pytz does not know raises and leaves out the rest.
Schedule(l) ==
  IF Strange(l) = {}
  THEN Update(l, Enabled(l)) /\ Held(l, Enabled(l), {})
  ELSE \E s \in Strange(l), added \in SUBSET (Enabled(l) \ Strange(l)) :
         Update(l, added) /\ Held(l, added, {s})

\* Fault: the supervisor's jobs are replaced, the scheduler is not told.
ReloadJobsOnly(f) ==
  IF Loadable(Read(f))
  THEN loaded' = Read(f) /\ byHand' = FALSE /\ UNCHANGED schedVars
  ELSE UNCHANGED <<loaded, schedVars, byHand>>

\* reload_jobs; an exception of load_jobs leaves all as it was, one of update_jobs
\* comes when the jobs have been replaced.
Reload(f) ==
  IF Loadable(Read(f))
  THEN loaded' = Read(f) /\ Schedule(Read(f)) /\ byHand' = FALSE
  ELSE UNCHANGED <<loaded, schedVars, byHand>>

-----------------------------------------------------------------------------
(* The handlers that write files                                             *)

Event == events < MaxEvents /\ events' = events + 1

\* An operator who writes that a one-shot is enabled wants it again.
Wanted(f) == finished' = {j \in finished : f[j] = file[j] \/ ~f[j].on}

Save(f) ==
  /\ up /\ Event
  /\ file' = f
  /\ Wanted(f)
  /\ UNCHANGED <<overlap, up, loop, paused, timeVars, proc, started>>

\* The create endpoint copies no dependencies.
CreateJob(j) ==
  /\ loaded[j].is = "none"
  /\ \E c \in Content :
       LET f == [file EXCEPT ![j] = File([c EXCEPT !.needs = {}])]
       IN Save(f) /\ Reload(f)

\* update_job and set_job_enabled change the file, which need not be what is loaded.
Updated(c) == {[c EXCEPT !.on = b] : b \in BOOLEAN} \cup {[c EXCEPT !.ok = b] : b \in BOOLEAN}
                \cup {[c EXCEPT !.zone = b] : b \in BOOLEAN}

UpdateJob(j) ==
  /\ loaded[j].is = "job" /\ file[j].is = "job"
  /\ \E c \in Updated(file[j]) :
       LET f == [file EXCEPT ![j] = c]
       IN Save(f) /\ Reload(f)

\* add_job_tag, remove_job_tag and the SLA endpoint: for the schedule, a reload.
RewriteJob(j) ==
  /\ loaded[j].is = "job" /\ file[j].is = "job"
  /\ Save(file) /\ Reload(file)

\* delete_job stops the job first, and answers False for a file that is gone.
DeleteJob(j) ==
  /\ loaded[j].is = "job"
  /\ up /\ Event
  /\ proc' = [proc EXCEPT ![j] = IF @ = "running" THEN "idle" ELSE @]
  /\ LET f == [file EXCEPT ![j] = NoFile]
     IN IF file[j].is = "none"
        THEN UNCHANGED <<file, loaded, schedVars, byHand>>
        ELSE file' = f /\ Reload(f)
  /\ UNCHANGED <<overlap, up, loop, paused, timeVars, started, finished>>

\* The editor of all jobs: those it leaves out are deleted, if the files it
\* replaces could be loaded.
SaveAllJobs ==
  \E new \in [Job -> {File(c) : c \in Content} \cup {NoFile}] :
    LET f == [j \in Job |-> IF new[j].is = "job" THEN new[j]
                            ELSE IF Loadable(Read(file)) /\ file[j].is = "job" THEN NoFile
                            ELSE file[j]]
    IN Save(f) /\ Reload(f)

\* Anybody may edit the files.
EditByHand(j) ==
  /\ Event
  /\ \E new \in {File(c) : c \in Content} \cup {NoFile, Junk} :
       LET f == [file EXCEPT ![j] = new]
       IN /\ f # file
          /\ file' = f /\ Wanted(f)
  /\ byHand' = TRUE
  /\ UNCHANGED <<overlap, up, loaded, schedVars, loop, paused, timeVars, proc, started>>

ReloadRequested ==
  /\ up
  /\ Reload(file)
  /\ UNCHANGED <<overlap, up, file, events, loop, paused, timeVars, proc, started, finished>>

-----------------------------------------------------------------------------
(* The daemon                                                                *)

\* The jobs end with the daemon (the adoption of orphans is in RunRecovery); all but
\* the files and the rows of the database is gone.
Down ==
  /\ up /\ Event
  /\ up' = FALSE
  /\ proc' = [j \in Job |-> "idle"]
  /\ loaded' = [j \in Job |-> NoFile]
  /\ next' = [j \in Job |-> "none"] /\ held' = next'
  /\ queued' = [j \in Job |-> 0]
  /\ catchup' = {} /\ schedPaused' = {} /\ loop' = "dead"
  /\ UNCHANGED <<overlap, file, byHand, paused, timeVars, started, finished>>

\* SIGHUP reloads in a signal handler: an exception there ends the daemon.
HangUp ==
  IF Loadable(Read(file)) /\ Strange(Read(file)) = {} THEN ReloadRequested ELSE Down

\* A daemon whose files cannot be loaded or scheduled does not start.
Boot ==
  /\ ~up
  /\ Loadable(Read(file)) /\ Strange(Read(file)) = {}
  /\ up' = TRUE /\ loop' = "alive"
  /\ loaded' = Read(file) /\ byHand' = FALSE
  /\ Held(loaded', Enabled(loaded'), {})
  /\ next' = [j \in Job |-> IF j \in Enabled(loaded') THEN NextRun(j) ELSE "none"]
  /\ catchup' = {j \in Enabled(loaded') : Missed(j)}
  /\ schedPaused' = paused \cap Enabled(loaded')
  /\ queued' = [j \in Job |-> 0]
  /\ UNCHANGED <<overlap, file, events, paused, timeVars, proc, started, finished>>

-----------------------------------------------------------------------------
(* Starts and ends of jobs                                                   *)

\* What start_job does: a process that ended and is not yet finalized is counted
\* still, and the call that should queue the start raises.  A spawn that fails is
\* left out: for the schedule it is a run that ends at once.
Outcomes(j) ==
  IF j \notin Enabled(loaded) \/ proc[j] = "running" THEN {"refused"}
  ELSE IF proc[j] # "idle" THEN {"refused", "raises"}
  ELSE {"started", "refused"}

Takes(j, o) ==
  /\ proc' = [proc EXCEPT ![j] = IF o = "started" THEN "running" ELSE @]
  /\ ran' = [k \in Cron |-> IF k = j /\ o = "started" THEN "since" ELSE ran[k]]
  /\ paused' = IF o = "started" THEN paused \ {j} ELSE paused

StartRequested(j) ==
  /\ up /\ Event
  /\ \E o \in Outcomes(j) : Takes(j, o)
  /\ UNCHANGED <<overlap, up, file, byHand, loaded, schedVars, loop, slot, started, finished>>

Exit(j) ==
  /\ up /\ proc[j] = "running"
  /\ \E s \in {"succeeded", "ended"} :
       /\ j \in Cron => s = "ended"
       /\ proc' = [proc EXCEPT ![j] = s]
  /\ UNCHANGED <<overlap, up, diskVars, loaded, schedVars, loop, paused, timeVars, started,
                 finished>>

\* Fault: the one-shot is taken out of the schedule only.
NotDisabled(j) == file

\* _disable_oneshot_job is an update_job like any other.
Disabled(j) == [file EXCEPT ![j].on = FALSE]

Finalize(j) ==
  /\ up /\ proc[j] \in {"succeeded", "ended"}
  /\ proc' = [proc EXCEPT ![j] = "idle"]
  /\ IF j \in Oneshot /\ proc[j] = "succeeded" /\ loaded[j].is = "job" /\ file[j].is = "job"
     THEN /\ file' = Disabled(j)
          /\ Reload(Disabled(j))
          /\ finished' = IF Loadable(Read(Disabled(j))) THEN finished \cup {j} ELSE finished
     ELSE UNCHANGED <<file, byHand, loaded, schedVars, finished>>
  /\ UNCHANGED <<overlap, up, events, loop, paused, timeVars, started>>

-----------------------------------------------------------------------------
(* The scheduler's loop                                                      *)

\* A one-shot leaves the scheduler once it was decided on.
Forget(j) ==
  /\ held' = IF j \in Oneshot THEN [held EXCEPT ![j] = "none"] ELSE held
  /\ schedPaused' = IF j \in Oneshot THEN schedPaused \ {j} ELSE schedPaused

\* Fault: the slot that was decided on is looked at again.
DecidedAgain(j) ==
  /\ catchup' = catchup \ {j}
  /\ Forget(j)
  /\ next' = [next EXCEPT ![j] = IF j \in Oneshot THEN "none" ELSE NextRun(j)]
  /\ UNCHANGED loop

\* _trigger_job has decided, started or not, and asks for the next run; nothing in the
\* loop catches what an unknown timezone raises there.
Decided(j) ==
  /\ catchup' = catchup \ {j}
  /\ Forget(j)
  /\ IF j \in Cron /\ held[j] = "unknown"
     THEN loop' = "dead" /\ UNCHANGED next
     ELSE next' = [next EXCEPT ![j] = IF j \in Oneshot THEN "none" ELSE "later"] /\ UNCHANGED loop

Due(j) == up /\ loop = "alive" /\ next[j] = "now" /\ j \notin schedPaused

\* Outside its hours a slot is passed over, unless it is caught up.
OutOfHours(j) ==
  /\ Due(j) /\ j \in Hours \ catchup
  /\ IF held[j] = "unknown"
     THEN loop' = "dead" /\ UNCHANGED next
     ELSE next' = [next EXCEPT ![j] = NextSlot(j)] /\ UNCHANGED loop
  /\ UNCHANGED <<overlap, up, diskVars, loaded, held, catchup, queued, schedPaused, paused,
                 timeVars, proc, started, finished>>

\* The job still runs; killing and restarting is one more start, which is refused.
Overlaps(j) ==
  /\ Due(j) /\ proc[j] = "running"
  /\ Decided(j)
  /\ CASE j \in Oneshot -> queued' = [queued EXCEPT ![j] = 0]
       [] j \in Cron /\ overlap[j] = "queue" ->
            queued[j] < MaxQueued /\ queued' = [queued EXCEPT ![j] = @ + 1]
       [] OTHER -> UNCHANGED queued
  /\ UNCHANGED <<overlap, up, diskVars, loaded, paused, timeVars, proc, started, finished>>

Counted(j, o) ==
  started' = [k \in Cron |-> IF k = j /\ o = "started" THEN started[k] + 1 ELSE started[k]]

Trigger(j) ==
  /\ Due(j) /\ proc[j] # "running"
  /\ \E o \in Outcomes(j) \ {"raises"} : Takes(j, o) /\ Counted(j, o)
  /\ Decided(j)
  /\ queued' = IF j \in Oneshot THEN [queued EXCEPT ![j] = 0] ELSE queued
  /\ UNCHANGED <<overlap, up, diskVars, loaded, slot, finished>>

RunQueued(j) ==
  /\ up /\ loop = "alive" /\ queued[j] > 0 /\ proc[j] # "running"
  /\ \E o \in Outcomes(j) \ {"raises"} :
       /\ Takes(j, o) /\ Counted(j, o)
       /\ queued' = [queued EXCEPT ![j] = IF o = "started" THEN @ - 1 ELSE @]
  /\ UNCHANGED <<overlap, up, diskVars, loaded, held, next, catchup, schedPaused, loop, slot,
                 finished>>

\* Nothing catches an exception of start_job in the loop.
LoopDies(j) ==
  /\ Due(j) \/ (up /\ loop = "alive" /\ queued[j] > 0)
  /\ "raises" \in Outcomes(j)
  /\ loop' = "dead"
  /\ UNCHANGED <<overlap, up, diskVars, loaded, schedVars, paused, timeVars, proc, started,
                 finished>>

\* The pause endpoint stops a job that runs.
PauseJob(j) ==
  /\ up /\ Event /\ loaded[j].is = "job" /\ j \notin paused
  /\ proc' = [proc EXCEPT ![j] = IF @ = "running" THEN "idle" ELSE @]
  /\ paused' = paused \cup {j}
  /\ schedPaused' = schedPaused \cup {j}
  /\ UNCHANGED <<overlap, up, file, byHand, loaded, held, next, catchup, queued, loop,
                 timeVars, started, finished>>

\* A timezone that pytz does not know raises again; the row and the pause are done then.
ResumeJob(j) ==
  /\ up /\ loaded[j].is = "job" /\ j \in paused
  /\ paused' = paused \ {j}
  /\ schedPaused' = schedPaused \ {j}
  /\ next' = IF held[j] = "known" THEN [next EXCEPT ![j] = NextSlot(j)] ELSE next
  /\ UNCHANGED <<overlap, up, diskVars, loaded, held, catchup, queued, loop, timeVars, proc,
                 started, finished>>

-----------------------------------------------------------------------------
(* Time                                                                      *)

SlotPasses(j) ==
  /\ j \in Cron \/ slot[j] = "ahead"
  /\ slot' = [slot EXCEPT ![j] = "recent"]
  /\ ran' = [k \in Cron |-> IF k = j /\ ran[k] = "since" THEN "before" ELSE ran[k]]
  /\ next' = [next EXCEPT ![j] = IF @ = "later" THEN "now" ELSE @]
  /\ started' = [k \in Cron |-> IF k = j THEN 0 ELSE started[k]]
  /\ UNCHANGED <<overlap, up, diskVars, loaded, held, catchup, queued, schedPaused, loop,
                 paused, proc, finished>>

GraceEnds(j) ==
  /\ j \in Cron /\ slot[j] = "recent"
  /\ slot' = [slot EXCEPT ![j] = "old"]
  /\ UNCHANGED <<overlap, up, diskVars, loaded, schedVars, loop, paused, ran, proc, started,
                 finished>>

Next ==
  \/ \E j \in Job :
       \/ CreateJob(j) \/ UpdateJob(j) \/ RewriteJob(j) \/ DeleteJob(j) \/ EditByHand(j)
       \/ StartRequested(j) \/ Exit(j) \/ Finalize(j)
       \/ OutOfHours(j) \/ Overlaps(j) \/ Trigger(j) \/ RunQueued(j) \/ LoopDies(j)
       \/ PauseJob(j) \/ ResumeJob(j) \/ SlotPasses(j) \/ GraceEnds(j)
  \/ SaveAllJobs \/ ReloadRequested \/ Down \/ HangUp \/ Boot

Spec == Init /\ [][Next]_vars

\* The loop looks at every job each second.
FairSpec == Spec /\ \A j \in Cron : WF_vars(OutOfHours(j) \/ Overlaps(j) \/ Trigger(j))

-----------------------------------------------------------------------------
(* Properties                                                                *)

\* Whatever is written, loaded and refused in between: the daemon serves the files
\* of the last reload, which are sound, schedules nothing that is not enabled in them,
\* and every cron job that is, unless one of the enabled jobs has a timezone that
\* nobody knows: then the schedule was only half made.
ConfigServed ==
  up =>
    /\ \A j \in Defined(loaded) : loaded[j].ok /\ loaded[j].needs \subseteq Defined(loaded)
    /\ byHand \/ ~Loadable(Read(file)) \/ loaded = Read(file)
    /\ Scheduled \subseteq Enabled(loaded)
    /\ Enabled(loaded) \cap Cron \subseteq Scheduled \/ Strange(loaded) # {}

\* Reloads, restarts and catch-ups start a job once for a slot; with on_overlap
\* "queue" a reload counts the slot that waits already a second time.
OncePerSlot ==
  \A j \in Cron : overlap[j] # "queue" => started[j] <= 1

\* A one-shot that was disabled after its success runs again only if somebody
\* enables it: no reload, restart or request of another kind brings it back.
FinishedStaysFinished ==
  [][\A j \in finished : proc'[j] = "running" => proc[j] = "running"]_vars

Taken(j) == ~up \/ next[j] # "now" \/ j \in schedPaused \/ queued[j] = MaxQueued

\* A slot that is due is decided on, unless an exception has ended the loop.
DueIsTaken == \A j \in Cron : (~Taken(j) /\ loop = "alive") ~> (Taken(j) \/ loop = "dead")

=============================================================================
