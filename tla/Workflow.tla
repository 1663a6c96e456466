------------------------------ MODULE Workflow ------------------------------
(***************************************************************************)
(* Workflow runs: WorkflowManager of core/workflow.py with the results it  *)
(* collects (core/results.py).                                             *)
(*                                                                         *)
(* The manager runs each workflow in an asyncio task.  A task that has     *)
(* started a job waits for an event which it registers under the name of   *)
(* the job, and which notify_job_complete sets; it gives up after a        *)
(* timeout.  Two workflow runs that use one job share the registration.    *)
(*                                                                         *)
(* The host of the manager starts and stops jobs for it, and captures the  *)
(* result of a job and notifies the manager when it ends.                  *)
(***************************************************************************)
EXTENDS Naturals, Sequences, FiniteSets

CONSTANTS
  Job,          \* jobs of the host
  Run,          \* workflow runs that are requested
  Type,         \* config.type of each: "chain", "group" or "chord"
  Jobs,         \* config.jobs
  Callback,     \* config.callback of a chord
  StopOnFailure,\* runs whose config.on_failure is "stop"
  MaxParallel,  \* config.max_parallel
  NoOne,        \* the job does not run, or nobody waits for it
  Other,        \* the job was started for no workflow
  MaxEvents     \* bound: workflow runs requested, crashes of the host, and starts
                \* of a job for no workflow, together

ASSUME WorkflowAssumption ==
  /\ Type \in [Run -> {"chain", "group", "chord"}]
  /\ Jobs \in [Run -> Seq(Job)] /\ \A r \in Run : Jobs[r] # <<>>
  /\ Callback \in [Run -> Job]
  /\ StopOnFailure \subseteq Run
  /\ MaxParallel \in Nat \ {0}
  /\ MaxEvents \in Nat

VARIABLES
  up,         \* the loop of the manager: "new", "up" or "stopped"
  others,     \* crashes and starts for no workflow so far
  mem,        \* WorkflowRun.status of the runs in _active_runs
  db,         \* workflow_runs.status
  task,       \* the task of each run: "none", "new" until it first runs, "live"
  cancelling, \* runs whose task has been cancelled but has not seen it yet
  part,       \* state of the steps of each run
  tracked,    \* runs in ResultCollector._workflow_results
  failures,   \* jobs whose newest captured result in the run is a failure
  event,      \* _job_completions: the step that registered the event
  signaled,   \* steps whose event is set
  owner,      \* for which step the job runs
  last,       \* the newest result of each job
  own,        \* history: how the job a step started has ended
  deaf,       \* history: steps whose event was set when their task was cancelled
  cancelled   \* history: runs that cancel_workflow has cancelled, and returned

taskVars == <<up, others, mem, db, task, cancelling, part, tracked, deaf, cancelled>>
jobVars == <<failures, event, signaled, owner, last, own>>
vars == <<taskVars, jobVars>>

\* The steps of a run: its jobs, and the callback of a chord.
Steps(r) == 1..(Len(Jobs[r]) + (IF Type[r] = "chord" THEN 1 ELSE 0))
Members(r) == 1..Len(Jobs[r])
JobAt(r, i) == IF i <= Len(Jobs[r]) THEN Jobs[r][i] ELSE Callback[r]
AllSteps == UNION {{<<r, i>> : i \in Steps(r)} : r \in Run}

ASSUME NoOneAssumption == NoOne # Other /\ {NoOne, Other} \cap AllSteps = {}

Ended == {"completed", "failed", "cancelled"}

TypeOK ==
  /\ up \in {"new", "up", "stopped"} /\ others \in 0..MaxEvents
  /\ mem \in [Run -> {"none", "running"} \cup Ended]
  /\ db \in [Run -> {"none", "running"} \cup Ended]
  /\ task \in [Run -> {"none", "new", "live"}]
  /\ cancelling \subseteq Run /\ tracked \subseteq Run
  /\ failures \in [Run -> SUBSET Job]
  /\ \A r \in Run : part[r] \in [Steps(r) -> {"todo", "waiting", "ok", "bad"}]
  /\ event \in [Job -> AllSteps \cup {NoOne}]
  /\ signaled \subseteq AllSteps
  /\ owner \in [Job -> AllSteps \cup {NoOne, Other}]
  /\ last \in [Job -> {"none", "ok", "bad"}]
  /\ \A r \in Run : own[r] \in [Steps(r) -> {"none", "ok", "bad"}]
  /\ deaf \subseteq AllSteps /\ cancelled \subseteq Run

EventsLeft == others + Cardinality({r \in Run : db[r] # "none"}) < MaxEvents

Fresh(r, x) == [i \in Steps(r) |-> x]

Init ==
  /\ up = "new" /\ others = 0
  /\ mem = [r \in Run |-> "none"] /\ db = mem
  /\ task = [r \in Run |-> "none"]
  /\ cancelling = {} /\ tracked = {}
  /\ failures = [r \in Run |-> {}]
  /\ part = [r \in Run |-> Fresh(r, "todo")]
  /\ event = [j \in Job |-> NoOne]
  /\ signaled = {}
  /\ owner = [j \in Job |-> NoOne]
  /\ last = [j \in Job |-> "none"]
  /\ own = [r \in Run |-> Fresh(r, "none")]
  /\ deaf = {} /\ cancelled = {}

-----------------------------------------------------------------------------
(* Jobs of the host                                                          *)

\* Jobs js end with code c, and each result is captured, also for the workflow run
\* the job was started for.
Ends(js, c) ==
  LET running == {j \in js : owner[j] # NoOne}
      steps == {owner[j] : j \in running} \ {Other}
      of(r) == {JobAt(r, i) : i \in {k \in Steps(r) : <<r, k>> \in steps}}
  IN
    /\ owner' = [j \in Job |-> IF j \in running THEN NoOne ELSE owner[j]]
    /\ last' = [j \in Job |-> IF j \in running THEN c ELSE last[j]]
    /\ own' = [r \in Run |-> [i \in Steps(r) |->
         IF <<r, i>> \in steps THEN c ELSE own[r][i]]]
    /\ failures' = [r \in Run |->
         IF r \notin tracked THEN failures[r]
         ELSE IF c = "ok" THEN failures[r] \ of(r) ELSE failures[r] \cup of(r)]

\* Whom notify_job_complete wakes when jobs js end.
Notified(js) == {event[j] : j \in {k \in js : owner[k] # NoOne}} \ {NoOne}

\* The host finalizes once a second; by then a step that was notified has run.
JobEnds(j) ==
  /\ owner[j] # NoOne
  /\ \A s \in signaled : JobAt(s[1], s[2]) # j
  /\ \E c \in {"ok", "bad"} : Ends({j}, c)
  /\ signaled' = signaled \cup Notified({j})
  /\ UNCHANGED <<taskVars, event>>

StartElsewhere(j) ==
  /\ EventsLeft
  /\ others' = others + 1
  /\ owner[j] = NoOne
  /\ owner' = [owner EXCEPT ![j] = Other]
  /\ UNCHANGED <<up, mem, db, task, cancelling, part, tracked, deaf, cancelled, failures, event,
                 signaled, last, own>>

-----------------------------------------------------------------------------
(* Steps of a run                                                            *)

\* Fault: an ended run is saved with its results only.
StatusOfResults(r, s, bad) ==
  IF r \notin tracked THEN db[r] ELSE IF bad = {} THEN "completed" ELSE "failed"

\* _persist_run and then finish_workflow, which overwrites the status by what the
\* captured results say, if the run is tracked.
StatusSaved(r, s, bad) ==
  IF r \notin tracked THEN s ELSE IF bad = {} THEN "completed" ELSE "failed"

\* The end of _execute_workflow.  A run that is cancelled already does not complete.
Completed(r) == IF mem[r] \in Ended THEN mem[r] ELSE "completed"

Finish(r, s) ==
  /\ mem' = [mem EXCEPT ![r] = s]
  /\ db' = [db EXCEPT ![r] = StatusSaved(r, s, failures[r])]
  /\ task' = [task EXCEPT ![r] = "none"]
  /\ cancelling' = cancelling \ {r}

\* The task goes on; a chain persists the run before each step.
GoesOn(r) ==
  /\ db' = IF Type[r] = "chain" THEN [db EXCEPT ![r] = mem[r]] ELSE db
  /\ cancelling' = cancelling \ {r}
  /\ UNCHANGED <<mem, task>>

\* What the return of step i makes of its run.  A failed member of a group is
\* counted at the end; on_failure "retry" is not implemented and continues.
AfterStep(r, i, outcome) ==
  CASE Type[r] = "chain" /\ outcome = "raised"                       -> Finish(r, "failed")
    [] Type[r] = "chain" /\ outcome = "bad" /\ r \in StopOnFailure   -> Finish(r, "failed")
    [] Type[r] = "chain" /\ i = Len(Jobs[r])                         -> Finish(r, Completed(r))
    [] i \notin Members(r) -> Finish(r, IF outcome = "ok" THEN Completed(r) ELSE "failed")
    [] OTHER -> GoesOn(r)

\* Step i may begin: a chain has come to it, the semaphore of a group lets it in,
\* the group of a chord has ended well enough for its callback.
Waiting(r) == {i \in Steps(r) : part[r][i] = "waiting"}
GroupFailed(r) == r \in StopOnFailure /\ \E i \in Members(r) : part[r][i] = "bad"
GroupDone(r) == \A i \in Members(r) : part[r][i] \in {"ok", "bad"}

\* Fault: a task that was cancelled while it starts jobs goes on starting them.
MayBeginCancelled(r, i) ==
  /\ task[r] = "live"
  /\ part[r][i] = "todo"
  /\ \A k \in 1..(i - 1) : part[r][k] \in {"ok", "bad"}

\* Fault: the callback of a chord waits until every member has succeeded.
MayBeginAllWell(r, i) ==
  /\ task[r] = "live" /\ r \notin cancelling
  /\ part[r][i] = "todo"
  /\ CASE Type[r] = "chain" -> \A k \in 1..(i - 1) : part[r][k] \in {"ok", "bad"}
       [] i \in Members(r)  -> Cardinality(Waiting(r)) < MaxParallel
       [] OTHER             -> \A k \in Members(r) : part[r][k] = "ok"

MayBegin(r, i) ==
  /\ task[r] = "live" /\ r \notin cancelling
  /\ part[r][i] = "todo"
  /\ CASE Type[r] = "chain" -> \A k \in 1..(i - 1) : part[r][k] \in {"ok", "bad"}
       [] i \in Members(r)  -> Cardinality(Waiting(r)) < MaxParallel
       [] OTHER             -> GroupDone(r) /\ ~GroupFailed(r)

\* _start_and_wait up to its await: the event is registered, over whatever was
\* there, and the job started.  A job that runs already, or whose start fails or
\* raises, ends the step, and del takes the registration away.
BeginStep(r, i) ==
  LET j == JobAt(r, i) IN
    /\ MayBegin(r, i)
    /\ \/ /\ owner[j] = NoOne
          /\ owner' = [owner EXCEPT ![j] = <<r, i>>]
          /\ event' = [event EXCEPT ![j] = <<r, i>>]
          /\ part' = [part EXCEPT ![r][i] = "waiting"]
          /\ GoesOn(r)
       \/ /\ event' = [event EXCEPT ![j] = NoOne]
          /\ part' = [part EXCEPT ![r][i] = "bad"]
          /\ UNCHANGED owner
          /\ \E outcome \in {"bad", "raised"} : AfterStep(r, i, outcome)
    /\ UNCHANGED <<up, others, tracked, deaf, cancelled, failures, signaled, last, own>>

\* The last lines of _start_and_wait: del raises KeyError if another run of the job
\* has taken the registration away.
LeaveStep(r, i, outcome) ==
  LET j == JobAt(r, i)
      o == IF event[j] = NoOne THEN "raised" ELSE outcome
  IN
    /\ event' = [event EXCEPT ![j] = NoOne]
    /\ part' = [part EXCEPT ![r][i] = IF o = "ok" THEN "ok" ELSE "bad"]
    /\ AfterStep(r, i, o)

\* Fault: takes the end of the job for its success.
Success(j) == last[j] \in {"ok", "bad"}

\* The event is set: the newest result of the job decides.
Succeeded(j) == last[j] = "ok"

\* asyncio.wait_for of Python 3.11 loses a cancellation that comes after the event
\* was set and returns; later versions raise it.  A chain, and the callback of a
\* chord, go on then; gather raises it for the members of a group all the same.
LosesCancel(r, i) == <<r, i>> \in deaf /\ (Type[r] = "chain" \/ i \notin Members(r))

Wake(r, i) ==
  /\ task[r] = "live" /\ <<r, i>> \in signaled
  /\ r \notin cancelling \/ LosesCancel(r, i)
  /\ signaled' = signaled \ {<<r, i>>}
  /\ LeaveStep(r, i, IF Succeeded(JobAt(r, i)) THEN "ok" ELSE "bad")
  /\ UNCHANGED <<up, others, tracked, deaf, cancelled, failures, owner, last, own>>

\* The timeout stops the job, for whomever it runs by now.
Timeout(r, i) ==
  LET j == JobAt(r, i) IN
    /\ task[r] = "live" /\ r \notin cancelling
    /\ part[r][i] = "waiting" /\ <<r, i>> \notin signaled
    /\ Ends({j}, "bad")
    /\ signaled' = signaled \cup (Notified({j}) \ {<<r, i>>})
    /\ LeaveStep(r, i, "bad")
    /\ UNCHANGED <<up, others, tracked, deaf, cancelled>>

EndGroup(r) ==
  /\ task[r] = "live" /\ r \notin cancelling
  /\ Type[r] # "chain" /\ GroupDone(r)
  /\ \/ GroupFailed(r) /\ Finish(r, "failed")
     \/ ~GroupFailed(r) /\ Type[r] = "group" /\ Finish(r, Completed(r))
  /\ UNCHANGED <<up, others, part, tracked, deaf, cancelled, jobVars>>

-----------------------------------------------------------------------------
(* Runs as a whole                                                           *)

\* start_workflow.  There is no task before the loop of the manager runs.
StartWorkflow(r) ==
  /\ mem[r] = "none" /\ db[r] = "none"
  /\ EventsLeft
  /\ mem' = [mem EXCEPT ![r] = "running"]
  /\ db' = [db EXCEPT ![r] = "running"]
  /\ tracked' = tracked \cup {r}
  /\ task' = IF up = "up" THEN [task EXCEPT ![r] = "new"] ELSE task
  /\ UNCHANGED <<up, others, cancelling, part, deaf, cancelled, jobVars>>

\* The task runs for the first time.
Execute(r) ==
  /\ task[r] = "new" /\ r \notin cancelling
  /\ task' = [task EXCEPT ![r] = "live"]
  /\ UNCHANGED <<up, others, mem, db, cancelling, part, tracked, deaf, cancelled, jobVars>>

\* The jobs cancel_workflow stops: those of the list, whoever started them, and
\* not the callback.
StopsAll(r) == {Jobs[r][i] : i \in Members(r)}

\* Tasks ts are cancelled, some of them behind the event they wait for.
CancelTasks(ts) ==
  /\ cancelling' = cancelling \cup {r \in ts : task[r] # "none"}
  /\ deaf' = deaf \cup {s \in signaled : s[1] \in ts}

\* The call comes from a coroutine and blocks the loop while it stops the jobs, so no
\* task runs before it returns, but the host may die in it.
CancelWorkflow(r) ==
  /\ mem[r] = "running"
  /\ mem' = [mem EXCEPT ![r] = "cancelled"]
  /\ Ends(StopsAll(r), "bad")
  /\ signaled' = signaled \cup Notified(StopsAll(r))
  /\ db' = [db EXCEPT ![r] = StatusSaved(r, "cancelled", failures'[r])]
  /\ CancelTasks({r})
  /\ cancelled' = cancelled \cup {r}
  /\ UNCHANGED <<up, others, task, part, tracked, event>>

\* A cancelled task sees CancelledError at its await, or never runs.  The steps
\* that wait take their registrations away; the KeyError of a chain or callback
\* whose registration is gone takes the place of the cancellation.
SeeCancel(r) ==
  LET waiting == Waiting(r)
      gone == \E i \in waiting :
                event[JobAt(r, i)] = NoOne /\ (Type[r] = "chain" \/ i \notin Members(r))
  IN
    /\ r \in cancelling
    /\ IF task[r] = "new"
       THEN /\ task' = [task EXCEPT ![r] = "none"]
            /\ cancelling' = cancelling \ {r}
            /\ UNCHANGED <<mem, db>>
       ELSE Finish(r, IF gone THEN "failed" ELSE "cancelled")
    /\ event' = [j \in Job |->
         IF \E i \in waiting : JobAt(r, i) = j THEN NoOne ELSE event[j]]
    /\ part' = [part EXCEPT ![r] =
         [i \in Steps(r) |-> IF i \in waiting THEN "bad" ELSE @[i]]]
    /\ signaled' = {s \in signaled : s[1] # r}
    /\ UNCHANGED <<up, others, tracked, deaf, cancelled, failures, owner, last, own>>

\* run: runs that were loaded, or started before, are executed from their first
\* step on, whatever current_step says.
StartLoop ==
  /\ up = "new"
  /\ up' = "up"
  /\ task' = [r \in Run |-> IF mem[r] = "running" THEN "new" ELSE "none"]
  /\ UNCHANGED <<others, mem, db, cancelling, part, tracked, deaf, cancelled, jobVars>>

\* stop cancels the tasks: what is interrupted is recorded as ended.
StopLoop ==
  /\ up = "up"
  /\ up' = "stopped"
  /\ CancelTasks(Run)
  /\ UNCHANGED <<others, mem, db, task, part, tracked, cancelled, jobVars>>

\* The host starts again: the unfinished runs are loaded, and jobs go on, except for
\* those that were stopped before it died.
Restart(stopped) ==
  /\ EventsLeft
  /\ others' = others + 1
  /\ up' = "new"
  /\ mem' = [r \in Run |-> IF db[r] = "running" THEN "running" ELSE "none"]
  /\ task' = [r \in Run |-> "none"]
  /\ cancelling' = {} /\ tracked' = {} /\ deaf' = {}
  /\ part' = [r \in Run |-> Fresh(r, "todo")]
  /\ own' = [r \in Run |-> Fresh(r, "none")]
  /\ failures' = [r \in Run |-> {}]
  /\ event' = [j \in Job |-> NoOne]
  /\ signaled' = {}
  /\ owner' = [j \in Job |-> IF owner[j] = NoOne \/ j \in stopped THEN NoOne ELSE Other]
  /\ last' = [j \in Job |-> IF owner[j] # NoOne /\ j \in stopped THEN "bad" ELSE last[j]]
  /\ UNCHANGED <<db, cancelled>>

Crash == Restart({})

\* The host dies in cancel_workflow: some of the jobs are stopped, and the run, which
\* was cancelled in memory only, is loaded and executed again.
CrashInCancel(r) ==
  /\ mem[r] = "running"
  /\ \E stopped \in SUBSET StopsAll(r) : Restart(stopped)

Next ==
  \/ StartLoop \/ StopLoop \/ Crash
  \/ \E j \in Job : JobEnds(j) \/ StartElsewhere(j)
  \/ \E r \in Run :
       \/ StartWorkflow(r) \/ Execute(r) \/ EndGroup(r)
       \/ CancelWorkflow(r) \/ CrashInCancel(r) \/ SeeCancel(r)
       \/ \E i \in Steps(r) : BeginStep(r, i) \/ Wake(r, i) \/ Timeout(r, i)

Spec == Init /\ [][Next]_vars

\* The tasks run and their timeouts fire.  Nothing is assumed of the jobs.
FairSpec ==
  /\ Spec
  /\ \A r \in Run :
       /\ WF_vars(Execute(r)) /\ WF_vars(EndGroup(r)) /\ WF_vars(SeeCancel(r))
       /\ \A i \in Steps(r) :
            WF_vars(BeginStep(r, i)) /\ WF_vars(Wake(r, i)) /\ WF_vars(Timeout(r, i))

-----------------------------------------------------------------------------
(* Properties                                                                *)

\* A step counts as succeeded only if the very job it started ended with 0, although
\* the event and the newest result belong to the job and not to the step.
SuccessIsReal ==
  \A r \in Run : \A i \in Steps(r) : part[r][i] = "ok" => own[r][i] = "ok"

\* Once cancel_workflow has returned, or the loop was stopped, nothing is started for
\* the run, in this life of the host or a later one, whatever its task was waiting
\* for.  The exception is the step that had been told of the end of its job when the
\* cancellation came: on Python 3.11 its task does not see the cancellation.
NoStartAfterCancel ==
  [][ \A r \in Run : \A i \in Steps(r) :
        (owner[JobAt(r, i)] # <<r, i>> /\ owner'[JobAt(r, i)] = <<r, i>>)
          => /\ r \notin cancelling
             /\ \/ up = "up" /\ r \notin cancelled
                \/ \E k \in Steps(r) : <<r, k>> \in deaf ]_vars

\* A run whose end somebody was told, because its task ended or cancel_workflow
\* returned, is not executed again after a restart; one that was interrupted by a
\* crash is, and so is one whose cancellation was.
ResumedUnlessEnded ==
  \A r \in Run :
    /\ mem[r] = "running" <=> db[r] = "running"
    /\ r \in cancelled => mem[r] # "running"

\* Every run ends while the manager is up, also if another run takes its
\* registration away and its event is never set.
EveryRunEnds ==
  \A r \in Run : (up = "up" /\ mem[r] = "running") ~> (up # "up" \/ mem[r] # "running")
=============================================================================
