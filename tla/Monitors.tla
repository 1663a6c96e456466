------------------------------ MODULE Monitors ------------------------------
(***************************************************************************)
(* What watches the run of a job from inside the daemon, and what the      *)
(* operator hears of it: the health checker (core/health.py), the resource *)
(* monitor (core/resources.py), the output checker (core/output_parser.py) *)
(* and the alerts (openclaw.py).  All of them share the event loop with    *)
(* the supervisor, which registers a run when it starts and unregisters it *)
(* when it finalizes it; only an HTTP check and the post of an alert leave *)
(* the loop to others before they are over.                                *)
(*                                                                         *)
(* One job, as its runs 1..newest follow each other.  What an endpoint     *)
(* answers, what memory a process takes and what it prints are inputs.     *)
(* The averaged processor time never exceeds a limit: every sample is the  *)
(* first of a new psutil object, which is 0.                               *)
(***************************************************************************)
EXTENDS Naturals, FiniteSets, Sequences, SequencesExt

CONSTANTS
  MaxRuns,   \* bound: runs of the job
  MaxQueue,  \* bound: alerts waiting when a check begins
  Configs,   \* configurations of the job: its kind of health check, alerts.on_health_fail,
             \* its limits and their action
  Unlimited  \* max_instances = 0: a run may start before the last is finalized

Config == [kind: {"none", "process", "http", "file"}, alerting: BOOLEAN,
           limits: SUBSET {"memory", "timeout"}, action: {"warn", "throttle", "kill"}]

ASSUME MonitorsAssumption ==
  /\ MaxRuns \in Nat \ {0} /\ MaxQueue \in Nat /\ Unlimited \in BOOLEAN
  /\ Configs \subseteq Config

Runs == 1..MaxRuns

VARIABLES
  config,     \* of the job
  daemonUp,   \* the daemon lives
  newest,     \* the newest run
  process,    \* its process: "none", "alive", "ended" but not reaped, or "reaped"
  failed,     \* it ended with an exit code other than 0, and is not finalized
  managed,    \* Supervisor._processes: "no", "own" or "adopted" handle of the newest run
  over,       \* what it exceeds: subset of "memory", "timeout"
  registered, \* HealthChecker._jobs: a run, or 0
  last,       \* HealthChecker._last_result: "none", "healthy" or "unhealthy"
  failing,    \* HealthChecker._consecutive_failures > 0
  loop,       \* the health loop: "idle", "asking" an endpoint, or "dead"
  asked,      \* the run an endpoint is asked for
  limited,    \* ResourceMonitor._jobs: a run, or 0
  log,        \* runs whose errors are in the job's log file
  detached,   \* the newest run writes to a log file that was rotated away
  queue,      \* OpenClawIntegration._alert_queue
  worker,     \* _alert_worker: "waiting" or "posting"
  delivered,  \* alerts on failures and kills in the file of pending alerts
  noted,      \* the newest entry of the audit log on the health of the registered run
  killed,     \* history: runs the resource monitor killed alive
  stranger    \* history: the books of the health checker hold results of another run

runVars == <<newest, process, failed, managed, over>>
healthVars == <<registered, last, failing, loop, asked, noted, stranger>>
logVars == <<log, detached>>
alertVars == <<queue, worker, delivered>>
monitorVars ==
  <<config, daemonUp, runVars, healthVars, limited, logVars, alertVars, killed>>

MonitorsInit ==
  /\ config \in Configs
  /\ daemonUp = TRUE /\ newest = 0 /\ process = "none" /\ failed = FALSE /\ managed = "no"
  /\ over = {}
  /\ registered = 0 /\ last = "none" /\ failing = FALSE /\ loop = "idle" /\ asked = 0
  /\ noted = "none" /\ stranger = FALSE
  /\ limited = 0 /\ killed = {}
  /\ log = {} /\ detached = FALSE
  /\ queue = <<>> /\ worker = "waiting" /\ delivered = {}

Alert(what) == <<what, newest>>

-----------------------------------------------------------------------------
(* The run of the job                                                        *)

\* start_job, once it has spawned the process.  The health checker keeps the last
\* result it has, of whatever run.
StartRun ==
  /\ daemonUp /\ newest < MaxRuns /\ process # "alive"
  /\ managed = "no" \/ Unlimited
  /\ newest' = newest + 1
  /\ process' = "alive" /\ failed' = FALSE /\ managed' = "own" /\ over' = {}
  /\ registered' = newest' /\ failing' = FALSE /\ noted' = "none"
  /\ limited' = IF config.limits = {} THEN limited ELSE newest'
  /\ detached' = FALSE
  /\ stranger' = (stranger \/ managed # "no")
  /\ UNCHANGED <<config, daemonUp, last, loop, asked, log, alertVars, killed>>

\* A child of the daemon waits to be reaped; an orphan does not.
Ended == IF daemonUp /\ managed = "own" THEN "ended" ELSE "reaped"

\* The process exits.
Exit ==
  /\ process = "alive"
  /\ process' = Ended /\ failed' \in BOOLEAN
  /\ UNCHANGED <<config, daemonUp, newest, managed, over, healthVars, limited, logVars,
                 alertVars, killed>>

\* A request asks whether the job is running, which reaps the process.
Reap ==
  /\ daemonUp /\ process = "ended"
  /\ process' = "reaped"
  /\ UNCHANGED <<config, daemonUp, newest, failed, managed, over, healthVars, limited,
                 logVars, alertVars, killed>>

\* The time limit of the run passes; the process takes memory or gives it back.
Consume ==
  /\ process \in {"alive", "ended"}
  /\ \/ over' = over \cup (config.limits \cap {"timeout"})
     \/ process = "alive" /\ over' = over \cup (config.limits \cap {"memory"})
     \/ over' = over \ {"memory"}
  /\ UNCHANGED <<config, daemonUp, newest, process, failed, managed, healthVars, limited,
                 logVars, alertVars, killed>>

\* The process prints what the parser takes for an error.
PrintError ==
  /\ process = "alive" /\ ~detached
  /\ log' = log \cup {newest}
  /\ UNCHANGED <<config, daemonUp, runVars, healthVars, limited, detached, alertVars,
                 killed>>

\* The log has reached its size: renamed, under the process that writes to it.
Rotate ==
  /\ daemonUp /\ log # {}
  /\ log' = {} /\ detached' = (process = "alive")
  /\ UNCHANGED <<config, daemonUp, runVars, healthVars, limited, alertVars, killed>>

\* check_job_output: the whole file, with the lines that earlier runs left in it.
OutputAlerts ==
  LET found(i) == CHOOSE r \in log : Cardinality({q \in log : q <= r}) = i
  IN [i \in 1..Cardinality(log) |-> <<"output", found(i)>>]

\* Fault: the health checker keeps the last result of a job it unregisters.
ResultKept == last

\* unregister_job forgets the last result.
Forgotten == "none"

Unregister ==
  /\ registered' = 0 /\ last' = Forgotten /\ failing' = FALSE /\ stranger' = FALSE
  /\ limited' = 0
  /\ UNCHANGED <<loop, asked, noted>>

\* Fault: the alert on a failure overtakes what is waiting.
FailureFirst == <<Alert("failure")>> \o queue

\* on_job_failed
FailureQueued == Append(queue, Alert("failure"))

\* _check_processes finds the process gone, and _finalize_job
Finalize ==
  /\ daemonUp /\ managed # "no" /\ process \in {"ended", "reaped"}
  /\ process' = "reaped" /\ failed' = FALSE /\ managed' = "no" /\ over' = {}
  /\ Unregister
  /\ queue' = (IF failed THEN FailureQueued ELSE queue) \o OutputAlerts
  /\ UNCHANGED <<config, daemonUp, newest, logVars, worker, delivered, killed>>

\* stop_job waits for the process and finalizes the run, without the alert on failures.
StopRun ==
  /\ daemonUp /\ managed # "no" /\ process = "alive"
  /\ process' = "reaped" /\ managed' = "no" /\ over' = {}
  /\ Unregister
  /\ queue' = queue \o OutputAlerts
  /\ UNCHANGED <<config, daemonUp, newest, failed, logVars, worker, delivered, killed>>

-----------------------------------------------------------------------------
(* The health checker                                                        *)

\* A healthy result after failures.
Recovers == failing

\* _on_health_fail writes the audit log and then, to alert, reads an attribute the result
\* does not have: nobody catches it, and the loop dies.
HealthFail ==
  /\ noted' = "failed"
  /\ loop' = IF config.alerting THEN "dead" ELSE "idle"

\* check_job once the result is there.
Record(run, healthy) ==
  /\ last' = IF healthy THEN "healthy" ELSE "unhealthy"
  /\ stranger' = (stranger \/ run # registered)
  /\ asked' = 0
  /\ IF healthy
     THEN /\ failing' = (failing /\ ~Recovers)
          /\ noted' = IF Recovers THEN "recovered" ELSE noted
          /\ queue' = IF Recovers THEN Append(queue, Alert("recovered")) ELSE queue
          /\ loop' = "idle"
     ELSE /\ failing' = TRUE
          /\ IF last = "unhealthy" THEN loop' = "idle" /\ UNCHANGED noted ELSE HealthFail
          /\ UNCHANGED queue
  /\ UNCHANGED <<config, daemonUp, runVars, registered, limited, logVars, worker, delivered,
                 killed>>

\* Results of a check that answers at once: a process that ended and was not reaped
\* looks alive, or does not, as the system has it.
Results ==
  IF config.kind = "none" THEN {TRUE}
  ELSE IF config.kind = "process"
       THEN CASE process = "alive" -> {TRUE}
              [] process = "ended" -> BOOLEAN
              [] OTHER -> {FALSE}
       ELSE BOOLEAN

\* _check_all comes to the job and its interval has passed.
Check ==
  /\ daemonUp /\ loop = "idle" /\ registered # 0 /\ Len(queue) <= MaxQueue
  /\ IF config.kind = "http"
     THEN /\ loop' = "asking" /\ asked' = registered
          /\ UNCHANGED <<config, daemonUp, runVars, registered, last, failing, noted,
                         stranger, limited, logVars, alertVars, killed>>
     ELSE \E healthy \in Results : Record(registered, healthy)

\* The endpoint answers, or does not in time.
Answer ==
  /\ daemonUp /\ loop = "asking"
  /\ \E healthy \in BOOLEAN : Record(asked, healthy)

-----------------------------------------------------------------------------
(* The resource monitor                                                      *)

\* Fault: a run is killed only when it exceeds all its limits.
AllExceeded ==
  IF config.limits \subseteq over THEN config.limits ELSE {}

\* check_limits: the memory and the time are those of the registered process.
Exceeded ==
  config.limits \cap over

\* _on_resource_kill, for each of the limits exceeded
KillAlerts(exceeded) ==
  [i \in 1..Cardinality(exceeded) |-> Alert("killed")]

\* _handle_violation for each of them: an ended process that nobody reaped is killed
\* again, and every kill is told.
Enforce(exceeded) ==
  IF config.action = "kill" /\ exceeded # {}
  THEN /\ process' = IF process = "alive" THEN Ended ELSE process
       /\ failed' = (failed \/ process = "alive")
       /\ killed' = killed \cup {r \in {newest} : process = "alive"}
       /\ queue' = queue \o KillAlerts(exceeded)
  ELSE UNCHANGED <<process, failed, killed, queue>>

\* _check_all, every 30 seconds: a process that is gone is unregistered.  The supervisor
\* polls every second, so that a run it was told of is finalized before the next check.
ResourceCheck ==
  /\ daemonUp /\ limited # 0 /\ Alert("killed") \notin ToSet(queue) \cup delivered
  /\ \/ /\ process \in {"ended", "reaped"}
        /\ limited' = 0
        /\ UNCHANGED <<process, failed, killed, queue>>
     \/ /\ process \in {"alive", "ended"}
        /\ Enforce(Exceeded)
        /\ UNCHANGED limited
  /\ UNCHANGED <<config, daemonUp, newest, managed, over, healthVars, logVars, worker,
                 delivered>>

-----------------------------------------------------------------------------
(* The alerts and the daemon                                                 *)

\* The file of pending alerts, which the agent reads.
Written(alert) ==
  delivered \cup ({alert} \cap ({"failure", "killed"} \X Runs))

\* The worker takes an alert and writes it to the file; a webhook, when there is one,
\* is posted afterwards.
Deliver ==
  /\ daemonUp /\ worker = "waiting" /\ queue # <<>>
  /\ delivered' = Written(Head(queue))
  /\ queue' = Tail(queue)
  /\ worker' \in {"waiting", "posting"}
  /\ UNCHANGED <<config, daemonUp, runVars, healthVars, limited, logVars, killed>>

\* The webhook accepts the alert, fails, or takes longer than ten seconds.
Posted ==
  /\ daemonUp /\ worker = "posting"
  /\ worker' = "waiting"
  /\ UNCHANGED <<config, daemonUp, runVars, healthVars, limited, logVars, queue, delivered,
                 killed>>

MemoryLost ==
  /\ daemonUp' = FALSE /\ managed' = "no" /\ failed' = FALSE
  /\ registered' = 0 /\ last' = "none" /\ failing' = FALSE /\ loop' = "idle"
  /\ asked' = 0 /\ noted' = "none" /\ stranger' = FALSE
  /\ limited' = 0 /\ queue' = <<>> /\ worker' = "waiting"
  /\ UNCHANGED <<config, newest, over, logVars, delivered, killed>>

\* The daemon dies; the processes of jobs live on.
Crash ==
  /\ daemonUp
  /\ process' = IF process = "ended" THEN "reaped" ELSE process
  /\ MemoryLost

\* The daemon is told to stop: the alert worker stops first, so that what the last
\* finalizations queue is lost.  A dead health loop raises again where it is awaited,
\* and the jobs are not stopped.
Shutdown ==
  /\ daemonUp
  /\ IF loop = "dead"
     THEN process' = IF process = "ended" THEN "reaped" ELSE process
     ELSE process' = IF process = "none" THEN "none" ELSE "reaped"
  /\ MemoryLost

\* The next daemon adopts a process that lives, and registers it nowhere.
Restart ==
  /\ ~daemonUp
  /\ daemonUp' = TRUE
  /\ managed' = IF process = "alive" THEN "adopted" ELSE "no"
  /\ failed' = FALSE
  /\ UNCHANGED <<config, newest, process, over, healthVars, limited, logVars,
                 alertVars, killed>>

MonitorsNext ==
  \/ StartRun \/ Exit \/ Reap \/ Consume \/ PrintError \/ Rotate \/ Finalize \/ StopRun
  \/ Check \/ Answer \/ ResourceCheck \/ Deliver \/ Posted
  \/ Crash \/ Shutdown \/ Restart

MonitorsSpec == MonitorsInit /\ [][MonitorsNext]_monitorVars

\* The daemon polls its processes, its loops turn and its alerts are delivered; an
\* answer comes or its time runs out.
FairMonitors ==
  /\ MonitorsSpec
  /\ WF_monitorVars(Finalize) /\ WF_monitorVars(Check) /\ WF_monitorVars(Answer)
  /\ WF_monitorVars(ResourceCheck) /\ WF_monitorVars(Deliver) /\ WF_monitorVars(Posted)

-----------------------------------------------------------------------------
(* Properties                                                                *)

\* The newest entry of the audit log on a run says that it failed exactly while the
\* last check of the run failed, so that neither a failure nor a recovery is missed or
\* told twice (health.py, check_job); unless an answer that came late, for a run that
\* was over, or a run that was never finalized is in the books.
NotesFollowChecks ==
  registered # 0 /\ ~stranger => (noted = "failed" <=> last = "unhealthy")

\* The operator who reads that a run failed that the monitor killed has read before
\* that it was killed for its limit (_on_resource_kill, then _finalize_job).
KillExplainsFailure ==
  \A r \in killed : <<"failure", r>> \in delivered => <<"killed", r>> \in delivered

\* A run past its time limit is killed if limits kill, and the operator is told, unless
\* it ends by itself before or the daemon goes down (resources.py, _check_all; an
\* adopted process is watched by nobody).
LimitEnforced ==
  \A r \in Runs :
    daemonUp /\ newest = r /\ managed = "own" /\ process = "alive" /\ "timeout" \in over
       /\ config.action = "kill"
      ~> \/ <<"killed", r>> \in delivered
         \/ r \notin killed /\ (newest # r \/ process # "alive")
         \/ ~daemonUp
=============================================================================
