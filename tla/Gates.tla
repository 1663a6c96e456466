------------------------------- MODULE Gates -------------------------------
(***************************************************************************)
(* What start_job asks before it spawns a process, and who asks it: the    *)
(* revocations (core/revocation.py), the deduplication of executions       *)
(* (core/dedup.py), the dependencies (core/dependencies.py) and the jobs   *)
(* scheduled for a time (core/eta.py), through crashes of the daemon after *)
(* which each of them is read back from its table.                         *)
(*                                                                         *)
(* Ages of executions are counted in ticks of the clock up to Long; after  *)
(* an hour the cache may forget.  The daemon constructs the ETAScheduler   *)
(* and never starts its loop: EtaTrigger is the loop of the host that does. *)
(***************************************************************************)
EXTENDS Naturals, FiniteSets

CONSTANTS
  Job,
  Needs,      \* Needs[j]: the jobs that j depends on, after_complete
  After,      \* After[j]: the jobs that j depends on, after_start
  Dedup,      \* jobs with dedup.enabled
  Webhook,    \* jobs with a webhook trigger
  Param,      \* payloads of a webhook
  NoParam,
  Key,        \* idempotency keys
  NoKey,
  Windows,    \* values of window_seconds, in ticks
  Hour,       \* one hour, in ticks
  Long,       \* bound: an age that matters to no window
  MaxCache,   \* max_cache_size
  Revocable,  \* jobs the operator revokes
  Timed       \* jobs the operator schedules for a time

ASSUME GatesAssumption ==
  /\ NoParam \notin Param /\ NoKey \notin Key
  /\ Needs \in [Job -> SUBSET Job] /\ After \in [Job -> SUBSET Job]
  /\ Dedup \cup Webhook \cup Revocable \cup Timed \subseteq Job
  /\ Windows \subseteq Nat /\ Hour \in Nat /\ MaxCache \in Nat
  /\ Long \in Nat /\ \A w \in Windows \cup {Hour} : w <= Long

Execution == Job \X (Param \cup {NoParam})

VARIABLES
  window,    \* dedup.window_seconds of each job, which nobody changes
  up,
  proc,      \* the newest process: "idle", "running", until it is finalized "ok" or
             \* "failed"; "lost" when its pid was never saved, "gone" when that one ended
  counted,   \* jobs in ConcurrencyLimiter._running
  run,       \* the newest row of job_runs: "none", "open", "ok" or "failed"
  row,       \* the status in job_state: "none", "stopped" or any "other"
  begun,     \* DependencyManager._job_start_times
  complete,  \* DependencyManager._job_complete_times
  revoked,   \* RevocationManager._revocations, not yet expired
  revRows,   \* table revocations
  age,       \* execution_records: ticks since an execution; Long when never
  keyAge,    \* ... and since an idempotency key was used
  cache,     \* DeduplicationManager._cache
  keyCache,  \* DeduplicationManager._idempotency_cache
  eta,       \* ETAScheduler._eta_jobs: "none", "waiting" or "due"
  etaRows,   \* table eta_jobs, triggered rows left out
  banned,    \* history: what the operator revoked and has not had back
  again      \* history: executions and keys recorded too recently, and started again

memory == <<counted, begun, complete, revoked, cache, keyCache, eta>>
dedupVars == <<age, keyAge, cache, keyCache, again>>
revVars == <<revoked, revRows, banned>>
etaVars == <<eta, etaRows>>
vars == <<window, up, proc, counted, run, row, begun, complete, revVars, dedupVars, etaVars>>

Exited == {j \in Job : proc[j] \in {"ok", "failed"}}

Init ==
  /\ window \in [Dedup -> Windows]
  /\ up = TRUE
  /\ proc = [j \in Job |-> "idle"] /\ run = [j \in Job |-> "none"]
  /\ row = [j \in Job |-> "none"]
  /\ counted = {} /\ begun = {} /\ complete = {}
  /\ revoked = {} /\ revRows = {} /\ banned = {}
  /\ age = [e \in Execution |-> Long] /\ keyAge = [k \in Key |-> Long]
  /\ cache = {} /\ keyCache = {} /\ again = {}
  /\ eta = [j \in Job |-> "none"] /\ etaRows = eta

-----------------------------------------------------------------------------
(* The gates                                                                 *)

\* A key counts whatever the job and for as long as the daemon lives.
Duplicate(j, p, k) ==
  j \in Dedup /\ (k \in keyCache \/ (<<j, p>> \in cache /\ age[<<j, p>>] < window[j]))

\* Whether it succeeded matters only for a run of an earlier life of the daemon.  With
\* no run that has ended and no process that the daemon has, a row that says stopped is
\* taken for a success.
Completed(d) ==
  \/ d \in complete
  \/ run[d] = "ok"
  \/ run[d] \in {"none", "open"} /\ proc[d] # "running" /\ row[d] = "stopped"

DependenciesMet(j) ==
  /\ \A d \in Needs[j] : Completed(d)
  /\ \A d \in After[j] : d \in begun \/ proc[d] = "running"

\* A process that exited and is not finalized is still counted: the call that should
\* queue the start raises, or the start is refused.
Outcomes(j, p, k) ==
  IF proc[j] = "running" \/ j \in revoked \/ Duplicate(j, p, k) THEN {"refused"}
  ELSE IF j \in counted THEN {"raised", "refused"}
  ELSE IF ~DependenciesMet(j) THEN {"refused"}
  ELSE {"started", "failed"}

\* record, which evicts what is older than an hour from a cache that is too large.
Recorded(j, p, k) ==
  LET full == Cardinality(cache \cup {<<j, p>>}) > MaxCache
  IN IF j \in Dedup
     THEN /\ age' = [age EXCEPT ![<<j, p>>] = 0]
          /\ keyAge' = IF k \in Key THEN [keyAge EXCEPT ![k] = 0] ELSE keyAge
          /\ cache' = {e \in cache \cup {<<j, p>>} : full => age'[e] < Hour}
          /\ keyCache' = {i \in keyCache \cup ({k} \cap Key) : full => keyAge'[i] < Hour}
     ELSE UNCHANGED <<age, keyAge, cache, keyCache>>

\* What is recorded within its window, and within the hour that the cache keeps.
Repeated(j, p, k) ==
  (IF j \in Dedup /\ age[<<j, p>>] < window[j] /\ age[<<j, p>>] < Hour THEN {<<j, p>>} ELSE {})
  \cup (IF j \in Dedup /\ k \in Key THEN {i \in {k} : keyAge[i] < Hour} ELSE {})

\* Fault: the start of a job leaves its completion time.
CompleteStays(j) == complete

\* record_job_start
StillComplete(j) == complete \ {j}

\* start_job with the outcome o; a spawn that fails leaves an open run.
Start(j, p, k, o) ==
  /\ run' = IF o \in {"started", "failed"} THEN [run EXCEPT ![j] = "open"] ELSE run
  /\ row' = IF o \in {"started", "failed"} THEN [row EXCEPT ![j] = "other"] ELSE row
  /\ IF o = "started"
     THEN /\ proc' = [proc EXCEPT ![j] = "running"]
          /\ counted' = counted \cup {j}
          /\ begun' = begun \cup {j}
          /\ complete' = StillComplete(j)
          /\ again' = again \cup Repeated(j, p, k)
          /\ Recorded(j, p, k)
     ELSE UNCHANGED <<proc, counted, begun, complete, dedupVars>>

-----------------------------------------------------------------------------
(* Requests                                                                  *)

\* The start endpoint and the scheduler, which pass no payload and no key.
StartRequested(j) ==
  /\ up
  /\ \E o \in Outcomes(j, NoParam, NoKey) : Start(j, NoParam, NoKey, o)
  /\ UNCHANGED <<window, up, revVars, etaVars>>

\* trigger_job_webhook
Triggered(j, p, k) ==
  /\ j \in Webhook
  /\ \E o \in Outcomes(j, p, k) : Start(j, p, k, o)

WebhookTrigger(j) ==
  /\ up
  /\ \E p \in Param \cup {NoParam}, k \in Key \cup {NoKey} : Triggered(j, p, k)
  /\ UNCHANGED <<window, up, revVars, etaVars>>

\* Finalizing: after a stop or a kill the exit code is not 0.
Ended(j, code) ==
  /\ proc' = [proc EXCEPT ![j] = "idle"]
  /\ counted' = counted \ {j}
  /\ complete' = complete \cup {j}
  /\ run' = [run EXCEPT ![j] = IF @ = "open" THEN code ELSE @]
  /\ row' = [row EXCEPT ![j] = IF code = "ok" THEN "stopped" ELSE "other"]

StopJob(j) ==
  /\ up /\ proc[j] = "running"
  /\ Ended(j, "failed")
  /\ UNCHANGED <<window, up, begun, revVars, dedupVars, etaVars>>

\* Pausing a job that has no row writes one, with the status a row begins with; one
\* that runs is stopped, which is StopJob.
PauseJob(j) ==
  /\ up /\ row[j] = "none"
  /\ row' = [row EXCEPT ![j] = "stopped"]
  /\ UNCHANGED <<window, up, proc, counted, run, begun, complete, revVars, dedupVars, etaVars>>

\* The row of a scheduled job: none when it is cancelled or was triggered.
EtaRow(j, state) == [etaRows EXCEPT ![j] = state]

\* revoke_job also cancels the time the job is scheduled for; the queue it clears is
\* empty, as nothing can be put into it.
RevokeJob(j) ==
  /\ up /\ j \in Revocable
  /\ revoked' = revoked \cup {j} /\ revRows' = revRows \cup {j}
  /\ banned' = banned \cup {j}
  /\ eta' = [eta EXCEPT ![j] = "none"]
  /\ etaRows' = IF eta[j] = "none" THEN etaRows ELSE EtaRow(j, "none")
  /\ \/ UNCHANGED <<proc, counted, complete, run, row>>
     \/ proc[j] = "running" /\ Ended(j, "failed")
  /\ UNCHANGED <<window, up, begun, dedupVars>>

UnrevokeJob(j) ==
  /\ up /\ j \in revoked
  /\ revoked' = revoked \ {j} /\ revRows' = revRows \ {j}
  /\ banned' = banned \ {j}
  /\ UNCHANGED <<window, up, proc, counted, run, row, begun, complete, dedupVars, etaVars>>

\* A revocation that expires: every reader drops it, and so does the next start of
\* the daemon.
Expires(j) ==
  /\ j \in banned
  /\ revoked' = revoked \ {j} /\ revRows' = revRows \ {j}
  /\ banned' = banned \ {j}
  /\ UNCHANGED <<window, up, proc, counted, run, row, begun, complete, dedupVars, etaVars>>

-----------------------------------------------------------------------------
(* Jobs scheduled for a time                                                 *)

ScheduleAt(j) ==
  /\ up /\ j \in Timed
  /\ eta' = [eta EXCEPT ![j] = "waiting"]
  /\ etaRows' = EtaRow(j, "waiting")
  /\ UNCHANGED <<window, up, proc, counted, run, row, begun, complete, revVars, dedupVars>>

CancelSchedule(j) ==
  /\ up /\ eta[j] # "none"
  /\ eta' = [eta EXCEPT ![j] = "none"]
  /\ etaRows' = EtaRow(j, "none")
  /\ UNCHANGED <<window, up, proc, counted, run, row, begun, complete, revVars, dedupVars>>

TimeComes(j) ==
  /\ etaRows[j] = "waiting"
  /\ eta' = [eta EXCEPT ![j] = IF @ = "waiting" THEN "due" ELSE @]
  /\ etaRows' = [etaRows EXCEPT ![j] = "due"]
  /\ UNCHANGED <<window, up, proc, counted, run, row, begun, complete, revVars, dedupVars>>

Forgotten ==
  /\ counted' = {} /\ begun' = {} /\ complete' = {}
  /\ revoked' = {} /\ cache' = {} /\ keyCache' = {}
  /\ eta' = [j \in Job |-> "none"]

\* _on_eta_trigger
EtaStart(j) ==
  \E o \in Outcomes(j, NoParam, NoKey) \ {"raised"} : Start(j, NoParam, NoKey, o)

\* check_and_trigger: started or refused, the schedule of the job is over; it stays
\* when the start raises, for the next second.
EtaTrigger(j) ==
  /\ up /\ eta[j] = "due"
  /\ EtaStart(j)
  /\ eta' = [eta EXCEPT ![j] = "none"]
  /\ etaRows' = EtaRow(j, "none")
  /\ UNCHANGED <<window, up, revVars>>

\* The daemon dies in the middle of a start, called by check_and_trigger or any other
\* caller: the run is there, the process not yet, or with a pid that was not saved, or
\* with its row; nothing else is recorded.
CrashInStart(j) ==
  /\ up /\ "started" \in Outcomes(j, NoParam, NoKey)
  /\ up' = FALSE
  /\ run' = [run EXCEPT ![j] = "open"]
  /\ \E there \in {"idle", "lost", "running"} :
       /\ proc' = [proc EXCEPT ![j] = there]
       /\ row' = IF there = "running" THEN [row EXCEPT ![j] = "other"] ELSE row
  /\ Forgotten
  /\ UNCHANGED <<window, revRows, banned, age, keyAge, again, etaRows>>

-----------------------------------------------------------------------------
(* Processes, the clock and the daemon's life                                *)

Exit(j) ==
  /\ \/ proc[j] = "running" /\ \E code \in {"ok", "failed"} : proc' = [proc EXCEPT ![j] = code]
     \/ proc[j] = "lost" /\ proc' = [proc EXCEPT ![j] = "gone"]
  /\ UNCHANGED <<window, up, counted, run, row, begun, complete, revVars, dedupVars, etaVars>>

Finalize(j) ==
  /\ up /\ j \in Exited
  /\ Ended(j, proc[j])
  /\ UNCHANGED <<window, up, begun, revVars, dedupVars, etaVars>>

Later(n) == IF n < Long THEN n + 1 ELSE n

Tick ==
  /\ age' = [e \in Execution |-> Later(age[e])]
  /\ keyAge' = [k \in Key |-> Later(keyAge[k])]
  /\ <<age, keyAge>>' # <<age, keyAge>>
  /\ UNCHANGED <<window, up, proc, counted, run, row, begun, complete, revVars, cache, keyCache,
                 again, etaVars>>

Crash ==
  /\ up
  /\ up' = FALSE
  /\ Forgotten
  /\ UNCHANGED <<window, proc, run, row, revRows, banned, age, keyAge, again, etaRows>>

\* Fault: only what is still ahead is read back.
EtaAhead == [j \in Job |-> IF etaRows[j] = "waiting" THEN "waiting" ELSE "none"]

\* ETAScheduler._load_from_db
EtaLoaded == etaRows

\* Fault: only what the default window covers is read back.
RecentDefault(a) == a = 0

\* _load_recent_from_db
Recent(a) == a < Hour

\* Fault: a revocation is in memory only.
RevocationsForgotten == {}

\* RevocationManager._load_from_db
RevocationsLoaded == revRows

\* How the daemon finds an open run whose process does not run: the marker tells, or it
\* was killed; it is left alone while the heartbeat of one that was killed is fresh.
Verdicts(j) ==
  CASE proc[j] = "idle" -> {"killed"}
    [] proc[j] = "gone" -> {"ok", "failed", "killed", "open"}
    [] OTHER            -> {proc[j], "killed", "open"}

\* A process that still runs is adopted and not counted, if the row has its pid; one
\* that was lost is left alone, as its heartbeat is fresh.
Boot ==
  /\ ~up
  /\ up' = TRUE
  /\ proc' = [j \in Job |-> IF proc[j] \in {"running", "lost"} THEN proc[j] ELSE "idle"]
  /\ \E v \in [Job -> {"ok", "failed", "killed", "open"}] :
       LET closed == {j \in Job : run[j] = "open" /\ proc[j] \notin {"running", "lost"}}
       IN /\ \A j \in Job : IF j \in closed THEN v[j] \in Verdicts(j) ELSE v[j] = "open"
          /\ run' = [j \in Job |-> IF j \notin closed THEN run[j]
                                  ELSE IF v[j] = "killed" THEN "failed" ELSE v[j]]
          /\ row' = [j \in Job |-> CASE v[j] = "ok" -> "stopped"
                                    [] v[j] = "failed" -> "other"
                                    [] OTHER -> row[j]]
  /\ revoked' = RevocationsLoaded
  /\ cache' = {e \in Execution : e[1] \in Dedup /\ Recent(age[e])}
  /\ keyCache' = {k \in Key : Recent(keyAge[k])}
  /\ eta' = EtaLoaded
  /\ UNCHANGED <<window, counted, begun, complete, revRows, banned, age, keyAge, again,
                 etaRows>>

Next ==
  \/ \E j \in Job :
       \/ StartRequested(j) \/ WebhookTrigger(j) \/ StopJob(j) \/ PauseJob(j)
       \/ RevokeJob(j) \/ UnrevokeJob(j) \/ Expires(j)
       \/ ScheduleAt(j) \/ CancelSchedule(j) \/ TimeComes(j) \/ EtaTrigger(j)
       \/ CrashInStart(j) \/ Exit(j) \/ Finalize(j)
  \/ Tick \/ Crash \/ Boot

Spec == Init /\ [][Next]_vars

\* The loop looks each second, and a job does not end just before every look.
FairSpec ==
  /\ Spec
  /\ \A j \in Job : WF_vars(Finalize(j)) /\ SF_vars(EtaTrigger(j))

-----------------------------------------------------------------------------
(* Properties                                                                *)

Begins(j) == proc[j] # "running" /\ proc'[j] = "running"

\* A revoked job is not started until it is given back or the revocation expires,
\* whoever asks for it and however often the daemon dies in between.
RevokedNeverStarts == [][\A j \in banned : ~Begins(j)]_vars

\* A recorded execution does not start again within its window and the hour that
\* outlives a restart, nor a key within an hour: not by another payload, an eviction or
\* a restart.
NothingStartsAgain == again = {}

\* A job does not start while one it has to run after (after_complete) has a process
\* that the daemon ever knew of, through stops, failed spawns and restarts.  A process
\* that was lost with the daemon that was starting it is nobody's.
NeverBesideItsDependency ==
  [][\A j \in Job : Begins(j) => \A d \in Needs[j] : proc[d] # "running"]_vars

\* A job scheduled for a time is decided on when the time has come, if need be after
\* a restart, or the daemon has died again.
EveryEtaIsDecided == \A j \in Job : (up /\ etaRows[j] = "due") ~> (etaRows[j] # "due" \/ ~up)

=============================================================================
