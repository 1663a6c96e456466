---------------------------- MODULE RegistryProofs --------------------------
(***************************************************************************)
(* What the daemon serves, starts and leaves alone follows the files of    *)
(* the jobs, for every set of jobs, contents of their files and policies,  *)
(* however files are written, reloaded and edited by hand.                 *)
(***************************************************************************)
EXTENDS Registry, Integers, TLAPS

Files == [on : BOOLEAN, ok : BOOLEAN, zone : BOOLEAN, needs : SUBSET Job, is : {"job", "none", "junk"}]

Typed ==
  /\ file \in [Job -> Files]
  /\ loaded \in [Job -> Files]
  /\ next \in [Job -> {"none", "later", "now"}]
  /\ queued \in [Job -> Nat]
  /\ started \in [Cron -> Nat]
  /\ ran \in [Cron -> {"never", "before", "since"}]
  /\ proc \in [Job -> {"idle", "running", "succeeded", "ended"}]
  /\ finished \subseteq Oneshot

\* A job that was started for its slot has run since that slot, and nothing is due that
\* a loop would look at.
StartedOnce ==
  \A j \in Cron : overlap[j] # "queue" =>
    /\ queued[j] = 0
    /\ started[j] <= 1
    /\ started[j] = 1 => ran[j] = "since" /\ (next[j] # "now" \/ loop = "dead")

\* A one-shot that is done with is enabled neither in its file nor in the daemon.
FinishedOff == \A j \in finished : ~file[j].on /\ ~loaded[j].on

\* What the scheduler holds with a known timezone has a next run.
HeldScheduled ==
  /\ held \in [Job -> {"none", "known", "unknown"}]
  /\ \A j \in Job : held[j] = "known" => next[j] # "none"

Inv == Typed /\ ConfigServed /\ StartedOnce /\ FinishedOff /\ HeldScheduled

-----------------------------------------------------------------------------
(* Reloading                                                                 *)

\* What reload_jobs leaves: all of the files that can be loaded or what there was, of
\* the schedule nothing that is not enabled, and everything that is if all timezones are
\* known, no more runs in waiting, and a slot due only if it was or was missed.
Reloaded(f) ==
  /\ loaded' \in [Job -> Files]
  /\ next' \in [Job -> {"none", "later", "now"}]
  /\ queued' \in [Job -> Nat]
  /\ Loadable(Read(f)) => /\ loaded' = Read(f) /\ byHand' = FALSE
                          /\ Scheduled' \subseteq Enabled(Read(f))
                          /\ Enabled(Read(f)) \subseteq Scheduled' \/ Strange(Read(f)) # {}
  /\ ~Loadable(Read(f)) => UNCHANGED <<loaded, next, byHand>>
  /\ \A k \in Cron : next'[k] = "now" => next[k] = "now" \/ ran[k] = "before"
  /\ \A k \in Job : queued'[k] \in {queued[k], 0}
  /\ HeldScheduled'

\* What Read makes of files are files.
LEMMA ReadType == ASSUME NEW f \in [Job -> Files] PROVE Read(f) \in [Job -> Files]
BY DEF Read, Files, NoFile

\* A next run is due only for a slot that was missed.
LEMMA NextRunFacts ==
  ASSUME NEW k \in Job
  PROVE  /\ NextRun(k) \in {"later", "now"}
         /\ (k \in Cron /\ NextRun(k) = "now") => ran[k] = "before"
BY DEF NextRun, NextSlot, Missed

\* What update_jobs does as far as it gets.
LEMMA UpdateFacts ==
  ASSUME Typed, NEW l, NEW added \in SUBSET Enabled(l), Update(l, added)
  PROVE  /\ next' \in [Job -> {"none", "later", "now"}]
         /\ queued' \in [Job -> Nat]
         /\ Scheduled' \subseteq Enabled(l)
         /\ added \subseteq Scheduled'
         /\ \A k \in Cron : next'[k] = "now" => next[k] = "now" \/ ran[k] = "before"
         /\ \A k \in Job : queued'[k] \in {queued[k], 0}
<1>1. /\ next' = [k \in Job |-> IF k \notin Enabled(l) THEN "none"
                               ELSE IF k \in added THEN NextRun(k) ELSE next[k]]
      /\ queued' = [k \in Job |-> IF k \in {i \in Job : held[i] # "none"} \ Enabled(l)
                                 THEN 0 ELSE queued[k]]
  BY DEF Update
<1>2. \A k \in Job : /\ NextRun(k) \in {"later", "now"}
                     /\ (k \in Cron /\ NextRun(k) = "now") => ran[k] = "before"
  BY NextRunFacts
<1>3. \A k \in Job : next[k] \in {"none", "later", "now"} /\ queued[k] \in Nat
  BY DEF Typed
<1>4. next' \in [Job -> {"none", "later", "now"}]
  BY <1>1, <1>2, <1>3
<1>5. queued' \in [Job -> Nat] /\ \A k \in Job : queued'[k] \in {queued[k], 0}
  BY <1>1, <1>3
<1>6. added \subseteq Job /\ added \subseteq Enabled(l)
  BY DEF Enabled, Defined
<1>7. Scheduled' \subseteq Enabled(l)
  BY <1>1 DEF Scheduled
<1>8. added \subseteq Scheduled'
  BY <1>1, <1>2, <1>6 DEF Scheduled
<1>9. \A k \in Cron : next'[k] = "now" => next[k] = "now" \/ ran[k] = "before"
  BY <1>1, <1>2 DEF Job
<1> QED
  BY <1>4, <1>5, <1>7, <1>8, <1>9

\* What it holds afterwards.
LEMMA HeldFacts ==
  ASSUME HeldScheduled, NEW l, NEW added \in SUBSET Enabled(l), NEW stuck,
         Update(l, added), Held(l, added, stuck)
  PROVE  HeldScheduled'
<1>1. /\ next' = [k \in Job |-> IF k \notin Enabled(l) THEN "none"
                               ELSE IF k \in added THEN NextRun(k) ELSE next[k]]
      /\ held' = [k \in Job |-> IF k \notin Enabled(l) THEN "none"
                               ELSE IF k \in added THEN "known"
                               ELSE IF k \in stuck THEN "unknown" ELSE held[k]]
  BY DEF Update, Held
<1>2. \A k \in Job : NextRun(k) \in {"later", "now"}
  BY NextRunFacts
<1>3. ASSUME NEW k \in Job, held'[k] = "known" PROVE next'[k] # "none"
  BY <1>1, <1>2, <1>3 DEF HeldScheduled
<1>4. held' \in [Job -> {"none", "known", "unknown"}]
  BY <1>1 DEF HeldScheduled
<1> QED
  BY <1>3, <1>4 DEF HeldScheduled

\* Reload does what Reloaded says.
LEMMA ReloadFacts ==
  ASSUME Typed, HeldScheduled, NEW f \in [Job -> Files], Reload(f)
  PROVE  Reloaded(f)
<1>1. Read(f) \in [Job -> Files]
  BY ReadType
<1>2. CASE Loadable(Read(f))
  <2>1. loaded' = Read(f) /\ byHand' = FALSE /\ Schedule(Read(f))
    BY <1>2 DEF Reload
  <2>2. PICK added \in SUBSET Enabled(Read(f)) :
          /\ Update(Read(f), added)
          /\ added = Enabled(Read(f)) \/ Strange(Read(f)) # {}
          /\ \E stuck : Held(Read(f), added, stuck)
    BY <2>1 DEF Schedule
  <2>3. /\ next' \in [Job -> {"none", "later", "now"}]
        /\ queued' \in [Job -> Nat]
        /\ Scheduled' \subseteq Enabled(Read(f))
        /\ added \subseteq Scheduled'
        /\ \A k \in Cron : next'[k] = "now" => next[k] = "now" \/ ran[k] = "before"
        /\ \A k \in Job : queued'[k] \in {queued[k], 0}
    BY <2>2, UpdateFacts
  <2>4. HeldScheduled'
    BY <2>2, HeldFacts
  <2> QED
    BY <1>1, <1>2, <2>1, <2>2, <2>3, <2>4 DEF Reloaded
<1>3. CASE ~Loadable(Read(f))
  BY <1>3 DEF Reload, schedVars, Typed, Reloaded, Job, HeldScheduled
<1> QED
  BY <1>2, <1>3

\* Files written together with a reload, by whichever handler, keep the invariant if
\* the one-shots that are done with are disabled in them.
LEMMA ReloadKeeps ==
  ASSUME Inv, up, NEW f \in [Job -> Files], file' = f, Reload(f),
         UNCHANGED <<overlap, up, ran, started, loop>>,
         proc' \in [Job -> {"idle", "running", "succeeded", "ended"}],
         finished' \subseteq Oneshot,
         \A j \in finished' : ~f[j].on /\ (j \in finished \/ Loadable(Read(f)))
  PROVE  Inv'
<1>1. Reloaded(f)
  BY ReloadFacts DEF Inv
<1>2. Typed'
  BY <1>1 DEF Inv, Typed, Reloaded
<1>3. ConfigServed'
  <2>1. CASE Loadable(Read(f))
    BY <1>1, <2>1 DEF Reloaded, ConfigServed, Loadable, Enabled, Strange
  <2>2. CASE ~Loadable(Read(f))
    BY <1>1, <2>2 DEF Inv, Reloaded, ConfigServed, Scheduled, Strange, Enabled, Defined
  <2> QED
    BY <2>1, <2>2
<1>4. StartedOnce'
  BY <1>1 DEF Inv, StartedOnce, Reloaded, Job
<1>5. FinishedOff'
  <2> SUFFICES ASSUME NEW j \in finished' PROVE ~f[j].on /\ ~loaded'[j].on
    BY DEF FinishedOff
  <2>1. j \in Job
    BY DEF Job
  <2>2. CASE Loadable(Read(f))
    BY <1>1, <2>1, <2>2 DEF Reloaded, Read, NoFile
  <2>3. CASE ~Loadable(Read(f))
    BY <1>1, <2>3 DEF Inv, FinishedOff, Reloaded
  <2> QED
    BY <2>2, <2>3
<1>6. HeldScheduled'
  BY <1>1 DEF Reloaded
<1> QED
  BY <1>2, <1>3, <1>4, <1>5, <1>6 DEF Inv

\* What create_job, update_job, the tags and the editor have in common.
LEMMA SaveKeeps ==
  ASSUME Inv, NEW f \in [Job -> Files], Save(f), Reload(f)
  PROVE  Inv'
<1>1. /\ up /\ file' = f /\ UNCHANGED <<overlap, up, ran, started, proc, loop>>
      /\ finished' = {j \in finished : f[j] = file[j] \/ ~f[j].on}
  BY DEF Save, Wanted, timeVars
<1>2. finished' \subseteq finished /\ \A j \in finished' : ~f[j].on
  BY <1>1 DEF Inv, FinishedOff
<1>3. finished' \subseteq Oneshot /\ proc' \in [Job -> {"idle", "running", "succeeded", "ended"}]
  BY <1>1, <1>2 DEF Inv, Typed
<1> QED
  BY <1>1, <1>2, <1>3, ReloadKeeps

\* A file that says what a configuration says is one of the files.
LEMMA FileType == ASSUME NEW c \in Content PROVE File(c) \in Files
BY RegistryAssumption DEF File, Files, Config

\* The handlers that write files.
LEMMA CreateKeeps == ASSUME Inv, NEW j \in Job, CreateJob(j) PROVE Inv'
<1>1. PICK c \in Content : LET f == [file EXCEPT ![j] = File([c EXCEPT !.needs = {}])]
                           IN Save(f) /\ Reload(f)
  BY DEF CreateJob
<1> DEFINE new == File([c EXCEPT !.needs = {}])
<1>2. new \in Files
  BY RegistryAssumption DEF File, Files, Config
<1> HIDE DEF new
<1>3. [file EXCEPT ![j] = new] \in [Job -> Files]
  BY <1>2 DEF Inv, Typed
<1> QED
  BY <1>1, <1>3, SaveKeeps DEF new

\* update_job saves a file and reloads all of them.
LEMMA UpdateKeeps == ASSUME Inv, NEW j \in Job, UpdateJob(j) PROVE Inv'
<1>1. PICK c \in Updated(file[j]) : LET f == [file EXCEPT ![j] = c] IN Save(f) /\ Reload(f)
  BY DEF UpdateJob
<1>2. c \in Files
  <2>1. file[j] \in Files
    BY DEF Inv, Typed
  <2>2. \A b \in BOOLEAN : /\ [file[j] EXCEPT !.on = b] \in Files
                       /\ [file[j] EXCEPT !.ok = b] \in Files
                       /\ [file[j] EXCEPT !.zone = b] \in Files
    BY <2>1 DEF Files
  <2> QED
    BY <2>2 DEF Updated
<1>3. [file EXCEPT ![j] = c] \in [Job -> Files]
  BY <1>2 DEF Inv, Typed
<1> QED
  BY <1>1, <1>3, SaveKeeps

\* The endpoints that write the file of a job as it is.
LEMMA RewriteKeeps == ASSUME Inv, NEW j \in Job, RewriteJob(j) PROVE Inv'
BY SaveKeeps DEF RewriteJob, Inv, Typed

\* The editor of all jobs writes and deletes files, then reloads.
LEMMA SaveAllKeeps == ASSUME Inv, SaveAllJobs PROVE Inv'
<1> DEFINE F(new) == [j \in Job |-> IF new[j].is = "job" THEN new[j]
                                    ELSE IF Loadable(Read(file)) /\ file[j].is = "job" THEN NoFile
                                    ELSE file[j]]
<1>1. PICK new \in [Job -> {File(c) : c \in Content} \cup {NoFile}] :
        Save(F(new)) /\ Reload(F(new))
  BY DEF SaveAllJobs
<1>2. NoFile \in Files /\ \A c \in Content : File(c) \in Files
  BY FileType DEF NoFile, Files
<1>3. \A j \in Job : new[j] \in Files
  BY <1>2
<1>4. F(new) \in [Job -> Files]
  BY <1>2, <1>3 DEF Inv, Typed
<1> HIDE DEF F
<1> QED
  BY <1>1, <1>4, SaveKeeps

\* delete_job removes a file and reloads.
LEMMA DeleteKeeps == ASSUME Inv, NEW j \in Job, DeleteJob(j) PROVE Inv'
<1>1. /\ up /\ UNCHANGED <<overlap, up, ran, started, finished, loop>>
      /\ proc' = [proc EXCEPT ![j] = IF @ = "running" THEN "idle" ELSE @]
  BY DEF DeleteJob, timeVars
<1>2. proc' \in [Job -> {"idle", "running", "succeeded", "ended"}]
  BY <1>1 DEF Inv, Typed
<1>3. CASE file[j].is = "none"
  BY <1>1, <1>2, <1>3 DEF DeleteJob, Inv, Typed, ConfigServed, StartedOnce, FinishedOff,
     HeldScheduled, Scheduled, Strange, Enabled, Defined, schedVars
<1>4. CASE file[j].is # "none"
  <2> DEFINE f == [file EXCEPT ![j] = NoFile]
  <2>1. file' = f /\ Reload(f)
    BY <1>4 DEF DeleteJob
  <2>2. f \in [Job -> Files]
    BY DEF Inv, Typed, NoFile, Files
  <2>3. \A k \in finished : ~f[k].on
    BY DEF Inv, Typed, FinishedOff, NoFile, Job
  <2> HIDE DEF f
  <2>4. finished' \subseteq Oneshot /\ \A k \in finished' : ~f[k].on /\ k \in finished
    BY <1>1, <2>3 DEF Inv, Typed
  <2> QED
    BY <1>1, <1>2, <2>1, <2>2, <2>4, ReloadKeeps
<1> QED
  BY <1>3, <1>4

\* The operator asks for a reload.
LEMMA RequestedKeeps == ASSUME Inv, ReloadRequested PROVE Inv'
<1>1. up /\ Reload(file) /\ UNCHANGED <<overlap, up, file, ran, started, proc, finished, loop>>
  BY DEF ReloadRequested, timeVars
<1>2. /\ file \in [Job -> Files] /\ file' = file
      /\ proc' \in [Job -> {"idle", "running", "succeeded", "ended"}]
      /\ finished' \subseteq Oneshot
      /\ \A j \in finished' : ~file[j].on /\ j \in finished
  BY <1>1 DEF Inv, Typed, FinishedOff
<1> QED
  BY <1>1, <1>2, ReloadKeeps

\* A file that is edited by hand is not served until the next reload.
LEMMA EditKeeps == ASSUME Inv, NEW j \in Job, EditByHand(j) PROVE Inv'
<1>1. PICK new \in {File(c) : c \in Content} \cup {NoFile, Junk} :
        /\ file' = [file EXCEPT ![j] = new]
        /\ Wanted([file EXCEPT ![j] = new])
  BY DEF EditByHand
<1>2. new \in Files
  <2>1. NoFile \in Files /\ Junk \in Files
    BY DEF NoFile, Junk, Files
  <2>2. \A c \in Content : File(c) \in Files
    BY FileType
  <2> QED
    BY <2>1, <2>2
<1>3. finished' = {k \in finished : file'[k] = file[k] \/ ~file'[k].on}
  BY <1>1 DEF Wanted
<1>4. /\ UNCHANGED <<overlap, up, loaded, held, next, queued, ran, proc, started, loop>>
      /\ byHand' = TRUE
  BY DEF EditByHand, schedVars, timeVars
<1>5. Typed'
  BY <1>1, <1>2, <1>3, <1>4 DEF Inv, Typed
<1>6. ConfigServed'
  BY <1>4 DEF Inv, ConfigServed, Scheduled, Strange, Enabled, Defined
<1>7. StartedOnce'
  BY <1>4 DEF Inv, StartedOnce
<1>8. FinishedOff' /\ HeldScheduled'
  BY <1>3, <1>4 DEF Inv, FinishedOff, HeldScheduled
<1> QED
  BY <1>5, <1>6, <1>7, <1>8 DEF Inv

-----------------------------------------------------------------------------
(* The daemon                                                                *)

LEMMA DownKeeps == ASSUME Inv, Down PROVE Inv'
<1>1. /\ UNCHANGED <<overlap, file, ran, started, finished>>
      /\ up' = FALSE
      /\ proc' = [j \in Job |-> "idle"] /\ loaded' = [j \in Job |-> NoFile]
      /\ next' = [j \in Job |-> "none"] /\ queued' = [j \in Job |-> 0]
      /\ held' = next' /\ loop' = "dead"
  BY DEF Down, timeVars
<1>2. Typed'
  BY <1>1 DEF Inv, Typed, NoFile, Files
<1>3. ConfigServed'
  BY <1>1 DEF ConfigServed
<1>4. StartedOnce'
  BY <1>1 DEF Inv, StartedOnce, Job
<1>5. FinishedOff' /\ HeldScheduled'
  BY <1>1 DEF Inv, Typed, FinishedOff, HeldScheduled, NoFile, Job
<1> QED
  BY <1>2, <1>3, <1>4, <1>5 DEF Inv

\* SIGHUP reloads.
LEMMA HangUpKeeps == ASSUME Inv, HangUp PROVE Inv'
BY RequestedKeeps, DownKeeps DEF HangUp

\* A daemon that comes up loads the files.
LEMMA BootKeeps == ASSUME Inv, Boot PROVE Inv'
<1>1. /\ UNCHANGED <<overlap, file, ran, started, proc, finished>>
      /\ Loadable(Read(file)) /\ up' = TRUE
      /\ Held(Read(file), Enabled(Read(file)), {})
      /\ loaded' = Read(file) /\ byHand' = FALSE
      /\ next' = [j \in Job |-> IF j \in Enabled(Read(file)) THEN NextRun(j) ELSE "none"]
      /\ queued' = [j \in Job |-> 0]
  BY DEF Boot, timeVars
<1>2. Read(file) \in [Job -> Files]
  BY ReadType DEF Inv, Typed
<1>3. \A k \in Job :
        IF k \in Enabled(Read(file))
        THEN /\ next'[k] \in {"later", "now"}
             /\ (k \in Cron /\ next'[k] = "now") => ran[k] = "before"
        ELSE next'[k] = "none"
  BY <1>1, NextRunFacts
<1>4. next' \in [Job -> {"none", "later", "now"}]
  BY <1>1, <1>3
<1>5. Typed'
  BY <1>1, <1>2, <1>4 DEF Inv, Typed
<1>6. ConfigServed'
  <2>1. Enabled(Read(file)) \subseteq Job
    BY DEF Enabled, Defined
  <2>2. Scheduled' = Enabled(Read(file))
    BY <1>3, <2>1 DEF Scheduled
  <2> QED
    BY <1>1, <2>2 DEF ConfigServed, Loadable
<1>7. StartedOnce'
  BY <1>1, <1>3 DEF Inv, StartedOnce, Job
<1>8. FinishedOff'
  BY <1>1 DEF Inv, Typed, FinishedOff, Read, NoFile, Job
<1>9. HeldScheduled'
  <2>1. held' = [j \in Job |-> IF j \in Enabled(Read(file)) THEN "known" ELSE "none"]
    <3>1. held' = [j \in Job |-> IF j \notin Enabled(Read(file)) THEN "none"
                                ELSE IF j \in Enabled(Read(file)) THEN "known"
                                ELSE IF j \in {} THEN "unknown" ELSE held[j]]
      BY <1>1 DEF Held
    <3> QED
      BY <3>1
  <2> QED
    BY <1>3, <2>1 DEF HeldScheduled
<1> QED
  BY <1>5, <1>6, <1>7, <1>8, <1>9 DEF Inv

-----------------------------------------------------------------------------
(* Starts, ends and the scheduler's loop                                     *)

\* Only jobs that are enabled in the daemon are started, and a start is a run.
LEMMA TakesFacts ==
  ASSUME Inv, NEW j \in Job, NEW o \in Outcomes(j), Takes(j, o)
  PROVE  /\ proc' \in [Job -> {"idle", "running", "succeeded", "ended"}]
         /\ ran' \in [Cron -> {"never", "before", "since"}]
         /\ \A k \in Cron : ran'[k] = "since" \/ ran'[k] = ran[k]
         /\ j \in Cron /\ o = "started" => ran'[j] = "since"
         /\ o = "started" => loaded[j].on
         /\ \A k \in Job : proc'[k] = "running" => proc[k] = "running" \/ (k = j /\ o = "started")
BY DEF Takes, Outcomes, Enabled, Inv, Typed

\* Jobs that stay scheduled or not, as they are, are served as before.
LEMMA ServedRests ==
  ASSUME ConfigServed, UNCHANGED <<up, file, byHand, loaded>>,
         Scheduled' \subseteq Scheduled, Scheduled \cap Cron \subseteq Scheduled'
  PROVE  ConfigServed'
<1>1. Strange(loaded)' = Strange(loaded) /\ Enabled(loaded)' = Enabled(loaded)
  BY DEF Strange, Enabled, Defined
<1> QED
  BY <1>1 DEF ConfigServed

\* A start on request.
LEMMA StartKeeps == ASSUME Inv, NEW j \in Job, StartRequested(j) PROVE Inv'
<1>1. PICK o \in Outcomes(j) : Takes(j, o)
  BY DEF StartRequested
<1>2. UNCHANGED <<overlap, up, file, byHand, loaded, held, next, queued, started, finished, loop>>
  BY DEF StartRequested, schedVars
<1>3. /\ proc' \in [Job -> {"idle", "running", "succeeded", "ended"}]
      /\ ran' \in [Cron -> {"never", "before", "since"}]
      /\ \A k \in Cron : ran'[k] = "since" \/ ran'[k] = ran[k]
  BY <1>1, TakesFacts
<1>4. Typed'
  BY <1>2, <1>3 DEF Inv, Typed
<1>5. ConfigServed'
  BY <1>2, ServedRests DEF Inv, Scheduled
<1>6. StartedOnce'
  BY <1>2, <1>3 DEF Inv, StartedOnce
<1>7. FinishedOff' /\ HeldScheduled'
  BY <1>2 DEF Inv, FinishedOff, HeldScheduled
<1> QED
  BY <1>4, <1>5, <1>6, <1>7 DEF Inv

\* A process ends.
LEMMA ExitKeeps == ASSUME Inv, NEW j \in Job, Exit(j) PROVE Inv'
<1>1. /\ UNCHANGED <<overlap, up, file, byHand, loaded, held, next, queued, ran, started, finished, loop>>
      /\ proc' \in [Job -> {"idle", "running", "succeeded", "ended"}]
  BY DEF Exit, diskVars, schedVars, timeVars, Inv, Typed
<1>2. ConfigServed'
  BY <1>1, ServedRests DEF Inv, Scheduled
<1> QED
  BY <1>1, <1>2 DEF Inv, Typed, StartedOnce, FinishedOff, HeldScheduled

\* A run is finalized: a one-shot that succeeded is disabled, in its file too.
LEMMA FinalizeKeeps == ASSUME Inv, NEW j \in Job, Finalize(j) PROVE Inv'
<1> DEFINE f == Disabled(j)
<1>1. /\ up /\ UNCHANGED <<overlap, up, ran, started, loop>>
      /\ proc' = [proc EXCEPT ![j] = "idle"]
  BY DEF Finalize, timeVars
<1>2. proc' \in [Job -> {"idle", "running", "succeeded", "ended"}]
  BY <1>1 DEF Inv, Typed
<1>3. CASE j \in Oneshot /\ proc[j] = "succeeded" /\ loaded[j].is = "job" /\ file[j].is = "job"
  <2>1. /\ file' = f /\ Reload(f)
        /\ finished' = IF Loadable(Read(f)) THEN finished \cup {j} ELSE finished
    BY <1>3 DEF Finalize
  <2>2. f \in [Job -> Files]
    <3>1. file[j] \in Files
      BY DEF Inv, Typed
    <3>2. [file[j] EXCEPT !.on = FALSE] \in Files
      BY <3>1 DEF Files
    <3> QED
      BY <3>2 DEF Disabled, Inv, Typed
  <2>3. ~f[j].on /\ \A k \in finished : ~f[k].on
    <3>1. file[j] \in Files /\ [file[j] EXCEPT !.on = FALSE].on = FALSE
      BY DEF Inv, Typed, Files
    <3>2. f[j] = [file[j] EXCEPT !.on = FALSE] /\ \A k \in Job \ {j} : f[k] = file[k]
      BY DEF Disabled, Inv, Typed
    <3> QED
      BY <3>1, <3>2 DEF Inv, Typed, FinishedOff, Job
  <2> HIDE DEF f
  <2>4. /\ finished' \subseteq Oneshot
        /\ \A k \in finished' : ~f[k].on /\ (k \in finished \/ Loadable(Read(f)))
    BY <1>3, <2>1, <2>3 DEF Inv, Typed
  <2> QED
    BY <1>1, <1>2, <2>1, <2>2, <2>4, ReloadKeeps
<1>4. CASE ~(j \in Oneshot /\ proc[j] = "succeeded" /\ loaded[j].is = "job" /\ file[j].is = "job")
  <2>1. UNCHANGED <<file, byHand, loaded, held, next, queued, finished>>
    BY <1>4 DEF Finalize, schedVars
  <2>2. ConfigServed'
    BY <1>1, <2>1, ServedRests DEF Inv, Scheduled
  <2> QED
    BY <1>1, <1>2, <2>1, <2>2 DEF Inv, Typed, StartedOnce, FinishedOff, HeldScheduled
<1> QED
  BY <1>3, <1>4

\* A next run that is rescheduled, and is not due for a cron job unless it was, serves
\* and starts as before.
LEMMA RescheduleKeeps ==
  ASSUME Inv, NEW j \in Job, NEW n \in {"later", "now"},
         next' = [next EXCEPT ![j] = n],
         next[j] # "none", j \in Cron => n = "later",
         UNCHANGED <<overlap, up, file, byHand, loaded, held, queued, ran, started, proc, finished, loop>>
  PROVE  Inv'
<1>1. Typed'
  BY DEF Inv, Typed
<1>2. Scheduled' \subseteq Scheduled /\ Scheduled \cap Cron \subseteq Scheduled'
  BY DEF Inv, Typed, Scheduled
<1>3. ConfigServed'
  BY <1>2, ServedRests DEF Inv
<1>4. StartedOnce'
  BY DEF Inv, Typed, StartedOnce, Job
<1>5. HeldScheduled'
  BY DEF Inv, Typed, HeldScheduled
<1> QED
  BY <1>1, <1>3, <1>4, <1>5 DEF Inv, FinishedOff

\* The end of the loop changes nothing of the schedule.
LEMMA LoopEndKeeps ==
  ASSUME Inv, loop' = "dead",
         UNCHANGED <<overlap, up, file, byHand, loaded, held, next, queued, ran, started, proc, finished>>
  PROVE  Inv'
<1>1. ConfigServed'
  BY ServedRests DEF Inv, Scheduled
<1> QED
  BY <1>1 DEF Inv, Typed, StartedOnce, FinishedOff, HeldScheduled

\* A slot outside the operating hours is passed over.
LEMMA OutOfHoursKeeps == ASSUME Inv, NEW j \in Job, OutOfHours(j) PROVE Inv'
<1>1. /\ next[j] = "now"
      /\ IF held[j] = "unknown"
         THEN loop' = "dead" /\ next' = next
         ELSE next' = [next EXCEPT ![j] = NextSlot(j)] /\ loop' = loop
      /\ UNCHANGED <<overlap, up, file, byHand, loaded, held, queued, ran, started, proc, finished>>
  BY DEF OutOfHours, Due, diskVars, timeVars
<1>2. NextSlot(j) \in {"later", "now"} /\ (j \in Cron => NextSlot(j) = "later")
  BY DEF NextSlot
<1>3. CASE held[j] = "unknown"
  BY <1>1, <1>3, LoopEndKeeps
<1>4. CASE held[j] # "unknown"
  BY <1>1, <1>2, <1>4, RescheduleKeeps
<1> QED
  BY <1>3, <1>4

\* Resuming a job schedules it anew.
LEMMA ResumeKeeps == ASSUME Inv, NEW j \in Job, ResumeJob(j) PROVE Inv'
<1>1. /\ next' = IF held[j] = "known" THEN [next EXCEPT ![j] = NextSlot(j)] ELSE next
      /\ UNCHANGED <<overlap, up, file, byHand, loaded, held, queued, ran, started, proc, finished, loop>>
  BY DEF ResumeJob, diskVars, timeVars
<1>2. NextSlot(j) \in {"later", "now"} /\ (j \in Cron => NextSlot(j) = "later")
  BY DEF NextSlot
<1>3. CASE held[j] = "known"
  <2>1. next[j] # "none"
    BY <1>3 DEF Inv, HeldScheduled
  <2> QED
    BY <1>1, <1>2, <1>3, <2>1, RescheduleKeeps
<1>4. CASE held[j] # "known"
  <2>1. ConfigServed'
    BY <1>1, <1>4, ServedRests DEF Inv, Scheduled
  <2> QED
    BY <1>1, <1>4, <2>1 DEF Inv, Typed, StartedOnce, FinishedOff, HeldScheduled
<1> QED
  BY <1>3, <1>4

\* Pausing takes it out of the schedule.
LEMMA PauseKeeps == ASSUME Inv, NEW j \in Job, PauseJob(j) PROVE Inv'
<1>1. /\ UNCHANGED <<overlap, up, file, byHand, loaded, held, next, queued, ran, started, finished, loop>>
      /\ proc' = [proc EXCEPT ![j] = IF @ = "running" THEN "idle" ELSE @]
  BY DEF PauseJob, timeVars
<1>2. ConfigServed'
  BY <1>1, ServedRests DEF Inv, Scheduled
<1> QED
  BY <1>1, <1>2 DEF Inv, Typed, StartedOnce, FinishedOff, HeldScheduled

\* A slot that was decided on is not due any more, unless the loop has ended.
DecidedWell(j) ==
  /\ next' \in [Job -> {"none", "later", "now"}]
  /\ Scheduled' \subseteq Scheduled /\ Scheduled \cap Cron \subseteq Scheduled'
  /\ next'[j] # "now" \/ loop' = "dead"
  /\ \A k \in Job : k # j => next'[k] = next[k]
  /\ loop' \in {loop, "dead"}
  /\ HeldScheduled'

\* Decided does just that.
LEMMA DecidedFacts ==
  ASSUME Inv, NEW j \in Job, next[j] = "now", Decided(j)
  PROVE  DecidedWell(j)
<1>1. next \in [Job -> {"none", "later", "now"}] /\ HeldScheduled
  BY DEF Inv, Typed
<1>2. held' = IF j \in Oneshot THEN [held EXCEPT ![j] = "none"] ELSE held
  BY DEF Decided, Forget
<1>3. CASE j \in Cron /\ held[j] = "unknown"
  <2>1. loop' = "dead" /\ next' = next /\ held' = held
    BY <1>2, <1>3, RegistryAssumption DEF Decided
  <2> QED
    BY <1>1, <2>1 DEF DecidedWell, Scheduled, HeldScheduled
<1>4. CASE ~(j \in Cron /\ held[j] = "unknown")
  <2>1. next' = [next EXCEPT ![j] = IF j \in Oneshot THEN "none" ELSE "later"] /\ loop' = loop
    BY <1>4 DEF Decided
  <2>2. j \in Cron => j \notin Oneshot
    BY RegistryAssumption
  <2>3. HeldScheduled'
    <3>5. held' \in [Job -> {"none", "known", "unknown"}]
      BY <1>1, <1>2 DEF HeldScheduled
    <3> SUFFICES ASSUME NEW k \in Job, held'[k] = "known" PROVE next'[k] # "none"
      BY <3>5 DEF HeldScheduled
    <3>1. CASE k # j
      BY <1>1, <1>2, <2>1, <3>1 DEF HeldScheduled
    <3>2. CASE k = j /\ j \notin Oneshot
      BY <1>1, <2>1, <3>2
    <3>3. CASE k = j /\ j \in Oneshot
      <4>1. held' = [held EXCEPT ![j] = "none"]
        BY <1>2, <3>3
      <4>2. held \in [Job -> {"none", "known", "unknown"}]
        BY DEF Inv, HeldScheduled
      <4> QED
        BY <3>3, <4>1, <4>2
    <3> QED
      BY <3>1, <3>2, <3>3
  <2>4. Scheduled' \subseteq Scheduled /\ Scheduled \cap Cron \subseteq Scheduled'
    BY <1>1, <2>1, <2>2 DEF Scheduled
  <2> QED
    BY <1>1, <2>1, <2>3, <2>4 DEF DecidedWell
<1> QED
  BY <1>3, <1>4

\* A slot that finds the last run still running, for each policy.
LEMMA OverlapsKeeps == ASSUME Inv, NEW j \in Job, Overlaps(j) PROVE Inv'
<1>1. /\ next[j] = "now" /\ loop = "alive" /\ Decided(j)
      /\ UNCHANGED <<overlap, up, file, byHand, loaded, ran, started, proc, finished>>
      /\ \/ queued' = [queued EXCEPT ![j] = 0]
         \/ j \in Cron /\ overlap[j] = "queue" /\ queued' = [queued EXCEPT ![j] = @ + 1]
         \/ queued' = queued
  BY DEF Overlaps, Due, diskVars, timeVars
<1>2. DecidedWell(j)
  BY <1>1, DecidedFacts
<1>3. queued' \in [Job -> Nat]
  BY <1>1 DEF Inv, Typed
<1>4. Typed'
  BY <1>1, <1>2, <1>3 DEF Inv, Typed, DecidedWell
<1>5. ConfigServed'
  BY <1>1, <1>2, ServedRests DEF Inv, DecidedWell
<1>6. StartedOnce'
  <2> SUFFICES ASSUME NEW k \in Cron, overlap[k] # "queue"
               PROVE  /\ queued'[k] = 0 /\ started[k] <= 1
                      /\ started[k] = 1 => ran[k] = "since" /\ (next'[k] # "now" \/ loop' = "dead")
    BY <1>1 DEF StartedOnce
  <2>1. k \in Job /\ queued[k] = 0 /\ started[k] <= 1
        /\ (started[k] = 1 => ran[k] = "since" /\ next[k] # "now")
    BY <1>1 DEF Inv, StartedOnce, Job
  <2>2. queued'[k] = 0
    BY <1>1, <2>1 DEF Inv, Typed
  <2>3. (next[k] # "now" => next'[k] # "now") \/ loop' = "dead"
    BY <1>2, <2>1 DEF DecidedWell
  <2> QED
    BY <2>1, <2>2, <2>3
<1>7. FinishedOff' /\ HeldScheduled'
  BY <1>1, <1>2 DEF Inv, FinishedOff, DecidedWell
<1> QED
  BY <1>4, <1>5, <1>6, <1>7 DEF Inv

\* A start counts for the newest slot of its job.
LEMMA CountedFacts ==
  ASSUME Inv, NEW j \in Job, NEW o, Counted(j, o)
  PROVE  /\ started' \in [Cron -> Nat]
         /\ \A k \in Cron : ~(k = j /\ o = "started") => started'[k] = started[k]
         /\ j \in Cron /\ o = "started" => started'[j] = started[j] + 1
BY DEF Counted, Inv, Typed

\* A slot whose job starts: it was due, so that it had not run for it.
LEMMA TriggerKeeps == ASSUME Inv, NEW j \in Job, Trigger(j) PROVE Inv'
<1>1. PICK o \in Outcomes(j) : Takes(j, o) /\ Counted(j, o)
  BY DEF Trigger
<1>2. /\ next[j] = "now" /\ loop = "alive" /\ Decided(j)
      /\ UNCHANGED <<overlap, up, file, byHand, loaded, finished>>
      /\ queued' = IF j \in Oneshot THEN [queued EXCEPT ![j] = 0] ELSE queued
  BY DEF Trigger, Due, diskVars
<1>3. DecidedWell(j)
  BY <1>2, DecidedFacts
<1>4. /\ proc' \in [Job -> {"idle", "running", "succeeded", "ended"}]
      /\ ran' \in [Cron -> {"never", "before", "since"}]
      /\ \A k \in Cron : ran'[k] = "since" \/ ran'[k] = ran[k]
      /\ j \in Cron /\ o = "started" => ran'[j] = "since"
  BY <1>1, TakesFacts
<1>5. /\ started' \in [Cron -> Nat]
      /\ \A k \in Cron : ~(k = j /\ o = "started") => started'[k] = started[k]
      /\ j \in Cron /\ o = "started" => started'[j] = started[j] + 1
  BY <1>1, CountedFacts
<1>6. Typed'
  BY <1>2, <1>3, <1>4, <1>5 DEF Inv, Typed, DecidedWell
<1>7. ConfigServed'
  BY <1>2, <1>3, ServedRests DEF Inv, DecidedWell
<1>8. StartedOnce'
  <2> SUFFICES ASSUME NEW k \in Cron, overlap[k] # "queue"
               PROVE  /\ queued'[k] = 0 /\ started'[k] <= 1
                      /\ started'[k] = 1 => ran'[k] = "since" /\ (next'[k] # "now" \/ loop' = "dead")
    BY <1>2 DEF StartedOnce
  <2>1. k \in Job /\ queued[k] = 0 /\ started[k] \in Nat /\ started[k] <= 1
        /\ (started[k] = 1 => ran[k] = "since" /\ next[k] # "now")
    BY <1>2 DEF Inv, Typed, StartedOnce, Job
  <2>2. queued'[k] = 0
    BY <1>2, <2>1 DEF Inv, Typed
  <2>3. CASE k = j
    <3>1. started[k] = 0
      BY <1>2, <2>1, <2>3
    <3>2. next'[k] # "now" \/ loop' = "dead"
      BY <1>3, <2>3 DEF DecidedWell
    <3>3. started'[k] \in {0, 1} /\ (started'[k] = 1 => ran'[k] = "since")
      BY <1>4, <1>5, <2>3, <3>1
    <3> QED
      BY <2>2, <3>2, <3>3
  <2>4. CASE k # j
    <3>1. started'[k] = started[k]
      BY <1>5, <2>4
    <3>2. next'[k] = next[k]
      BY <1>3, <2>1, <2>4 DEF DecidedWell
    <3> QED
      BY <1>4, <2>1, <2>2, <3>1, <3>2
  <2> QED
    BY <2>3, <2>4
<1>9. FinishedOff' /\ HeldScheduled'
  BY <1>2, <1>3 DEF Inv, FinishedOff, DecidedWell
<1> QED
  BY <1>6, <1>7, <1>8, <1>9 DEF Inv

\* A run that waited for the last one starts.
LEMMA RunQueuedKeeps == ASSUME Inv, NEW j \in Job, RunQueued(j) PROVE Inv'
<1>1. PICK o \in Outcomes(j) :
        /\ Takes(j, o) /\ Counted(j, o)
        /\ queued' = [queued EXCEPT ![j] = IF o = "started" THEN @ - 1 ELSE @]
  BY DEF RunQueued
<1>2. /\ queued[j] > 0
      /\ UNCHANGED <<overlap, up, file, byHand, loaded, held, next, loop, finished>>
  BY DEF RunQueued, diskVars
<1>3. /\ proc' \in [Job -> {"idle", "running", "succeeded", "ended"}]
      /\ ran' \in [Cron -> {"never", "before", "since"}]
      /\ \A k \in Cron : ran'[k] = "since" \/ ran'[k] = ran[k]
  BY <1>1, TakesFacts
<1>4. /\ started' \in [Cron -> Nat]
      /\ \A k \in Cron : ~(k = j /\ o = "started") => started'[k] = started[k]
  BY <1>1, CountedFacts
<1>5. queued' \in [Job -> Nat]
  BY <1>1, <1>2 DEF Inv, Typed
<1>6. Typed'
  BY <1>2, <1>3, <1>4, <1>5 DEF Inv, Typed
<1>7. ConfigServed'
  BY <1>2, ServedRests DEF Inv, Scheduled
<1>8. StartedOnce'
  <2> SUFFICES ASSUME NEW k \in Cron, overlap[k] # "queue"
               PROVE  /\ queued'[k] = 0 /\ started'[k] <= 1
                      /\ started'[k] = 1 => ran'[k] = "since" /\ (next[k] # "now" \/ loop = "dead")
    BY <1>2 DEF StartedOnce
  <2>1. k \in Job /\ queued[k] = 0 /\ started[k] <= 1
        /\ (started[k] = 1 => ran[k] = "since" /\ (next[k] # "now" \/ loop = "dead"))
    BY DEF Inv, StartedOnce, Job
  <2>2. k # j
    BY <1>2, <2>1
  <2>3. queued'[k] = 0
    BY <1>1, <2>1, <2>2 DEF Inv, Typed
  <2> QED
    BY <1>3, <1>4, <2>1, <2>2, <2>3
<1>9. FinishedOff' /\ HeldScheduled'
  BY <1>2 DEF Inv, FinishedOff, HeldScheduled
<1> QED
  BY <1>6, <1>7, <1>8, <1>9 DEF Inv

\* The start raises, and the scheduler's loop ends.
LEMMA DiesKeeps == ASSUME Inv, NEW j \in Job, LoopDies(j) PROVE Inv'
BY LoopEndKeeps DEF LoopDies, diskVars, schedVars, timeVars

-----------------------------------------------------------------------------
(* Time                                                                      *)

LEMMA SlotKeeps == ASSUME Inv, NEW j \in Job, SlotPasses(j) PROVE Inv'
<1>1. /\ ran' = [k \in Cron |-> IF k = j /\ ran[k] = "since" THEN "before" ELSE ran[k]]
      /\ next' = [next EXCEPT ![j] = IF @ = "later" THEN "now" ELSE @]
      /\ started' = [k \in Cron |-> IF k = j THEN 0 ELSE started[k]]
      /\ UNCHANGED <<overlap, up, file, byHand, loaded, held, queued, proc, finished, loop>>
  BY DEF SlotPasses, diskVars
<1>2. Typed'
  BY <1>1 DEF Inv, Typed
<1>3. Scheduled' = Scheduled
  BY <1>1 DEF Inv, Typed, Scheduled
<1>4. ConfigServed'
  BY <1>1, <1>3, ServedRests DEF Inv
<1>5. StartedOnce'
  <2> SUFFICES ASSUME NEW k \in Cron, overlap[k] # "queue"
               PROVE  /\ queued[k] = 0 /\ started'[k] <= 1
                      /\ started'[k] = 1 => ran'[k] = "since" /\ (next'[k] # "now" \/ loop = "dead")
    BY <1>1 DEF StartedOnce
  <2>1. k \in Job /\ queued[k] = 0 /\ started[k] <= 1
        /\ (started[k] = 1 => ran[k] = "since" /\ (next[k] # "now" \/ loop = "dead"))
    BY DEF Inv, StartedOnce, Job
  <2>2. CASE k = j
    BY <1>1, <2>1, <2>2
  <2>3. CASE k # j
    BY <1>1, <2>1, <2>3 DEF Inv, Typed
  <2> QED
    BY <2>2, <2>3
<1>6. FinishedOff' /\ HeldScheduled'
  BY <1>1 DEF Inv, Typed, FinishedOff, HeldScheduled
<1> QED
  BY <1>2, <1>4, <1>5, <1>6 DEF Inv

\* The time passes in which a slot is caught up.
LEMMA GraceKeeps == ASSUME Inv, NEW j \in Job, GraceEnds(j) PROVE Inv'
<1>1. UNCHANGED <<overlap, up, file, byHand, loaded, held, next, queued, ran, started, proc,
                  finished, loop>>
  BY DEF GraceEnds, diskVars, schedVars
<1>2. ConfigServed'
  BY <1>1, ServedRests DEF Inv, Scheduled
<1> QED
  BY <1>1, <1>2 DEF Inv, Typed, StartedOnce, FinishedOff, HeldScheduled

-----------------------------------------------------------------------------
(* The invariant and what follows from it                                    *)

LEMMA InitInv == Init => Inv
<1> SUFFICES ASSUME Init PROVE Inv
  OBVIOUS
<1> DEFINE first == File([on |-> TRUE, ok |-> TRUE, zone |-> TRUE, needs |-> {}])
<1>1. first \in Files /\ first = [on |-> TRUE, ok |-> TRUE, zone |-> TRUE, needs |-> {}, is |-> "job"]
  BY DEF File, Files
<1>2. file = [j \in Job |-> first] /\ loaded = file
  BY DEF Init
<1> HIDE DEF first
<1>3. file \in [Job -> Files]
  BY <1>1, <1>2
<1>4. Typed
  BY <1>2, <1>3 DEF Init, Typed
<1>5. Enabled(loaded) = Job /\ Defined(loaded) = Job
  BY <1>1, <1>2 DEF Enabled, Defined
<1>6. Read(file) = file
  BY <1>1, <1>2 DEF Read
<1>7. ConfigServed
  BY <1>1, <1>2, <1>5, <1>6 DEF Init, ConfigServed, Scheduled
<1>8. StartedOnce
  BY DEF Init, StartedOnce, Job
<1>9. HeldScheduled
  BY DEF Init, HeldScheduled
<1> QED
  BY <1>4, <1>7, <1>8, <1>9 DEF Init, Inv, FinishedOff

\* No step of the program breaks the invariant.
LEMMA NextInv == Inv /\ [Next]_vars => Inv'
<1> SUFFICES ASSUME Inv, [Next]_vars PROVE Inv'
  OBVIOUS
<1>1. CASE UNCHANGED vars
  <2>1. UNCHANGED <<overlap, up, file, byHand, loaded, held, next, queued, ran, started, proc,
                  finished, loop>>
    BY <1>1 DEF vars, diskVars, schedVars, timeVars
  <2>2. ConfigServed'
    BY <2>1, ServedRests DEF Inv, Scheduled
  <2> QED
    BY <2>1, <2>2 DEF Inv, Typed, StartedOnce, FinishedOff, HeldScheduled
<1>2. CASE SaveAllJobs \/ ReloadRequested \/ Down \/ HangUp \/ Boot
  BY <1>2, SaveAllKeeps, RequestedKeeps, DownKeeps, HangUpKeeps, BootKeeps
<1>3. ASSUME NEW j \in Job, CreateJob(j) \/ UpdateJob(j) \/ RewriteJob(j) \/ DeleteJob(j)
                           \/ EditByHand(j)
      PROVE Inv'
  BY <1>3, CreateKeeps, UpdateKeeps, RewriteKeeps, DeleteKeeps, EditKeeps
<1>4. ASSUME NEW j \in Job, StartRequested(j) \/ Exit(j) \/ Finalize(j) \/ PauseJob(j)
                           \/ ResumeJob(j)
      PROVE Inv'
  BY <1>4, StartKeeps, ExitKeeps, FinalizeKeeps, PauseKeeps, ResumeKeeps
<1>5. ASSUME NEW j \in Job, OutOfHours(j) \/ Overlaps(j) \/ Trigger(j) \/ RunQueued(j)
                           \/ LoopDies(j)
      PROVE Inv'
  BY <1>5, OutOfHoursKeeps, OverlapsKeeps, TriggerKeeps, RunQueuedKeeps, DiesKeeps
<1>6. ASSUME NEW j \in Job, SlotPasses(j) \/ GraceEnds(j) PROVE Inv'
  BY <1>6, SlotKeeps, GraceKeeps
<1> QED
  BY <1>1, <1>2, <1>3, <1>4, <1>5, <1>6 DEF Next

\* Every state of the program satisfies the invariant.
THEOREM Invariance == Spec => []Inv
<1> QED
  BY InitInv, NextInv, PTL DEF Spec

\* Whatever is written, edited, loaded and refused, in whatever order: the daemon
\* serves the sound files of the last reload, schedules nothing else and, if the
\* timezones of the enabled jobs are known, every cron job that they enable.
THEOREM FilesAreServed == Spec => []ConfigServed
<1>1. Inv => ConfigServed
  BY DEF Inv
<1> QED
  BY <1>1, Invariance, PTL

\* Reloads, restarts, catch-ups and pauses start a job once for a slot, unless
\* overlapping runs are queued.
THEOREM SlotsAreStartedOnce == Spec => []OncePerSlot
<1>1. Inv => OncePerSlot
  BY DEF Inv, StartedOnce, OncePerSlot
<1> QED
  BY <1>1, Invariance, PTL

\* No step starts a one-shot that was disabled after its success.
LEMMA NoRestart ==
  ASSUME Inv, Next, NEW i \in finished, proc'[i] = "running"
  PROVE  proc[i] = "running"
<1>1. i \in Job /\ ~loaded[i].on
  BY DEF Inv, Typed, FinishedOff, Job
<1>2. ASSUME NEW j \in Job, NEW o \in Outcomes(j), Takes(j, o)
      PROVE  proc[i] = "running"
  BY <1>1, <1>2, TakesFacts
<1>3. ASSUME NEW j \in Job, CreateJob(j) \/ UpdateJob(j) \/ RewriteJob(j) \/ DeleteJob(j)
                           \/ EditByHand(j)
      PROVE  proc[i] = "running"
  BY <1>1, <1>3 DEF CreateJob, UpdateJob, RewriteJob, DeleteJob, EditByHand, Save, Inv, Typed
<1>4. ASSUME NEW j \in Job, StartRequested(j) \/ Trigger(j) \/ RunQueued(j)
      PROVE  proc[i] = "running"
  BY <1>2, <1>4 DEF StartRequested, Trigger, RunQueued
<1>5. ASSUME NEW j \in Job, Exit(j) \/ Finalize(j) \/ PauseJob(j)
      PROVE  proc[i] = "running"
  BY <1>1, <1>5 DEF Exit, Finalize, PauseJob, Inv, Typed
<1>6. ASSUME NEW j \in Job, ResumeJob(j) \/ OutOfHours(j) \/ Overlaps(j) \/ LoopDies(j)
                           \/ SlotPasses(j) \/ GraceEnds(j)
      PROVE  proc[i] = "running"
  BY <1>6 DEF ResumeJob, OutOfHours, Overlaps, LoopDies, SlotPasses, GraceEnds
<1>7. ASSUME SaveAllJobs \/ ReloadRequested \/ Down \/ HangUp \/ Boot
      PROVE  proc[i] = "running"
  BY <1>1, <1>7 DEF SaveAllJobs, Save, ReloadRequested, Down, HangUp, Boot
<1> QED
  BY <1>3, <1>4, <1>5, <1>6, <1>7 DEF Next

\* No reload, restart or request brings a one-shot back that has succeeded, unless
\* somebody writes that it is enabled.
THEOREM DoneStaysDone == Spec => FinishedStaysFinished
<1>1. Inv /\ [Next]_vars =>
        [\A j \in finished : proc'[j] = "running" => proc[j] = "running"]_vars
  BY NoRestart
<1> QED
  BY <1>1, Invariance, PTL DEF Spec, FinishedStaysFinished
=============================================================================
