---------------------------- MODULE RunRecovery ----------------------------
(***************************************************************************)
(* The runs of one job across crashes and restarts of the daemon           *)
(* (core/supervisor.py, core/job_wrapper.py).  A run is a row of job_runs  *)
(* and a process: a shell script, the wrapper, that starts the command and *)
(* a loop touching a heartbeat file, and that writes a completion marker   *)
(* when the command has ended.  Daemon, wrapper and command can die        *)
(* independently.  When the daemon starts it adopts the process it finds   *)
(* and closes the rows of the runs it does not.                            *)
(*                                                                         *)
(* Runs are numbered in the order of their rows.  Exit codes are "ok",     *)
(* "error" and "killed", which stands for the code of a signal, -15 where  *)
(* the code is only assumed, and NULL.                                     *)
(***************************************************************************)
EXTENDS Integers

CONSTANT MaxRuns    \* bound on the number of runs

ASSUME MaxRunsAssumption == MaxRuns \in Nat

Run == 1..MaxRuns

VARIABLES
  continuous,    \* the job's type is continuous (never changes)
  up,            \* the daemon runs
  opened,        \* number of rows in job_runs; the id of the newest run
  recorded,      \* recorded[r]: exit_code of row r, or "open": finished_at is NULL
  pid,           \* the run whose process the job's row names, 0 for none
  handle,        \* the entry of _processes
  wrapper,       \* runs whose wrapper is alive; its pid is the pid of the run
  command,       \* runs whose command is alive
  exit,          \* exit[r]: how the wrapper of run r ended
  marker,        \* marker[r]: the code in the completion marker of run r
  heart,         \* heart[r]: its heartbeat file; "beating" while the loop is alive
  lost,          \* history: runs whose wrapper was killed by SIGKILL, or whose
                 \* process the daemon had no time to save
  cut            \* history: runs whose finalization was cut short after it had
                 \* removed their files

vars == <<continuous, up, opened, recorded, pid, handle, wrapper, command, exit,
          marker, heart, lost, cut>>

\* process: the run the handle's pid belongs to; run: its run_id, 0 for None;
\* adopted: it is an OrphanProcessHandle.
Nobody == [process |-> 0, run |-> 0, adopted |-> FALSE]

-----------------------------------------------------------------------------
Init ==
  /\ continuous \in BOOLEAN
  /\ up = FALSE
  /\ opened = 0
  /\ recorded = [r \in Run |-> "none"]
  /\ pid = 0
  /\ handle = Nobody
  /\ wrapper = {} /\ command = {}
  /\ exit = [r \in Run |-> "none"]
  /\ marker = [r \in Run |-> "none"]
  /\ heart = [r \in Run |-> "none"]
  /\ lost = {} /\ cut = {}

\* check_pid and is_running: the wrapper is what they look at.
Alive(r) == r \in wrapper

-----------------------------------------------------------------------------
(* start_job                                                               *)

StartsUnchecked ==                      \* fault: neither handle nor pid is looked at
  up /\ opened < MaxRuns /\ (handle # Nobody => handle.adopted)

\* start_job goes on to the run's row if nothing is found running.  A handle of its
\* own, also of a process that has exited, is counted against max_instances; an
\* adopted one is not.
MayStart ==
  /\ up
  /\ opened < MaxRuns
  /\ ~Alive(handle.process)
  /\ ~Alive(pid)
  /\ handle # Nobody => handle.adopted

\* add_run
Opened == recorded' = [recorded EXCEPT ![opened + 1] = "open"] /\ opened' = opened + 1

\* _kill_orphan_processes, for continuous jobs: wrappers, commands and heartbeat
\* loops have the job's id in their environment.  Then the spawned ones.
Spawned(new) ==
  /\ wrapper' = (IF continuous THEN {} ELSE wrapper) \cup new
  /\ command' = (IF continuous THEN {} ELSE command) \cup new
  /\ exit' = [r \in Run |-> IF continuous /\ Alive(r) THEN "killed" ELSE exit[r]]
  /\ heart' = [r \in Run |->
                 IF r \in new THEN "beating"
                 ELSE IF continuous /\ heart[r] = "beating" THEN "fresh"
                 ELSE heart[r]]

StartJob ==
  /\ MayStart
  /\ Opened
  /\ Spawned({opened + 1})
  /\ pid' = opened + 1
  /\ handle' = [process |-> opened + 1, run |-> opened + 1, adopted |-> FALSE]
  /\ UNCHANGED <<continuous, up, marker, lost, cut>>

\* start_job refuses (revoked, duplicate, limit) when the orphans are killed already.
StartRefused ==
  /\ up
  /\ continuous
  /\ ~Alive(handle.process)
  /\ ~Alive(pid)
  /\ Spawned({})
  /\ UNCHANGED <<continuous, up, opened, recorded, pid, handle, marker, lost, cut>>

\* _spawn_process raises: the row of the run stays open.
StartFails ==
  /\ MayStart
  /\ Opened
  /\ Spawned({})
  /\ pid' = 0
  /\ UNCHANGED <<continuous, up, handle, marker, lost, cut>>

\* The daemon dies after add_run, or after Popen and before save_state.
CrashInStart ==
  /\ MayStart
  /\ Opened
  /\ \/ Spawned({}) /\ UNCHANGED lost
     \/ Spawned({opened + 1}) /\ lost' = lost \cup {opened + 1}
  /\ up' = FALSE
  /\ handle' = Nobody
  /\ UNCHANGED <<continuous, pid, marker, cut>>

-----------------------------------------------------------------------------
(* _finalize_job                                                           *)

\* A heartbeat file that is removed under a living loop is there again at its next beat.
Unbeaten(hearts, rs) ==
  [r \in Run |-> IF r \in rs /\ hearts[r] # "beating" THEN "none" ELSE hearts[r]]

\* The files of the handle's run are removed, and then the newest run is closed, if open.
Finalize(code, markers, hearts) ==
  /\ recorded' = IF recorded[opened] = "open"
                 THEN [recorded EXCEPT ![opened] = code] ELSE recorded
  /\ marker' = [r \in Run |-> IF r = handle.run THEN "none" ELSE markers[r]]
  /\ heart' = Unbeaten(hearts, {handle.run})
  /\ handle' = Nobody

\* returncode: the exit code of an orphan is not known, -15 is assumed.
ReturnCode(code) == IF handle.adopted THEN "killed" ELSE code

\* _check_processes
Poll ==
  /\ up
  /\ handle # Nobody
  /\ ~Alive(handle.process)
  /\ Finalize(ReturnCode(exit[handle.process]), marker, heart)
  /\ UNCHANGED <<continuous, up, opened, pid, wrapper, command, exit, lost, cut>>

\* The files are gone when the release of the queue slot, or a start nested in it,
\* raises: run and handle stay for the next poll, which the daemon may not live to see.
FinalizeRaises ==
  /\ up
  /\ handle # Nobody
  /\ ~Alive(handle.process)
  /\ marker' = [r \in Run |-> IF r = handle.run THEN "none" ELSE marker[r]]
  /\ heart' = Unbeaten(heart, {handle.run})
  /\ cut' = cut \cup {handle.run}
  /\ UNCHANGED <<continuous, up, opened, recorded, pid, handle, wrapper, command, exit, lost>>

\* stop_job, SIGTERM: bash runs the trap when the command has ended, and exits 143.
StopGently ==
  /\ up
  /\ Alive(handle.process)
  /\ wrapper' = wrapper \ {handle.process}
  /\ command' = command \ {handle.process}
  /\ exit' = [exit EXCEPT ![handle.process] = "error"]
  /\ Finalize(ReturnCode("error"),
              [marker EXCEPT ![handle.process] = "error"],
              [heart EXCEPT ![handle.process] = "none"])
  /\ UNCHANGED <<continuous, up, opened, pid, lost, cut>>

\* stop_job, SIGKILL, forced or after the grace period: it reaches only the wrapper.
StopForced ==
  /\ up
  /\ Alive(handle.process)
  /\ wrapper' = wrapper \ {handle.process}
  /\ exit' = [exit EXCEPT ![handle.process] = "killed"]
  /\ lost' = lost \cup {handle.process}
  /\ Finalize("killed", marker, heart)
  /\ UNCHANGED <<continuous, up, opened, pid, command, cut>>

-----------------------------------------------------------------------------
(* The wrapper script                                                      *)

\* The command ends; the trap stops the loop, removes its file and writes the marker.
WrapperEnds(r) ==
  /\ Alive(r)
  /\ wrapper' = wrapper \ {r}
  /\ command' = command \ {r}
  /\ \E code \in {"ok", "error"} :
       /\ exit' = [exit EXCEPT ![r] = code]
       /\ marker' = [marker EXCEPT ![r] = code]
  /\ heart' = [heart EXCEPT ![r] = "none"]
  /\ UNCHANGED <<continuous, up, opened, recorded, pid, handle, lost, cut>>

\* SIGKILL from outside, to the wrapper, or to the whole session.
WrapperKilled(r) ==
  /\ Alive(r)
  /\ wrapper' = wrapper \ {r}
  /\ exit' = [exit EXCEPT ![r] = "killed"]
  /\ lost' = lost \cup {r}
  /\ \/ UNCHANGED <<command, heart>>
     \/ /\ command' = command \ {r}
        /\ heart' = [heart EXCEPT ![r] = "fresh"]
  /\ UNCHANGED <<continuous, up, opened, recorded, pid, handle, marker, cut>>

\* A command without its wrapper ends, and nobody notes how.
CommandEnds(r) ==
  /\ r \in command \ wrapper
  /\ command' = command \ {r}
  /\ UNCHANGED <<continuous, up, opened, recorded, pid, handle, wrapper,
                 exit, marker, heart, lost, cut>>

\* HEARTBEAT_STALE_THRESHOLD passes since the last beat.
HeartbeatAges(r) ==
  /\ heart[r] = "fresh"
  /\ heart' = [heart EXCEPT ![r] = "stale"]
  /\ UNCHANGED <<continuous, up, opened, recorded, pid, handle, wrapper, command,
                 exit, marker, lost, cut>>

-----------------------------------------------------------------------------
(* Crash and restart                                                       *)

Crash ==
  /\ up
  /\ up' = FALSE
  /\ handle' = Nobody
  /\ UNCHANGED <<continuous, opened, recorded, pid, wrapper, command,
                 exit, marker, heart, lost, cut>>

OpenRuns == {r \in Run : recorded[r] = "open"}

NothingRuns == FALSE                    \* fault: the pid is not looked at
StillRunning == OpenRuns # {} /\ Alive(pid)

\* _adopt_orphan_process: get_last_run, if it is open.
RunOfOrphan == IF opened \in OpenRuns THEN opened ELSE 0

\* _cleanup_zombie_runs with a living process: every open run is passed over.
Adopt ==
  /\ ~up
  /\ up' = TRUE
  /\ StillRunning
  /\ handle' = [process |-> pid, run |-> RunOfOrphan, adopted |-> TRUE]
  /\ UNCHANGED <<continuous, opened, recorded, pid, wrapper, command,
                 exit, marker, heart, lost, cut>>

VerdictByHeart(r) ==                    \* fault: the marker is not looked at
  IF heart[r] \in {"beating", "fresh"} THEN "open" ELSE "killed"
VerdictWhenStale(r) ==                  \* fault: a heartbeat that is gone is waited for
  IF heart[r] = "stale" THEN "killed" ELSE "open"

\* What becomes of an open run without a process: marker first, then heartbeat.
Verdict(r) ==
  CASE marker[r] # "none" -> marker[r]
    [] marker[r] = "none" /\ heart[r] \in {"beating", "fresh"} -> "open"
    [] marker[r] = "none" /\ heart[r] \in {"none", "stale"} -> "killed"

\* _cleanup_zombie_runs without one.  The row's pid is reset with a recovered run only.
Recover ==
  /\ ~up
  /\ up' = TRUE
  /\ ~StillRunning
  /\ LET closed == {r \in OpenRuns : Verdict(r) # "open"} IN
     /\ recorded' = [r \in Run |-> IF r \in closed THEN Verdict(r) ELSE recorded[r]]
     /\ marker' = [r \in Run |-> IF r \in closed THEN "none" ELSE marker[r]]
     /\ heart' = Unbeaten(heart, closed)
     /\ pid' = IF \E r \in closed : marker[r] # "none" THEN 0 ELSE pid
  /\ UNCHANGED <<continuous, opened, handle, wrapper, command, exit, lost, cut>>

Restart == Adopt \/ Recover

Next ==
  \/ StartJob \/ StartRefused \/ StartFails \/ CrashInStart
  \/ Poll \/ FinalizeRaises \/ StopGently \/ StopForced
  \/ Crash \/ Restart
  \/ \E r \in Run :
       WrapperEnds(r) \/ WrapperKilled(r) \/ CommandEnds(r) \/ HeartbeatAges(r)

Spec == Init /\ [][Next]_vars

\* Commands end, the daemon polls, and its service manager restarts it (KeepAlive,
\* Restart=always).
FairSpec ==
  /\ Spec
  /\ WF_vars(Poll)
  /\ WF_vars(Restart)
  /\ \A r \in Run : WF_vars(WrapperEnds(r))

-----------------------------------------------------------------------------
(* Properties                                                              *)

\* Types; rows exist up to the newest run; a command outlives its wrapper and never
\* the other way round; a marker tells how the wrapper ended.
TypeOK ==
  /\ continuous \in BOOLEAN /\ up \in BOOLEAN
  /\ opened \in 0..MaxRuns
  /\ recorded \in [Run -> {"none", "open", "ok", "error", "killed"}]
  /\ \A r \in Run : recorded[r] = "none" <=> r > opened
  /\ pid \in 0..opened
  /\ handle \in [process : 0..opened, run : 0..opened, adopted : BOOLEAN]
  /\ wrapper \subseteq command /\ command \subseteq 1..opened
  /\ exit \in [Run -> {"none", "ok", "error", "killed"}]
  /\ DOMAIN marker = Run /\ \A r \in Run : marker[r] \in {"none", exit[r]}
  /\ heart \in [Run -> {"none", "beating", "fresh", "stale"}]
  /\ lost \subseteq 1..opened /\ cut \subseteq Run

\* While the daemon is up every wrapper is under its management, whatever it missed
\* while it was down, except one whose pid was never saved.  (A command may outlive a
\* wrapper that was killed, and then nobody sees it.)
NothingUnmanaged == up => wrapper \subseteq {handle.process} \cup lost

\* Whatever else was opened in the meantime, the run id guessed for an orphan, whose
\* files will be removed in the end, is the run of its process.
HandleMatches == handle # Nobody => handle.run = handle.process

\* Two commands of the job run at once only if the process of one was lost; of a
\* continuous job never.
OneCommandAtATime ==
  \A r, s \in command : r # s => (~continuous /\ {r, s} \cap lost # {})

\* A code other than that of a signal, which is also what is recorded where none is
\* known, is recorded for runs only that had it, whichever way it came there.
CodeIsTrue ==
  \A r \in Run : recorded[r] \in {"ok", "error"} => recorded[r] = exit[r]

\* The newest run is recorded as killed, although it ended with a code, only if the
\* daemon had adopted it, or at a restart, if a finalization of it had been cut short.
CodeKeptUnlessAdopted ==
  [][\A r \in Run :
       ( /\ recorded[r] = "open" /\ recorded'[r] = "killed"
         /\ exit'[r] \in {"ok", "error"} /\ r = opened )
       => handle.adopted \/ (~up /\ r \in cut)]_vars

\* However often the daemon crashes, a run that has ended is recorded in the end,
\* unless a newer one replaces it or its process was lost.
RecordedInTheEnd ==
  \A r \in Run :
    (exit[r] # "none") ~> (recorded[r] # "open" \/ opened > r \/ r \in lost)

=============================================================================
