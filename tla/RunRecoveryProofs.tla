------------------------- MODULE RunRecoveryProofs -------------------------
(***************************************************************************)
(* For any number of runs, wherever the daemon, the wrappers and the       *)
(* commands die: no process the daemon could know of escapes it, two       *)
(* commands of a job run at once only if one was lost, and an exit code in *)
(* the database, other than that of a signal, is the one the run had.      *)
(***************************************************************************)
EXTENDS RunRecovery, TLAPS

\* What ties the row's pid, the handle and the processes together.
Linked ==
  /\ Alive(pid) => pid = opened /\ recorded[pid] = "open"
  /\ handle # Nobody => handle.process # 0 /\ pid \in {0, handle.process}
  /\ handle # Nobody /\ ~handle.adopted => handle.process = opened
  /\ handle # Nobody /\ ~Alive(handle.process) => exit[handle.process] # "none"
  /\ wrapper \subseteq {pid} \cup lost
  /\ command \ wrapper \subseteq lost
  /\ \A r \in Run : r \in wrapper \/ r > opened => exit[r] = "none"
  /\ ~up => handle = Nobody

\* The inductive invariant.
Managed ==
  /\ TypeOK /\ Linked
  /\ NothingUnmanaged /\ HandleMatches /\ OneCommandAtATime /\ CodeIsTrue

\* No handle is a handle of nothing.
LEMMA NobodyTyped ==
  ASSUME NEW n \in Nat
  PROVE  Nobody \in [process : 0..n, run : 0..n, adopted : BOOLEAN]
BY DEF Nobody

\* Nothing is alive, except lost, when a run is opened; it and what is spawned for it
\* fit in, and a continuous job has no other command then.
LEMMA OpeningSound ==
  ASSUME Managed, MayStart, Opened, NEW new \in SUBSET {opened + 1}, Spawned(new),
         continuous' = continuous, marker' = marker
  PROVE  /\ opened' = opened + 1 /\ opened' \in 1..MaxRuns
         /\ recorded' \in [Run -> {"none", "open", "ok", "error", "killed"}]
         /\ \A r \in Run : recorded'[r] = "none" <=> r > opened'
         /\ recorded'[opened'] = "open"
         /\ wrapper' \subseteq command' /\ command' \subseteq 1..opened'
         /\ exit' \in [Run -> {"none", "ok", "error", "killed"}]
         /\ \A r \in Run : marker'[r] \in {"none", exit'[r]}
         /\ heart' \in [Run -> {"none", "beating", "fresh", "stale"}]
         /\ new \subseteq wrapper' /\ wrapper' \subseteq new \cup lost
         /\ command' \ wrapper' \subseteq lost
         /\ \A r, s \in command' : r # s => (~continuous /\ {r, s} \cap lost # {})
         /\ \A r \in Run : r \in wrapper' \/ r > opened' => exit'[r] = "none"
         /\ \A r \in Run : exit[r] # "none" => exit'[r] = exit[r]
         /\ CodeIsTrue'
<1> USE MaxRunsAssumption DEF Managed, TypeOK, Run, Alive
<1>1. opened' = opened + 1 /\ opened' \in 1..MaxRuns
  BY DEF MayStart, Opened
<1>2. /\ recorded' \in [Run -> {"none", "open", "ok", "error", "killed"}]
      /\ \A r \in Run : recorded'[r] = IF r = opened + 1 THEN "open" ELSE recorded[r]
  BY <1>1 DEF Opened
<1>3. \A r \in Run : recorded'[r] = "none" <=> r > opened'
  BY <1>1, <1>2
<1>4. wrapper \subseteq lost /\ command \subseteq lost
  BY DEF MayStart, Linked
<1>5. \/ wrapper' = new /\ command' = new
      \/ ~continuous /\ wrapper' = wrapper \cup new /\ command' = command \cup new
  <2> HIDE DEF Managed, TypeOK
  <2>1. /\ wrapper' = (IF continuous THEN {} ELSE wrapper) \cup new
        /\ command' = (IF continuous THEN {} ELSE command) \cup new
    BY DEF Spawned
  <2>2. {} \cup new = new
    OBVIOUS
  <2> QED
    BY <2>1, <2>2, Zenon
<1>6. /\ wrapper' \subseteq command' /\ command' \subseteq 1..opened'
      /\ new \subseteq wrapper' /\ wrapper' \subseteq new \cup lost
      /\ command' \ wrapper' \subseteq lost
      /\ \A r, s \in command' : r # s => (~continuous /\ {r, s} \cap lost # {})
  <2>1. wrapper \subseteq command /\ command \subseteq 1..opened /\ new \subseteq {opened + 1}
    OBVIOUS
  <2>2. \A r, s \in new : r = s
    OBVIOUS
  <2>3. CASE wrapper' = new /\ command' = new
    BY <1>1, <2>1, <2>2, <2>3
  <2>4. CASE ~continuous /\ wrapper' = wrapper \cup new /\ command' = command \cup new
    <3>1. \A r, s \in command' : r # s => r \in lost \/ s \in lost
      BY <1>4, <2>2, <2>4
    <3>2. \A r, s \in command' : r # s => {r, s} \cap lost # {}
      BY <3>1
    <3>3. wrapper' \subseteq command' /\ command' \subseteq 1..opened'
      BY <1>1, <2>1, <2>4
    <3> HIDE DEF Managed, TypeOK
    <3>4. new \subseteq wrapper' /\ wrapper' \subseteq new \cup lost /\ command' \ wrapper' \subseteq lost
      BY <1>4, <2>4
    <3>5. ~continuous
      BY <2>4, Zenon
    <3> QED
      BY <3>2, <3>3, <3>4, <3>5, Zenon
  <2> QED
    BY <1>5, <2>3, <2>4, Zenon
<1>7. /\ exit' \in [Run -> {"none", "ok", "error", "killed"}]
      /\ \A r \in Run : exit'[r] = IF continuous /\ r \in wrapper THEN "killed" ELSE exit[r]
  BY DEF Spawned
<1>8. \A r \in Run : r \in wrapper \/ r > opened => exit[r] = "none"
  BY DEF Linked
<1>9. \A r \in Run : r \in wrapper' \/ r > opened' => exit'[r] = "none"
  <2>1. \A r \in wrapper' : r \in new \/ (~continuous /\ r \in wrapper)
    BY <1>5
  <2>2. wrapper \subseteq 1..opened
    OBVIOUS
  <2> QED
    BY <1>1, <1>7, <1>8, <2>1, <2>2
<1>10. \A r \in Run : exit[r] # "none" => exit'[r] = exit[r]
  BY <1>7, <1>8
<1>11. \A r \in Run : marker'[r] \in {"none", exit'[r]}
  BY <1>10
<1>12. heart' \in [Run -> {"none", "beating", "fresh", "stale"}]
  <2>1. \A r \in Run :
          (IF r \in new THEN "beating"
           ELSE IF continuous /\ heart[r] = "beating" THEN "fresh" ELSE heart[r])
            \in {"none", "beating", "fresh", "stale"}
    OBVIOUS
  <2> QED
    BY <2>1 DEF Spawned
<1>13. CodeIsTrue'
  BY <1>1, <1>2, <1>10 DEF CodeIsTrue
<1> QED
  BY <1>1, <1>2, <1>3, <1>6, <1>7, <1>9, <1>10, <1>11, <1>12, <1>13

\* The new process is the row's and the handle's.
LEMMA StartJobKeeps ==
  ASSUME Managed, StartJob
  PROVE  Managed'
<1>1. MayStart /\ Opened /\ Spawned({opened + 1}) /\ continuous' = continuous /\ marker' = marker
  BY DEF StartJob
<1> HIDE DEF Managed
<1> USE MaxRunsAssumption DEF Managed, Run, Alive, Nobody
<1>2. TypeOK'
  BY <1>1, OpeningSound DEF StartJob, TypeOK
<1>3. Linked'
  BY <1>1, OpeningSound DEF StartJob, Linked, TypeOK, MayStart
<1>4. NothingUnmanaged' /\ HandleMatches' /\ OneCommandAtATime' /\ CodeIsTrue'
  BY <1>1, OpeningSound DEF StartJob, NothingUnmanaged, HandleMatches, OneCommandAtATime
<1> QED
  BY <1>2, <1>3, <1>4

\* The handle stays as it is.
LEMMA StartFailsKeeps ==
  ASSUME Managed, StartFails
  PROVE  Managed'
<1>1. MayStart /\ Opened /\ Spawned({}) /\ continuous' = continuous /\ marker' = marker
  BY DEF StartFails
<1> HIDE DEF Managed
<1> USE MaxRunsAssumption DEF Managed, Run, Alive, Nobody
<1>2. TypeOK'
  BY <1>1, OpeningSound DEF StartFails, TypeOK
<1>3. Linked'
  <2>1. /\ wrapper' \subseteq command' /\ command' \subseteq 1..opened'
        /\ wrapper' \subseteq lost /\ command' \ wrapper' \subseteq lost
        /\ \A r \in Run : r \in wrapper' \/ r > opened' => exit'[r] = "none"
        /\ \A r \in Run : exit[r] # "none" => exit'[r] = exit[r]
    BY <1>1, OpeningSound
  <2>2. pid' = 0 /\ handle' = handle /\ lost' = lost /\ up' = up /\ up
    BY <1>1 DEF StartFails, MayStart
  <2>3. 0 \notin wrapper'
    BY <2>1
  <2>4. handle # Nobody =>
          handle.adopted /\ handle.process \in Run /\ exit[handle.process] # "none"
    <3>1. handle # Nobody =>
            /\ handle.adopted /\ ~Alive(handle.process)
            /\ handle.process # 0 /\ exit[handle.process] # "none"
      BY <1>1 DEF MayStart, Linked
    <3>2. handle.process \in 0..opened /\ opened \in 0..MaxRuns
      BY DEF TypeOK
    <3> QED
      BY <3>1, <3>2
  <2>5. handle # Nobody => handle.process # 0 /\ exit'[handle.process] # "none"
    BY <2>1, <2>4
  <2> QED
    BY <2>1, <2>2, <2>3, <2>4, <2>5 DEF Linked
<1>4. NothingUnmanaged' /\ HandleMatches' /\ OneCommandAtATime' /\ CodeIsTrue'
  BY <1>1, OpeningSound DEF StartFails, NothingUnmanaged, HandleMatches, OneCommandAtATime
<1> QED
  BY <1>2, <1>3, <1>4

\* What is spawned and not saved is lost.
LEMMA CrashInStartKeeps ==
  ASSUME Managed, CrashInStart
  PROVE  Managed'
<1>1. PICK new \in SUBSET {opened + 1} :
        /\ MayStart /\ Opened /\ Spawned(new) /\ lost' = lost \cup new
        /\ up' = FALSE /\ handle' = Nobody /\ continuous' = continuous
        /\ pid' = pid /\ marker' = marker /\ cut' = cut
  BY DEF CrashInStart
<1> USE MaxRunsAssumption DEF Managed, Run, Alive, Nobody
<1>2. /\ continuous' \in BOOLEAN /\ up' \in BOOLEAN
      /\ pid' \in 0..opened' /\ lost' \subseteq 1..opened'
  <2>1. continuous' \in BOOLEAN /\ up' \in BOOLEAN
    BY <1>1, Zenon DEF TypeOK
  <2>2. opened' = opened + 1 /\ opened \in Nat
    BY <1>1, OpeningSound DEF TypeOK
  <2>3. pid' \in 0..opened' /\ lost' \subseteq 1..opened'
    BY <1>1, <2>2 DEF TypeOK
  <2> QED
    BY <2>1, <2>3
<1>3. handle' \in [process : 0..opened', run : 0..opened', adopted : BOOLEAN]
  BY <1>1, OpeningSound, NobodyTyped
<1>4. TypeOK'
  <2> HIDE DEF Nobody
  <2> QED
    BY <1>1, <1>2, <1>3, OpeningSound DEF TypeOK
<1>5. ~Alive(pid)' /\ wrapper' \subseteq lost'
  <2>1. ~(pid \in new)
    BY <1>1 DEF TypeOK
  <2>2. wrapper' = (IF continuous THEN {} ELSE wrapper) \cup new /\ ~(pid \in wrapper)
    BY <1>1 DEF Spawned, MayStart
  <2> QED
    BY <1>1, <2>1, <2>2, OpeningSound
<1>6. Linked'
  BY <1>1, <1>5, OpeningSound DEF Linked
<1>7. NothingUnmanaged' /\ HandleMatches' /\ OneCommandAtATime' /\ CodeIsTrue'
  BY <1>1, OpeningSound DEF NothingUnmanaged, HandleMatches, OneCommandAtATime
<1> QED
  BY <1>4, <1>6, <1>7

\* The orphans that are killed were lost already.
LEMMA StartRefusedKeeps ==
  ASSUME Managed, StartRefused
  PROVE  Managed'
<1> USE MaxRunsAssumption DEF Managed, TypeOK, Linked, NothingUnmanaged, HandleMatches,
        OneCommandAtATime, CodeIsTrue, Run, Nobody, Alive
<1>1. TypeOK'
  BY DEF StartRefused, Spawned
<1>2. Linked'
  BY DEF StartRefused, Spawned
<1>3. NothingUnmanaged' /\ HandleMatches' /\ OneCommandAtATime'
  BY DEF StartRefused, Spawned
<1>4. CodeIsTrue'
  BY DEF StartRefused, Spawned
<1> QED
  BY <1>1, <1>2, <1>3, <1>4

\* The handle's run is the newest, unless the daemon adopted it.
LEMMA PollKeeps ==
  ASSUME Managed, Poll
  PROVE  Managed'
<1> USE MaxRunsAssumption DEF Managed, TypeOK, Linked, NothingUnmanaged, HandleMatches,
        OneCommandAtATime, CodeIsTrue, Run, Nobody, Alive
<1>1. TypeOK'
  BY DEF Poll, Finalize, ReturnCode, Unbeaten
<1>2. Linked'
  BY DEF Poll, Finalize, ReturnCode, Unbeaten
<1>3. NothingUnmanaged' /\ HandleMatches' /\ OneCommandAtATime'
  BY DEF Poll, Finalize, ReturnCode, Unbeaten
<1>4. CodeIsTrue'
  BY DEF Poll, Finalize, ReturnCode, Unbeaten
<1> QED
  BY <1>1, <1>2, <1>3, <1>4

\* The run stays open without its files, and its process stays under management.
LEMMA FinalizeRaisesKeeps ==
  ASSUME Managed, FinalizeRaises
  PROVE  Managed'
<1> USE MaxRunsAssumption DEF Managed, Run, Alive
<1>1. /\ handle.run \in Run
      /\ cut' = cut \cup {handle.run}
      /\ marker' = [r \in Run |-> IF r = handle.run THEN "none" ELSE marker[r]]
      /\ heart' = Unbeaten(heart, {handle.run})
      /\ UNCHANGED <<continuous, up, opened, recorded, pid, handle, wrapper, command, exit, lost>>
  BY DEF FinalizeRaises, Linked, HandleMatches, TypeOK
<1>2. TypeOK'
  BY <1>1 DEF TypeOK, Unbeaten
<1>3. Linked' /\ NothingUnmanaged' /\ HandleMatches' /\ OneCommandAtATime' /\ CodeIsTrue'
  BY <1>1 DEF Linked, NothingUnmanaged, HandleMatches, OneCommandAtATime, CodeIsTrue
<1> QED
  BY <1>2, <1>3

\* The wrapper ends with its command, and its run is closed.
LEMMA StopGentlyKeeps ==
  ASSUME Managed, StopGently
  PROVE  Managed'
<1> USE MaxRunsAssumption DEF Managed, Run, Alive
<1> DEFINE p == handle.process
<1>1. /\ p \in Run /\ p \in wrapper /\ p \in 1..opened
      /\ handle # Nobody /\ handle.run = p /\ pid \in {0, p}
  BY DEF StopGently, TypeOK, Linked, HandleMatches, Nobody
<1>2. exit[p] = "none" /\ recorded[p] \notin {"ok", "error"} /\ marker[p] = "none"
  BY <1>1 DEF Linked, CodeIsTrue, TypeOK
<1>3. /\ wrapper' = wrapper \ {p} /\ command' = command \ {p}
      /\ exit' = [exit EXCEPT ![p] = "error"]
      /\ handle' = Nobody /\ lost' = lost
      /\ UNCHANGED <<continuous, up, opened, pid, cut>>
  BY DEF StopGently, Finalize
<1>4. exit' \in [Run -> {"none", "ok", "error", "killed"}]
      /\ \A r \in Run : exit'[r] = IF r = p THEN "error" ELSE exit[r]
  BY <1>1, <1>3 DEF TypeOK
<1>5. /\ recorded' \in [Run -> {"none", "open", "ok", "error", "killed"}]
      /\ \A r \in Run : \/ recorded'[r] = recorded[r]
                        \/ r = opened /\ recorded'[r] = "killed"
                        \/ r = opened /\ recorded'[r] = "error" /\ p = opened
      /\ \A r \in Run : recorded'[r] = "none" <=> r > opened
  BY <1>1 DEF StopGently, Finalize, ReturnCode, TypeOK, Linked
<1>6. DOMAIN marker' = Run /\ \A r \in Run : marker'[r] = IF r = p THEN "none" ELSE marker[r]
  BY <1>1 DEF StopGently, Finalize
<1>7. heart' \in [Run -> {"none", "beating", "fresh", "stale"}]
  BY <1>1 DEF StopGently, Finalize, Unbeaten, TypeOK
<1> HIDE DEF p
<1>8. TypeOK'
  BY <1>1, <1>2, <1>3, <1>4, <1>5, <1>6, <1>7, NobodyTyped DEF TypeOK
<1>9. Linked'
  BY <1>1, <1>3, <1>4 DEF Linked, TypeOK, NothingUnmanaged, Nobody
<1>10. NothingUnmanaged' /\ HandleMatches' /\ OneCommandAtATime'
  BY <1>1, <1>3 DEF NothingUnmanaged, HandleMatches, OneCommandAtATime, TypeOK
<1>11. CodeIsTrue'
  BY <1>1, <1>2, <1>4, <1>5 DEF CodeIsTrue
<1> QED
  BY <1>8, <1>9, <1>10, <1>11

\* The wrapper is killed; its command is lost.
LEMMA StopForcedKeeps ==
  ASSUME Managed, StopForced
  PROVE  Managed'
<1> USE MaxRunsAssumption DEF Managed, Run, Alive
<1> DEFINE p == handle.process
<1>1. /\ p \in Run /\ p \in wrapper /\ p \in 1..opened
      /\ handle # Nobody /\ handle.run = p /\ pid \in {0, p}
  BY DEF StopForced, TypeOK, Linked, HandleMatches, Nobody
<1>2. exit[p] = "none" /\ recorded[p] \notin {"ok", "error"} /\ marker[p] = "none"
  BY <1>1 DEF Linked, CodeIsTrue, TypeOK
<1>3. /\ wrapper' = wrapper \ {p} /\ command' = command
      /\ exit' = [exit EXCEPT ![p] = "killed"]
      /\ handle' = Nobody /\ lost' = lost \cup {p}
      /\ UNCHANGED <<continuous, up, opened, pid, cut>>
  BY DEF StopForced, Finalize
<1>4. exit' \in [Run -> {"none", "ok", "error", "killed"}]
      /\ \A r \in Run : exit'[r] = IF r = p THEN "killed" ELSE exit[r]
  BY <1>1, <1>3 DEF TypeOK
<1>5. /\ recorded' \in [Run -> {"none", "open", "ok", "error", "killed"}]
      /\ \A r \in Run : \/ recorded'[r] = recorded[r]
                        \/ r = opened /\ recorded'[r] = "killed"
                        \/ r = opened /\ recorded'[r] = "killed" /\ p = opened
      /\ \A r \in Run : recorded'[r] = "none" <=> r > opened
  BY <1>1 DEF StopForced, Finalize, ReturnCode, TypeOK, Linked
<1>6. DOMAIN marker' = Run /\ \A r \in Run : marker'[r] = IF r = p THEN "none" ELSE marker[r]
  BY <1>1 DEF StopForced, Finalize
<1>7. heart' \in [Run -> {"none", "beating", "fresh", "stale"}]
  BY <1>1 DEF StopForced, Finalize, Unbeaten, TypeOK
<1> HIDE DEF p
<1>8. TypeOK'
  BY <1>1, <1>2, <1>3, <1>4, <1>5, <1>6, <1>7, NobodyTyped DEF TypeOK
<1>9. Linked'
  BY <1>1, <1>3, <1>4 DEF Linked, TypeOK, NothingUnmanaged, Nobody
<1>10. NothingUnmanaged' /\ HandleMatches' /\ OneCommandAtATime'
  BY <1>1, <1>3 DEF NothingUnmanaged, HandleMatches, OneCommandAtATime, TypeOK
<1>11. CodeIsTrue'
  BY <1>1, <1>2, <1>4, <1>5 DEF CodeIsTrue
<1> QED
  BY <1>8, <1>9, <1>10, <1>11

\* Without a handle, the row's pid is what ties the process to the job.
LEMMA CrashKeeps ==
  ASSUME Managed, Crash
  PROVE  Managed'
<1> USE MaxRunsAssumption DEF Managed, TypeOK, Linked, NothingUnmanaged, HandleMatches,
        OneCommandAtATime, CodeIsTrue, Run, Nobody, Alive
<1>1. TypeOK'
  <2>1. handle' \in [process : 0..opened', run : 0..opened', adopted : BOOLEAN]
    BY NobodyTyped DEF Crash
  <2> QED
    BY <2>1 DEF Crash
<1>2. Linked'
  BY DEF Crash
<1>3. NothingUnmanaged' /\ HandleMatches' /\ OneCommandAtATime'
  BY DEF Crash
<1>4. CodeIsTrue'
  BY DEF Crash
<1> QED
  BY <1>1, <1>2, <1>3, <1>4

\* The living process is that of the newest run, which is open.
LEMMA AdoptKeeps ==
  ASSUME Managed, Adopt
  PROVE  Managed'
<1> USE MaxRunsAssumption DEF Managed, TypeOK, Linked, NothingUnmanaged, HandleMatches,
        OneCommandAtATime, CodeIsTrue, Run, Nobody, Alive
<1>1. TypeOK'
  BY DEF Adopt, StillRunning, OpenRuns, RunOfOrphan
<1>2. Linked'
  BY DEF Adopt, StillRunning, OpenRuns, RunOfOrphan
<1>3. NothingUnmanaged' /\ HandleMatches' /\ OneCommandAtATime'
  BY DEF Adopt, StillRunning, OpenRuns, RunOfOrphan
<1>4. CodeIsTrue'
  BY DEF Adopt, StillRunning, OpenRuns, RunOfOrphan
<1> QED
  BY <1>1, <1>2, <1>3, <1>4

\* No process is alive that is not lost; a marker tells the code of its run.
LEMMA RecoverKeeps ==
  ASSUME Managed, Recover
  PROVE  Managed'
<1> USE MaxRunsAssumption DEF Managed, TypeOK, Linked, NothingUnmanaged, HandleMatches,
        OneCommandAtATime, CodeIsTrue, Run, Nobody, Alive
<1>1. TypeOK'
  BY DEF Recover, StillRunning, OpenRuns, Verdict, Unbeaten
<1>2. Linked'
  <2>1. ~Alive(pid)
    BY DEF Recover, StillRunning, OpenRuns
  <2>2. /\ pid' \in {0, pid} /\ up' /\ handle' = Nobody
        /\ UNCHANGED <<opened, wrapper, command, exit, lost>>
    BY DEF Recover
  <2> QED
    BY <2>1, <2>2
<1>3. NothingUnmanaged' /\ HandleMatches' /\ OneCommandAtATime'
  BY DEF Recover, StillRunning, OpenRuns, Verdict, Unbeaten
<1>4. CodeIsTrue'
  BY DEF Recover, StillRunning, OpenRuns, Verdict, Unbeaten
<1> QED
  BY <1>1, <1>2, <1>3, <1>4

\* The wrapper takes its command along and leaves a true marker.
LEMMA WrapperEndsKeeps ==
  ASSUME Managed, NEW r \in Run, WrapperEnds(r)
  PROVE  Managed'
<1> USE MaxRunsAssumption DEF Managed, TypeOK, Linked, NothingUnmanaged, HandleMatches,
        OneCommandAtATime, CodeIsTrue, Run, Nobody, Alive
<1>1. TypeOK'
  BY DEF WrapperEnds
<1>2. Linked'
  BY DEF WrapperEnds
<1>3. NothingUnmanaged' /\ HandleMatches' /\ OneCommandAtATime'
  BY DEF WrapperEnds
<1>4. CodeIsTrue'
  BY DEF WrapperEnds
<1> QED
  BY <1>1, <1>2, <1>3, <1>4

\* The run of a wrapper that is killed is lost, whatever its command does.
LEMMA WrapperKilledKeeps ==
  ASSUME Managed, NEW r \in Run, WrapperKilled(r)
  PROVE  Managed'
<1> USE MaxRunsAssumption DEF Managed, TypeOK, Linked, NothingUnmanaged, HandleMatches,
        OneCommandAtATime, CodeIsTrue, Run, Nobody, Alive
<1>1. /\ wrapper' = wrapper \ {r} /\ lost' = lost \cup {r}
      /\ command' \in {command, command \ {r}}
      /\ UNCHANGED <<continuous, up, opened, recorded, pid, handle, marker, cut>>
      /\ r \in wrapper /\ r \in 1..opened /\ exit[r] = "none" /\ marker[r] = "none"
  BY DEF WrapperKilled
<1>2. exit' \in [Run -> {"none", "ok", "error", "killed"}]
      /\ \A i \in Run : exit'[i] = IF i = r THEN "killed" ELSE exit[i]
  BY DEF WrapperKilled
<1>3. heart' \in [Run -> {"none", "beating", "fresh", "stale"}]
  BY DEF WrapperKilled
<1>4. TypeOK'
  BY <1>1, <1>2, <1>3
<1>5. Linked'
  BY <1>1, <1>2
<1>6. NothingUnmanaged' /\ HandleMatches' /\ OneCommandAtATime'
  BY DEF WrapperKilled
<1>7. CodeIsTrue'
  BY DEF WrapperKilled
<1> QED
  BY <1>4, <1>5, <1>6, <1>7

\* A command without its wrapper ends.
LEMMA CommandEndsKeeps ==
  ASSUME Managed, NEW r \in Run, CommandEnds(r)
  PROVE  Managed'
<1> USE MaxRunsAssumption DEF Managed, TypeOK, Linked, NothingUnmanaged, HandleMatches,
        OneCommandAtATime, CodeIsTrue, Run, Nobody, Alive
<1>1. TypeOK'
  BY DEF CommandEnds
<1>2. Linked'
  BY DEF CommandEnds
<1>3. NothingUnmanaged' /\ HandleMatches' /\ OneCommandAtATime'
  BY DEF CommandEnds
<1>4. CodeIsTrue'
  BY DEF CommandEnds
<1> QED
  BY <1>1, <1>2, <1>3, <1>4

\* A heartbeat nobody renews grows old.
LEMMA HeartbeatAgesKeeps ==
  ASSUME Managed, NEW r \in Run, HeartbeatAges(r)
  PROVE  Managed'
<1> USE MaxRunsAssumption DEF Managed, TypeOK, Linked, NothingUnmanaged, HandleMatches,
        OneCommandAtATime, CodeIsTrue, Run, Nobody, Alive
<1>1. TypeOK'
  BY DEF HeartbeatAges
<1>2. Linked'
  BY DEF HeartbeatAges
<1>3. NothingUnmanaged' /\ HandleMatches' /\ OneCommandAtATime'
  BY DEF HeartbeatAges
<1>4. CodeIsTrue'
  BY DEF HeartbeatAges
<1> QED
  BY <1>1, <1>2, <1>3, <1>4

\* Before the daemon has ever started there is nothing to manage.
LEMMA InitManaged == Init => Managed
<1> SUFFICES ASSUME Init PROVE Managed
  OBVIOUS
<1> USE MaxRunsAssumption DEF Init, Managed, Run, Nobody, Alive
<1>1. TypeOK
  <2>1. continuous \in BOOLEAN /\ up \in BOOLEAN
    BY Zenon
  <2>2. handle \in [process : 0..opened, run : 0..opened, adopted : BOOLEAN]
    BY NobodyTyped
  <2>3. /\ recorded \in [Run -> {"none", "open", "ok", "error", "killed"}]
        /\ exit \in [Run -> {"none", "ok", "error", "killed"}]
        /\ heart \in [Run -> {"none", "beating", "fresh", "stale"}]
    OBVIOUS
  <2>4. \A r \in Run : recorded[r] = "none" /\ r > opened /\ marker[r] = "none"
    OBVIOUS
  <2> HIDE DEF Nobody
  <2> QED
    BY <2>1, <2>2, <2>3, <2>4 DEF TypeOK
<1>2. Linked /\ NothingUnmanaged /\ HandleMatches /\ OneCommandAtATime /\ CodeIsTrue
  BY DEF Linked, NothingUnmanaged, HandleMatches, OneCommandAtATime, CodeIsTrue
<1> QED
  BY <1>1, <1>2

\* Every step keeps the invariant.
LEMMA NextKeeps == Managed /\ [Next]_vars => Managed'
<1> SUFFICES ASSUME Managed, [Next]_vars PROVE Managed'
  OBVIOUS
<1>1. CASE StartJob
  BY <1>1, StartJobKeeps
<1>2. CASE StartRefused
  BY <1>2, StartRefusedKeeps
<1>3. CASE StartFails
  BY <1>3, StartFailsKeeps
<1>4. CASE CrashInStart
  BY <1>4, CrashInStartKeeps
<1>5. CASE Poll
  BY <1>5, PollKeeps
<1>6. CASE StopGently
  BY <1>6, StopGentlyKeeps
<1>7. CASE StopForced
  BY <1>7, StopForcedKeeps
<1>8. CASE Crash
  BY <1>8, CrashKeeps
<1>9. CASE Adopt
  BY <1>9, AdoptKeeps
<1>10. CASE Recover
  BY <1>10, RecoverKeeps
<1>11. ASSUME NEW r \in Run, WrapperEnds(r) PROVE Managed'
  BY <1>11, WrapperEndsKeeps
<1>12. ASSUME NEW r \in Run, WrapperKilled(r) PROVE Managed'
  BY <1>12, WrapperKilledKeeps
<1>13. ASSUME NEW r \in Run, CommandEnds(r) PROVE Managed'
  BY <1>13, CommandEndsKeeps
<1>14. ASSUME NEW r \in Run, HeartbeatAges(r) PROVE Managed'
  BY <1>14, HeartbeatAgesKeeps
<1>16. CASE FinalizeRaises
  BY <1>16, FinalizeRaisesKeeps
<1>15. CASE UNCHANGED vars
  BY <1>15 DEF vars, Managed, TypeOK, Linked, NothingUnmanaged, HandleMatches,
              OneCommandAtATime, CodeIsTrue, Alive
<1> QED
  BY <1>1, <1>2, <1>3, <1>4, <1>5, <1>6, <1>7,
     <1>8, <1>9, <1>10, <1>11, <1>12, <1>13, <1>14, <1>15, <1>16 DEF Next, Restart

\* The invariant holds in every reachable state.
LEMMA ManagedAlways == Spec => []Managed
BY InitManaged, NextKeeps, PTL DEF Spec

\* Types, also of files and processes: a marker always tells how its wrapper ended.
THEOREM RecoveryTyped == Spec => []TypeOK
<1>1. Managed => TypeOK
  BY DEF Managed
<1> QED
  BY <1>1, ManagedAlways, PTL

\* _cleanup_zombie_runs finds every process whose pid was saved.
THEOREM NoProcessEscapes == Spec => []NothingUnmanaged
<1>1. Managed => NothingUnmanaged
  BY DEF Managed
<1> QED
  BY <1>1, ManagedAlways, PTL

\* _adopt_orphan_process guesses the run of the process right.
THEOREM RunIdIsRight == Spec => []HandleMatches
<1>1. Managed => HandleMatches
  BY DEF Managed
<1> QED
  BY <1>1, ManagedAlways, PTL

\* start_job starts no second command beside one that was not lost, and none at all
\* beside another of a continuous job.
THEOREM NoDoubleExecution == Spec => []OneCommandAtATime
<1>1. Managed => OneCommandAtATime
  BY DEF Managed
<1> QED
  BY <1>1, ManagedAlways, PTL

\* Whichever way a code other than that of a signal got into the database, it is that
\* of the run.
THEOREM RecordedCodesAreTrue == Spec => []CodeIsTrue
<1>1. Managed => CodeIsTrue
  BY DEF Managed
<1> QED
  BY <1>1, ManagedAlways, PTL

-----------------------------------------------------------------------------
\* A run that ended with a code and is still the newest and open has its marker, unless
\* its finalization was cut short.
MarkerKept ==
  \A r \in Run :
    r = opened /\ recorded[r] = "open" /\ exit[r] \in {"ok", "error"} =>
      marker[r] = exit[r] \/ r \in cut

\* Only closing the newest run, or a finalization cut short, removes its marker.
LEMMA NextKeepsMarker == Managed /\ MarkerKept /\ [Next]_vars => MarkerKept'
<1> SUFFICES ASSUME Managed, MarkerKept, [Next]_vars PROVE MarkerKept'
  OBVIOUS
<1> USE MaxRunsAssumption DEF Managed, MarkerKept, Run, Alive
<1>1. ASSUME Opened, NEW new, Spawned(new), marker' = marker PROVE MarkerKept'
  BY <1>1 DEF Opened, Spawned, TypeOK, Linked
<1>2. CASE StartJob \/ StartFails \/ CrashInStart
  BY <1>1, <1>2 DEF StartJob, StartFails, CrashInStart
<1>3. CASE StartRefused
  BY <1>3 DEF StartRefused, Spawned, TypeOK, Linked
<1>4. CASE Poll \/ StopGently \/ StopForced
  <2>1. opened' = opened /\ (recorded[opened] = "open" => recorded'[opened] # "open")
    BY <1>4 DEF Poll, StopGently, StopForced, Finalize, ReturnCode, TypeOK, Linked, Nobody
  <2> QED
    BY <1>4, <2>1 DEF Poll, StopGently, StopForced, Finalize, TypeOK
<1>5. CASE Crash \/ Adopt
  BY <1>5 DEF Crash, Adopt
<1>9. CASE FinalizeRaises
  BY <1>9 DEF FinalizeRaises
<1>6. CASE Recover
  BY <1>6 DEF Recover, OpenRuns, TypeOK
<1>7. ASSUME NEW r \in Run,
             WrapperEnds(r) \/ WrapperKilled(r) \/ CommandEnds(r) \/ HeartbeatAges(r)
      PROVE  MarkerKept'
  <2>1. CASE WrapperEnds(r)
    <3>1. PICK code \in {"ok", "error"} :
            exit' = [exit EXCEPT ![r] = code] /\ marker' = [marker EXCEPT ![r] = code]
      BY <2>1 DEF WrapperEnds
    <3>2. \A i \in Run : \/ exit'[i] = exit[i] /\ marker'[i] = marker[i]
                         \/ exit'[i] = code /\ (r \in DOMAIN marker => marker'[i] = code)
      BY <3>1 DEF TypeOK
    <3> QED
      BY <2>1, <3>1, <3>2 DEF WrapperEnds, TypeOK
  <2>2. CASE WrapperKilled(r)
    BY <2>2 DEF WrapperKilled, TypeOK
  <2>3. CASE CommandEnds(r) \/ HeartbeatAges(r)
    BY <2>3 DEF CommandEnds, HeartbeatAges
  <2> QED
    BY <1>7, <2>1, <2>2, <2>3
<1>8. CASE UNCHANGED vars
  BY <1>8 DEF vars
<1> QED
  BY <1>2, <1>3, <1>4, <1>5, <1>6, <1>7, <1>8, <1>9 DEF Next, Restart

\* _cleanup_zombie_runs and _finalize_job give up the code of the newest run only if
\* its process was adopted, or the daemon ended after a finalization of it had removed
\* its marker and before one had saved its code.
THEOREM CodesAreKept == Spec => CodeKeptUnlessAdopted
<1> DEFINE Kept ==
      \A r \in Run :
        ( /\ recorded[r] = "open" /\ recorded'[r] = "killed"
          /\ exit'[r] \in {"ok", "error"} /\ r = opened )
        => handle.adopted \/ (~up /\ r \in cut)
<1>1. Init => MarkerKept
  BY MaxRunsAssumption DEF Init, MarkerKept, Run
<1>2. Managed /\ MarkerKept /\ [Next]_vars => [Kept]_vars
  <2> SUFFICES ASSUME Managed, MarkerKept, Next, NEW r \in Run,
                      recorded[r] = "open", recorded'[r] = "killed",
                      exit'[r] \in {"ok", "error"}, r = opened
               PROVE  handle.adopted \/ (~up /\ r \in cut)
    OBVIOUS
  <2> USE MaxRunsAssumption DEF Managed, Run, Alive
  <2>1. CASE Poll \/ StopGently \/ StopForced
    BY <2>1 DEF Poll, StopGently, StopForced, Finalize, ReturnCode, TypeOK, Linked, Nobody
  <2>2. CASE Recover
    BY <2>2 DEF Recover, OpenRuns, Verdict, MarkerKept
  <2>3. CASE StartJob \/ StartFails \/ CrashInStart
    BY <2>3 DEF StartJob, StartFails, CrashInStart, Opened, TypeOK
  <2>4. recorded' = recorded => FALSE
    OBVIOUS
  <2> QED
    BY <2>1, <2>2, <2>3, <2>4
    DEF Next, Restart, StartRefused, FinalizeRaises, Crash, Adopt, WrapperEnds, WrapperKilled, CommandEnds,
        HeartbeatAges
<1>3. Spec => []MarkerKept
  BY <1>1, ManagedAlways, NextKeepsMarker, PTL DEF Spec
<1> QED
  BY <1>2, <1>3, ManagedAlways, PTL DEF Spec, CodeKeptUnlessAdopted
=============================================================================
