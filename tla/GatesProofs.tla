---------------------------- MODULE GatesProofs ----------------------------
(***************************************************************************)
(* What the gates let through, for any jobs, dependencies, payloads, keys, *)
(* windows and size of the cache, through any number of restarts.          *)
(***************************************************************************)
EXTENDS Gates, TLAPS

Codes == {"idle", "running", "ok", "failed", "lost", "gone"}

Typed ==
  /\ window \in [Dedup -> Nat]
  /\ proc \in [Job -> Codes] /\ run \in [Job -> {"none", "open", "ok", "failed"}]
  /\ age \in [Execution -> Nat] /\ keyAge \in [Key -> Nat]

\* What is banned is in the table, and in the memory of a daemon that lives.
BansHeld ==
  /\ banned \subseteq revRows \cap Job
  /\ up => banned \subseteq revoked

\* A job that has a process has an open run and is not complete.
RunningIsOpen ==
  \A d \in Job : proc[d] = "running" => run[d] = "open" /\ d \notin complete

\* The cache has what it must refuse: evictions and restarts drop only what is old.
Remembered ==
  /\ again = {}
  /\ up => /\ \A e \in Execution :
                (e[1] \in Dedup /\ age[e] < window[e[1]] /\ age[e] < Hour) => e \in cache
           /\ \A k \in Key : keyAge[k] < Hour => k \in keyCache

Guarded == Typed /\ BansHeld /\ RunningIsOpen /\ Remembered

\* Nothing is banned, recorded or running at first.
LEMMA GuardedInit == Init => Guarded
<1> SUFFICES ASSUME Init
             PROVE  Guarded
  OBVIOUS
<1>1. Hour \in Nat /\ Long \in Nat /\ Hour <= Long
  BY GatesAssumption
<1>2. Typed
  BY <1>1, GatesAssumption DEF Init, Typed, Codes
<1>3. BansHeld /\ RunningIsOpen
  BY DEF Init, BansHeld, RunningIsOpen
<1>4. Remembered
  <2>1. \A e \in Execution : ~(age[e] < Hour)
    BY <1>1 DEF Init
  <2>2. \A k \in Key : ~(keyAge[k] < Hour)
    BY <1>1 DEF Init
  <2> QED
    BY <2>1, <2>2 DEF Init, Remembered
<1> QED
  BY <1>2, <1>3, <1>4 DEF Guarded

-----------------------------------------------------------------------------
(* A start                                                                   *)

\* A start that leaves the types as they are, whatever its outcome.
LEMMA StartTyped ==
  ASSUME Typed, UNCHANGED window,
         NEW j \in Job, NEW p \in Param \cup {NoParam}, NEW k, NEW o, Start(j, p, k, o)
  PROVE  Typed'
<1>1. proc' \in [Job -> Codes] /\ run' \in [Job -> {"none", "open", "ok", "failed"}]
  BY DEF Typed, Start, Codes
<1>2. age' \in [Execution -> Nat] /\ keyAge' \in [Key -> Nat]
  BY DEF Typed, Start, dedupVars, Recorded, Execution
<1> QED
  BY <1>1, <1>2 DEF Typed

\* What has a process after a start has an open run, and is not complete.
LEMMA StartOpens ==
  ASSUME Typed, RunningIsOpen, NEW j \in Job, NEW p, NEW k, NEW o, Start(j, p, k, o)
  PROVE  RunningIsOpen'
  BY DEF Typed, RunningIsOpen, Start, StillComplete, dedupVars

\* A start that is let through was not recorded within its window, and is recorded now.
LEMMA StartRemembered ==
  ASSUME Typed, Remembered, up, up' = up, UNCHANGED window,
         NEW j \in Job, NEW p \in Param \cup {NoParam}, NEW k \in Key \cup {NoKey},
         NEW o \in Outcomes(j, p, k), Start(j, p, k, o)
  PROVE  Remembered'
<1>1. CASE o # "started"
  BY <1>1 DEF Start, Remembered, dedupVars
<1>2. CASE o = "started" /\ j \notin Dedup
  BY <1>2 DEF Start, Recorded, Repeated, Remembered
<1>3. CASE o = "started" /\ j \in Dedup
  <2>1. ~Duplicate(j, p, k)
    BY <1>3 DEF Outcomes
  <2>2. <<j, p>> \in Execution /\ <<j, p>>[1] = j
    BY DEF Execution
  <2>3. Repeated(j, p, k) = {}
    <3>1. ~(age[<<j, p>>] < window[j] /\ age[<<j, p>>] < Hour)
      BY <2>1, <2>2, <1>3 DEF Remembered, Duplicate
    <3>2. k \in Key => ~(keyAge[k] < Hour)
      BY <2>1, <1>3 DEF Remembered, Duplicate
    <3> QED
      BY <3>1, <3>2 DEF Repeated
  <2>4. again' = {}
    BY <1>3, <2>3 DEF Start, Remembered
  <2>5. ASSUME NEW e \in Execution, e[1] \in Dedup, age'[e] < window[e[1]], age'[e] < Hour
        PROVE  e \in cache'
    <3>2. e \in cache \cup {<<j, p>>}
      BY <1>3, <2>5, <2>2 DEF Start, Recorded, Typed, Remembered
    <3> QED
      BY <1>3, <2>5, <3>2 DEF Start, Recorded
  <2>6. ASSUME NEW i \in Key, keyAge'[i] < Hour
        PROVE  i \in keyCache'
    <3>1. i \in keyCache \cup ({k} \cap Key)
      BY <1>3, <2>6 DEF Start, Recorded, Typed, Remembered
    <3> QED
      BY <1>3, <2>6, <3>1 DEF Start, Recorded
  <2> QED
    BY <2>4, <2>5, <2>6 DEF Remembered
<1> QED
  BY <1>1, <1>2, <1>3

\* Every way through start_job keeps the invariant, let through or refused.
LEMMA StartGuarded ==
  ASSUME Guarded, up, up' = up, UNCHANGED <<window, revVars>>,
         NEW j \in Job, NEW p \in Param \cup {NoParam}, NEW k \in Key \cup {NoKey},
         NEW o \in Outcomes(j, p, k), Start(j, p, k, o)
  PROVE  Guarded'
<1>1. BansHeld'
  BY DEF Guarded, BansHeld, revVars
<1> QED
  BY <1>1, StartTyped, StartOpens, StartRemembered DEF Guarded

-----------------------------------------------------------------------------
(* The other steps                                                           *)

\* A handler that finalizes a run, when its process is not left running.
LEMMA EndedGuarded ==
  ASSUME Guarded, NEW j \in Job, NEW code \in {"ok", "failed"}, Ended(j, code),
         UNCHANGED <<window, up, dedupVars>>, BansHeld'
  PROVE  Guarded'
<1>1. Typed'
  BY DEF Guarded, Typed, Ended, Codes, dedupVars
<1>2. RunningIsOpen'
  BY DEF Guarded, Typed, RunningIsOpen, Ended
<1>3. Remembered'
  BY DEF Guarded, Remembered, dedupVars
<1> QED
  BY <1>1, <1>2, <1>3 DEF Guarded

\* A step that starts and ends nothing.
LEMMA StillGuarded ==
  ASSUME Guarded, UNCHANGED <<window, up, proc, run, complete, dedupVars>>, BansHeld'
  PROVE  Guarded'
  BY DEF Guarded, Typed, RunningIsOpen, Remembered, dedupVars

\* So do those who ask for starts: the API, a webhook and the ETA scheduler.
LEMMA RequestGuarded ==
  ASSUME Guarded, NEW j \in Job, StartRequested(j) \/ WebhookTrigger(j) \/ EtaTrigger(j)
  PROVE  Guarded'
<1>1. CASE StartRequested(j)
  <2>1. PICK o \in Outcomes(j, NoParam, NoKey) : Start(j, NoParam, NoKey, o)
    BY <1>1 DEF StartRequested
  <2> QED
    BY <1>1, <2>1, StartGuarded DEF StartRequested
<1>2. CASE WebhookTrigger(j)
  <2>1. PICK p \in Param \cup {NoParam}, k \in Key \cup {NoKey} : Triggered(j, p, k)
    BY <1>2 DEF WebhookTrigger
  <2>2. PICK o \in Outcomes(j, p, k) : Start(j, p, k, o)
    BY <2>1 DEF Triggered
  <2> QED
    BY <1>2, <2>2, StartGuarded DEF WebhookTrigger
<1>3. CASE EtaTrigger(j)
  <2>1. PICK o \in Outcomes(j, NoParam, NoKey) : Start(j, NoParam, NoKey, o)
    BY <1>3 DEF EtaTrigger, EtaStart
  <2> QED
    BY <1>3, <2>1, StartGuarded DEF EtaTrigger
<1> QED
  BY <1>1, <1>2, <1>3

\* Revoking, giving back and expiring change the table and the memory together.
LEMMA RevocationGuarded ==
  ASSUME Guarded, NEW j \in Job, RevokeJob(j) \/ UnrevokeJob(j) \/ Expires(j)
  PROVE  Guarded'
<1>1. BansHeld'
  BY DEF Guarded, BansHeld, RevokeJob, UnrevokeJob, Expires
<1>2. CASE RevokeJob(j)
  <2>1. CASE UNCHANGED <<proc, counted, complete, run, row>>
    BY <1>1, <1>2, <2>1, StillGuarded DEF RevokeJob
  <2>2. CASE Ended(j, "failed")
    BY <1>1, <1>2, <2>2, EndedGuarded DEF RevokeJob, Codes
  <2> QED
    BY <1>2, <2>1, <2>2 DEF RevokeJob
<1>3. CASE UnrevokeJob(j) \/ Expires(j)
  BY <1>1, <1>3, StillGuarded DEF UnrevokeJob, Expires
<1> QED
  BY <1>2, <1>3

\* A daemon that dies forgets all, and keeps the table.
LEMMA CrashGuarded ==
  ASSUME Guarded, Crash \/ \E j \in Job : CrashInStart(j)
  PROVE  Guarded'
<1>1. ~up' /\ complete' = {} /\ UNCHANGED <<window, revRows, banned, age, keyAge, again>>
  BY DEF Crash, CrashInStart, Forgotten
<1>2. BansHeld' /\ Remembered'
  BY <1>1 DEF Guarded, BansHeld, Remembered
<1>3. proc' \in [Job -> Codes] /\ run' \in [Job -> {"none", "open", "ok", "failed"}]
  BY DEF Guarded, Typed, Crash, CrashInStart, Codes
<1>4. RunningIsOpen'
  BY <1>1 DEF Guarded, Typed, RunningIsOpen, Crash, CrashInStart
<1> QED
  BY <1>1, <1>2, <1>3, <1>4 DEF Guarded, Typed

\* The next one reads back what it must refuse.
LEMMA BootGuarded ==
  ASSUME Guarded, Boot
  PROVE  Guarded'
<1>1. BansHeld'
  BY DEF Guarded, BansHeld, Boot, RevocationsLoaded
<1>2. Typed'
  BY DEF Guarded, Typed, Boot, Codes
<1>3. RunningIsOpen'
  BY DEF Guarded, Typed, RunningIsOpen, Boot
<1>4. Remembered'
  <2>1. ASSUME NEW e \in Execution, e[1] \in Dedup, age[e] < Hour
        PROVE  e \in cache'
    BY <2>1 DEF Boot, Recent
  <2> QED
    BY <2>1 DEF Guarded, Remembered, Boot, Recent
<1> QED
  BY <1>1, <1>2, <1>3, <1>4 DEF Guarded

\* Time passes equally for revocations, rows and the cache.
LEMMA TickGuarded ==
  ASSUME Guarded, Tick
  PROVE  Guarded'
<1>1. Hour \in Nat /\ Long \in Nat
  BY GatesAssumption
<1>2. Typed'
  BY <1>1 DEF Guarded, Typed, Tick, Later
<1>3. /\ \A e \in Execution : age'[e] < Hour => age[e] < Hour
      /\ \A e \in Execution : e[1] \in Dedup /\ age'[e] < window[e[1]] => age[e] < window[e[1]]
      /\ \A k \in Key : keyAge'[k] < Hour => keyAge[k] < Hour
  BY <1>1 DEF Guarded, Typed, Tick, Later
<1>4. Remembered'
  BY <1>3 DEF Guarded, Remembered, Tick
<1>5. BansHeld' /\ RunningIsOpen'
  BY DEF Guarded, BansHeld, RunningIsOpen, Tick, revVars
<1> QED
  BY <1>2, <1>4, <1>5 DEF Guarded

\* Every step keeps the invariant.
LEMMA GuardedStep == Guarded /\ [Next]_vars => Guarded'
<1> SUFFICES ASSUME Guarded, [Next]_vars
             PROVE  Guarded'
  OBVIOUS
<1>0. UNCHANGED <<up, revVars>> => BansHeld'
  BY DEF Guarded, BansHeld, revVars
<1>1. ASSUME NEW j \in Job, StartRequested(j) \/ WebhookTrigger(j) \/ EtaTrigger(j)
      PROVE  Guarded'
  BY <1>1, RequestGuarded
<1>2. ASSUME NEW j \in Job, RevokeJob(j) \/ UnrevokeJob(j) \/ Expires(j)
      PROVE  Guarded'
  BY <1>2, RevocationGuarded
<1>3. ASSUME NEW j \in Job, StopJob(j) \/ Finalize(j)
      PROVE  Guarded'
  <2>1. CASE StopJob(j)
    BY <1>0, <2>1, EndedGuarded DEF StopJob, Codes
  <2>2. CASE Finalize(j)
    <3>1. proc[j] \in {"ok", "failed"}
      BY <2>2 DEF Finalize, Exited
    <3> QED
      BY <1>0, <2>2, <3>1, EndedGuarded DEF Finalize
  <2> QED
    BY <1>3, <2>1, <2>2
<1>4. ASSUME NEW j \in Job,
             PauseJob(j) \/ ScheduleAt(j) \/ CancelSchedule(j) \/ TimeComes(j)
      PROVE  Guarded'
  BY <1>0, <1>4, StillGuarded DEF PauseJob, ScheduleAt, CancelSchedule, TimeComes
<1>5. ASSUME NEW j \in Job, Exit(j)
      PROVE  Guarded'
  <2>1. BansHeld' /\ Remembered'
    BY <1>0, <1>5 DEF Exit, Guarded, Remembered, dedupVars
  <2>2. Typed'
    BY <1>5 DEF Exit, Guarded, Typed, Codes, dedupVars
  <2>3. RunningIsOpen'
    BY <1>5 DEF Exit, Guarded, Typed, RunningIsOpen
  <2> QED
    BY <2>1, <2>2, <2>3 DEF Guarded
<1>6. CASE UNCHANGED vars
  BY <1>0, <1>6, StillGuarded DEF vars
<1> QED
  BY <1>1, <1>2, <1>3, <1>4, <1>5, <1>6, CrashGuarded, BootGuarded, TickGuarded DEF Next

-----------------------------------------------------------------------------
(* Theorems                                                                  *)

\* A process appears only by a start that the gates of a living daemon let through.
LEMMA OnlyThroughGates ==
  ASSUME Guarded, [Next]_vars, NEW i \in Job, Begins(i)
  PROVE  /\ up
         /\ \E p \in Param \cup {NoParam}, k \in Key \cup {NoKey} : "started" \in Outcomes(i, p, k)
<1>1. ASSUME NEW j \in Job, NEW p \in Param \cup {NoParam}, NEW k \in Key \cup {NoKey},
             NEW o \in Outcomes(j, p, k), Start(j, p, k, o), up
      PROVE  up /\ "started" \in Outcomes(i, p, k)
  <2>1. i = j /\ o = "started"
    BY <1>1 DEF Start, Begins, Guarded, Typed
  <2> QED
    BY <1>1, <2>1
<1>2. ASSUME NEW j \in Job, StartRequested(j)
      PROVE  up /\ "started" \in Outcomes(i, NoParam, NoKey)
  BY <1>1, <1>2 DEF StartRequested
<1>3. ASSUME NEW j \in Job, WebhookTrigger(j)
      PROVE  /\ up
             /\ \E p \in Param \cup {NoParam}, k \in Key \cup {NoKey} :
                  "started" \in Outcomes(i, p, k)
  <2>1. PICK p \in Param \cup {NoParam}, k \in Key \cup {NoKey} : Triggered(j, p, k)
    BY <1>3 DEF WebhookTrigger
  <2>2. PICK o \in Outcomes(j, p, k) : Start(j, p, k, o)
    BY <2>1 DEF Triggered
  <2> QED
    BY <1>1, <1>3, <2>2 DEF WebhookTrigger
<1>4. ASSUME NEW j \in Job, EtaTrigger(j)
      PROVE  up /\ "started" \in Outcomes(i, NoParam, NoKey)
  <2>1. PICK o \in Outcomes(j, NoParam, NoKey) : Start(j, NoParam, NoKey, o)
    BY <1>4 DEF EtaTrigger, EtaStart
  <2> QED
    BY <1>1, <1>4, <2>1 DEF EtaTrigger
<1>5. ASSUME NEW j \in Job, CrashInStart(j)
      PROVE  up /\ "started" \in Outcomes(i, NoParam, NoKey)
  <2>1. i = j
    BY <1>5 DEF CrashInStart, Begins, Guarded, Typed
  <2> QED
    BY <1>5, <2>1 DEF CrashInStart
<1>6. ASSUME NEW j \in Job, StopJob(j) \/ RevokeJob(j) \/ Finalize(j) \/ Exit(j)
      PROVE  FALSE
  BY <1>6 DEF StopJob, RevokeJob, Finalize, Exit, Ended, Begins, Guarded, Typed
<1>7. ASSUME NEW j \in Job,
             \/ PauseJob(j) \/ UnrevokeJob(j) \/ Expires(j)
             \/ ScheduleAt(j) \/ CancelSchedule(j) \/ TimeComes(j)
      PROVE  FALSE
  BY <1>7 DEF PauseJob, UnrevokeJob, Expires, ScheduleAt, CancelSchedule, TimeComes, Begins
<1>8. ~(Tick \/ Crash \/ Boot \/ UNCHANGED vars)
  BY DEF Tick, Crash, Boot, vars, Begins
<1> QED
  BY <1>2, <1>3, <1>4, <1>5, <1>6, <1>7, <1>8 DEF Next

\* Bans, execution records and the cache agree in every reachable state: revocation,
\* the deduplicator and the dependency checks rest on it.
THEOREM GuardedAlways == Spec => []Guarded
  BY GuardedInit, GuardedStep, PTL DEF Spec

\* Whoever asks for a revoked job, and however often the daemon dies: it does not start.
THEOREM RevocationHolds == Spec => RevokedNeverStarts
<1>1. ASSUME Guarded, [Next]_vars
      PROVE  [\A j \in banned : ~Begins(j)]_vars
  <2>1. ASSUME NEW j \in banned, Begins(j)
        PROVE  FALSE
    <3>1. j \in Job /\ up
      BY <1>1, <2>1, OnlyThroughGates DEF Guarded, BansHeld
    <3>2. j \in revoked
      BY <1>1, <3>1 DEF Guarded, BansHeld
    <3>3. \A p, k : "started" \notin Outcomes(j, p, k)
      BY <3>2 DEF Outcomes
    <3> QED
      BY <1>1, <2>1, <3>1, <3>3, OnlyThroughGates
  <2> QED
    BY <2>1
<1> QED
  BY <1>1, GuardedAlways, PTL DEF Spec, RevokedNeverStarts

\* Executions are refused for their window and keys for an hour, whatever the cache
\* evicts and the daemon forgets; of a window longer than an hour, for its first hour.
THEOREM ExecutionsAreNotRepeated == Spec => []NothingStartsAgain
<1>1. Guarded => NothingStartsAgain
  BY DEF Guarded, Remembered, NothingStartsAgain
<1> QED
  BY <1>1, GuardedAlways, PTL

\* A job never starts while a job that it has to run after (after_complete) has a
\* process that a daemon ever knew of.
THEOREM DependenciesAreOver == Spec => NeverBesideItsDependency
<1>1. ASSUME Guarded, [Next]_vars
      PROVE  [\A j \in Job : Begins(j) => \A d \in Needs[j] : proc[d] # "running"]_vars
  <2>1. ASSUME NEW j \in Job, Begins(j), NEW d \in Needs[j]
        PROVE  proc[d] # "running"
    <3>1. d \in Job
      BY GatesAssumption
    <3>2. DependenciesMet(j)
      <4>1. \A p, k : "started" \in Outcomes(j, p, k) => DependenciesMet(j)
        BY DEF Outcomes
      <4> QED
        BY <1>1, <2>1, <4>1, OnlyThroughGates
    <3>3. Completed(d)
      BY <3>2 DEF DependenciesMet
    <3> QED
      BY <1>1, <3>1, <3>3 DEF Guarded, RunningIsOpen, Completed
  <2> QED
    BY <2>1
<1> QED
  BY <1>1, GuardedAlways, PTL DEF Spec, NeverBesideItsDependency
=============================================================================
