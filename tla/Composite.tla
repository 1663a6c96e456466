----------------------------- MODULE Composite ------------------------------
(***************************************************************************)
(* Chains, groups and chords: core/composite.py, the API handlers that     *)
(* start them, and what they see of the jobs they run.                     *)
(*                                                                         *)
(* The executor starts a job with start_job, whose answer it ignores, and  *)
(* then reads the job's row every half second until the process id in it   *)
(* is dead.  Between the exit of a process and its finalization the row    *)
(* has no exit code yet; and a start that is refused or queued leaves the  *)
(* row of an earlier run.  Anybody else may start the same jobs meanwhile. *)
(*                                                                         *)
(* Runs of a job are numbered; a process id is the number of its run.      *)
(***************************************************************************)
EXTENDS Naturals, Sequences, FiniteSets

CONSTANTS
  Job,        \* configured jobs
  Composite,  \* composite runs that are requested
  Kind,       \* "chain", "group" or "chord"
  Members,    \* job_ids of each composite run
  Callback,   \* the callback of each chord
  MaxRuns,    \* bound: runs of each job
  MaxRequests \* bound: composites requested

ASSUME CompositeAssumption ==
  /\ Kind \in [Composite -> {"chain", "group", "chord"}]
  /\ Members \in [Composite -> Seq(Job)]
  /\ \A c \in Composite : Len(Members[c]) >= (IF Kind[c] = "chord" THEN 1 ELSE 2)
  /\ Callback \in [Composite -> Job]
  /\ MaxRuns \in [Job -> Nat]
  /\ MaxRequests \in Nat

VARIABLES
  known,     \* jobs in the configuration
  runs,      \* how often each job was launched
  proc,      \* what became of the newest process, as its parent sees it
  code,      \* exit codes by run, "open" until the process ends
  row,       \* JobState: pid and last_exit_code; NoRow before the first start
  status,    \* CompositeRun.status, "raised" if an exception ended the handler
  part,      \* state of each call of _run_and_wait
  result,    \* what it returned
  launched   \* history: the run that its start_job launched, 0 if none

jobVars == <<known, runs, proc, code, row>>
compositeVars == <<status, part, result, launched>>
vars == <<jobVars, compositeVars>>

NoRow == [pid |-> 0, code |-> "none", saved |-> FALSE]
Row(pid, exit) == [pid |-> pid, code |-> exit, saved |-> TRUE]

\* The calls of _run_and_wait a composite makes: one for each member, and one for
\* the callback of a chord.
Parts(c) ==
  1..(Len(Members[c]) + (IF Kind[c] = "chord" THEN 1 ELSE 0))
MemberParts(c) == 1..Len(Members[c])
JobAt(c, i) == IF i <= Len(Members[c]) THEN Members[c][i] ELSE Callback[c]

TypeOK ==
  /\ known \subseteq Job
  /\ \A j \in Job : runs[j] \in 0..MaxRuns[j]
  /\ proc \in [Job -> {"none", "alive", "zombie", "reaped"}]
  /\ \A j \in Job : code[j] \in [1..MaxRuns[j] -> {"open", "ok", "bad"}]
  /\ row \in [Job -> [pid : Nat, code : {"none", "ok", "bad"}, saved : BOOLEAN]]
  /\ status \in [Composite -> {"idle", "running", "completed", "failed", "raised"}]
  /\ \A c \in Composite :
       /\ part[c] \in [Parts(c) -> {"todo", "waiting", "done"}]
       /\ result[c] \in [Parts(c) -> {"none", "ok", "bad", "missing"}]
       /\ launched[c] \in [Parts(c) -> Nat]

Init ==
  /\ known = Job
  /\ runs = [j \in Job |-> 0]
  /\ proc = [j \in Job |-> "none"]
  /\ code = [j \in Job |-> [n \in 1..MaxRuns[j] |-> "open"]]
  /\ row = [j \in Job |-> NoRow]
  /\ status = [c \in Composite |-> "idle"]
  /\ part = [c \in Composite |-> [i \in Parts(c) |-> "todo"]]
  /\ result = [c \in Composite |-> [i \in Parts(c) |-> "none"]]
  /\ launched = [c \in Composite |-> [i \in Parts(c) |-> 0]]

-----------------------------------------------------------------------------
(* start_job, as far as a caller can tell its outcomes apart.  Asking the    *)
(* handle whether it runs reaps a process that has exited.                   *)

\* An unknown or disabled job is skipped; a revocation, a duplicate, a dependency
\* or a lock refuses it; an excess start may raise (queue_job).
LaunchOutcomes(j) ==
  {"skipped"} \cup
  CASE j \notin known                   -> {}
    [] proc[j] = "alive"                -> {"refused"}
    [] proc[j] \in {"zombie", "reaped"} -> {"refused", "raised"}
    [] runs[j] = MaxRuns[j]             -> {"refused"}
    [] OTHER -> {"refused", "queued", "failed", "launched"}

\* Fault: the exit code of the last run is carried over like the retry counters.
LaunchedRowKeepsCode(j) == Row(runs[j] + 1, row[j].code)

\* Fault: the row is saved before the process exists.
LaunchedRowWithoutPid(j) == Row(0, "none")

\* The row a launch saves is a new one, without the exit code of the last run.
LaunchedRow(j) == Row(runs[j] + 1, "none")

StartJob(j, outcome) ==
  /\ outcome \in LaunchOutcomes(j)
  /\ proc' = [proc EXCEPT ![j] =
       IF outcome = "launched" THEN "alive"
       ELSE IF outcome # "skipped" /\ @ = "zombie" THEN "reaped" ELSE @]
  /\ runs' = IF outcome = "launched" THEN [runs EXCEPT ![j] = @ + 1] ELSE runs
  /\ row' = CASE outcome = "launched" -> [row EXCEPT ![j] = LaunchedRow(j)]
              [] outcome = "failed"   -> [row EXCEPT ![j] = Row(0, "none")]
              [] outcome = "queued"   -> [row EXCEPT ![j].saved = TRUE]
              [] OTHER                -> row
  /\ UNCHANGED <<known, code>>

-----------------------------------------------------------------------------
(* The executor                                                              *)

\* Fault: no process id is taken for one that is being started.
PidAliveOrUnknown(j) ==
  row[j].pid = 0 \/ (row[j].pid = runs[j] /\ proc[j] \in {"alive", "zombie"})

\* check_pid: a process that exited but was not reaped still has its process id.
PidAlive(j) ==
  /\ row[j].pid # 0
  /\ row[j].pid = runs[j]
  /\ proc[j] \in {"alive", "zombie"}

WaitResult(j) ==
  IF row[j].saved /\ row[j].code # "none" THEN row[j].code ELSE "missing"

\* _run_and_wait up to its first await.  An unknown job is answered at once; an
\* exception of start_job leaves the call.  part', result', launched' of c and
\* the job's state are set.
BeginPart(c, i, outcome, parts, results) ==
  LET j == JobAt(c, i) IN
    IF j \notin known
    THEN /\ outcome = "skipped"
         /\ part' = [part EXCEPT ![c] = [parts EXCEPT ![i] = "done"]]
         /\ result' = [result EXCEPT ![c] = [results EXCEPT ![i] = "missing"]]
         /\ UNCHANGED <<launched, jobVars>>
    ELSE /\ StartJob(j, outcome)
         /\ part' = [part EXCEPT ![c] =
              [parts EXCEPT ![i] = IF outcome = "raised" THEN "done" ELSE "waiting"]]
         /\ result' = [result EXCEPT ![c] =
              [results EXCEPT ![i] = IF outcome = "raised" THEN "missing" ELSE @]]
         /\ launched' = [launched EXCEPT ![c][i] =
              IF outcome = "launched" THEN runs[j] + 1 ELSE 0]

\* What an exception or an unknown job makes of the composite: a chain or a
\* callback has no gather around it that would catch the exception.
StatusAfterBegin(c, i, outcome) ==
  IF Kind[c] = "group" \/ (Kind[c] = "chord" /\ i \in MemberParts(c)) THEN "running"
  ELSE CASE JobAt(c, i) \notin known -> "failed"
         [] outcome = "raised"       -> "raised"
         [] OTHER                    -> "running"

\* The handlers check that all jobs exist.  A chain starts its first job at once.
Begin(c) ==
  /\ status[c] = "idle"
  /\ Cardinality({d \in Composite : status[d] # "idle"}) < MaxRequests
  /\ \A i \in Parts(c) : JobAt(c, i) \in known
  /\ IF Kind[c] = "chain"
     THEN \E o \in LaunchOutcomes(JobAt(c, 1)) :
            /\ BeginPart(c, 1, o, part[c], result[c])
            /\ status' = [status EXCEPT ![c] = StatusAfterBegin(c, 1, o)]
     ELSE /\ status' = [status EXCEPT ![c] = "running"]
          /\ UNCHANGED <<part, result, launched, jobVars>>

\* gather runs the members as tasks of their own.
BeginMember(c, i) ==
  /\ status[c] = "running" /\ Kind[c] # "chain"
  /\ i \in MemberParts(c) /\ part[c][i] = "todo"
  /\ \E o \in LaunchOutcomes(JobAt(c, i)) : BeginPart(c, i, o, part[c], result[c])
  /\ UNCHANGED status

\* gather has returned when every member has.
Gathered(c) == \A i \in MemberParts(c) : part[c][i] = "done"

AllSucceeded(c) == \A i \in MemberParts(c) : result[c][i] = "ok"

EndGroup(c) ==
  /\ status[c] = "running" /\ Kind[c] = "group" /\ Gathered(c)
  /\ status' = [status EXCEPT ![c] = IF AllSucceeded(c) THEN "completed" ELSE "failed"]
  /\ UNCHANGED <<part, result, launched, jobVars>>

\* The callback of a chord runs whatever the members returned.
BeginCallback(c) ==
  LET i == Len(Members[c]) + 1 IN
    /\ status[c] = "running" /\ Kind[c] = "chord" /\ Gathered(c)
    /\ part[c][i] = "todo"
    /\ \E o \in LaunchOutcomes(JobAt(c, i)) :
         /\ BeginPart(c, i, o, part[c], result[c])
         /\ status' = [status EXCEPT ![c] = StatusAfterBegin(c, i, o)]

\* A poll of the row that finds the process gone.  In a chain the next job is
\* started in the same step, or the chain ends.
Poll(c, i) ==
  LET j == JobAt(c, i)
      r == WaitResult(j)
      parts == [part[c] EXCEPT ![i] = "done"]
      results == [result[c] EXCEPT ![i] = r]
      next == Kind[c] = "chain" /\ r = "ok" /\ i < Len(Members[c])
      ended ==
        CASE Kind[c] = "chain" -> IF r # "ok" THEN "failed" ELSE "completed"
          [] Kind[c] = "chord" /\ i \notin MemberParts(c) ->
               IF AllSucceeded(c) /\ r = "ok" THEN "completed" ELSE "failed"
          [] OTHER -> status[c]
  IN
    /\ part[c][i] = "waiting"
    /\ ~PidAlive(j)
    /\ IF next
       THEN \E o \in LaunchOutcomes(JobAt(c, i + 1)) :
              /\ BeginPart(c, i + 1, o, parts, results)
              /\ status' = [status EXCEPT ![c] = StatusAfterBegin(c, i + 1, o)]
       ELSE /\ part' = [part EXCEPT ![c] = parts]
            /\ result' = [result EXCEPT ![c] = results]
            /\ status' = [status EXCEPT ![c] = ended]
            /\ UNCHANGED <<launched, jobVars>>

-----------------------------------------------------------------------------
(* The rest of the daemon and the processes                                  *)

\* Any other start of the job: by the operator, the scheduler, a retry, a queue.
OtherStart(j) ==
  /\ \E o \in LaunchOutcomes(j) : StartJob(j, o)
  /\ UNCHANGED compositeVars

Exit(j) ==
  /\ proc[j] = "alive"
  /\ \E x \in {"ok", "bad"} : code' = [code EXCEPT ![j][runs[j]] = x]
  /\ proc' = [proc EXCEPT ![j] = "zombie"]
  /\ UNCHANGED <<known, runs, row, compositeVars>>

\* _finalize_job, as far as the row is concerned: the exit code is saved, the
\* process id stays.
Finalize(j) ==
  /\ proc[j] \in {"zombie", "reaped"}
  /\ proc' = [proc EXCEPT ![j] = "none"]
  /\ row' = [row EXCEPT ![j].code = code[j][runs[j]], ![j].saved = TRUE]
  /\ UNCHANGED <<known, runs, code, compositeVars>>

\* is_job_running asks the handle, which reaps the process.
AskRunning(j) ==
  /\ proc[j] = "zombie"
  /\ proc' = [proc EXCEPT ![j] = "reaped"]
  /\ UNCHANGED <<known, runs, code, row, compositeVars>>

\* delete_job finalizes what runs first; the row of the job stays.
Delete(j) ==
  /\ j \in known /\ proc[j] = "none"
  /\ known' = known \ {j}
  /\ UNCHANGED <<runs, proc, code, row, compositeVars>>

Next ==
  \/ \E c \in Composite :
       \/ Begin(c) \/ EndGroup(c) \/ BeginCallback(c)
       \/ \E i \in Parts(c) : BeginMember(c, i) \/ Poll(c, i)
  \/ \E j \in Job :
       \/ OtherStart(j) \/ Exit(j) \/ Finalize(j) \/ AskRunning(j)
       \/ Delete(j)

Spec == Init /\ [][Next]_vars

\* The event loop polls; the processes are assumed to end.
FairSpec ==
  /\ Spec
  /\ \A c \in Composite :
       /\ WF_vars(EndGroup(c)) /\ WF_vars(BeginCallback(c))
       /\ \A i \in Parts(c) : WF_vars(BeginMember(c, i)) /\ WF_vars(Poll(c, i))
  /\ \A j \in Job : WF_vars(Exit(j)) /\ WF_vars(Finalize(j))

-----------------------------------------------------------------------------
(* Properties                                                                *)

\* Run n of job j is a living process.
Runs(j, n) == n # 0 /\ runs[j] = n /\ proc[j] = "alive"

\* A composite waits for every process it started: none of its own runs is alive
\* unless _run_and_wait is waiting for it.  So the steps of a chain never overlap,
\* and a composite that has ended has left nothing running.
OwnRunsAwaited ==
  \A c \in Composite : \A i \in Parts(c) :
    Runs(JobAt(c, i), launched[c][i]) => part[c][i] = "waiting"

\* If the start was accepted, success is not the success of an earlier run: the
\* run that was launched, or a later one of the same job, has ended with 0.
NoStaleSuccess ==
  \A c \in Composite : \A i \in Parts(c) :
    (result[c][i] = "ok" /\ launched[c][i] # 0) =>
      \E n \in launched[c][i]..runs[JobAt(c, i)] : code[JobAt(c, i)][n] = "ok"

\* Every composite ends, also when jobs are refused, queued, disabled or deleted.
EveryCompositeEnds ==
  \A c \in Composite : status[c] = "running" ~> status[c] # "running"
=============================================================================
