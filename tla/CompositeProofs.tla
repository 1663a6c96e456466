--------------------------- MODULE CompositeProofs --------------------------
(***************************************************************************)
(* Composites wait for what they start and do not take the success of an   *)
(* earlier run for theirs, for every set of jobs and composites of any     *)
(* kind and length, whoever else starts the jobs meanwhile.                *)
(***************************************************************************)
EXTENDS Composite, Integers, TLAPS

JobsTyped ==
  /\ runs \in [Job -> Nat]
  /\ proc \in [Job -> {"none", "alive", "zombie", "reaped"}]
  /\ row \in [Job -> [pid : Nat, code : {"none", "ok", "bad"}, saved : BOOLEAN]]
  /\ DOMAIN code = Job
  /\ \A j \in Job : code[j] \in [1..MaxRuns[j] -> {"open", "ok", "bad"}]

\* The row of a job with a process has its id and no exit code yet; a row that
\* tells a success tells that of the newest run; runs have an exit code when they
\* have ended.
RowsFollowRuns ==
  \A j \in Job :
    /\ runs[j] <= MaxRuns[j]
    /\ proc[j] # "none" =>
         runs[j] # 0 /\ row[j].pid = runs[j] /\ row[j].code = "none"
    /\ row[j].code = "ok" => runs[j] # 0 /\ code[j][runs[j]] = "ok"
    /\ proc[j] \in {"zombie", "reaped"} => code[j][runs[j]] # "open"
    /\ \A n \in 1..MaxRuns[j] :
         n > runs[j] \/ (n = runs[j] /\ proc[j] = "alive") => code[j][n] = "open"

JobsOK == JobsTyped /\ RowsFollowRuns

PartsTyped ==
  /\ DOMAIN part = Composite /\ DOMAIN result = Composite /\ DOMAIN launched = Composite
  /\ \A c \in Composite :
       /\ part[c] \in [Parts(c) -> {"todo", "waiting", "done"}]
       /\ result[c] \in [Parts(c) -> {"none", "ok", "bad", "missing"}]
       /\ launched[c] \in [Parts(c) -> Nat]
  /\ status \in [Composite -> {"idle", "running", "completed", "failed", "raised"}]

\* A part in state p with result r that has launched run l of job j: before it
\* begins it has launched nothing, before it is done it has no result; what it
\* launched runs only while it waits, and what it returned is not stale.
PartFine(p, r, l, j) ==
  /\ l <= runs[j]
  /\ p # "done" => r = "none"
  /\ p = "todo" => l = 0
  /\ Runs(j, l) => p = "waiting"
  /\ r = "ok" /\ l # 0 => \E n \in l..runs[j] : code[j][n] = "ok"

PartOK(c, i) == PartFine(part[c][i], result[c][i], launched[c][i], JobAt(c, i))

\* No part begins before its composite is requested, and those of a chain begin one
\* after the other.
InOrder(c) ==
  \A i \in Parts(c) :
    /\ status[c] = "idle" => part[c][i] = "todo"
    /\ Kind[c] = "chain" /\ part[c][i] # "todo" =>
         \A k \in Parts(c) : k < i => part[c][k] = "done"

PartsOK ==
  /\ PartsTyped
  /\ \A c \in Composite : InOrder(c) /\ \A i \in Parts(c) : PartOK(c, i)

Inv == JobsOK /\ PartsOK

-----------------------------------------------------------------------------
(* The jobs                                                                  *)

\* Runs are numbered upwards, a run that is over does not come back to life, and a
\* success stays one.
JobsGoOn ==
  \A j \in Job :
    /\ runs'[j] >= runs[j]
    /\ runs'[j] = runs[j] /\ proc'[j] = "alive" => proc[j] = "alive"
    /\ \A n \in 1..runs[j] : code[j][n] = "ok" => code'[j][n] = "ok"

\* Members and callbacks are jobs.
LEMMA JobOfPart ==
  ASSUME NEW c \in Composite, NEW i \in Parts(c)
  PROVE  JobAt(c, i) \in Job
BY CompositeAssumption DEF Parts, JobAt

\* start_job, whatever comes of it.
LEMMA StartKeeps ==
  ASSUME JobsOK, NEW j \in Job, NEW o, StartJob(j, o)
  PROVE  /\ JobsOK' /\ JobsGoOn
         /\ o = "launched" => runs'[j] = runs[j] + 1
<1> USE CompositeAssumption
<1>1. JobsTyped /\ RowsFollowRuns
  BY DEF JobsOK
<1>2. code' = code
  BY DEF StartJob
<1>3. CASE o = "launched"
  <2>1. /\ proc[j] = "none" /\ runs[j] < MaxRuns[j]
    BY <1>1, <1>3 DEF StartJob, LaunchOutcomes, JobsTyped, RowsFollowRuns
  <2>2. /\ proc' = [proc EXCEPT ![j] = "alive"]
        /\ runs' = [runs EXCEPT ![j] = @ + 1]
        /\ row' = [row EXCEPT ![j] = [pid |-> runs[j] + 1, code |-> "none", saved |-> TRUE]]
    BY <1>3 DEF StartJob, LaunchedRow, Row
  <2>3. JobsTyped'
    BY <1>1, <1>2, <2>2 DEF JobsTyped
  <2>4. RowsFollowRuns'
    BY <1>1, <1>2, <2>1, <2>2 DEF JobsTyped, RowsFollowRuns
  <2> QED
    BY <1>1, <1>2, <2>1, <2>2, <2>3, <2>4 DEF JobsOK, JobsGoOn, JobsTyped
<1>4. CASE o # "launched"
  <2>1. runs' = runs
    BY <1>4 DEF StartJob
  <2>2. /\ proc' \in {proc, [proc EXCEPT ![j] = "reaped"]}
        /\ proc' # proc => proc[j] = "zombie"
    BY <1>1, <1>4 DEF StartJob, JobsTyped
  <2>3. \/ row' = row
        \/ row' = [row EXCEPT ![j].saved = TRUE]
        \/ row' = [row EXCEPT ![j] = [pid |-> 0, code |-> "none", saved |-> TRUE]] /\ o = "failed"
    BY <1>4 DEF StartJob, Row
  <2>4. o = "failed" => proc[j] = "none" /\ proc' = proc
    BY <1>1 DEF StartJob, LaunchOutcomes, JobsTyped
  <2>5. JobsTyped'
    <3>1. row' \in [Job -> [pid : Nat, code : {"none", "ok", "bad"}, saved : BOOLEAN]]
      <4> DEFINE Rows == [pid : Nat, code : {"none", "ok", "bad"}, saved : BOOLEAN]
      <4>1. [row[j] EXCEPT !.saved = TRUE] \in Rows
        <5>1. row[j] \in Rows
          BY <1>1 DEF JobsTyped
        <5> QED
          BY <5>1
      <4>5. [pid |-> 0, code |-> "none", saved |-> TRUE] \in Rows
        OBVIOUS
      <4>2. row' = row \/ \E new \in Rows : row' = [row EXCEPT ![j] = new]
        BY <2>3, <4>1, <4>5
      <4> HIDE DEF Rows
      <4>3. row \in [Job -> Rows]
        BY <1>1 DEF JobsTyped, Rows
      <4>4. row' \in [Job -> Rows]
        BY <4>2, <4>3
      <4> QED
        BY <4>4 DEF Rows
    <3>2. proc' \in [Job -> {"none", "alive", "zombie", "reaped"}]
      BY <1>1, <2>2 DEF JobsTyped
    <3> QED
      BY <1>1, <1>2, <2>1, <3>1, <3>2 DEF JobsTyped
  <2>6. RowsFollowRuns'
    BY <1>1, <1>2, <2>1, <2>2, <2>3, <2>4 DEF JobsTyped, RowsFollowRuns
  <2> QED
    BY <1>1, <1>2, <1>4, <2>1, <2>2, <2>5, <2>6 DEF JobsOK, JobsGoOn, JobsTyped
<1> QED
  BY <1>3, <1>4

\* The processes end and are finalized, whoever notices.
LEMMA JobKeeps ==
  ASSUME JobsOK, NEW j \in Job, Exit(j) \/ Finalize(j) \/ AskRunning(j) \/ Delete(j)
  PROVE  JobsOK' /\ JobsGoOn
<1> USE CompositeAssumption
<1>1. JobsTyped /\ RowsFollowRuns
  BY DEF JobsOK
<1>2. CASE Exit(j)
  <2>1. PICK x \in {"ok", "bad"} : code' = [code EXCEPT ![j][runs[j]] = x]
    BY <1>2 DEF Exit
  <2>2. /\ proc[j] = "alive" /\ proc' = [proc EXCEPT ![j] = "zombie"]
        /\ UNCHANGED <<runs, row>>
        /\ runs[j] \in 1..MaxRuns[j]
    BY <1>1, <1>2 DEF Exit, JobsTyped, RowsFollowRuns
  <2>3. JobsTyped'
    <3>1. \A k \in Job : code'[k] \in [1..MaxRuns[k] -> {"open", "ok", "bad"}]
      BY <1>1, <2>1 DEF JobsTyped
    <3>2. proc' \in [Job -> {"none", "alive", "zombie", "reaped"}]
      BY <1>1, <2>2 DEF JobsTyped
    <3>3. DOMAIN code' = Job
      BY <1>1, <2>1 DEF JobsTyped
    <3>4. runs' = runs /\ row' = row
      BY <2>2
    <3> QED
      BY <1>1, <3>1, <3>2, <3>3, <3>4 DEF JobsTyped
  <2>4. RowsFollowRuns'
    BY <1>1, <2>1, <2>2 DEF JobsTyped, RowsFollowRuns
  <2>5. JobsGoOn
    BY <1>1, <2>1, <2>2 DEF JobsGoOn, JobsTyped, RowsFollowRuns
  <2> QED
    BY <2>3, <2>4, <2>5 DEF JobsOK
<1>3. CASE Finalize(j)
  <2>1. /\ proc[j] \in {"zombie", "reaped"} /\ proc' = [proc EXCEPT ![j] = "none"]
        /\ row' = [row EXCEPT ![j].code = code[j][runs[j]], ![j].saved = TRUE]
        /\ UNCHANGED <<runs, code>>
        /\ runs[j] \in 1..MaxRuns[j]
        /\ code[j][runs[j]] \in {"ok", "bad"}
    BY <1>1, <1>3 DEF Finalize, JobsTyped, RowsFollowRuns
  <2>2. JobsTyped'
    <3> DEFINE Rows == [pid : Nat, code : {"none", "ok", "bad"}, saved : BOOLEAN]
               new == [row[j] EXCEPT !.code = code[j][runs[j]], !.saved = TRUE]
    <3>1. new \in Rows
      <4>1. row[j] \in Rows
        BY <1>1 DEF JobsTyped
      <4> QED
        BY <2>1, <4>1
    <3>2. row' = [row EXCEPT ![j] = new]
      BY <2>1
    <3> HIDE DEF new, Rows
    <3>3. row \in [Job -> Rows]
      BY <1>1 DEF JobsTyped, Rows
    <3>4. row' \in [Job -> Rows]
      BY <3>1, <3>2, <3>3
    <3>5. proc' \in [Job -> {"none", "alive", "zombie", "reaped"}]
      BY <1>1, <2>1 DEF JobsTyped
    <3> QED
      BY <1>1, <2>1, <3>4, <3>5 DEF JobsTyped, Rows
  <2>3. RowsFollowRuns'
    BY <1>1, <2>1 DEF JobsTyped, RowsFollowRuns
  <2> QED
    BY <1>1, <2>1, <2>2, <2>3 DEF JobsOK, JobsGoOn, JobsTyped
<1>4. CASE AskRunning(j)
  <2>1. /\ proc[j] = "zombie" /\ proc' = [proc EXCEPT ![j] = "reaped"]
        /\ UNCHANGED <<runs, code, row>>
    BY <1>4 DEF AskRunning
  <2>2. RowsFollowRuns'
    BY <1>1, <2>1 DEF JobsTyped, RowsFollowRuns
  <2> QED
    BY <1>1, <2>1, <2>2 DEF JobsOK, JobsGoOn, JobsTyped
<1>5. CASE Delete(j)
  BY <1>1, <1>5 DEF Delete, JobsOK, JobsGoOn, JobsTyped, RowsFollowRuns
<1> QED
  BY <1>2, <1>3, <1>4, <1>5

-----------------------------------------------------------------------------
(* The parts                                                                 *)

\* A part that is as it should be stays so while the jobs go on.
LEMMA StaysFine ==
  ASSUME JobsOK, JobsOK', JobsGoOn, NEW j \in Job,
         NEW p, NEW r, NEW l \in Nat, PartFine(p, r, l, j)
  PROVE  /\ l <= runs'[j]
         /\ runs'[j] = l /\ l # 0 /\ proc'[j] = "alive" => p = "waiting"
         /\ r = "ok" /\ l # 0 => \E n \in l..runs'[j] : code'[j][n] = "ok"
<1>1. runs[j] \in Nat /\ runs'[j] \in Nat /\ runs'[j] >= runs[j] /\ l <= runs[j]
  BY DEF JobsOK, JobsTyped, JobsGoOn, PartFine
<1>2. ASSUME runs'[j] = l, l # 0, proc'[j] = "alive"
      PROVE  p = "waiting"
  <2>1. runs[j] = l /\ proc[j] = "alive"
    BY <1>1, <1>2 DEF JobsGoOn
  <2> QED
    BY <1>2, <2>1 DEF PartFine, Runs
<1>3. ASSUME r = "ok", l # 0
      PROVE  \E n \in l..runs'[j] : code'[j][n] = "ok"
  <2>1. PICK n \in l..runs[j] : code[j][n] = "ok"
    BY <1>3 DEF PartFine
  <2>2. n \in 1..runs[j] /\ n \in l..runs'[j]
    BY <1>1, <1>3
  <2> QED
    BY <2>1, <2>2 DEF JobsGoOn
<1> QED
  BY <1>1, <1>2, <1>3

\* What holds when part i of c has begun; the other parts of c are as in parts and
\* results, which is as they were or with one that has just returned.
Begun(c, i, parts, results) ==
  /\ JobsOK' /\ JobsGoOn
  /\ DOMAIN part' = Composite /\ DOMAIN result' = Composite
  /\ DOMAIN launched' = Composite
  /\ \A d \in Composite :
       /\ part'[d] \in [Parts(d) -> {"todo", "waiting", "done"}]
       /\ result'[d] \in [Parts(d) -> {"none", "ok", "bad", "missing"}]
       /\ launched'[d] \in [Parts(d) -> Nat]
  /\ part'[c][i] # "todo" /\ PartOK(c, i)'
  /\ \A d \in Composite \ {c} :
       part'[d] = part[d] /\ result'[d] = result[d] /\ launched'[d] = launched[d]
  /\ \A k \in Parts(c) \ {i} :
       /\ part'[c][k] = parts[k] /\ result'[c][k] = results[k]
       /\ launched'[c][k] = launched[c][k]

\* _run_and_wait up to its first await: the part waits for what it launched, or has
\* returned that there is nothing.
LEMMA BeginPartKeeps ==
  ASSUME JobsOK, PartsTyped, NEW c \in Composite, NEW i \in Parts(c), NEW o,
         NEW parts \in [Parts(c) -> {"todo", "waiting", "done"}],
         NEW results \in [Parts(c) -> {"none", "ok", "bad", "missing"}],
         results[i] = "none", launched[c][i] = 0,
         BeginPart(c, i, o, parts, results)
  PROVE  Begun(c, i, parts, results)
<1> DEFINE j == JobAt(c, i)
<1>1. j \in Job /\ JobsTyped /\ RowsFollowRuns
  BY JobOfPart DEF JobsOK
<1>2. CASE j \notin known
  <2>1. /\ part' = [part EXCEPT ![c] = [parts EXCEPT ![i] = "done"]]
        /\ result' = [result EXCEPT ![c] = [results EXCEPT ![i] = "missing"]]
        /\ launched' = launched
        /\ UNCHANGED <<runs, proc, code, row>>
    BY <1>2 DEF BeginPart, jobVars
  <2>2. JobsOK' /\ JobsGoOn
    BY <1>1, <2>1 DEF JobsOK, JobsTyped, RowsFollowRuns, JobsGoOn
  <2>3. part'[c][i] = "done" /\ result'[c][i] = "missing" /\ launched'[c][i] = 0
    BY <2>1 DEF PartsTyped
  <2>4. PartOK(c, i)'
    BY <1>1, <2>1, <2>3 DEF PartOK, PartFine, Runs, JobsTyped
  <2> QED
    BY <2>1, <2>2, <2>3, <2>4 DEF PartsTyped, Begun
<1>3. CASE j \in known
  <2> DEFINE p == IF o = "raised" THEN "done" ELSE "waiting"
             r == IF o = "raised" THEN "missing" ELSE "none"
             l == IF o = "launched" THEN runs[j] + 1 ELSE 0
  <2>1. StartJob(j, o)
    BY <1>3 DEF BeginPart
  <2>2. JobsOK' /\ JobsGoOn /\ (o = "launched" => runs'[j] = runs[j] + 1)
    BY <1>1, <2>1, StartKeeps
  <2>3. /\ part' = [part EXCEPT ![c] = [parts EXCEPT ![i] = p]]
        /\ result' = [result EXCEPT ![c] = [results EXCEPT ![i] = r]]
        /\ launched' = [launched EXCEPT ![c][i] = l]
    BY <1>3 DEF BeginPart
  <2>4. l \in Nat /\ (l # 0 => o = "launched" /\ l = runs'[j]) /\ runs'[j] \in Nat
    BY <1>1, <2>2 DEF JobsTyped, JobsOK
  <2> HIDE DEF l
  <2>5. part'[c][i] = p /\ result'[c][i] = r /\ launched'[c][i] = l
    BY <2>3 DEF PartsTyped
  <2>6. PartOK(c, i)'
    BY <2>4, <2>5 DEF PartOK, PartFine, Runs
  <2> QED
    BY <2>2, <2>3, <2>4, <2>5, <2>6 DEF PartsTyped, Begun
<1> QED
  BY <1>2, <1>3

\* The parts of composites that nobody touches stay as they should be.
LEMMA UntouchedStaysOK ==
  ASSUME Inv, JobsOK', JobsGoOn, NEW c \in Composite, NEW i \in Parts(c),
         part'[c][i] = part[c][i], result'[c][i] = result[c][i],
         launched'[c][i] = launched[c][i]
  PROVE  PartOK(c, i)'
<1>1. launched[c][i] \in Nat /\ PartOK(c, i)
  BY DEF Inv, PartsOK, PartsTyped
<1>2. JobAt(c, i) \in Job /\ JobsOK
  BY JobOfPart DEF Inv
<1>3. PartFine(part[c][i], result[c][i], launched[c][i], JobAt(c, i))
  BY <1>1 DEF PartOK
<1>4. /\ launched[c][i] <= runs'[JobAt(c, i)]
      /\ runs'[JobAt(c, i)] = launched[c][i] /\ launched[c][i] # 0
           /\ proc'[JobAt(c, i)] = "alive" => part[c][i] = "waiting"
      /\ result[c][i] = "ok" /\ launched[c][i] # 0 =>
           \E n \in launched[c][i]..runs'[JobAt(c, i)] : code'[JobAt(c, i)][n] = "ok"
  BY <1>1, <1>2, <1>3, StaysFine
<1>5. /\ part[c][i] # "done" => result[c][i] = "none"
      /\ part[c][i] = "todo" => launched[c][i] = 0
  BY <1>3 DEF PartFine
<1> QED
  BY <1>4, <1>5 DEF PartOK, PartFine, Runs

\* Steps that leave the jobs alone.
LEMMA JobsRest ==
  ASSUME JobsOK, UNCHANGED <<runs, proc, code, row>>
  PROVE  JobsOK' /\ JobsGoOn
BY DEF JobsOK, JobsTyped, RowsFollowRuns, JobsGoOn

-----------------------------------------------------------------------------
(* The composites                                                            *)

\* The status of a composite when a part begins.
LEMMA StatusOfBegun ==
  ASSUME NEW c, NEW i, NEW o
  PROVE  StatusAfterBegin(c, i, o) \in {"running", "failed", "raised"}
BY DEF StatusAfterBegin

\* A part that has not begun begins, and it was its turn.
LEMMA BegunKeeps ==
  ASSUME Inv, NEW c \in Composite, NEW i \in Parts(c), NEW o,
         part[c][i] = "todo", BeginPart(c, i, o, part[c], result[c]),
         status' \in [Composite -> {"idle", "running", "completed", "failed", "raised"}],
         status'[c] # "idle",
         \A d \in Composite \ {c} : status'[d] = status[d],
         Kind[c] = "chain" => \A k \in Parts(c) : k >= i
  PROVE  Inv'
<1>1. JobsOK /\ PartsTyped /\ InOrder(c) /\ PartOK(c, i)
  BY DEF Inv, PartsOK
<1>2. result[c][i] = "none" /\ launched[c][i] = 0
  BY <1>1 DEF PartOK, PartFine
<1>3. /\ part[c] \in [Parts(c) -> {"todo", "waiting", "done"}]
      /\ result[c] \in [Parts(c) -> {"none", "ok", "bad", "missing"}]
  BY <1>1 DEF PartsTyped
<1>4. /\ JobsOK' /\ JobsGoOn
      /\ PartsTyped'
      /\ part'[c][i] # "todo" /\ PartOK(c, i)'
      /\ \A d \in Composite : \A k \in Parts(d) : <<d, k>> # <<c, i>> =>
           /\ part'[d][k] = part[d][k]
           /\ result'[d][k] = result[d][k]
           /\ launched'[d][k] = launched[d][k]
  <2>1. Begun(c, i, part[c], result[c])
    BY <1>1, <1>2, <1>3, BeginPartKeeps
  <2> QED
    BY <2>1 DEF Begun, PartsTyped
<1>5. \A d \in Composite : \A k \in Parts(d) : PartOK(d, k)'
  BY <1>4, UntouchedStaysOK
<1>6. \A d \in Composite : InOrder(d)'
  <2> SUFFICES ASSUME NEW d \in Composite, NEW k \in Parts(d)
               PROVE  /\ status'[d] = "idle" => part'[d][k] = "todo"
                      /\ Kind[d] = "chain" /\ part'[d][k] # "todo" =>
                           \A m \in Parts(d) : m < k => part'[d][m] = "done"
    BY DEF InOrder
  <2>1. InOrder(d)
    BY DEF Inv, PartsOK
  <2>2. CASE d # c
    BY <1>4, <2>1, <2>2 DEF InOrder
  <2>3. CASE d = c
    <3>1. ASSUME Kind[c] = "chain", part'[c][k] # "todo", NEW m \in Parts(c), m < k
          PROVE  part'[c][m] = "done"
      <4>1. m \in Int /\ k \in Int /\ i \in Int /\ m >= i
        BY <2>3, <3>1 DEF Parts
      <4>2. k # i
        BY <3>1, <4>1
      <4>3. part[c][k] # "todo"
        BY <1>4, <2>3, <3>1, <4>2
      <4>4. part[c][m] = "done"
        BY <1>1, <2>3, <3>1, <4>3 DEF InOrder
      <4> QED
        BY <1>4, <4>4, <2>3
    <3> QED
      BY <2>3, <3>1
  <2> QED
    BY <2>2, <2>3
<1> QED
  BY <1>4, <1>5, <1>6 DEF Inv, PartsOK

\* The steps that begin a part of a composite that is requested or goes on.
LEMMA BeginsKeep ==
  ASSUME Inv, NEW c \in Composite,
         \/ Begin(c) \/ BeginCallback(c)
         \/ \E i \in Parts(c) : BeginMember(c, i)
  PROVE  Inv'
<1> USE CompositeAssumption
<1>1. JobsOK /\ PartsTyped /\ InOrder(c)
  BY DEF Inv, PartsOK
<1>2. Len(Members[c]) \in Nat /\ Len(Members[c]) >= 1
  OBVIOUS
<1>3. CASE Begin(c) /\ Kind[c] = "chain"
  <2>1. PICK o \in LaunchOutcomes(JobAt(c, 1)) :
          /\ BeginPart(c, 1, o, part[c], result[c])
          /\ status' = [status EXCEPT ![c] = StatusAfterBegin(c, 1, o)]
    BY <1>3 DEF Begin
  <2>2. 1 \in Parts(c) /\ \A k \in Parts(c) : k >= 1
    BY <1>2, <1>3 DEF Parts
  <2>3. part[c][1] = "todo"
    BY <1>1, <1>3, <2>2 DEF Begin, InOrder
  <2>4. /\ status' \in [Composite -> {"idle", "running", "completed", "failed", "raised"}]
        /\ status'[c] # "idle" /\ \A d \in Composite \ {c} : status'[d] = status[d]
    BY <1>1, <2>1, StatusOfBegun DEF PartsTyped
  <2> QED
    BY <2>1, <2>2, <2>3, <2>4, BegunKeeps
<1>4. CASE Begin(c) /\ Kind[c] # "chain"
  <2>1. /\ status' = [status EXCEPT ![c] = "running"]
        /\ UNCHANGED <<part, result, launched, runs, proc, code, row>>
    BY <1>4 DEF Begin, jobVars
  <2>2. JobsOK' /\ JobsGoOn
    BY <1>1, <2>1, JobsRest
  <2>3. PartsTyped'
    BY <1>1, <2>1 DEF PartsTyped
  <2>4. \A d \in Composite : InOrder(d)'
    BY <1>1, <2>1 DEF Inv, PartsOK, InOrder, PartsTyped
  <2>5. \A d \in Composite : \A k \in Parts(d) : PartOK(d, k)'
    BY <2>1, <2>2, UntouchedStaysOK
  <2>6. PartsOK'
    BY <2>3, <2>4, <2>5 DEF PartsOK
  <2> QED
    BY <2>2, <2>6 DEF Inv
<1>5. CASE BeginCallback(c)
  <2> DEFINE i == Len(Members[c]) + 1
  <2>1. PICK o \in LaunchOutcomes(JobAt(c, i)) :
          /\ BeginPart(c, i, o, part[c], result[c])
          /\ status' = [status EXCEPT ![c] = StatusAfterBegin(c, i, o)]
    BY <1>5 DEF BeginCallback
  <2>2. i \in Parts(c) /\ Kind[c] = "chord" /\ part[c][i] = "todo"
    BY <1>2, <1>5 DEF BeginCallback, Parts
  <2>3. /\ status' \in [Composite -> {"idle", "running", "completed", "failed", "raised"}]
        /\ status'[c] # "idle" /\ \A d \in Composite \ {c} : status'[d] = status[d]
    BY <1>1, <2>1, StatusOfBegun DEF PartsTyped
  <2> HIDE DEF i
  <2> QED
    BY <2>1, <2>2, <2>3, BegunKeeps
<1>6. ASSUME NEW i \in Parts(c), BeginMember(c, i)
      PROVE  Inv'
  <2>1. PICK o \in LaunchOutcomes(JobAt(c, i)) : BeginPart(c, i, o, part[c], result[c])
    BY <1>6 DEF BeginMember
  <2>2. /\ status[c] = "running" /\ Kind[c] # "chain" /\ part[c][i] = "todo"
        /\ status' = status
    BY <1>6 DEF BeginMember
  <2> QED
    BY <1>1, <2>1, <2>2, BegunKeeps DEF PartsTyped
<1> QED
  BY <1>3, <1>4, <1>5, <1>6

\* The end of a group is the end of its parts.
LEMMA EndGroupKeeps ==
  ASSUME Inv, NEW c \in Composite, EndGroup(c)
  PROVE  Inv'
<1>1. JobsOK /\ PartsTyped
  BY DEF Inv, PartsOK
<1>2. /\ status[c] = "running"
      /\ status' \in {[status EXCEPT ![c] = "completed"], [status EXCEPT ![c] = "failed"]}
      /\ UNCHANGED <<part, result, launched, runs, proc, code, row>>
  BY DEF EndGroup, jobVars
<1>3. JobsOK' /\ JobsGoOn
  BY <1>1, <1>2, JobsRest
<1>4. PartsTyped'
  BY <1>1, <1>2 DEF PartsTyped
<1>5. \A d \in Composite : InOrder(d)'
  BY <1>1, <1>2 DEF Inv, PartsOK, InOrder, PartsTyped
<1>6. \A d \in Composite : \A k \in Parts(d) : PartOK(d, k)'
  BY <1>2, <1>3, UntouchedStaysOK
<1>7. PartsOK'
  BY <1>4, <1>5, <1>6 DEF PartsOK
<1> QED
  BY <1>3, <1>7 DEF Inv

\* A poll that finds the process gone returns what the row says: the exit code of
\* the newest run of the job.
LEMMA PolledFine ==
  ASSUME Inv, NEW c \in Composite, NEW i \in Parts(c),
         part[c][i] = "waiting", ~PidAlive(JobAt(c, i))
  PROVE  /\ WaitResult(JobAt(c, i)) \in {"ok", "bad", "missing"}
         /\ PartFine("done", WaitResult(JobAt(c, i)), launched[c][i], JobAt(c, i))
<1> DEFINE j == JobAt(c, i)
           l == launched[c][i]
<1>1. j \in Job /\ JobsTyped /\ RowsFollowRuns /\ PartOK(c, i) /\ l \in Nat
  BY JobOfPart DEF Inv, JobsOK, PartsOK, PartsTyped
<1>2. WaitResult(j) \in {"ok", "bad", "missing"}
  BY <1>1 DEF WaitResult, JobsTyped
<1>3. l <= runs[j]
  BY <1>1 DEF PartOK, PartFine
<1>4. ~Runs(j, l)
  BY <1>1 DEF Runs, PidAlive, RowsFollowRuns, JobsTyped
<1>5. WaitResult(j) = "ok" /\ l # 0 => \E n \in l..runs[j] : code[j][n] = "ok"
  <2> SUFFICES ASSUME WaitResult(j) = "ok" PROVE \E n \in l..runs[j] : code[j][n] = "ok"
    OBVIOUS
  <2>1. row[j].code = "ok"
    BY DEF WaitResult
  <2>2. code[j][runs[j]] = "ok"
    BY <1>1, <2>1 DEF RowsFollowRuns
  <2>3. runs[j] \in l..runs[j]
    BY <1>1, <1>3 DEF JobsTyped
  <2> QED
    BY <2>2, <2>3
<1> QED
  BY <1>2, <1>3, <1>4, <1>5 DEF PartFine

\* A part that returns; in a chain the next one begins in the same step.
LEMMA PollKeeps ==
  ASSUME Inv, NEW c \in Composite, NEW i \in Parts(c), Poll(c, i)
  PROVE  Inv'
<1> DEFINE j == JobAt(c, i)
           r == WaitResult(j)
           parts == [part[c] EXCEPT ![i] = "done"]
           results == [result[c] EXCEPT ![i] = r]
           Statuses == {"idle", "running", "completed", "failed", "raised"}
<1>1. JobsOK /\ PartsTyped /\ InOrder(c) /\ PartOK(c, i) /\ j \in Job
  BY JobOfPart DEF Inv, PartsOK
<1>2. part[c][i] = "waiting" /\ ~PidAlive(j)
  BY DEF Poll
<1>3. r \in {"ok", "bad", "missing"} /\ PartFine("done", r, launched[c][i], j)
  BY <1>2, PolledFine
<1>4. status[c] # "idle" /\ launched[c][i] \in Nat
  BY <1>1, <1>2 DEF InOrder, PartsTyped
<1> HIDE DEF r
<1>5. /\ parts \in [Parts(c) -> {"todo", "waiting", "done"}]
      /\ results \in [Parts(c) -> {"none", "ok", "bad", "missing"}]
      /\ parts[i] = "done" /\ results[i] = r
      /\ \A k \in Parts(c) \ {i} : parts[k] = part[c][k] /\ results[k] = result[c][k]
  BY <1>1, <1>3 DEF PartsTyped
<1>6. CASE Kind[c] = "chain" /\ r = "ok" /\ i < Len(Members[c])
  <2> DEFINE n == i + 1
  <2>1. PICK o \in LaunchOutcomes(JobAt(c, n)) :
          /\ BeginPart(c, n, o, parts, results)
          /\ status' = [status EXCEPT ![c] = StatusAfterBegin(c, n, o)]
    BY <1>6 DEF Poll, r
  <2>2. n \in Parts(c) /\ n # i /\ i \in Int /\ \A k \in Parts(c) : k \in Int
    BY <1>6, CompositeAssumption DEF Parts
  <2>3. \A k \in Parts(c) : k > i => part[c][k] = "todo"
    BY <1>1, <1>2, <1>6, <2>2 DEF InOrder
  <2>4. part[c][n] = "todo" /\ result[c][n] = "none" /\ launched[c][n] = 0
    BY <1>1, <2>2, <2>3 DEF Inv, PartsOK, PartOK, PartFine
  <2> HIDE DEF parts, results, n
  <2>5. Begun(c, n, parts, results)
    BY <1>1, <1>5, <2>1, <2>2, <2>4, BeginPartKeeps
  <2>6. /\ status' \in [Composite -> Statuses]
        /\ status'[c] # "idle" /\ \A d \in Composite \ {c} : status'[d] = status[d]
    BY <1>1, <2>1, StatusOfBegun DEF PartsTyped
  <2>7. JobsOK' /\ JobsGoOn /\ PartsTyped'
    BY <2>5, <2>6 DEF Begun, PartsTyped
  <2>8. part'[c][i] = "done" /\ result'[c][i] = r /\ launched'[c][i] = launched[c][i]
    BY <1>5, <2>2, <2>5 DEF Begun
  <2>9. PartOK(c, i)'
    <3>1. /\ launched[c][i] <= runs'[j]
          /\ ~(runs'[j] = launched[c][i] /\ launched[c][i] # 0 /\ proc'[j] = "alive")
          /\ r = "ok" /\ launched[c][i] # 0 =>
               \E m \in launched[c][i]..runs'[j] : code'[j][m] = "ok"
      BY <1>1, <1>3, <1>4, <2>7, StaysFine
    <3> QED
      BY <1>3, <2>8, <3>1 DEF PartOK, PartFine, Runs
  <2>10. ASSUME NEW d \in Composite, NEW k \in Parts(d), ~(d = c /\ k \in {i, n})
         PROVE  PartOK(d, k)' /\ part'[d][k] = part[d][k]
    <3>1. /\ part'[d][k] = part[d][k] /\ result'[d][k] = result[d][k]
          /\ launched'[d][k] = launched[d][k]
      BY <1>5, <2>5, <2>10 DEF Begun
    <3> QED
      BY <2>7, <3>1, UntouchedStaysOK
  <2>11. \A d \in Composite : \A k \in Parts(d) : PartOK(d, k)'
    BY <2>5, <2>9, <2>10 DEF Begun
  <2>12. \A d \in Composite \ {c} : InOrder(d)'
    BY <2>6, <2>10 DEF Inv, PartsOK, InOrder
  <2>13. InOrder(c)'
    <3> SUFFICES ASSUME NEW k \in Parts(c), part'[c][k] # "todo", NEW m \in Parts(c), m < k
                 PROVE  part'[c][m] = "done"
      BY <2>6 DEF InOrder
    <3>1. k <= n
      BY <2>2, <2>3, <2>10 DEF n
    <3>2. m <= i
      BY <2>2, <3>1 DEF n
    <3>3. CASE m = i
      BY <2>8, <3>3
    <3>4. CASE m < i
      <4>1. part[c][m] = "done"
        BY <1>1, <1>2, <1>6, <3>4 DEF InOrder
      <4>2. m # i /\ m # n
        BY <2>2, <3>4 DEF n
      <4>3. part'[c][m] = part[c][m]
        BY <2>10, <4>2
      <4> QED
        BY <4>1, <4>3
    <3>5. m = i \/ m < i
      BY <2>2, <3>2
    <3> QED
      BY <3>3, <3>4, <3>5
  <2>14. PartsOK'
    BY <2>7, <2>11, <2>12, <2>13 DEF PartsOK
  <2> QED
    BY <2>7, <2>14 DEF Inv
<1>7. CASE ~(Kind[c] = "chain" /\ r = "ok" /\ i < Len(Members[c]))
  <2>1. /\ part' = [part EXCEPT ![c] = parts]
        /\ result' = [result EXCEPT ![c] = results]
        /\ launched' = launched
        /\ UNCHANGED <<runs, proc, code, row>>
    BY <1>7 DEF Poll, r, jobVars
  <2>2. \E s \in Statuses \ {"idle"} : status' = [status EXCEPT ![c] = s]
    <3>1. status[c] \in Statuses
      BY <1>1 DEF PartsTyped
    <3> QED
      BY <1>4, <1>7, <3>1 DEF Poll, r
  <2>3. /\ status' \in [Composite -> Statuses]
        /\ status'[c] # "idle" /\ \A d \in Composite \ {c} : status'[d] = status[d]
    BY <1>1, <2>2 DEF PartsTyped
  <2>4. JobsOK' /\ JobsGoOn
    BY <1>1, <2>1, JobsRest
  <2> HIDE DEF parts, results
  <2>5. PartsTyped'
    BY <1>1, <1>5, <2>1, <2>3 DEF PartsTyped
  <2>6. part'[c][i] = "done" /\ result'[c][i] = r /\ launched'[c][i] = launched[c][i]
    BY <1>1, <1>5, <2>1 DEF PartsTyped
  <2>7. PartOK(c, i)'
    <3>1. /\ launched[c][i] <= runs'[j]
          /\ ~(runs'[j] = launched[c][i] /\ launched[c][i] # 0 /\ proc'[j] = "alive")
          /\ r = "ok" /\ launched[c][i] # 0 =>
               \E m \in launched[c][i]..runs'[j] : code'[j][m] = "ok"
      BY <1>1, <1>3, <1>4, <2>4, StaysFine
    <3> QED
      BY <1>3, <2>6, <3>1 DEF PartOK, PartFine, Runs
  <2>8. ASSUME NEW d \in Composite, NEW k \in Parts(d), ~(d = c /\ k = i)
        PROVE  PartOK(d, k)' /\ part'[d][k] = part[d][k]
    <3>1. /\ part'[d][k] = part[d][k] /\ result'[d][k] = result[d][k]
          /\ launched'[d][k] = launched[d][k]
      BY <1>1, <1>5, <2>1, <2>8 DEF PartsTyped
    <3> QED
      BY <2>4, <3>1, UntouchedStaysOK
  <2>9. \A d \in Composite : InOrder(d)'
    BY <1>1, <1>2, <2>3, <2>6, <2>8 DEF Inv, PartsOK, InOrder
  <2>10. PartsOK'
    BY <2>5, <2>7, <2>8, <2>9 DEF PartsOK
  <2> QED
    BY <2>4, <2>10 DEF Inv
<1> QED
  BY <1>6, <1>7

\* The composites go on waiting while others start jobs and processes end.
LEMMA ElsewhereKeeps ==
  ASSUME Inv, JobsOK', JobsGoOn, UNCHANGED compositeVars
  PROVE  Inv'
<1>1. UNCHANGED <<status, part, result, launched>>
  BY DEF compositeVars
<1>2. \A d \in Composite : \A k \in Parts(d) : PartOK(d, k)'
  BY <1>1, UntouchedStaysOK
<1>3. PartsTyped' /\ \A d \in Composite : InOrder(d)'
  BY <1>1 DEF Inv, PartsOK, PartsTyped, InOrder
<1>4. PartsOK'
  BY <1>2, <1>3 DEF PartsOK
<1> QED
  BY <1>4 DEF Inv

-----------------------------------------------------------------------------
(* The theorems                                                              *)

\* Nothing has run and nothing is requested at first.
LEMMA InitHolds == Init => Inv
<1> SUFFICES ASSUME Init PROVE Inv
  OBVIOUS
<1> USE CompositeAssumption
<1>1. JobsTyped
  BY DEF Init, JobsTyped, NoRow
<1>2. RowsFollowRuns
  BY DEF Init, RowsFollowRuns, NoRow
<1>3. PartsTyped
  BY DEF Init, PartsTyped
<1>4. \A c \in Composite : \A i \in Parts(c) : PartOK(c, i)
  BY JobOfPart DEF Init, PartOK, PartFine, Runs
<1>5. \A c \in Composite : InOrder(c)
  BY DEF Init, InOrder
<1> QED
  BY <1>1, <1>2, <1>3, <1>4, <1>5 DEF Inv, JobsOK, PartsOK

\* Every step keeps the invariant.
LEMMA NextKeeps == Inv /\ [Next]_vars => Inv'
<1> SUFFICES ASSUME Inv, [Next]_vars PROVE Inv'
  OBVIOUS
<1>1. ASSUME NEW c \in Composite, Begin(c) \/ BeginCallback(c) PROVE Inv'
  BY <1>1, BeginsKeep
<1>2. ASSUME NEW c \in Composite, EndGroup(c) PROVE Inv'
  BY <1>2, EndGroupKeeps
<1>3. ASSUME NEW c \in Composite, NEW i \in Parts(c), BeginMember(c, i) PROVE Inv'
  BY <1>3, BeginsKeep
<1>4. ASSUME NEW c \in Composite, NEW i \in Parts(c), Poll(c, i) PROVE Inv'
  BY <1>4, PollKeeps
<1>5. ASSUME NEW j \in Job, OtherStart(j) PROVE Inv'
  <2>1. JobsOK' /\ JobsGoOn /\ UNCHANGED compositeVars
    BY <1>5, StartKeeps DEF OtherStart, Inv
  <2> QED
    BY <2>1, ElsewhereKeeps
<1>6. ASSUME NEW j \in Job, Exit(j) \/ Finalize(j) \/ AskRunning(j) \/ Delete(j)
      PROVE  Inv'
  <2>1. JobsOK' /\ JobsGoOn
    BY <1>6, JobKeeps DEF Inv
  <2>2. UNCHANGED compositeVars
    BY <1>6 DEF Exit, Finalize, AskRunning, Delete
  <2> QED
    BY <2>1, <2>2, ElsewhereKeeps
<1>7. CASE UNCHANGED vars
  <2>1. JobsOK' /\ JobsGoOn
    BY <1>7, JobsRest DEF vars, jobVars, Inv
  <2>2. UNCHANGED compositeVars
    BY <1>7 DEF vars
  <2> QED
    BY <2>1, <2>2, ElsewhereKeeps
<1> QED
  BY <1>1, <1>2, <1>3, <1>4, <1>5, <1>6, <1>7 DEF Next

\* The inductive invariant holds of every reachable state.
THEOREM Invariance == Spec => []Inv
<1> QED
  BY InitHolds, NextKeeps, PTL DEF Spec

\* A composite waits for every process it started: nothing it launched is alive
\* unless _run_and_wait is waiting for it.
THEOREM RunsAreAwaited == Spec => []OwnRunsAwaited
<1>1. Inv => OwnRunsAwaited
  BY DEF Inv, PartsOK, PartOK, PartFine, OwnRunsAwaited
<1> QED
  BY <1>1, Invariance, PTL

\* The success of a part whose start was accepted is that of the run it launched or
\* of a later one, never what the row said before.
THEOREM SuccessIsNotStale == Spec => []NoStaleSuccess
<1>1. Inv => NoStaleSuccess
  BY DEF Inv, PartsOK, PartOK, PartFine, NoStaleSuccess
<1> QED
  BY <1>1, Invariance, PTL
=============================================================================
