--------------------------- MODULE WorkflowProofs ---------------------------
(***************************************************************************)
(* The safety of workflow runs, for every set of jobs and runs, of any     *)
(* type and length, however runs share jobs: a success is the success of   *)
(* the job the step started, nothing is started for a cancelled run whose  *)
(* task sees its cancellation, and the memory of the manager agrees with   *)
(* the database about what runs.                                           *)
(***************************************************************************)
EXTENDS Workflow, TLAPS

Outcomes == {"none", "ok", "bad"}

\* The types of what is known of the steps, and of the runs.
StepsTyped ==
  /\ DOMAIN part = Run
  /\ \A r \in Run : part[r] \in [Steps(r) -> {"todo", "waiting", "ok", "bad"}]
  /\ event \in [Job -> AllSteps \cup {NoOne}]
  /\ signaled \subseteq AllSteps
  /\ owner \in [Job -> AllSteps \cup {NoOne, Other}]
  /\ last \in [Job -> Outcomes]
  /\ DOMAIN own = Run
  /\ \A r \in Run : own[r] \in [Steps(r) -> Outcomes]

RunsTyped ==
  /\ mem \in [Run -> {"none", "running"} \cup Ended]
  /\ db \in [Run -> {"none", "running"} \cup Ended]
  /\ task \in [Run -> {"none", "new", "live"}]
  /\ cancelled \subseteq Run

\* A step of run r was told of the end of its job when the task was cancelled.
Deaf(r) == \E k \in Steps(r) : <<r, k>> \in deaf

\* A task that nobody has cancelled, or that has lost its cancellation, is of a run
\* that goes on, and the loop is up.
TasksRun ==
  \A r \in Run : task[r] # "none" =>
    /\ mem[r] # "none"
    /\ r \in cancelling \/ Deaf(r) \/ (up = "up" /\ mem[r] = "running")

\* A run whose cancellation was reported is persisted as ended.
CancelledEnded == \A r \in cancelled : db[r] \in Ended

\* A registered event is of a step that waits for this job; the job runs for the
\* step, or has ended and the step is told.
EventsOfWaiting ==
  \A j \in Job : \A r \in Run : \A i \in Steps(r) : event[j] = <<r, i>> =>
    /\ JobAt(r, i) = j /\ part[r][i] = "waiting"
    /\ owner[j] = <<r, i>> \/ <<r, i>> \in signaled

\* A step that is told still waits, and what it will read as a success is its own.
SignaledWait ==
  \A r \in Run : \A i \in Steps(r) : <<r, i>> \in signaled =>
    /\ part[r][i] = "waiting"
    /\ last[JobAt(r, i)] = "ok" => own[r][i] = "ok"

\* A job that runs for a step is the job of the step, which has not heard of its end.
OwnersUntold ==
  \A j \in Job : \A r \in Run : \A i \in Steps(r) : owner[j] = <<r, i>> =>
    /\ JobAt(r, i) = j
    /\ <<r, i>> \notin signaled
    /\ part[r][i] \in {"waiting", "bad"}

\* The invariant, in two halves: the runs as a whole, and their steps.
RunsOK == RunsTyped /\ ResumedUnlessEnded /\ TasksRun /\ CancelledEnded

StepsOK ==
  StepsTyped /\ EventsOfWaiting /\ SignaledWait /\ OwnersUntold /\ SuccessIsReal

Inv == RunsOK /\ StepsOK

-----------------------------------------------------------------------------
(* Lemmas about steps of runs and ends of jobs                               *)

\* A step has a job and is told from the markers for nobody and for another owner.
LEMMA StepFacts ==
  ASSUME NEW r \in Run, NEW i \in Steps(r)
  PROVE  /\ JobAt(r, i) \in Job
         /\ <<r, i>> \in AllSteps
         /\ <<r, i>> # NoOne /\ <<r, i>> # Other
<1>1. Jobs[r] \in Seq(Job) /\ Callback[r] \in Job
  BY WorkflowAssumption
<1>2. JobAt(r, i) \in Job
  BY <1>1 DEF JobAt, Steps
<1>3. <<r, i>> \in AllSteps
  BY DEF AllSteps
<1> QED
  BY <1>2, <1>3, NoOneAssumption

\* What the end of some jobs changes.
LEMMA EndsFacts ==
  ASSUME StepsTyped, NEW js \in SUBSET Job, NEW c \in {"ok", "bad"}, Ends(js, c)
  PROVE  /\ owner' \in [Job -> AllSteps \cup {NoOne, Other}]
         /\ last' \in [Job -> Outcomes]
         /\ DOMAIN own' = Run
         /\ \A r \in Run : own'[r] \in [Steps(r) -> Outcomes]
         /\ \A j \in Job : /\ j \in js => owner'[j] = NoOne
                           /\ j \notin js => owner'[j] = owner[j] /\ last'[j] = last[j]
                           /\ j \in js /\ owner[j] # NoOne => last'[j] = c
                           /\ owner[j] = NoOne => last'[j] = last[j]
<1>1. /\ owner' = [j \in Job |-> IF j \in js /\ owner[j] # NoOne THEN NoOne ELSE owner[j]]
      /\ last' = [j \in Job |-> IF j \in js /\ owner[j] # NoOne THEN c ELSE last[j]]
  BY DEF Ends
<1>2. c \in Outcomes
  BY DEF Outcomes
<1>3. /\ owner' \in [Job -> AllSteps \cup {NoOne, Other}]
      /\ last' \in [Job -> Outcomes]
  BY <1>1, <1>2 DEF StepsTyped
<1>4. DOMAIN own' = Run /\ \A r \in Run : own'[r] \in [Steps(r) -> Outcomes]
  BY <1>2 DEF Ends, StepsTyped
<1> QED
  BY <1>1, <1>3, <1>4

\* How the end of some jobs ends the steps they ran for.
LEMMA OwnFacts ==
  ASSUME NEW js \in SUBSET Job, NEW c \in {"ok", "bad"}, Ends(js, c),
         NEW r \in Run, NEW i \in Steps(r)
  PROVE  own'[r][i] = IF <<r, i>> \in {owner[j] : j \in js} THEN c ELSE own[r][i]
<1> DEFINE running == {j \in js : owner[j] # NoOne}
           steps == {owner[j] : j \in running} \ {Other}
<1>1. own' = [q \in Run |-> [k \in Steps(q) |-> IF <<q, k>> \in steps THEN c ELSE own[q][k]]]
  BY DEF Ends
<1>2. <<r, i>> \in steps <=> <<r, i>> \in {owner[j] : j \in js}
  BY StepFacts
<1> QED
  BY <1>1, <1>2

\* Whom the end of some jobs tells.
LEMMA NotifiedFacts ==
  ASSUME StepsTyped, NEW js \in SUBSET Job
  PROVE  /\ Notified(js) \subseteq AllSteps
         /\ \A s \in Notified(js) : \E j \in js : owner[j] # NoOne /\ event[j] = s
         /\ \A j \in js : owner[j] # NoOne /\ event[j] # NoOne => event[j] \in Notified(js)
BY DEF StepsTyped, Notified

-----------------------------------------------------------------------------
(* The runs as a whole                                                       *)

\* A run that ends is ended in memory and in the database alike, though perhaps with
\* different outcomes.
LEMMA FinishKeeps ==
  ASSUME RunsOK, NEW r \in Run, NEW s \in Ended, Finish(r, s),
         UNCHANGED <<up, deaf, cancelled>>
  PROVE  RunsOK'
<1>1. StatusSaved(r, s, failures[r]) \in Ended
  BY DEF StatusSaved, Ended
<1>2. /\ mem' = [mem EXCEPT ![r] = s]
      /\ db' = [db EXCEPT ![r] = StatusSaved(r, s, failures[r])]
      /\ task' = [task EXCEPT ![r] = "none"]
      /\ cancelling' = cancelling \ {r}
  BY DEF Finish
<1> QED
  BY <1>1, <1>2 DEF RunsOK, RunsTyped, ResumedUnlessEnded, TasksRun, CancelledEnded, Deaf, Ended

\* A chain that goes on persists what the run is in memory.
LEMMA GoingOnKeeps ==
  ASSUME RunsOK, NEW r \in Run, GoesOn(r), task[r] = "live", r \notin cancelling \/ Deaf(r),
         UNCHANGED <<up, deaf, cancelled>>
  PROVE  RunsOK'
<1>1. /\ db' \in {db, [db EXCEPT ![r] = mem[r]]}
      /\ cancelling' = cancelling \ {r}
      /\ UNCHANGED <<mem, task>>
  BY DEF GoesOn
<1>2. mem[r] # "none" /\ (r \in cancelled => mem[r] \in Ended)
  BY DEF RunsOK, RunsTyped, ResumedUnlessEnded, TasksRun
<1>3. RunsTyped' /\ ResumedUnlessEnded'
  BY <1>1 DEF RunsOK, RunsTyped, ResumedUnlessEnded
<1>4. TasksRun'
  BY <1>1, <1>2 DEF RunsOK, TasksRun, Deaf
<1>5. CancelledEnded'
  BY <1>1, <1>2 DEF RunsOK, RunsTyped, CancelledEnded
<1> QED
  BY <1>3, <1>4, <1>5 DEF RunsOK

\* What the return of a step makes of its run.
LEMMA AfterStepKeeps ==
  ASSUME RunsOK, NEW r \in Run, NEW i, NEW outcome, AfterStep(r, i, outcome),
         task[r] = "live", r \notin cancelling \/ Deaf(r),
         UNCHANGED <<up, deaf, cancelled>>
  PROVE  RunsOK'
<1>1. (\E s \in Ended : Finish(r, s)) \/ GoesOn(r)
  BY DEF AfterStep, Completed, Ended
<1>2. CASE GoesOn(r)
  BY <1>2, GoingOnKeeps
<1> QED
  BY <1>1, <1>2, FinishKeeps

-----------------------------------------------------------------------------
(* The steps of a run                                                        *)

\* A step that begins is registered and started together, or is over.
LEMMA BeginStepKeeps ==
  ASSUME Inv, NEW r \in Run, NEW i \in Steps(r), BeginStep(r, i)
  PROVE  Inv'
<1> DEFINE j == JobAt(r, i)
<1>1. RunsOK /\ StepsOK
  BY DEF Inv
<1>2. part[r][i] = "todo"
  BY DEF BeginStep, MayBegin
<1>3. /\ j \in Job /\ <<r, i>> \in AllSteps /\ <<r, i>> # NoOne
      /\ UNCHANGED <<signaled, last, own>>
  BY StepFacts DEF BeginStep
<1>4. <<r, i>> \notin signaled /\ \A k \in Job : event[k] # <<r, i>> /\ owner[k] # <<r, i>>
  BY <1>1, <1>2 DEF StepsOK, SignaledWait, EventsOfWaiting, OwnersUntold
<1>7. task[r] = "live" /\ r \notin cancelling /\ UNCHANGED <<up, deaf, cancelled>>
  BY DEF BeginStep, MayBegin
<1>5. CASE /\ owner[j] = NoOne
           /\ owner' = [owner EXCEPT ![j] = <<r, i>>]
           /\ event' = [event EXCEPT ![j] = <<r, i>>]
           /\ part' = [part EXCEPT ![r][i] = "waiting"]
           /\ GoesOn(r)
  <2>1. RunsOK'
    BY <1>1, <1>5, <1>7, GoingOnKeeps
  <2>2. \A q \in Run : \A k \in Steps(q) :
          part'[q][k] = IF <<q, k>> = <<r, i>> THEN "waiting" ELSE part[q][k]
    BY <1>1, <1>5 DEF StepsOK, StepsTyped
  <2>3. StepsTyped'
    BY <1>1, <1>3, <1>5 DEF StepsOK, StepsTyped
  <2>4. EventsOfWaiting'
    BY <1>1, <1>3, <1>4, <1>5, <2>2 DEF StepsOK, StepsTyped, EventsOfWaiting
  <2>5. SignaledWait'
    BY <1>1, <1>3, <1>4, <2>2 DEF StepsOK, SignaledWait
  <2>6. OwnersUntold'
    <3> SUFFICES ASSUME NEW m \in Job, NEW q \in Run, NEW k \in Steps(q), owner'[m] = <<q, k>>
                 PROVE  /\ JobAt(q, k) = m
                        /\ <<q, k>> \notin signaled'
                        /\ part'[q][k] \in {"waiting", "bad"}
      BY DEF OwnersUntold
    <3>1. CASE m = j
      BY <3>1, <1>1, <1>3, <1>4, <1>5, <2>2 DEF StepsOK, StepsTyped
    <3>2. CASE m # j
      BY <3>2, <1>1, <1>3, <1>4, <1>5, <2>2 DEF StepsOK, StepsTyped, OwnersUntold
    <3> QED
      BY <3>1, <3>2
  <2>7. SuccessIsReal'
    BY <1>1, <1>3, <2>2 DEF StepsOK, SuccessIsReal
  <2> QED
    BY <2>1, <2>3, <2>4, <2>5, <2>6, <2>7 DEF Inv, StepsOK
<1>6. CASE /\ event' = [event EXCEPT ![j] = NoOne]
           /\ part' = [part EXCEPT ![r][i] = "bad"]
           /\ UNCHANGED owner
           /\ \E outcome \in {"bad", "raised"} : AfterStep(r, i, outcome)
  <2>1. RunsOK'
    BY <1>1, <1>6, <1>7, AfterStepKeeps
  <2>2. \A q \in Run : \A k \in Steps(q) :
          part'[q][k] = IF <<q, k>> = <<r, i>> THEN "bad" ELSE part[q][k]
    BY <1>1, <1>6 DEF StepsOK, StepsTyped
  <2>3. StepsTyped'
    BY <1>1, <1>3, <1>6 DEF StepsOK, StepsTyped
  <2>4. EventsOfWaiting'
    BY <1>1, <1>3, <1>4, <1>6, <2>2, StepFacts DEF StepsOK, StepsTyped, EventsOfWaiting
  <2>5. SignaledWait'
    BY <1>1, <1>3, <1>4, <2>2 DEF StepsOK, SignaledWait
  <2>6. OwnersUntold'
    BY <1>1, <1>3, <1>4, <1>6, <2>2 DEF StepsOK, OwnersUntold
  <2>7. SuccessIsReal'
    BY <1>1, <1>3, <2>2 DEF StepsOK, SuccessIsReal
  <2> QED
    BY <2>1, <2>3, <2>4, <2>5, <2>6, <2>7 DEF Inv, StepsOK
<1> QED
  BY <1>5, <1>6 DEF BeginStep

\* A step that is told reads the newest result of its job, which is that of its own
\* start or a success of nobody.
LEMMA WakeKeeps ==
  ASSUME Inv, NEW r \in Run, NEW i \in Steps(r), Wake(r, i)
  PROVE  Inv'
<1> DEFINE j == JobAt(r, i)
           ended == IF event[j] # NoOne /\ last[j] = "ok" THEN "ok" ELSE "bad"
<1>1. RunsOK /\ StepsOK
  BY DEF Inv
<1>2. /\ j \in Job /\ <<r, i>> \in signaled
      /\ signaled' = signaled \ {<<r, i>>}
      /\ UNCHANGED <<owner, last, own>>
      /\ event' = [event EXCEPT ![j] = NoOne]
  BY StepFacts DEF Wake, LeaveStep
<1>3. part' = [part EXCEPT ![r][i] = ended]
  BY DEF Wake, LeaveStep, Succeeded
<1>4. \A q \in Run : \A k \in Steps(q) :
        part'[q][k] = IF <<q, k>> = <<r, i>> THEN ended ELSE part[q][k]
  BY <1>1, <1>3 DEF StepsOK, StepsTyped
<1>5. RunsOK'
  <2>1. task[r] = "live" /\ UNCHANGED <<up, deaf, cancelled>>
    BY DEF Wake
  <2>2. r \notin cancelling \/ Deaf(r)
    BY DEF Wake, LosesCancel, Deaf
  <2> QED
    BY <1>1, <2>1, <2>2, AfterStepKeeps DEF Wake, LeaveStep
<1>6. StepsTyped'
  BY <1>1, <1>2, <1>3 DEF StepsOK, StepsTyped
<1>7. EventsOfWaiting'
  BY <1>1, <1>2, <1>4, StepFacts DEF StepsOK, StepsTyped, EventsOfWaiting
<1>8. SignaledWait'
  BY <1>1, <1>2, <1>4 DEF StepsOK, SignaledWait
<1>9. OwnersUntold'
  BY <1>1, <1>2, <1>4 DEF StepsOK, OwnersUntold
<1>10. SuccessIsReal'
  BY <1>1, <1>2, <1>4 DEF StepsOK, SuccessIsReal, SignaledWait
<1> QED
  BY <1>5, <1>6, <1>7, <1>8, <1>9, <1>10 DEF Inv, StepsOK

\* Steps that are told of the end of their job read its result before it ends again,
\* or the job was stopped.
ReadInTime(js, c) == c = "bad" \/ \A s \in signaled : JobAt(s[1], s[2]) \notin js

\* What holds of the steps that wait when jobs js have ended and the steps that
\* registered are told.
AfterEnds(js) ==
  LET told == signaled \cup Notified(js) IN
    /\ told \subseteq AllSteps
    /\ \A j \in Job : \A r \in Run : \A i \in Steps(r) : event[j] = <<r, i>> =>
         owner'[j] = <<r, i>> \/ <<r, i>> \in told
    /\ \A r \in Run : \A i \in Steps(r) : <<r, i>> \in told =>
         /\ part[r][i] = "waiting"
         /\ last'[JobAt(r, i)] = "ok" => own'[r][i] = "ok"
    /\ \A j \in Job : \A r \in Run : \A i \in Steps(r) : owner'[j] = <<r, i>> =>
         /\ j \notin js
         /\ JobAt(r, i) = j
         /\ <<r, i>> \notin told
         /\ part[r][i] \in {"waiting", "bad"}
    /\ \A r \in Run : \A i \in Steps(r) : part[r][i] = "ok" => own'[r][i] = "ok"

\* Jobs that end, their results read in time, leave the steps that wait consistent.
LEMMA EndsKeep ==
  ASSUME StepsOK, NEW js \in SUBSET Job, NEW c \in {"ok", "bad"}, Ends(js, c),
         ReadInTime(js, c)
  PROVE  AfterEnds(js)
<1> DEFINE told == signaled \cup Notified(js)
<1>1. /\ StepsTyped /\ EventsOfWaiting /\ SignaledWait /\ OwnersUntold /\ SuccessIsReal
  BY DEF StepsOK
<1>2. /\ told \subseteq AllSteps
      /\ \A s \in told : s \in signaled \/ \E j \in js : owner[j] # NoOne /\ event[j] = s
      /\ \A j \in js : owner[j] # NoOne /\ event[j] # NoOne => event[j] \in told
      /\ signaled \subseteq told
  BY <1>1, NotifiedFacts DEF StepsTyped
<1>3. \A j \in Job : /\ j \in js => owner'[j] = NoOne
                     /\ j \notin js => owner'[j] = owner[j] /\ last'[j] = last[j]
                     /\ j \in js /\ owner[j] # NoOne => last'[j] = c
                     /\ owner[j] = NoOne => last'[j] = last[j]
  BY <1>1, EndsFacts
<1>8. \A r \in Run : \A i \in Steps(r) :
        own'[r][i] = IF <<r, i>> \in {owner[j] : j \in js} THEN c ELSE own[r][i]
  BY OwnFacts
<1>4. ASSUME NEW j \in Job, NEW r \in Run, NEW i \in Steps(r), event[j] = <<r, i>>
      PROVE  owner'[j] = <<r, i>> \/ <<r, i>> \in told
  <2>1. owner[j] = <<r, i>> \/ <<r, i>> \in signaled
    BY <1>1, <1>4 DEF EventsOfWaiting
  <2> QED
    BY <2>1, <1>2, <1>3, <1>4, StepFacts
<1>5. ASSUME NEW r \in Run, NEW i \in Steps(r), <<r, i>> \in told
      PROVE  /\ part[r][i] = "waiting"
             /\ last'[JobAt(r, i)] = "ok" => own'[r][i] = "ok"
  <2> DEFINE j == JobAt(r, i)
  <2>1. j \in Job
    BY StepFacts
  <2>2. CASE <<r, i>> \in signaled
    <3>1. part[r][i] = "waiting" /\ (last[j] = "ok" => own[r][i] = "ok")
      BY <1>1, <2>2 DEF SignaledWait
    <3>2. own'[r][i] = own[r][i]
      BY <1>1, <1>8, <2>2 DEF OwnersUntold
    <3>3. last'[j] = "ok" => last[j] = "ok"
      <4>1. CASE c = "bad"
        BY <4>1, <2>1, <1>3
      <4>2. CASE j \notin js
        BY <4>2, <2>1, <1>3
      <4> QED
        BY <4>1, <4>2, <2>2 DEF ReadInTime
    <3> QED
      BY <3>1, <3>2, <3>3
  <2>3. CASE <<r, i>> \notin signaled
    <3>1. PICK k \in js : owner[k] # NoOne /\ event[k] = <<r, i>>
      BY <1>2, <1>5, <2>3
    <3>2. j = k /\ part[r][i] = "waiting" /\ owner[k] = <<r, i>>
      BY <3>1, <2>3, <1>1 DEF EventsOfWaiting
    <3>3. own'[r][i] = c /\ last'[j] = c
      BY <3>1, <3>2, <1>3, <1>8
    <3> QED
      BY <3>2, <3>3
  <2> QED
    BY <2>2, <2>3
<1>6. ASSUME NEW j \in Job, NEW r \in Run, NEW i \in Steps(r), owner'[j] = <<r, i>>
      PROVE  /\ j \notin js
             /\ JobAt(r, i) = j
             /\ <<r, i>> \notin told
             /\ part[r][i] \in {"waiting", "bad"}
  <2>1. j \notin js /\ owner[j] = <<r, i>>
    BY <1>3, <1>6, StepFacts
  <2>2. JobAt(r, i) = j /\ <<r, i>> \notin signaled /\ part[r][i] \in {"waiting", "bad"}
    BY <2>1, <1>1 DEF OwnersUntold
  <2>3. \A k \in js : event[k] # <<r, i>>
    BY <2>1, <2>2, <1>1 DEF EventsOfWaiting
  <2> QED
    BY <2>1, <2>2, <2>3, <1>2
<1>7. ASSUME NEW r \in Run, NEW i \in Steps(r), part[r][i] = "ok"
      PROVE  own'[r][i] = "ok"
  <2>1. own[r][i] = "ok"
    BY <1>7, <1>1 DEF SuccessIsReal
  <2>2. \A j \in js : owner[j] # <<r, i>>
    BY <1>7, <1>1 DEF OwnersUntold
  <2> QED
    BY <2>1, <2>2, <1>8
<1> QED
  BY <1>2, <1>4, <1>5, <1>6, <1>7 DEF AfterEnds

\* The steps are as they should be when jobs end that their steps do not leave.
LEMMA EndedStepsKeep ==
  ASSUME StepsOK, NEW js \in SUBSET Job, NEW c \in {"ok", "bad"}, Ends(js, c),
         ReadInTime(js, c),
         signaled' = signaled \cup Notified(js), UNCHANGED <<part, event>>
  PROVE  StepsOK'
<1>1. /\ owner' \in [Job -> AllSteps \cup {NoOne, Other}]
      /\ last' \in [Job -> Outcomes]
      /\ DOMAIN own' = Run
      /\ \A r \in Run : own'[r] \in [Steps(r) -> Outcomes]
  BY EndsFacts DEF StepsOK
<1>2. AfterEnds(js)
  BY EndsKeep
<1>3. StepsTyped'
  BY <1>1, <1>2 DEF AfterEnds, StepsOK, StepsTyped
<1>4. EventsOfWaiting'
  BY <1>2 DEF AfterEnds, StepsOK, EventsOfWaiting
<1>5. SignaledWait'
  BY <1>2 DEF AfterEnds, SignaledWait
<1>6. OwnersUntold'
  BY <1>2 DEF AfterEnds, OwnersUntold
<1>7. SuccessIsReal'
  BY <1>2 DEF AfterEnds, SuccessIsReal
<1> QED
  BY <1>3, <1>4, <1>5, <1>6, <1>7 DEF StepsOK

\* A job that ends tells the step that registered last, with its own result.
LEMMA JobEndsKeeps ==
  ASSUME Inv, NEW j \in Job, JobEnds(j)
  PROVE  Inv'
<1>1. RunsOK /\ StepsOK
  BY DEF Inv
<1>2. /\ {j} \in SUBSET Job
      /\ \A c : ReadInTime({j}, c)
      /\ signaled' = signaled \cup Notified({j})
      /\ UNCHANGED <<taskVars, event>>
  BY DEF JobEnds, ReadInTime
<1>3. PICK c \in {"ok", "bad"} : Ends({j}, c)
  BY DEF JobEnds
<1>4. RunsOK'
  BY <1>1, <1>2 DEF RunsOK, RunsTyped, ResumedUnlessEnded, TasksRun, CancelledEnded, Deaf, taskVars
<1>5. StepsOK'
  BY <1>1, <1>2, <1>3, EndedStepsKeep DEF taskVars
<1> QED
  BY <1>4, <1>5 DEF Inv

\* A timeout stops the job, for whomever it runs, and leaves the step.
LEMMA TimeoutKeeps ==
  ASSUME Inv, NEW r \in Run, NEW i \in Steps(r), Timeout(r, i)
  PROVE  Inv'
<1> DEFINE j == JobAt(r, i)
<1>1. RunsOK /\ StepsOK
  BY DEF Inv
<1>2. /\ j \in Job /\ {j} \in SUBSET Job
      /\ ReadInTime({j}, "bad")
      /\ part[r][i] = "waiting" /\ <<r, i>> \notin signaled
      /\ Ends({j}, "bad")
      /\ signaled' = signaled \cup (Notified({j}) \ {<<r, i>>})
      /\ event' = [event EXCEPT ![j] = NoOne]
      /\ part' = [part EXCEPT ![r][i] = "bad"]
  BY StepFacts DEF Timeout, LeaveStep, ReadInTime
<1>3. \A q \in Run : \A k \in Steps(q) :
        part'[q][k] = IF <<q, k>> = <<r, i>> THEN "bad" ELSE part[q][k]
  BY <1>1, <1>2 DEF StepsOK, StepsTyped
<1>4. RunsOK'
  BY <1>1, AfterStepKeeps DEF Timeout, LeaveStep
<1>5. AfterEnds({j})
  BY <1>1, <1>2, EndsKeep
<1>6. StepsTyped'
  <2>1. /\ owner' \in [Job -> AllSteps \cup {NoOne, Other}]
        /\ last' \in [Job -> Outcomes]
        /\ DOMAIN own' = Run
        /\ \A q \in Run : own'[q] \in [Steps(q) -> Outcomes]
    BY <1>1, <1>2, EndsFacts DEF StepsOK
  <2>2. signaled' \subseteq AllSteps
    BY <1>2, <1>5 DEF AfterEnds
  <2> QED
    BY <2>1, <2>2, <1>1, <1>2 DEF StepsOK, StepsTyped
<1>7. EventsOfWaiting'
  <2> SUFFICES ASSUME NEW m \in Job, NEW q \in Run, NEW k \in Steps(q), event'[m] = <<q, k>>
               PROVE  /\ JobAt(q, k) = m /\ part'[q][k] = "waiting"
                      /\ owner'[m] = <<q, k>> \/ <<q, k>> \in signaled'
    BY DEF EventsOfWaiting
  <2>1. m # j /\ event[m] = <<q, k>>
    BY <1>1, <1>2, StepFacts DEF StepsOK, StepsTyped
  <2>2. JobAt(q, k) = m /\ part[q][k] = "waiting"
    BY <2>1, <1>1 DEF StepsOK, EventsOfWaiting
  <2>3. owner'[m] = <<q, k>> \/ <<q, k>> \in signaled \cup Notified({j})
    BY <2>1, <1>5 DEF AfterEnds
  <2> QED
    BY <2>1, <2>2, <2>3, <1>2, <1>3
<1>8. SignaledWait'
  <2> SUFFICES ASSUME NEW q \in Run, NEW k \in Steps(q), <<q, k>> \in signaled'
               PROVE  /\ part'[q][k] = "waiting"
                      /\ last'[JobAt(q, k)] = "ok" => own'[q][k] = "ok"
    BY DEF SignaledWait
  <2>1. <<q, k>> # <<r, i>> /\ <<q, k>> \in signaled \cup Notified({j})
    BY <1>2
  <2>2. part[q][k] = "waiting" /\ (last'[JobAt(q, k)] = "ok" => own'[q][k] = "ok")
    BY <2>1, <1>5 DEF AfterEnds
  <2> QED
    BY <2>1, <2>2, <1>3
<1>9. \A m \in Job : \A q \in Run : \A k \in Steps(q) : owner'[m] = <<q, k>> =>
        /\ JobAt(q, k) = m
        /\ <<q, k>> \notin signaled \cup Notified({j})
        /\ part[q][k] \in {"waiting", "bad"}
  BY <1>5 DEF AfterEnds
<1>10. OwnersUntold'
  <2> SUFFICES ASSUME NEW m \in Job, NEW q \in Run, NEW k \in Steps(q), owner'[m] = <<q, k>>
               PROVE  /\ JobAt(q, k) = m
                      /\ <<q, k>> \notin signaled'
                      /\ part'[q][k] \in {"waiting", "bad"}
    BY DEF OwnersUntold
  <2>1. /\ JobAt(q, k) = m
        /\ <<q, k>> \notin signaled \cup Notified({j})
        /\ part[q][k] \in {"waiting", "bad"}
    BY <1>9
  <2> QED
    BY <2>1, <1>2, <1>3
<1>11. SuccessIsReal'
  BY <1>3, <1>5 DEF AfterEnds, SuccessIsReal
<1> QED
  BY <1>4, <1>6, <1>7, <1>8, <1>10, <1>11 DEF Inv, StepsOK

-----------------------------------------------------------------------------
(* The runs as a whole, and the host                                         *)

\* The steps are as they were if none of what is known of them changes.
LEMMA SameSteps ==
  ASSUME StepsOK, UNCHANGED <<part, event, signaled, owner, last, own>>
  PROVE  StepsOK'
BY DEF StepsOK, StepsTyped, EventsOfWaiting, SignaledWait, OwnersUntold, SuccessIsReal

\* The start of a job for no workflow takes it from no step.
LEMMA StartElsewhereKeeps ==
  ASSUME Inv, NEW j \in Job, StartElsewhere(j)
  PROVE  Inv'
<1>1. RunsOK /\ StepsOK
  BY DEF Inv
<1>2. /\ owner[j] = NoOne
      /\ owner' = [owner EXCEPT ![j] = Other]
      /\ UNCHANGED <<up, mem, db, task, cancelling, deaf, cancelled, part, event, signaled,
                     last, own>>
  BY DEF StartElsewhere
<1>3. RunsOK'
  BY <1>1, <1>2 DEF RunsOK, RunsTyped, ResumedUnlessEnded, TasksRun, CancelledEnded, Deaf
<1>4. StepsTyped'
  BY <1>1, <1>2 DEF StepsOK, StepsTyped
<1>5. EventsOfWaiting'
  BY <1>1, <1>2, StepFacts DEF StepsOK, StepsTyped, EventsOfWaiting
<1>6. SignaledWait' /\ SuccessIsReal'
  BY <1>1, <1>2 DEF StepsOK, SignaledWait, SuccessIsReal
<1>7. OwnersUntold'
  BY <1>1, <1>2, StepFacts DEF StepsOK, StepsTyped, OwnersUntold
<1> QED
  BY <1>3, <1>4, <1>5, <1>6, <1>7 DEF Inv, StepsOK

\* A run starts, its task runs for the first time, or its group is over.
LEMMA RunKeeps ==
  ASSUME Inv, NEW r \in Run, StartWorkflow(r) \/ Execute(r) \/ EndGroup(r)
  PROVE  Inv'
<1>1. RunsOK /\ StepsOK
  BY DEF Inv
<1>2. StepsOK'
  BY <1>1, SameSteps DEF StartWorkflow, Execute, EndGroup, jobVars
<1>3. CASE StartWorkflow(r)
  <2>1. /\ mem' = [mem EXCEPT ![r] = "running"]
        /\ db' = [db EXCEPT ![r] = "running"]
        /\ task' \in {task, [task EXCEPT ![r] = "new"]}
        /\ task' # task => up = "up"
        /\ db[r] = "none" /\ mem[r] = "none"
        /\ UNCHANGED <<up, cancelling, deaf, cancelled>>
    BY <1>3 DEF StartWorkflow
  <2>2. r \notin cancelled
    BY <1>1, <2>1 DEF RunsOK, CancelledEnded, Ended
  <2>3. RunsTyped' /\ ResumedUnlessEnded' /\ CancelledEnded'
    BY <1>1, <2>1, <2>2 DEF RunsOK, RunsTyped, ResumedUnlessEnded, CancelledEnded
  <2>4. TasksRun'
    BY <1>1, <2>1 DEF RunsOK, RunsTyped, TasksRun, Deaf
  <2> QED
    BY <1>2, <2>3, <2>4 DEF RunsOK, Inv
<1>4. CASE Execute(r)
  <2>1. /\ task[r] = "new" /\ task' = [task EXCEPT ![r] = "live"]
        /\ UNCHANGED <<up, mem, db, cancelling, deaf, cancelled>>
    BY <1>4 DEF Execute
  <2> QED
    BY <1>1, <1>2, <2>1
       DEF RunsOK, RunsTyped, ResumedUnlessEnded, TasksRun, CancelledEnded, Deaf, Inv
<1>5. CASE EndGroup(r)
  <2>1. /\ \E s \in Ended : Finish(r, s)
        /\ UNCHANGED <<up, deaf, cancelled>>
    BY <1>5 DEF EndGroup, Completed, Ended
  <2> QED
    BY <1>1, <1>2, <2>1, FinishKeeps DEF Inv
<1> QED
  BY <1>3, <1>4, <1>5

\* A cancelled run has ended in memory and in the database; its jobs are stopped.
LEMMA CancelKeeps ==
  ASSUME Inv, NEW r \in Run, CancelWorkflow(r)
  PROVE  Inv'
<1>1. RunsOK /\ StepsOK
  BY DEF Inv
<1>2. StepsOK'
  <2>1. StopsAll(r) \in SUBSET Job
    <3>1. Jobs[r] \in Seq(Job)
      BY WorkflowAssumption
    <3> QED
      BY <3>1 DEF StopsAll, Members
  <2>2. /\ ReadInTime(StopsAll(r), "bad")
        /\ Ends(StopsAll(r), "bad")
        /\ signaled' = signaled \cup Notified(StopsAll(r))
        /\ UNCHANGED <<part, event>>
    BY DEF CancelWorkflow, ReadInTime
  <2> QED
    BY <1>1, <2>1, <2>2, EndedStepsKeep
<1>3. RunsOK'
  <2>1. StatusSaved(r, "cancelled", failures'[r]) \in Ended
    BY DEF StatusSaved, Ended
  <2>2. /\ mem' = [mem EXCEPT ![r] = "cancelled"]
        /\ db' = [db EXCEPT ![r] = StatusSaved(r, "cancelled", failures'[r])]
        /\ cancelling' = cancelling \cup {q \in {r} : task[q] # "none"}
        /\ deaf \subseteq deaf'
        /\ cancelled' = cancelled \cup {r}
        /\ UNCHANGED <<up, task>>
    BY DEF CancelWorkflow, CancelTasks
  <2>3. RunsTyped' /\ ResumedUnlessEnded' /\ CancelledEnded'
    BY <1>1, <2>1, <2>2 DEF RunsOK, RunsTyped, ResumedUnlessEnded, CancelledEnded, Ended
  <2>4. TasksRun'
    BY <1>1, <2>2 DEF RunsOK, RunsTyped, TasksRun, Deaf
  <2> QED
    BY <2>3, <2>4 DEF RunsOK
<1> QED
  BY <1>2, <1>3 DEF Inv

\* A task that sees its cancellation takes its registrations away; nobody tells its
\* steps any more, though their jobs may go on.
LEMMA SeeCancelKeeps ==
  ASSUME Inv, NEW r \in Run, SeeCancel(r)
  PROVE  Inv'
<1>1. RunsOK /\ StepsOK
  BY DEF Inv
<1>2. /\ event' = [j \in Job |->
           IF \E i \in Waiting(r) : JobAt(r, i) = j THEN NoOne ELSE event[j]]
      /\ part' = [part EXCEPT ![r] =
           [i \in Steps(r) |-> IF i \in Waiting(r) THEN "bad" ELSE @[i]]]
      /\ signaled' = {s \in signaled : s[1] # r}
      /\ UNCHANGED <<owner, last, own>>
  BY DEF SeeCancel
<1>3. \A q \in Run : \A k \in Steps(q) :
        part'[q][k] = IF q = r /\ part[q][k] = "waiting" THEN "bad" ELSE part[q][k]
  BY <1>1, <1>2 DEF StepsOK, StepsTyped, Waiting
<1>4. RunsOK'
  <2>3. UNCHANGED <<up, deaf, cancelled>>
    BY DEF SeeCancel
  <2>1. CASE task[r] = "new"
    BY <1>1, <2>1, <2>3
       DEF SeeCancel, RunsOK, RunsTyped, ResumedUnlessEnded, TasksRun, CancelledEnded, Deaf
  <2>2. CASE task[r] # "new"
    BY <1>1, <2>2, <2>3, FinishKeeps DEF SeeCancel, Ended
  <2> QED
    BY <2>1, <2>2
<1>5. StepsTyped'
  BY <1>1, <1>2 DEF StepsOK, StepsTyped
<1>6. EventsOfWaiting'
  <2> SUFFICES ASSUME NEW m \in Job, NEW q \in Run, NEW k \in Steps(q), event'[m] = <<q, k>>
               PROVE  /\ JobAt(q, k) = m /\ part'[q][k] = "waiting"
                      /\ owner'[m] = <<q, k>> \/ <<q, k>> \in signaled'
    BY DEF EventsOfWaiting
  <2>1. event[m] = <<q, k>> /\ \A i \in Waiting(r) : JobAt(r, i) # m
    BY <1>2, StepFacts
  <2>2. /\ JobAt(q, k) = m /\ part[q][k] = "waiting"
        /\ owner[m] = <<q, k>> \/ <<q, k>> \in signaled
    BY <2>1, <1>1 DEF StepsOK, EventsOfWaiting
  <2>3. q # r
    BY <2>1, <2>2 DEF Waiting
  <2> QED
    BY <2>2, <2>3, <1>2, <1>3
<1>7. SignaledWait'
  BY <1>1, <1>2, <1>3 DEF StepsOK, SignaledWait
<1>8. OwnersUntold'
  BY <1>1, <1>2, <1>3 DEF StepsOK, OwnersUntold
<1>9. SuccessIsReal'
  BY <1>1, <1>2, <1>3 DEF StepsOK, SuccessIsReal
<1> QED
  BY <1>4, <1>5, <1>6, <1>7, <1>8, <1>9 DEF Inv, StepsOK

\* The loop of the manager starts and stops.
LEMMA LoopKeeps ==
  ASSUME Inv, StartLoop \/ StopLoop
  PROVE  Inv'
<1>1. RunsOK /\ StepsOK
  BY DEF Inv
<1>2. StepsOK'
  BY <1>1, SameSteps DEF StartLoop, StopLoop, jobVars
<1>3. CASE StartLoop
  BY <1>1, <1>2, <1>3
     DEF StartLoop, RunsOK, RunsTyped, ResumedUnlessEnded, TasksRun, CancelledEnded, Inv
<1>4. CASE StopLoop
  BY <1>1, <1>2, <1>4
     DEF StopLoop, CancelTasks, RunsOK, RunsTyped, ResumedUnlessEnded, TasksRun,
         CancelledEnded, Inv
<1> QED
  BY <1>3, <1>4

\* What the host loads when it starts again, whatever was stopped before it died.
LEMMA RestartKeeps ==
  ASSUME Inv, NEW stopped, Restart(stopped)
  PROVE  Inv'
<1>1. RunsOK /\ StepsOK
  BY DEF Inv
<1>2. RunsOK'
  BY <1>1 DEF Restart, RunsOK, RunsTyped, ResumedUnlessEnded, TasksRun, CancelledEnded, Ended
<1>3. StepsTyped'
  BY <1>1 DEF Restart, Fresh, Outcomes, StepsOK, StepsTyped
<1>4. EventsOfWaiting' /\ SignaledWait' /\ OwnersUntold' /\ SuccessIsReal'
  BY <1>1, StepFacts
     DEF Restart, Fresh, EventsOfWaiting, SignaledWait, OwnersUntold, SuccessIsReal
<1> QED
  BY <1>2, <1>3, <1>4 DEF Inv, StepsOK

\* No run is requested and no job runs at first.
LEMMA InitHolds == Init => Inv
<1> SUFFICES ASSUME Init PROVE Inv
  OBVIOUS
<1>1. RunsOK
  BY DEF Init, RunsOK, RunsTyped, ResumedUnlessEnded, TasksRun, CancelledEnded
<1>2. StepsTyped
  BY DEF Init, Fresh, Outcomes, StepsTyped
<1>3. EventsOfWaiting /\ SignaledWait /\ OwnersUntold /\ SuccessIsReal
  BY StepFacts
     DEF Init, Fresh, EventsOfWaiting, SignaledWait, OwnersUntold, SuccessIsReal
<1> QED
  BY <1>1, <1>2, <1>3 DEF Inv, StepsOK

\* Every step keeps the invariant.
LEMMA NextKeeps == Inv /\ [Next]_vars => Inv'
<1> SUFFICES ASSUME Inv, [Next]_vars PROVE Inv'
  OBVIOUS
<1>1. CASE StartLoop \/ StopLoop
  BY <1>1, LoopKeeps
<1>2. ASSUME Crash \/ \E r \in Run : CrashInCancel(r)
      PROVE  Inv'
  BY <1>2, RestartKeeps DEF Crash, CrashInCancel
<1>3. ASSUME NEW j \in Job, JobEnds(j) \/ StartElsewhere(j)
      PROVE  Inv'
  BY <1>3, JobEndsKeeps, StartElsewhereKeeps
<1>4. ASSUME NEW r \in Run, StartWorkflow(r) \/ Execute(r) \/ EndGroup(r)
      PROVE  Inv'
  BY <1>4, RunKeeps
<1>5. ASSUME NEW r \in Run, CancelWorkflow(r) \/ SeeCancel(r)
      PROVE  Inv'
  BY <1>5, CancelKeeps, SeeCancelKeeps
<1>6. ASSUME NEW r \in Run, NEW i \in Steps(r), BeginStep(r, i) \/ Wake(r, i) \/ Timeout(r, i)
      PROVE  Inv'
  BY <1>6, BeginStepKeeps, WakeKeeps, TimeoutKeeps
<1>7. CASE UNCHANGED vars
  BY <1>7, SameSteps
     DEF vars, taskVars, jobVars, Inv, RunsOK, RunsTyped, ResumedUnlessEnded, TasksRun,
         CancelledEnded, Deaf
<1> QED
  BY <1>1, <1>2, <1>3, <1>4, <1>5, <1>6, <1>7 DEF Next

\* Jobs that end are given to no step.
LEMMA EndsGiveNone ==
  ASSUME NEW js, NEW c, Ends(js, c), NEW j \in Job
  PROVE  owner'[j] \in {NoOne, owner[j]}
BY DEF Ends

\* A step is given its job by its own beginning only.
LEMMA BegunByItself ==
  ASSUME Inv, [Next]_vars, NEW r \in Run, NEW i \in Steps(r),
         owner[JobAt(r, i)] # <<r, i>>, owner'[JobAt(r, i)] = <<r, i>>
  PROVE  BeginStep(r, i)
<1> DEFINE j == JobAt(r, i)
<1>1. j \in Job /\ <<r, i>> # NoOne /\ <<r, i>> # Other
  BY StepFacts
<1>2. owner' # owner
  OBVIOUS
<1>3. owner'[j] \notin {NoOne, owner[j], Other}
  BY <1>1
<1>4. ASSUME NEW q \in Run, NEW k \in Steps(q), BeginStep(q, k)
      PROVE  BeginStep(r, i)
  <2>1. owner' = [owner EXCEPT ![JobAt(q, k)] = <<q, k>>]
    BY <1>4, <1>2 DEF BeginStep
  <2>2. owner \in [Job -> AllSteps \cup {NoOne, Other}]
    BY DEF Inv, StepsOK, StepsTyped
  <2>3. q = r /\ k = i
    BY <2>1, <2>2, <1>1
  <2> QED
    BY <2>3, <1>4
<1>5. ASSUME NEW q \in Run, NEW k \in Steps(q), Timeout(q, k)
      PROVE  FALSE
  BY <1>5, <1>1, <1>3, EndsGiveNone DEF Timeout
<1>6. ASSUME NEW q \in Run, CancelWorkflow(q)
      PROVE  FALSE
  BY <1>6, <1>1, <1>3, EndsGiveNone DEF CancelWorkflow
<1>7. ASSUME NEW m \in Job, JobEnds(m)
      PROVE  FALSE
  BY <1>7, <1>1, <1>3, EndsGiveNone DEF JobEnds
<1>8. ASSUME NEW m \in Job, StartElsewhere(m)
      PROVE  FALSE
  <2>1. owner' = [owner EXCEPT ![m] = Other]
    BY <1>8 DEF StartElsewhere
  <2>2. owner \in [Job -> AllSteps \cup {NoOne, Other}]
    BY DEF Inv, StepsOK, StepsTyped
  <2> QED
    BY <2>1, <2>2, <1>1, <1>3
<1>9. ASSUME NEW stopped, Restart(stopped)
      PROVE  FALSE
  BY <1>9, <1>1, <1>3 DEF Restart
<1>10. ASSUME NEW q \in Run, NEW k \in Steps(q), Wake(q, k)
       PROVE  FALSE
  BY <1>10, <1>2 DEF Wake
<1>11. ASSUME NEW q \in Run, StartWorkflow(q) \/ Execute(q) \/ EndGroup(q) \/ SeeCancel(q)
       PROVE  FALSE
  BY <1>11, <1>2 DEF StartWorkflow, Execute, EndGroup, SeeCancel, jobVars
<1>12. CASE StartLoop \/ StopLoop \/ UNCHANGED vars
  BY <1>12, <1>2 DEF StartLoop, StopLoop, vars, jobVars
<1> QED
  BY <1>4, <1>5, <1>6, <1>7, <1>8, <1>9, <1>10, <1>11, <1>12 DEF Next, Crash, CrashInCancel

-----------------------------------------------------------------------------
(* The theorems                                                              *)

\* The inductive invariant holds of every reachable state of the manager.
THEOREM Invariance == Spec => []Inv
<1>1. Init => Inv
  BY InitHolds
<1>2. Inv /\ [Next]_vars => Inv'
  BY NextKeeps
<1> QED
  BY <1>1, <1>2, PTL DEF Spec

\* No step counts as succeeded but by the success of the very job it started,
\* although the event and the newest result belong to the job.
THEOREM SuccessesAreReal == Spec => []SuccessIsReal
<1>1. Inv => SuccessIsReal
  BY DEF Inv, StepsOK
<1> QED
  BY <1>1, Invariance, PTL

\* A restart resumes exactly the runs that had not ended: memory and database agree
\* at every step about what runs, and a run whose cancellation was reported to the
\* caller never runs again, in this life of the host or a later one.
THEOREM RunsAreResumed == Spec => []ResumedUnlessEnded
<1>1. Inv => ResumedUnlessEnded
  BY DEF Inv, RunsOK
<1> QED
  BY <1>1, Invariance, PTL

\* Once cancel_workflow has returned, or the loop is stopped, nothing is started for
\* the run, but by a task whose step had been told of the end of its job when the
\* cancellation came.
THEOREM CancelledStartsNothing == Spec => NoStartAfterCancel
<1>1. Inv /\ [Next]_vars =>
        [\A r \in Run : \A i \in Steps(r) :
           (owner[JobAt(r, i)] # <<r, i>> /\ owner'[JobAt(r, i)] = <<r, i>>)
             => /\ r \notin cancelling
                /\ \/ up = "up" /\ r \notin cancelled
                   \/ \E k \in Steps(r) : <<r, k>> \in deaf]_vars
  <2> SUFFICES ASSUME Inv, [Next]_vars, NEW r \in Run, NEW i \in Steps(r),
                      owner[JobAt(r, i)] # <<r, i>>, owner'[JobAt(r, i)] = <<r, i>>
               PROVE  /\ r \notin cancelling
                      /\ \/ up = "up" /\ r \notin cancelled
                         \/ Deaf(r)
    BY DEF Deaf
  <2>1. BeginStep(r, i)
    BY BegunByItself
  <2>2. task[r] = "live" /\ r \notin cancelling
    BY <2>1 DEF BeginStep, MayBegin
  <2> QED
    BY <2>2 DEF Inv, RunsOK, TasksRun, ResumedUnlessEnded
<1> QED
  BY <1>1, Invariance, PTL DEF Spec, NoStartAfterCancel
=============================================================================
