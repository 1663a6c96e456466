------------------------------- MODULE Reviews ------------------------------
(***************************************************************************)
(* Proactive reviews and the suggestions they make: HealingEngine and      *)
(* ProactiveScheduler of core/healing_engine.py, the healing tables of     *)
(* db.py, and the API handlers that approve, reject, apply and roll back.  *)
(*                                                                         *)
(* A review waits for a semaphore, then for the OpenClaw jobs to end, and  *)
(* has the agent analyse the job; it is a task of its own or part of the   *)
(* scheduler's loop.  Applying a suggestion writes a file of the job, with *)
(* a content that came with the suggestion or that the agent is asked for  *)
(* now, which takes up to a minute and a half.                             *)
(*                                                                         *)
(* A suggestion has the number of its review.  Contents of files are       *)
(* numbers: 0 at first, r for the one that came with suggestion r, and new *)
(* ones for what the agent or the operator writes.                         *)
(***************************************************************************)
EXTENDS Naturals, Sequences, FiniteSets

CONSTANTS
  Job,        \* jobs with proactive healing
  EnabledToday, \* of them, those with healing enabled on the day of the check
  Kinds,      \* suggestions of the agent: "auto", "plain", "ready" or "ask"
  MaxReviews, \* bound: reviews requested
  MaxWrites,  \* bound: contents written by the agent or the operator
  MaxActions, \* bound: rows of healing_actions
  MaxDowns    \* bound: times the daemon ends

ASSUME ReviewsAssumption ==
  /\ EnabledToday \subseteq Job
  /\ Kinds \subseteq {"auto", "plain", "ready", "ask"}
  /\ MaxReviews \in Nat /\ MaxWrites \in Nat /\ MaxActions \in Nat /\ MaxDowns \in Nat

VARIABLES
  up, downs,
  requests,   \* the reviews requested: the job of each, and how far it has come
  running,    \* _running_reviews: the review of each job, 0 if none
  row,        \* healing_reviews.status
  agents,     \* an OpenClaw job runs
  left,       \* jobs the pass of the scheduler has still to look at
  looping,    \* the review the scheduler's loop waits for, 0 if none
  lastCheck,  \* _last_check: "none", "recent", or "old" if the interval has passed
  turns,      \* history: scheduled reviews since the interval last passed
  suggestion, \* status, kind and current_content of each suggestion
  actions,    \* healing_actions
  asked,      \* original contents of the applications the agent is working on
  cut,        \* history: suggestions in whose books the daemon died half-way
  file,       \* content of the file of each job
  writes

reviewVars == <<requests, running, row, agents, left, looping, lastCheck, turns>>
suggestionVars == <<suggestion, actions, asked, cut, file, writes>>
vars == <<up, downs, reviewVars, suggestionVars>>

Review == 1..MaxReviews
NoSuggestion == [status |-> "none", kind |-> "none", current |-> 0]

JobOf(r) == requests[r].job
Stage(r) == IF r \in DOMAIN requests THEN requests[r].stage ELSE "none"

TypeOK ==
  /\ up \in BOOLEAN /\ downs \in 0..MaxDowns
  /\ requests \in Seq([job : Job, stage : {"queued", "slot", "analysing", "over"}])
  /\ running \in [Job -> 0..MaxReviews]
  /\ row \in [Review -> {"none", "running", "completed", "skipped", "failed"}]
  /\ agents \in BOOLEAN /\ left \subseteq Job /\ looping \in 0..MaxReviews
  /\ lastCheck \in [Job -> {"none", "recent", "old"}]
  /\ suggestion \in [Review -> [status : {"none", "pending", "approved", "rejected",
                                          "applied", "failed"},
                                kind : Kinds \cup {"none"}, current : Nat]]
  /\ Len(actions) <= MaxActions /\ cut \subseteq Review
  /\ file \in [Job -> Nat]

Init ==
  /\ up = TRUE /\ downs = 0
  /\ requests = <<>>
  /\ running = [j \in Job |-> 0]
  /\ row = [r \in Review |-> "none"]
  /\ agents = FALSE /\ left = {} /\ looping = 0
  /\ lastCheck = [j \in Job |-> "none"]
  /\ turns = [j \in Job |-> 0]
  /\ suggestion = [r \in Review |-> NoSuggestion]
  /\ actions = <<>>
  /\ asked = [r \in Review |-> <<>>] /\ cut = {}
  /\ file = [j \in Job |-> 0]
  /\ writes = 0

-----------------------------------------------------------------------------
(* Requests of reviews                                                       *)

Request(j) ==
  /\ Len(requests) < MaxReviews
  /\ requests' = Append(requests, [job |-> j, stage |-> "queued"])

\* The API refuses a review that is running, not one that waits for the semaphore.
TriggerReview(j) ==
  /\ up /\ running[j] = 0
  /\ Request(j)
  /\ UNCHANGED <<up, downs, running, row, agents, left, looping, lastCheck, turns,
                 suggestionVars>>

\* A failure or an SLA breach asks for a review without looking.
TriggerOnEvent(j) ==
  /\ up
  /\ Request(j)
  /\ UNCHANGED <<up, downs, running, row, agents, left, looping, lastCheck, turns,
                 suggestionVars>>

\* _check_jobs goes over the jobs, once a minute, and waits for each review.
BeginPass ==
  /\ up /\ left = {} /\ looping = 0
  /\ left' = Job
  /\ UNCHANGED <<up, downs, requests, running, row, agents, looping, lastCheck, turns,
                 suggestionVars>>

\* _is_due: a job may also be out of its time window, or have too few runs.
Due(j) == lastCheck[j] = "old" \/ (lastCheck[j] = "none" /\ j \notin EnabledToday)

LookAt(j) ==
  /\ up /\ looping = 0 /\ j \in left
  /\ left' = left \ {j}
  /\ \/ UNCHANGED <<requests, looping, lastCheck, turns>>
     \/ /\ running[j] = 0 /\ lastCheck[j] = "none" /\ j \in EnabledToday
        /\ lastCheck' = [lastCheck EXCEPT ![j] = "recent"]
        /\ UNCHANGED <<requests, looping, turns>>
     \/ /\ running[j] = 0 /\ Due(j)
        /\ Request(j)
        /\ looping' = Len(requests) + 1
        /\ turns' = [turns EXCEPT ![j] = @ + 1]
        /\ UNCHANGED lastCheck
  /\ UNCHANGED <<up, downs, running, row, agents, suggestionVars>>

IntervalPasses(j) ==
  /\ lastCheck[j] = "recent"
  /\ lastCheck' = [lastCheck EXCEPT ![j] = "old"]
  /\ turns' = [turns EXCEPT ![j] = 0]
  /\ UNCHANGED <<up, downs, requests, running, row, agents, left, looping,
                 suggestionVars>>

-----------------------------------------------------------------------------
(* A review                                                                  *)

MovesTo(r, stage) == requests' = [requests EXCEPT ![r].stage = stage]

\* Fault: a review that was skipped or has failed is due again.
CheckedIfCompleted(j, status) ==
  IF status = "completed" THEN [lastCheck EXCEPT ![j] = "recent"] ELSE lastCheck

\* The scheduler notes that it has looked, however the review ended.
Checked(j, status) == [lastCheck EXCEPT ![j] = "recent"]

RowAfter(r, status) == [row EXCEPT ![r] = status]

\* run_review returns or raises; the scheduler's loop goes on with the next job.
Ends(r, status) ==
  /\ MovesTo(r, "over")
  /\ row' = RowAfter(r, status)
  /\ running' = IF running[JobOf(r)] = r THEN [running EXCEPT ![JobOf(r)] = 0] ELSE running
  /\ looping' = IF looping = r THEN 0 ELSE looping
  /\ lastCheck' = IF looping = r THEN Checked(JobOf(r), status) ELSE lastCheck
  /\ UNCHANGED <<up, downs, agents, left, turns>>

\* The semaphore lets the first of those that wait in.
SemaphoreFree(r) ==
  /\ Stage(r) = "queued"
  /\ \A q \in Review : Stage(q) \notin {"slot", "analysing"}
  /\ \A q \in 1..(r - 1) : Stage(q) # "queued"

Acquire(r) ==
  /\ up /\ SemaphoreFree(r)
  /\ MovesTo(r, "slot")
  /\ UNCHANGED <<up, downs, running, row, agents, left, looping, lastCheck, turns,
                 suggestionVars>>

\* _run_review_internal up to the call of the agent.
BeginReview(r) ==
  /\ up /\ Stage(r) = "slot" /\ ~agents
  /\ MovesTo(r, "analysing")
  /\ row' = [row EXCEPT ![r] = "running"]
  /\ running' = [running EXCEPT ![JobOf(r)] = r]
  /\ UNCHANGED <<up, downs, agents, left, looping, lastCheck, turns, suggestionVars>>

\* Fault: waits for the OpenClaw jobs as long as they run.
PatienceUnlimited(r) == FALSE

\* OPENCLAW_MAX_WAIT is over while an OpenClaw job still runs.
PatienceEnds(r) == Stage(r) = "slot" /\ agents

GiveUp(r) ==
  /\ up /\ PatienceEnds(r)
  /\ Ends(r, "skipped")
  /\ UNCHANGED suggestionVars

\* The job has too few runs since its last review, is gone, or something fails.
FailReview(r) ==
  /\ up /\ Stage(r) = "analysing"
  /\ \E status \in {"skipped", "failed"} : Ends(r, status)
  /\ UNCHANGED suggestionVars

\* What the answer of the agent holds.  The severity and the category of a suggestion
\* decide whether it is to be applied automatically; then it is marked as applied, and
\* nothing is changed.
Parsed(r) ==
  {[status |-> IF k = "auto" THEN "applied" ELSE "pending",
    kind |-> k, current |-> file[JobOf(r)]] : k \in Kinds}

\* The agent is called, which may take too long, fail, or give nothing to parse.
Analysed(r) == {NoSuggestion} \cup Parsed(r)

CompleteReview(r) ==
  /\ up /\ Stage(r) = "analysing"
  /\ Ends(r, "completed")
  /\ \E s \in Analysed(r) : suggestion' = [suggestion EXCEPT ![r] = s]
  /\ UNCHANGED <<actions, asked, cut, file, writes>>

AgentsChange ==
  /\ agents' = ~agents
  /\ UNCHANGED <<up, downs, requests, running, row, left, looping, lastCheck, turns,
                 suggestionVars>>

-----------------------------------------------------------------------------
(* Suggestions                                                               *)

Marked(r, status) == [suggestion EXCEPT ![r].status = status]

\* "can" is can_rollback: there is an original content.
Action(r, before, original, new) ==
  [of |-> r, before |-> before, original |-> original, new |-> new,
   can |-> TRUE, status |-> "success"]
FailedAction(r) ==
  [of |-> r, before |-> 0, original |-> 0, new |-> 0, can |-> FALSE, status |-> "failed"]

Decide(r, status) ==
  /\ up /\ suggestion[r].status = "pending"
  /\ suggestion' = Marked(r, status)
  /\ UNCHANGED <<up, downs, reviewVars, actions, asked, cut, file, writes>>

Approve(r) == Decide(r, "approved")
Reject(r) == Decide(r, "rejected")

\* Fault: keeps what the review has seen for the rollback.
CurrentContent(r) == suggestion[r].current

\* The original content that is kept for the rollback: read just before it is
\* overwritten.
Original(r) == file[JobOf(r)]

\* _apply_pregenerated_content
Overwritten(r) == [file EXCEPT ![JobOf(r)] = r]

\* apply_approved_suggestion fails: file not found, not of this job, much shorter.
ApplyFails(r) ==
  /\ Len(actions) < MaxActions
  /\ actions' = Append(actions, FailedAction(r))
  /\ suggestion' = Marked(r, "failed")

\* A suggestion without files, or with its content: no await in between.
Apply(r) ==
  /\ up /\ suggestion[r].status = "approved"
  /\ \/ /\ suggestion[r].kind = "plain"
        /\ suggestion' = Marked(r, "applied")
        /\ UNCHANGED <<actions, file>>
     \/ /\ suggestion[r].kind = "ready"
        /\ \/ ApplyFails(r) /\ UNCHANGED file
           \/ /\ Len(actions) < MaxActions
              /\ file' = Overwritten(r)
              /\ actions' = Append(actions, Action(r, file[JobOf(r)], Original(r), r))
              /\ suggestion' = Marked(r, "applied")
  /\ UNCHANGED <<up, downs, reviewVars, asked, cut, writes>>

\* A suggestion whose change the agent is to make; the file is read first.
Ask(r) ==
  /\ up /\ suggestion[r].status = "approved" /\ suggestion[r].kind = "ask"
  /\ Len(asked[r]) < 2
  /\ asked' = [asked EXCEPT ![r] = Append(@, file[JobOf(r)])]
  /\ UNCHANGED <<up, downs, reviewVars, suggestion, actions, cut, file, writes>>

\* The status of the suggestion is not looked at again when the agent has answered.
Answer(r) ==
  /\ up /\ asked[r] # <<>>
  /\ asked' = [asked EXCEPT ![r] = Tail(@)]
  /\ \/ ApplyFails(r) /\ UNCHANGED <<file, writes>>
     \/ /\ Len(actions) < MaxActions /\ writes < MaxWrites
        /\ writes' = writes + 1
        /\ file' = [file EXCEPT ![JobOf(r)] = MaxReviews + writes']
        /\ actions' = Append(actions, Action(r, file[JobOf(r)], Head(asked[r]), file'[JobOf(r)]))
        /\ suggestion' = Marked(r, "applied")
  /\ UNCHANGED <<up, downs, reviewVars, cut>>

\* Fault: an action can be rolled back again.
CanRollbackAgain(k) == actions[k].can

CanRollback(k) == actions[k].can /\ actions[k].status # "rolled_back"

\* update_healing_action
Became(k, status) == [actions EXCEPT ![k].status = status]

\* The original content, which is written back whatever the file holds by now.
Restored(k) == [file EXCEPT ![JobOf(actions[k].of)] = actions[k].original]

Rollback(k) ==
  /\ up /\ CanRollback(k)
  /\ file' = Restored(k)
  /\ actions' = Became(k, "rolled_back")
  /\ suggestion' = Marked(actions[k].of, "pending")
  /\ UNCHANGED <<up, downs, reviewVars, asked, cut, writes>>

\* The content cannot be written: the action has failed and may be rolled back later,
\* and the suggestion stays applied.
RollbackFails(k) ==
  /\ up /\ CanRollback(k)
  /\ actions' = Became(k, "failed")
  /\ UNCHANGED <<up, downs, reviewVars, suggestion, asked, cut, file, writes>>

EditFile(j) ==
  /\ writes < MaxWrites
  /\ writes' = writes + 1
  /\ file' = [file EXCEPT ![j] = MaxReviews + writes']
  /\ UNCHANGED <<up, downs, reviewVars, suggestion, actions, asked, cut>>

-----------------------------------------------------------------------------
(* The daemon ends, on request or by a crash, and starts again: tasks are    *)
(* gone, and rows are left as they are.  The file, the action and the        *)
(* suggestion are written one after the other, and a crash may come between. *)

Dies ==
  /\ up /\ downs < MaxDowns
  /\ up' = FALSE /\ downs' = downs + 1
  /\ requests' = [r \in DOMAIN requests |-> [requests[r] EXCEPT !.stage = "over"]]
  /\ running' = [j \in Job |-> 0]
  /\ left' = {} /\ looping' = 0
  /\ lastCheck' = [j \in Job |-> "none"]
  /\ turns' = [j \in Job |-> 0]
  /\ asked' = [r \in Review |-> <<>>]
  /\ UNCHANGED <<row, agents>>

GoDown == Dies /\ UNCHANGED <<suggestion, actions, cut, file, writes>>

\* The action of an application that is under way and will succeed.
Underway(r) ==
  CASE suggestion[r].kind = "ready" /\ suggestion[r].status = "approved" ->
         {Action(r, file[JobOf(r)], Original(r), r)}
    [] asked[r] # <<>> /\ writes < MaxWrites ->
         {Action(r, file[JobOf(r)], Head(asked[r]), MaxReviews + writes + 1)}
    [] OTHER -> {}

\* The file is written, and perhaps the action; the suggestion is not marked.
DiesApplying(r) ==
  /\ \E a \in Underway(r) :
       /\ file' = [file EXCEPT ![JobOf(r)] = a.new]
       /\ writes' = IF suggestion[r].kind = "ready" THEN writes ELSE writes + 1
       /\ \/ UNCHANGED <<actions, cut>>
          \/ /\ Len(actions) < MaxActions
             /\ actions' = Append(actions, a)
             /\ cut' = cut \cup {r}
  /\ Dies
  /\ UNCHANGED suggestion

\* So with an application that fails: the suggestion stays approved.
DiesFailing(r) ==
  /\ (suggestion[r].status = "approved" /\ suggestion[r].kind = "ready") \/ asked[r] # <<>>
  /\ Len(actions) < MaxActions
  /\ actions' = Append(actions, FailedAction(r))
  /\ Dies
  /\ UNCHANGED <<suggestion, cut, file, writes>>

DiesRollingBack(k) ==
  /\ CanRollback(k)
  /\ file' = Restored(k)
  /\ \/ UNCHANGED <<actions, cut>>
     \/ /\ actions' = Became(k, "rolled_back")
        /\ cut' = cut \cup {actions[k].of}
  /\ Dies
  /\ UNCHANGED <<suggestion, writes>>

ComeUp ==
  /\ ~up
  /\ up' = TRUE
  /\ UNCHANGED <<downs, reviewVars, suggestionVars>>

Next ==
  \/ BeginPass \/ AgentsChange \/ GoDown \/ ComeUp
  \/ \E j \in Job :
       TriggerReview(j) \/ TriggerOnEvent(j) \/ LookAt(j) \/ IntervalPasses(j) \/ EditFile(j)
  \/ \E r \in Review :
       \/ Acquire(r) \/ BeginReview(r) \/ GiveUp(r) \/ FailReview(r) \/ CompleteReview(r)
       \/ Approve(r) \/ Reject(r) \/ Apply(r) \/ Ask(r) \/ Answer(r)
       \/ DiesApplying(r) \/ DiesFailing(r)
  \/ \E k \in DOMAIN actions : Rollback(k) \/ RollbackFails(k) \/ DiesRollingBack(k)

Spec == Init /\ [][Next]_vars

\* Tasks go on, and the agent answers or is timed out.  OpenClaw jobs may run for ever.
FairSpec ==
  /\ Spec
  /\ \A r \in Review :
       /\ WF_vars(Acquire(r)) /\ WF_vars(GiveUp(r))
       /\ WF_vars(BeginReview(r) \/ GiveUp(r))
       /\ WF_vars(FailReview(r) \/ CompleteReview(r))

-----------------------------------------------------------------------------
(* Properties                                                                *)

\* The schedule reviews a job once in its interval, also if the review is skipped or
\* fails, unless the daemon is restarted.
OncePerInterval == \A j \in Job : turns[j] <= 1

\* What is in force of a suggestion: its changes that were not rolled back, also if
\* rolling back was tried and failed.
InForce(r) ==
  {k \in DOMAIN actions :
     actions[k].of = r /\ actions[k].can /\ actions[k].status # "rolled_back"}

\* Through any sequence of approvals, applications, rollbacks, failed or not, and
\* restarts, a suggestion that came with its content has one change in force when its
\* status is applied, and none otherwise: unless the daemon died between the record of
\* the action and that of the suggestion, which leave each other behind.
StatusMatchesActions ==
  \A r \in Review \ cut : suggestion[r].kind = "ready" =>
    Cardinality(InForce(r)) = (IF suggestion[r].status = "applied" THEN 1 ELSE 0)

RollsBack(k) == actions[k].status # "rolled_back" /\ actions'[k].status = "rolled_back"

\* Rolling back such a suggestion gives the file the content it had just before.
RollbackRestores ==
  [][ \A k \in DOMAIN actions :
        (suggestion[actions[k].of].kind = "ready" /\ RollsBack(k))
          => file'[JobOf(actions[k].of)] = actions[k].before ]_vars

\* Every review that was asked for ends, also if OpenClaw jobs run for ever and
\* others before it fail.
EveryReviewEnds ==
  \A r \in Review : Stage(r) = "queued" ~> Stage(r) = "over"

=============================================================================
