---------------------------- MODULE HealingQueue ----------------------------
(***************************************************************************)
(* The queue of self-healing requests (core/healing_queue.py) and the task *)
(* of the supervisor that works through it (core/self_healing.py).  A run  *)
(* that fails for good asks for healing; one request at a time is sent to  *)
(* an agent, which answers by writing a file; the task polls for the file  *)
(* and gives up on the agent after a while.                                *)
(*                                                                         *)
(* The methods are coroutines, but none of them suspends: the lock is      *)
(* never held across an await that waits, and send_to_session writes a     *)
(* file when it is not asked for immediate delivery.  Each call is one     *)
(* step.  A request is identified with the run it is about.                *)
(***************************************************************************)
EXTENDS Naturals, SequencesExt

CONSTANTS
  RunId,        \* failed runs
  NoRun,        \* None
  JobOf,        \* JobOf[r]: the job of run r
  Answers,      \* what _parse_response may find in a response file
  CanRestart,   \* TRUE: the daemon may crash and start again
  CanFail       \* TRUE: an update of the database may raise

ASSUME NoRunAssumption == NoRun \notin RunId
ASSUME AnswersAssumption == Answers \subseteq {"fixed", "manual", "gave_up", "unknown"}
ASSUME FlagsAssumption == {CanRestart, CanFail} \subseteq BOOLEAN

VARIABLES
  pending,      \* _queue
  current,      \* _current: sent to the agent, state WAITING_RESPONSE
  late,         \* HEALING_RESPONSE_TIMEOUT_SECONDS have passed since sent_at
  state,        \* state[r]: HealingState of the request once it has ended
  answer,       \* what the response file of the current request says
  healing,      \* healing[r]: healing_status in the row of run r
  recent,       \* the runs among the 500 newest, which _get_run looks at
  requested     \* history: the requests created, in order

healingVars == <<pending, current, late, state, answer, healing, recent, requested>>

EndStates == {"completed", "failed", "cancelled", "timeout", "lost"}
Absent == "none"

\* HealingStatus has no SUCCESS and no FAILURE: storing one of these raises.
Unstorable == {"fixed", "gave_up", "unknown"}

-----------------------------------------------------------------------------
HealingInit ==
  /\ pending = <<>>
  /\ current = NoRun
  /\ late = FALSE
  /\ state = [r \in RunId |-> Absent]
  /\ answer = Absent
  /\ healing = [r \in RunId |-> Absent]
  /\ recent = RunId
  /\ requested = <<>>

\* The requests that have not ended.
Live == Range(pending) \cup ({current} \ {NoRun})

Queued(j) == \E i \in 1..Len(pending) : JobOf[pending[i]] = j
Current(j) == current # NoRun /\ JobOf[current] = j

KnownQueued(j) == Queued(j)                     \* fault: _current is not looked at

\* enqueue returns an existing request of the job instead of a new one.
Known(j) == Queued(j) \/ Current(j)

\* trigger_healing: the row says "queued" also when an older request of the job
\* stands for it.
TriggerHealing(r) ==
  /\ healing[r] = Absent /\ r \notin Range(requested)
  /\ IF Known(JobOf[r])
     THEN UNCHANGED <<pending, requested>>
     ELSE /\ pending' = Append(pending, r)
          /\ requested' = Append(requested, r)
  /\ \/ healing' = [healing EXCEPT ![r] = "queued"]
     \/ CanFail /\ UNCHANGED healing
  /\ UNCHANGED <<current, late, state, answer, recent>>

\* Rows older than the 500 newest are out of reach of _get_run.
Row(r, status) ==
  IF r \in recent THEN [healing EXCEPT ![r] = status] ELSE healing

\* dequeue's popleft.  No request is ever in _cancelled_ids.
Popped == [request |-> Head(pending), rest |-> Tail(pending)]

\* process_queue with nothing to wait for: the head of the queue is sent.
Send ==
  /\ current = NoRun
  /\ pending # <<>>
  /\ pending' = Popped.rest
  /\ current' = Popped.request
  /\ late' = FALSE
  /\ healing' = Row(Popped.request, "waiting_response")
  /\ UNCHANGED <<state, answer, recent, requested>>

\* The update after mark_sent raises: the request is completed as failed, although
\* the agent has it.
SendFails ==
  /\ CanFail
  /\ current = NoRun
  /\ pending # <<>>
  /\ pending' = Popped.rest
  /\ state' = [state EXCEPT ![Popped.request] = "failed"]
  /\ UNCHANGED <<current, late, answer, healing, recent, requested>>

\* complete and timeout_current: the request goes to the history.  Its response
\* file is removed, or is left behind and never read: no other request has its id.
End(how) ==
  /\ state' = [state EXCEPT ![current] = how]
  /\ current' = NoRun
  /\ late' = FALSE
  /\ answer' = Absent
  /\ UNCHANGED <<pending, recent, requested>>

\* The answer cannot be stored: the poll raises, and so will the next one.
Stuck ==
  /\ current \in recent
  /\ answer \in Unstorable

\* _check_healing_response with a response file.  If an update raises before
\* anything has changed, the next poll tries again.
TakeResponse ==
  /\ current # NoRun
  /\ answer # Absent
  /\ ~Stuck
  /\ healing' = Row(current, "gave_up")
  /\ End(IF answer = "fixed" THEN "completed" ELSE "failed")

ExpiredNever == FALSE                           \* fault: sent_at is never set
Expired == late /\ answer = Absent

\* _check_healing_response without one, once the time is up.
TimeOut ==
  /\ current # NoRun
  /\ Expired
  /\ healing' = Row(current, "timeout")
  /\ End("timeout")

Poll == Send \/ SendFails \/ TakeResponse \/ TimeOut

\* The filter of cancel: a job has one request at most (OneRequestPerJob).
Uncancelled(j) ==
  IF Queued(j)
  THEN RemoveAt(pending, CHOOSE i \in 1..Len(pending) : JobOf[pending[i]] = j)
  ELSE pending

\* cancel, called by the API: the request of the job ends, its row stays as it is.
Cancel(j) ==
  /\ Known(j)
  /\ LET freed == Current(j) IN
     /\ pending' = Uncancelled(j)
     /\ current' = IF freed THEN NoRun ELSE current
     /\ late' = (late /\ ~freed)
     /\ answer' = IF freed THEN Absent ELSE answer
     /\ state' = [r \in RunId |->
                    IF r \in Live /\ JobOf[r] = j THEN "cancelled" ELSE state[r]]
  /\ UNCHANGED <<healing, recent, requested>>

-----------------------------------------------------------------------------
(* The agent, the clock, newer runs and a crash                            *)

\* The agent writes the file; a reader may find it not yet written to the end.
Respond ==
  /\ current # NoRun
  /\ answer \in {Absent, "unknown"}
  /\ answer' \in Answers
  /\ UNCHANGED <<pending, current, late, state, healing, recent, requested>>

TimePasses ==
  /\ current # NoRun
  /\ ~late
  /\ late' = TRUE
  /\ UNCHANGED <<pending, current, state, answer, healing, recent, requested>>

\* 500 newer runs of any jobs are recorded.
Age(r) ==
  /\ r \in recent
  /\ healing[r] # Absent
  /\ recent' = recent \ {r}
  /\ UNCHANGED <<pending, current, late, state, answer, healing, requested>>

\* The queue is in memory only.
HealingRestart ==
  /\ CanRestart
  /\ current # NoRun \/ pending # <<>>
  /\ pending' = <<>>
  /\ current' = NoRun
  /\ late' = FALSE
  /\ state' = [r \in RunId |->
                 IF r \in Live THEN "lost" ELSE state[r]]
  /\ answer' = Absent
  /\ UNCHANGED <<healing, recent, requested>>

HealingNext ==
  \/ Poll \/ Respond \/ TimePasses \/ HealingRestart
  \/ \E r \in RunId : TriggerHealing(r) \/ Age(r)
  \/ \E r \in RunId : Cancel(JobOf[r])

HealingSpec == HealingInit /\ [][HealingNext]_healingVars

\* _run_healing_queue polls every 30 seconds, and time passes; the agent owes
\* nothing.
FairHealing == HealingSpec /\ WF_healingVars(Poll) /\ WF_healingVars(TimePasses)

-----------------------------------------------------------------------------
(* Properties                                                              *)

\* Types; a run asks once, and only the current request waits and is answered.
HealingTypeOK ==
  /\ pending \in Seq(RunId) /\ requested \in Seq(RunId)
  /\ IsInjective(requested)
  /\ current \in RunId \cup {NoRun}
  /\ late \in BOOLEAN /\ (late => current # NoRun)
  /\ state \in [RunId -> EndStates \cup {Absent}]
  /\ answer \in Answers \cup {Absent} /\ (answer # Absent => current # NoRun)
  /\ healing \in [RunId -> {Absent, "queued", "waiting_response", "gave_up", "timeout"}]
  /\ recent \subseteq RunId

\* The queue holds one request of a job at most, waiting or with the agent, however
\* often it fails meanwhile.  It says nothing of the agent's sessions: one whose
\* request failed half-way through its sending, timed out, was cancelled or was lost
\* at a restart goes on, beside that of the job's next request.
OneRequestPerJob ==
  \A r, s \in Live : JobOf[r] = JobOf[s] => r = s

\* The queue moves on: every request ends, answered or timed out, unless the one
\* with the agent has an answer that cannot be stored.
EndsUnlessStuck ==
  \A r \in RunId : (r \in Live) ~> (state[r] # Absent \/ Stuck)

=============================================================================
