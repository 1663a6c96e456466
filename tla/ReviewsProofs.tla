---------------------------- MODULE ReviewsProofs ----------------------------
(***************************************************************************)
(* A job is reviewed once in its interval, and a suggestion is in force    *)
(* exactly while its status says so and rolled back to what its file held: *)
(* for every set of jobs and number of reviews, however reviews end, users *)
(* decide, files are edited and the daemon restarts.                       *)
(***************************************************************************)
EXTENDS Reviews, Integers, SequenceTheorems, FiniteSetTheorems, TLAPS

\* Requests, suggestions and actions as they can be.
Requests == [job : Job, stage : {"queued", "slot", "analysing", "over"}]
Suggestions ==
  [status : {"none", "pending", "approved", "rejected", "applied", "failed"},
   kind : {"auto", "plain", "ready", "ask", "none"}, current : Nat]
Actions == [of : Review, before : Nat, original : Nat, new : Nat, can : BOOLEAN,
            status : {"success", "failed", "rolled_back"}]

\* A job whose turn was taken is not due, or the loop waits for its review.
TurnsTaken ==
  \A j \in Job : /\ turns[j] <= 1
                 /\ turns[j] = 1 => lastCheck[j] = "recent"
                                    \/ (looping # 0 /\ JobOf(looping) = j)

Scheduled ==
  /\ requests \in Seq(Requests)
  /\ looping \in 0..Len(requests)
  /\ turns \in [Job -> Nat]
  /\ lastCheck \in [Job -> {"none", "recent", "old"}]
  /\ TurnsTaken

\* A review that is not over has no suggestion yet, and nothing was done about it.
NothingYet ==
  \A r \in Review : Stage(r) # "over" =>
    /\ suggestion[r] = NoSuggestion /\ asked[r] = <<>>
    /\ \A k \in DOMAIN actions : actions[k].of # r

\* The agent works on what the agent is to make.
OnlyAsked == \A r \in Review : asked[r] # <<>> => suggestion[r].kind = "ask"

\* A suggestion with its content is in force once or not at all, and is rolled back to
\* what its file held, unless its records were cut.
OneInForce ==
  \A r \in Review \ cut : suggestion[r].kind = "ready" =>
    IF suggestion[r].status = "applied" THEN \E k : InForce(r) = {k} ELSE InForce(r) = {}
OriginalKept ==
  \A k \in DOMAIN actions :
    suggestion[actions[k].of].kind = "ready" => actions[k].original = actions[k].before

SuggestionsTyped ==
  /\ suggestion \in [Review -> Suggestions]
  /\ actions \in Seq(Actions)
  /\ asked \in [Review -> Seq(Nat)]
  /\ file \in [Job -> Nat]
  /\ writes \in Nat

Suggested == SuggestionsTyped /\ NothingYet /\ OnlyAsked /\ OneInForce /\ OriginalKept

Inv == Scheduled /\ Suggested

-----------------------------------------------------------------------------
(* Requests                                                                  *)

\* A review that is over stays so, and a request stays that of its job.
Goes ==
  /\ requests' \in Seq(Requests)
  /\ \A r \in Review : Stage(r) = "over" => Stage(r)' = "over"
  /\ \A r \in 1..Len(requests) : r \in 1..Len(requests') /\ requests'[r].job = requests[r].job

\* A request for a review is added at the end, and those that are over stay so.
LEMMA RequestFacts ==
  ASSUME requests \in Seq(Requests), NEW j \in Job, Request(j)
  PROVE  /\ Goes
         /\ Len(requests) + 1 \in 1..Len(requests') /\ requests'[Len(requests) + 1].job = j
<1> DEFINE new == [job |-> j, stage |-> "queued"]
<1>1. new \in Requests /\ new.job = j /\ new.stage = "queued"
  BY DEF Requests
<1>2. requests' = Append(requests, new)
  BY DEF Request
<1> HIDE DEF new
<1>3. /\ Len(requests) \in Nat /\ requests' \in Seq(Requests)
      /\ Len(requests') = Len(requests) + 1
      /\ \A i \in 1..Len(requests) : requests'[i] = requests[i]
      /\ requests'[Len(requests) + 1] = new
  BY <1>1, <1>2, AppendProperties, LenProperties
<1>4. DOMAIN requests = 1..Len(requests) /\ DOMAIN requests' = 1..Len(requests')
  BY <1>3, LenProperties
<1>5. \A r \in Review : Stage(r) = "over" => Stage(r)' = "over"
  BY <1>3, <1>4 DEF Stage
<1> QED
  BY <1>1, <1>3, <1>5 DEF Goes

\* A review that goes on moves alone.
LEMMA MoveFacts ==
  ASSUME requests \in Seq(Requests), NEW r \in Review, NEW stage,
         Stage(r) \in {"queued", "slot", "analysing"},
         stage \in {"slot", "analysing", "over"}, MovesTo(r, stage)
  PROVE  Goes /\ r \in 1..Len(requests) /\ JobOf(r) \in Job /\ Len(requests') = Len(requests)
<1>1. DOMAIN requests = 1..Len(requests) /\ Len(requests) \in Nat
  BY LenProperties
<1>2. r \in 1..Len(requests)
  BY <1>1 DEF Stage
<1>3. requests[r] \in Requests
  BY <1>2, ElementOfSeq
<1> DEFINE new == [requests[r] EXCEPT !.stage = stage]
<1>4. new \in Requests /\ new.job = requests[r].job /\ new.stage = stage
  BY <1>3 DEF Requests
<1>5. requests' = [requests EXCEPT ![r] = new]
  BY DEF MovesTo
<1> HIDE DEF new
<1>6. /\ requests' \in Seq(Requests) /\ Len(requests') = Len(requests)
      /\ \A i \in 1..Len(requests) : requests'[i] = IF i = r THEN new ELSE requests[i]
  BY <1>2, <1>4, <1>5, ExceptSeq
<1>7. DOMAIN requests' = DOMAIN requests
  BY <1>5
<1>8. \A q \in Review : Stage(q) = "over" => Stage(q)' = "over"
  BY <1>1, <1>6, <1>7 DEF Stage
<1> QED
  BY <1>2, <1>3, <1>4, <1>6, <1>8 DEF Goes, JobOf, Requests

\* The suggestions are left alone while reviews go on.
LEMMA SuggestedStays ==
  ASSUME Suggested, UNCHANGED suggestionVars,
         \A r \in Review : Stage(r) = "over" => Stage(r)' = "over"
  PROVE  Suggested'
<1>1. UNCHANGED <<suggestion, actions, asked, cut, file, writes>>
  BY DEF suggestionVars
<1>2. SuggestionsTyped' /\ OnlyAsked' /\ OriginalKept'
  BY <1>1 DEF Suggested, SuggestionsTyped, OnlyAsked, OriginalKept
<1>3. NothingYet'
  BY <1>1 DEF Suggested, NothingYet
<1>4. OneInForce'
  <2>1. \A q : InForce(q)' = InForce(q)
    BY <1>1 DEF InForce
  <2> QED
    BY <1>1, <2>1 DEF Suggested, OneInForce
<1> QED
  BY <1>2, <1>3, <1>4 DEF Suggested

\* The schedule is left alone while reviews are requested and go on.
LEMMA ScheduledStays ==
  ASSUME Scheduled, Goes, UNCHANGED <<looping, lastCheck, turns>>
  PROVE  Scheduled'
<1>1. Len(requests) \in Nat /\ Len(requests') \in Nat
  BY LenProperties DEF Scheduled, Goes
<1>2. looping' \in 0..Len(requests')
  BY <1>1 DEF Scheduled, Goes
<1>3. TurnsTaken'
  BY <1>1 DEF Scheduled, TurnsTaken, Goes, JobOf
<1> QED
  BY <1>2, <1>3 DEF Scheduled, Goes

\* A review is asked for by hand, or by a failure or another event.
LEMMA TriggerKeeps ==
  ASSUME Inv, NEW j \in Job, TriggerReview(j) \/ TriggerOnEvent(j)
  PROVE  Inv'
<1>1. Request(j) /\ UNCHANGED <<looping, lastCheck, turns>> /\ UNCHANGED suggestionVars
  BY DEF TriggerReview, TriggerOnEvent
<1>2. Goes
  BY <1>1, RequestFacts DEF Inv, Scheduled
<1> QED
  BY <1>1, <1>2, ScheduledStays, SuggestedStays DEF Inv, Goes

\* The scheduler takes the turn of a job only if it is due, and it waits.
LEMMA LookAtKeeps == ASSUME Inv, NEW j \in Job, LookAt(j) PROVE Inv'
<1>1. looping = 0 /\ UNCHANGED suggestionVars
  BY DEF LookAt
<1>2. Len(requests) \in Nat
  BY LenProperties DEF Inv, Scheduled
<1>3. CASE UNCHANGED requests
  <2>1. /\ looping' = looping /\ turns' = turns
        /\ lastCheck' = lastCheck
           \/ lastCheck' = [lastCheck EXCEPT ![j] = "recent"]
    BY <1>2, <1>3 DEF LookAt, Request
  <2>2. TurnsTaken' /\ lastCheck' \in [Job -> {"none", "recent", "old"}]
    BY <1>1, <2>1 DEF Inv, Scheduled, TurnsTaken
  <2>3. Scheduled'
    BY <1>3, <2>1, <2>2 DEF Inv, Scheduled
  <2>4. \A r \in Review : Stage(r) = "over" => Stage(r)' = "over"
    BY <1>3 DEF Stage
  <2> QED
    BY <1>1, <2>3, <2>4, SuggestedStays DEF Inv
<1>4. CASE ~UNCHANGED requests
  <2>1. /\ Due(j) /\ Request(j) /\ looping' = Len(requests) + 1 /\ lastCheck' = lastCheck
        /\ turns' = [turns EXCEPT ![j] = @ + 1]
    BY <1>4 DEF LookAt
  <2>2. /\ Goes
        /\ Len(requests) + 1 \in 1..Len(requests') /\ requests'[Len(requests) + 1].job = j
    BY <2>1, RequestFacts DEF Inv, Scheduled
  <2>3. turns[j] = 0
    BY <1>1, <2>1 DEF Inv, Scheduled, TurnsTaken, Due
  <2>4. TurnsTaken'
    BY <1>1, <1>2, <2>1, <2>2, <2>3 DEF Inv, Scheduled, TurnsTaken, JobOf
  <2>5. Scheduled'
    BY <1>2, <2>1, <2>2, <2>4 DEF Inv, Scheduled, Goes
  <2> QED
    BY <1>1, <2>2, <2>5, SuggestedStays DEF Inv, Goes
<1> QED
  BY <1>3, <1>4

\* The interval of a job passes, and its turn comes again.
LEMMA IntervalKeeps == ASSUME Inv, NEW j \in Job, IntervalPasses(j) PROVE Inv'
<1>1. /\ lastCheck' = [lastCheck EXCEPT ![j] = "old"] /\ turns' = [turns EXCEPT ![j] = 0]
      /\ UNCHANGED <<requests, looping>> /\ UNCHANGED suggestionVars
  BY DEF IntervalPasses
<1>2. TurnsTaken'
  BY <1>1 DEF Inv, Scheduled, TurnsTaken, JobOf
<1>3. Scheduled'
  BY <1>1, <1>2 DEF Inv, Scheduled
<1>4. \A r \in Review : Stage(r) = "over" => Stage(r)' = "over"
  BY <1>1 DEF Stage
<1> QED
  BY <1>1, <1>3, <1>4, SuggestedStays DEF Inv

\* A review that ends gives the loop its turn back, with the check noted.
LEMMA EndsFacts ==
  ASSUME Inv, NEW r \in Review, Stage(r) \in {"slot", "analysing"}, NEW status, Ends(r, status)
  PROVE  Goes /\ Stage(r)' = "over" /\ JobOf(r) \in Job /\ Scheduled'
<1>1. /\ MovesTo(r, "over") /\ turns' = turns
      /\ looping' = IF looping = r THEN 0 ELSE looping
      /\ lastCheck' = IF looping = r THEN [lastCheck EXCEPT ![JobOf(r)] = "recent"] ELSE lastCheck
  BY DEF Ends, Checked
<1>2. Goes /\ r \in 1..Len(requests) /\ JobOf(r) \in Job /\ Len(requests') = Len(requests)
  BY <1>1, MoveFacts DEF Inv, Scheduled
<1>3. Stage(r)' = "over"
  <2>1. DOMAIN requests = 1..Len(requests)
    BY LenProperties DEF Inv, Scheduled
  <2>2. requests[r] \in Requests
    BY <1>2, ElementOfSeq DEF Inv, Scheduled
  <2> QED
    BY <1>1, <1>2, <2>1, <2>2 DEF Stage, MovesTo, Requests
<1>4. TurnsTaken'
  <2> SUFFICES ASSUME NEW j \in Job
               PROVE  /\ turns[j] <= 1
                      /\ turns[j] = 1 => lastCheck'[j] = "recent"
                                         \/ (looping' # 0 /\ requests'[looping'].job = j)
    BY <1>1 DEF TurnsTaken, JobOf
  <2>1. turns[j] <= 1 /\ (turns[j] = 1 => lastCheck[j] = "recent" \/ (looping # 0 /\ JobOf(looping) = j))
    BY DEF Inv, Scheduled, TurnsTaken
  <2>2. CASE looping = r
    BY <1>1, <1>2, <2>1, <2>2 DEF Inv, Scheduled
  <2>3. CASE looping # r
    BY <1>1, <1>2, <2>1, <2>3 DEF Inv, Scheduled, Goes, JobOf
  <2> QED
    BY <2>2, <2>3
<1>5. Scheduled'
  BY <1>1, <1>2, <1>4 DEF Inv, Scheduled, Goes
<1> QED
  BY <1>2, <1>3, <1>5

\* The review acquires the semaphore, begins, or ends without a suggestion.
LEMMA AcquireKeeps == ASSUME Inv, NEW r \in Review, Acquire(r) \/ BeginReview(r) PROVE Inv'
<1>1. /\ UNCHANGED <<looping, lastCheck, turns>> /\ UNCHANGED suggestionVars
      /\ Stage(r) \in {"queued", "slot", "analysing"}
      /\ MovesTo(r, "slot") \/ MovesTo(r, "analysing")
  BY DEF Acquire, SemaphoreFree, BeginReview
<1>2. Goes
  BY <1>1, MoveFacts DEF Inv, Scheduled
<1> QED
  BY <1>1, <1>2, ScheduledStays, SuggestedStays DEF Inv, Goes

\* A review fails, or gives up waiting for its slot.
LEMMA GiveUpKeeps == ASSUME Inv, NEW r \in Review, GiveUp(r) \/ FailReview(r) PROVE Inv'
<1>1. PICK status : Ends(r, status)
  BY DEF GiveUp, FailReview
<1>2. UNCHANGED suggestionVars /\ Stage(r) \in {"slot", "analysing"}
  BY DEF GiveUp, PatienceEnds, FailReview
<1>3. Goes /\ Scheduled'
  BY <1>1, <1>2, EndsFacts
<1> QED
  BY <1>2, <1>3, SuggestedStays DEF Inv, Goes

\* Actions are about suggestions.
LEMMA ActionTypes ==
  ASSUME Inv
  PROVE  \A k \in DOMAIN actions : actions[k] \in Actions /\ actions[k].of \in Review
<1>1. \A k \in DOMAIN actions : actions[k] \in Actions
  BY ElementOfSeq, LenProperties DEF Inv, Suggested, SuggestionsTyped
<1> QED
  BY <1>1 DEF Actions

\* The suggestion of a review is its first: nothing was done about it.
LEMMA CompleteKeeps == ASSUME Inv, NEW r \in Review, CompleteReview(r) PROVE Inv'
<1>1. /\ Stage(r) = "analysing" /\ Ends(r, "completed")
      /\ UNCHANGED <<actions, asked, cut, file, writes>>
  BY DEF CompleteReview
<1>2. Goes /\ Stage(r)' = "over" /\ JobOf(r) \in Job /\ Scheduled'
  BY <1>1, EndsFacts
<1>3. PICK s \in Analysed(r) : suggestion' = [suggestion EXCEPT ![r] = s]
  BY DEF CompleteReview
<1>4. s \in Suggestions /\ (s.kind = "ready" => s.status # "applied")
  <2>1. CASE s = NoSuggestion
    BY <2>1 DEF NoSuggestion, Suggestions
  <2>2. CASE s \in Parsed(r)
    <3>1. PICK k \in Kinds : s = [status |-> IF k = "auto" THEN "applied" ELSE "pending",
                                 kind |-> k, current |-> file[JobOf(r)]]
      BY <2>2 DEF Parsed
    <3>2. file[JobOf(r)] \in Nat /\ k \in {"auto", "plain", "ready", "ask"}
      BY <1>2, ReviewsAssumption DEF Inv, Suggested, SuggestionsTyped
    <3> QED
      BY <3>1, <3>2 DEF Suggestions
  <2> QED
    BY <2>1, <2>2 DEF Analysed
<1>5. /\ asked[r] = <<>> /\ \A k \in DOMAIN actions : actions[k].of # r
  BY <1>1 DEF Inv, Suggested, NothingYet
<1>6. SuggestionsTyped'
  BY <1>1, <1>3, <1>4 DEF Inv, Suggested, SuggestionsTyped
<1>7. \A q \in Review : suggestion'[q] = IF q = r THEN s ELSE suggestion[q]
  BY <1>3 DEF Inv, Suggested, SuggestionsTyped
<1>8. NothingYet'
  BY <1>1, <1>2, <1>7 DEF Inv, Suggested, NothingYet, Goes
<1>9. OnlyAsked'
  BY <1>1, <1>5, <1>7 DEF Inv, Suggested, OnlyAsked
<1>10. OneInForce'
  <2> SUFFICES ASSUME NEW q \in Review \ cut', suggestion'[q].kind = "ready"
               PROVE  IF suggestion'[q].status = "applied"
                      THEN \E k : InForce(q)' = {k} ELSE InForce(q)' = {}
    BY DEF OneInForce
  <2>1. InForce(q)' = InForce(q)
    BY <1>1 DEF InForce
  <2>2. CASE q = r
    <3>1. InForce(q) = {}
      BY <1>5, <2>2 DEF InForce
    <3> QED
      BY <1>4, <1>7, <2>1, <2>2, <3>1
  <2>3. CASE q # r
    BY <1>1, <1>7, <2>1, <2>3 DEF Inv, Suggested, OneInForce
  <2> QED
    BY <2>2, <2>3
<1>11. OriginalKept'
  <2> SUFFICES ASSUME NEW k \in DOMAIN actions, suggestion'[actions[k].of].kind = "ready"
               PROVE  actions[k].original = actions[k].before
    BY <1>1 DEF OriginalKept
  <2>1. actions[k].of \in Review /\ actions[k].of # r
    BY <1>5, ActionTypes
  <2> QED
    BY <1>7, <2>1 DEF Inv, Suggested, OriginalKept
<1> QED
  BY <1>2, <1>6, <1>8, <1>9, <1>10, <1>11 DEF Inv, Suggested

-----------------------------------------------------------------------------
(* Suggestions                                                               *)

\* The schedule does not depend on the suggestions.
LEMMA ScheduledApart ==
  ASSUME Scheduled, UNCHANGED reviewVars
  PROVE  Scheduled' /\ \A r : Stage(r)' = Stage(r)
BY DEF Scheduled, TurnsTaken, JobOf, Stage, reviewVars

\* A suggestion exists once its review is over, of a job that is known.
LEMMA SuggestionIsLate ==
  ASSUME Inv, NEW r \in Review, suggestion[r].status # "none" \/ asked[r] # <<>>
  PROVE  Stage(r) = "over" /\ JobOf(r) \in Job
<1>1. Stage(r) = "over"
  BY DEF Inv, Suggested, NothingYet, NoSuggestion
<1>2. r \in DOMAIN requests
  BY <1>1 DEF Stage
<1>3. requests[r] \in Requests
  BY <1>2, ElementOfSeq, LenProperties DEF Inv, Scheduled
<1> QED
  BY <1>1, <1>3 DEF JobOf, Requests

\* Marking a suggestion changes its status only.
LEMMA MarkedFacts ==
  ASSUME Inv, NEW r \in Review,
         NEW status \in {"pending", "approved", "rejected", "applied", "failed"},
         suggestion' = Marked(r, status)
  PROVE  /\ suggestion' \in [Review -> Suggestions]
         /\ \A q \in Review : suggestion'[q].kind = suggestion[q].kind
         /\ \A q \in Review \ {r} : suggestion'[q] = suggestion[q]
         /\ suggestion'[r].status = status
<1> DEFINE new == [suggestion[r] EXCEPT !.status = status]
<1>1. suggestion[r] \in Suggestions /\ suggestion \in [Review -> Suggestions]
  BY DEF Inv, Suggested, SuggestionsTyped
<1>2. new \in Suggestions /\ new.kind = suggestion[r].kind /\ new.status = status
  BY <1>1 DEF Suggestions
<1>3. suggestion' = [suggestion EXCEPT ![r] = new]
  BY DEF Marked
<1> HIDE DEF new
<1> QED
  BY <1>1, <1>2, <1>3

\* A suggestion is approved or rejected: it was pending, and nothing of it in force.
LEMMA DecideKeeps == ASSUME Inv, NEW r \in Review, Approve(r) \/ Reject(r) PROVE Inv'
<1>1. PICK status \in {"approved", "rejected"} :
        /\ suggestion[r].status = "pending" /\ suggestion' = Marked(r, status)
        /\ UNCHANGED <<actions, asked, cut, file, writes>> /\ UNCHANGED reviewVars
  BY DEF Approve, Reject, Decide
<1>2. Scheduled' /\ \A q : Stage(q)' = Stage(q)
  BY <1>1, ScheduledApart DEF Inv
<1>3. /\ suggestion' \in [Review -> Suggestions]
      /\ \A q \in Review : suggestion'[q].kind = suggestion[q].kind
      /\ \A q \in Review \ {r} : suggestion'[q] = suggestion[q]
      /\ suggestion'[r].status = status
  BY <1>1, MarkedFacts
<1>4. Stage(r) = "over"
  BY <1>1, SuggestionIsLate
<1>5. SuggestionsTyped'
  BY <1>1, <1>3 DEF Inv, Suggested, SuggestionsTyped
<1>6. NothingYet'
  BY <1>1, <1>2, <1>3, <1>4 DEF Inv, Suggested, NothingYet
<1>7. OnlyAsked'
  BY <1>1, <1>3 DEF Inv, Suggested, OnlyAsked
<1>8. OneInForce'
  <2> SUFFICES ASSUME NEW q \in Review \ cut', suggestion'[q].kind = "ready"
               PROVE  IF suggestion'[q].status = "applied"
                      THEN \E k : InForce(q)' = {k} ELSE InForce(q)' = {}
    BY DEF OneInForce
  <2>1. InForce(q)' = InForce(q)
    BY <1>1 DEF InForce
  <2> QED
    BY <1>1, <1>3, <2>1 DEF Inv, Suggested, OneInForce
<1>9. OriginalKept'
  BY <1>1, <1>3, ActionTypes DEF Inv, Suggested, OriginalKept
<1> QED
  BY <1>2, <1>5, <1>6, <1>7, <1>8, <1>9 DEF Inv, Suggested

\* What appending an action means for the actions in force.
LEMMA AppendFacts ==
  ASSUME Inv, NEW a \in Actions, actions' = Append(actions, a), a.status # "rolled_back"
  PROVE  /\ actions' \in Seq(Actions)
         /\ Len(actions) + 1 \in DOMAIN actions' /\ Len(actions) + 1 \notin DOMAIN actions
         /\ DOMAIN actions' = DOMAIN actions \cup {Len(actions) + 1}
         /\ \A k \in DOMAIN actions : actions'[k] = actions[k]
         /\ actions'[Len(actions) + 1] = a
         /\ \A q : InForce(q)' = IF a.of = q /\ a.can THEN InForce(q) \cup {Len(actions) + 1}
                                 ELSE InForce(q)
<1>1. actions \in Seq(Actions)
  BY DEF Inv, Suggested, SuggestionsTyped
<1>2. /\ actions' \in Seq(Actions) /\ Len(actions') = Len(actions) + 1 /\ Len(actions) \in Nat
      /\ \A k \in 1..Len(actions) : actions'[k] = actions[k]
      /\ actions'[Len(actions) + 1] = a
  BY <1>1, AppendProperties, LenProperties
<1>3. DOMAIN actions = 1..Len(actions) /\ DOMAIN actions' = 1..Len(actions')
  BY <1>1, <1>2, LenProperties
<1>4. /\ Len(actions) + 1 \in DOMAIN actions' /\ Len(actions) + 1 \notin DOMAIN actions
      /\ DOMAIN actions' = DOMAIN actions \cup {Len(actions) + 1}
  BY <1>2, <1>3
<1>5. \A q : InForce(q)' = IF a.of = q /\ a.can THEN InForce(q) \cup {Len(actions) + 1}
                          ELSE InForce(q)
  BY <1>2, <1>3, <1>4 DEF InForce
<1> QED
  BY <1>2, <1>3, <1>4, <1>5

\* A suggestion is applied, or fails to be, by an action of its own.  Of those that
\* came with their content only one that is approved, and not in force, is.
LEMMA ActedKeeps ==
  ASSUME Inv, NEW r \in Review, Stage(r) = "over", UNCHANGED reviewVars,
         NEW a \in Actions, actions' = Append(actions, a), a.of = r, a.status # "rolled_back",
         NEW status \in {"applied", "failed"}, suggestion' = Marked(r, status),
         status = "applied" <=> a.can,
         suggestion[r].kind = "ready" =>
           suggestion[r].status # "applied" /\ a.original = a.before,
         UNCHANGED cut, asked' \in [Review -> Seq(Nat)], file' \in [Job -> Nat], writes' \in Nat,
         \A q \in Review : asked'[q] # <<>> => asked[q] # <<>>
  PROVE  Inv'
<1>1. Scheduled' /\ \A q : Stage(q)' = Stage(q)
  BY ScheduledApart DEF Inv
<1>2. /\ suggestion' \in [Review -> Suggestions]
      /\ \A q \in Review : suggestion'[q].kind = suggestion[q].kind
      /\ \A q \in Review \ {r} : suggestion'[q] = suggestion[q]
      /\ suggestion'[r].status = status
  BY MarkedFacts
<1>3. /\ actions' \in Seq(Actions)
      /\ Len(actions) + 1 \in DOMAIN actions' /\ Len(actions) + 1 \notin DOMAIN actions
      /\ DOMAIN actions' = DOMAIN actions \cup {Len(actions) + 1}
      /\ \A k \in DOMAIN actions : actions'[k] = actions[k]
      /\ actions'[Len(actions) + 1] = a
      /\ \A q : InForce(q)' = IF a.of = q /\ a.can THEN InForce(q) \cup {Len(actions) + 1}
                              ELSE InForce(q)
  BY AppendFacts
<1>4. SuggestionsTyped'
  BY <1>2, <1>3 DEF SuggestionsTyped
<1>5. NothingYet'
  <2> SUFFICES ASSUME NEW q \in Review, Stage(q) # "over"
               PROVE  /\ suggestion'[q] = NoSuggestion /\ asked'[q] = <<>>
                      /\ \A k \in DOMAIN actions' : actions'[k].of # q
    BY <1>1 DEF NothingYet
  <2>1. q # r /\ suggestion[q] = NoSuggestion /\ asked[q] = <<>>
        /\ \A k \in DOMAIN actions : actions[k].of # q
    BY DEF Inv, Suggested, NothingYet
  <2> QED
    BY <1>2, <1>3, <2>1
<1>6. OnlyAsked'
  BY <1>2 DEF Inv, Suggested, OnlyAsked
<1>7. OneInForce'
  <2> SUFFICES ASSUME NEW q \in Review \ cut', suggestion'[q].kind = "ready"
               PROVE  IF suggestion'[q].status = "applied"
                      THEN \E k : InForce(q)' = {k} ELSE InForce(q)' = {}
    BY DEF OneInForce
  <2>1. suggestion[q].kind = "ready" /\ q \in Review \ cut
    BY <1>2
  <2>2. CASE q = r
    <3>1. InForce(r) = {}
      BY <2>1, <2>2 DEF Inv, Suggested, OneInForce
    <3>2. CASE status = "applied"
      <4>1. InForce(q)' = InForce(q) \cup {Len(actions) + 1}
        BY <1>3, <2>2, <3>2
      <4>2. InForce(q)' = {Len(actions) + 1}
        BY <2>2, <3>1, <4>1
      <4>3. \E k : InForce(q)' = {k}
        BY <4>2
      <4>4. suggestion'[q].status = "applied"
        BY <1>2, <2>2, <3>2
      <4> QED
        BY <4>3, <4>4
    <3>3. CASE status = "failed"
      <4>1. InForce(q)' = InForce(q)
        BY <1>3, <3>3
      <4> QED
        BY <1>2, <2>2, <3>1, <3>3, <4>1
    <3> QED
      BY <3>2, <3>3
  <2>3. CASE q # r
    <3>1. InForce(q)' = InForce(q)
      BY <1>3, <2>3
    <3>2. suggestion'[q] = suggestion[q]
      BY <1>2, <2>3
    <3>3. IF suggestion[q].status = "applied" THEN \E k : InForce(q) = {k} ELSE InForce(q) = {}
      BY <2>1 DEF Inv, Suggested, OneInForce
    <3> QED
      BY <3>1, <3>2, <3>3
  <2> QED
    BY <2>2, <2>3
<1>8. OriginalKept'
  <2> SUFFICES ASSUME NEW k \in DOMAIN actions', suggestion'[actions'[k].of].kind = "ready"
               PROVE  actions'[k].original = actions'[k].before
    BY DEF OriginalKept
  <2>1. CASE k \in DOMAIN actions
    <3>1. actions[k].of \in Review
      BY <2>1, ActionTypes
    <3>2. actions'[k] = actions[k]
      BY <1>3, <2>1
    <3>3. suggestion[actions[k].of].kind = "ready"
      BY <1>2, <3>1, <3>2
    <3>4. actions[k].original = actions[k].before
      BY <2>1, <3>3 DEF Inv, Suggested, OriginalKept
    <3> QED
      BY <3>2, <3>4
  <2>2. CASE k \notin DOMAIN actions
    BY <1>2, <1>3, <2>2
  <2> QED
    BY <2>1, <2>2
<1> QED
  BY <1>1, <1>4, <1>5, <1>6, <1>7, <1>8 DEF Inv, Suggested

\* A suggestion is applied: what its file holds is recorded, unless the agent is asked.
LEMMA ApplyKeeps == ASSUME Inv, NEW r \in Review, Apply(r) PROVE Inv'
<1>1. /\ suggestion[r].status = "approved" /\ UNCHANGED reviewVars
      /\ UNCHANGED <<asked, cut, writes>>
  BY DEF Apply
<1>2. Stage(r) = "over" /\ JobOf(r) \in Job
  BY <1>1, SuggestionIsLate
<1>3. CASE suggestion[r].kind = "plain" /\ suggestion' = Marked(r, "applied")
           /\ UNCHANGED <<actions, file>>
  <2>1. Scheduled' /\ \A q : Stage(q)' = Stage(q)
    BY <1>1, ScheduledApart DEF Inv
  <2>2. /\ suggestion' \in [Review -> Suggestions]
        /\ \A q \in Review : suggestion'[q].kind = suggestion[q].kind
        /\ \A q \in Review \ {r} : suggestion'[q] = suggestion[q]
    BY <1>3, MarkedFacts
  <2>3. SuggestionsTyped'
    BY <1>1, <1>3, <2>2 DEF Inv, Suggested, SuggestionsTyped
  <2>4. NothingYet'
    BY <1>1, <1>2, <1>3, <2>1, <2>2 DEF Inv, Suggested, NothingYet
  <2>5. OnlyAsked'
    BY <1>1, <2>2 DEF Inv, Suggested, OnlyAsked
  <2>6. OneInForce'
    <3> SUFFICES ASSUME NEW q \in Review \ cut', suggestion'[q].kind = "ready"
                 PROVE  IF suggestion'[q].status = "applied"
                        THEN \E k : InForce(q)' = {k} ELSE InForce(q)' = {}
      BY DEF OneInForce
    <3>1. InForce(q)' = InForce(q)
      BY <1>3 DEF InForce
    <3>2. q # r
      BY <1>3, <2>2
    <3> QED
      BY <1>1, <2>2, <3>1, <3>2 DEF Inv, Suggested, OneInForce
  <2>7. OriginalKept'
    BY <1>3, <2>2, ActionTypes DEF Inv, Suggested, OriginalKept
  <2> QED
    BY <2>1, <2>3, <2>4, <2>5, <2>6, <2>7 DEF Inv, Suggested
<1>4. CASE suggestion[r].kind = "ready" /\ ApplyFails(r) /\ UNCHANGED file
  <2>1. /\ FailedAction(r) \in Actions /\ FailedAction(r).of = r
        /\ FailedAction(r).status # "rolled_back" /\ ~FailedAction(r).can
        /\ FailedAction(r).original = FailedAction(r).before
    BY DEF FailedAction, Actions
  <2>2. actions' = Append(actions, FailedAction(r)) /\ suggestion' = Marked(r, "failed")
    BY <1>4 DEF ApplyFails
  <2>3. /\ asked' \in [Review -> Seq(Nat)] /\ file' \in [Job -> Nat] /\ writes' \in Nat
    BY <1>1, <1>4 DEF Inv, Suggested, SuggestionsTyped
  <2> QED
    BY <1>1, <1>2, <2>1, <2>2, <2>3, ActedKeeps
<1>5. CASE /\ suggestion[r].kind = "ready"
           /\ file' = Overwritten(r)
           /\ actions' = Append(actions, Action(r, file[JobOf(r)], Original(r), r))
           /\ suggestion' = Marked(r, "applied")
  <2> DEFINE a == Action(r, file[JobOf(r)], Original(r), r)
  <2>1. r \in Nat /\ file[JobOf(r)] \in Nat
    BY <1>2, ReviewsAssumption DEF Inv, Suggested, SuggestionsTyped, Review
  <2>2. a \in Actions /\ a.of = r /\ a.status # "rolled_back" /\ a.can /\ a.original = a.before
    BY <2>1 DEF Action, Actions, Original
  <2>3. actions' = Append(actions, a)
    BY <1>5
  <2> HIDE DEF a
  <2>4. /\ asked' \in [Review -> Seq(Nat)] /\ file' \in [Job -> Nat] /\ writes' \in Nat
    BY <1>1, <1>5, <2>1 DEF Inv, Suggested, SuggestionsTyped, Overwritten
  <2> QED
    BY <1>1, <1>2, <1>5, <2>2, <2>3, <2>4, ActedKeeps
<1> QED
  BY <1>3, <1>4, <1>5 DEF Apply

\* The agent is asked for the content of a suggestion.
LEMMA AskKeeps == ASSUME Inv, NEW r \in Review, Ask(r) PROVE Inv'
<1>1. /\ suggestion[r].status = "approved" /\ suggestion[r].kind = "ask"
      /\ asked' = [asked EXCEPT ![r] = Append(@, file[JobOf(r)])]
      /\ UNCHANGED reviewVars /\ UNCHANGED <<suggestion, actions, cut, file, writes>>
  BY DEF Ask
<1>2. Stage(r) = "over" /\ JobOf(r) \in Job
  BY <1>1, SuggestionIsLate
<1>3. Append(asked[r], file[JobOf(r)]) \in Seq(Nat)
  BY <1>2, AppendProperties DEF Inv, Suggested, SuggestionsTyped
<1>4. Scheduled' /\ \A q : Stage(q)' = Stage(q)
  BY <1>1, ScheduledApart DEF Inv
<1>5. SuggestionsTyped'
  BY <1>1, <1>3 DEF Inv, Suggested, SuggestionsTyped
<1>6. \A q \in Review : q # r => asked'[q] = asked[q]
  BY <1>1 DEF Inv, Suggested, SuggestionsTyped
<1>7. NothingYet'
  BY <1>1, <1>2, <1>4, <1>6 DEF Inv, Suggested, NothingYet
<1>8. OnlyAsked'
  BY <1>1, <1>6 DEF Inv, Suggested, OnlyAsked
<1>9. OneInForce' /\ OriginalKept'
  <2>1. \A q : InForce(q)' = InForce(q)
    BY <1>1 DEF InForce
  <2>2. OneInForce'
    BY <1>1, <2>1 DEF Inv, Suggested, OneInForce
  <2>3. OriginalKept'
    BY <1>1 DEF Inv, Suggested, OriginalKept
  <2> QED
    BY <2>2, <2>3
<1> QED
  BY <1>4, <1>5, <1>7, <1>8, <1>9 DEF Inv, Suggested

\* The agent has edited the file of a suggestion, which had no content of its own.
LEMMA AnswerKeeps == ASSUME Inv, NEW r \in Review, Answer(r) PROVE Inv'
<1>1. /\ asked[r] # <<>> /\ asked' = [asked EXCEPT ![r] = Tail(@)]
      /\ UNCHANGED reviewVars /\ UNCHANGED cut
  BY DEF Answer
<1>2. Stage(r) = "over" /\ JobOf(r) \in Job /\ suggestion[r].kind # "ready"
  BY <1>1, SuggestionIsLate DEF Inv, Suggested, OnlyAsked
<1>3. asked[r] \in Seq(Nat) /\ Head(asked[r]) \in Nat /\ Tail(asked[r]) \in Seq(Nat)
  BY <1>1, HeadTailProperties DEF Inv, Suggested, SuggestionsTyped
<1>4. /\ asked' \in [Review -> Seq(Nat)]
      /\ \A q \in Review : asked'[q] # <<>> => asked[q] # <<>>
  BY <1>1, <1>3 DEF Inv, Suggested, SuggestionsTyped
<1>5. CASE ApplyFails(r) /\ UNCHANGED <<file, writes>>
  <2>1. /\ FailedAction(r) \in Actions /\ FailedAction(r).of = r
        /\ FailedAction(r).status # "rolled_back" /\ ~FailedAction(r).can
    BY DEF FailedAction, Actions
  <2>2. actions' = Append(actions, FailedAction(r)) /\ suggestion' = Marked(r, "failed")
    BY <1>5 DEF ApplyFails
  <2>3. file' \in [Job -> Nat] /\ writes' \in Nat
    BY <1>5 DEF Inv, Suggested, SuggestionsTyped
  <2> QED
    BY <1>1, <1>2, <1>4, <2>1, <2>2, <2>3, ActedKeeps
<1>6. CASE /\ writes' = writes + 1
           /\ file' = [file EXCEPT ![JobOf(r)] = MaxReviews + writes']
           /\ actions' = Append(actions, Action(r, file[JobOf(r)], Head(asked[r]), file'[JobOf(r)]))
           /\ suggestion' = Marked(r, "applied")
  <2> DEFINE a == Action(r, file[JobOf(r)], Head(asked[r]), file'[JobOf(r)])
  <2>1. writes' \in Nat /\ MaxReviews + writes' \in Nat
    BY <1>6, ReviewsAssumption DEF Inv, Suggested, SuggestionsTyped
  <2>2. file' \in [Job -> Nat] /\ file[JobOf(r)] \in Nat /\ file'[JobOf(r)] \in Nat
    BY <1>2, <1>6, <2>1 DEF Inv, Suggested, SuggestionsTyped
  <2>3. a \in Actions /\ a.of = r /\ a.status # "rolled_back" /\ a.can
    BY <1>3, <2>2 DEF Action, Actions
  <2>4. actions' = Append(actions, a)
    BY <1>6
  <2> HIDE DEF a
  <2> QED
    BY <1>1, <1>2, <1>4, <1>6, <2>1, <2>2, <2>3, <2>4, ActedKeeps
<1> QED
  BY <1>5, <1>6 DEF Answer

\* What changing the status of an action means for the actions and those in force.
LEMMA BecameFacts ==
  ASSUME Inv, NEW k \in DOMAIN actions, CanRollback(k),
         NEW status \in {"failed", "rolled_back"}, actions' = Became(k, status)
  PROVE  /\ actions' \in Seq(Actions) /\ DOMAIN actions' = DOMAIN actions
         /\ \A i \in DOMAIN actions : i # k => actions'[i] = actions[i]
         /\ actions'[k] = [actions[k] EXCEPT !.status = status]
         /\ k \in InForce(actions[k].of)
         /\ \A q : InForce(q)' = IF status = "failed" THEN InForce(q) ELSE InForce(q) \ {k}
         /\ Stage(actions[k].of) = "over" /\ JobOf(actions[k].of) \in Job
<1> DEFINE new == [actions[k] EXCEPT !.status = status]
<1>1. actions[k] \in Actions /\ actions[k].of \in Review
  BY ActionTypes
<1>2. /\ new \in Actions /\ new.status = status /\ new.of = actions[k].of
      /\ new.can = actions[k].can
  BY <1>1 DEF Actions
<1>3. /\ actions' = [actions EXCEPT ![k] = new] /\ actions[k].can
      /\ actions[k].status # "rolled_back"
  BY DEF Became, CanRollback
<1> HIDE DEF new
<1>4. actions \in Seq(Actions) /\ DOMAIN actions = 1..Len(actions)
  BY LenProperties DEF Inv, Suggested, SuggestionsTyped
<1>5. actions' \in Seq(Actions)
  BY <1>2, <1>3, <1>4, ExceptSeq
<1>6. /\ DOMAIN actions' = DOMAIN actions /\ actions'[k] = new
      /\ \A i \in DOMAIN actions : i # k => actions'[i] = actions[i]
  BY <1>3
<1>7. k \in InForce(actions[k].of)
  BY <1>3 DEF InForce
<1>8. \A q : InForce(q)' = IF status = "failed" THEN InForce(q) ELSE InForce(q) \ {k}
  <2>1. CASE status = "failed"
    <3>1. \A i \in DOMAIN actions :
            /\ actions'[i].of = actions[i].of /\ actions'[i].can = actions[i].can
            /\ (actions'[i].status = "rolled_back") <=> (actions[i].status = "rolled_back")
      <4> SUFFICES ASSUME NEW i \in DOMAIN actions
                   PROVE  /\ actions'[i].of = actions[i].of /\ actions'[i].can = actions[i].can
                          /\ (actions'[i].status = "rolled_back")
                               <=> (actions[i].status = "rolled_back")
        OBVIOUS
      <4>1. CASE i = k
        BY <1>2, <1>3, <1>6, <2>1, <4>1
      <4>2. CASE i # k
        BY <1>6, <4>2
      <4> QED
        BY <4>1, <4>2
    <3> QED
      BY <1>6, <2>1, <3>1 DEF InForce
  <2>2. CASE status = "rolled_back"
    BY <1>2, <1>6, <2>2 DEF InForce
  <2> QED
    BY <2>1, <2>2
<1>9. Stage(actions[k].of) = "over"
  BY <1>1 DEF Inv, Suggested, NothingYet
<1>10. JobOf(actions[k].of) \in Job
  <2>1. actions[k].of \in DOMAIN requests
    BY <1>9 DEF Stage
  <2>2. requests[actions[k].of] \in Requests
    BY <2>1, ElementOfSeq, LenProperties DEF Inv, Scheduled
  <2> QED
    BY <2>2 DEF JobOf, Requests
<1> QED
  BY <1>5, <1>6, <1>7, <1>8, <1>9, <1>10 DEF new

\* An action is rolled back: of those in force it was the only one of its suggestion.
LEMMA RollbackKeeps == ASSUME Inv, NEW k \in DOMAIN actions, Rollback(k) PROVE Inv'
<1> DEFINE r == actions[k].of
<1>1. /\ file' = [file EXCEPT ![JobOf(r)] = actions[k].original]
      /\ suggestion' = Marked(r, "pending") /\ UNCHANGED reviewVars
      /\ UNCHANGED <<asked, cut, writes>>
  BY DEF Rollback, Restored
<1>2. actions[k] \in Actions /\ r \in Review /\ actions[k].original \in Nat
  BY ActionTypes DEF Actions
<1>3. /\ actions' \in Seq(Actions) /\ DOMAIN actions' = DOMAIN actions
      /\ \A i \in DOMAIN actions : i # k => actions'[i] = actions[i]
      /\ actions'[k] = [actions[k] EXCEPT !.status = "rolled_back"]
      /\ k \in InForce(r)
      /\ \A q : InForce(q)' = InForce(q) \ {k}
      /\ Stage(r) = "over" /\ JobOf(r) \in Job
  BY BecameFacts DEF Rollback
<1>4. \A i \in DOMAIN actions : /\ actions'[i].of = actions[i].of
                               /\ actions'[i].original = actions[i].original
                               /\ actions'[i].before = actions[i].before
  BY <1>2, <1>3 DEF Actions
<1>5. Scheduled' /\ \A q : Stage(q)' = Stage(q)
  BY <1>1, ScheduledApart DEF Inv
<1>6. /\ suggestion' \in [Review -> Suggestions]
      /\ \A q \in Review : suggestion'[q].kind = suggestion[q].kind
      /\ \A q \in Review \ {r} : suggestion'[q] = suggestion[q]
      /\ suggestion'[r].status = "pending"
  BY <1>1, <1>2, MarkedFacts
<1>7. SuggestionsTyped'
  BY <1>1, <1>2, <1>3, <1>6 DEF Inv, Suggested, SuggestionsTyped
<1>8. NothingYet'
  BY <1>1, <1>3, <1>4, <1>5, <1>6 DEF Inv, Suggested, NothingYet
<1>9. OnlyAsked'
  BY <1>1, <1>6 DEF Inv, Suggested, OnlyAsked
<1>10. OneInForce'
  <2> SUFFICES ASSUME NEW q \in Review \ cut', suggestion'[q].kind = "ready"
               PROVE  IF suggestion'[q].status = "applied"
                      THEN \E i : InForce(q)' = {i} ELSE InForce(q)' = {}
    BY DEF OneInForce
  <2>1. IF suggestion[q].status = "applied" THEN \E i : InForce(q) = {i} ELSE InForce(q) = {}
    BY <1>1, <1>6 DEF Inv, Suggested, OneInForce
  <2>2. CASE q = r
    <3>1. k \in InForce(q) /\ suggestion'[q].status = "pending"
      BY <1>3, <1>6, <2>2
    <3>2. InForce(q) = {k}
      BY <2>1, <3>1
    <3>3. InForce(q)' = InForce(q) \ {k}
      BY <1>3
    <3>4. InForce(q)' = {}
      BY <3>2, <3>3
    <3> QED
      BY <3>1, <3>4
  <2>3. CASE q # r
    <3>1. k \notin InForce(q)
      BY <2>3 DEF InForce
    <3>2. InForce(q)' = InForce(q)
      BY <1>3, <3>1
    <3>3. suggestion'[q] = suggestion[q]
      BY <1>6, <2>3
    <3> QED
      BY <2>1, <3>2, <3>3
  <2> QED
    BY <2>2, <2>3
<1>11. OriginalKept'
  BY <1>3, <1>4, <1>6, ActionTypes DEF Inv, Suggested, OriginalKept
<1> QED
  BY <1>5, <1>7, <1>8, <1>9, <1>10, <1>11 DEF Inv, Suggested

\* Rolling back fails: the change of the action stays in force.
LEMMA RollbackFailsKeeps == ASSUME Inv, NEW k \in DOMAIN actions, RollbackFails(k) PROVE Inv'
<1>1. UNCHANGED reviewVars /\ UNCHANGED <<suggestion, asked, cut, file, writes>>
  BY DEF RollbackFails
<1>2. actions[k] \in Actions
  BY ActionTypes
<1>3. /\ actions' \in Seq(Actions) /\ DOMAIN actions' = DOMAIN actions
      /\ \A i \in DOMAIN actions : i # k => actions'[i] = actions[i]
      /\ actions'[k] = [actions[k] EXCEPT !.status = "failed"]
      /\ \A q : InForce(q)' = InForce(q)
  BY BecameFacts DEF RollbackFails
<1>4. \A i \in DOMAIN actions : /\ actions'[i].of = actions[i].of
                               /\ actions'[i].original = actions[i].original
                               /\ actions'[i].before = actions[i].before
  BY <1>2, <1>3 DEF Actions
<1>5. Scheduled' /\ \A q : Stage(q)' = Stage(q)
  BY <1>1, ScheduledApart DEF Inv
<1>6. SuggestionsTyped' /\ OnlyAsked'
  BY <1>1, <1>3 DEF Inv, Suggested, SuggestionsTyped, OnlyAsked
<1>7. NothingYet'
  BY <1>1, <1>3, <1>4, <1>5 DEF Inv, Suggested, NothingYet
<1>8. OneInForce' /\ OriginalKept'
  BY <1>1, <1>3, <1>4 DEF Inv, Suggested, OneInForce, OriginalKept
<1> QED
  BY <1>5, <1>6, <1>7, <1>8 DEF Inv, Suggested

\* Somebody edits the file of a job.
LEMMA EditKeeps == ASSUME Inv, NEW j \in Job, EditFile(j) PROVE Inv'
<1>1. /\ writes' = writes + 1 /\ file' = [file EXCEPT ![j] = MaxReviews + writes']
      /\ UNCHANGED reviewVars /\ UNCHANGED <<suggestion, actions, asked, cut>>
  BY DEF EditFile
<1>2. Scheduled' /\ \A q : Stage(q)' = Stage(q)
  BY <1>1, ScheduledApart DEF Inv
<1>3. SuggestionsTyped'
  BY <1>1, ReviewsAssumption DEF Inv, Suggested, SuggestionsTyped
<1>4. NothingYet'
  BY <1>1, <1>2 DEF Inv, Suggested, NothingYet
<1>5. OnlyAsked' /\ OneInForce' /\ OriginalKept'
  <2>1. \A q : InForce(q)' = InForce(q)
    BY <1>1 DEF InForce
  <2>2. OneInForce'
    BY <1>1, <2>1 DEF Inv, Suggested, OneInForce
  <2>3. OnlyAsked' /\ OriginalKept'
    BY <1>1 DEF Inv, Suggested, OnlyAsked, OriginalKept
  <2> QED
    BY <2>2, <2>3
<1> QED
  BY <1>2, <1>3, <1>4, <1>5 DEF Inv, Suggested

\* With the daemon the reviews are over, and their turns forgotten.
LEMMA DeathFacts ==
  ASSUME Inv, Dies
  PROVE  /\ Scheduled' /\ OnlyAsked' /\ asked' \in [Review -> Seq(Nat)]
         /\ \A r \in Review : /\ asked'[r] = <<>>
                              /\ Stage(r) = "over" => Stage(r)' = "over"
<1>1. /\ requests' = [r \in DOMAIN requests |-> [requests[r] EXCEPT !.stage = "over"]]
      /\ looping' = 0 /\ lastCheck' = [j \in Job |-> "none"] /\ turns' = [j \in Job |-> 0]
      /\ asked' = [r \in Review |-> <<>>]
  BY DEF Dies
<1>2. Len(requests) \in Nat /\ DOMAIN requests = 1..Len(requests)
  BY LenProperties DEF Inv, Scheduled
<1>3. \A r \in DOMAIN requests : [requests[r] EXCEPT !.stage = "over"] \in Requests
  <2> SUFFICES ASSUME NEW r \in DOMAIN requests PROVE [requests[r] EXCEPT !.stage = "over"] \in Requests
    OBVIOUS
  <2>1. requests[r] \in Requests
    BY <1>2, ElementOfSeq DEF Inv, Scheduled
  <2> QED
    BY <2>1 DEF Requests
<1>4. requests' \in Seq(Requests)
  <2>1. requests' \in [1..Len(requests) -> Requests]
    BY <1>1, <1>2, <1>3
  <2> QED
    BY <1>2, <2>1, SeqDef
<1>5. Len(requests') \in Nat
  BY <1>4, LenProperties
<1>6. Scheduled'
  BY <1>1, <1>4, <1>5 DEF Scheduled, TurnsTaken
<1>7. \A r \in Review : Stage(r) = "over" => Stage(r)' = "over"
  <2> SUFFICES ASSUME NEW r \in DOMAIN requests PROVE requests'[r].stage = "over"
    BY <1>1 DEF Stage
  <2>1. requests[r] \in Requests
    BY <1>2, ElementOfSeq DEF Inv, Scheduled
  <2> QED
    BY <1>1, <2>1 DEF Requests
<1>8. asked' \in [Review -> Seq(Nat)] /\ \A r \in Review : asked'[r] = <<>>
  <2>1. <<>> \in Seq(Nat)
    BY EmptySeq
  <2> QED
    BY <1>1, <2>1
<1>9. OnlyAsked'
  BY <1>8 DEF OnlyAsked
<1> QED
  BY <1>6, <1>7, <1>8, <1>9

\* The daemon dies and no row was written: of an application or a rollback the file may
\* have been.
LEMMA DeathKeeps ==
  ASSUME Inv, Dies, UNCHANGED <<suggestion, actions, cut>>,
         file' \in [Job -> Nat], writes' \in Nat
  PROVE  Inv'
<1>1. SuggestionsTyped'
  BY DeathFacts DEF Inv, Suggested, SuggestionsTyped
<1>2. \A q : InForce(q)' = InForce(q)
  BY DEF InForce
<1>3. OneInForce' /\ OriginalKept'
  BY <1>2 DEF Inv, Suggested, OneInForce, OriginalKept
<1>4. NothingYet'
  BY DeathFacts DEF Inv, Suggested, NothingYet
<1> QED
  BY <1>1, <1>3, <1>4, DeathFacts DEF Inv, Suggested

\* The daemon ends between two handlers.
LEMMA DownKeeps == ASSUME Inv, GoDown PROVE Inv'
<1>1. file' \in [Job -> Nat] /\ writes' \in Nat
  BY DEF GoDown, Inv, Suggested, SuggestionsTyped
<1> QED
  BY <1>1, DeathKeeps DEF GoDown

\* The daemon dies once the action of an application is recorded: the suggestion is cut,
\* or the action has changed nothing.
LEMMA DyingKeeps ==
  ASSUME Inv, Dies, NEW r \in Review, Stage(r) = "over", UNCHANGED suggestion,
         NEW a \in Actions, actions' = Append(actions, a), a.of = r, a.status # "rolled_back",
         cut' = cut \cup {r} \/ (cut' = cut /\ ~a.can),
         suggestion[r].kind = "ready" => a.original = a.before,
         file' \in [Job -> Nat], writes' \in Nat
  PROVE  Inv'
<1>1. /\ Scheduled' /\ OnlyAsked' /\ asked' \in [Review -> Seq(Nat)]
      /\ \A q \in Review : asked'[q] = <<>> /\ (Stage(q) = "over" => Stage(q)' = "over")
  BY DeathFacts
<1>2. /\ actions' \in Seq(Actions)
      /\ DOMAIN actions' = DOMAIN actions \cup {Len(actions) + 1}
      /\ \A k \in DOMAIN actions : actions'[k] = actions[k]
      /\ actions'[Len(actions) + 1] = a
      /\ \A q : InForce(q)' = IF a.of = q /\ a.can THEN InForce(q) \cup {Len(actions) + 1}
                              ELSE InForce(q)
  BY AppendFacts
<1>3. SuggestionsTyped'
  BY <1>1, <1>2 DEF Inv, Suggested, SuggestionsTyped
<1>4. NothingYet'
  <2> SUFFICES ASSUME NEW q \in Review, Stage(q)' # "over"
               PROVE  /\ suggestion'[q] = NoSuggestion /\ asked'[q] = <<>>
                      /\ \A k \in DOMAIN actions' : actions'[k].of # q
    BY DEF NothingYet
  <2>1. q # r /\ Stage(q) # "over"
    BY <1>1
  <2>2. suggestion[q] = NoSuggestion /\ \A k \in DOMAIN actions : actions[k].of # q
    BY <2>1 DEF Inv, Suggested, NothingYet
  <2> QED
    BY <1>1, <1>2, <2>1, <2>2
<1>5. OneInForce'
  <2> SUFFICES ASSUME NEW q \in Review \ cut', suggestion'[q].kind = "ready"
               PROVE  IF suggestion'[q].status = "applied"
                      THEN \E k : InForce(q)' = {k} ELSE InForce(q)' = {}
    BY DEF OneInForce
  <2>1. InForce(q)' = InForce(q) /\ q \notin cut
    BY <1>2
  <2> QED
    BY <2>1 DEF Inv, Suggested, OneInForce
<1>6. OriginalKept'
  <2> SUFFICES ASSUME NEW k \in DOMAIN actions', suggestion[actions'[k].of].kind = "ready"
               PROVE  actions'[k].original = actions'[k].before
    BY DEF OriginalKept
  <2>1. CASE k \in DOMAIN actions
    BY <1>2, <2>1 DEF Inv, Suggested, OriginalKept
  <2>2. CASE k \notin DOMAIN actions
    BY <1>2, <2>2
  <2> QED
    BY <2>1, <2>2
<1> QED
  BY <1>1, <1>3, <1>4, <1>5, <1>6 DEF Inv, Suggested

\* The daemon dies while a suggestion is applied, with success or not.
LEMMA DiesApplyingKeeps ==
  ASSUME Inv, NEW r \in Review, DiesApplying(r) \/ DiesFailing(r)
  PROVE  Inv'
<1>1. Dies /\ UNCHANGED suggestion
  BY DEF DiesApplying, DiesFailing
<1>2. Stage(r) = "over" /\ JobOf(r) \in Job
  <2>1. suggestion[r].status = "approved" \/ asked[r] # <<>>
    BY DEF DiesApplying, DiesFailing, Underway
  <2> QED
    BY <2>1, SuggestionIsLate
<1>3. CASE DiesFailing(r)
  <2>1. /\ FailedAction(r) \in Actions /\ FailedAction(r).of = r
        /\ FailedAction(r).status # "rolled_back" /\ ~FailedAction(r).can
        /\ FailedAction(r).original = FailedAction(r).before
    BY DEF FailedAction, Actions
  <2>2. actions' = Append(actions, FailedAction(r)) /\ UNCHANGED <<cut, file, writes>>
    BY <1>3 DEF DiesFailing
  <2>3. file' \in [Job -> Nat] /\ writes' \in Nat
    BY <2>2 DEF Inv, Suggested, SuggestionsTyped
  <2> QED
    BY <1>1, <1>2, <2>1, <2>2, <2>3, DyingKeeps
<1>4. CASE DiesApplying(r)
  <2>1. PICK a \in Underway(r) :
          /\ file' = [file EXCEPT ![JobOf(r)] = a.new]
          /\ writes' = IF suggestion[r].kind = "ready" THEN writes ELSE writes + 1
          /\ UNCHANGED <<actions, cut>>
             \/ (actions' = Append(actions, a) /\ cut' = cut \cup {r})
    BY <1>4 DEF DiesApplying
  <2>2. file[JobOf(r)] \in Nat /\ writes \in Nat /\ r \in Nat /\ MaxReviews \in Nat
    BY <1>2, ReviewsAssumption DEF Inv, Suggested, SuggestionsTyped, Review
  <2>3. /\ a \in Actions /\ a.of = r /\ a.status # "rolled_back"
        /\ suggestion[r].kind = "ready" => a.original = a.before
    <3>1. CASE a = Action(r, file[JobOf(r)], Original(r), r)
      BY <2>2, <3>1 DEF Action, Actions, Original
    <3>2. CASE /\ asked[r] # <<>>
               /\ a = Action(r, file[JobOf(r)], Head(asked[r]), MaxReviews + writes + 1)
      <4>1. Head(asked[r]) \in Nat /\ suggestion[r].kind # "ready"
        BY <3>2, HeadTailProperties DEF Inv, Suggested, SuggestionsTyped, OnlyAsked
      <4> QED
        BY <2>2, <3>2, <4>1 DEF Action, Actions
    <3> QED
      BY <3>1, <3>2 DEF Underway
  <2>4. file' \in [Job -> Nat] /\ writes' \in Nat
    BY <1>2, <2>1, <2>2, <2>3 DEF Inv, Suggested, SuggestionsTyped, Actions
  <2>5. CASE UNCHANGED <<actions, cut>>
    BY <1>1, <2>4, <2>5, DeathKeeps
  <2>6. CASE actions' = Append(actions, a) /\ cut' = cut \cup {r}
    BY <1>1, <1>2, <2>3, <2>4, <2>6, DyingKeeps
  <2> QED
    BY <2>1, <2>5, <2>6
<1> QED
  BY <1>3, <1>4

\* The daemon dies while an action is rolled back: the suggestion is cut if the action
\* is marked.
LEMMA DiesRollingBackKeeps ==
  ASSUME Inv, NEW k \in DOMAIN actions, DiesRollingBack(k)
  PROVE  Inv'
<1> DEFINE r == actions[k].of
<1>1. /\ Dies /\ UNCHANGED <<suggestion, writes>> /\ CanRollback(k)
      /\ file' = [file EXCEPT ![JobOf(r)] = actions[k].original]
  BY DEF DiesRollingBack, Restored
<1>2. actions[k] \in Actions /\ r \in Review /\ actions[k].original \in Nat
  BY ActionTypes DEF Actions
<1>3. file' \in [Job -> Nat]
  BY <1>1, <1>2 DEF Inv, Suggested, SuggestionsTyped
<1>4. CASE UNCHANGED <<actions, cut>>
  <2>1. writes' \in Nat
    BY <1>1 DEF Inv, Suggested, SuggestionsTyped
  <2> QED
    BY <1>1, <1>3, <1>4, <2>1, DeathKeeps
<1>5. CASE actions' = Became(k, "rolled_back") /\ cut' = cut \cup {r}
  <2>1. /\ actions' \in Seq(Actions) /\ DOMAIN actions' = DOMAIN actions
        /\ \A i \in DOMAIN actions : i # k => actions'[i] = actions[i]
        /\ actions'[k] = [actions[k] EXCEPT !.status = "rolled_back"]
        /\ \A q : InForce(q)' = InForce(q) \ {k}
    BY <1>1, <1>5, BecameFacts
  <2>2. \A i \in DOMAIN actions : /\ actions'[i].of = actions[i].of
                                 /\ actions'[i].original = actions[i].original
                                 /\ actions'[i].before = actions[i].before
    BY <1>2, <2>1 DEF Actions
  <2>3. SuggestionsTyped'
    BY <1>1, <1>3, <2>1, DeathFacts DEF Inv, Suggested, SuggestionsTyped
  <2>4. NothingYet'
    BY <1>1, <2>1, <2>2, DeathFacts DEF Inv, Suggested, NothingYet
  <2>5. OneInForce'
    <3> SUFFICES ASSUME NEW q \in Review \ cut', suggestion'[q].kind = "ready"
                 PROVE  IF suggestion'[q].status = "applied"
                        THEN \E i : InForce(q)' = {i} ELSE InForce(q)' = {}
      BY DEF OneInForce
    <3>1. q # r /\ q \notin cut
      BY <1>5
    <3>2. k \notin InForce(q)
      BY <3>1 DEF InForce
    <3>3. InForce(q)' = InForce(q)
      BY <2>1, <3>2
    <3> QED
      BY <1>1, <3>1, <3>3 DEF Inv, Suggested, OneInForce
  <2>6. OriginalKept'
    BY <1>1, <2>1, <2>2 DEF Inv, Suggested, OriginalKept
  <2> QED
    BY <1>1, <2>3, <2>4, <2>5, <2>6, DeathFacts DEF Inv, Suggested
<1> QED
  BY <1>4, <1>5 DEF DiesRollingBack

\* Steps that are about neither requests nor suggestions.
LEMMA RestKeeps ==
  ASSUME Inv, BeginPass \/ AgentsChange \/ ComeUp \/ UNCHANGED vars
  PROVE  Inv'
<1>1. UNCHANGED <<requests, looping, lastCheck, turns>> /\ UNCHANGED suggestionVars
  BY DEF BeginPass, AgentsChange, ComeUp, vars, reviewVars
<1>2. Scheduled'
  BY <1>1 DEF Inv, Scheduled, TurnsTaken, JobOf
<1>3. \A r \in Review : Stage(r) = "over" => Stage(r)' = "over"
  BY <1>1 DEF Stage
<1> QED
  BY <1>1, <1>2, <1>3, SuggestedStays DEF Inv

-----------------------------------------------------------------------------
(* The invariant and what follows from it                                    *)

\* There are no reviews at first.
LEMMA InitInv == Init => Inv
<1> SUFFICES ASSUME Init PROVE Inv
  OBVIOUS
<1>1. requests \in Seq(Requests) /\ Len(requests) = 0
  BY EmptySeq DEF Init
<1>2. Scheduled
  BY <1>1 DEF Init, Scheduled, TurnsTaken
<1>3. actions \in Seq(Actions) /\ DOMAIN actions = {} /\ <<>> \in Seq(Nat)
  BY EmptySeq DEF Init
<1>4. NoSuggestion \in Suggestions /\ NoSuggestion.kind = "none"
  BY DEF NoSuggestion, Suggestions
<1>5. SuggestionsTyped
  BY <1>3, <1>4 DEF Init, SuggestionsTyped
<1>6. NothingYet /\ OnlyAsked /\ OneInForce /\ OriginalKept
  BY <1>3, <1>4 DEF Init, NothingYet, OnlyAsked, OneInForce, OriginalKept
<1> QED
  BY <1>2, <1>5, <1>6 DEF Inv, Suggested

\* Every step keeps the invariant.
LEMMA NextInv == Inv /\ [Next]_vars => Inv'
<1> SUFFICES ASSUME Inv, [Next]_vars PROVE Inv'
  OBVIOUS
<1>1. CASE BeginPass \/ AgentsChange \/ ComeUp \/ UNCHANGED vars
  BY <1>1, RestKeeps
<1>2. CASE GoDown
  BY <1>2, DownKeeps
<1>3. ASSUME NEW j \in Job, TriggerReview(j) \/ TriggerOnEvent(j) \/ LookAt(j)
                           \/ IntervalPasses(j) \/ EditFile(j)
      PROVE Inv'
  BY <1>3, TriggerKeeps, LookAtKeeps, IntervalKeeps, EditKeeps
<1>4. ASSUME NEW r \in Review, Acquire(r) \/ BeginReview(r) \/ GiveUp(r) \/ FailReview(r)
                              \/ CompleteReview(r)
      PROVE Inv'
  BY <1>4, AcquireKeeps, GiveUpKeeps, CompleteKeeps
<1>5. ASSUME NEW r \in Review, Approve(r) \/ Reject(r) \/ Apply(r) \/ Ask(r) \/ Answer(r)
                              \/ DiesApplying(r) \/ DiesFailing(r)
      PROVE Inv'
  BY <1>5, DecideKeeps, ApplyKeeps, AskKeeps, AnswerKeeps, DiesApplyingKeeps
<1>6. ASSUME NEW k \in DOMAIN actions, Rollback(k) \/ RollbackFails(k) \/ DiesRollingBack(k)
      PROVE Inv'
  BY <1>6, RollbackKeeps, RollbackFailsKeeps, DiesRollingBackKeeps
<1> QED
  BY <1>1, <1>2, <1>3, <1>4, <1>5, <1>6 DEF Next

\* Every state of the program satisfies the invariant.
THEOREM Invariance == Spec => []Inv
<1> QED
  BY InitInv, NextInv, PTL DEF Spec

\* The schedule reviews a job once in its interval, however its reviews end.
THEOREM TurnsAreTakenOnce == Spec => []OncePerInterval
<1>1. Inv => OncePerInterval
  BY DEF Inv, Scheduled, TurnsTaken, OncePerInterval
<1> QED
  BY <1>1, Invariance, PTL

\* Through any sequence of approvals, applications and rollbacks, failed or not, a
\* suggestion has one change in force exactly while its status says applied, unless the
\* daemon died between the record of its action and that of the suggestion.
THEOREM StatusIsTrue == Spec => []StatusMatchesActions
<1>1. Inv => StatusMatchesActions
  <2> SUFFICES ASSUME Inv, NEW r \in Review \ cut, suggestion[r].kind = "ready"
               PROVE  Cardinality(InForce(r)) = (IF suggestion[r].status = "applied" THEN 1 ELSE 0)
    BY DEF StatusMatchesActions
  <2> QED
    BY FS_EmptySet, FS_Singleton DEF Inv, Suggested, OneInForce
<1> QED
  BY <1>1, Invariance, PTL

\* A step that rolls an action back is the rollback of that action, cut or not.
LEMMA OnlyRollbackRolls ==
  ASSUME Inv, Next, NEW k \in DOMAIN actions, RollsBack(k)
  PROVE  Rollback(k) \/ DiesRollingBack(k)
<1>1. ASSUME NEW a, actions' = Append(actions, a) PROVE FALSE
  <2>1. actions \in Seq(Actions \cup {a}) /\ a \in Actions \cup {a}
    BY SeqMonotonic DEF Inv, Suggested, SuggestionsTyped
  <2>2. actions'[k] = actions[k]
    BY <1>1, <2>1, AppendProperties, LenProperties
  <2> QED
    BY <2>2 DEF RollsBack
<1>2. actions' # actions
  BY DEF RollsBack
<1>3. ASSUME NEW r \in Review, \/ Apply(r) \/ Answer(r)
                               \/ DiesApplying(r) \/ DiesFailing(r)
      PROVE FALSE
  BY <1>1, <1>2, <1>3 DEF Apply, Answer, ApplyFails, DiesApplying, DiesFailing
<1>4. ASSUME NEW i \in DOMAIN actions,
             Rollback(i) \/ RollbackFails(i) \/ DiesRollingBack(i)
      PROVE  Rollback(k) \/ DiesRollingBack(k)
  <2>1. PICK status \in {"failed", "rolled_back"} :
          /\ CanRollback(i) /\ actions' = Became(i, status)
          /\ status = "rolled_back" => Rollback(i) \/ DiesRollingBack(i)
    BY <1>2, <1>4 DEF Rollback, RollbackFails, DiesRollingBack
  <2>2. i = k
    BY <2>1, BecameFacts DEF RollsBack
  <2>3. actions'[k].status = status
    BY <2>1, <2>2, BecameFacts, ActionTypes DEF Actions
  <2> QED
    BY <2>1, <2>2, <2>3 DEF RollsBack
<1>5. ASSUME BeginPass \/ AgentsChange \/ GoDown \/ ComeUp PROVE FALSE
  BY <1>2, <1>5 DEF BeginPass, AgentsChange, GoDown, ComeUp, suggestionVars
<1>6. ASSUME NEW j \in Job, TriggerReview(j) \/ TriggerOnEvent(j) \/ LookAt(j)
                           \/ IntervalPasses(j) \/ EditFile(j)
      PROVE FALSE
  BY <1>2, <1>6 DEF TriggerReview, TriggerOnEvent, LookAt, IntervalPasses, EditFile, suggestionVars
<1>7. ASSUME NEW r \in Review, Acquire(r) \/ BeginReview(r) \/ GiveUp(r) \/ FailReview(r)
                              \/ CompleteReview(r) \/ Approve(r) \/ Reject(r) \/ Ask(r)
      PROVE FALSE
  BY <1>2, <1>7 DEF Acquire, BeginReview, GiveUp, FailReview, CompleteReview, Approve, Reject,
     Decide, Ask, suggestionVars
<1> QED
  BY <1>3, <1>4, <1>5, <1>6, <1>7 DEF Next

\* A suggestion that came with its content is rolled back to what its file held.
THEOREM RollbacksRestore == Spec => RollbackRestores
<1>1. Inv /\ [Next]_vars =>
        [\A k \in DOMAIN actions :
           (suggestion[actions[k].of].kind = "ready" /\ RollsBack(k))
             => file'[JobOf(actions[k].of)] = actions[k].before]_vars
  <2> SUFFICES ASSUME Inv, Next, NEW k \in DOMAIN actions,
                      suggestion[actions[k].of].kind = "ready", RollsBack(k)
               PROVE  file'[JobOf(actions[k].of)] = actions[k].before
    OBVIOUS
  <2>1. Rollback(k) \/ DiesRollingBack(k)
    BY OnlyRollbackRolls
  <2>2. JobOf(actions[k].of) \in Job
    <3>1. CanRollback(k) /\ actions' = Became(k, "rolled_back")
      BY <2>1 DEF Rollback, DiesRollingBack, RollsBack
    <3> QED
      BY <3>1, BecameFacts
  <2>3. file' = [file EXCEPT ![JobOf(actions[k].of)] = actions[k].original]
    BY <2>1 DEF Rollback, DiesRollingBack, Restored
  <2>4. actions[k].original = actions[k].before
    BY DEF Inv, Suggested, OriginalKept
  <2> QED
    BY <2>2, <2>3, <2>4 DEF Inv, Suggested, SuggestionsTyped
<1> QED
  BY <1>1, Invariance, PTL DEF Spec, RollbackRestores
=============================================================================
