------------------------------ MODULE Watchdog ------------------------------
(***************************************************************************)
(* The dead man's switch (core/watchdog.py): a task of the daemon compares *)
(* the last expected run of every scheduled job with its last actual run   *)
(* and alerts when the job is overdue.                                     *)
(*                                                                         *)
(* Time is counted in ticks of the daemon's local clock; one tick is the   *)
(* check interval.  An instant is written as the daemon's local time.      *)
(* Offset[j] is what the wall clock of the job's time zone shows beyond    *)
(* the local one.                                                          *)
(***************************************************************************)
EXTENDS Integers

CONSTANTS
  Job,           \* scheduled and openclaw jobs with a schedule
  Slots,         \* Slots[j]: the instants at which the cron expression of j matches
  Offset,        \* Offset[j]: the job's wall clock minus the local wall clock
  Hour, Day, Week,
  GraceFloor, GraceHourly, GraceDaily, GraceWeekly,
  MaxTime,       \* bound on the clock
  Runnable,      \* jobs the supervisor does start; the others miss every run
  Editable       \* jobs whose configuration is edited while the daemon runs

ASSUME UnitsAreOrdered ==
  /\ {Hour, Day, Week, GraceFloor, GraceHourly, GraceDaily, GraceWeekly} \subseteq Nat
  /\ Hour < Day /\ Day < Week
ASSUME OffsetsWithinADay == Offset \in [Job -> (1 - Day)..(Day - 1)]
ASSUME BoundsMakeSense == MaxTime \in Nat /\ Runnable \subseteq Job /\ Editable \subseteq Job

\* No slot lies between s and n.
Adjacent(j, s, n) == s < n /\ \A u \in Slots[j] : u <= s \/ u >= n

\* croniter.get_prev and get_next: the nearest slot strictly before and after t.
IsBefore(j, t, s) == s < t /\ \A u \in Slots[j] : u < t => u <= s
IsAfter(j, t, s) == s > t /\ \A u \in Slots[j] : u > t => u >= s
SlotBefore == [j \in Job |-> [t \in Int |-> CHOOSE s \in Slots[j] : IsBefore(j, t, s)]]
SlotAfter == [j \in Job |-> [t \in Int |-> CHOOSE s \in Slots[j] : IsAfter(j, t, s)]]

\* A cron expression always matches again, and always has.
ASSUME SchedulesGoOn ==
  /\ Slots \in [Job -> SUBSET Int]
  /\ \A j \in Job : \A t \in (0 - Day)..(MaxTime + Day) :
       /\ \E s \in Slots[j] : IsBefore(j, t, s)
       /\ \E s \in Slots[j] : IsAfter(j, t, s) /\ \E n \in Slots[j] : IsAfter(j, s, n)

VARIABLES
  now,           \* the local clock
  checked,       \* the loop has run in this tick
  up,            \* the daemon runs
  enabled,       \* jobs whose configuration says enabled
  ran,           \* started_at of the last run of a job, Never if it has none
  alertedMisses, \* <<job, expected>> pairs already alerted (or suppressed)
  alerts,        \* history: alerts this daemon has sent, [job, slot, at]
  old            \* history: the misses that were there when this daemon started

vars == <<now, checked, up, enabled, ran, alertedMisses, alerts, old>>

-----------------------------------------------------------------------------
(* check_job                                                               *)

\* A last run so long ago that no expected run precedes it.
Never == -(3 * Day)

LongerOf(x, y) == IF x < y THEN y ELSE x

\* _get_schedule_interval_seconds: the next gap, of a schedule read in local time.
GapAfter == [j \in Job |-> [run1 \in Int |-> SlotAfter[j][run1] - run1]]
IntervalAt(j, t) == GapAfter[j][SlotAfter[j][t - Offset[j]]]

\* _get_grace_period: frequent jobs get twice their interval.
GraceOf ==
  [interval \in Int |->
     CASE interval < Hour -> LongerOf(2 * interval, GraceFloor)
       [] interval >= Hour /\ interval < Day -> GraceHourly
       [] interval >= Day /\ interval < Week -> GraceDaily
       [] interval >= Week -> GraceWeekly]
GracePeriod(j, t) == GraceOf[IntervalAt(j, t)]

\* The last expected run, strictly before now.
PreviousSlot(j) == SlotBefore[j][now]

\* _get_last_expected_run returns None for a run more than a day ago.
Expected(j) == PreviousSlot(j) >= now - Day

\* started_at is a naive local time, which check_job reads in the job's zone.
ReadAsZoned(j) == ran[j] - Offset[j]

Overdue(j) == now > PreviousSlot(j) + GracePeriod(j, now)

NotRunSince(j) == ReadAsZoned(j) < PreviousSlot(j)

Missed(j) ==
  /\ j \in enabled
  /\ Expected(j)
  /\ Overdue(j)
  /\ NotRunSince(j)

\* check_all_jobs: the misses that are not among the known ones.
MissesBeyond(known) ==
  {<<j, PreviousSlot(j)>> : j \in {i \in Job : Missed(i)}} \ known

\* _cleanup_old_alerts compares the job's wall clock with the local one.
ForgetAll(pairs) == {}                        \* fault: every pair is forgotten
Forget(pairs) == {p \in pairs : p[2] + Offset[p[1]] > now - Day}

-----------------------------------------------------------------------------
Init ==
  /\ now = 0
  /\ checked = FALSE
  /\ up = FALSE
  /\ enabled = Job
  /\ ran = [j \in Job |-> Never]
  /\ alertedMisses = {}
  /\ alerts = {}
  /\ old = {}

SuppressedEarly ==                            \* fault: also what is not yet overdue
  {<<j, PreviousSlot(j)>> : j \in {i \in enabled : NotRunSince(i)}}
SuppressedRecent ==                           \* fault: only those of the last hour
  {p \in MissesBeyond({}) : p[2] > now - Hour}
Suppressed == MissesBeyond({})

\* run starts: an empty set of alerts, then _suppress_startup_alerts.
Start ==
  /\ ~up
  /\ up' = TRUE
  /\ alertedMisses' = Suppressed
  /\ alerts' = {}
  /\ old' = MissesBeyond({})
  /\ checked' = FALSE
  /\ UNCHANGED <<now, enabled, ran>>

\* The daemon ends or crashes: nothing of the watchdog is persisted.
Stop ==
  /\ up
  /\ up' = FALSE
  /\ UNCHANGED <<now, checked, enabled, ran, alertedMisses, alerts, old>>

\* _check_and_alert
CheckAndAlert ==
  /\ up
  /\ ~checked
  /\ checked' = TRUE
  /\ alerts' = alerts \cup {[job |-> p[1], slot |-> p[2], at |-> now] : p \in MissesBeyond(alertedMisses)}
  /\ alertedMisses' = Forget(alertedMisses \cup MissesBeyond(alertedMisses))
  /\ UNCHANGED <<now, up, enabled, ran, old>>

\* The supervisor starts job j, on schedule, late or on request.
Run(j) ==
  /\ j \in Runnable
  /\ up
  /\ ran[j] < now
  /\ ran' = [ran EXCEPT ![j] = now]
  /\ UNCHANGED <<now, checked, up, enabled, alertedMisses, alerts, old>>

\* The configuration of job j is edited and reloaded.
Toggle(j) ==
  /\ j \in Editable
  /\ enabled' = IF j \in enabled THEN enabled \ {j} ELSE enabled \cup {j}
  /\ UNCHANGED <<now, checked, up, ran, alertedMisses, alerts, old>>

\* While the daemon is up the loop runs in every tick.
Tick ==
  /\ now < MaxTime
  /\ up => checked
  /\ now' = now + 1
  /\ checked' = FALSE
  /\ UNCHANGED <<up, enabled, ran, alertedMisses, alerts, old>>

Next ==
  \/ Start \/ Stop \/ CheckAndAlert \/ Tick
  \/ \E j \in Job : Run(j) \/ Toggle(j)

Spec == Init /\ [][Next]_vars

\* The clock advances and the loop runs while the event loop lives.
FairSpec == Spec /\ WF_vars(Tick) /\ WF_vars(CheckAndAlert)

-----------------------------------------------------------------------------
(* Properties                                                              *)

TypeOK ==
  /\ now \in 0..MaxTime
  /\ {checked, up} \subseteq BOOLEAN
  /\ enabled \subseteq Job
  /\ ran \in [Job -> Int]
  /\ \A j \in Job : ran[j] = Never \/ ran[j] \in 0..now
  /\ alertedMisses \cup old \subseteq Job \X Int
  /\ \A p \in alertedMisses : p[2] \in Slots[p[1]]
  /\ alerts \subseteq [job : Job, slot : Int, at : 0..now]

Alerted == {<<x.job, x.slot>> : x \in alerts}

\* What is alerted or was there at the start stays known as long as it is among the
\* last day's expected runs: the strengthening the next two properties need.
Remembered ==
  \A p \in Alerted \cup old : Offset[p[1]] >= 0 =>
    \/ p \in alertedMisses
    \/ p[2] < now - Day
    \/ p[2] = now - Day /\ checked

\* An expected run is alerted at most once, if the clock of the job's zone is not
\* behind the local one: a miss is not forgotten while it can still be detected.
OneAlertPerMiss ==
  \A x, y \in alerts :
    (x.job = y.job /\ x.slot = y.slot /\ Offset[x.job] >= 0) => x = y

\* What was missed before the daemon started is not alerted by it, in such a zone:
\* neither at its first check nor when the clean-up has gone over what is known.
NothingOldIsAlerted ==
  \A x \in alerts : Offset[x.job] >= 0 => <<x.job, x.slot>> \notin old

\* A schedule with gaps of less than an hour, none more than twice another.
Steady(j) ==
  \A s, n, u, v \in Slots[j] :
    Adjacent(j, s, n) /\ Adjacent(j, u, v) => n - s < Hour /\ n - s <= 2 * (v - u)

\* A job with such a schedule is never alerted, if it runs or not: the deadline of its
\* last expected run lies behind the next one.
SteadyNeverAlerted == \A x \in alerts : ~Steady(x.job)

\* The slots of jobs, and the instant at which they are overdue, if that is before the
\* next slot has taken their place; of the jobs whose clock is not behind the local one.
ToDetect ==
  {m \in [job : {j \in Job : Offset[j] >= 0}, slot : 0..MaxTime, overdue : 0..MaxTime] :
     /\ m.slot \in Slots[m.job]
     /\ m.slot < m.overdue /\ m.overdue <= SlotAfter[m.job][m.slot] /\ m.overdue <= m.slot + Day
     /\ m.overdue > m.slot + GracePeriod(m.job, m.overdue)
     /\ \A t \in (m.slot + 1)..(m.overdue - 1) : t <= m.slot + GracePeriod(m.job, t)}

\* A run that is due and will be overdue is alerted, unless the job runs after all, is
\* disabled, or the daemon ends: whenever the daemon was started.
MissDetected ==
  \A m \in ToDetect :
    ( m.slot < now /\ now < m.overdue /\ up /\ m.job \in enabled /\ ran[m.job] < m.slot )
    ~> ( \/ \E x \in alerts : x.job = m.job /\ x.slot = m.slot
         \/ ran[m.job] >= m.slot
         \/ m.job \notin enabled
         \/ ~up )
=============================================================================
