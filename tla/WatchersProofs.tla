--------------------------- MODULE WatchersProofs ---------------------------
(***************************************************************************)
(* What watches over the jobs, in three parts that share nothing but that  *)
(* the daemon is up.                                                       *)
(*                                                                         *)
(* The watchdog, for every set of jobs, schedules (any sets of instants    *)
(* that go on), time zones and tables of grace periods: where the job's    *)
(* clock is not behind the local one, no expected run is alerted twice,    *)
(* and none that was missed before the daemon started; and no job with     *)
(* short, even gaps is ever alerted.                                       *)
(*                                                                         *)
(* The monitors, for any configurations, number of runs and bound on the   *)
(* queue: the audit log follows the health checks, and who reads that a    *)
(* killed run failed has read that it was killed.                          *)
(*                                                                         *)
(* The queue of healing requests, for every set of runs and jobs: it holds *)
(* one request of a job at most, however often jobs fail, agents answer,   *)
(* operators cancel and the daemon restarts.  The agent's sessions outlive *)
(* their requests and are not counted.                                     *)
(***************************************************************************)
EXTENDS Watchdog, Monitors, HealingQueue, Integers, SequenceTheorems, FiniteSetTheorems,
        TLAPS

\* The part of the type invariant the arguments below rest on.
Typed ==
  /\ now \in 0..MaxTime
  /\ ran \in [Job -> Int]
  /\ enabled \subseteq Job
  /\ checked \in BOOLEAN
  /\ alertedMisses \subseteq Job \X Int
  /\ old \subseteq Job \X Int
  /\ alerts \subseteq [job : Job, slot : Int, at : Int]

\* The inductive invariant.
Sound ==
  /\ Typed
  /\ SteadyNeverAlerted
  /\ Remembered
  /\ OneAlertPerMiss
  /\ NothingOldIsAlerted

\* get_prev finds the last slot before now.
LEMMA LastSlot ==
  ASSUME NEW j \in Job, now \in 0..MaxTime
  PROVE  /\ PreviousSlot(j) \in Slots[j]
         /\ PreviousSlot(j) \in Int
         /\ IsBefore(j, now, PreviousSlot(j))
<1>1. now \in (0 - Day)..(MaxTime + Day) /\ now \in Int
  BY UnitsAreOrdered, BoundsMakeSense
<1>2. \E s \in Slots[j] : IsBefore(j, now, s)
  BY <1>1, SchedulesGoOn
<1>3. PreviousSlot(j) = CHOOSE s \in Slots[j] : IsBefore(j, now, s)
  BY <1>1 DEF PreviousSlot, SlotBefore
<1>4. PreviousSlot(j) \in Slots[j] /\ IsBefore(j, now, PreviousSlot(j))
  BY <1>2, <1>3
<1>5. Slots[j] \subseteq Int
  BY SchedulesGoOn
<1> QED
  BY <1>4, <1>5

\* get_next finds the first slot after an instant near the clock.
LEMMA FirstSlot ==
  ASSUME NEW j \in Job, NEW t \in (0 - Day)..(MaxTime + Day)
  PROVE  /\ SlotAfter[j][t] \in Slots[j]
         /\ SlotAfter[j][t] \in Int
         /\ IsAfter(j, t, SlotAfter[j][t])
<1>1. \E s \in Slots[j] : IsAfter(j, t, s)
  BY SchedulesGoOn
<1>2. t \in Int
  BY UnitsAreOrdered, BoundsMakeSense
<1>3. SlotAfter[j][t] = CHOOSE s \in Slots[j] : IsAfter(j, t, s)
  BY <1>2 DEF SlotAfter
<1>4. SlotAfter[j][t] \in Slots[j] /\ IsAfter(j, t, SlotAfter[j][t])
  BY <1>1, <1>3
<1>5. Slots[j] \subseteq Int
  BY SchedulesGoOn
<1> QED
  BY <1>4, <1>5

\* The interval the grace period goes by is the gap between two slots of the job.
LEMMA IntervalIsAGap ==
  ASSUME NEW j \in Job, now \in 0..MaxTime
  PROVE  \E u, v \in Slots[j] :
           u \in Int /\ v \in Int /\ Adjacent(j, u, v) /\ IntervalAt(j, now) = v - u
<1> DEFINE t == now - Offset[j]
           u == SlotAfter[j][t]
           v == SlotAfter[j][u]
<1>1. Day \in Nat /\ MaxTime \in Nat /\ Offset[j] \in (1 - Day)..(Day - 1)
  BY UnitsAreOrdered, BoundsMakeSense, OffsetsWithinADay
<1>2. t \in (0 - Day)..(MaxTime + Day)
  BY <1>1
<1>3. u \in Slots[j] /\ u \in Int /\ IsAfter(j, t, u)
  BY <1>2, FirstSlot
<1>4. Slots[j] \subseteq Int
  BY SchedulesGoOn
<1>5. \E n \in Slots[j] : IsAfter(j, u, n)
  <2>1. PICK s \in Slots[j] : IsAfter(j, t, s) /\ \E n \in Slots[j] : IsAfter(j, s, n)
    BY <1>2, SchedulesGoOn
  <2>2. s <= u /\ u <= s
    BY <1>3, <2>1 DEF IsAfter
  <2>3. s = u
    <3> HIDE DEF u
    <3>1. s \in Int /\ u \in Int
      BY <1>3, <1>4, <2>1
    <3> QED
      BY <2>2, <3>1
  <2> QED
    BY <2>1, <2>3
<1>6. v = CHOOSE s \in Slots[j] : IsAfter(j, u, s)
  BY <1>3 DEF SlotAfter
<1>7. v \in Slots[j] /\ IsAfter(j, u, v)
  BY <1>5, <1>6
<1>8. v \in Int
  BY <1>4, <1>7
<1>9. IntervalAt(j, now) = v - u
  BY <1>3 DEF IntervalAt, GapAfter
<1> HIDE DEF t, u, v
<1>10. Adjacent(j, u, v)
  BY <1>3, <1>4, <1>7, <1>8 DEF Adjacent, IsAfter
<1> QED
  BY <1>3, <1>7, <1>8, <1>9, <1>10

\* What check_all_jobs returns: the overdue last expected runs that are not known.
LEMMA MissesAreOverdue ==
  ASSUME NEW known, NEW p \in MissesBeyond(known)
  PROVE  /\ p \notin known
         /\ \E j \in Job : p = <<j, PreviousSlot(j)>> /\ Missed(j)
BY DEF MissesBeyond

\* A job with short, even gaps is never overdue: by then it is expected again.
LEMMA SteadyNeverMissed ==
  ASSUME NEW j \in Job, now \in 0..MaxTime, Steady(j), Missed(j)
  PROVE  FALSE
<1> DEFINE s == PreviousSlot(j)
           n == SlotAfter[j][now - 1]
<1>1. now \in Int /\ Day \in Nat /\ MaxTime \in Nat /\ Hour \in Nat /\ GraceFloor \in Nat
  BY UnitsAreOrdered, BoundsMakeSense
<1>2. now - 1 \in (0 - Day)..(MaxTime + Day)
  BY <1>1, UnitsAreOrdered
<1>3. s \in Slots[j] /\ s \in Int /\ IsBefore(j, now, s)
  BY LastSlot
<1>4. n \in Slots[j] /\ n \in Int /\ IsAfter(j, now - 1, n)
  BY <1>2, FirstSlot
<1>5. Slots[j] \subseteq Int
  BY SchedulesGoOn
<1>6. PICK u \in Slots[j], v \in Slots[j] :
        u \in Int /\ v \in Int /\ Adjacent(j, u, v) /\ IntervalAt(j, now) = v - u
  BY IntervalIsAGap
<1>7. now > s + GracePeriod(j, now)
  BY DEF Missed, Overdue
<1> HIDE DEF s, n
<1>8. Adjacent(j, s, n)
  BY <1>1, <1>3, <1>4, <1>5 DEF Adjacent, IsBefore, IsAfter
<1>9. v - u < Hour /\ n - s <= 2 * (v - u)
  BY <1>3, <1>4, <1>6, <1>8 DEF Steady
<1>10. GraceOf[v - u] = LongerOf(2 * (v - u), GraceFloor)
  BY <1>1, <1>6, <1>9, UnitsAreOrdered DEF GraceOf
<1>11. GracePeriod(j, now) \in Int /\ GracePeriod(j, now) >= 2 * (v - u)
  BY <1>1, <1>6, <1>10 DEF GracePeriod, LongerOf
<1>12. n >= now
  BY <1>1, <1>4 DEF IsAfter
<1> QED
  BY <1>1, <1>3, <1>4, <1>6, <1>7, <1>9, <1>11, <1>12

\* The invariant holds when the daemon has not started yet.
LEMMA InitSound == Init => Sound
<1>1. Never \in Int
  BY UnitsAreOrdered DEF Never
<1> SUFFICES ASSUME Init PROVE Sound
  OBVIOUS
<1>2. now = 0 /\ enabled = Job /\ checked = FALSE /\ alertedMisses = {}
      /\ alerts = {} /\ old = {}
  BY DEF Init
<1>3. ran \in [Job -> Int]
  BY <1>1 DEF Init
<1>4. Typed
  <2>1. /\ alertedMisses \subseteq Job \X Int /\ old \subseteq Job \X Int
        /\ alerts \subseteq [job : Job, slot : Int, at : Int]
    BY <1>2
  <2>2. now \in 0..MaxTime /\ enabled \subseteq Job
    BY <1>2, BoundsMakeSense
  <2>3. checked \in BOOLEAN
    <3>1. checked = FALSE
      BY <1>2
    <3> QED
      BY <3>1
  <2> QED
    BY <1>3, <2>1, <2>2, <2>3 DEF Typed
<1>5. SteadyNeverAlerted /\ Remembered /\ OneAlertPerMiss /\ NothingOldIsAlerted
  BY <1>2 DEF SteadyNeverAlerted, Remembered, Alerted, OneAlertPerMiss, NothingOldIsAlerted
<1> QED
  BY <1>4, <1>5 DEF Sound

\* The loop's check keeps it: what it alerts is neither known nor steady, and what was
\* there at the start is known.
LEMMA CheckKeepsSound == Sound /\ CheckAndAlert => Sound'
<1> SUFFICES ASSUME Sound, CheckAndAlert PROVE Sound'
  OBVIOUS
<1> DEFINE new == MissesBeyond(alertedMisses)
<1>1. /\ now' = now /\ ran' = ran /\ enabled' = enabled /\ checked' = TRUE /\ checked = FALSE
      /\ old' = old
  BY DEF CheckAndAlert, Sound, Typed
<1>2. alerts' = alerts \cup {[job |-> p[1], slot |-> p[2], at |-> now] : p \in new}
  BY DEF CheckAndAlert
<1>3. alertedMisses' = Forget(alertedMisses \cup new)
  BY DEF CheckAndAlert
<1>4. now \in 0..MaxTime /\ now \in Int /\ Day \in Nat
  BY UnitsAreOrdered, BoundsMakeSense DEF Sound, Typed
<1>5. \A p \in new : /\ p \in Job \X Int
                     /\ p \notin alertedMisses
                     /\ ~Steady(p[1])
                     /\ p[2] >= now - Day
  <2> TAKE p \in new
  <2>1. PICK j \in Job : p = <<j, PreviousSlot(j)>> /\ Missed(j)
    BY MissesAreOverdue
  <2>2. PreviousSlot(j) \in Int
    BY <1>4, LastSlot
  <2>3. ~Steady(j)
    BY <1>4, <2>1, SteadyNeverMissed
  <2>4. PreviousSlot(j) >= now - Day
    BY <2>1 DEF Missed, Expected
  <2>5. p \notin alertedMisses
    BY MissesAreOverdue
  <2> HIDE DEF new
  <2> QED
    BY <2>1, <2>2, <2>3, <2>4, <2>5
<1> HIDE DEF new
<1>6. \A x \in alerts' : \/ x \in alerts
                         \/ \E p \in new : x = [job |-> p[1], slot |-> p[2], at |-> now]
  BY <1>2
<1>7. Typed'
  <2>1. alertedMisses' \subseteq Job \X Int
    BY <1>3, <1>5 DEF Forget, Sound, Typed
  <2>2. alerts' \subseteq [job : Job, slot : Int, at : Int]
    BY <1>4, <1>5, <1>6 DEF Sound, Typed
  <2> QED
    BY <1>1, <2>1, <2>2 DEF Sound, Typed
<1>8. SteadyNeverAlerted'
  <2> SUFFICES ASSUME NEW x \in alerts' PROVE ~Steady(x.job)
    BY DEF SteadyNeverAlerted, Steady, Adjacent
  <2>1. CASE x \in alerts
    BY <2>1 DEF Sound, SteadyNeverAlerted
  <2>2. ASSUME NEW p \in new, x = [job |-> p[1], slot |-> p[2], at |-> now] PROVE ~Steady(x.job)
    BY <1>5, <2>2
  <2> QED
    BY <1>6, <2>1, <2>2
<1>9. \A p \in alertedMisses \cup new :
        Offset[p[1]] >= 0 /\ p[2] > now - Day => p \in alertedMisses'
  <2> SUFFICES ASSUME NEW p \in alertedMisses \cup new, Offset[p[1]] >= 0, p[2] > now - Day
               PROVE  p[2] + Offset[p[1]] > now - Day
    BY <1>3 DEF Forget
  <2>1. p \in Job \X Int
    BY <1>5 DEF Sound, Typed
  <2>2. Offset[p[1]] \in Int /\ p[2] \in Int
    BY <2>1, OffsetsWithinADay, UnitsAreOrdered
  <2> QED
    BY <1>4, <2>2
<1>10. \A x \in alerts' : x.job \in Job /\ x.slot \in Int
  BY <1>7 DEF Typed
<1>11. \A p \in Alerted' \cup old : p \in Alerted \cup old \cup new /\ p \in Job \X Int
  <2> SUFFICES ASSUME NEW p \in Alerted' \cup old
               PROVE  p \in Alerted \cup old \cup new /\ p \in Job \X Int
    OBVIOUS
  <2>1. CASE p \in old
    BY <2>1 DEF Sound, Typed
  <2>2. CASE p \in Alerted'
    <3>1. PICK x \in alerts' : p = <<x.job, x.slot>>
      BY <2>2 DEF Alerted
    <3>2. CASE x \in alerts
      BY <1>10, <3>1, <3>2 DEF Alerted
    <3>3. ASSUME NEW q \in new, x = [job |-> q[1], slot |-> q[2], at |-> now]
          PROVE  p \in new /\ p \in Job \X Int
      BY <1>5, <3>1, <3>3
    <3> QED
      BY <1>6, <1>10, <3>1, <3>2, <3>3
  <2> QED
    BY <2>1, <2>2
<1>12. Remembered'
  <2> SUFFICES ASSUME NEW p \in Alerted' \cup old, Offset[p[1]] >= 0
               PROVE  p \in alertedMisses' \/ p[2] <= now - Day
    <3>1. \A p \in Alerted' \cup old : p[2] \in Int
      BY <1>11
    <3> QED
      BY <1>1, <1>4, <3>1 DEF Remembered
  <2>1. p \in Alerted \cup old \cup new /\ p[2] \in Int
    BY <1>11
  <2>2. CASE p \in new
    BY <1>4, <1>9, <2>1, <2>2
  <2>3. CASE p \in Alerted \cup old
    BY <1>1, <1>4, <1>9, <2>1, <2>3 DEF Sound, Remembered
  <2> QED
    BY <2>1, <2>2, <2>3
<1>13. \A p \in new : p \in Alerted \cup old => ~(Offset[p[1]] >= 0)
  <2> SUFFICES ASSUME NEW p \in new, p \in Alerted \cup old, Offset[p[1]] >= 0 PROVE FALSE
    OBVIOUS
  <2>1. p[2] \in Int /\ p[2] >= now - Day /\ p \notin alertedMisses
    BY <1>5
  <2> QED
    BY <1>1, <1>4, <2>1 DEF Sound, Remembered
<1>14. OneAlertPerMiss'
  <2> SUFFICES ASSUME NEW x \in alerts', NEW y \in alerts',
                      x.job = y.job, x.slot = y.slot, Offset[x.job] >= 0
               PROVE  x = y
    BY DEF OneAlertPerMiss
  <2>1. ASSUME NEW u \in alerts, NEW p \in new,
               u.job = p[1], u.slot = p[2], Offset[u.job] >= 0
        PROVE  FALSE
    <3>1. p = <<u.job, u.slot>>
      BY <1>5, <2>1
    <3>2. p \in Alerted
      BY <3>1 DEF Alerted
    <3> QED
      BY <1>13, <2>1, <3>2
  <2>2. CASE x \in alerts /\ y \in alerts
    BY <2>2 DEF Sound, OneAlertPerMiss
  <2>3. CASE x \in alerts /\ y \notin alerts
    BY <1>6, <2>1, <2>3
  <2>4. CASE x \notin alerts /\ y \in alerts
    BY <1>6, <2>1, <2>4
  <2>5. CASE x \notin alerts /\ y \notin alerts
    BY <1>6, <2>5
  <2> QED
    BY <2>2, <2>3, <2>4, <2>5
<1>15. NothingOldIsAlerted'
  <2> SUFFICES ASSUME NEW x \in alerts', Offset[x.job] >= 0
               PROVE  <<x.job, x.slot>> \notin old
    BY <1>1 DEF NothingOldIsAlerted
  <2>1. CASE x \in alerts
    BY <2>1 DEF Sound, NothingOldIsAlerted
  <2>2. ASSUME NEW p \in new, x = [job |-> p[1], slot |-> p[2], at |-> now]
        PROVE  <<x.job, x.slot>> \notin old
    <3>1. p = <<x.job, x.slot>> /\ Offset[p[1]] >= 0
      BY <1>5, <2>2
    <3> QED
      BY <1>13, <3>1
  <2> QED
    BY <1>6, <2>1, <2>2
<1> QED
  BY <1>7, <1>8, <1>12, <1>14, <1>15 DEF Sound

\* A step that leaves alone what the watchdog knows, and the clock, keeps it.
LEMMA SoundElsewhere ==
  ASSUME Sound, UNCHANGED <<now, checked, alertedMisses, alerts, old>>,
         ran' \in [Job -> Int], enabled' \subseteq Job
  PROVE  Sound'
<1>1. Typed'
  BY DEF Sound, Typed
<1>2. SteadyNeverAlerted' /\ OneAlertPerMiss' /\ NothingOldIsAlerted'
  BY DEF Sound, SteadyNeverAlerted, OneAlertPerMiss, NothingOldIsAlerted, Steady, Adjacent
<1>3. Remembered'
  BY DEF Sound, Remembered, Alerted
<1> QED
  BY <1>1, <1>2, <1>3 DEF Sound

\* Every step keeps it.
LEMMA NextSound == Sound /\ [Next]_vars => Sound'
<1> SUFFICES ASSUME Sound, [Next]_vars PROVE Sound'
  OBVIOUS
<1>1. CASE Start
  <2>1. /\ alerts' = {} /\ alertedMisses' = MissesBeyond({}) /\ old' = MissesBeyond({})
        /\ checked' = FALSE /\ UNCHANGED <<now, enabled, ran>>
    BY <1>1 DEF Start, Suppressed
  <2>2. MissesBeyond({}) \subseteq Job \X Int
    <3> SUFFICES ASSUME NEW p \in MissesBeyond({}) PROVE p \in Job \X Int
      OBVIOUS
    <3>1. PICK j \in Job : p = <<j, PreviousSlot(j)>>
      BY MissesAreOverdue
    <3> QED
      BY <3>1, LastSlot DEF Sound, Typed
  <2>3. Typed'
    BY <2>1, <2>2 DEF Sound, Typed
  <2>4. SteadyNeverAlerted' /\ OneAlertPerMiss' /\ NothingOldIsAlerted'
    BY <2>1 DEF SteadyNeverAlerted, OneAlertPerMiss, NothingOldIsAlerted
  <2>5. Remembered'
    BY <2>1 DEF Remembered, Alerted
  <2> QED
    BY <2>3, <2>4, <2>5 DEF Sound
<1>2. CASE Stop
  BY <1>2, SoundElsewhere DEF Stop, Sound, Typed
<1>3. CASE CheckAndAlert
  BY <1>3, CheckKeepsSound
<1>4. CASE Tick
  <2>1. /\ now' = now + 1 /\ Day \in Nat /\ now \in 0..MaxTime /\ now' \in 0..MaxTime
        /\ now \in Int /\ checked' = FALSE
        /\ UNCHANGED <<ran, enabled, alertedMisses, alerts, old>>
    BY <1>4, UnitsAreOrdered, BoundsMakeSense DEF Tick, Sound, Typed
  <2>2. Typed'
    BY <2>1 DEF Sound, Typed
  <2>3. SteadyNeverAlerted' /\ OneAlertPerMiss' /\ NothingOldIsAlerted'
    BY <2>1 DEF Sound, SteadyNeverAlerted, OneAlertPerMiss, NothingOldIsAlerted, Steady, Adjacent
  <2>4. Remembered'
    <3>1. Alerted' = Alerted
      BY <2>1 DEF Alerted
    <3> SUFFICES ASSUME NEW p \in Alerted \cup old, Offset[p[1]] >= 0
                 PROVE  p \in alertedMisses \/ p[2] < now + 1 - Day
      BY <2>1, <3>1 DEF Remembered
    <3>2. p[2] \in Int
      BY DEF Alerted, Sound, Typed
    <3> QED
      BY <2>1, <3>2 DEF Sound, Remembered
  <2> QED
    BY <2>2, <2>3, <2>4 DEF Sound
<1>5. ASSUME NEW j \in Job, Run(j) PROVE Sound'
  BY <1>5, SoundElsewhere DEF Run, Sound, Typed
<1>6. ASSUME NEW j \in Job, Toggle(j) PROVE Sound'
  BY <1>6, SoundElsewhere DEF Toggle, Sound, Typed
<1>7. CASE UNCHANGED vars
  BY <1>7, SoundElsewhere DEF vars, Sound, Typed
<1> QED
  BY <1>1, <1>2, <1>3, <1>4, <1>5, <1>6, <1>7 DEF Next

\* The inductive invariant holds in every reachable state.
LEMMA SoundAlways == Spec => []Sound
BY InitSound, NextSound, PTL DEF Spec

\* _get_grace_period gives a frequent job twice a gap of its schedule, and check_job
\* looks at its last expected run alone: where the gaps are short and even, no miss
\* is ever alerted.
THEOREM SteadyJobsAreNeverAlerted == Spec => []SteadyNeverAlerted
<1>1. Sound => SteadyNeverAlerted
  BY DEF Sound
<1> QED
  BY <1>1, SoundAlways, PTL

\* _alerted_misses keeps a miss as long as check_job can detect it, for jobs
\* whose clock is not behind the local one.
THEOREM MissesAreAlertedOnce == Spec => []OneAlertPerMiss
<1>1. Sound => OneAlertPerMiss
  BY DEF Sound
<1> QED
  BY <1>1, SoundAlways, PTL

\* _suppress_startup_alerts and the hourly clean-up: what was missed before the daemon
\* started is alerted neither at once nor when a day has gone by.
THEOREM RestartsAlertNothingOld == Spec => []NothingOldIsAlerted
<1>1. Sound => NothingOldIsAlerted
  BY DEF Sound
<1> QED
  BY <1>1, SoundAlways, PTL

-----------------------------------------------------------------------------
(* The monitors                                                              *)

\* What the health checker remembers of the registered run, unless the books hold
\* results of another one: the counter of failures and the audit log tell the same
\* as the last result, and nothing is remembered of a job that is not registered.
BooksTrue ==
  ~stranger =>
    IF registered = 0
    THEN last = "none" /\ ~failing
    ELSE (noted = "failed" <=> last = "unhealthy") /\ (failing <=> last = "unhealthy")

\* Only a run in _processes is registered, and an endpoint is asked for a run.
Registered ==
  /\ newest \in Nat
  /\ managed = "no" \/ ~daemonUp => registered = 0
  /\ loop = "asking" => asked # 0

Books == BooksTrue /\ Registered

\* Nothing is registered at first.
LEMMA BooksInit == MonitorsInit => Books
  BY DEF MonitorsInit, Books, BooksTrue, Registered

\* Steps that leave the health checker and the handle alone.
LEMMA BooksElsewhere ==
  ASSUME Books, UNCHANGED <<healthVars, daemonUp, newest, managed>>
  PROVE  Books'
  BY DEF Books, BooksTrue, Registered, healthVars

\* A run is registered with the books of its predecessor only if that one was never
\* finalized.
LEMMA BooksStart ==
  ASSUME Books, StartRun
  PROVE  Books'
<1>1. newest' \in Nat /\ registered' # 0
  BY DEF Books, Registered, StartRun
<1>2. ~stranger' => last' = "none" /\ noted' = "none" /\ failing' = FALSE
  BY DEF Books, BooksTrue, Registered, StartRun
<1>3. BooksTrue'
  BY <1>1, <1>2 DEF BooksTrue
<1>4. Registered'
  BY <1>1 DEF Books, Registered, StartRun
<1> QED
  BY <1>3, <1>4 DEF Books

\* Finalizing a run, in the poll or in stop_job, closes its books.
LEMMA BooksUnregister ==
  ASSUME Books, Unregister, UNCHANGED newest
  PROVE  Books'
  BY DEF Books, BooksTrue, Registered, Unregister, Forgotten

\* A result is recorded, for the registered run or for a stranger.
LEMMA BooksRecord ==
  ASSUME Books, NEW run, run # 0, NEW healthy \in BOOLEAN, Record(run, healthy)
  PROVE  Books'
<1>1. daemonUp' = daemonUp /\ newest' = newest /\ managed' = managed /\ registered' = registered
  BY DEF Record, runVars
<1>2. loop' # "asking"
  BY DEF Record, HealthFail
<1>3. Registered'
  BY <1>1, <1>2 DEF Books, Registered
<1>4. SUFFICES ASSUME ~stranger'
               PROVE  /\ registered # 0
                      /\ noted' = "failed" <=> last' = "unhealthy"
                      /\ failing' <=> last' = "unhealthy"
  BY <1>1, <1>3 DEF Books, BooksTrue
<1>5. ~stranger /\ registered # 0
  BY <1>4 DEF Record
<1>6. (noted = "failed" <=> last = "unhealthy") /\ (failing <=> last = "unhealthy")
  BY <1>5 DEF Books, BooksTrue
<1>7. CASE healthy
  <2>1. last' = "healthy" /\ ~failing'
    BY <1>7 DEF Record, Recovers
  <2>2. noted' # "failed"
    BY <1>6, <1>7 DEF Record, Recovers
  <2> QED
    BY <1>5, <2>1, <2>2
<1>8. CASE ~healthy
  <2>1. last' = "unhealthy" /\ failing'
    BY <1>8 DEF Record
  <2>2. noted' = "failed"
    BY <1>6, <1>8 DEF Record, HealthFail
  <2> QED
    BY <1>5, <2>1, <2>2
<1> QED
  BY <1>7, <1>8

\* The loop of the health checker looks at a process or a file, or sends a request.
LEMMA BooksCheck ==
  ASSUME Books, Check
  PROVE  Books'
<1>1. CASE config.kind = "http"
  BY <1>1 DEF Check, Books, BooksTrue, Registered, runVars
<1>2. CASE config.kind # "http"
  <2>1. PICK healthy \in Results : Record(registered, healthy)
    BY <1>2 DEF Check
  <2>2. healthy \in BOOLEAN
    BY <2>1 DEF Results
  <2>3. registered # 0
    BY DEF Check
  <2> QED
    BY <2>1, <2>2, <2>3, BooksRecord
<1> QED
  BY <1>1, <1>2

\* The answer to a request is recorded, for the run it was sent about.
LEMMA BooksAnswer ==
  ASSUME Books, Answer
  PROVE  Books'
<1>1. PICK healthy \in BOOLEAN : Record(asked, healthy)
  BY DEF Answer
<1>2. asked # 0
  BY DEF Answer, Books, Registered
<1> QED
  BY <1>1, <1>2, BooksRecord

\* Whatever ends the daemon takes the books with it.
LEMMA BooksLost ==
  ASSUME Books, MemoryLost
  PROVE  Books'
  BY DEF Books, BooksTrue, Registered, MemoryLost

\* Every step keeps it.
LEMMA BooksStep == Books /\ [MonitorsNext]_monitorVars => Books'
<1> SUFFICES ASSUME Books, [MonitorsNext]_monitorVars
             PROVE  Books'
  OBVIOUS
<1>1. CASE StartRun
  BY <1>1, BooksStart
<1>2. CASE Finalize
  BY <1>2, BooksUnregister DEF Finalize
<1>3. CASE StopRun
  BY <1>3, BooksUnregister DEF StopRun
<1>4. CASE Check
  BY <1>4, BooksCheck
<1>5. CASE Answer
  BY <1>5, BooksAnswer
<1>6. CASE Crash \/ Shutdown
  BY <1>6, BooksLost DEF Crash, Shutdown
<1>7. CASE Restart
  BY <1>7 DEF Books, BooksTrue, Registered, Restart, healthVars
<1>8. CASE Exit \/ Reap \/ Consume \/ PrintError \/ Rotate
  BY <1>8, BooksElsewhere DEF Exit, Reap, Consume, PrintError, Rotate, runVars
<1>9. CASE ResourceCheck \/ Deliver \/ Posted
  BY <1>9, BooksElsewhere DEF ResourceCheck, Deliver, Posted, runVars
<1>10. CASE UNCHANGED monitorVars
  BY <1>10, BooksElsewhere DEF monitorVars, runVars
<1> QED
  BY <1>1, <1>2, <1>3, <1>4, <1>5, <1>6, <1>7, <1>8, <1>9, <1>10 DEF MonitorsNext

\* The newest entry of the audit log on a run agrees with the last check of it, over
\* any number of restarts of the job and of the daemon; unless the books hold a late
\* answer for an earlier run, or those of a run that was never finalized (stranger).
THEOREM NotesAreTrue == MonitorsSpec => []NotesFollowChecks
<1>1. Books => NotesFollowChecks
  BY DEF Books, BooksTrue, NotesFollowChecks
<1> QED
  BY BooksInit, BooksStep, <1>1, PTL DEF MonitorsSpec

-----------------------------------------------------------------------------
(* Kills and failures                                                        *)

IsSeq(q) == \E S : q \in Seq(S)

Has(q, alert) == \E i \in 1..Len(q) : q[i] = alert

\* No failure of the run waits in front of every word of its kill.
Explained(q, r) ==
  \A i \in 1..Len(q) : q[i] = <<"failure", r>> =>
    \E k \in 1..Len(q) : k < i /\ q[k] = <<"killed", r>>

RunsTyped ==
  /\ config.limits \subseteq {"memory", "timeout"}
  /\ newest \in 0..MaxRuns
  /\ process = "alive" => newest # 0
  /\ IsFiniteSet(log)
  /\ IsSeq(queue)
  /\ killed \subseteq 1..newest
  /\ process = "alive" => newest \notin killed

\* Only a run that is over is told to have failed.
Told(r) == Has(queue, <<"failure", r>>) \/ <<"failure", r>> \in delivered
FailuresAreOver ==
  \A r \in Runs : Told(r) => r <= newest /\ (process = "alive" => r # newest)

\* As long as the word of a kill is not delivered, no failure of the run is, nor is
\* it in front; and while the failure is still to come, the word waits.
Waits(r) ==
  /\ <<"failure", r>> \notin delivered
  /\ Explained(queue, r)
  /\ r = newest /\ failed => Has(queue, <<"killed", r>>)
KillsAreTold == \A r \in killed : <<"killed", r>> \in delivered \/ Waits(r)

Kills == RunsTyped /\ FailuresAreOver /\ KillsAreTold

\* The alerts in a queue that another follows, place by place.
LEMMA ConcatFacts ==
  ASSUME NEW q, NEW t, IsSeq(q), IsSeq(t)
  PROVE  /\ IsSeq(q \o t)
         /\ Len(q) \in Nat /\ Len(t) \in Nat /\ Len(q \o t) = Len(q) + Len(t)
         /\ \A i \in 1..Len(q) : (q \o t)[i] = q[i]
         /\ \A i \in 1..Len(t) : (q \o t)[Len(q) + i] = t[i]
         /\ \A i \in 1..Len(q \o t) : (q \o t)[i] = IF i <= Len(q) THEN q[i] ELSE t[i - Len(q)]
<1>1. PICK A : q \in Seq(A)
  BY DEF IsSeq
<1>2. PICK B : t \in Seq(B)
  BY DEF IsSeq
<1>3. q \in Seq(A \cup B) /\ t \in Seq(A \cup B)
  BY <1>1, <1>2, SeqMonotonic
<1>4. Len(q) \in Nat /\ Len(t) \in Nat
  BY <1>1, <1>2, LenProperties
<1>5. /\ q \o t \in Seq(A \cup B)
      /\ Len(q \o t) = Len(q) + Len(t)
      /\ \A i \in 1..Len(q) + Len(t) : (q \o t)[i] = IF i <= Len(q) THEN q[i] ELSE t[i - Len(q)]
  BY <1>3, ConcatProperties
<1>6. IsSeq(q \o t)
  BY <1>5 DEF IsSeq
<1>7. \A i \in 1..Len(q) : (q \o t)[i] = q[i]
  BY <1>4, <1>5
<1>8. \A i \in 1..Len(t) : (q \o t)[Len(q) + i] = t[i]
  BY <1>4, <1>5
<1> QED
  BY <1>4, <1>5, <1>6, <1>7, <1>8

\* What is queued behind a sequence of alerts: everything stays where it is.
LEMMA HasConcat ==
  ASSUME NEW q, NEW t, IsSeq(q), IsSeq(t), NEW a
  PROVE  Has(q \o t, a) <=> Has(q, a) \/ Has(t, a)
<1>1. ASSUME NEW i \in 1..Len(q \o t), (q \o t)[i] = a PROVE Has(q, a) \/ Has(t, a)
  <2>1. CASE i <= Len(q)
    BY <1>1, <2>1, ConcatFacts DEF Has
  <2>2. CASE ~(i <= Len(q))
    <3>1. i - Len(q) \in 1..Len(t) /\ t[i - Len(q)] = a
      BY <1>1, <2>2, ConcatFacts
    <3> QED
      BY <3>1 DEF Has
  <2> QED
    BY <2>1, <2>2
<1>2. ASSUME NEW i \in 1..Len(q), q[i] = a PROVE Has(q \o t, a)
  <2>1. i \in 1..Len(q \o t) /\ (q \o t)[i] = a
    BY <1>2, ConcatFacts
  <2> QED
    BY <2>1 DEF Has
<1>3. ASSUME NEW i \in 1..Len(t), t[i] = a PROVE Has(q \o t, a)
  <2>1. Len(q) + i \in 1..Len(q \o t) /\ (q \o t)[Len(q) + i] = a
    BY <1>3, ConcatFacts
  <2> QED
    BY <2>1 DEF Has
<1> QED
  BY <1>1, <1>2, <1>3 DEF Has

\* A failure stays explained when alerts are queued behind it.
LEMMA ExplainedConcat ==
  ASSUME NEW q, NEW t, IsSeq(q), IsSeq(t), NEW r, Explained(q, r),
         Has(t, <<"failure", r>>) => Has(q, <<"killed", r>>)
  PROVE  Explained(q \o t, r)
<1> SUFFICES ASSUME NEW i \in 1..Len(q \o t), (q \o t)[i] = <<"failure", r>>
             PROVE  \E k \in 1..Len(q \o t) : k < i /\ (q \o t)[k] = <<"killed", r>>
  BY DEF Explained
<1>1. CASE i <= Len(q)
  <2>1. i \in 1..Len(q) /\ q[i] = <<"failure", r>>
    BY <1>1, ConcatFacts
  <2>2. PICK k \in 1..Len(q) : k < i /\ q[k] = <<"killed", r>>
    BY <2>1 DEF Explained
  <2> QED
    BY <2>2, ConcatFacts
<1>2. CASE ~(i <= Len(q))
  <2>1. i - Len(q) \in 1..Len(t) /\ t[i - Len(q)] = <<"failure", r>>
    BY <1>2, ConcatFacts
  <2>2. PICK k \in 1..Len(q) : q[k] = <<"killed", r>>
    BY <2>1 DEF Has
  <2> QED
    BY <1>2, <2>2, ConcatFacts
<1> QED
  BY <1>1, <1>2

\* A queue of one alert.
LEMMA OneAlert ==
  ASSUME NEW q, IsSeq(q), NEW a
  PROVE  Append(q, a) = q \o <<a>> /\ IsSeq(<<a>>) /\ Len(<<a>>) = 1 /\ <<a>>[1] = a
<1>1. PICK A : q \in Seq(A)
  BY DEF IsSeq
<1>2. q \in Seq(A \cup {a}) /\ <<a>> \in Seq(A \cup {a})
  BY <1>1, SeqMonotonic
<1> QED
  BY <1>2 DEF IsSeq

\* What the check of the log queues does not speak of failures.
LEMMA OutputFacts ==
  ASSUME IsFiniteSet(log)
  PROVE  IsSeq(OutputAlerts) /\ \A r : ~Has(OutputAlerts, <<"failure", r>>)
<1> DEFINE found(i) == CHOOSE r \in log : Cardinality({q \in log : q <= r}) = i
<1>1. Cardinality(log) \in Nat
  BY FS_CardinalityType
<1>2. OutputAlerts = [i \in 1..Cardinality(log) |-> <<"output", found(i)>>]
  BY DEF OutputAlerts
<1> HIDE DEF found
<1>3. OutputAlerts \in [1..Cardinality(log) -> {<<"output", found(i)>> : i \in 1..Cardinality(log)}]
  BY <1>2
<1>4. OutputAlerts \in Seq({<<"output", found(i)>> : i \in 1..Cardinality(log)})
  BY <1>1, <1>3, SeqDef
<1>5. ASSUME NEW i \in 1..Len(OutputAlerts), NEW r, OutputAlerts[i] = <<"failure", r>>
      PROVE  FALSE
  <2>1. OutputAlerts[i] \in {<<"output", found(k)>> : k \in 1..Cardinality(log)}
    BY <1>4, ElementOfSeq
  <2> QED
    BY <1>5, <2>1
<1> QED
  BY <1>4, <1>5 DEF IsSeq, Has

\* What the resource monitor queues when it kills, for the limits that were exceeded.
LEMMA KillAlertsFacts ==
  ASSUME NEW exceeded, exceeded \subseteq {"memory", "timeout"}
  PROVE  /\ IsSeq(KillAlerts(exceeded))
         /\ \A r : ~Has(KillAlerts(exceeded), <<"failure", r>>)
         /\ exceeded # {} => Has(KillAlerts(exceeded), <<"killed", newest>>)
<1> DEFINE n == Cardinality(exceeded)
<1>1. IsFiniteSet({"memory", "timeout"})
  <2>1. IsFiniteSet({"memory"} \cup {"timeout"})
    BY FS_Singleton, FS_AddElement
  <2>2. {"memory", "timeout"} = {"memory"} \cup {"timeout"}
    OBVIOUS
  <2> QED
    BY <2>1, <2>2
<1>2. IsFiniteSet(exceeded)
  BY <1>1, FS_Subset
<1>3. n \in Nat /\ (exceeded # {} => n # 0)
  BY <1>2, FS_CardinalityType, FS_EmptySet
<1>4. KillAlerts(exceeded) = [i \in 1..n |-> <<"killed", newest>>]
  BY DEF KillAlerts, Alert
<1> HIDE DEF n
<1>5. KillAlerts(exceeded) \in Seq({<<"killed", newest>>}) /\ Len(KillAlerts(exceeded)) = n
  <2>1. KillAlerts(exceeded) \in [1..n -> {<<"killed", newest>>}]
    BY <1>4
  <2>2. KillAlerts(exceeded) \in Seq({<<"killed", newest>>})
    BY <1>3, <2>1, SeqDef
  <2>3. DOMAIN KillAlerts(exceeded) = 1..n
    BY <1>4
  <2> QED
    BY <1>3, <2>2, <2>3, LenProperties
<1>6. ASSUME exceeded # {} PROVE Has(KillAlerts(exceeded), <<"killed", newest>>)
  <2>1. 1 \in 1..n
    BY <1>3, <1>6
  <2> QED
    BY <1>4, <1>5, <2>1 DEF Has
<1>7. ASSUME NEW i \in 1..Len(KillAlerts(exceeded)) PROVE KillAlerts(exceeded)[i] = <<"killed", newest>>
  BY <1>4, <1>5, <1>7
<1> QED
  BY <1>5, <1>6, <1>7 DEF IsSeq, Has

\* Steps that neither queue nor deliver alerts, and do not make a run fail.
LEMMA KillsElsewhere ==
  ASSUME Kills, UNCHANGED <<config, newest, killed, queue, delivered>>,
         process' = "alive" => process = "alive", failed' => failed, IsFiniteSet(log')
  PROVE  Kills'
<1>1. RunsTyped'
  BY DEF Kills, RunsTyped
<1>2. FailuresAreOver'
  BY DEF Kills, FailuresAreOver, Told
<1>3. KillsAreTold'
  BY DEF Kills, KillsAreTold, Waits
<1> QED
  BY <1>1, <1>2, <1>3 DEF Kills

\* Alerts other than on failures may always be queued.
LEMMA KillsGrow ==
  ASSUME Kills, NEW t, IsSeq(t), \A r : ~Has(t, <<"failure", r>>),
         queue' = queue \o t, UNCHANGED <<config, newest, killed, delivered>>,
         process' = "alive" => process = "alive", failed' => failed, IsFiniteSet(log')
  PROVE  Kills'
<1>1. IsSeq(queue) /\ IsSeq(queue')
  BY ConcatFacts DEF Kills, RunsTyped
<1>2. \A a : Has(queue', a) <=> Has(queue, a) \/ Has(t, a)
  BY <1>1, HasConcat
<1>3. RunsTyped'
  BY <1>1 DEF Kills, RunsTyped
<1>4. FailuresAreOver'
  BY <1>2 DEF Kills, FailuresAreOver, Told
<1>5. KillsAreTold'
  <2> SUFFICES ASSUME NEW r \in killed, <<"killed", r>> \notin delivered PROVE Waits(r)'
    BY DEF KillsAreTold
  <2>1. Waits(r)
    BY DEF Kills, KillsAreTold
  <2>2. Explained(queue', r)
    BY <1>1, <2>1, ExplainedConcat DEF Waits
  <2> QED
    BY <1>2, <2>1, <2>2 DEF Waits
<1> QED
  BY <1>3, <1>4, <1>5 DEF Kills

\* A run starts: its number is new, and no alert speaks of it.
LEMMA KillsStart == ASSUME Kills, StartRun PROVE Kills'
<1> MaxRuns \in Nat
  BY MonitorsAssumption
<1>1. /\ newest \in Nat /\ newest < MaxRuns /\ newest' = newest + 1
      /\ process' = "alive" /\ failed' = FALSE
      /\ UNCHANGED <<config, killed, queue, delivered, log>>
  BY DEF StartRun, alertVars, Kills, RunsTyped
<1>2. RunsTyped'
  BY <1>1 DEF Kills, RunsTyped
<1>3. FailuresAreOver'
  BY <1>1 DEF Kills, FailuresAreOver, Told, Runs
<1>4. KillsAreTold'
  BY <1>1 DEF Kills, KillsAreTold, Waits
<1> QED
  BY <1>2, <1>3, <1>4 DEF Kills

\* A process ends by itself.
LEMMA KillsExit == ASSUME Kills, Exit PROVE Kills'
<1>1. /\ process = "alive" /\ process' # "alive"
      /\ UNCHANGED <<config, newest, killed, queue, delivered, log>>
  BY DEF Exit, Ended, alertVars, logVars
<1>2. RunsTyped'
  BY <1>1 DEF Kills, RunsTyped
<1>3. FailuresAreOver'
  BY <1>1 DEF Kills, FailuresAreOver, Told
<1>4. KillsAreTold'
  BY <1>1 DEF Kills, RunsTyped, KillsAreTold, Waits
<1> QED
  BY <1>2, <1>3, <1>4 DEF Kills

\* The failure of a killed run is queued behind the word of its kill.
LEMMA KillsFinalize == ASSUME Kills, Finalize PROVE Kills'
<1>1. /\ UNCHANGED <<config, newest, killed, delivered, log>>
      /\ process # "alive" /\ process' # "alive" /\ failed' = FALSE
      /\ queue' = (IF failed THEN FailureQueued ELSE queue) \o OutputAlerts
  BY DEF Finalize, logVars
<1>2. /\ IsSeq(queue) /\ IsFiniteSet(log')
      /\ IsSeq(OutputAlerts) /\ \A r : ~Has(OutputAlerts, <<"failure", r>>)
  BY <1>1, OutputFacts DEF Kills, RunsTyped
<1>3. CASE ~failed
  BY <1>1, <1>2, <1>3, KillsGrow
<1>4. CASE failed
  <2> DEFINE F == <<"failure", newest>>
             u == queue \o <<F>>
  <2>1. IsSeq(<<F>>) /\ Len(<<F>>) = 1 /\ <<F>>[1] = F /\ queue' = u \o OutputAlerts
    BY <1>1, <1>2, <1>4, OneAlert DEF FailureQueued, Alert
  <2>2. \A a : Has(<<F>>, a) <=> a = F
    BY <2>1 DEF Has
  <2>3. IsSeq(u) /\ \A a : Has(u, a) <=> Has(queue, a) \/ a = F
    BY <1>2, <2>1, <2>2, ConcatFacts, HasConcat
  <2> HIDE DEF u
  <2>4. IsSeq(queue') /\ \A a : Has(queue', a) <=> Has(u, a) \/ Has(OutputAlerts, a)
    BY <1>2, <2>1, <2>3, ConcatFacts, HasConcat
  <2>5. RunsTyped'
    BY <1>1, <2>4 DEF Kills, RunsTyped
  <2>6. FailuresAreOver'
    <3> SUFFICES ASSUME NEW r \in Runs, Told(r)' PROVE r <= newest
      BY <1>1 DEF FailuresAreOver
    <3>1. CASE Told(r)
      BY <3>1 DEF Kills, FailuresAreOver
    <3>2. CASE ~Told(r)
      <4>1. <<"failure", r>> = F
        BY <1>1, <1>2, <2>3, <2>4, <3>2 DEF Told
      <4>2. r = newest
        BY <4>1
      <4> QED
        BY <4>2 DEF Runs, Kills, RunsTyped
    <3> QED
      BY <3>1, <3>2
  <2>7. KillsAreTold'
    <3> SUFFICES ASSUME NEW r \in killed, <<"killed", r>> \notin delivered PROVE Waits(r)'
      BY <1>1 DEF KillsAreTold
    <3>1. Waits(r)
      BY DEF Kills, KillsAreTold
    <3>2. Has(<<F>>, <<"failure", r>>) => Has(queue, <<"killed", r>>)
      BY <1>4, <2>2, <3>1 DEF Waits
    <3>3. Explained(u, r)
      BY <1>2, <2>1, <3>1, <3>2, ExplainedConcat DEF Waits, u
    <3>4. Explained(queue', r)
      BY <1>2, <2>1, <2>3, <3>3, ExplainedConcat
    <3> QED
      BY <1>1, <3>1, <3>4 DEF Waits
  <2> QED
    BY <2>5, <2>6, <2>7 DEF Kills
<1> QED
  BY <1>3, <1>4

\* A run is stopped on request.
LEMMA KillsStop == ASSUME Kills, StopRun PROVE Kills'
<1>1. /\ UNCHANGED <<config, newest, killed, delivered, log, failed>>
      /\ process' # "alive"
      /\ queue' = queue \o OutputAlerts
  BY DEF StopRun, logVars
<1>2. /\ IsFiniteSet(log')
      /\ IsSeq(OutputAlerts) /\ \A r : ~Has(OutputAlerts, <<"failure", r>>)
  BY <1>1, OutputFacts DEF Kills, RunsTyped
<1> QED
  BY <1>1, <1>2, KillsGrow

\* The result of a health check queues its alert.
LEMMA KillsRecord ==
  ASSUME Kills, NEW run, NEW healthy, Record(run, healthy)
  PROVE  Kills'
<1>1. /\ UNCHANGED <<config, newest, process, failed, killed, delivered, log>>
      /\ queue' = queue \/ queue' = Append(queue, <<"recovered", newest>>)
  BY DEF Record, runVars, logVars, Alert
<1>2. IsFiniteSet(log') /\ IsSeq(queue)
  BY <1>1 DEF Kills, RunsTyped
<1>3. CASE queue' = queue
  BY <1>1, <1>2, <1>3, KillsElsewhere
<1>4. CASE queue' = Append(queue, <<"recovered", newest>>)
  <2> DEFINE t == <<(<<"recovered", newest>>)>>
  <2>1. queue' = queue \o t /\ IsSeq(t) /\ Len(t) = 1 /\ t[1] = <<"recovered", newest>>
    BY <1>2, <1>4, OneAlert
  <2> HIDE DEF t
  <2>2. \A r : ~Has(t, <<"failure", r>>)
    BY <2>1 DEF Has
  <2> QED
    BY <1>1, <1>2, <2>1, <2>2, KillsGrow
<1> QED
  BY <1>1, <1>3, <1>4

\* The health checker comes to the job.
LEMMA KillsCheck == ASSUME Kills, Check PROVE Kills'
<1>1. CASE config.kind = "http"
  <2>1. UNCHANGED <<config, newest, process, failed, killed, queue, delivered, log>>
    BY <1>1 DEF Check, runVars, logVars, alertVars
  <2> QED
    BY <2>1, KillsElsewhere DEF Kills, RunsTyped
<1>2. CASE config.kind # "http"
  BY <1>2, KillsRecord DEF Check
<1> QED
  BY <1>1, <1>2

\* A kill is queued in the step that kills.
LEMMA KillsEnforce == ASSUME Kills, ResourceCheck PROVE Kills'
<1>1. UNCHANGED <<config, newest, delivered, log>>
  BY DEF ResourceCheck, logVars
<1>2. IsFiniteSet(log') /\ IsSeq(queue)
  BY <1>1 DEF Kills, RunsTyped
<1>3. CASE UNCHANGED <<process, failed, killed, queue>>
  BY <1>1, <1>2, <1>3, KillsElsewhere
<1>4. CASE ~UNCHANGED <<process, failed, killed, queue>>
  <2>1. /\ Exceeded # {}
        /\ process' = IF process = "alive" THEN Ended ELSE process
        /\ failed' = (failed \/ process = "alive")
        /\ killed' = killed \cup {r \in {newest} : process = "alive"}
        /\ queue' = queue \o KillAlerts(Exceeded)
    BY <1>4 DEF ResourceCheck, Enforce
  <2>2. /\ IsSeq(KillAlerts(Exceeded))
        /\ \A r : ~Has(KillAlerts(Exceeded), <<"failure", r>>)
        /\ Has(KillAlerts(Exceeded), <<"killed", newest>>)
    BY <2>1, KillAlertsFacts DEF Exceeded, Kills, RunsTyped
  <2>3. CASE process # "alive"
    BY <1>1, <1>2, <2>1, <2>2, <2>3, KillsGrow
  <2>4. CASE process = "alive"
    <3>1. process' # "alive" /\ killed' = killed \cup {newest}
      BY <2>1, <2>4 DEF Ended
    <3>2. IsSeq(queue') /\ \A a : Has(queue', a) <=> Has(queue, a) \/ Has(KillAlerts(Exceeded), a)
      BY <1>2, <2>1, <2>2, ConcatFacts, HasConcat
    <3>3. RunsTyped'
      <4>1. newest \in 1..newest
        BY <2>4 DEF Kills, RunsTyped
      <4> QED
        BY <1>1, <1>2, <3>1, <3>2, <4>1 DEF Kills, RunsTyped
    <3>4. FailuresAreOver'
      BY <1>1, <2>2, <3>1, <3>2 DEF Kills, FailuresAreOver, Told
    <3>5. newest \in Runs /\ ~Told(newest)
      BY <2>4 DEF Kills, RunsTyped, FailuresAreOver, Runs
    <3>6. KillsAreTold'
      <4> SUFFICES ASSUME NEW r \in killed \cup {newest}, <<"killed", r>> \notin delivered
                   PROVE  Waits(r)'
        BY <1>1, <3>1 DEF KillsAreTold
      <4>1. <<"failure", r>> \notin delivered /\ Explained(queue, r)
        <5>1. CASE r \in killed
          BY <5>1 DEF Kills, KillsAreTold, Waits
        <5>2. CASE r = newest
          BY <3>5, <5>2 DEF Told, Has, Explained
        <5> QED
          BY <5>1, <5>2
      <4>2. Explained(queue', r)
        BY <1>2, <2>1, <2>2, <4>1, ExplainedConcat
      <4> QED
        BY <1>1, <2>2, <3>2, <4>1, <4>2 DEF Waits
    <3> QED
      BY <3>3, <3>4, <3>6 DEF Kills
  <2> QED
    BY <2>3, <2>4
<1> QED
  BY <1>3, <1>4

\* What is delivered is the first alert, and no failure is first while a kill waits.
LEMMA KillsDeliver == ASSUME Kills, Deliver PROVE Kills'
<1> MaxRuns \in Nat
  BY MonitorsAssumption
<1>1. /\ UNCHANGED <<config, newest, process, failed, killed, log>>
      /\ queue # <<>> /\ queue' = Tail(queue)
      /\ delivered' = Written(Head(queue))
  BY DEF Deliver, runVars, logVars
<1>2. PICK S : queue \in Seq(S)
  BY DEF Kills, RunsTyped, IsSeq
<1>3. /\ Len(queue) \in Nat /\ Len(queue) >= 1 /\ Head(queue) = queue[1]
      /\ Tail(queue) \in Seq(S) /\ Len(Tail(queue)) = Len(queue) - 1
      /\ \A i \in 1..Len(Tail(queue)) : Tail(queue)[i] = queue[i+1]
  BY <1>1, <1>2, HeadTailProperties, LenProperties, EmptySeq
<1>4. \A a : Has(queue, a) <=> Has(queue', a) \/ a = Head(queue)
  <2> SUFFICES ASSUME NEW a PROVE Has(queue, a) <=> Has(queue', a) \/ a = Head(queue)
    OBVIOUS
  <2>1. ASSUME NEW i \in 1..Len(queue), queue[i] = a PROVE Has(queue', a) \/ a = Head(queue)
    <3>1. CASE i = 1
      BY <1>3, <2>1, <3>1
    <3>2. CASE i # 1
      <4>1. i - 1 \in 1..Len(queue') /\ queue'[i - 1] = a
        BY <1>1, <1>3, <2>1, <3>2
      <4> QED
        BY <4>1 DEF Has
    <3> QED
      BY <3>1, <3>2
  <2>2. ASSUME NEW i \in 1..Len(queue'), queue'[i] = a PROVE Has(queue, a)
    <3>1. i + 1 \in 1..Len(queue) /\ queue[i + 1] = a
      BY <1>1, <1>3, <2>2
    <3> QED
      BY <3>1 DEF Has
  <2>3. ASSUME a = Head(queue) PROVE Has(queue, a)
    BY <1>3, <2>3 DEF Has
  <2> QED
    BY <2>1, <2>2, <2>3 DEF Has
<1>5. /\ delivered \subseteq delivered' /\ delivered' \subseteq delivered \cup {Head(queue)}
      /\ \A r \in Runs : Head(queue) = <<"killed", r>> => <<"killed", r>> \in delivered'
  BY <1>1 DEF Written
<1>6. RunsTyped'
  <2>1. IsSeq(queue')
    BY <1>1, <1>3 DEF IsSeq
  <2> QED
    BY <1>1, <2>1 DEF Kills, RunsTyped
<1>7. FailuresAreOver'
  <2>1. \A r \in Runs : Told(r)' => Told(r)
    BY <1>4, <1>5 DEF Told
  <2> QED
    BY <1>1, <2>1 DEF Kills, FailuresAreOver
<1>8. KillsAreTold'
  <2> SUFFICES ASSUME NEW r \in killed, <<"killed", r>> \notin delivered' PROVE Waits(r)'
    BY <1>1 DEF KillsAreTold
  <2>1. r \in Runs /\ Head(queue) # <<"killed", r>>
    BY <1>5 DEF Kills, RunsTyped, Runs
  <2>2. Waits(r)
    BY <1>5 DEF Kills, KillsAreTold
  <2>3. Head(queue) # <<"failure", r>>
    BY <1>3, <2>2 DEF Waits, Explained
  <2>4. Explained(queue', r)
    <3> SUFFICES ASSUME NEW i \in 1..Len(queue'), queue'[i] = <<"failure", r>>
                 PROVE  \E k \in 1..Len(queue') : k < i /\ queue'[k] = <<"killed", r>>
      BY DEF Explained
    <3>1. i + 1 \in 1..Len(queue) /\ queue[i + 1] = <<"failure", r>>
      BY <1>1, <1>3
    <3>2. PICK k \in 1..Len(queue) : k < i + 1 /\ queue[k] = <<"killed", r>>
      BY <2>2, <3>1 DEF Waits, Explained
    <3>3. k # 1
      BY <1>3, <2>1, <3>2
    <3>4. k - 1 \in 1..Len(queue') /\ k - 1 < i /\ queue'[k - 1] = <<"killed", r>>
      BY <1>1, <1>3, <3>2, <3>3
    <3> QED
      BY <3>4
  <2> QED
    BY <1>1, <1>4, <1>5, <2>1, <2>2, <2>3, <2>4 DEF Waits
<1> QED
  BY <1>6, <1>7, <1>8 DEF Kills

\* With the daemon its queue is gone, and what has not failed by then does not.
LEMMA KillsLost ==
  ASSUME Kills, MemoryLost, process' = "alive" => process = "alive"
  PROVE  Kills'
<1>1. /\ UNCHANGED <<config, newest, killed, delivered, log>>
      /\ failed' = FALSE /\ queue' = <<>>
  BY DEF MemoryLost, logVars
<1>2. IsSeq(queue') /\ \A a : ~Has(queue', a)
  BY <1>1, EmptySeq DEF IsSeq, Has
<1>3. RunsTyped'
  BY <1>1, <1>2 DEF Kills, RunsTyped
<1>4. FailuresAreOver'
  BY <1>1, <1>2 DEF Kills, FailuresAreOver, Told
<1>5. KillsAreTold'
  BY <1>1, <1>2 DEF Kills, KillsAreTold, Waits, Explained, Has
<1> QED
  BY <1>3, <1>4, <1>5 DEF Kills

\* A daemon that comes up adopts a process that lives.
LEMMA KillsRestart == ASSUME Kills, Restart PROVE Kills'
<1>1. /\ UNCHANGED <<config, newest, process, killed, queue, delivered, log>>
      /\ failed' = FALSE
  BY DEF Restart, logVars, alertVars
<1> QED
  BY <1>1, KillsElsewhere DEF Kills, RunsTyped

\* Steps of the process, of its log and of a post that ends.
LEMMA KillsLogged == ASSUME Kills, Reap \/ Consume \/ PrintError \/ Rotate \/ Posted PROVE Kills'
<1>1. /\ UNCHANGED <<config, newest, killed, queue, delivered, failed>>
      /\ process' = "alive" => process = "alive"
      /\ log' = log \/ log' = {} \/ log' = log \cup {newest}
  BY DEF Reap, Consume, PrintError, Rotate, Posted, runVars, logVars, alertVars
<1>2. IsFiniteSet(log')
  <2>1. IsFiniteSet(log)
    BY DEF Kills, RunsTyped
  <2>2. IsFiniteSet({}) /\ IsFiniteSet(log \cup {newest})
    BY <2>1, FS_EmptySet, FS_AddElement
  <2>3. log' \in {log, {}, log \cup {newest}}
    BY <1>1
  <2>4. \A S \in {log, {}, log \cup {newest}} : IsFiniteSet(S)
    BY <2>1, <2>2
  <2> QED
    BY <2>3, <2>4
<1> QED
  BY <1>1, <1>2, KillsElsewhere

\* Nothing is killed or queued at first.
LEMMA KillsInit ==
  ASSUME MonitorsInit
  PROVE  Kills
<1>1. IsSeq(queue) /\ \A a : ~Has(queue, a)
  BY EmptySeq DEF MonitorsInit, IsSeq, Has
<1>2. config.limits \subseteq {"memory", "timeout"}
  <2>1. config \in Config
    BY MonitorsAssumption DEF MonitorsInit
  <2> QED
    BY <2>1 DEF Config
<1>3. RunsTyped
  BY <1>1, <1>2, FS_EmptySet, MonitorsAssumption DEF MonitorsInit, RunsTyped
<1> QED
  BY <1>1, <1>3 DEF MonitorsInit, Kills, FailuresAreOver, Told, KillsAreTold

\* Every step keeps the invariant.
LEMMA KillsStep ==
  ASSUME Kills, [MonitorsNext]_monitorVars
  PROVE  Kills'
<1>1. CASE StartRun \/ Exit \/ Finalize \/ StopRun
  BY <1>1, KillsStart, KillsExit, KillsFinalize, KillsStop
<1>2. CASE Check
  BY <1>2, KillsCheck
<1>3. CASE Answer
  BY <1>3, KillsRecord DEF Answer
<1>4. CASE Reap \/ Consume \/ PrintError \/ Rotate \/ Posted
  BY <1>4, KillsLogged
<1>5. CASE ResourceCheck
  BY <1>5, KillsEnforce
<1>6. CASE Deliver
  BY <1>6, KillsDeliver
<1>7. CASE Crash \/ Shutdown
  <2>1. MemoryLost /\ (process' = "alive" => process = "alive")
    BY <1>7 DEF Crash, Shutdown
  <2> QED
    BY <2>1, KillsLost
<1>8. CASE Restart
  BY <1>8, KillsRestart
<1>9. CASE UNCHANGED monitorVars
  <2>1. UNCHANGED <<config, newest, process, failed, killed, queue, delivered, log>>
    BY <1>9 DEF monitorVars, runVars, logVars, alertVars
  <2> QED
    BY <2>1, KillsElsewhere DEF Kills, RunsTyped
<1> QED
  BY <1>1, <1>2, <1>3, <1>4, <1>5, <1>6, <1>7, <1>8, <1>9 DEF MonitorsNext

\* Who reads that a killed run failed has read that it was killed, over any number of
\* runs, alerts in the queue and restarts of the daemon.
THEOREM KillsExplainFailures == MonitorsSpec => []KillExplainsFailure
<1>1. MonitorsInit => Kills
  BY KillsInit
<1>2. Kills /\ [MonitorsNext]_monitorVars => Kills'
  BY KillsStep
<1>3. Kills => KillExplainsFailure
  BY DEF Kills, KillsAreTold, Waits, KillExplainsFailure
<1> QED
  BY <1>1, <1>2, <1>3, PTL DEF MonitorsSpec

-----------------------------------------------------------------------------
(* The queue of healing requests                                             *)

\* A queue with one element removed: the elements before it keep their places, those
\* after it move up by one.
LEMMA RemoveAtProperties ==
  ASSUME NEW S, NEW s \in Seq(S), NEW i \in 1..Len(s)
  PROVE  /\ RemoveAt(s, i) \in Seq(S)
         /\ Len(RemoveAt(s, i)) = Len(s) - 1
         /\ \A k \in 1..(Len(s) - 1) :
              RemoveAt(s, i)[k] = IF k < i THEN s[k] ELSE s[k + 1]
<1> DEFINE front == SubSeq(s, 1, i - 1)
           back == SubSeq(s, i + 1, Len(s))
<1>1. /\ front \in Seq(S) /\ Len(front) = i - 1
      /\ \A k \in 1..(i - 1) : front[k] = s[k]
  OBVIOUS
<1>2. /\ back \in Seq(S)
      /\ Len(back) = Len(s) - i
      /\ \A k \in 1..(Len(s) - i) : back[k] = s[i + k]
  OBVIOUS
<1>3. RemoveAt(s, i) = front \o back /\ Len(s) \in Nat
  BY DEF RemoveAt
<1> HIDE DEF front, back
<1>4. front \o back \in Seq(S) /\ Len(front \o back) = Len(s) - 1
  <2>1. front \o back \in Seq(S) /\ Len(front \o back) = Len(front) + Len(back)
    BY <1>1, <1>2, ConcatProperties
  <2>2. Len(front) + Len(back) = Len(s) - 1
    BY <1>1, <1>2, <1>3
  <2> QED
    BY <2>1, <2>2
<1>5. ASSUME NEW k \in 1..(Len(s) - 1)
      PROVE  (front \o back)[k] = IF k < i THEN s[k] ELSE s[k + 1]
  <2>1. (front \o back)[k] = IF k <= i - 1 THEN front[k] ELSE back[k - (i - 1)]
    BY <1>1, <1>2, <1>3
  <2>2. ~(k < i) => k - (i - 1) \in 1..(Len(s) - i) /\ i + (k - (i - 1)) = k + 1
    BY <1>3
  <2> QED
    BY <1>1, <1>2, <1>3, <2>1, <2>2
<1> QED
  BY <1>3, <1>4, <1>5

\* The inductive invariant: no two places of the queue belong to one job, and none
\* to the job of the current request.
Exclusive ==
  /\ pending \in Seq(RunId)
  /\ current \in RunId \cup {NoRun}
  /\ \A i, k \in 1..Len(pending) : JobOf[pending[i]] = JobOf[pending[k]] => i = k
  /\ current # NoRun => \A i \in 1..Len(pending) : JobOf[pending[i]] # JobOf[current]

\* enqueue appends a request only of a job that has none.
LEMMA QueueTriggerKeeps ==
  ASSUME Exclusive, NEW r \in RunId, TriggerHealing(r)
  PROVE  Exclusive'
<1>1. CASE Known(JobOf[r])
  BY <1>1 DEF TriggerHealing, Exclusive
<1>2. CASE ~Known(JobOf[r])
  <2>1. pending' = Append(pending, r) /\ current' = current
    BY <1>2 DEF TriggerHealing
  <2>2. \A i \in 1..Len(pending) : JobOf[pending[i]] # JobOf[r]
    BY <1>2 DEF Known, Queued
  <2>3. current # NoRun => JobOf[current] # JobOf[r]
    BY <1>2 DEF Known, Current
  <2> QED
    BY <2>1, <2>2, <2>3 DEF Exclusive
<1> QED
  BY <1>1, <1>2

\* The head of the queue becomes current: nobody behind it has its job.
LEMMA QueuePollKeeps ==
  ASSUME Exclusive, Poll
  PROVE  Exclusive'
<1>1. ASSUME pending # <<>>, pending' = Tail(pending), current' \in {Head(pending), NoRun}
      PROVE  Exclusive'
  <2>1. /\ Tail(pending) \in Seq(RunId) /\ Head(pending) \in RunId
        /\ Len(pending) \in Nat /\ Len(pending) > 0
        /\ Len(Tail(pending)) = Len(pending) - 1
        /\ Head(pending) = pending[1]
        /\ \A i \in 1..Len(Tail(pending)) : Tail(pending)[i] = pending[i + 1]
    BY <1>1 DEF Exclusive
  <2>2. \A i \in 1..Len(Tail(pending)) : i + 1 \in 1..Len(pending) /\ i + 1 # 1
    BY <2>1
  <2> QED
    BY <1>1, <2>1, <2>2 DEF Exclusive
<1>2. CASE Send
  BY <1>1, <1>2 DEF Send, Popped
<1>3. CASE SendFails
  BY <1>1, <1>3 DEF SendFails, Popped
<1>4. CASE TakeResponse
  BY <1>4 DEF TakeResponse, End, Exclusive
<1>5. CASE TimeOut
  BY <1>5 DEF TimeOut, End, Exclusive
<1> QED
  BY <1>2, <1>3, <1>4, <1>5 DEF Poll

\* Cancelling only takes requests away.
LEMMA QueueCancelKeeps ==
  ASSUME Exclusive, NEW j, Cancel(j)
  PROVE  Exclusive'
<1>1. current' \in {current, NoRun} /\ pending' = Uncancelled(j)
  BY DEF Cancel
<1>2. CASE ~Queued(j)
  BY <1>1, <1>2 DEF Uncancelled, Exclusive
<1>3. CASE Queued(j)
  <2> DEFINE at == CHOOSE i \in 1..Len(pending) : JobOf[pending[i]] = j
             place(k) == IF k < at THEN k ELSE k + 1
  <2>1. at \in 1..Len(pending) /\ pending' = RemoveAt(pending, at)
    BY <1>1, <1>3 DEF Queued, Uncancelled
  <2> HIDE DEF at
  <2>2. /\ pending' \in Seq(RunId)
        /\ Len(pending') = Len(pending) - 1
        /\ \A k \in 1..(Len(pending) - 1) : pending'[k] = pending[place(k)]
    BY <2>1, RemoveAtProperties DEF Exclusive
  <2>3. Len(pending) \in Nat
    BY DEF Exclusive
  <2>4. \A k \in 1..Len(pending') : place(k) \in 1..Len(pending)
    BY <2>1, <2>2, <2>3
  <2>5. \A i, k \in 1..Len(pending') : place(i) = place(k) => i = k
    BY <2>1, <2>2, <2>3
  <2>6. \A k \in 1..Len(pending') : pending'[k] = pending[place(k)]
    BY <2>2, <2>3
  <2> HIDE DEF place
  <2>7. \A i, k \in 1..Len(pending') : JobOf[pending'[i]] = JobOf[pending'[k]] => i = k
    BY <2>4, <2>5, <2>6 DEF Exclusive
  <2>8. current' # NoRun => \A i \in 1..Len(pending') : JobOf[pending'[i]] # JobOf[current']
    BY <1>1, <2>4, <2>6 DEF Exclusive
  <2> QED
    BY <1>1, <2>2, <2>7, <2>8 DEF Exclusive
<1> QED
  BY <1>2, <1>3

\* Every step keeps the invariant.
LEMMA QueueNextKeeps == Exclusive /\ [HealingNext]_healingVars => Exclusive'
<1> SUFFICES ASSUME Exclusive, [HealingNext]_healingVars PROVE Exclusive'
  OBVIOUS
<1>1. CASE Poll
  BY <1>1, QueuePollKeeps
<1>2. CASE Respond \/ TimePasses
  BY <1>2 DEF Respond, TimePasses, Exclusive
<1>3. CASE HealingRestart
  BY <1>3 DEF HealingRestart, Exclusive
<1>4. ASSUME NEW r \in RunId, TriggerHealing(r) PROVE Exclusive'
  BY <1>4, QueueTriggerKeeps
<1>5. ASSUME NEW r \in RunId, Age(r) PROVE Exclusive'
  BY <1>5 DEF Age, Exclusive
<1>6. ASSUME NEW r \in RunId, Cancel(JobOf[r]) PROVE Exclusive'
  BY <1>6, QueueCancelKeeps
<1>7. CASE UNCHANGED healingVars
  BY <1>7 DEF healingVars, Exclusive
<1> QED
  BY <1>1, <1>2, <1>3, <1>4, <1>5, <1>6, <1>7 DEF HealingNext

\* The healing queue holds at most one request of a job, counting the one that waits for
\* its answer; sessions of the agent whose requests have ended are not counted.
THEOREM OneHealingPerJob == HealingSpec => []OneRequestPerJob
<1>1. HealingInit => Exclusive
  BY DEF HealingInit, Exclusive
<1>2. Exclusive => OneRequestPerJob
  <2> SUFFICES ASSUME Exclusive, NEW r \in Live, NEW s \in Live, JobOf[r] = JobOf[s]
               PROVE  r = s
    BY DEF OneRequestPerJob
  <2>1. \A u \in Live : \/ u = current /\ current # NoRun
                        \/ \E i \in 1..Len(pending) : u = pending[i]
    BY DEF Live, Range, Exclusive
  <2> QED
    BY <2>1 DEF Exclusive
<1> QED
  BY <1>1, <1>2, QueueNextKeeps, PTL DEF HealingSpec
=============================================================================
