-------------------------- MODULE SupervisorProofs --------------------------
(***************************************************************************)
(* The queue manager and the job life cycle, for every set of jobs and     *)
(* queues, every assignment of jobs to queues, lines of any length and     *)
(* every mix of operator requests and faults.                              *)
(*                                                                         *)
(* First the methods of the queue manager, which keep a queue well formed. *)
(* Then the invariants: Consistent is inductive, its parts follow.  Then   *)
(* what a step may never do, and that the queues implement                 *)
(* SequentialQueue.                                                        *)
(***************************************************************************)
EXTENDS SupervisorProperties, Integers, SequenceTheorems, TLAPS

-----------------------------------------------------------------------------
(* The queue manager                                                         *)

\* A line with one element removed: the elements before it keep their places, those
\* after it move up by one.
LEMMA RemoveAtProperties ==
  ASSUME NEW S, NEW s \in Seq(S), NEW i \in 1..Len(s)
  PROVE  /\ RemoveAt(s, i) \in Seq(S)
         /\ Len(RemoveAt(s, i)) = Len(s) - 1
         /\ \A k \in 1..(Len(s) - 1) :
              RemoveAt(s, i)[k] = IF k < i THEN s[k] ELSE s[k + 1]
<1> DEFINE front == SubSeq(s, 1, i - 1)
           back == SubSeq(s, i + 1, Len(s))
<1>1. /\ front \in Seq(S) /\ Len(front) = i - 1
      /\ \A k \in 1..(i - 1) : front[k] = s[k]
  OBVIOUS
<1>2. /\ back \in Seq(S)
      /\ Len(back) = Len(s) - i
      /\ \A k \in 1..(Len(s) - i) : back[k] = s[i + k]
  OBVIOUS
<1>3. RemoveAt(s, i) = front \o back /\ Len(s) \in Nat
  BY DEF RemoveAt
<1> HIDE DEF front, back
<1>4. front \o back \in Seq(S) /\ Len(front \o back) = Len(s) - 1
  <2>1. front \o back \in Seq(S) /\ Len(front \o back) = Len(front) + Len(back)
    BY <1>1, <1>2, ConcatProperties
  <2>2. Len(front) + Len(back) = Len(s) - 1
    BY <1>1, <1>2, <1>3
  <2> QED
    BY <2>1, <2>2
<1>5. ASSUME NEW k \in 1..(Len(s) - 1)
      PROVE  (front \o back)[k] = IF k < i THEN s[k] ELSE s[k + 1]
  <2>1. (front \o back)[k] = IF k <= i - 1 THEN front[k] ELSE back[k - (i - 1)]
    BY <1>1, <1>2, <1>3
  <2>2. ~(k < i) => k - (i - 1) \in 1..(Len(s) - i) /\ i + (k - (i - 1)) = k + 1
    BY <1>3
  <2> QED
    BY <1>1, <1>2, <1>3, <2>1, <2>2
<1> QED
  BY <1>3, <1>4, <1>5

WellFormedQueue(q) == q \in QueueState /\ QueueWF(q)

\* try_acquire: whoever asks, in whatever state the queue is.
THEOREM TryAcquireKeepsWellFormed ==
  ASSUME NEW q, WellFormedQueue(q), NEW j \in Job
  PROVE  /\ WellFormedQueue(TryAcquire(q, j))
         /\ Acquires(q, j) => TryAcquire(q, j) = [q EXCEPT !.running = j]
         /\ ~Acquires(q, j) => TryAcquire(q, j).running = q.running
         /\ \A k \in Job : InLine(TryAcquire(q, j), k) => InLine(q, k) \/ k = j
PROOF
<1> USE NoJobAssumption DEF WellFormedQueue, QueueState
<1>1. CASE Acquires(q, j)
  <2>1. TryAcquire(q, j) = [q EXCEPT !.running = j]
    BY <1>1 DEF TryAcquire
  <2> QED
    BY <1>1, <2>1 DEF Acquires, QueueWF, InLine, Contains
<1>2. CASE ~Acquires(q, j) /\ (q.running = j \/ InLine(q, j))
  BY <1>2 DEF TryAcquire, JoinLine
<1>3. CASE ~Acquires(q, j) /\ ~(q.running = j \/ InLine(q, j))
  <2> DEFINE line == Append(q.pending, j)
  <2>1. TryAcquire(q, j) = [q EXCEPT !.pending = line]
    BY <1>3 DEF TryAcquire, JoinLine
  <2>2. q.running # NoJob
    BY <1>3 DEF Acquires
  <2>3. q.pending \in Seq(Job) /\ Len(q.pending) \in Nat
    BY LenProperties
  <2>4. /\ line \in Seq(Job)
        /\ Len(line) = Len(q.pending) + 1
        /\ \A i \in 1..Len(q.pending) : line[i] = q.pending[i]
        /\ line[Len(q.pending) + 1] = j
    BY <2>3, AppendProperties
  <2> HIDE DEF line
  <2>5. \A k : InLine(TryAcquire(q, j), k) <=> InLine(q, k) \/ k = j
    BY <2>1, <2>3, <2>4 DEF InLine, Contains
  <2>6. \A i, k \in 1..Len(line) : line[i] = line[k] => i = k
    BY <1>3, <2>3, <2>4 DEF QueueWF, InLine, Contains
  <2>7. /\ TryAcquire(q, j) \in QueueState
        /\ TryAcquire(q, j).running = q.running
        /\ TryAcquire(q, j).pending = line
    BY <2>1, <2>4
  <2>8. QueueWF(TryAcquire(q, j))
    <3>1. ~InLine(TryAcquire(q, j), q.running)
      BY <1>3, <2>5 DEF QueueWF
    <3> QED
      BY <2>2, <2>6, <2>7, <3>1 DEF QueueWF
  <2> QED
    BY <1>3, <2>5, <2>7, <2>8
<1> QED
  BY <1>1, <1>2, <1>3

\* remove_from_queue, and the filter in release.
THEOREM RemoveKeepsWellFormed ==
  ASSUME NEW q, WellFormedQueue(q), NEW j \in Job
  PROVE  /\ WellFormedQueue(RemoveFromQueue(q, j))
         /\ RemoveFromQueue(q, j).running = q.running
         /\ ~InLine(RemoveFromQueue(q, j), j)
         /\ \A k \in Job : InLine(RemoveFromQueue(q, j), k) => InLine(q, k)
PROOF
<1> USE DEF WellFormedQueue, QueueState
<1>1. CASE InLine(q, j)
  <2> DEFINE i == CHOOSE i \in 1..Len(q.pending) : q.pending[i] = j
             line == RemoveAt(q.pending, i)
  <2>1. i \in 1..Len(q.pending) /\ q.pending[i] = j
    BY <1>1 DEF InLine, Contains
  <2>2. q.pending \in Seq(Job) /\ Len(q.pending) \in Nat
    BY LenProperties
  <2>3. RemoveFromQueue(q, j) = [q EXCEPT !.pending = line]
    BY <1>1 DEF RemoveFromQueue
  <2> HIDE DEF i
  <2>4. /\ line \in Seq(Job)
        /\ Len(line) = Len(q.pending) - 1
        /\ \A k \in 1..(Len(q.pending) - 1) :
             line[k] = IF k < i THEN q.pending[k] ELSE q.pending[k + 1]
    BY <2>1, <2>2, RemoveAtProperties
  <2> HIDE DEF line
  <2>5. \A m, n \in 1..Len(line) : line[m] = line[n] => m = n
    BY <2>1, <2>2, <2>4 DEF QueueWF
  <2>6. \A m \in 1..Len(line) :
          \E n \in 1..Len(q.pending) : n # i /\ line[m] = q.pending[n]
    <3> SUFFICES ASSUME NEW m \in 1..Len(line)
                 PROVE  \E n \in 1..Len(q.pending) :
                          n # i /\ line[m] = q.pending[n]
      OBVIOUS
    <3>1. CASE m < i
      <4>1. m \in 1..Len(q.pending) /\ m # i
        BY <2>1, <2>2, <2>4, <3>1
      <4> QED
        BY <2>4, <3>1, <4>1
    <3>2. CASE ~(m < i)
      <4>1. m + 1 \in 1..Len(q.pending) /\ m + 1 # i
        BY <2>1, <2>2, <2>4, <3>2
      <4> QED
        BY <2>4, <3>2, <4>1
    <3> QED
      BY <3>1, <3>2
  <2>7. \A k : Contains(line, k) => Contains(q.pending, k) /\ k # j
    BY <2>1, <2>6 DEF QueueWF, Contains
  <2>8. line # <<>> => q.pending # <<>>
    BY <2>1, <2>2, EmptySeq
  <2> QED
    BY <2>3, <2>4, <2>5, <2>7, <2>8 DEF QueueWF, InLine
<1>2. CASE ~InLine(q, j)
  BY <1>2 DEF RemoveFromQueue
<1> QED
  BY <1>1, <1>2

\* release: the slot goes to the head of the line, which then no longer waits.
THEOREM ReleaseKeepsWellFormed ==
  ASSUME NEW q, WellFormedQueue(q), NEW j \in Job
  PROVE  /\ WellFormedQueue(Release(q, j))
         /\ q.running # j => Release(q, j).running = q.running
         /\ \A n \in ReadyOnRelease(q, j) :
              n \in Job /\ n # j /\ InLine(q, n) /\ Release(q, j).running = n
         /\ \A n, m \in ReadyOnRelease(q, j) : n = m
         /\ q.running = j /\ ReadyOnRelease(q, j) = {}
              => Release(q, j).running = NoJob
         /\ \A k \in Job : InLine(Release(q, j), k) => InLine(q, k)
PROOF
<1> USE NoJobAssumption DEF WellFormedQueue, QueueState
<1>1. CASE q.running # j
  <2>1. Release(q, j) = RemoveFromQueue(q, j) /\ ReadyOnRelease(q, j) = {}
    BY <1>1 DEF Release, ReadyOnRelease
  <2> QED
    BY <1>1, <2>1, RemoveKeepsWellFormed
<1>2. CASE q.running = j /\ q.pending = <<>>
  <2>1. Release(q, j) = [q EXCEPT !.running = NoJob] /\ ReadyOnRelease(q, j) = {}
    BY <1>2 DEF Release, ReadyOnRelease
  <2>2. Len(q.pending) = 0
    BY <1>2
  <2> QED
    BY <1>2, <2>1, <2>2 DEF QueueWF, InLine, Contains
<1>3. CASE q.running = j /\ q.pending # <<>>
  <2> DEFINE head == Head(q.pending)
             tail == Tail(q.pending)
  <2>1. Release(q, j) = [running |-> head, pending |-> tail]
    BY <1>3 DEF Release
  <2>2. ReadyOnRelease(q, j) = {head}
    BY <1>3 DEF ReadyOnRelease
  <2>3. q.pending \in Seq(Job) /\ Len(q.pending) \in Nat \ {0}
    BY <1>3, EmptySeq
  <2>4. head = q.pending[1]
    BY <1>3, <2>3
  <2>5. /\ head \in Job
        /\ tail \in Seq(Job)
        /\ Len(tail) = Len(q.pending) - 1
        /\ \A i \in 1..Len(tail) : tail[i] = q.pending[i + 1]
    BY <1>3, <2>3, HeadTailProperties
  <2> HIDE DEF head, tail
  <2>6. \A m, n \in 1..Len(tail) : tail[m] = tail[n] => m = n
    BY <2>3, <2>5 DEF QueueWF
  <2>7. \A k : Contains(tail, k) => Contains(q.pending, k) /\ k # head
    <3>1. \A i \in 1..Len(tail) : i + 1 \in 1..Len(q.pending) /\ i + 1 # 1
      BY <2>3, <2>5
    <3> QED
      BY <2>3, <2>4, <2>5, <3>1 DEF QueueWF, Contains
  <2>8. Contains(q.pending, head)
    BY <2>3, <2>4 DEF Contains
  <2>9. head # j
    BY <1>3, <2>8 DEF QueueWF, InLine
  <2> QED
    BY <1>3, <2>1, <2>2, <2>5, <2>6, <2>7, <2>8, <2>9 DEF QueueWF, InLine
<1> QED
  BY <1>1, <1>2, <1>3

\* clear_queue empties the line and leaves the running job its slot.
LEMMA ClearKeepsWellFormed ==
  ASSUME NEW q, WellFormedQueue(q)
  PROVE  /\ WellFormedQueue(ClearQueue(q))
         /\ ClearQueue(q).running = q.running
         /\ \A k \in Job : ~InLine(ClearQueue(q), k)
PROOF
<1>1. ClearQueue(q) = [q EXCEPT !.pending = <<>>]
  BY DEF ClearQueue
<1>2. <<>> \in Seq(Job) /\ Len(<<>>) = 0
  BY EmptySeq
<1>3. /\ ClearQueue(q) \in QueueState
      /\ ClearQueue(q).running = q.running
      /\ ClearQueue(q).pending = <<>>
  BY <1>1, <1>2 DEF WellFormedQueue, QueueState
<1>4. \A k : ~InLine(ClearQueue(q), k)
  BY <1>2, <1>3 DEF InLine, Contains
<1> QED
  BY <1>2, <1>3, <1>4 DEF WellFormedQueue, QueueWF

\* A queue that is loaded or cleared is well formed.
LEMMA EmptyQueueWellFormed == WellFormedQueue(EmptyQueue)
PROOF
<1>1. <<>> \in Seq(Job) /\ Len(<<>>) = 0
  BY EmptySeq
<1> QED
  BY <1>1 DEF WellFormedQueue, EmptyQueue, QueueState, QueueWF, InLine, Contains

-----------------------------------------------------------------------------
(* Lemmas about the operators                                              *)

\* What is taken out of the handles, and what starts in its place.
LEMMA OutcomeProperties ==
  ASSUME NEW D, NEW S, NEW o \in Outcome(D, S)
  PROVE  /\ o.done = D
         /\ o.launched \subseteq S
         /\ o.broken \subseteq S \ o.launched
BY DEF Outcome

\* Finalizing j starts at most the job whose turn it is.
LEMMA FinalizeOutcomeProperties ==
  ASSUME NEW j \in Job, NEW o \in FinalizeOutcome(j)
  PROVE  /\ o.done \subseteq {j}
         /\ o.launched \subseteq {n \in Ready(j) : Startable(n)}
         /\ o.broken \subseteq {n \in Ready(j) : Startable(n)}
         /\ o.done = {} => o.launched = {} /\ o.broken = {}
<1>1. CASE Aborts(j)
  BY <1>1 DEF FinalizeOutcome
<1>2. CASE ~Aborts(j)
  <2>1. o \in Outcome({j}, {n \in Ready(j) : Startable(n)})
    BY <1>2 DEF FinalizeOutcome
  <2> QED
    BY <2>1, OutcomeProperties
<1> QED
  BY <1>1, <1>2

\* A job below the limit that applies to it, rate limited or not, is below the larger.
LEMMA AttemptBounded ==
  ASSUME attempt \in [Job -> 0..MostAttempts], NEW o, NEW f
  PROVE  AttemptAfter(o, f) \in [Job -> 0..MostAttempts]
<1>1. /\ MostAttempts \in Nat
      /\ MaxAttempts \in Nat /\ MaxAttempts <= MostAttempts
      /\ RateLimitMaxAttempts \in Nat /\ RateLimitMaxAttempts <= MostAttempts
  BY SupervisorAssumption DEF MostAttempts
<1>2. ASSUME NEW j \in Job
      PROVE  (IF j \in o.broken \cup GivenUp(o, f) THEN 0
              ELSE IF j \in Retried(o, f) THEN attempt[j] + 1
              ELSE attempt[j]) \in 0..MostAttempts
  <2>1. attempt[j] \in 0..MostAttempts
    OBVIOUS
  <2>2. CASE j \in Retried(o, f)
    <3>1. CASE j \in o.limited
      BY <1>1, <2>1, <2>2, <3>1 DEF Retried, AtLimit
    <3>2. CASE j \notin o.limited
      BY <1>1, <2>1, <2>2, <3>2 DEF Retried, AtLimit
    <3> QED
      BY <3>1, <3>2
  <2>3. CASE j \notin Retried(o, f)
    BY <1>1, <2>1, <2>3
  <2> QED
    BY <2>2, <2>3
<1> QED
  BY <1>2 DEF AttemptAfter

\* A job that can be started has no process and no handle.
LEMMA StartableIsIdle ==
  ASSUME Consistent, NEW j \in Job, Startable(j)
  PROVE  j \notin Handles /\ count[j] = 0
BY DEF Consistent, TypeOK, LimiterAgrees, Startable, StartRaises, Refused

\* A start that goes through the queue takes the slot only when it is free.
LEMMA RequestedProperties ==
  ASSUME Consistent, NEW j \in Job
  PROVE  /\ Requested(j) \in [Queue -> QueueState]
         /\ WellFormed(Requested(j))
         /\ \A q \in Queue :
              ~(q = QueueOf[j] /\ Acquires(queues[q], j))
                => Requested(j)[q].running = queues[q].running
         /\ QueueOf[j] # NoQueue /\ Acquires(queues[QueueOf[j]], j)
              => Requested(j)[QueueOf[j]].running = j
<1> USE SupervisorAssumption, NoJobAssumption
<1>1. queues \in [Queue -> QueueState] /\ WellFormed(queues)
  BY DEF Consistent, TypeOK, QueuesWellFormed
<1>2. CASE QueueOf[j] = NoQueue
  BY <1>1, <1>2 DEF Requested
<1>3. CASE QueueOf[j] # NoQueue
  <2> DEFINE q0 == QueueOf[j]
             new == TryAcquire(queues[q0], j)
  <2>1. q0 \in Queue
    BY <1>3
  <2>2. Requested(j) = [queues EXCEPT ![q0] = new]
    BY <1>3 DEF Requested
  <2>3. /\ WellFormedQueue(new)
        /\ Acquires(queues[q0], j) => new = [queues[q0] EXCEPT !.running = j]
        /\ ~Acquires(queues[q0], j) => new.running = queues[q0].running
        /\ \A k \in Job : InLine(new, k) => InLine(queues[q0], k) \/ k = j
    BY <1>1, <2>1, TryAcquireKeepsWellFormed DEF WellFormedQueue, WellFormed
  <2>4. Acquires(queues[q0], j) => new.running = j
    BY <1>1, <2>1, <2>3 DEF QueueState
  <2> HIDE DEF new
  <2> QED
    BY <1>1, <1>3, <2>1, <2>2, <2>3, <2>4 DEF WellFormed, WellFormedQueue
<1> QED
  BY <1>2, <1>3

\* A job that leaves its line keeps every slot as it is.
LEMMA RemovedProperties ==
  ASSUME NEW qs \in [Queue -> QueueState], WellFormed(qs), NEW j \in Job
  PROVE  /\ Removed(qs, j) \in [Queue -> QueueState]
         /\ WellFormed(Removed(qs, j))
         /\ \A q \in Queue : Removed(qs, j)[q].running = qs[q].running
<1> USE SupervisorAssumption
<1>1. CASE QueueOf[j] = NoQueue
  BY <1>1 DEF Removed
<1>2. CASE QueueOf[j] # NoQueue
  <2> DEFINE q0 == QueueOf[j]
             new == RemoveFromQueue(qs[q0], j)
  <2>1. q0 \in Queue
    BY <1>2
  <2>2. Removed(qs, j) = [qs EXCEPT ![q0] = new]
    BY <1>2 DEF Removed
  <2>3. /\ WellFormedQueue(new)
        /\ new.running = qs[q0].running
        /\ \A k \in Job : InLine(new, k) => InLine(qs[q0], k)
    BY <2>1, RemoveKeepsWellFormed DEF WellFormedQueue, WellFormed
  <2> HIDE DEF new
  <2> QED
    BY <2>1, <2>2, <2>3 DEF WellFormed, WellFormedQueue
<1> QED
  BY <1>1, <1>2

\* Releasing the slot of j hands it to the one job in Ready(j); no other slot
\* changes hands.
LEMMA ReleasedProperties ==
  ASSUME Consistent, NEW j \in Job
  PROVE  /\ Released(j) \in [Queue -> QueueState]
         /\ WellFormed(Released(j))
         /\ \A q \in Queue : queues[q].running # j
              => Released(j)[q].running = queues[q].running
         /\ \A n \in Ready(j) :
              /\ n \in Job /\ n # j
              /\ QueueOf[n] # NoQueue
              /\ Released(j)[QueueOf[n]].running = n
         /\ \A n, m \in Ready(j) : n = m
<1> USE SupervisorAssumption, NoJobAssumption
<1>1. queues \in [Queue -> QueueState] /\ WellFormed(queues)
  BY DEF Consistent, TypeOK, QueuesWellFormed
<1>2. CASE QueueOf[j] = NoQueue
  BY <1>1, <1>2 DEF Released, Ready
<1>3. CASE QueueOf[j] # NoQueue
  <2> DEFINE q0 == QueueOf[j]
             new == Release(queues[q0], j)
  <2>1. q0 \in Queue
    BY <1>3
  <2>2. Released(j) = [queues EXCEPT ![q0] = new]
    BY <1>3 DEF Released
  <2>3. Ready(j) = ReadyOnRelease(queues[q0], j)
    BY <1>3 DEF Ready
  <2>4. /\ WellFormedQueue(new)
        /\ queues[q0].running # j => new.running = queues[q0].running
        /\ \A n \in Ready(j) :
             n \in Job /\ n # j /\ InLine(queues[q0], n) /\ new.running = n
        /\ \A n, m \in Ready(j) : n = m
        /\ queues[q0].running = j /\ Ready(j) = {} => new.running = NoJob
        /\ \A k \in Job : InLine(new, k) => InLine(queues[q0], k)
    BY <1>1, <2>1, <2>3, ReleaseKeepsWellFormed DEF WellFormedQueue, WellFormed
  <2>5. \A n \in Ready(j) : QueueOf[n] = q0
    BY <1>1, <2>1, <2>4 DEF WellFormed
  <2>6. \A k \in Job : new.running = k => QueueOf[k] = q0
    <3>1. CASE queues[q0].running # j
      BY <1>1, <2>1, <2>4, <3>1 DEF WellFormed
    <3>2. CASE queues[q0].running = j /\ Ready(j) = {}
      BY <2>4, <3>2
    <3>3. CASE Ready(j) # {}
      BY <2>4, <2>5, <3>3
    <3> QED
      BY <3>1, <3>2, <3>3
  <2> HIDE DEF new
  <2>7. Released(j) \in [Queue -> QueueState] /\ WellFormed(Released(j))
    BY <1>1, <2>1, <2>2, <2>4, <2>6 DEF WellFormed, WellFormedQueue
  <2> QED
    BY <1>1, <1>3, <2>1, <2>2, <2>4, <2>5, <2>7
<1> QED
  BY <1>2, <1>3

-----------------------------------------------------------------------------
(* Lemmas about the steps                                                  *)

\* The part of Consistent about processes and what is counted of them.
ProcessesOK ==
  /\ alive \subseteq Job /\ exited \subseteq Job
  /\ failed \subseteq Job /\ slotted \subseteq Job
  /\ count \in [Job -> Nat]
  /\ openRun \subseteq Job /\ staleRun \subseteq Job /\ recent \subseteq Job
  /\ SlotOfHandle /\ LimiterAgrees /\ RunsRecorded

QueuesOK ==
  /\ queues \in [Queue -> QueueState]
  /\ QueuesWellFormed /\ SlotHeld

\* The rows, the pending retries and the operator's marks.
RowsOK ==
  /\ status \in [Job -> Status]
  /\ attempt \in [Job -> 0..MostAttempts]
  /\ paused \subseteq Job /\ retrying \subseteq Job
  /\ RetryOnlyWhenIdle
  /\ manual \subseteq Job /\ MarkNotStale

ControlOK ==
  /\ enabled \subseteq Job /\ revoked \subseteq Job /\ schedPaused \subseteq Job
  /\ schedulerUp \in BOOLEAN
  /\ dlq \subseteq Job
  /\ daemon \in Phase
  /\ sweep \subseteq Job

\* The invariant is split by the variables its conjuncts speak of.
LEMMA ConsistentParts ==
  Consistent <=> ProcessesOK /\ QueuesOK /\ RowsOK /\ ControlOK
BY DEF Consistent, TypeOK, ProcessesOK, QueuesOK, RowsOK, ControlOK

\* It holds after a step if its parts do.
LEMMA ConsistentNext ==
  ProcessesOK' /\ QueuesOK' /\ RowsOK' /\ ControlOK' => Consistent'
BY DEF Consistent, TypeOK, ProcessesOK, QueuesOK, RowsOK, ControlOK

\* Handles, counters and run records move together, provided a launched job had
\* no handle and a finalized one had ended.
LEMMA ProcessesStep ==
  ASSUME Consistent, NEW o, NEW gone \in SUBSET alive, NEW slot \in SUBSET o.launched,
         o.launched \subseteq Job \ Handles,
         o.broken \subseteq Job,
         o.done \subseteq exited \cup gone,
         Processes(gone, o, slot)
  PROVE  ProcessesOK'
<1> USE DEF Processes, CountAfter
<1>1. ProcessesOK
  BY ConsistentParts
<1>2. Handles' = (Handles \ o.done) \cup o.launched
  BY <1>1 DEF Handles, ProcessesOK, LimiterAgrees
<1>3. /\ alive' \subseteq Job /\ exited' \subseteq Job
      /\ failed' \subseteq Job /\ slotted' \subseteq Job
      /\ openRun' \subseteq Job /\ staleRun' \subseteq Job /\ recent' \subseteq Job
  BY <1>1 DEF ProcessesOK
<1>4. count' \in [Job -> Nat]
  BY <1>1 DEF ProcessesOK
<1>5. SlotOfHandle' /\ RunsRecorded'
  BY <1>1, <1>2 DEF ProcessesOK, SlotOfHandle, RunsRecorded
<1>6. alive' \cap exited' = {}
  BY <1>1 DEF ProcessesOK, LimiterAgrees, Handles
<1>7. ASSUME NEW k \in Job
      PROVE  count'[k] = IF k \in Handles' THEN 1 ELSE 0
  <2>1. count[k] = IF k \in Handles THEN 1 ELSE 0
    BY <1>1 DEF ProcessesOK, LimiterAgrees
  <2>2. CASE k \in o.launched
    BY <1>2, <2>1, <2>2
  <2>3. CASE k \in o.done /\ k \notin o.launched
    <3>1. k \in Handles
      BY <2>3 DEF Handles
    <3> QED
      BY <1>2, <2>1, <2>3, <3>1
  <2>4. CASE k \notin o.done /\ k \notin o.launched
    BY <1>2, <2>1, <2>4
  <2> QED
    BY <2>2, <2>3, <2>4
<1> QED
  BY <1>3, <1>4, <1>5, <1>6, <1>7 DEF ProcessesOK, LimiterAgrees

\* start_job, whatever happened to the queues on the way there, keeps the slots
\* with those who run: through the queue only a free slot is taken.
LEMMA StartStep ==
  ASSUME Consistent, NEW j \in Job, NEW viaQueue \in BOOLEAN,
         NEW retries \in SUBSET retrying,
         StartJob(j, viaQueue, retries),
         viaQueue => queues' = Requested(j),
         ~viaQueue => queues' \in {queues, Removed(queues, j)},
         manual' = manual
  PROVE  ProcessesOK' /\ QueuesOK' /\ RowsOK'
<1> DEFINE queued == viaQueue /\ QueueOf[j] # NoQueue
<1> USE DEF Cancelled
<1>1. ProcessesOK /\ QueuesOK /\ RowsOK
  BY ConsistentParts
<1>2. queues' \in [Queue -> QueueState] /\ WellFormed(queues')
  BY <1>1, RequestedProperties, RemovedProperties DEF QueuesOK, QueuesWellFormed
<1>3. \A q \in Queue :
        ~(queued /\ q = QueueOf[j] /\ Acquires(queues[q], j))
          => queues'[q].running = queues[q].running
  BY <1>1, RequestedProperties, RemovedProperties, SupervisorAssumption
     DEF QueuesOK, QueuesWellFormed
<1>4. j \notin Handles
  BY StartableIsIdle DEF StartJob
<1>5. CASE /\ queued /\ ~Acquires(queues[QueueOf[j]], j)
           /\ status' = [status EXCEPT ![j] = "QUEUED"]
           /\ retrying' = retries
           /\ UNCHANGED <<procVars, attempt, paused>>
  <2>1. ProcessesOK'
    BY <1>1, <1>5
       DEF procVars, ProcessesOK, SlotOfHandle, LimiterAgrees, RunsRecorded, Handles
  <2>2. SlotHeld'
    BY <1>1, <1>3, <1>5, SupervisorAssumption DEF procVars, QueuesOK, SlotHeld, ProcessesOK
  <2>3. RowsOK'
    BY <1>1, <1>5
       DEF procVars, RowsOK, Status, RetryOnlyWhenIdle, MarkNotStale, Handles
  <2> QED
    BY <1>2, <2>1, <2>2, <2>3 DEF QueuesOK, QueuesWellFormed
<1>6. ASSUME queued => Acquires(queues[QueueOf[j]], j),
             NEW o \in Outcome({}, {j}),
             Processes({}, o, IF queued THEN o.launched ELSE {}),
             status' = StatusAfter(o, {}),
             attempt' = AttemptAfter(o, {}),
             paused' = PausedAfter(o),
             retrying' = retries \ o.launched
      PROVE  ProcessesOK' /\ QueuesOK' /\ RowsOK'
  <2>1. /\ o.done = {} /\ o.launched \subseteq {j} /\ o.broken \subseteq {j}
    BY <1>6, OutcomeProperties
  <2>2. ProcessesOK'
    BY <1>4, <1>6, <2>1, ProcessesStep
  <2>3. ASSUME NEW k \in (alive \cap slotted)'
        PROVE  QueueOf[k] # NoQueue /\ queues'[QueueOf[k]].running = k
    <3>1. CASE k \in o.launched
      <4>1. k = j /\ k \notin slotted /\ queued
        BY <1>1, <1>4, <1>6, <2>1, <2>3, <3>1
           DEF Processes, ProcessesOK, SlotOfHandle
      <4> QED
        BY <1>6, <4>1, RequestedProperties
    <3>2. CASE k \notin o.launched
      <4>1. k \in alive \cap slotted /\ k \in Job
        BY <1>1, <1>6, <2>3, <3>2 DEF Processes, ProcessesOK
      <4>2. QueueOf[k] # NoQueue /\ queues[QueueOf[k]].running = k
        BY <1>1, <4>1 DEF QueuesOK, SlotHeld
      <4>3. ~(queued /\ QueueOf[k] = QueueOf[j])
        BY <1>6, <4>1, <4>2, NoJobAssumption DEF Acquires
      <4> QED
        BY <1>3, <4>1, <4>2, <4>3, SupervisorAssumption
    <3> QED
      BY <3>1, <3>2
  <2>4. RowsOK'
    <3>1. attempt' \in [Job -> 0..MostAttempts]
      BY <1>1, AttemptBounded, <1>6 DEF RowsOK
    <3>2. status' \in [Job -> Status] /\ paused' \subseteq Job /\ retrying' \subseteq Job
      BY <1>1, <1>6 DEF StatusAfter, PausedAfter, RowsOK, Status
    <3>3. RetryOnlyWhenIdle'
      BY <1>1, <1>6, <2>1 DEF RowsOK, RetryOnlyWhenIdle, Processes, Handles
    <3>4. MarkNotStale' /\ manual' \subseteq Job
      BY <1>1, <1>6, <2>1 DEF RowsOK, MarkNotStale, Processes
    <3> QED
      BY <3>1, <3>2, <3>3, <3>4 DEF RowsOK
  <2> QED
    BY <1>2, <2>2, <2>3, <2>4 DEF QueuesOK, QueuesWellFormed, SlotHeld
<1> QED
  BY <1>5, <1>6 DEF StartJob


\* Finalizing j, on whatever path: the slot of j goes to the job launched in the
\* same step, and a retry is pending for j only once its handle is gone.
LEMMA FinalizeStep ==
  ASSUME Consistent, NEW j \in Job, NEW gone \in SUBSET (alive \cap {j}),
         j \in exited \cup gone,
         NEW o \in FinalizeOutcome(j), NEW f \in SUBSET o.done,
         NEW flagged \in SUBSET (exited \cup gone), NEW onRaise \in Phase,
         Processes(gone, o, o.launched),
         Bookkeep(o, f, flagged, onRaise),
         status' \in [Job -> Status], paused' \subseteq Job,
         queues' \in {Released(j), Removed(Released(j), j)}
  PROVE  /\ ProcessesOK' /\ QueuesOK' /\ RowsOK'
         /\ dlq' = dlq /\ daemon' \in Phase
<1>1. ProcessesOK /\ QueuesOK /\ RowsOK /\ ControlOK
  BY ConsistentParts
<1>2. /\ o.done \subseteq {j}
      /\ o.launched \subseteq Ready(j) /\ o.broken \subseteq Ready(j)
      /\ o.launched \subseteq Job \ Handles /\ o.broken \subseteq Job
      /\ j \notin o.launched
  BY FinalizeOutcomeProperties, ReleasedProperties, StartableIsIdle
<1>3. /\ j \in Handles /\ j \notin alive'
      /\ alive \cap exited = {} /\ alive' \subseteq alive \cup o.launched
  BY <1>1, <1>2 DEF Processes, Handles, ProcessesOK, LimiterAgrees
<1>4. ProcessesOK'
  BY <1>1, <1>2, ProcessesStep
<1>5. /\ queues' \in [Queue -> QueueState] /\ WellFormed(queues')
      /\ \A q \in Queue : queues'[q].running = Released(j)[q].running
  BY ReleasedProperties, RemovedProperties
<1>6. ASSUME NEW k \in (alive \cap slotted)'
      PROVE  QueueOf[k] # NoQueue /\ queues'[QueueOf[k]].running = k
  <2>1. CASE k \in o.launched
    BY <1>2, <1>5, <2>1, ReleasedProperties, SupervisorAssumption
  <2>2. CASE k \notin o.launched
    <3>1. k \in alive \cap slotted /\ k \in Job /\ k # j
      BY <1>1, <1>3, <1>6, <2>2 DEF Processes, ProcessesOK
    <3>2. QueueOf[k] # NoQueue /\ queues[QueueOf[k]].running = k
      BY <1>1, <3>1 DEF QueuesOK, SlotHeld
    <3> QED
      BY <1>5, <3>1, <3>2, ReleasedProperties, SupervisorAssumption
  <2> QED
    BY <2>1, <2>2
<1>7. QueuesOK'
  BY <1>5, <1>6 DEF QueuesOK, QueuesWellFormed, SlotHeld
<1>8. RetryOnlyWhenIdle' /\ retrying' \subseteq Job
  <2>1. Retried(o, f) \subseteq o.done
    BY DEF Retried
  <2>2. \A k \in Retried(o, f) : k \notin Handles'
    BY <1>2, <1>3, <2>1 DEF Processes, Handles
  <2>3. Handles' \subseteq Handles \cup o.launched
    BY <1>3 DEF Processes, Handles
  <2> QED
    BY <1>1, <1>2, <2>1, <2>2, <2>3 DEF Bookkeep, Cancelled, RowsOK, RetryOnlyWhenIdle
<1>9. attempt' \in [Job -> 0..MostAttempts]
  BY <1>1, AttemptBounded DEF Bookkeep, RowsOK
<1>10. MarkNotStale' /\ manual' \subseteq Job
  BY <1>1 DEF Bookkeep, MarksAfter, Processes, MarkNotStale, ProcessesOK
<1>11. RowsOK'
  BY <1>8, <1>9, <1>10 DEF RowsOK
<1>12. dlq' = dlq /\ daemon' \in Phase
  BY <1>1 DEF Bookkeep, DlqAdd, ControlOK
<1> QED
  BY <1>4, <1>7, <1>11, <1>12

\* The rows that finalizing writes are rows.
LEMMA RowsWritten ==
  ASSUME Consistent, NEW o, NEW f
  PROVE  StatusAfter(o, f) \in [Job -> Status] /\ PausedAfter(o) \subseteq Job
BY DEF Consistent, TypeOK, StatusAfter, PausedAfter, Status

\* The supervisor finds that a process has ended and finalizes it.
LEMMA ReapStep ==
  ASSUME Consistent, NEW j \in Job, NEW onRaise \in Phase, Reap(j, onRaise)
  PROVE  Consistent'
<1>1. ControlOK /\ RowsOK
  BY ConsistentParts
<1>2. PICK o \in FinalizeOutcome(j) :
        /\ Processes({}, o, o.launched)
        /\ status' = StatusAfter(o, Failures(o, failed, manual))
        /\ paused' = PausedAfter(o)
        /\ Bookkeep(o, Failures(o, failed, manual), manual, onRaise)
  BY DEF Reap
<1>3. /\ j \in exited /\ queues' = Released(j)
      /\ UNCHANGED <<confVars, schedulerUp, sweep>>
  BY DEF Reap
<1>4. Failures(o, failed, manual) \subseteq o.done /\ manual \subseteq exited
  BY <1>1 DEF Failures, RowsOK, MarkNotStale
<1>5. ProcessesOK' /\ QueuesOK' /\ RowsOK' /\ dlq' = dlq /\ daemon' \in Phase
  BY <1>2, <1>3, <1>4, FinalizeStep, RowsWritten
<1>6. ControlOK'
  BY <1>1, <1>3, <1>5 DEF ControlOK, confVars
<1> QED
  BY <1>5, <1>6, ConsistentNext

\* stop_job, with the row its caller leaves behind.
LEMMA StopStep ==
  ASSUME Consistent, NEW j \in Job, NEW o \in FinalizeOutcome(j),
         StopProcess(j, o, StoppedFailures(j, o)),
         status' \in [Job -> Status], paused' \subseteq Job,
         queues' \in {Released(j), Removed(Released(j), j)}
  PROVE  /\ ProcessesOK' /\ QueuesOK' /\ RowsOK'
         /\ schedulerUp' = schedulerUp /\ sweep' = sweep
         /\ dlq' = dlq /\ daemon' \in Phase
<1>1. ControlOK /\ RowsOK
  BY ConsistentParts
<1>2. StoppedFailures(j, o) \subseteq o.done
  BY DEF StoppedFailures, Failures
<1>3. Flagged(j) \subseteq exited \cup {j}
  BY <1>1 DEF Flagged, RowsOK, MarkNotStale
<1>4. /\ j \in alive /\ Processes({j}, o, o.launched)
      /\ Bookkeep(o, StoppedFailures(j, o), Flagged(j), daemon)
      /\ schedulerUp' = schedulerUp /\ sweep' = sweep
  BY DEF StopProcess
<1>5. daemon \in Phase
  BY <1>1 DEF ControlOK
<1> QED
  BY <1>2, <1>3, <1>4, <1>5, FinalizeStep

\* The handlers that stop a job if it runs.
LEMMA StopIfRunningStep ==
  ASSUME Consistent, NEW j \in Job,
         \/ StopIfRunning(j)
         \/ NotStopped /\ UNCHANGED <<status, paused, queues>>
  PROVE  /\ ProcessesOK' /\ QueuesOK' /\ RowsOK'
         /\ schedulerUp' = schedulerUp /\ sweep' = sweep
         /\ dlq' = dlq /\ daemon' \in Phase
<1>1. ControlOK /\ RowsOK /\ ProcessesOK /\ QueuesOK
  BY ConsistentParts
<1>2. CASE Stop(j)
  <2>1. PICK o \in FinalizeOutcome(j) :
          /\ StopProcess(j, o, StoppedFailures(j, o))
          /\ status' = StatusAfter(o, StoppedFailures(j, o))
          /\ paused' = PausedAfter(o)
    BY <1>2 DEF Stop
  <2>2. queues' = Released(j)
    BY <1>2 DEF Stop
  <2> QED
    BY <2>1, <2>2, StopStep, RowsWritten
<1>3. CASE NotStopped /\ UNCHANGED <<status, paused, queues>>
  BY <1>1, <1>3
     DEF NotStopped, procVars, ctrlVars, ControlOK, RowsOK, ProcessesOK, QueuesOK,
         QueuesWellFormed, SlotHeld, SlotOfHandle, LimiterAgrees, RunsRecorded,
         RetryOnlyWhenIdle, MarkNotStale, Handles
<1> QED
  BY <1>2, <1>3 DEF StopIfRunning


-----------------------------------------------------------------------------
(* The actions                                                             *)

\* The system around the daemon.
LEMMA EnvironmentStep ==
  ASSUME Consistent, NEW j \in Job, ProcessExit(j) \/ DedupWindowEnds(j)
  PROVE  Consistent'
<1> USE DEF rowVars, confVars, ctrlVars, ProcessesOK, QueuesOK, RowsOK, ControlOK,
            QueuesWellFormed, SlotHeld, SlotOfHandle, LimiterAgrees, RunsRecorded,
            RetryOnlyWhenIdle, MarkNotStale, Handles
<1>1. ControlOK /\ RowsOK /\ ProcessesOK /\ QueuesOK
  BY ConsistentParts
<1>2. CASE ProcessExit(j)
  <2>1. /\ j \in alive /\ alive' = alive \ {j} /\ exited' = exited \cup {j}
        /\ failed' \subseteq failed \cup {j}
        /\ UNCHANGED <<slotted, count, openRun, staleRun, recent, rowVars, confVars,
                       ctrlVars, retrying, manual, queues>>
    BY <1>2 DEF ProcessExit
  <2>2. ProcessesOK'
    BY <1>1, <2>1
  <2>3. QueuesOK' /\ RowsOK' /\ ControlOK'
    BY <1>1, <2>1
  <2> QED
    BY <2>2, <2>3, ConsistentNext
<1>3. CASE DedupWindowEnds(j)
  <2>1. ProcessesOK' /\ QueuesOK' /\ RowsOK' /\ ControlOK'
    BY <1>1, <1>3 DEF DedupWindowEnds
  <2> QED
    BY <2>1, ConsistentNext
<1> QED
  BY <1>2, <1>3

\* The scheduler and the retry manager.
LEMMA TaskStep ==
  ASSUME Consistent, NEW j \in Job, ScheduledStart(j) \/ RetryFires(j)
  PROVE  Consistent'
<1>1. ControlOK /\ RowsOK /\ ProcessesOK /\ QueuesOK
  BY ConsistentParts
<1>2. ASSUME NEW retries \in SUBSET retrying,
             StartJob(j, TRUE, retries), queues' = Requested(j), manual' = manual
      PROVE  ProcessesOK' /\ QueuesOK' /\ RowsOK'
  BY <1>2, StartStep
<1>3. ASSUME retrying' \subseteq retrying,
             UNCHANGED <<procVars, rowVars, queues, manual>>
      PROVE  ProcessesOK' /\ QueuesOK' /\ RowsOK'
  BY <1>1, <1>3
     DEF procVars, rowVars, RowsOK, ProcessesOK, QueuesOK, QueuesWellFormed, SlotHeld,
         SlotOfHandle, LimiterAgrees, RunsRecorded, RetryOnlyWhenIdle, MarkNotStale,
         Handles
<1>4. CASE ScheduledStart(j)
  <2>1. ControlOK'
    BY <1>1, <1>4 DEF ScheduledStart, ControlOK, confVars
  <2>2. ProcessesOK' /\ QueuesOK' /\ RowsOK'
    BY <1>2, <1>3, <1>4 DEF ScheduledStart
  <2> QED
    BY <2>1, <2>2, ConsistentNext
<1>5. CASE RetryFires(j)
  <2>1. ControlOK'
    BY <1>1, <1>5 DEF RetryFires, ControlOK, confVars, ctrlVars
  <2>2. ProcessesOK' /\ QueuesOK' /\ RowsOK'
    BY <1>2, <1>3, <1>5 DEF RetryFires
  <2> QED
    BY <2>1, <2>2, ConsistentNext
<1> QED
  BY <1>4, <1>5

\* The API requests that start a job.
LEMMA RequestStep ==
  ASSUME Consistent, NEW j \in Job, ApiStart(j) \/ RunJob(j) \/ ForceStart(j)
  PROVE  Consistent'
<1>1. ControlOK /\ RowsOK /\ ProcessesOK /\ QueuesOK
  BY ConsistentParts
<1>2. ControlOK'
  BY <1>1 DEF ApiStart, RunJob, ForceStart, ControlOK, confVars, ctrlVars
<1>3. CASE ApiStart(j)
  <2>1. ProcessesOK' /\ QueuesOK' /\ RowsOK'
    BY <1>3, StartStep DEF ApiStart
  <2> QED
    BY <1>2, <2>1, ConsistentNext
<1>4. CASE RunJob(j)
  <2>1. ProcessesOK' /\ QueuesOK' /\ RowsOK'
    BY <1>4, StartStep DEF RunJob
  <2> QED
    BY <1>2, <2>1, ConsistentNext
<1>5. CASE ForceStart(j)
  <2>1. CASE StartJob(j, FALSE, retrying)
    <3>1. ProcessesOK' /\ QueuesOK' /\ RowsOK'
      BY <1>5, <2>1, StartStep DEF ForceStart
    <3> QED
      BY <1>2, <3>1, ConsistentNext
  <2>2. CASE UNCHANGED <<procVars, rowVars, retrying>>
    <3>1. /\ queues' \in [Queue -> QueueState] /\ WellFormed(queues')
          /\ \A q \in Queue : queues'[q].running = queues[q].running
      BY <1>1, <1>5, RemovedProperties DEF ForceStart, QueuesOK, QueuesWellFormed
    <3>2. SlotHeld'
      BY <1>1, <2>2, <3>1, SupervisorAssumption
         DEF procVars, QueuesOK, SlotHeld, ProcessesOK
    <3>3. ProcessesOK' /\ RowsOK'
      BY <1>1, <1>5, <2>2
         DEF ForceStart, procVars, rowVars, RowsOK, ProcessesOK, SlotOfHandle,
             LimiterAgrees, RunsRecorded, RetryOnlyWhenIdle, MarkNotStale, Handles
    <3> QED
      BY <1>2, <3>1, <3>2, <3>3, ConsistentNext DEF QueuesOK, QueuesWellFormed
  <2> QED
    BY <1>5, <2>1, <2>2 DEF ForceStart
<1> QED
  BY <1>3, <1>4, <1>5

\* The API requests that may stop a job.
LEMMA StopRequestStep ==
  ASSUME Consistent, NEW j \in Job,
         StopJob(j) \/ PauseJob(j) \/ DisableJob(j) \/ RevokeJob(j)
  PROVE  Consistent'
<1>1. ControlOK /\ RowsOK /\ ProcessesOK /\ QueuesOK
  BY ConsistentParts
<1>2. enabled' \subseteq Job /\ revoked' \subseteq Job /\ schedPaused' \subseteq Job
  BY <1>1
     DEF StopJob, PauseJob, DisableJob, RevokeJob, confVars, ControlOK
<1>3. CASE StopJob(j) \/ DisableJob(j) \/ RevokeJob(j)
  <2>1. \/ StopIfRunning(j)
        \/ NotStopped /\ UNCHANGED <<status, paused, queues>>
    BY <1>3 DEF StopJob, DisableJob, RevokeJob, StopIfRunning
  <2>2. /\ ProcessesOK' /\ QueuesOK' /\ RowsOK'
        /\ schedulerUp' = schedulerUp /\ sweep' = sweep
        /\ dlq' = dlq /\ daemon' \in Phase
    BY <2>1, StopIfRunningStep
  <2>3. ControlOK'
    BY <1>1, <1>2, <2>2 DEF ControlOK
  <2> QED
    BY <2>2, <2>3, ConsistentNext
<1>4. CASE PauseJob(j)
  <2>1. ASSUME NEW o \in FinalizeOutcome(j),
               StopProcess(j, o, StoppedFailures(j, o)),
               status' = [StatusAfter(o, StoppedFailures(j, o)) EXCEPT ![j] = status[j]],
               paused' = PausedAfter(o) \cup {j},
               queues' = Removed(Released(j), j)
        PROVE  Consistent'
    <3>1. status' \in [Job -> Status] /\ paused' \subseteq Job
      BY <1>1, <2>1, RowsWritten DEF RowsOK
    <3>2. /\ ProcessesOK' /\ QueuesOK' /\ RowsOK'
          /\ schedulerUp' = schedulerUp /\ sweep' = sweep
          /\ dlq' = dlq /\ daemon' \in Phase
      BY <2>1, <3>1, StopStep
    <3>3. ControlOK'
      BY <1>1, <1>2, <3>2 DEF ControlOK
    <3> QED
      BY <3>2, <3>3, ConsistentNext
  <2>2. ASSUME NotStopped, paused' = paused \cup {j}, queues' = Removed(queues, j),
               UNCHANGED status
        PROVE  Consistent'
    <3>1. /\ queues' \in [Queue -> QueueState] /\ WellFormed(queues')
          /\ \A q \in Queue : queues'[q].running = queues[q].running
      BY <1>1, <2>2, RemovedProperties DEF QueuesOK, QueuesWellFormed
    <3>2. SlotHeld'
      BY <1>1, <2>2, <3>1, SupervisorAssumption
         DEF NotStopped, procVars, QueuesOK, SlotHeld, ProcessesOK
    <3>3. ProcessesOK' /\ RowsOK'
      BY <1>1, <2>2
         DEF NotStopped, procVars, RowsOK, ProcessesOK, SlotOfHandle, LimiterAgrees,
             RunsRecorded, RetryOnlyWhenIdle, MarkNotStale, Handles
    <3>4. ControlOK'
      BY <1>1, <1>2, <2>2 DEF NotStopped, ctrlVars, ControlOK
    <3> QED
      BY <3>1, <3>2, <3>3, <3>4, ConsistentNext DEF QueuesOK, QueuesWellFormed
  <2> QED
    BY <1>4, <2>1, <2>2 DEF PauseJob
<1> QED
  BY <1>3, <1>4

\* The requests that touch no process.
LEMMA BookkeepingRequestStep ==
  ASSUME Consistent, NEW j \in Job, ResumeJob(j) \/ EnableJob(j) \/ UnrevokeJob(j)
  PROVE  Consistent'
<1>1. ControlOK /\ RowsOK /\ ProcessesOK /\ QueuesOK
  BY ConsistentParts
<1>2. UNCHANGED <<procVars, queues, status, attempt, retrying, manual, ctrlVars>>
  BY DEF ResumeJob, EnableJob, UnrevokeJob, rowVars
<1>3. /\ enabled' \subseteq Job /\ revoked' \subseteq Job
      /\ schedPaused' \subseteq Job /\ paused' \subseteq Job
  BY <1>1 DEF ResumeJob, EnableJob, UnrevokeJob, rowVars, ControlOK, RowsOK
<1>4. ProcessesOK' /\ QueuesOK' /\ RowsOK' /\ ControlOK'
  BY <1>1, <1>2, <1>3
     DEF procVars, ctrlVars, ControlOK, RowsOK, ProcessesOK, QueuesOK,
         QueuesWellFormed, SlotHeld, SlotOfHandle, LimiterAgrees, RunsRecorded,
         RetryOnlyWhenIdle, MarkNotStale, Handles
<1> QED
  BY <1>4, ConsistentNext

\* The queue endpoint drops the jobs that wait.
LEMMA ClearStep ==
  ASSUME Consistent, NEW q0 \in Queue, ClearPending(q0)
  PROVE  Consistent'
<1>1. ControlOK /\ RowsOK /\ ProcessesOK /\ QueuesOK
  BY ConsistentParts
<1>2. queues' = [queues EXCEPT ![q0] = ClearQueue(queues[q0])]
  BY DEF ClearPending
<1>3. UNCHANGED <<procVars, rowVars, confVars, ctrlVars, retrying, manual>>
  BY DEF ClearPending
<1>4. /\ WellFormedQueue(ClearQueue(queues[q0]))
      /\ ClearQueue(queues[q0]).running = queues[q0].running
      /\ \A k \in Job : ~InLine(ClearQueue(queues[q0]), k)
  BY <1>1, ClearKeepsWellFormed
     DEF QueuesOK, QueuesWellFormed, WellFormed, WellFormedQueue
<1>5. /\ queues' \in [Queue -> QueueState] /\ WellFormed(queues')
      /\ \A q \in Queue : queues'[q].running = queues[q].running
  BY <1>1, <1>2, <1>4 DEF QueuesOK, QueuesWellFormed, WellFormed, WellFormedQueue
<1>6. SlotHeld'
  BY <1>1, <1>3, <1>5, SupervisorAssumption
     DEF procVars, QueuesOK, SlotHeld, ProcessesOK
<1>7. ProcessesOK' /\ RowsOK' /\ ControlOK'
  BY <1>1, <1>3
     DEF procVars, rowVars, confVars, ctrlVars, ControlOK, RowsOK, ProcessesOK,
         SlotOfHandle, LimiterAgrees, RunsRecorded, RetryOnlyWhenIdle, MarkNotStale,
         Handles
<1> QED
  BY <1>5, <1>6, <1>7, ConsistentNext DEF QueuesOK, QueuesWellFormed

\* The steps of the shutdown that finalize nothing.
LEMMA PhaseStep ==
  ASSUME Consistent, ShutdownRequest \/ CleanupDeadline \/ CleanupEnds
  PROVE  Consistent'
<1>1. ControlOK /\ RowsOK /\ ProcessesOK /\ QueuesOK
  BY ConsistentParts
<1>2. /\ UNCHANGED <<procVars, rowVars, confVars, schedulerUp, dlq, retrying, manual,
                     queues>>
      /\ daemon' \in Phase /\ sweep' \subseteq Job
  BY <1>1
     DEF ShutdownRequest, CleanupDeadline, CleanupEnds, Phase, Handles, ControlOK,
         ProcessesOK
<1>3. ProcessesOK' /\ QueuesOK' /\ RowsOK' /\ ControlOK'
  BY <1>1, <1>2
     DEF procVars, rowVars, confVars, ControlOK, RowsOK, ProcessesOK, QueuesOK,
         QueuesWellFormed, SlotHeld, SlotOfHandle, LimiterAgrees, RunsRecorded,
         RetryOnlyWhenIdle, MarkNotStale, Handles
<1> QED
  BY <1>3, ConsistentNext

\* The daemon kills what is still alive when it goes down.
LEMMA KillStep ==
  ASSUME Consistent, NEW j \in Job, CleanupKill(j)
  PROVE  Consistent'
<1>1. ControlOK /\ RowsOK /\ ProcessesOK /\ QueuesOK
  BY ConsistentParts
<1>2. sweep' \subseteq Job /\ UNCHANGED <<confVars, schedulerUp>>
  BY <1>1 DEF CleanupKill, ControlOK
<1>3. CASE /\ j \notin alive
           /\ UNCHANGED <<procVars, rowVars, retrying, manual, queues, dlq, daemon>>
  <2>1. ProcessesOK' /\ QueuesOK' /\ RowsOK' /\ ControlOK'
    BY <1>1, <1>2, <1>3
       DEF procVars, rowVars, confVars, ControlOK, RowsOK, ProcessesOK, QueuesOK,
           QueuesWellFormed, SlotHeld, SlotOfHandle, LimiterAgrees, RunsRecorded,
           RetryOnlyWhenIdle, MarkNotStale, Handles
  <2> QED
    BY <2>1, ConsistentNext
<1>4. ASSUME j \in alive, queues' = Released(j), NEW o \in FinalizeOutcome(j),
             Processes({j}, o, o.launched),
             status' = StatusAfter(o, Failures(o, o.done, manual)),
             paused' = PausedAfter(o),
             Bookkeep(o, Failures(o, o.done, manual), manual, "down")
      PROVE  Consistent'
  <2>1. Failures(o, o.done, manual) \subseteq o.done /\ manual \subseteq exited
    BY <1>1 DEF Failures, RowsOK, MarkNotStale
  <2>2. "down" \in Phase
    BY DEF Phase
  <2>3. ProcessesOK' /\ QueuesOK' /\ RowsOK' /\ dlq' = dlq /\ daemon' \in Phase
    BY <1>4, <2>1, <2>2, FinalizeStep, RowsWritten
  <2>4. ControlOK'
    BY <1>1, <1>2, <2>3 DEF ControlOK, confVars
  <2> QED
    BY <2>3, <2>4, ConsistentNext
<1> QED
  BY <1>3, <1>4 DEF CleanupKill

\* The daemon starts with empty queues and no processes.
LEMMA InitConsistent == Init => Consistent
<1> SUFFICES ASSUME Init PROVE Consistent
  OBVIOUS
<1> USE SupervisorAssumption, NoJobAssumption DEF Init
<1>1. queues \in [Queue -> QueueState] /\ WellFormed(queues)
  BY EmptyQueueWellFormed
     DEF WellFormedQueue, WellFormed, EmptyQueue, InLine, Contains
<1> QED
  BY <1>1
     DEF Consistent, TypeOK, QueuesWellFormed, SlotHeld, SlotOfHandle, LimiterAgrees,
         RunsRecorded, RetryOnlyWhenIdle, MarkNotStale, Handles, Status, Phase, MostAttempts

\* Every step keeps the invariant.
LEMMA ConsistentInductive == Consistent /\ [Next]_vars => Consistent'
<1> SUFFICES ASSUME Consistent, [Next]_vars PROVE Consistent'
  OBVIOUS
<1>1. CASE UNCHANGED vars
  BY <1>1
     DEF vars, procVars, rowVars, confVars, ctrlVars, Consistent, TypeOK,
         QueuesWellFormed, SlotHeld, SlotOfHandle, LimiterAgrees, RunsRecorded,
         RetryOnlyWhenIdle, MarkNotStale, Handles
<1>2. ASSUME NEW j \in Job, JobNext(j) PROVE Consistent'
  <2>1. CASE CheckProcess(j) \/ GetJobStatus(j) \/ CleanupReap(j)
    <3>1. \E onRaise \in Phase : Reap(j, onRaise)
      BY <2>1 DEF CheckProcess, GetJobStatus, CleanupReap, Phase
    <3> QED
      BY <3>1, ReapStep
  <2>2. CASE ProcessExit(j) \/ DedupWindowEnds(j)
    BY <2>2, EnvironmentStep
  <2>3. CASE ScheduledStart(j) \/ RetryFires(j)
    BY <2>3, TaskStep
  <2>4. CASE ApiStart(j) \/ RunJob(j) \/ ForceStart(j)
    BY <2>4, RequestStep
  <2>5. CASE StopJob(j) \/ PauseJob(j) \/ DisableJob(j) \/ RevokeJob(j)
    BY <2>5, StopRequestStep
  <2>6. CASE ResumeJob(j) \/ EnableJob(j) \/ UnrevokeJob(j)
    BY <2>6, BookkeepingRequestStep
  <2>7. CASE CleanupKill(j)
    BY <2>7, KillStep
  <2> QED
    BY <1>2, <2>1, <2>2, <2>3, <2>4, <2>5, <2>6, <2>7 DEF JobNext
<1>3. CASE \E q \in Queue : ClearPending(q)
  BY <1>3, ClearStep
<1>4. CASE ShutdownRequest \/ CleanupDeadline \/ CleanupEnds
  BY <1>4, PhaseStep
<1> QED
  BY <1>1, <1>2, <1>3, <1>4 DEF Next

-----------------------------------------------------------------------------
(* The theorems                                                            *)

\* The inductive invariant: processes, counters, run records, retries, marks and
\* slots agree after any number of requests, exits, retries and faults.
THEOREM ConsistentAlways == Spec => []Consistent
<1>1. Init => Consistent
  BY InitConsistent
<1>2. Consistent /\ [Next]_vars => Consistent'
  BY ConsistentInductive
<1> QED
  BY <1>1, <1>2, PTL DEF Spec

\* Type correctness, with the number of attempts within the larger of the two limits.
THEOREM TypeCorrect == Spec => []TypeOK
<1>1. Consistent => TypeOK
  BY DEF Consistent
<1> QED
  BY <1>1, ConsistentAlways, PTL

\* No duplicate in a line, nobody in the wrong queue, no waiting for a free slot.
THEOREM QueuesStayWellFormed == Spec => []QueuesWellFormed
<1>1. Consistent => QueuesWellFormed
  BY DEF Consistent
<1> QED
  BY <1>1, ConsistentAlways, PTL

\* Mutual exclusion among the jobs started through one queue: each of them holds
\* the one slot.
THEOREM MutualExclusion == Spec => []OneAtATime
<1>1. Consistent => OneAtATime
  <2> SUFFICES ASSUME Consistent, NEW q \in Queue, NEW j \in Inside(q), NEW k \in Inside(q)
               PROVE  j = k
    BY DEF OneAtATime
  <2>1. j \in alive \cap slotted /\ k \in alive \cap slotted
        /\ QueueOf[j] = q /\ QueueOf[k] = q
    BY DEF Inside, InQueue
  <2> QED
    BY <2>1 DEF Consistent, SlotHeld
<1> QED
  BY <1>1, ConsistentAlways, PTL

\* The limiter's counter is the number of handles.
THEOREM LimiterNeverDrifts == Spec => []LimiterAgrees
<1>1. Consistent => LimiterAgrees
  BY DEF Consistent
<1> QED
  BY <1>1, ConsistentAlways, PTL

\* A pending retry never meets a process of its job.
THEOREM RetriesOfIdleJobs == Spec => []RetryOnlyWhenIdle
<1>1. Consistent => RetryOnlyWhenIdle
  BY DEF Consistent
<1> QED
  BY <1>1, ConsistentAlways, PTL

-----------------------------------------------------------------------------
(* The kinds of steps                                                        *)

\* No process starts or ends; somebody may leave a line.
Rests ==
  /\ UNCHANGED <<procVars, status, manual>>
  /\ retrying' \subseteq retrying
  /\ \/ UNCHANGED queues
     \/ \E j \in Job : queues' = Removed(queues, j)
     \/ \E q \in Queue : ClearPending(q)

\* start_job runs, by whomever it is called.
Starts(j) ==
  \E viaQueue \in BOOLEAN : \E retries \in SUBSET retrying :
    /\ StartJob(j, viaQueue, retries)
    /\ viaQueue => queues' = Requested(j)
    /\ ~viaQueue => queues' \in {queues, Removed(queues, j)}
    /\ UNCHANGED manual

\* pause_job saves the row of j as it read it before it stopped j.
RowKept(k, j) == k = j /\ "pause" \in Inputs /\ status'[k] = status[k]

\* The end of j is recorded: a step that made it end itself, while the daemon is up,
\* did so for the operator and has marked it.
Finalizes(j) ==
  \E gone \in SUBSET (alive \cap {j}) : \E o \in FinalizeOutcome(j) :
  \E f \in SUBSET o.done : \E flagged \in {manual, Flagged(j)} :
    /\ j \in exited \cup gone
    /\ Processes(gone, o, o.launched)
    /\ retrying' = Cancelled(retrying, o) \cup Retried(o, f)
    /\ manual' = MarksAfter(o, flagged)
    /\ queues' \in {Released(j), Removed(Released(j), j)}
    /\ \A k \in Job : status'[k] = StatusAfter(o, f)[k] \/ RowKept(k, j)
    /\ f \cap flagged = {}
    /\ Up /\ gone # {} => flagged = Flagged(j)

\* A process that is found dead is finalized; nobody asked for its end.
LEMMA ReapFinalizes ==
  ASSUME NEW j \in Job, NEW onRaise, Reap(j, onRaise)
  PROVE  Finalizes(j)
<1>1. PICK o \in FinalizeOutcome(j) :
        /\ Processes({}, o, o.launched)
        /\ status' = StatusAfter(o, Failures(o, failed, manual))
        /\ Bookkeep(o, Failures(o, failed, manual), manual, onRaise)
  BY DEF Reap
<1>2. j \in exited /\ queues' = Released(j)
  BY DEF Reap
<1>3. /\ Failures(o, failed, manual) \in SUBSET o.done
      /\ Failures(o, failed, manual) \cap manual = {}
  BY DEF Failures
<1>4. /\ retrying' = Cancelled(retrying, o) \cup Retried(o, Failures(o, failed, manual))
      /\ manual' = MarksAfter(o, manual)
  BY <1>1 DEF Bookkeep
<1>5. {} \in SUBSET (alive \cap {j}) /\ j \in exited \cup {}
  BY <1>2
<1> QED
  BY <1>1, <1>2, <1>3, <1>4, <1>5 DEF Finalizes

\* stop_job, whatever row its caller leaves behind.
LEMMA StopFinalizes ==
  ASSUME NEW j \in Job, NEW o \in FinalizeOutcome(j),
         StopProcess(j, o, StoppedFailures(j, o)),
         \A k \in Job : \/ status'[k] = StatusAfter(o, StoppedFailures(j, o))[k]
                        \/ RowKept(k, j),
         queues' \in {Released(j), Removed(Released(j), j)}
  PROVE  Finalizes(j)
<1> DEFINE f == StoppedFailures(j, o)
<1>1. f \in SUBSET o.done /\ f \cap Flagged(j) = {}
  BY DEF StoppedFailures, Failures
<1>2. /\ j \in alive /\ Processes({j}, o, o.launched)
      /\ retrying' = Cancelled(retrying, o) \cup Retried(o, f)
      /\ manual' = MarksAfter(o, Flagged(j))
  BY DEF StopProcess, Bookkeep
<1>3. {j} \in SUBSET (alive \cap {j}) /\ j \in exited \cup {j}
  BY <1>2
<1> HIDE DEF f
<1> QED
  BY <1>1, <1>2, <1>3 DEF Finalizes, f

\* Handlers that stop a job if it runs finalize it or leave the processes alone.
LEMMA StopIfRunningKind ==
  ASSUME NEW j \in Job,
         \/ StopIfRunning(j)
         \/ NotStopped /\ UNCHANGED <<status, paused, queues>>
  PROVE  Finalizes(j) \/ Rests
<1>1. CASE Stop(j)
  BY <1>1, StopFinalizes DEF Stop
<1>2. CASE NotStopped /\ UNCHANGED <<status, paused, queues>>
  BY <1>2 DEF NotStopped, Rests
<1> QED
  BY <1>1, <1>2 DEF StopIfRunning

\* The daemon that goes down finalizes the jobs it kills.
LEMMA KillFinalizes ==
  ASSUME NEW j \in Job, CleanupKill(j)
  PROVE  Finalizes(j) \/ Rests
<1>1. ~Up
  BY DEF CleanupKill, Up
<1>2. CASE UNCHANGED <<procVars, rowVars, retrying, manual, queues, dlq, daemon>>
  BY <1>2 DEF Rests, rowVars
<1>3. ASSUME j \in alive, queues' = Released(j), NEW o \in FinalizeOutcome(j),
             Processes({j}, o, o.launched),
             status' = StatusAfter(o, Failures(o, o.done, manual)),
             Bookkeep(o, Failures(o, o.done, manual), manual, "down")
      PROVE  Finalizes(j)
  <2> DEFINE f == Failures(o, o.done, manual)
  <2>1. f \in SUBSET o.done /\ f \cap manual = {}
    BY DEF Failures
  <2>2. /\ retrying' = Cancelled(retrying, o) \cup Retried(o, f)
        /\ manual' = MarksAfter(o, manual)
    BY <1>3 DEF Bookkeep
  <2>3. {j} \in SUBSET (alive \cap {j}) /\ j \in exited \cup {j}
    BY <1>3
  <2> HIDE DEF f
  <2> QED
    BY <1>1, <1>3, <2>1, <2>2, <2>3 DEF Finalizes, f
<1> QED
  BY <1>2, <1>3 DEF CleanupKill

\* Every step is of one of these kinds, or a process exits.
LEMMA StepKinds ==
  ASSUME [Next]_vars
  PROVE  \/ Rests
         \/ \E j \in Job : Starts(j) \/ Finalizes(j) \/ ProcessExit(j) \/ DedupWindowEnds(j)
<1>1. CASE UNCHANGED vars
  BY <1>1 DEF vars, Rests, rowVars
<1>2. CASE \E q \in Queue : ClearPending(q)
  BY <1>2 DEF ClearPending, Rests, rowVars
<1>3. CASE ShutdownRequest \/ CleanupDeadline \/ CleanupEnds
  BY <1>3 DEF ShutdownRequest, CleanupDeadline, CleanupEnds, Rests, rowVars
<1>4. ASSUME NEW j \in Job, JobNext(j)
      PROVE  \/ Rests
             \/ Starts(j) \/ Finalizes(j) \/ ProcessExit(j) \/ DedupWindowEnds(j)
  <2>1. CASE CheckProcess(j) \/ GetJobStatus(j) \/ CleanupReap(j)
    BY <2>1, ReapFinalizes DEF CheckProcess, GetJobStatus, CleanupReap
  <2>2. CASE ProcessExit(j) \/ DedupWindowEnds(j)
    BY <2>2
  <2>3. CASE ScheduledStart(j) \/ ApiStart(j)
    <3>1. manual' = manual
      BY <2>3 DEF ScheduledStart, ApiStart
    <3>2. CASE StartJob(j, TRUE, retrying) /\ queues' = Requested(j)
      BY <3>1, <3>2 DEF Starts
    <3>3. CASE UNCHANGED <<procVars, rowVars, retrying, queues>>
      BY <3>1, <3>3 DEF Rests, rowVars
    <3> QED
      BY <2>3, <3>2, <3>3 DEF ScheduledStart, ApiStart
  <2>4. CASE RetryFires(j)
    <3>1. manual' = manual
      BY <2>4 DEF RetryFires
    <3>2. CASE StartJob(j, TRUE, retrying \ {j}) /\ queues' = Requested(j)
      <4>1. retrying \ {j} \in SUBSET retrying
        OBVIOUS
      <4> QED
        BY <3>1, <3>2, <4>1 DEF Starts
    <3>3. CASE retrying' = retrying \ {j} /\ UNCHANGED <<procVars, rowVars, queues>>
      BY <3>1, <3>3 DEF Rests, rowVars
    <3> QED
      BY <2>4, <3>2, <3>3 DEF RetryFires
  <2>5. CASE RunJob(j)
    BY <2>5 DEF RunJob, Starts
  <2>6. CASE ForceStart(j)
    <3>1. CASE StartJob(j, FALSE, retrying)
      BY <2>6, <3>1 DEF ForceStart, Starts
    <3>2. CASE UNCHANGED <<procVars, rowVars, retrying>>
      BY <2>6, <3>2 DEF ForceStart, Rests, rowVars
    <3> QED
      BY <2>6, <3>1, <3>2 DEF ForceStart
  <2>7. CASE StopJob(j) \/ DisableJob(j) \/ RevokeJob(j)
    <3>1. \/ StopIfRunning(j)
          \/ NotStopped /\ UNCHANGED <<status, paused, queues>>
      BY <2>7 DEF StopJob, DisableJob, RevokeJob, StopIfRunning
    <3> QED
      BY <3>1, StopIfRunningKind
  <2>8. CASE PauseJob(j)
    <3>1. "pause" \in Inputs
      BY <2>8 DEF PauseJob
    <3>2. CASE NotStopped /\ queues' = Removed(queues, j) /\ UNCHANGED status
      BY <3>2 DEF NotStopped, Rests
    <3>3. ASSUME NEW o \in FinalizeOutcome(j),
                 StopProcess(j, o, StoppedFailures(j, o)),
                 status' = [StatusAfter(o, StoppedFailures(j, o)) EXCEPT ![j] = status[j]],
                 queues' = Removed(Released(j), j)
          PROVE  Finalizes(j)
      <4>1. ASSUME NEW k \in Job, k # j
            PROVE  status'[k] = StatusAfter(o, StoppedFailures(j, o))[k]
        BY <3>3, <4>1 DEF StatusAfter
      <4>2. RowKept(j, j)
        BY <3>1, <3>3 DEF StatusAfter, RowKept
      <4> QED
        BY <3>3, <4>1, <4>2, StopFinalizes
    <3> QED
      BY <2>8, <3>2, <3>3 DEF PauseJob
  <2>9. CASE ResumeJob(j) \/ EnableJob(j) \/ UnrevokeJob(j)
    BY <2>9 DEF ResumeJob, EnableJob, UnrevokeJob, Rests, rowVars
  <2>10. CASE CleanupKill(j)
    BY <2>10, KillFinalizes
  <2> QED
    BY <1>4, <2>1, <2>2, <2>3, <2>4, <2>5, <2>6, <2>7, <2>8, <2>9, <2>10 DEF JobNext
<1> QED
  BY <1>1, <1>2, <1>3, <1>4 DEF Next

-----------------------------------------------------------------------------
(* What a step may never do                                                  *)

\* A launched job has passed the checks of start_job in the same step.
LEMMA LaunchedIsStartable ==
  ASSUME Consistent, [Next]_vars, NEW n \in alive' \ alive
  PROVE  n \in Job /\ Startable(n)
<1>1. CASE Rests \/ \E j \in Job : ProcessExit(j) \/ DedupWindowEnds(j)
  BY <1>1 DEF Rests, procVars, ProcessExit, DedupWindowEnds
<1>2. ASSUME NEW j \in Job, Starts(j)
      PROVE  n \in Job /\ Startable(n)
  <2>1. Startable(j)
    BY <1>2 DEF Starts, StartJob
  <2>2. CASE UNCHANGED procVars
    BY <2>2 DEF procVars
  <2>3. ASSUME NEW o \in Outcome({}, {j}), NEW slot, Processes({}, o, slot)
        PROVE  n = j
    BY <2>3, OutcomeProperties DEF Processes
  <2> QED
    BY <1>2, <2>1, <2>2, <2>3 DEF Starts, StartJob
<1>3. ASSUME NEW j \in Job, Finalizes(j)
      PROVE  n \in Job /\ Startable(n)
  <2>1. PICK gone \in SUBSET (alive \cap {j}), o \in FinalizeOutcome(j) :
          Processes(gone, o, o.launched)
    BY <1>3 DEF Finalizes
  <2>2. n \in o.launched
    BY <2>1 DEF Processes
  <2> QED
    BY <2>1, <2>2, FinalizeOutcomeProperties, ReleasedProperties
<1> QED
  BY <1>1, <1>2, <1>3, StepKinds

\* Whatever starts a job and however long it waited: it is enabled, not revoked, has
\* no handle and did not run within its dedup window in the state it is launched in.
THEOREM EligibilityAtLaunch == Spec => OnlyEligibleLaunched
<1>1. ASSUME Consistent, [Next]_vars
      PROVE  [\A j \in alive' \ alive :
                j \in enabled /\ j \notin revoked \cup Handles \cup recent]_vars
  <2>1. ASSUME NEW j \in alive' \ alive
        PROVE  j \in enabled /\ j \notin revoked \cup Handles \cup recent
    <3>1. j \in Job /\ Startable(j)
      BY <1>1, <2>1, LaunchedIsStartable
    <3> QED
      BY <1>1, <3>1, StartableIsIdle DEF Startable, Refused
  <2> QED
    BY <2>1
<1> QED
  BY <1>1, ConsistentAlways, PTL DEF Spec, OnlyEligibleLaunched

\* What stop_job ended is finalized at once, without a retry, or stays marked until it
\* is: by the poll, a request for its status or the shutdown, again without a retry.
THEOREM StopSchedulesNoRetry == Spec => NoRetryAfterStop
<1>1. ASSUME Consistent, [Next]_vars
      PROVE  [\A j \in Job : StopEnds(j) \/ j \in manual =>
                IF j \in exited' THEN j \in manual' ELSE j \notin retrying']_vars
  <2> SUFFICES ASSUME NEW k \in Job, StopEnds(k) \/ k \in manual
               PROVE  IF k \in exited' THEN k \in manual' ELSE k \notin retrying'
    OBVIOUS
  <2>1. /\ manual \subseteq exited /\ alive \cap exited = {}
        /\ k \in alive \/ k \in exited
        /\ k \notin retrying
    BY <1>1 DEF Consistent, RetryOnlyWhenIdle, MarkNotStale, Handles, LimiterAgrees, StopEnds
  <2>2. CASE Rests \/ \E j \in Job : DedupWindowEnds(j)
    BY <2>1, <2>2 DEF Rests, procVars, DedupWindowEnds, StopEnds
  <2>3. ASSUME NEW j \in Job, ProcessExit(j)
        PROVE  k \in exited' /\ k \in manual'
    BY <2>1, <2>3 DEF ProcessExit, StopEnds
  <2>4. ASSUME NEW j \in Job, Starts(j)
        PROVE  k \in exited' /\ k \in manual'
    <3>1. alive \subseteq alive' /\ exited' = exited /\ manual' = manual
      <4>1. CASE UNCHANGED procVars
        BY <2>4, <4>1 DEF Starts, procVars
      <4>2. ASSUME NEW o \in Outcome({}, {j}), NEW slot, Processes({}, o, slot)
            PROVE  alive \subseteq alive' /\ exited' = exited
        BY <4>2, OutcomeProperties DEF Processes
      <4> QED
        BY <2>4, <4>1, <4>2 DEF Starts, StartJob
    <3> QED
      BY <2>1, <3>1 DEF StopEnds
  <2>5. ASSUME NEW j \in Job, Finalizes(j)
        PROVE  IF k \in exited' THEN k \in manual' ELSE k \notin retrying'
    <3>1. PICK gone \in SUBSET (alive \cap {j}), o \in FinalizeOutcome(j), f \in SUBSET {j},
               flagged \in {manual, Flagged(j)} :
            /\ f \subseteq o.done
            /\ Processes(gone, o, o.launched)
            /\ retrying' = Cancelled(retrying, o) \cup Retried(o, f)
            /\ manual' = MarksAfter(o, flagged)
            /\ f \cap flagged = {}
            /\ Up /\ gone # {} => flagged = Flagged(j)
      BY <2>5, FinalizeOutcomeProperties DEF Finalizes
    <3>2. o.done \subseteq {j} /\ exited' = (exited \cup gone) \ o.done
      BY <3>1, FinalizeOutcomeProperties DEF Processes
    <3>3. k \in flagged
      <4>1. CASE k \in manual
        BY <3>1, <4>1 DEF Flagged
      <4>2. CASE StopEnds(k)
        <5>1. k \in gone /\ k = j /\ Up
          BY <3>1, <4>2 DEF StopEnds, Processes
        <5> QED
          BY <3>1, <5>1 DEF Flagged
      <4> QED
        BY <4>1, <4>2
    <3>4. CASE k \in exited'
      BY <3>1, <3>2, <3>3, <3>4 DEF MarksAfter
    <3>5. CASE k \notin exited'
      <4>1. k \notin f
        BY <3>1, <3>3
      <4> QED
        BY <2>1, <3>1, <3>5, <4>1 DEF Cancelled, Retried
    <3> QED
      BY <3>4, <3>5
  <2> QED
    BY <1>1, <2>2, <2>3, <2>4, <2>5, StepKinds
<1> QED
  BY <1>1, ConsistentAlways, PTL DEF Spec, NoRetryAfterStop

-----------------------------------------------------------------------------
(* The rows                                                                  *)

\* A job with a handle has a row that says RUNNING, and only such a job unless jobs
\* are paused.
RowFollows(j) ==
  /\ j \in Handles => status[j] = "RUNNING"
  /\ "pause" \notin Inputs /\ status[j] = "RUNNING" => j \in Handles

\* The row of a job follows its handle through starts, refused and queued starts,
\* exits and nested finalizations.  pause_job breaks it: it saves the row it has read
\* before it stopped the job.
LEMMA StatusStep ==
  ASSUME Consistent, NEW k \in Job, RowFollows(k), [Next]_vars
  PROVE  RowFollows(k)'
<1>1. RowFollows(k) /\ alive \cap exited = {} /\ status \in [Job -> Status]
  BY DEF Consistent, TypeOK, LimiterAgrees
<1>2. CASE Rests \/ \E j \in Job : ProcessExit(j) \/ DedupWindowEnds(j)
  BY <1>1, <1>2 DEF Rests, procVars, rowVars, ProcessExit, DedupWindowEnds, Handles, RowFollows
<1>3. ASSUME NEW j \in Job, Starts(j)
      PROVE  RowFollows(k)'
  <2>1. j \notin Handles
    BY <1>3, StartableIsIdle DEF Starts, StartJob
  <2>2. CASE status' = [status EXCEPT ![j] = "QUEUED"] /\ UNCHANGED procVars
    BY <1>1, <2>1, <2>2 DEF procVars, Handles, RowFollows
  <2>3. ASSUME NEW o \in Outcome({}, {j}), NEW slot, Processes({}, o, slot),
               status' = StatusAfter(o, {})
        PROVE  RowFollows(k)'
    <3>1. o.done = {} /\ o.launched \subseteq {j} /\ o.broken \subseteq {j} \ o.launched
      BY <2>3, OutcomeProperties
    <3> QED
      BY <1>1, <2>1, <2>3, <3>1 DEF Processes, StatusAfter, Handles, RowFollows
  <2> QED
    BY <1>3, <2>2, <2>3 DEF Starts, StartJob
<1>4. ASSUME NEW j \in Job, Finalizes(j)
      PROVE  RowFollows(k)'
  <2>1. PICK gone \in SUBSET (alive \cap {j}), o \in FinalizeOutcome(j), f \in SUBSET {j} :
          /\ f \subseteq o.done
          /\ j \in exited \cup gone
          /\ Processes(gone, o, o.launched)
          /\ status'[k] = StatusAfter(o, f)[k] \/ RowKept(k, j)
    BY <1>4, FinalizeOutcomeProperties DEF Finalizes
  <2>2. /\ o.done \subseteq {j}
        /\ o.launched \subseteq Ready(j) /\ o.broken \subseteq Ready(j)
        /\ o.launched \cap Handles = {} /\ o.broken \cap Handles = {}
    BY FinalizeOutcomeProperties, ReleasedProperties, StartableIsIdle
  <2>3. o.launched \cap o.broken = {}
    BY OutcomeProperties DEF FinalizeOutcome
  <2>4. Handles' = (Handles \ o.done) \cup o.launched
    BY <1>1, <2>1, <2>2 DEF Processes, Handles
  <2>5. StatusAfter(o, f)[k] = IF k \in o.launched THEN "RUNNING"
                    ELSE IF k \in o.broken \cup f THEN "FAILED"
                    ELSE IF k \in o.done THEN "STOPPED" ELSE status[k]
    BY DEF StatusAfter
  <2>6. CASE status'[k] = StatusAfter(o, f)[k]
    BY <1>1, <2>1, <2>2, <2>3, <2>4, <2>5, <2>6 DEF RowFollows
  <2>7. CASE RowKept(k, j)
    <3>1. k \in Handles
      BY <2>1, <2>7 DEF Handles, RowKept
    <3> QED
      BY <1>1, <2>7, <3>1 DEF RowFollows, RowKept
  <2> QED
    BY <2>1, <2>6, <2>7
<1> QED
  BY <1>2, <1>3, <1>4, StepKinds

\* Whatever is requested, pauses included, and whatever fails: the row of a job that
\* the daemon has a handle of says RUNNING.
THEOREM HandlesHaveRunningRows == Spec => [](\A j \in Handles : status[j] = "RUNNING")
<1> DEFINE Follow == \A j \in Job : RowFollows(j)
<1>1. Init => Follow
  BY DEF Init, RowFollows, Handles
<1>2. Consistent /\ Follow /\ [Next]_vars => Follow'
  BY StatusStep
<1>3. Consistent /\ Follow => \A j \in Handles : status[j] = "RUNNING"
  BY DEF RowFollows, Handles, Consistent, TypeOK
<1> QED
  BY <1>1, <1>2, <1>3, ConsistentAlways, PTL DEF Spec

\* Without requests to pause a job, the row of a job says RUNNING exactly while the
\* daemon has a handle of it.
THEOREM RowsFollowHandles ==
  ASSUME "pause" \notin Inputs
  PROVE  Spec => []StatusAgrees
<1>1. Init => StatusAgrees
  BY DEF Init, StatusAgrees, Handles
<1>2. Consistent /\ StatusAgrees /\ [Next]_vars => StatusAgrees'
  <2> SUFFICES ASSUME Consistent, StatusAgrees, [Next]_vars, NEW j \in Job
               PROVE  status'[j] = "RUNNING" <=> j \in Handles'
    BY DEF StatusAgrees
  <2>1. RowFollows(j)
    BY DEF StatusAgrees, RowFollows
  <2>2. RowFollows(j)'
    BY <2>1, StatusStep
  <2> QED
    BY <2>2 DEF RowFollows
<1> QED
  BY <1>1, <1>2, ConsistentAlways, PTL DEF Spec

-----------------------------------------------------------------------------
(* The queues implement SequentialQueue                                      *)

Untouched(q) == Inside(q)' = Inside(q) /\ queues'[q].pending = queues[q].pending

\* A step that touches no queue stutters in the abstract queues.
LEMMA MovesNone ==
  ASSUME \A q \in Queue : Untouched(q)
  PROVE  UNCHANGED Sequential!vars
BY DEF Untouched, Sequential!vars

\* SequentialQueue brings its own copies of the operators on sequences.
LEMMA SameOperators ==
  /\ \A s, i : Sequential!RemoveAt(s, i) = RemoveAt(s, i)
  /\ \A s, e : Sequential!Contains(s, e) = Contains(s, e)
BY DEF RemoveAt, Sequential!RemoveAt, Contains, Sequential!Contains

\* At most the holder of the slot is inside.
LEMMA InsideIsHolder ==
  ASSUME Consistent, NEW q \in Queue, NEW j \in Inside(q)
  PROVE  j \in Job /\ j \in alive /\ j \in slotted /\ QueueOf[j] = q /\ queues[q].running = j
BY DEF Inside, InQueue, Consistent, SlotHeld, TypeOK

\* Leaving a line: the job was not in it, or gives up its place.
LEMMA RemoveGivesUp ==
  ASSUME NEW q, NEW j
  PROVE  \/ RemoveFromQueue(q, j) = q
         \/ \E i \in 1..Len(q.pending) :
              RemoveFromQueue(q, j) = [q EXCEPT !.pending = RemoveAt(q.pending, i)]
<1>1. CASE InLine(q, j)
  <2> DEFINE i == CHOOSE i \in 1..Len(q.pending) : q.pending[i] = j
  <2>1. i \in 1..Len(q.pending)
    BY <1>1 DEF InLine, Contains
  <2>2. RemoveFromQueue(q, j) = [q EXCEPT !.pending = RemoveAt(q.pending, i)]
    BY <1>1 DEF RemoveFromQueue
  <2> HIDE DEF i
  <2> QED
    BY <2>1, <2>2
<1>2. CASE ~InLine(q, j)
  BY <1>2 DEF RemoveFromQueue
<1> QED
  BY <1>1, <1>2

\* A step that moves no process and takes a job out of its line at most.
LEMMA RemovedRefines ==
  ASSUME Consistent, NEW j \in Job, queues' = Removed(queues, j),
         \A q \in Queue : Inside(q)' = Inside(q)
  PROVE  [Sequential!Next]_(Sequential!vars)
<1>1. queues \in [Queue -> QueueState]
  BY DEF Consistent, TypeOK
<1>2. CASE QueueOf[j] = NoQueue
  <2>1. \A q \in Queue : Untouched(q)
    BY <1>2 DEF Removed, Untouched
  <2> QED
    BY <2>1, MovesNone
<1>3. CASE QueueOf[j] # NoQueue
  <2> DEFINE q0 == QueueOf[j]
  <2>1. q0 \in Queue
    BY <1>3, SupervisorAssumption
  <2>2. queues' = [queues EXCEPT ![q0] = RemoveFromQueue(queues[q0], j)]
    BY <1>3 DEF Removed
  <2>3. \A q \in Queue \ {q0} : Untouched(q)
    BY <1>1, <2>1, <2>2 DEF Untouched
  <2>4. CASE RemoveFromQueue(queues[q0], j) = queues[q0]
    <3>1. \A q \in Queue : Untouched(q)
      BY <1>1, <2>1, <2>2, <2>3, <2>4 DEF Untouched
    <3> QED
      BY <3>1, MovesNone
  <2>5. ASSUME NEW i \in 1..Len(queues[q0].pending),
               RemoveFromQueue(queues[q0], j) =
                 [queues[q0] EXCEPT !.pending = RemoveAt(queues[q0].pending, i)]
        PROVE  Sequential!Next
    <3>1. queues'[q0].pending = RemoveAt(queues[q0].pending, i)
      BY <1>1, <2>1, <2>2, <2>5 DEF QueueState
    <3>2. Inside(q0)' = Inside(q0)
      BY <2>1
    <3>3. Sequential!GiveUp(q0, i)
      BY <2>1, <2>3, <3>1, <3>2, SameOperators
         DEF Sequential!GiveUp, Sequential!Moves, Untouched
    <3> QED
      BY <2>1, <2>5, <3>3 DEF Sequential!Next, Sequential!QueueNext
  <2> QED
    BY <2>4, <2>5, RemoveGivesUp
<1> QED
  BY <1>2, <1>3

\* DELETE /queues/{name}, or nobody's line changes.
LEMMA RestsRefines ==
  ASSUME Consistent, Rests
  PROVE  [Sequential!Next]_(Sequential!vars)
<1>1. \A q \in Queue : Inside(q)' = Inside(q)
  BY DEF Rests, procVars, Inside
<1>2. CASE UNCHANGED queues
  <2>1. \A q \in Queue : Untouched(q)
    BY <1>1, <1>2 DEF Untouched
  <2> QED
    BY <2>1, MovesNone
<1>3. ASSUME NEW j \in Job, queues' = Removed(queues, j)
      PROVE  [Sequential!Next]_(Sequential!vars)
  BY <1>1, <1>3, RemovedRefines
<1>4. ASSUME NEW q0 \in Queue, ClearPending(q0)
      PROVE  Sequential!Next
  <2>1. queues \in [Queue -> QueueState]
    BY DEF Consistent, TypeOK
  <2>2. queues' = [queues EXCEPT ![q0].pending = <<>>]
    BY <1>4, <2>1 DEF ClearPending, ClearQueue
  <2>3. queues'[q0].pending = <<>> /\ \A q \in Queue \ {q0} : Untouched(q)
    BY <1>1, <2>1, <2>2 DEF Untouched, QueueState
  <2>4. Inside(q0)' = Inside(q0)
    BY <1>1
  <2>5. Sequential!Clear(q0)
    BY <2>3, <2>4 DEF Sequential!Clear, Sequential!Moves, Untouched
  <2> QED
    BY <2>5 DEF Sequential!Next, Sequential!QueueNext
<1> QED
  BY <1>2, <1>3, <1>4 DEF Rests

\* The process of the job inside exits; the slot is not free before it is finalized.
LEMMA ExitRefines ==
  ASSUME Consistent, NEW j \in Job, ProcessExit(j) \/ DedupWindowEnds(j)
  PROVE  [Sequential!Next]_(Sequential!vars)
<1>1. \A q \in Queue : queues'[q].pending = queues[q].pending
  BY DEF ProcessExit, DedupWindowEnds
<1>2. \A q \in Queue : Inside(q)' = Inside(q) \ {j} \/ Inside(q)' = Inside(q)
  BY DEF ProcessExit, DedupWindowEnds, Inside
<1>3. CASE \A q \in Queue : Inside(q)' = Inside(q)
  <2>1. \A q \in Queue : Untouched(q)
    BY <1>1, <1>3 DEF Untouched
  <2> QED
    BY <2>1, MovesNone
<1>4. ASSUME NEW q0 \in Queue, Inside(q0)' # Inside(q0)
      PROVE  Sequential!Next
  <2>1. j \in Inside(q0) /\ Inside(q0)' = Inside(q0) \ {j}
    BY <1>2, <1>4
  <2>2. Inside(q0)' = {}
    BY <2>1, InsideIsHolder
  <2>3. QueueOf[j] = q0
    BY <2>1, InsideIsHolder
  <2>4. \A q \in Queue \ {q0} : j \notin Inside(q)
    BY <2>3, InsideIsHolder
  <2>5. \A q \in Queue \ {q0} : Untouched(q)
    BY <1>1, <1>2, <2>4 DEF Untouched
  <2>6. Sequential!Exit(q0)
    BY <1>1, <2>2, <2>5 DEF Sequential!Exit, Sequential!Moves, Untouched
  <2> QED
    BY <2>6 DEF Sequential!Next, Sequential!QueueNext
<1> QED
  BY <1>3, <1>4

\* try_acquire as its line sees it: the slot is taken only if nobody waits, and
\* everybody else joins the end of the line once.
LEMMA TryAcquireLine ==
  ASSUME NEW q, WellFormedQueue(q), NEW j \in Job
  PROVE  /\ Acquires(q, j) => q.pending = <<>> /\ TryAcquire(q, j).pending = <<>>
         /\ ~Acquires(q, j) =>
              \/ TryAcquire(q, j) = q
              \/ /\ ~InLine(q, j)
                 /\ TryAcquire(q, j).pending = Append(q.pending, j)
<1>1. CASE Acquires(q, j)
  BY <1>1 DEF Acquires, TryAcquire, WellFormedQueue, QueueWF, QueueState
<1>2. CASE ~Acquires(q, j)
  BY <1>2 DEF TryAcquire, JoinLine, WellFormedQueue, QueueState
<1> QED
  BY <1>1, <1>2

\* A start through the queue enters it, joins its line, or fails; any other start
\* stays outside of it.
LEMMA StartRefines ==
  ASSUME Consistent, NEW j \in Job, Starts(j)
  PROVE  [Sequential!Next]_(Sequential!vars)
<1>1. PICK viaQueue \in BOOLEAN, retries \in SUBSET retrying :
        /\ StartJob(j, viaQueue, retries)
        /\ viaQueue => queues' = Requested(j)
        /\ ~viaQueue => queues' \in {queues, Removed(queues, j)}
  BY DEF Starts
<1> DEFINE queued == viaQueue /\ QueueOf[j] # NoQueue
           q0 == QueueOf[j]
<1>2. j \notin Handles /\ j \notin slotted
  BY <1>1, StartableIsIdle DEF StartJob, Consistent, SlotOfHandle
<1>3. queues \in [Queue -> QueueState]
  BY DEF Consistent, TypeOK
<1>4. CASE ~queued
  <2>1. \A q \in Queue : Inside(q)' = Inside(q)
    <3>1. CASE UNCHANGED procVars
      BY <3>1 DEF procVars, Inside
    <3>2. ASSUME NEW o \in Outcome({}, {j}), Processes({}, o, {})
          PROVE  \A q \in Queue : Inside(q)' = Inside(q)
      BY <1>2, <3>2, OutcomeProperties DEF Processes, Inside
    <3> QED
      BY <1>1, <1>4, <3>1, <3>2 DEF StartJob
  <2>2. queues' = queues \/ queues' = Removed(queues, j)
    BY <1>1, <1>4 DEF Requested
  <2>3. CASE queues' = queues
    <3>1. \A q \in Queue : Untouched(q)
      BY <2>1, <2>3 DEF Untouched
    <3> QED
      BY <3>1, MovesNone
  <2> QED
    BY <2>1, <2>2, <2>3, RemovedRefines
<1>5. CASE queued
  <2>1. q0 \in Queue
    BY <1>5, SupervisorAssumption
  <2>2. queues' = [queues EXCEPT ![q0] = TryAcquire(queues[q0], j)]
    BY <1>1, <1>5 DEF Requested
  <2>3. WellFormedQueue(queues[q0])
    BY <1>3, <2>1 DEF Consistent, QueuesWellFormed, WellFormed, WellFormedQueue
  <2>4. \A q \in Queue \ {q0} : queues'[q].pending = queues[q].pending
    BY <1>3, <2>1, <2>2
  <2>5. queues'[q0] = TryAcquire(queues[q0], j)
    BY <1>3, <2>1, <2>2
  <2>6. CASE ~Acquires(queues[q0], j)
    <3>1. UNCHANGED procVars
      BY <1>1, <1>5, <2>6 DEF StartJob
    <3>2. \A q \in Queue : Inside(q)' = Inside(q)
      BY <3>1 DEF procVars, Inside
    <3>3. CASE TryAcquire(queues[q0], j) = queues[q0]
      <4>1. \A q \in Queue : Untouched(q)
        BY <2>1, <2>4, <2>5, <3>2, <3>3 DEF Untouched
      <4> QED
        BY <4>1, MovesNone
    <3>4. CASE /\ ~InLine(queues[q0], j)
               /\ TryAcquire(queues[q0], j).pending = Append(queues[q0].pending, j)
      <4>1. \A q \in Queue \ {q0} : Untouched(q)
        BY <2>4, <3>2 DEF Untouched
      <4>2. j \notin Inside(q0)
        BY <1>2 DEF Inside
      <4>3. Inside(q0)' = Inside(q0)
        BY <2>1, <3>2
      <4>4. Sequential!Join(q0, j)
        <5>1. queues'[q0].pending = Append(queues[q0].pending, j)
          BY <2>5, <3>4
        <5>2. ~Sequential!Contains(queues[q0].pending, j)
          BY <3>4, SameOperators DEF InLine
        <5> QED
          BY <2>1, <4>1, <4>2, <4>3, <5>1, <5>2
             DEF Sequential!Join, Sequential!Moves, Untouched
      <4> QED
        BY <2>1, <4>4 DEF Sequential!Next, Sequential!QueueNext
    <3> QED
      BY <2>3, <2>6, <3>3, <3>4, TryAcquireLine
  <2>7. CASE Acquires(queues[q0], j)
    <3>1. PICK o \in Outcome({}, {j}) : Processes({}, o, o.launched)
      BY <1>1, <1>5, <2>7 DEF StartJob
    <3>2. o.done = {} /\ o.launched \subseteq {j}
      BY <3>1, OutcomeProperties
    <3>3. queues[q0].pending = <<>> /\ queues'[q0].pending = <<>>
      BY <2>3, <2>5, <2>7, TryAcquireLine
    <3>4. \A q \in Queue : Inside(q)' =
            IF q = q0 THEN Inside(q) \cup o.launched ELSE Inside(q)
      BY <1>2, <3>1, <3>2 DEF Processes, Inside, InQueue, Handles
    <3>5. Inside(q0) = {}
      <4>1. queues[q0].running = NoJob
        BY <2>7 DEF Acquires
      <4> QED
        BY <2>1, <4>1, InsideIsHolder, NoJobAssumption
    <3>6. CASE o.launched = {}
      <4>1. \A q \in Queue : Untouched(q)
        BY <2>4, <3>3, <3>4, <3>6 DEF Untouched
      <4> QED
        BY <4>1, MovesNone
    <3>7. CASE o.launched = {j}
      <4>1. \A q \in Queue \ {q0} : Untouched(q)
        BY <2>4, <3>4 DEF Untouched
      <4>2. Inside(q0)' = {j}
        BY <2>1, <3>4, <3>5, <3>7
      <4>3. Sequential!Enter(q0, j)
        BY <2>1, <3>3, <3>5, <4>1, <4>2
           DEF Sequential!Enter, Sequential!Moves, Untouched
      <4> QED
        BY <2>1, <4>3 DEF Sequential!Next, Sequential!QueueNext
    <3> QED
      BY <3>2, <3>6, <3>7
  <2> QED
    BY <2>6, <2>7
<1> QED
  BY <1>4, <1>5

\* The line after the end of j is recorded, and whose turn it is then.  To remove j
\* from the line a second time, as pause_job does, changes nothing.
LEMMA ReleaseLine ==
  ASSUME NEW q, WellFormedQueue(q), NEW j \in Job
  PROVE  /\ q.running # j =>
              Release(q, j) = RemoveFromQueue(q, j) /\ ReadyOnRelease(q, j) = {}
         /\ q.running = j /\ q.pending = <<>> =>
              Release(q, j).pending = <<>> /\ ReadyOnRelease(q, j) = {}
         /\ q.running = j /\ q.pending # <<>> =>
              /\ Release(q, j).pending = Tail(q.pending)
              /\ ReadyOnRelease(q, j) = {Head(q.pending)}
         /\ RemoveFromQueue(Release(q, j), j) = Release(q, j)
<1>1. q.running # j =>
        Release(q, j) = RemoveFromQueue(q, j) /\ ReadyOnRelease(q, j) = {}
  BY DEF Release, ReadyOnRelease
<1>2. q.running = j /\ q.pending = <<>> =>
        Release(q, j).pending = <<>> /\ ReadyOnRelease(q, j) = {}
  BY DEF Release, ReadyOnRelease, WellFormedQueue, QueueState
<1>3. q.running = j /\ q.pending # <<>> =>
        /\ Release(q, j).pending = Tail(q.pending)
        /\ ReadyOnRelease(q, j) = {Head(q.pending)}
  BY DEF Release, ReadyOnRelease
<1>4. ~InLine(Release(q, j), j)
  <2>1. CASE q.running # j
    BY <1>1, <2>1, RemoveKeepsWellFormed
  <2>2. CASE q.running = j
    <3>1. ~InLine(q, j)
      BY <2>2 DEF WellFormedQueue, QueueWF
    <3> QED
      BY <3>1, ReleaseKeepsWellFormed
  <2> QED
    BY <2>1, <2>2
<1>5. RemoveFromQueue(Release(q, j), j) = Release(q, j)
  BY <1>4 DEF RemoveFromQueue
<1> QED
  BY <1>1, <1>2, <1>3, <1>5

\* Finalizing the job inside lets the head of the line in or passes it over, in the
\* same step; finalizing any other job takes it out of the line at most.
LEMMA FinalizeRefines ==
  ASSUME Consistent, NEW j \in Job, Finalizes(j)
  PROVE  [Sequential!Next]_(Sequential!vars)
<1>1. PICK gone \in SUBSET (alive \cap {j}), o \in FinalizeOutcome(j) :
        /\ j \in exited \cup gone
        /\ Processes(gone, o, o.launched)
        /\ queues' \in {Released(j), Removed(Released(j), j)}
  BY DEF Finalizes
<1>2. queues \in [Queue -> QueueState] /\ WellFormed(queues)
  BY DEF Consistent, TypeOK, QueuesWellFormed
<1>3. /\ o.done \subseteq {j} /\ o.launched \subseteq Ready(j)
      /\ o.launched \subseteq Job /\ o.launched \cap Handles = {}
      /\ slotted \subseteq Handles /\ alive \cap exited = {}
  BY FinalizeOutcomeProperties, ReleasedProperties, StartableIsIdle
     DEF Consistent, SlotOfHandle, LimiterAgrees
<1>4. \A q \in Queue : Inside(q)' =
        (Inside(q) \ {j}) \cup {n \in o.launched : QueueOf[n] = q}
  <2>1. alive' \cap slotted' = ((alive \cap slotted) \ {j}) \cup o.launched
    BY <1>1, <1>3 DEF Processes, Handles
  <2> QED
    BY <1>3, <2>1 DEF Inside, InQueue
<1>5. CASE QueueOf[j] = NoQueue
  <2>1. o.launched = {} /\ \A q \in Queue : j \notin Inside(q)
    BY <1>3, <1>5, SupervisorAssumption DEF Ready, Inside, InQueue
  <2>2. queues' = queues
    BY <1>1, <1>5 DEF Released, Removed
  <2>3. \A q \in Queue : Inside(q)' = Inside(q)
    BY <1>4, <2>1
  <2>4. \A q \in Queue : Untouched(q)
    BY <2>2, <2>3 DEF Untouched
  <2> QED
    BY <2>4, MovesNone
<1>6. CASE QueueOf[j] # NoQueue
  <2> DEFINE q0 == QueueOf[j]
             new == Release(queues[q0], j)
  <2>1. q0 \in Queue
    BY <1>6, SupervisorAssumption
  <2>2. WellFormedQueue(queues[q0])
    BY <1>2, <2>1 DEF WellFormed, WellFormedQueue
  <2>3. queues' = [queues EXCEPT ![q0] = new]
    <3>1. Released(j) = [queues EXCEPT ![q0] = new]
      BY <1>6 DEF Released
    <3>2. RemoveFromQueue(new, j) = new
      BY <2>2, ReleaseLine
    <3>3. Removed(Released(j), j) = Released(j)
      BY <1>2, <1>6, <2>1, <3>1, <3>2 DEF Removed
    <3> QED
      BY <1>1, <3>1, <3>3
  <2>4. \A n \in Ready(j) : QueueOf[n] = q0
    <3>1. Ready(j) = ReadyOnRelease(queues[q0], j)
      BY <1>6 DEF Ready
    <3>2. \A n \in Ready(j) : n \in Job /\ InLine(queues[q0], n)
      BY <2>2, <3>1, ReleaseKeepsWellFormed
    <3> QED
      BY <1>2, <2>1, <3>2 DEF WellFormed
  <2>5. \A q \in Queue \ {q0} : Untouched(q)
    <3>1. \A q \in Queue \ {q0} : queues'[q].pending = queues[q].pending
      BY <1>2, <2>1, <2>3
    <3>2. \A q \in Queue \ {q0} : j \notin Inside(q)
      BY InsideIsHolder
    <3>3. ASSUME NEW q \in Queue \ {q0}
          PROVE  Inside(q)' = Inside(q)
      <4>1. {n \in o.launched : QueueOf[n] = q} = {}
        BY <1>3, <2>4
      <4>2. Inside(q)' = (Inside(q) \ {j}) \cup {n \in o.launched : QueueOf[n] = q}
        BY <1>4
      <4> QED
        BY <3>2, <4>1, <4>2
    <3> QED
      BY <3>1, <3>3 DEF Untouched
  <2>6. Inside(q0)' = (Inside(q0) \ {j}) \cup o.launched
    BY <1>3, <1>4, <2>1, <2>4
  <2>7. queues'[q0] = new
    BY <1>2, <2>1, <2>3
  <2>8. Ready(j) = ReadyOnRelease(queues[q0], j)
    BY <1>6 DEF Ready
  <2> HIDE DEF new
  <2>9. CASE queues[q0].running # j
    <3>1. Ready(j) = {} /\ new = RemoveFromQueue(queues[q0], j)
      BY <2>2, <2>8, <2>9, ReleaseLine DEF new
    <3>2. Inside(q0)' = Inside(q0)
      BY <1>3, <2>1, <2>6, <2>9, <3>1, InsideIsHolder
    <3>3. \A q \in Queue : Inside(q)' = Inside(q)
      BY <2>5, <3>2 DEF Untouched
    <3>4. queues' = Removed(queues, j)
      BY <1>6, <2>3, <3>1 DEF Removed
    <3> QED
      BY <3>3, <3>4, RemovedRefines
  <2>10. CASE queues[q0].running = j /\ queues[q0].pending = <<>>
    <3>1. Ready(j) = {} /\ new.pending = <<>>
      BY <2>2, <2>8, <2>10, ReleaseLine DEF new
    <3>2. Inside(q0)' = {}
      BY <1>3, <2>1, <2>6, <2>10, <3>1, InsideIsHolder
    <3>3. Sequential!Exit(q0)
      BY <2>1, <2>5, <2>7, <2>10, <3>1, <3>2
         DEF Sequential!Exit, Sequential!Moves, Untouched
    <3> QED
      BY <2>1, <3>3 DEF Sequential!Next, Sequential!QueueNext
  <2>11. CASE queues[q0].running = j /\ queues[q0].pending # <<>>
    <3>1. /\ Ready(j) = {Head(queues[q0].pending)}
          /\ new.pending = Tail(queues[q0].pending)
      BY <2>2, <2>8, <2>11, ReleaseLine DEF new
    <3>2. Inside(q0)' = o.launched
      BY <2>1, <2>6, <2>11, InsideIsHolder
    <3>3. o.launched \in {{}, {Head(queues[q0].pending)}}
      BY <1>3, <3>1
    <3>4. Sequential!Admit(q0)
      BY <2>1, <2>5, <2>7, <2>11, <3>1, <3>2, <3>3
         DEF Sequential!Admit, Sequential!Moves, Untouched
    <3> QED
      BY <2>1, <3>4 DEF Sequential!Next, Sequential!QueueNext
  <2> QED
    BY <2>9, <2>10, <2>11
<1> QED
  BY <1>5, <1>6

\* Every queue is a sequential queue: whatever is requested and whatever fails, a job
\* gets inside only when nobody else is, and those who wait get in in the order in
\* which they came.
THEOREM QueuesAreSequential == Spec => ImplementsSequential
<1>1. Init => Sequential!Init
  <2> SUFFICES ASSUME Init PROVE Sequential!Init
    OBVIOUS
  <2>1. \A q \in Queue : Inside(q) = {}
    BY DEF Init, Inside
  <2>2. \A q \in Queue : queues[q].pending = <<>>
    BY DEF Init, EmptyQueue
  <2> QED
    BY <2>1, <2>2 DEF Sequential!Init
<1>2. Consistent /\ [Next]_vars => [Sequential!Next]_(Sequential!vars)
  BY StepKinds, RestsRefines, StartRefines, FinalizeRefines, ExitRefines
<1> QED
  BY <1>1, <1>2, ConsistentAlways, PTL DEF Spec, ImplementsSequential, Sequential!Spec
=============================================================================
