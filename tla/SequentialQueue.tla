--------------------------- MODULE SequentialQueue ---------------------------
(***************************************************************************)
(* What an execution queue promises: "jobs in the same queue run           *)
(* sequentially" (core/supervisor.py:596), the waiting ones in the order   *)
(* in which they came.                                                     *)
(*                                                                         *)
(* A job gets inside an empty queue at once only if nobody waits; everyone *)
(* else joins the line, and only the head of the line gets in, when nobody *)
(* else remains inside.  A job may give up its place, and may be passed    *)
(* over when its turn comes (it is disabled or revoked by then), but it is *)
(* never overtaken.                                                        *)
(***************************************************************************)
EXTENDS Naturals, SequencesExt

CONSTANTS Job, Queue

VARIABLES
  inside,  \* for each queue, the jobs that run with its slot
  line     \* for each queue, the jobs that wait, in order

vars == <<inside, line>>

TypeOK ==
  /\ inside \in [Queue -> SUBSET Job]
  /\ line \in [Queue -> Seq(Job)]

Init ==
  /\ inside = [q \in Queue |-> {}]
  /\ line = [q \in Queue |-> <<>>]

Moves(q, who, waiting) ==
  /\ inside' = [inside EXCEPT ![q] = who]
  /\ line' = [line EXCEPT ![q] = waiting]

Enter(q, j) ==
  /\ inside[q] = {} /\ line[q] = <<>>
  /\ Moves(q, {j}, <<>>)

Join(q, j) ==
  /\ ~Contains(line[q], j) /\ j \notin inside[q]
  /\ Moves(q, inside[q], Append(line[q], j))

Exit(q) == Moves(q, {}, line[q])

\* The turn of the head of the line: it gets in or is passed over.
Admit(q) ==
  /\ line[q] # <<>>
  /\ \E who \in {{}, {Head(line[q])}} : Moves(q, who, Tail(line[q]))

GiveUp(q, i) == Moves(q, inside[q], RemoveAt(line[q], i))

Clear(q) == Moves(q, inside[q], <<>>)

QueueNext(q) ==
  \/ \E j \in Job : Enter(q, j) \/ Join(q, j)
  \/ \E i \in 1..Len(line[q]) : GiveUp(q, i)
  \/ Exit(q) \/ Admit(q) \/ Clear(q)

Next == \E q \in Queue : QueueNext(q)

Spec == Init /\ [][Next]_vars
=============================================================================
