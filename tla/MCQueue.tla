------------------------------- MODULE MCQueue -------------------------------
(* Three jobs in one queue, without refusals or faults: who waits, runs.     *)
EXTENDS SupervisorProperties

CONSTANTS a, b, c, q1

MCQueueOf == [j \in Job |-> q1]
MCInputs == {"status", "stop", "force"}
=============================================================================
