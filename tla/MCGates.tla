------------------------------ MODULE MCGates ------------------------------
(* A webhook job that runs after another job has started, in this life of   *)
(* the daemon, and completed; a payload, a key.                             *)
EXTENDS Gates

CONSTANTS a, b

MCNeeds == [j \in Job |-> IF j = b THEN {a} ELSE {}]
MCAfter == MCNeeds
=============================================================================
