--------------------------- MODULE MCHealingQueue ---------------------------
(* Two runs of job x and one of job y.                                      *)
EXTENDS HealingQueue

CONSTANTS r1, r2, r3, x, y

MCJobOf == [r \in RunId |-> IF r = r3 THEN y ELSE x]
=============================================================================
