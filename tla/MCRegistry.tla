------------------------------ MODULE MCRegistry ----------------------------
(* A scheduled job with operating hours and a one-shot; a file may be sound  *)
(* or not, enabled or not, and ask for the other job to complete first.  An  *)
(* update of a job may also set a timezone that is not known.                *)
EXTENDS Registry

CONSTANTS c, o

MCContent == {[on |-> TRUE, ok |-> TRUE, zone |-> TRUE, needs |-> {}],
              [on |-> TRUE, ok |-> FALSE, zone |-> TRUE, needs |-> {}],
              [on |-> TRUE, ok |-> TRUE, zone |-> TRUE, needs |-> {o}]}
=============================================================================
