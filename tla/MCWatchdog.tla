----------------------------- MODULE MCWatchdog -----------------------------
(* An hourly job, one that is due three times in a row and then not for      *)
(* long, and never runs, both in the local zone, and a daily one two ticks   *)
(* ahead of it.  An hour is four ticks and a day eight.                      *)
EXTENDS Watchdog, TLC

CONSTANTS h, f, d

MCSlots ==
  h :> {-12, -8, -4, 0, 4, 8, 12, 16, 20, 24}
  @@ f :> {-15, -14, -13, -7, -6, -5, 1, 2, 3, 9, 10, 11, 17, 18, 19, 25, 26, 27}
  @@ d :> {-16, -8, 0, 8, 16, 24, 32}
MCAhead == h :> 0 @@ f :> 0 @@ d :> 2
=============================================================================
