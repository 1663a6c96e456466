----------------------------- MODULE MCMonitors -----------------------------
(* A service checked over HTTP, with and without alerts; tasks checked by  *)
(* their process or a file; a task with limits that kill, one throttled.   *)
EXTENDS Monitors

Checked(kind, alerting) ==
  [kind |-> kind, alerting |-> alerting, limits |-> {}, action |-> "warn"]
Limited(action, limits) ==
  [kind |-> "none", alerting |-> FALSE, limits |-> limits, action |-> action]

MCConfigs ==
  {Checked("http", FALSE), Checked("http", TRUE), Checked("process", FALSE), Checked("file", TRUE),
   Limited("kill", {"memory", "timeout"}), Limited("throttle", {"timeout"})}
=============================================================================
