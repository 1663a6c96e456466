---------------------------- MODULE MCSupervisor ----------------------------
(* Two jobs that share one queue.  MCRequests are the operator's requests,  *)
(* MCFaults what goes wrong around the daemon.                              *)
EXTENDS SupervisorProperties

CONSTANTS a, b, q1

MCQueueOf == [j \in Job |-> q1]
MCRequests == {"run", "force", "stop", "pause", "disable", "clear", "rate_limit"}
MCFaults == {"run", "status", "revoke", "shutdown", "spawn_error", "rate_limit"}

=============================================================================
