----------------------------- MODULE MCMcpService -----------------------------
(* Instances of McpService for TLC: one client beside the service itself. *)
EXTENDS McpService

CONSTANTS s1, n1, task, c1

MCNameOf == [s \in {s1} |-> n1]
MCPolicy == [s \in {s1} |-> [kind |-> "OnFailure", max_attempts |-> 3]]
=============================================================================
