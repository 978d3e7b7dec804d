--------------------------- MODULE MCObservability ---------------------------
EXTENDS Observability, TLC

CONSTANTS http, obs, worker

MCService == {http, obs, worker}
MCPlan == <<http, obs, worker>>
MCPolicy == (http :> [kind |-> "OneShot", max_attempts |-> 0])
         @@ (obs :> [kind |-> "OneShot", max_attempts |-> 0])
         @@ (worker :> [kind |-> "OnFailure", max_attempts |-> 2])
=============================================================================
