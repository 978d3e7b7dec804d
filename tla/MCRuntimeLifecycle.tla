------------------------- MODULE MCRuntimeLifecycle --------------------------
(* Instances of RuntimeLifecycle for TLC. *)
EXTENDS RuntimeLifecycle, TLC

CONSTANTS a, b  \* two services, started in this order

OneShot == [kind |-> "OneShot", max_attempts |-> 0]
OnFailure(n) == [kind |-> "OnFailure", max_attempts |-> n]
Always == [kind |-> "Always", max_attempts |-> 0]

MCService == {a, b}
MCPlan == <<a, b>>

OwnNames == (a :> "A") @@ (b :> "B")
SharedName == (a :> "A") @@ (b :> "A")

FailureAndAlways == (a :> OnFailure(2)) @@ (b :> Always)
OneShotAndFailure == (a :> OneShot) @@ (b :> OnFailure(2))
=============================================================================
