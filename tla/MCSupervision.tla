---------------------------- MODULE MCSupervision ----------------------------
(* Instances of Supervision for TLC. *)
EXTENDS Supervision, TLC

CONSTANTS a, b  \* two registrations

OnFailure(n) == [kind |-> "OnFailure", max_attempts |-> n]
Always == [kind |-> "Always", max_attempts |-> 0]

MCService == {a, b}

\* The same name registered twice, one registration under each restarting policy.
SharedName == (a :> "A") @@ (b :> "A")
FailureAndAlways == (a :> OnFailure(2)) @@ (b :> Always)

\* Two services with an attempt left after a restart that failed.
OwnNames == (a :> "A") @@ (b :> "B")
Failures == [s \in Service |-> OnFailure(3)]
=============================================================================
