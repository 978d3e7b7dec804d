----------------------------- MODULE MCScheduler -----------------------------
(* Instances of Scheduler for TLC. *)
EXTENDS Scheduler, TLC

CONSTANTS once, rate  \* a one-shot and a recurring schedule

MCMayTrigger == (once :> {After(1), At(1)})
                @@ (rate :> {FixedRate(2), FixedDelay(1), Cron(1)})

RetryTwice == (once :> 0) @@ (rate :> 3)

Doubling == [kind |-> "Exponential", base |-> 3, factor |-> 2, max |-> 5]
Spread == [kind |-> "ExponentialWithJitter", base |-> 1, factor |-> 3, max |-> 7,
           jitter |-> 4]
MCRetry == (once :> Doubling) @@ (rate :> Spread)
=============================================================================
