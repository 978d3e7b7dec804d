------------------------------ MODULE Triggers -------------------------------
(***************************************************************************)
(* Trigger of walastack-runtime (scheduler.rs): when a schedule fires, as  *)
(* the sleep run_schedule asks for before the next fire.  A trigger is a   *)
(* kind and a span of time units: the duration of After, FixedDelay and    *)
(* FixedRate, for the others the farthest ahead their next fire may be.    *)
(***************************************************************************)
EXTENDS Naturals

Trigger == [kind : {"After", "At", "FixedRate", "FixedDelay", "Cron"}, span : Nat]

After(d) == [kind |-> "After", span |-> d]
At(d) == [kind |-> "At", span |-> d]
FixedRate(d) == [kind |-> "FixedRate", span |-> d]
FixedDelay(d) == [kind |-> "FixedDelay", span |-> d]
Cron(d) == [kind |-> "Cron", span |-> d]

IsOneShot(trigger) == trigger.kind \in {"After", "At"}

Monus(x, y) == IF x > y THEN x - y ELSE 0

\* CronSchedule::next_delay: the time to the next slot, and none when the
\* schedule has no further slot.
CronDelays(trigger) == 0 .. trigger.span

\* Mutant: the first fire of a FixedRate does not wait.
NextDelaysAtOnce(trigger, fired, elapsed) ==
  CASE trigger.kind \in {"After", "FixedDelay"} -> {trigger.span}
    [] trigger.kind = "At" -> 0 .. trigger.span
    [] trigger.kind = "FixedRate" ->
         {IF fired THEN Monus(trigger.span, elapsed) ELSE 0}
    [] trigger.kind = "Cron" -> CronDelays(trigger)

(* next_delay: `fired` says that there was a fire and `elapsed` how long   *)
(* ago.  The wall clock decides what is left of an At.                     *)
NextDelays(trigger, fired, elapsed) ==
  CASE trigger.kind \in {"After", "FixedDelay"} -> {trigger.span}
    [] trigger.kind = "At" -> 0 .. trigger.span
    [] trigger.kind = "FixedRate" ->
         {IF fired THEN Monus(trigger.span, elapsed) ELSE trigger.span}
    [] trigger.kind = "Cron" -> CronDelays(trigger)
=============================================================================
