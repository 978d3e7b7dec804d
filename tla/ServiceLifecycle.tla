-------------------------- MODULE ServiceLifecycle ---------------------------
(***************************************************************************)
(* What supervision promises to whoever subscribes to the lifecycle        *)
(* events: for every service, the order in which ServiceStarted,           *)
(* ServiceStopped and ServiceFailed are published, how their attempt       *)
(* numbers relate, and what will_restart may say.                          *)
(***************************************************************************)
EXTENDS Naturals

CONSTANTS Service, Policy, U32Max

VARIABLE last  \* service -> the last event published about it

NoEvent == [type |-> "none", attempt |-> 0, will_restart |-> FALSE]
Started(k) == [type |-> "ServiceStarted", attempt |-> k, will_restart |-> FALSE]
Stopped(k) == [type |-> "ServiceStopped", attempt |-> k, will_restart |-> FALSE]
Failed(k, w) == [type |-> "ServiceFailed", attempt |-> k, will_restart |-> w]

Following(k) == IF k = U32Max THEN k ELSE k + 1

\* Does the policy of s allow one more attempt after attempt k failed?
MayRetry(s, k) ==
  \/ Policy[s].kind = "Always"
  \/ Policy[s].kind = "OnFailure" /\ k < Policy[s].max_attempts

Init == last = [s \in Service |-> NoEvent]

Publish(s, e) == last' = [last EXCEPT ![s] = e]

FirstStart(s) ==
  /\ last[s] = NoEvent
  /\ Publish(s, Started(1))

\* The root task of the running attempt panicked.
Fail(s) ==
  /\ last[s].type = "ServiceStarted"
  /\ Publish(s, Failed(last[s].attempt, MayRetry(s, last[s].attempt)))

\* The root task returned.  A service whose restart failed is reported as
\* stopped as well: the watcher takes the placeholder task for a clean exit.
Stop(s) ==
  /\ \/ last[s].type = "ServiceStarted"
     \/ last[s].type = "ServiceFailed" /\ last[s].will_restart
  /\ Publish(s, Stopped(last[s].attempt))

\* A restart is under way: the last event left room for one.
Restarting(s) ==
  \/ last[s].type = "ServiceFailed" /\ last[s].will_restart
  \/ last[s].type = "ServiceStopped" /\ Policy[s].kind = "Always"

Restart(s) ==
  /\ Restarting(s)
  /\ Publish(s, Started(Following(last[s].attempt)))

FailToRestart(s) ==
  /\ Restarting(s)
  /\ LET k == Following(last[s].attempt)
     IN  Publish(s, Failed(k, MayRetry(s, k)))

Next == \E s \in Service :
          FirstStart(s) \/ Fail(s) \/ Stop(s) \/ Restart(s) \/ FailToRestart(s)

Spec == Init /\ [][Next]_last
=============================================================================
