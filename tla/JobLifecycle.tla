---------------------------- MODULE JobLifecycle -----------------------------
(***************************************************************************)
(* What a job store and its workers promise about each job, wherever it is *)
(* queued and whoever runs it: a job is run by one attempt at a time,      *)
(* every attempt counts against max_attempts, and a settled job never runs *)
(* again.                                                                  *)
(***************************************************************************)
EXTENDS Naturals

CONSTANTS JobId, Limit  \* jobs, and the values of max_attempts

VARIABLES status, attempt, limit

Init ==
  /\ status = [j \in JobId |-> "absent"]
  /\ attempt = [j \in JobId |-> 0]
  /\ limit = [j \in JobId |-> 0]

Accept(j) ==
  /\ status[j] = "absent"
  /\ status' = [status EXCEPT ![j] = "Pending"]
  /\ \E m \in Limit : limit' = [limit EXCEPT ![j] = m]
  /\ UNCHANGED attempt

Begin(j) == \* the first attempt, or one more that the budget allows
  /\ \/ status[j] = "Pending" /\ attempt[j] = 0
     \/ status[j] = "Retrying" /\ attempt[j] < limit[j]
  /\ status' = [status EXCEPT ![j] = "Running"]
  /\ attempt' = [attempt EXCEPT ![j] = @ + 1]
  /\ UNCHANGED limit

Settle(j, outcome) ==
  /\ status[j] = "Running"
  /\ outcome = "Retrying" => attempt[j] < limit[j]
  /\ status' = [status EXCEPT ![j] = outcome]
  /\ UNCHANGED <<attempt, limit>>

Next ==
  \E j \in JobId :
    \/ Accept(j)
    \/ Begin(j)
    \/ \E outcome \in {"Completed", "Dead", "Retrying"} : Settle(j, outcome)

Spec == Init /\ [][Next]_<<status, attempt, limit>>
=============================================================================
