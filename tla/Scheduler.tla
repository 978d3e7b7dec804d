------------------------------ MODULE Scheduler ------------------------------
(***************************************************************************)
(* The Scheduler of walastack-runtime (scheduler.rs): schedule() spawns a  *)
(* task per schedule and enters it into a map, the task fires and retries  *)
(* until it is one-shot, cancelled or aborted, and takes itself out of the *)
(* map.  Time passes by Tick; the sleep before a fire ends at its deadline *)
(* or any time later.  The sleep before a retry may end at any moment: its *)
(* length is computed from the state by RetryDelays.                       *)
(***************************************************************************)
EXTENDS Backoff, Triggers, FiniteSets

CONSTANTS
  Schedule,   \* the ids handed out by next_id
  MayTrigger, \* id -> the triggers it may be given
  Attempts,   \* id -> RetryPolicy::max_attempts, 1 without a retry policy
  Hanging,    \* those whose task function may never return, and no timeout
  Retry,      \* id -> RetryPolicy::backoff
  NoTrigger   \* that of a schedule yet to be made

ASSUME SchedulerAssumption ==
  /\ MayTrigger \in [Schedule -> SUBSET Trigger]
  /\ Hanging \subseteq Schedule
  /\ Attempts \in [Schedule -> Nat]
  /\ \A s \in Schedule : IsBackoff(Retry[s])

VARIABLES
  entry,      \* progress of the schedule() call that creates the schedule
  trigger,    \* the schedule's trigger
  task,       \* where the spawned task is
  left,       \* what is left of the sleep before the next fire
  fired,      \* is last_fire set?
  elapsed,    \* time since the last fire, since schedule() before the first
  idle,       \* time since the last fire was over (history)
  attempt,    \* attempt of the current fire
  tasks,      \* the map of active schedules (its keys)
  cancelled,  \* value of the schedule's cancel watch channel
  unseen,     \* did the channel change since the task last saw it?
  aborts,     \* tasks on which abort() was called
  last,       \* last event published about the schedule
  overrun     \* TaskFired published after the cancellation, up to 2 (history)

timeVars == <<trigger, left, fired, elapsed, idle>>
vars == <<timeVars, entry, task, attempt, tasks, cancelled, unseen, aborts, last, overrun>>

TaskEvent == {"none", "TaskFired", "TaskRetrying", "TaskCompleted", "TaskFailed"}
Over == {"done", "panicked", "aborted"}
Active(s) == task[s] \notin Over \cup {"none"}

\* `map_or(1, |r| r.max_attempts.max(1))`
MaxAttempts(s) == IF Attempts[s] = 0 THEN 1 ELSE Attempts[s]

\* Mutant: the attempt is taken for the retry index.
RetryDelaysAhead(s) == DelayFor(Retry[s], attempt[s])

\* The delays run_attempts may sleep for between this attempt and the next.
RetryDelays(s) == DelayFor(Retry[s], attempt[s] - 1)

Init ==
  /\ trigger = [s \in Schedule |-> NoTrigger]
  /\ left = [s \in Schedule |-> 0]
  /\ fired = [s \in Schedule |-> FALSE]
  /\ elapsed = [s \in Schedule |-> 0]
  /\ idle = [s \in Schedule |-> 0]
  /\ entry = [s \in Schedule |-> "idle"]
  /\ task = [s \in Schedule |-> "none"]
  /\ attempt = [s \in Schedule |-> 0]
  /\ tasks = {}
  /\ cancelled = [s \in Schedule |-> FALSE]
  /\ unseen = [s \in Schedule |-> FALSE]
  /\ aborts = {}
  /\ last = [s \in Schedule |-> "none"]
  /\ overrun = [s \in Schedule |-> 0]

Goto(s, place) == task' = [task EXCEPT ![s] = place]
Publish(s, event) == last' = [last EXCEPT ![s] = event]

-----------------------------------------------------------------------------
(* schedule(): spawn first, insert into the map after, without a lock in   *)
(* between; only then does the caller get the handle.                      *)
Spawn(s) ==
  /\ entry[s] = "idle"
  /\ entry' = [entry EXCEPT ![s] = "spawned"]
  /\ Goto(s, "looping")
  /\ \E t \in MayTrigger[s] : trigger' = [trigger EXCEPT ![s] = t]
  /\ UNCHANGED <<left, fired, elapsed, idle>>
  /\ UNCHANGED <<attempt, tasks, cancelled, unseen, aborts, last, overrun>>

Insert(s) ==
  /\ entry[s] = "spawned"
  /\ entry' = [entry EXCEPT ![s] = "inserted"]
  /\ tasks' = tasks \cup {s}
  /\ UNCHANGED <<timeVars, task, attempt, cancelled, unseen, aborts, last, overrun>>

(* ScheduleHandle::cancel.                                                 *)
Cancel(s) ==
  /\ entry[s] = "inserted"
  /\ cancelled' = [cancelled EXCEPT ![s] = TRUE]
  /\ unseen' = [unseen EXCEPT ![s] = TRUE]
  /\ UNCHANGED <<timeVars, entry, task, attempt, tasks, aborts, last, overrun>>

\* Mutant: the entries are dropped without abort().
ShutdownDetach ==
  /\ tasks # {}
  /\ tasks' = {}
  /\ UNCHANGED <<timeVars, entry, task, attempt, cancelled, unseen, aborts, last, overrun>>

(* Scheduler::shutdown: drain the map, cancelling and aborting each entry. *)
Shutdown ==
  /\ tasks # {}
  /\ tasks' = {}
  /\ cancelled' = [s \in Schedule |-> cancelled[s] \/ s \in tasks]
  /\ unseen' = [s \in Schedule |-> unseen[s] \/ s \in tasks]
  /\ aborts' = aborts \cup tasks
  /\ UNCHANGED <<timeVars, entry, task, attempt, last, overrun>>

-----------------------------------------------------------------------------
(* A clock stops at the span, and stands still where nobody reads it:      *)
(* `elapsed` matters to a FixedRate schedule, `idle` to After and          *)
(* FixedDelay between their fires.                                         *)
Between(s) ==
  /\ task[s] \in {"looping", "delaying", "firing"}
  /\ trigger[s].kind \in {"After", "FixedDelay"}

Tick ==
  LET later(clock, s) == Least(clock[s] + 1, trigger[s].span) IN
  /\ left' = [s \in Schedule |-> Monus(left[s], 1)]
  /\ elapsed' = [s \in Schedule |-> IF Active(s) /\ trigger[s].kind = "FixedRate"
                                        THEN later(elapsed, s) ELSE 0]
  /\ idle' = [s \in Schedule |->
               IF Between(s) THEN later(idle, s) ELSE 0]
  /\ UNCHANGED <<trigger, fired>>
  /\ UNCHANGED <<entry, task, attempt, tasks, cancelled, unseen, aborts, last, overrun>>

(* run_schedule: the top of its loop.                                      *)
Loop(s) ==
  /\ task[s] = "looping"
  /\ \E d \in NextDelays(trigger[s], fired[s], elapsed[s]) : left' = [left EXCEPT ![s] = d]
  /\ Goto(s, "delaying")
  /\ UNCHANGED <<trigger, fired, elapsed, idle>>
  /\ UNCHANGED <<entry, attempt, tasks, cancelled, unseen, aborts, last, overrun>>

\* Mutant: only the select looks for a cancellation.
DelayElapsedUnchecked(s) ==
  /\ task[s] = "delaying" /\ left[s] = 0
  /\ Goto(s, "firing")
  /\ UNCHANGED <<timeVars, entry, attempt, tasks, cancelled, unseen, aborts, last, overrun>>

(* The sleep is over; a cancelled schedule returns.                        *)
DelayElapsed(s) ==
  /\ task[s] = "delaying" /\ left[s] = 0
  /\ Goto(s, IF cancelled[s] THEN "leaving" ELSE "firing")
  /\ UNCHANGED <<timeVars, entry, attempt, tasks, cancelled, unseen, aborts, last, overrun>>

DelayCancelled(s) ==
  /\ task[s] = "delaying"
  /\ unseen[s]
  /\ unseen' = [unseen EXCEPT ![s] = FALSE]
  /\ left' = [left EXCEPT ![s] = 0]
  /\ Goto(s, "leaving")
  /\ UNCHANGED <<trigger, fired, elapsed, idle, entry, attempt, tasks, cancelled, aborts, last, overrun>>

Fire(s) ==
  /\ task[s] = "firing"
  /\ Publish(s, "TaskFired")
  /\ attempt' = [attempt EXCEPT ![s] = 1]
  /\ overrun' = [overrun EXCEPT ![s] = IF cancelled[s] /\ @ < 2 THEN @ + 1 ELSE @]
  /\ fired' = [fired EXCEPT ![s] = TRUE]
  /\ elapsed' = [elapsed EXCEPT ![s] = 0]
  /\ Goto(s, "attempting")
  /\ UNCHANGED <<trigger, left, idle>>
  /\ UNCHANGED <<entry, tasks, cancelled, unseen, aborts>>

\* run_attempts returned to run_schedule.
AfterFire(s) ==
  /\ Goto(s, IF IsOneShot(trigger[s]) THEN "leaving" ELSE "looping")
  /\ idle' = [idle EXCEPT ![s] = 0]
  /\ UNCHANGED <<trigger, left, fired, elapsed>>

(* run_attempts: the test of the cancel flag before every attempt.         *)
Attempt(s) ==
  /\ task[s] = "attempting"
  /\ IF cancelled[s] THEN AfterFire(s) ELSE Goto(s, "running") /\ UNCHANGED timeVars
  /\ UNCHANGED <<entry, attempt, tasks, cancelled, unseen, aborts, last, overrun>>

RunOk(s) ==
  /\ task[s] = "running"
  /\ Publish(s, "TaskCompleted")
  /\ AfterFire(s)
  /\ UNCHANGED <<entry, attempt, tasks, cancelled, unseen, aborts, overrun>>

\* The attempt failed or timed out and another one is left.
RunRetry(s) ==
  /\ task[s] = "running"
  /\ attempt[s] < MaxAttempts(s)
  /\ Publish(s, "TaskRetrying")
  /\ Goto(s, "backoff")
  /\ UNCHANGED <<timeVars, entry, attempt, tasks, cancelled, unseen, aborts, overrun>>

\* The last attempt failed or timed out.
RunFail(s) ==
  /\ task[s] = "running"
  /\ attempt[s] >= MaxAttempts(s)
  /\ Publish(s, "TaskFailed")
  /\ AfterFire(s)
  /\ UNCHANGED <<entry, attempt, tasks, cancelled, unseen, aborts, overrun>>

(* The task function panics: the spawned task dies before it can leave the *)
(* map.                                                                    *)
RunPanic(s) ==
  /\ task[s] = "running"
  /\ Goto(s, "panicked")
  /\ UNCHANGED <<timeVars, entry, attempt, tasks, cancelled, unseen, aborts, last, overrun>>

BackoffElapsed(s) ==
  /\ task[s] = "backoff"
  /\ attempt' = [attempt EXCEPT ![s] = @ + 1]
  /\ Goto(s, "attempting")
  /\ UNCHANGED <<timeVars, entry, tasks, cancelled, unseen, aborts, last, overrun>>

(* The cancellation ends the backoff and is thereby seen: a recurring      *)
(* schedule goes back to its delay, where changed() stays silent.          *)
BackoffCancelled(s) ==
  /\ task[s] = "backoff"
  /\ unseen[s]
  /\ unseen' = [unseen EXCEPT ![s] = FALSE]
  /\ AfterFire(s)
  /\ UNCHANGED <<entry, attempt, tasks, cancelled, aborts, last, overrun>>

(* The spawned task takes its id out of the map.                           *)
Leave(s) ==
  /\ task[s] = "leaving"
  /\ tasks' = tasks \ {s}
  /\ Goto(s, "done")
  /\ UNCHANGED <<timeVars, entry, attempt, cancelled, unseen, aborts, last, overrun>>

\* Mutant: a running task function is awaited.
AbortedIdle(s) ==
  /\ s \in aborts
  /\ task[s] \in {"delaying", "backoff"}
  /\ Goto(s, "aborted")
  /\ UNCHANGED <<timeVars, entry, attempt, tasks, cancelled, unseen, aborts, last, overrun>>

(* An aborted task is cancelled at its next await point.                   *)
Aborted(s) ==
  /\ s \in aborts
  /\ task[s] \in {"delaying", "running", "backoff"}
  /\ Goto(s, "aborted")
  /\ UNCHANGED <<timeVars, entry, attempt, tasks, cancelled, unseen, aborts, last, overrun>>

-----------------------------------------------------------------------------
Step(s) == \* the steps of the spawned task that are not up to its function
  \/ Loop(s) \/ DelayElapsed(s) \/ DelayCancelled(s) \/ Fire(s) \/ Attempt(s)
  \/ BackoffElapsed(s) \/ BackoffCancelled(s) \/ Leave(s)

Run(s) == RunOk(s) \/ RunRetry(s) \/ RunFail(s) \/ RunPanic(s)

Next ==
  \/ \E s \in Schedule :
       \/ Spawn(s) \/ Insert(s) \/ Cancel(s)
       \/ Step(s) \/ Run(s) \/ Aborted(s)
  \/ Shutdown \/ Tick

Spec == Init /\ [][Next]_vars

(* Time passes, timers fire, the executor runs spawned tasks, and task functions other  *)
(* than the hanging ones return, fail, time out or panic.  Nothing makes   *)
(* anybody schedule, cancel or shut down.                                  *)
Fairness ==
  /\ WF_vars(Tick)
  /\ \A s \in Schedule : WF_vars(Step(s)) /\ WF_vars(Aborted(s))
  /\ \A s \in Schedule \ Hanging : WF_vars(Run(s))

FairSpec == Spec /\ Fairness

-----------------------------------------------------------------------------
(* Every variable has its type. *)
TypeOK ==
  /\ entry \in [Schedule -> {"idle", "spawned", "inserted"}]
  /\ trigger \in [Schedule -> {NoTrigger} \cup UNION {MayTrigger[s] : s \in Schedule}]
  /\ fired \in [Schedule -> BOOLEAN]
  /\ \A clock \in {left, elapsed, idle} : clock \in [Schedule -> Nat]
  /\ task \in [Schedule -> {"none", "looping", "delaying", "firing", "attempting", "running",
                            "backoff", "leaving"} \cup Over]
  /\ attempt \in [Schedule -> Nat]
  /\ tasks \subseteq Schedule
  /\ cancelled \in [Schedule -> BOOLEAN]
  /\ unseen \in [Schedule -> BOOLEAN]
  /\ aborts \subseteq Schedule
  /\ last \in [Schedule -> TaskEvent]
  /\ overrun \in [Schedule -> 0 .. 2]

(* No schedule fires before its time: a FixedRate one not twice within its *)
(* period, however late it is and whatever its function takes, so that no  *)
(* fires are queued up; a FixedDelay one not before it has rested since    *)
(* the end of its last fire, retries and all (Trigger's doc).  Nor does it *)
(* retry too early or too late: the first retry waits for the initial      *)
(* delay of its backoff, no later one for less, none for more than the cap *)
(* and the jitter on it, as long as the attempt fits an i32 (Backoff's).   *)
FireInTime(s) ==
  CASE trigger[s].kind = "FixedRate" -> elapsed[s] >= trigger[s].span
    [] trigger[s].kind \in {"After", "FixedDelay"} -> idle[s] >= trigger[s].span
    [] OTHER -> TRUE
FirstDelay(backoff) ==
  IF backoff.kind = "Linear" THEN backoff.base ELSE Least(backoff.base, backoff.max)
LongestDelay(backoff) ==
  IF backoff.kind = "Linear" THEN MaxNanos ELSE 2 * backoff.max
RetryInTime(s) ==
  LET first == FirstDelay(Retry[s])
  IN  FitsSigned(attempt[s] - 1) =>
        /\ \A d \in RetryDelays(s) : first <= d /\ d <= LongestDelay(Retry[s])
        /\ attempt[s] = 1 => first \in RetryDelays(s)
Paced ==
  [][\A s \in Schedule : /\ Fire(s) => FireInTime(s)
                         /\ BackoffElapsed(s) => RetryInTime(s)]_vars

(* Cancelling suppresses subsequent fires, except the one whose task had   *)
(* already read the flag.                                                  *)
CancelSuppresses == \A s \in Schedule : overrun[s] <= 1

(* shutdown() can reach every live schedule whose schedule() call is over: *)
(* it is in the map, unless an earlier shutdown() aborted it.              *)
ActiveIsPending ==
  \A s \in Schedule :
    entry[s] = "inserted" /\ Active(s) => s \in tasks \cup aborts

Sound == TypeOK /\ ActiveIsPending

(* A cancelled schedule ends, even when a backoff consumed the             *)
(* notification, provided its function returns.                            *)
CancelEnds == \A s \in Schedule \ Hanging : cancelled[s] ~> task[s] \in Over

(* shutdown() ends every schedule it found in the map, even one whose      *)
(* function hangs.                                                         *)
ShutdownEnds == \A s \in Schedule : s \in aborts ~> task[s] \in Over

=============================================================================
