--------------------------- MODULE SchedulerProofs ----------------------------
(***************************************************************************)
(* Proofs about the Scheduler for any schedules, triggers and retries:     *)
(* shutdown can reach what is active, at most one fire follows a           *)
(* cancellation, and fires and retries keep their pace.  The second rests  *)
(* on OneLate: a schedule that fired after its cancellation is past the    *)
(* place where the flag is not looked at.  That no fire comes early rests  *)
(* on OnTime: a sleep outlasts what its trigger still has to wait; that    *)
(* retries are in time on what the powers of the backoff's factor are,     *)
(* which is proved by Descent.                                             *)
(***************************************************************************)
EXTENDS Scheduler, WellFoundedInduction, TLAPS

Given == \A s \in Schedule : task[s] # "none" => trigger[s] \in Trigger

OneLate == \A s \in Schedule :
  overrun[s] # 0 => overrun[s] = 1 /\ cancelled[s] /\ task[s] # "firing"

IInv == TypeOK /\ Given /\ ActiveIsPending /\ OneLate

Places == {"none", "looping", "delaying", "firing", "attempting", "running",
           "backoff", "leaving"} \cup Over

-----------------------------------------------------------------------------
(* The sleeps and the clocks are natural numbers. *)

LEMMA DelaysAreNatural ==
  ASSUME NEW t \in Trigger, NEW f, NEW e \in Nat, NEW d \in NextDelays(t, f, e)
  PROVE  d \in Nat
<1>1. t.span \in Nat /\ t.kind \in {"After", "At", "FixedRate", "FixedDelay", "Cron"}
  BY DEF Trigger
<1>2. CASE t.kind = "FixedRate"
  <2>1. d \in {Monus(t.span, e), t.span}
    BY <1>2 DEF NextDelays
  <2>. QED
    BY <1>1, <2>1 DEF Monus
<1>3. CASE t.kind \in {"After", "FixedDelay"}
  BY <1>1, <1>3 DEF NextDelays
<1>4. CASE t.kind \in {"At", "Cron"}
  <2>1. d \in 0 .. t.span
    BY <1>4 DEF NextDelays, CronDelays
  <2>. QED
    BY <1>1, <2>1
<1>. QED
  BY <1>1, <1>2, <1>3, <1>4

LEMMA TickTyped ==
  ASSUME IInv, Tick
  PROVE  /\ left' \in [Schedule -> Nat] /\ elapsed' \in [Schedule -> Nat]
         /\ idle' \in [Schedule -> Nat]
<1>1. /\ left \in [Schedule -> Nat] /\ elapsed \in [Schedule -> Nat] /\ idle \in [Schedule -> Nat]
  BY DEF IInv, TypeOK
<1>2. \A s \in Schedule : task[s] # "none" => trigger[s].span \in Nat
  BY DEF IInv, Given, Trigger
<1>3. left' \in [Schedule -> Nat]
  <2>1. \A s \in Schedule : Monus(left[s], 1) \in Nat
    BY <1>1 DEF Monus
  <2>. QED
    BY <2>1 DEF Tick
<1>4. elapsed' \in [Schedule -> Nat]
  <2>1. \A s \in Schedule : Active(s) => Least(elapsed[s] + 1, trigger[s].span) \in Nat
    BY <1>1, <1>2 DEF Least, Active
  <2>. QED
    BY <2>1 DEF Tick
<1>5. idle' \in [Schedule -> Nat]
  <2>1. \A s \in Schedule : Between(s) => Least(idle[s] + 1, trigger[s].span) \in Nat
    BY <1>1, <1>2 DEF Least, Between
  <2>. QED
    BY <2>1 DEF Tick
<1>. QED
  BY <1>3, <1>4, <1>5

-----------------------------------------------------------------------------
(* Each conjunct over the steps that may disturb it. *)

\* The end of a fire keeps the clocks and the place of the task typed.
LEMMA AfterFireTyped ==
  ASSUME IInv, NEW s \in Schedule, AfterFire(s)
  PROVE  /\ task' \in [Schedule -> Places] /\ task'[s] \in {"leaving", "looping"}
         /\ idle' \in [Schedule -> Nat]
         /\ UNCHANGED <<trigger, left, fired, elapsed>>
<1>1. PICK place \in {"leaving", "looping"} : task' = [task EXCEPT ![s] = place]
  BY DEF AfterFire, Goto
<1>. QED
  BY <1>1 DEF AfterFire, IInv, TypeOK, Places

LEMMA TypeStep ==
  ASSUME IInv, [Next]_vars
  PROVE  TypeOK'
<1>. USE DEF TaskEvent
<1>1. /\ entry \in [Schedule -> {"idle", "spawned", "inserted"}]
      /\ trigger \in [Schedule -> {NoTrigger} \cup UNION {MayTrigger[s] : s \in Schedule}]
      /\ fired \in [Schedule -> BOOLEAN]
      /\ left \in [Schedule -> Nat] /\ elapsed \in [Schedule -> Nat] /\ idle \in [Schedule -> Nat]
      /\ task \in [Schedule -> Places]
      /\ attempt \in [Schedule -> Nat]
      /\ tasks \subseteq Schedule /\ aborts \subseteq Schedule
      /\ cancelled \in [Schedule -> BOOLEAN] /\ unseen \in [Schedule -> BOOLEAN]
      /\ last \in [Schedule -> TaskEvent]
      /\ overrun \in [Schedule -> 0 .. 2]
  BY DEF IInv, TypeOK, Places
<1>2. CASE Tick
  BY <1>1, <1>2, TickTyped DEF Tick, TypeOK, Places
<1>3. CASE Shutdown
  BY <1>1, <1>3 DEF Shutdown, timeVars, TypeOK, Places
<1>4. CASE UNCHANGED vars
  BY <1>1, <1>4 DEF vars, timeVars, TypeOK, Places
<1>5. ASSUME NEW s \in Schedule, Spawn(s) PROVE TypeOK'
  <2>1. PICK t \in MayTrigger[s] : trigger' = [trigger EXCEPT ![s] = t]
    BY <1>5 DEF Spawn
  <2>2. t \in UNION {MayTrigger[x] : x \in Schedule}
    OBVIOUS
  <2>. QED
    BY <1>1, <1>5, <2>1, <2>2 DEF Spawn, Goto, TypeOK, Places
<1>6. ASSUME NEW s \in Schedule, Insert(s) \/ Cancel(s) PROVE TypeOK'
  BY <1>1, <1>6 DEF Insert, Cancel, timeVars, TypeOK, Places
<1>7. ASSUME NEW s \in Schedule, Loop(s) PROVE TypeOK'
  <2>1. trigger[s] \in Trigger /\ elapsed[s] \in Nat
    BY <1>1, <1>7 DEF Loop, IInv, Given
  <2>2. PICK d \in NextDelays(trigger[s], fired[s], elapsed[s]) : left' = [left EXCEPT ![s] = d]
    BY <1>7 DEF Loop
  <2>3. d \in Nat
    BY <2>1, <2>2, DelaysAreNatural
  <2>. QED
    BY <1>1, <1>7, <2>2, <2>3 DEF Loop, Goto, TypeOK, Places
<1>8. ASSUME NEW s \in Schedule,
             DelayElapsed(s) \/ DelayCancelled(s) \/ RunRetry(s) \/ RunPanic(s)
             \/ BackoffElapsed(s) \/ Leave(s) \/ Aborted(s)
      PROVE  TypeOK'
  <2>1. PICK place \in Places : task' = [task EXCEPT ![s] = place]
    BY <1>8 DEF DelayElapsed, DelayCancelled, RunRetry, RunPanic, BackoffElapsed, Leave,
                Aborted, Goto, Places, Over
  <2>2. task' \in [Schedule -> Places]
    BY <1>1, <2>1
  <2>3. /\ UNCHANGED <<entry, trigger, fired, elapsed, idle, cancelled, aborts, overrun>>
        /\ left' \in {left, [left EXCEPT ![s] = 0]}
        /\ unseen' \in {unseen, [unseen EXCEPT ![s] = FALSE]}
        /\ tasks' \subseteq tasks
        /\ attempt' \in {attempt, [attempt EXCEPT ![s] = attempt[s] + 1]}
        /\ last' \in {last, [last EXCEPT ![s] = "TaskRetrying"]}
    BY <1>8 DEF DelayElapsed, DelayCancelled, RunRetry, RunPanic, BackoffElapsed, Leave,
                Aborted, Publish, timeVars
  <2>4. left' \in [Schedule -> Nat]
    BY <1>1, <2>3
  <2>5. unseen' \in [Schedule -> BOOLEAN]
    BY <1>1, <2>3
  <2>6. attempt' \in [Schedule -> Nat]
    BY <1>1, <2>3
  <2>7. last' \in [Schedule -> TaskEvent]
    BY <1>1, <2>3
  <2>. QED
    BY <1>1, <2>2, <2>3, <2>4, <2>5, <2>6, <2>7 DEF TypeOK, Places
<1>9. ASSUME NEW s \in Schedule, Fire(s) PROVE TypeOK'
  <2>1. task' \in [Schedule -> Places]
    BY <1>1, <1>9 DEF Fire, Goto, Places
  <2>2. overrun' \in [Schedule -> 0 .. 2]
    BY <1>1, <1>9 DEF Fire
  <2>. QED
    BY <1>1, <1>9, <2>1, <2>2 DEF Fire, Publish, TypeOK, Places
<1>10. ASSUME NEW s \in Schedule, Attempt(s) PROVE TypeOK'
  <2>1. CASE AfterFire(s)
    BY <1>1, <1>10, <2>1, AfterFireTyped DEF Attempt, TypeOK, Places
  <2>2. CASE Goto(s, "running") /\ UNCHANGED timeVars
    BY <1>1, <1>10, <2>2 DEF Attempt, Goto, timeVars, TypeOK, Places
  <2>. QED
    BY <1>10, <2>1, <2>2 DEF Attempt
<1>11. ASSUME NEW s \in Schedule, RunOk(s) \/ RunFail(s) \/ BackoffCancelled(s) PROVE TypeOK'
  <2>1. AfterFire(s)
    BY <1>11 DEF RunOk, RunFail, BackoffCancelled
  <2>2. /\ UNCHANGED <<entry, attempt, tasks, cancelled, aborts, overrun>>
        /\ unseen' \in {unseen, [unseen EXCEPT ![s] = FALSE]}
        /\ \/ last' = last
           \/ \E event \in TaskEvent : last' = [last EXCEPT ![s] = event]
    BY <1>11 DEF RunOk, RunFail, BackoffCancelled, Publish
  <2>3. unseen' \in [Schedule -> BOOLEAN] /\ last' \in [Schedule -> TaskEvent]
    BY <1>1, <2>2
  <2>. QED
    BY <1>1, <2>1, <2>2, <2>3, AfterFireTyped DEF TypeOK, Places
<1>. QED
  BY <1>2, <1>3, <1>4, <1>5, <1>6, <1>7, <1>8, <1>9, <1>10, <1>11 DEF Next, Step, Run

\* A trigger is chosen when the task is spawned, and stays.
LEMMA GivenStep ==
  ASSUME IInv, [Next]_vars
  PROVE  Given'
<1>1. ASSUME NEW s \in Schedule, Spawn(s) PROVE Given'
  <2>1. PICK t \in MayTrigger[s] : trigger' = [trigger EXCEPT ![s] = t]
    BY <1>1 DEF Spawn
  <2>2. t \in Trigger
    BY SchedulerAssumption
  <2>3. task' = [task EXCEPT ![s] = "looping"]
    BY <1>1 DEF Spawn, Goto
  <2>. QED
    BY <2>1, <2>2, <2>3 DEF Given, IInv, TypeOK
<1>2. ASSUME NEW s \in Schedule, Step(s) \/ Run(s) \/ Aborted(s) PROVE Given'
  <2>1. task[s] # "none" /\ trigger' = trigger
    BY <1>2 DEF Step, Run, Loop, DelayElapsed, DelayCancelled, Fire, Attempt, AfterFire,
                BackoffElapsed, BackoffCancelled, Leave, RunOk, RunRetry, RunFail, RunPanic,
                Aborted, timeVars
  <2>2. \A x \in Schedule \ {s} : task'[x] = task[x]
    BY <1>2 DEF Step, Run, Loop, DelayElapsed, DelayCancelled, Fire, Attempt, AfterFire,
                BackoffElapsed, BackoffCancelled, Leave, RunOk, RunRetry, RunFail, RunPanic,
                Aborted, Goto, IInv, TypeOK
  <2>. QED
    BY <2>1, <2>2 DEF Given, IInv
<1>3. ASSUME NEW s \in Schedule, Insert(s) \/ Cancel(s) PROVE Given'
  BY <1>3 DEF Insert, Cancel, timeVars, Given, IInv
<1>4. CASE Shutdown \/ Tick \/ UNCHANGED vars
  BY <1>4 DEF Shutdown, Tick, vars, timeVars, Given, IInv
<1>. QED
  BY <1>1, <1>2, <1>3, <1>4 DEF Next

\* A live task is in the map, or was in it at a shutdown.
LEMMA ActiveStep ==
  ASSUME IInv, [Next]_vars
  PROVE  ActiveIsPending'
<1>1. ASSUME NEW s \in Schedule, Spawn(s) PROVE ActiveIsPending'
  <2>1. /\ entry' = [entry EXCEPT ![s] = "spawned"] /\ task' = [task EXCEPT ![s] = "looping"]
        /\ tasks' = tasks /\ aborts' = aborts
    BY <1>1 DEF Spawn, Goto
  <2>. QED
    BY <2>1 DEF ActiveIsPending, Active, IInv, TypeOK
<1>2. ASSUME NEW s \in Schedule, Insert(s) PROVE ActiveIsPending'
  BY <1>2 DEF Insert, timeVars, ActiveIsPending, Active, IInv, TypeOK
<1>3. ASSUME NEW s \in Schedule, Cancel(s) PROVE ActiveIsPending'
  BY <1>3 DEF Cancel, timeVars, ActiveIsPending, Active, IInv
<1>4. ASSUME NEW s \in Schedule, Leave(s) PROVE ActiveIsPending'
  <2>1. task' = [task EXCEPT ![s] = "done"] /\ tasks' = tasks \ {s}
        /\ UNCHANGED <<entry, aborts>>
    BY <1>4 DEF Leave, Goto
  <2>. QED
    BY <2>1 DEF ActiveIsPending, Active, Over, IInv, TypeOK
<1>5. ASSUME NEW s \in Schedule,
             Loop(s) \/ DelayElapsed(s) \/ DelayCancelled(s) \/ Fire(s) \/ Attempt(s)
             \/ BackoffElapsed(s) \/ BackoffCancelled(s) \/ Run(s) \/ Aborted(s)
      PROVE  ActiveIsPending'
  <2>1. /\ UNCHANGED <<entry, tasks, aborts>>
        /\ task[s] \notin Over \cup {"none"}
    BY <1>5 DEF Loop, DelayElapsed, DelayCancelled, Fire, Attempt, BackoffElapsed,
                BackoffCancelled, Run, RunOk, RunRetry, RunFail, RunPanic, Aborted, Over
  <2>2. \A x \in Schedule \ {s} : task'[x] = task[x]
    BY <1>5 DEF Loop, DelayElapsed, DelayCancelled, Fire, Attempt, AfterFire, BackoffElapsed,
                BackoffCancelled, Run, RunOk, RunRetry, RunFail, RunPanic, Aborted, Goto,
                IInv, TypeOK
  <2>. QED
    BY <2>1, <2>2 DEF ActiveIsPending, Active, IInv
<1>6. CASE Shutdown \/ Tick \/ UNCHANGED vars
  BY <1>6 DEF Shutdown, Tick, vars, timeVars, ActiveIsPending, Active, IInv
<1>. QED
  BY <1>1, <1>2, <1>3, <1>4, <1>5, <1>6 DEF Next, Step

\* Who fired late is cancelled, so the next delay is its last stop.
LEMMA LateStep ==
  ASSUME IInv, [Next]_vars
  PROVE  OneLate'
<1>1. ASSUME NEW s \in Schedule, Fire(s) PROVE OneLate'
  <2>1. /\ task[s] = "firing" /\ task' = [task EXCEPT ![s] = "attempting"]
        /\ cancelled' = cancelled
        /\ overrun' = [overrun EXCEPT ![s] =
                         IF cancelled[s] /\ overrun[s] < 2 THEN overrun[s] + 1 ELSE overrun[s]]
    BY <1>1 DEF Fire, Goto
  <2>2. overrun[s] = 0
    BY <2>1 DEF IInv, OneLate
  <2>3. overrun'[s] # 0 => overrun'[s] = 1 /\ cancelled[s]
    BY <2>1, <2>2 DEF IInv, TypeOK
  <2>4. task'[s] = "attempting"
    BY <2>1 DEF IInv, TypeOK
  <2>5. \A x \in Schedule \ {s} : overrun'[x] = overrun[x] /\ task'[x] = task[x]
    BY <2>1 DEF IInv, TypeOK
  <2>. QED
    BY <2>1, <2>3, <2>4, <2>5 DEF IInv, OneLate
<1>2. ASSUME NEW s \in Schedule, DelayElapsed(s) PROVE OneLate'
  <2>1. /\ task' = [task EXCEPT ![s] = IF cancelled[s] THEN "leaving" ELSE "firing"]
        /\ UNCHANGED <<cancelled, overrun>>
    BY <1>2 DEF DelayElapsed, Goto
  <2>. QED
    BY <2>1 DEF IInv, OneLate, TypeOK
<1>3. ASSUME NEW s \in Schedule,
             Spawn(s) \/ Loop(s) \/ DelayCancelled(s) \/ Attempt(s) \/ BackoffElapsed(s)
             \/ BackoffCancelled(s) \/ Leave(s) \/ Run(s) \/ Aborted(s)
      PROVE  OneLate'
  <2>1. /\ UNCHANGED <<cancelled, overrun>>
        /\ \E place \in Places \ {"firing"} : task' = [task EXCEPT ![s] = place]
    BY <1>3 DEF Spawn, Loop, DelayCancelled, Attempt, AfterFire, BackoffElapsed,
                BackoffCancelled, Leave, Run, RunOk, RunRetry, RunFail, RunPanic, Aborted,
                Goto, Places, Over
  <2>. QED
    BY <2>1 DEF IInv, OneLate, TypeOK
<1>4. ASSUME NEW s \in Schedule, Insert(s) \/ Cancel(s) PROVE OneLate'
  BY <1>4 DEF Insert, Cancel, timeVars, IInv, OneLate, TypeOK
<1>5. CASE Shutdown \/ Tick \/ UNCHANGED vars
  BY <1>5 DEF Shutdown, Tick, vars, timeVars, IInv, OneLate, TypeOK
<1>. QED
  BY <1>1, <1>2, <1>3, <1>4, <1>5 DEF Next, Step

-----------------------------------------------------------------------------
(* No fire comes early: what is left of the sleep, added to what the clock *)
(* of the trigger shows already, never falls below its span.               *)

Due(s) ==
  LET t == trigger[s]
  IN  /\ task[s] = "firing" => FireInTime(s)
      /\ task[s] = "delaying" =>
           /\ t.kind = "FixedRate" => elapsed[s] + left[s] >= t.span
           /\ t.kind \in {"After", "FixedDelay"} => idle[s] + left[s] >= t.span

OnTime == \A s \in Schedule : Due(s)

\* A sleep that starts is long enough.
LEMMA DelayIsLongEnough ==
  ASSUME NEW t \in Trigger, NEW f \in BOOLEAN, NEW e \in Nat, NEW i \in Nat,
         NEW d \in NextDelays(t, f, e)
  PROVE  /\ t.kind = "FixedRate" => e + d >= t.span
         /\ t.kind \in {"After", "FixedDelay"} => i + d >= t.span
<1>1. t.span \in Nat
  BY DEF Trigger
<1>2. CASE t.kind = "FixedRate"
  <2>1. d = IF f THEN Monus(t.span, e) ELSE t.span
    BY <1>2 DEF NextDelays
  <2>. QED
    BY <1>1, <1>2, <2>1 DEF Monus
<1>3. CASE t.kind \in {"After", "FixedDelay"}
  <2>1. d = t.span
    BY <1>3 DEF NextDelays
  <2>. QED
    BY <1>1, <1>3, <2>1
<1>. QED
  BY <1>2, <1>3

\* A clock that is advanced makes up for what the sleep loses.
LEMMA ClockMakesUp ==
  ASSUME NEW span \in Nat, NEW clock \in Nat, NEW l \in Nat
  PROVE  /\ clock + l >= span => Least(clock + 1, span) + Monus(l, 1) >= span
         /\ clock >= span => Least(clock + 1, span) >= span
  BY DEF Least, Monus

LEMMA DueTicks ==
  ASSUME IInv, OnTime, Tick
  PROVE  OnTime'
<1>1. /\ left \in [Schedule -> Nat] /\ elapsed \in [Schedule -> Nat] /\ idle \in [Schedule -> Nat]
      /\ trigger' = trigger /\ task' = task
  BY DEF Tick, IInv, TypeOK
<1>2. SUFFICES ASSUME NEW s \in Schedule, task[s] \in {"delaying", "firing"}
               PROVE  Due(s)'
  BY <1>1 DEF OnTime, Due, FireInTime
<1>3. trigger[s] \in Trigger /\ trigger[s].span \in Nat /\ Due(s)
  BY <1>2 DEF IInv, Given, Trigger, OnTime
<1>4. left'[s] = Monus(left[s], 1)
  BY DEF Tick
<1>5. CASE trigger[s].kind = "FixedRate"
  <2>1. elapsed'[s] = Least(elapsed[s] + 1, trigger[s].span)
    BY <1>2, <1>5 DEF Tick, Active, Over
  <2>. QED
    BY <1>1, <1>2, <1>3, <1>4, <1>5, <2>1, ClockMakesUp DEF Due, FireInTime
<1>6. CASE trigger[s].kind \in {"After", "FixedDelay"}
  <2>1. idle'[s] = Least(idle[s] + 1, trigger[s].span)
    BY <1>2, <1>6 DEF Tick, Between
  <2>. QED
    BY <1>1, <1>2, <1>3, <1>4, <1>6, <2>1, ClockMakesUp DEF Due, FireInTime
<1>7. CASE trigger[s].kind \notin {"FixedRate", "After", "FixedDelay"}
  BY <1>1, <1>7 DEF Due, FireInTime
<1>. QED
  BY <1>5, <1>6, <1>7

\* A schedule that neither sleeps nor is about to fire owes nothing.
LEMMA ElsewhereIsDue ==
  ASSUME NEW s \in Schedule, task[s] \notin {"delaying", "firing"}
  PROVE  Due(s)
  BY DEF Due, FireInTime

\* The time of another schedule is not touched.
LEMMA OthersStayDue ==
  ASSUME OnTime, NEW s \in Schedule, Due(s)',
         \A x \in Schedule \ {s} :
            /\ task'[x] = task[x] /\ trigger'[x] = trigger[x] /\ left'[x] = left[x]
            /\ elapsed'[x] = elapsed[x] /\ idle'[x] = idle[x]
  PROVE  OnTime'
<1>1. ASSUME NEW x \in Schedule \ {s} PROVE Due(x)'
  BY DEF OnTime, Due, FireInTime
<1>. QED
  BY <1>1 DEF OnTime

LEMMA OnTimeStep ==
  ASSUME IInv, OnTime, [Next]_vars
  PROVE  OnTime'
<1>. USE DEF IInv, TypeOK
<1>1. ASSUME NEW s \in Schedule, Loop(s) PROVE OnTime'
  <2>1. PICK d \in NextDelays(trigger[s], fired[s], elapsed[s]) : left' = [left EXCEPT ![s] = d]
    BY <1>1 DEF Loop
  <2>2. /\ task[s] = "looping" /\ task' = [task EXCEPT ![s] = "delaying"]
        /\ trigger' = trigger /\ elapsed' = elapsed /\ idle' = idle
    BY <1>1 DEF Loop, Goto
  <2>3. trigger[s] \in Trigger /\ elapsed[s] \in Nat /\ idle[s] \in Nat /\ fired[s] \in BOOLEAN
    BY <2>2 DEF Given
  <2>4. /\ trigger[s].kind = "FixedRate" => elapsed[s] + d >= trigger[s].span
        /\ trigger[s].kind \in {"After", "FixedDelay"} => idle[s] + d >= trigger[s].span
    BY <2>1, <2>3, DelayIsLongEnough
  <2>5. task'[s] = "delaying" /\ left'[s] = d
    BY <2>1, <2>2
  <2>6. Due(s)'
    BY <2>2, <2>4, <2>5 DEF Due, FireInTime
  <2>. QED
    BY <2>1, <2>2, <2>6, OthersStayDue
<1>2. ASSUME NEW s \in Schedule, DelayElapsed(s) PROVE OnTime'
  <2>1. /\ task[s] = "delaying" /\ left[s] = 0 /\ trigger' = trigger /\ left' = left
        /\ elapsed' = elapsed /\ idle' = idle
        /\ \E place \in {"leaving", "firing"} : task' = [task EXCEPT ![s] = place]
    BY <1>2 DEF DelayElapsed, Goto, timeVars
  <2>2. elapsed[s] \in Nat /\ idle[s] \in Nat /\ task'[s] \in {"leaving", "firing"}
    BY <2>1
  <2>3. Due(s)'
    BY <2>1, <2>2 DEF OnTime, Due, FireInTime
  <2>. QED
    BY <2>1, <2>3, OthersStayDue
<1>3. ASSUME NEW s \in Schedule,
             Spawn(s) \/ DelayCancelled(s) \/ Fire(s) \/ Attempt(s) \/ BackoffElapsed(s)
             \/ BackoffCancelled(s) \/ Leave(s) \/ Run(s) \/ Aborted(s)
      PROVE  OnTime'
  <2>1. \E place \in Places \ {"delaying", "firing"} : task' = [task EXCEPT ![s] = place]
    BY <1>3 DEF Spawn, DelayCancelled, Fire, Attempt, AfterFire, BackoffElapsed,
                BackoffCancelled, Leave, Run, RunOk, RunRetry, RunFail, RunPanic, Aborted,
                Goto, Places, Over
  <2>2. Due(s)'
    BY <2>1 DEF Due, FireInTime
  <2>3. /\ trigger' = trigger \/ \E t \in MayTrigger[s] : trigger' = [trigger EXCEPT ![s] = t]
        /\ left' \in {left, [left EXCEPT ![s] = 0]}
        /\ elapsed' \in {elapsed, [elapsed EXCEPT ![s] = 0]}
        /\ idle' \in {idle, [idle EXCEPT ![s] = 0]}
    BY <1>3 DEF Spawn, DelayCancelled, Fire, Attempt, AfterFire, BackoffElapsed,
                BackoffCancelled, Leave, Run, RunOk, RunRetry, RunFail, RunPanic, Aborted,
                timeVars
  <2>4. ASSUME NEW x \in Schedule \ {s}
        PROVE  /\ task'[x] = task[x] /\ trigger'[x] = trigger[x] /\ left'[x] = left[x]
               /\ elapsed'[x] = elapsed[x] /\ idle'[x] = idle[x]
    BY <2>1, <2>3
  <2>. QED
    BY <2>2, <2>4, OthersStayDue
<1>4. CASE Shutdown \/ UNCHANGED vars \/ \E s \in Schedule : Insert(s) \/ Cancel(s)
  <2>1. task' = task /\ trigger' = trigger /\ left' = left /\ elapsed' = elapsed /\ idle' = idle
    BY <1>4 DEF Shutdown, vars, timeVars, Insert, Cancel
  <2>. QED
    BY <2>1 DEF OnTime, Due, FireInTime
<1>. QED
  BY <1>1, <1>2, <1>3, <1>4, DueTicks DEF Next, Step

-----------------------------------------------------------------------------
(* The powers of a number, and what a backoff makes of them.               *)

\* Induction: a set of numbers without a least one is empty.
LEMMA Descent ==
  ASSUME NEW S \in SUBSET Nat, \A n \in S : \E m \in S : m < n
  PROVE  S = {}
<1>. DEFINE below == OpToRel(<, Nat)
<1>1. IsWellFoundedOn(below, Nat)
  BY NatLessThanWellFounded
<1>2. \A a, b \in Nat : a < b => <<a, b>> \in below
  BY DEF OpToRel
<1>. HIDE DEF below
<1>3. S # {} => \E m \in S : \A k \in S : ~ (<<k, m>> \in below)
  BY <1>1, WFMin
<1>4. \A k, m \in S : <<k, m>> \notin below => ~ (k < m)
  BY <1>2
<1>. QED
  BY <1>3, <1>4

\* The powers of x up to the n-th.
ArePowers(f, x, n) == f = [i \in 0 .. n |-> IF i = 0 THEN 1 ELSE x * f[i - 1]]

\* There are powers up to any length: the first without them would have them.
LEMMA PowersExist ==
  ASSUME NEW x, NEW n \in Nat
  PROVE  \E f : ArePowers(f, x, n)
<1>. DEFINE none == {k \in Nat : ~ \E f : ArePowers(f, x, k)}
<1>1. ASSUME NEW k \in none
      PROVE  \E m \in none : m < k
  <2>1. k # 0
    <3>1. ArePowers([i \in 0 .. 0 |-> 1], x, 0)
      BY DEF ArePowers
    <3>. QED
      BY <3>1
  <2>2. k \in Nat /\ (~ \E g : ArePowers(g, x, k)) /\ k - 1 \in Nat
    BY <2>1
  <2>3. ASSUME NEW f, ArePowers(f, x, k - 1)
        PROVE  \E g : ArePowers(g, x, k)
    <3>. DEFINE g == [i \in 0 .. k |-> IF i = k THEN x * f[k - 1] ELSE f[i]]
    <3>1. ASSUME NEW i \in 0 .. k
          PROVE  g[i] = IF i = 0 THEN 1 ELSE x * g[i - 1]
      <4>1. CASE i = k
        BY <2>1, <4>1
      <4>2. CASE i # k
        <5>1. i \in 0 .. k - 1
          BY <4>2
        <5>2. f[i] = IF i = 0 THEN 1 ELSE x * f[i - 1]
          BY <2>3, <5>1 DEF ArePowers
        <5>. QED
          BY <4>2, <5>1, <5>2
      <4>. QED
        BY <4>1, <4>2
    <3>2. ArePowers(g, x, k)
      BY <3>1 DEF ArePowers
    <3>. QED
      BY <3>2
  <2>4. k - 1 \in none
    BY <2>2, <2>3
  <2>. QED
    BY <2>2, <2>4
<1>2. none = {}
  <2>. HIDE DEF none
  <2>1. none \in SUBSET Nat
    BY DEF none
  <2>. QED
    BY <1>1, <2>1, Descent
<1>. QED
  BY <1>2

\* A power of a number that is not zero is not zero; the zeroth is one.
LEMMA PowerGrows ==
  ASSUME NEW x \in Nat \ {0}, NEW n \in Nat
  PROVE  Power(x, n) \in Nat \ {0} /\ (n = 0 => Power(x, n) = 1)
<1>. DEFINE to == CHOOSE f : ArePowers(f, x, n)
<1>1. ArePowers(to, x, n)
  BY PowersExist
<1>2. Power(x, n) = to[n]
  BY DEF Power, ArePowers
<1>. HIDE DEF to
<1>3. /\ \A i \in 0 .. n : to[i] = IF i = 0 THEN 1 ELSE x * to[i - 1]
  BY <1>1 DEF ArePowers
<1>. DEFINE bad == {i \in 0 .. n : to[i] \notin Nat \ {0}}
<1>4. ASSUME NEW i \in bad
      PROVE  \E j \in bad : j < i
  <2>1. i # 0
    BY <1>3
  <2>2. i - 1 \in 0 .. n /\ i - 1 < i
    BY <2>1
  <2>3. to[i] = x * to[i - 1]
    BY <1>3, <2>1
  <2>4. i - 1 \in bad
    <3>1. \A a, b \in Nat \ {0} : a * b \in Nat \ {0}
      OBVIOUS
    <3>. QED
      BY <2>2, <2>3, <3>1
  <2>. QED
    BY <2>2, <2>4
<1>5. bad = {}
  <2>1. bad \in SUBSET Nat
    OBVIOUS
  <2>. HIDE DEF bad
  <2>. QED
    BY <1>4, <2>1, Descent
<1>6. n \in 0 .. n
  OBVIOUS
<1>. QED
  BY <1>2, <1>3, <1>5, <1>6

\* An exponential delay is between the first and the cap, and is the first
\* before the first retry.
LEMMA ExponentialInTime ==
  ASSUME NEW base \in Nat, NEW factor \in Nat \ {0}, NEW max \in Nat, NEW i \in Nat,
         FitsSigned(i)
  PROVE  LET d == ExponentialDelay(base, factor, i, max)
         IN  /\ d \in Nat /\ Least(base, max) <= d /\ d <= max
             /\ i = 0 => d = Least(base, max)
<1>1. Signed(i) = i
  BY DEF Signed
<1>2. Power(factor, i) \in Nat \ {0} /\ (i = 0 => Power(factor, i) = 1)
  BY PowerGrows
<1>3. Scaled(base, factor, i, max) = base * Power(factor, i)
  BY DEF Scaled
<1>4. \A a \in Nat, p \in Nat \ {0} : a * p \in Nat /\ a <= a * p /\ (p = 1 => a * p = a)
  OBVIOUS
<1>5. /\ Scaled(base, factor, i, max) \in Nat
      /\ base <= Scaled(base, factor, i, max)
      /\ i = 0 => Scaled(base, factor, i, max) = base
  BY <1>2, <1>3, <1>4
<1>. QED
  BY <1>1, <1>5 DEF ExponentialDelay, Least

\* The jitter adds to a delay, and at most as much again.
LEMMA JitterInTime ==
  ASSUME NEW delay \in Nat, delay <= MaxNanos, NEW jitter \in Nat
  PROVE  /\ delay \in Jittered(delay, jitter)
         /\ \A d \in Jittered(delay, jitter) : d \in Nat /\ delay <= d /\ d <= 2 * delay
<1>. DEFINE U == JitterUnit
            j == Least(jitter, U)
            more(k) == (delay * k * j) \div (U * U)
<1>1. U \in Nat \ {0} /\ MaxNanos \in Nat
  BY BackoffAssumption
<1>2. j \in Nat /\ j <= U
  BY <1>1 DEF Least
<1>3. U * U \in Nat \ {0}
  BY <1>1
<1>. HIDE DEF j, U
<1>4. ASSUME NEW k \in 0 .. U - 1
      PROVE  more(k) \in Nat /\ more(k) <= delay
  <2>1. k \in Nat /\ k <= U
    BY <1>1
  <2>2. k * j \in Nat /\ k * j <= U * U
    <3>1. \A a, b, c \in Nat : a <= c /\ b <= c => a * b \in Nat /\ a * b <= c * c
      <4>1. \A a, b, c \in Nat : a <= c => a * b <= c * b
        OBVIOUS
      <4>2. \A b, c \in Nat : b <= c => c * b <= c * c
        OBVIOUS
      <4>3. \A a, b \in Nat : a * b \in Nat
        OBVIOUS
      <4> QED
        BY <4>1, <4>2, <4>3
    <3>. QED
      BY <1>1, <1>2, <2>1, <3>1
  <2>3. delay * k * j = delay * (k * j)
    BY <1>2, <2>1
  <2>4. \A a, b, c \in Nat : c # 0 /\ b <= c => (a * b) \div c \in Nat /\ (a * b) \div c <= a
    <3>. SUFFICES ASSUME NEW a \in Nat, NEW b \in Nat, NEW c \in Nat \ {0}, b <= c
                  PROVE  (a * b) \div c \in Nat /\ (a * b) \div c <= a
      OBVIOUS
    <3>1. a * b \in Nat /\ a * b <= a * c
      OBVIOUS
    <3>2. \A y \in Nat : y \div c \in Nat /\ (y \div c) * c <= y
      OBVIOUS
    <3>3. \A q \in Nat : q * c <= a * c => q <= a
      OBVIOUS
    <3>. QED
      BY <3>1, <3>2, <3>3
  <2>. QED
    BY <1>3, <2>2, <2>3, <2>4
<1>5. Jittered(delay, jitter) = {Least(delay + more(k), MaxNanos) : k \in 0 .. U - 1}
  BY DEF Jittered, U, j
<1>6. more(0) = 0 /\ 0 \in 0 .. U - 1
  <2>1. delay * 0 * j = 0 /\ \A c \in Nat \ {0} : 0 \div c = 0
    BY <1>2
  <2>. QED
    BY <1>1, <1>3, <2>1
<1>. HIDE DEF more
<1>. QED
  BY <1>1, <1>4, <1>5, <1>6 DEF Least

\* What Backoff::delay_for returns before a retry.
LEMMA DelayInTime ==
  ASSUME NEW b, IsBackoff(b), NEW i \in Nat, FitsSigned(i)
  PROVE  /\ \A d \in DelayFor(b, i) : FirstDelay(b) <= d /\ d <= LongestDelay(b)
         /\ i = 0 => FirstDelay(b) \in DelayFor(b, i)
<1>1. b.base \in Nat /\ b.base <= MaxNanos /\ MaxNanos \in Nat
  BY BackoffAssumption DEF IsBackoff
<1>2. CASE b.kind = "Linear"
  <2>1. b.step \in Nat /\ b.step * i \in Nat /\ (i = 0 => b.step * i = 0)
    BY <1>2 DEF IsBackoff
  <2>2. DelayFor(b, i) = {Least(b.base + Least(b.step * i, MaxNanos), MaxNanos)}
    BY <1>2 DEF DelayFor
  <2>. QED
    BY <1>1, <1>2, <2>1, <2>2 DEF Least, FirstDelay, LongestDelay
<1>3. CASE b.kind \in {"Exponential", "ExponentialWithJitter"}
  <2>. DEFINE e == ExponentialDelay(b.base, b.factor, i, b.max)
  <2>1. b.factor \in Nat \ {0} /\ b.max \in Nat /\ b.max <= MaxNanos
    BY <1>1, <1>3 DEF IsBackoff
  <2>2. /\ e \in Nat /\ Least(b.base, b.max) <= e /\ e <= b.max
        /\ i = 0 => e = Least(b.base, b.max)
    BY <1>1, <2>1, ExponentialInTime
  <2>3. FirstDelay(b) = Least(b.base, b.max) /\ LongestDelay(b) = 2 * b.max
    BY <1>3 DEF FirstDelay, LongestDelay
  <2>4. FirstDelay(b) \in Nat
    BY <1>1, <2>1, <2>3 DEF Least
  <2>5. CASE b.kind = "Exponential"
    <3>1. DelayFor(b, i) = {e}
      BY <2>5 DEF DelayFor
    <3>. HIDE DEF e
    <3>. QED
      BY <2>1, <2>2, <2>3, <2>4, <3>1
  <2>6. CASE b.kind = "ExponentialWithJitter"
    <3>1. DelayFor(b, i) = Jittered(e, b.jitter) /\ b.jitter \in Nat
      BY <2>6 DEF DelayFor, IsBackoff
    <3>. HIDE DEF e
    <3>2. e <= MaxNanos
      BY <1>1, <2>1, <2>2
    <3>3. /\ e \in Jittered(e, b.jitter)
          /\ \A d \in Jittered(e, b.jitter) : d \in Nat /\ e <= d /\ d <= 2 * e
      BY <2>2, <3>1, <3>2, JitterInTime
    <3>. QED
      BY <2>1, <2>2, <2>3, <2>4, <3>1, <3>3
  <2>. QED
    BY <1>3, <2>5, <2>6
<1>. QED
  BY <1>2, <1>3 DEF IsBackoff

\* A fire counts its attempts from one.
Counted == \A s \in Schedule :
  task[s] \in {"attempting", "running", "backoff"} => attempt[s] # 0

LEMMA CountedStep ==
  ASSUME IInv, Counted, [Next]_vars
  PROVE  Counted'
<1>. USE DEF IInv, TypeOK
<1>1. ASSUME NEW s \in Schedule, Fire(s) \/ BackoffElapsed(s) PROVE Counted'
  <2>1. /\ attempt' \in {[attempt EXCEPT ![s] = 1], [attempt EXCEPT ![s] = attempt[s] + 1]}
        /\ task' = [task EXCEPT ![s] = "attempting"]
    BY <1>1 DEF Fire, BackoffElapsed, Goto
  <2>. QED
    BY <2>1 DEF Counted
<1>2. ASSUME NEW s \in Schedule, Attempt(s) \/ RunRetry(s) PROVE Counted'
  <2>1. /\ attempt' = attempt /\ task[s] \in {"attempting", "running"}
        /\ \E place \in Places : task' = [task EXCEPT ![s] = place]
    BY <1>2 DEF Attempt, AfterFire, RunRetry, Goto, Places
  <2>. QED
    BY <2>1 DEF Counted
<1>3. ASSUME NEW s \in Schedule,
             Spawn(s) \/ Loop(s) \/ DelayElapsed(s) \/ DelayCancelled(s) \/ BackoffCancelled(s)
             \/ Leave(s) \/ RunOk(s) \/ RunFail(s) \/ RunPanic(s) \/ Aborted(s)
      PROVE  Counted'
  <2>1. /\ attempt' = attempt
        /\ \E place \in Places \ {"attempting", "running", "backoff"} :
              task' = [task EXCEPT ![s] = place]
    BY <1>3 DEF Spawn, Loop, DelayElapsed, DelayCancelled, AfterFire, BackoffCancelled, Leave,
                RunOk, RunFail, RunPanic, Aborted, Goto, Places, Over
  <2>. QED
    BY <2>1 DEF Counted
<1>4. CASE Shutdown \/ Tick \/ UNCHANGED vars \/ \E s \in Schedule : Insert(s) \/ Cancel(s)
  BY <1>4 DEF Shutdown, Tick, vars, timeVars, Insert, Cancel, Counted
<1>. QED
  BY <1>1, <1>2, <1>3, <1>4 DEF Next, Step, Run

\* A task that ends a backoff had slept for what its backoff says.
LEMMA RetriesInTime ==
  ASSUME IInv, Counted, NEW s \in Schedule, BackoffElapsed(s)
  PROVE  RetryInTime(s)
<1>. DEFINE i == attempt[s] - 1
<1>1. i \in Nat /\ (attempt[s] = 1 => i = 0)
  BY DEF IInv, TypeOK, Counted, BackoffElapsed
<1>2. IsBackoff(Retry[s])
  BY SchedulerAssumption
<1>. HIDE DEF i
<1>3. FitsSigned(i) =>
        /\ \A d \in DelayFor(Retry[s], i) :
              FirstDelay(Retry[s]) <= d /\ d <= LongestDelay(Retry[s])
        /\ i = 0 => FirstDelay(Retry[s]) \in DelayFor(Retry[s], i)
  BY <1>1, <1>2, DelayInTime
<1>. QED
  BY <1>1, <1>3 DEF RetryInTime, RetryDelays, i

-----------------------------------------------------------------------------
LEMMA Invariance == Spec => []IInv
<1>1. Init => IInv
  BY DEF Init, IInv, TypeOK, Given, ActiveIsPending, OneLate, TaskEvent
<1>2. IInv /\ [Next]_vars => IInv'
  BY TypeStep, GivenStep, ActiveStep, LateStep DEF IInv
<1>. QED
  BY <1>1, <1>2, PTL DEF Spec

(* shutdown() finds in the map every live schedule whose schedule() call   *)
(* is over, or an earlier shutdown() has aborted it (Scheduler::shutdown). *)
THEOREM PendingSound == Spec => []Sound
<1>1. IInv => Sound
  BY DEF IInv, Sound
<1>. QED
  BY <1>1, Invariance, PTL

(* After a cancellation a schedule fires at most once more, and only if    *)
(* its task had read the flag before (run_schedule).                       *)
THEOREM CancellationSuppresses == Spec => []CancelSuppresses
<1>1. IInv => CancelSuppresses
  BY DEF IInv, OneLate, CancelSuppresses, TypeOK
<1>. QED
  BY <1>1, Invariance, PTL

(* No schedule fires early, whatever its triggers, its retries and the     *)
(* times its tasks are polled at: a FixedRate one not within a period of   *)
(* its last fire, so that missed fires are not made up for; a FixedDelay   *)
(* one not before it has rested since its last fire was over; an After one *)
(* not before its duration (run_schedule, next_delay).                     *)
LEMMA NeverEarly == Spec => [][\A s \in Schedule : Fire(s) => FireInTime(s)]_vars
<1>1. Init => OnTime
  BY DEF Init, OnTime, Due
<1>2. IInv /\ OnTime /\ [Next]_vars => OnTime'
  BY OnTimeStep
<1>3. OnTime /\ [Next]_vars => [\A s \in Schedule : Fire(s) => FireInTime(s)]_vars
  BY DEF OnTime, Due, Fire
<1>. QED
  BY <1>1, <1>2, <1>3, Invariance, PTL DEF Spec

(* Fires and retries keep their pace: no fire comes early, and a retry     *)
(* comes neither before the initial delay of its backoff nor after its cap *)
(* and the jitter on it, whatever the backoff, its factor and the width of *)
(* the index, as long as the index fits it (Backoff::delay_for,            *)
(* run_attempts).                                                          *)
THEOREM PaceKept == Spec => Paced
<1>. DEFINE Retries == \A s \in Schedule : BackoffElapsed(s) => RetryInTime(s)
            Fires == \A s \in Schedule : Fire(s) => FireInTime(s)
            Paces == \A s \in Schedule : /\ Fire(s) => FireInTime(s)
                                         /\ BackoffElapsed(s) => RetryInTime(s)
<1>1. Init => Counted
  BY DEF Init, Counted
<1>2. IInv /\ Counted /\ [Next]_vars => Counted'
  BY CountedStep
<1>3. IInv /\ Counted => Retries
  BY RetriesInTime
<1>4. [Fires]_vars /\ Retries => [Paces]_vars
  OBVIOUS
<1>5. Spec => [][Fires]_vars
  BY NeverEarly
<1>6. Spec => []IInv
  BY Invariance
<1>. HIDE DEF Fires, Retries, Paces
<1>7. Spec => [][Paces]_vars
  BY <1>1, <1>2, <1>3, <1>4, <1>5, <1>6, PTL DEF Spec
<1>. QED
  BY <1>7 DEF Paced, Paces

=============================================================================
