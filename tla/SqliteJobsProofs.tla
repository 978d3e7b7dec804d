-------------------------- MODULE SqliteJobsProofs ---------------------------
(***************************************************************************)
(* What MCSqliteJobs checks on a small instance, proved for any number of  *)
(* processes and workers, any budgets and any bounds.                      *)
(***************************************************************************)
EXTENDS SqliteJobs, TLAPS

Outcomes == {"Completed", "Dead", "Retrying"}

(* A worker holds a row exactly while it works on it. *)
AtWork == \A w \in Worker :
  held[w] # NoJob <=> worker[w] \in {"pulled", "running", "marking"}

(* The workers of a process that is down are gone. *)
DownIsEmpty == \A w \in Worker : up[Host[w]] = "down" => worker[w] = "off"

(* What a worker is about to write is an outcome its row may have. *)
Judged == \A w \in Worker :
  worker[w] = "marking" =>
    /\ verdict[w] \in Outcomes
    /\ verdict[w] = "Retrying" => attempt[held[w]] < limit[held[w]]

(* A row that waits has an attempt left. *)
AttemptsLeft == \A j \in JobId :
  /\ status[j] \in {"absent", "Pending"} => attempt[j] = 0
  /\ status[j] = "Retrying" => attempt[j] < limit[j]

Core ==
  /\ SoleRunner /\ StuckOnlyByFault
  /\ AtWork /\ DownIsEmpty /\ Judged /\ AttemptsLeft

IInv == TypeOK /\ Core

LEMMA Constants ==
  /\ \A w \in Worker : Host[w] \in Process
  /\ Limit \subseteq Nat /\ MaxTime \in Nat /\ MaxStops \in Nat /\ MaxErrors \in Nat
  /\ JobId \subseteq Nat /\ NoJob \notin JobId
  /\ Configs \subseteq [Process -> SUBSET Queue]
BY SqliteAssumption DEF SqliteAssumption, JobId

(* A time to come is a time. *)
LEMMA LaterType ==
  ASSUME clock \in 0 .. MaxTime, NEW delay \in {0, 1}
  PROVE  Later(delay) \in 0 .. MaxTime
BY Constants DEF Later

LEMMA Initially == Init => IInv
BY Constants DEF Init, IInv, Core, TypeOK, SoleRunner, StuckOnlyByFault, AtWork,
   DownIsEmpty, Judged, AttemptsLeft, Waiting, Terminal

(* What is written can be read again, or that is an error of the budget. *)
LEMMA WriteType ==
  ASSUME readable \in [JobId -> BOOLEAN], errors \in 0 .. MaxErrors,
         NEW j \in JobId, Write(j)
  PROVE  readable' \in [JobId -> BOOLEAN] /\ errors' \in 0 .. MaxErrors
<1>1. MaxErrors \in Nat
  BY Constants
<1>2. CASE UNCHANGED <<readable, errors>>
  BY <1>2
<1>3. CASE /\ errors < MaxErrors
           /\ errors' = errors + 1
           /\ readable' = [readable EXCEPT ![j] = FALSE]
  <2>1. readable' \in [JobId -> BOOLEAN]
    BY <1>3, Zenon
  <2>2. errors' \in 0 .. MaxErrors
    BY <1>1, <1>3
  <2>. QED
    BY <2>1, <2>2
<1>. QED
  BY <1>2, <1>3 DEF Write

(* A row becomes unreadable at most. *)
LEMMA WriteRows ==
  ASSUME readable \in [JobId -> BOOLEAN], NEW j \in JobId, Write(j)
  PROVE  \A i \in JobId : ~ readable[i] => ~ readable'[i]
BY DEF Write

(* Every variable keeps its type. *)
LEMMA TypeStep == TypeOK /\ AtWork /\ Judged /\ [Next]_vars => TypeOK'
<1>. SUFFICES ASSUME TypeOK, AtWork, Judged, [Next]_vars PROVE TypeOK'
  OBVIOUS
<1>. USE DEF TypeOK, rowVars, faultVars, Goto, Drop
<1>1. CASE Tick
  BY <1>1, Constants DEF Tick
<1>2. CASE Migrate
  BY <1>2 DEF Migrate
<1>3. CASE Enqueue
  <2>1. PICK j \in JobId, m \in Limit, delay \in {0, 1} :
          /\ status' = [status EXCEPT ![j] = "Pending"]
          /\ limit' = [limit EXCEPT ![j] = m]
          /\ when' = [when EXCEPT ![j] = Later(delay)]
          /\ Write(j)
    BY <1>3 DEF Enqueue
  <2>2. Later(delay) \in 0 .. MaxTime /\ m \in Nat
    BY LaterType, Constants
  <2>3. readable' \in [JobId -> BOOLEAN] /\ errors' \in 0 .. MaxErrors
    BY <2>1, WriteType
  <2>. QED
    BY <1>3, <2>1, <2>2, <2>3 DEF Enqueue, Waiting
<1>4. ASSUME NEW w \in Worker, Work(w) PROVE TypeOK'
  <2>1. CASE LoopTop(w) \/ PullNothing(w) \/ PullUnreadable(w) \/ WakeUp(w) \/ Dispatch(w)
    BY <2>1 DEF LoopTop, PullNothing, PullUnreadable, WakeUp, Dispatch
  <2>2. CASE PullError(w)
    BY <2>2, Constants DEF PullError
  <2>3. CASE Pull(w)
    BY <2>3 DEF Pull
  <2>4. CASE Run(w)
    BY <2>4 DEF Run, Outcome
  <2>5. CASE Mark(w)
    <3>1. held[w] \in JobId /\ verdict[w] \in Outcomes
      BY <2>5 DEF Mark, AtWork, Judged
    <3>2. status' \in [JobId -> {"absent", "Running"} \cup Waiting \cup Terminal]
      BY <2>5, <3>1 DEF Mark, Settle, Outcomes, Waiting, Terminal
    <3>3. when' \in [JobId -> 0 .. MaxTime]
      BY <2>5, <3>1, LaterType DEF Mark, Settle, Postpone
    <3>4. readable' \in [JobId -> BOOLEAN] /\ errors' \in 0 .. MaxErrors
      BY <2>5, <3>1, WriteType DEF Mark, Settle, Postpone
    <3>. QED
      BY <2>5, <3>2, <3>3, <3>4 DEF Mark
  <2>. QED
    BY <1>4, <2>1, <2>2, <2>3, <2>4, <2>5 DEF Work
<1>5. ASSUME NEW w \in Worker, MarkError(w) \/ RunPanic(w) PROVE TypeOK'
  <2>1. held[w] \in JobId
    BY <1>5 DEF MarkError, RunPanic, AtWork
  <2>2. errors' \in 0 .. MaxErrors /\ stops' \in 0 .. MaxStops
    BY <1>5, Constants DEF MarkError, RunPanic
  <2>. QED
    BY <1>5, <2>1, <2>2 DEF MarkError, RunPanic
<1>6. ASSUME NEW w \in Worker, Abort(w) PROVE TypeOK'
  BY <1>6 DEF Abort, Lose, Held
<1>7. ASSUME NEW p \in Process, Exit(p) \/ Restart(p) PROVE TypeOK'
  BY <1>7 DEF Exit, Restart
<1>8. ASSUME NEW p \in Process, Shutdown(p) PROVE TypeOK'
  BY <1>8, Constants DEF Shutdown
<1>9. ASSUME NEW p \in Process, Crash(p) PROVE TypeOK'
  <2>1. stops' \in 0 .. MaxStops
    BY <1>9, Constants DEF Crash
  <2>. QED
    BY <1>9, <2>1 DEF Crash, Lose, Held, WorkersOf
<1>10. CASE UNCHANGED vars
  BY <1>10 DEF vars
<1>. QED
  BY <1>1, <1>2, <1>3, <1>4, <1>5, <1>6, <1>7, <1>8, <1>9, <1>10 DEF Next

(* A lost worker takes nothing with it that is not recorded as orphaned. *)
LEMMA LoseStep ==
  ASSUME IInv, NEW ws \in SUBSET Worker, Lose(ws),
         UNCHANGED <<status, attempt, limit, readable>>
  PROVE  (SoleRunner /\ StuckOnlyByFault /\ AtWork /\ Judged /\ AttemptsLeft)'
<1>. USE DEF IInv, Core, TypeOK, Lose, Held
<1>1. SoleRunner'
  BY DEF SoleRunner
<1>2. StuckOnlyByFault'
  BY DEF StuckOnlyByFault
<1>3. AtWork'
  BY DEF AtWork
<1>4. Judged'
  BY DEF Judged
<1>5. AttemptsLeft'
  BY DEF AttemptsLeft
<1>. QED
  BY <1>1, <1>2, <1>3, <1>4, <1>5

(* A step of one worker that leaves the rows alone changes its judgement only. *)
LEMMA JudgedFrame ==
  ASSUME Judged, NEW w \in Worker, UNCHANGED <<attempt, limit, held>>,
         \A x \in Worker \ {w} : worker'[x] = worker[x] /\ verdict'[x] = verdict[x],
         worker'[w] = "marking" =>
           /\ verdict'[w] \in Outcomes
           /\ verdict'[w] = "Retrying" => attempt[held[w]] < limit[held[w]]
  PROVE  Judged'
BY DEF Judged

(* The rows are settled by those who hold them. *)
LEMMA InvStep == IInv /\ [Next]_vars => IInv'
<1>. SUFFICES ASSUME IInv, [Next]_vars
     PROVE  Core'
  BY TypeStep DEF IInv, Core
<1>. USE Constants DEF IInv, Core, TypeOK, rowVars, faultVars, Goto, Drop
<1>1. CASE Tick \/ Migrate \/ UNCHANGED vars
  <2>1. UNCHANGED <<status, attempt, limit, readable, up, worker, held, verdict, orphaned>>
    BY <1>1 DEF Tick, Migrate, vars
  <2>. QED
    BY <2>1 DEF SoleRunner, StuckOnlyByFault, AtWork, DownIsEmpty, Judged, AttemptsLeft
<1>2. CASE Enqueue
  <2>1. PICK j \in JobId, m \in Limit :
          /\ status[j] = "absent"
          /\ status' = [status EXCEPT ![j] = "Pending"]
          /\ limit' = [limit EXCEPT ![j] = m]
          /\ Write(j)
    BY <1>2 DEF Enqueue
  <2>2. UNCHANGED <<attempt, up, worker, held, verdict, orphaned>>
    BY <1>2 DEF Enqueue
  <2>3. \A w \in Worker : held[w] # j
    BY <2>1 DEF SoleRunner
  <2>4. SoleRunner' /\ StuckOnlyByFault'
    BY <2>1, <2>2, <2>3, WriteRows DEF SoleRunner, StuckOnlyByFault
  <2>5. AtWork' /\ DownIsEmpty' /\ AttemptsLeft'
    BY <2>1, <2>2 DEF AtWork, DownIsEmpty, AttemptsLeft
  <2>6. Judged'
    BY <2>1, <2>2, <2>3 DEF Judged, AtWork
  <2>. QED
    BY <2>4, <2>5, <2>6
<1>3. ASSUME NEW w \in Worker,
             LoopTop(w) \/ PullNothing(w) \/ PullError(w) \/ WakeUp(w)
      PROVE  Core'
  <2>1. /\ UNCHANGED <<status, attempt, limit, readable, up, held, verdict, orphaned>>
        /\ worker[w] \in {"top", "pulling", "sleeping"}
        /\ \E place \in {"top", "pulling", "sleeping", "off"} :
             worker' = [worker EXCEPT ![w] = place]
    BY <1>3 DEF LoopTop, PullNothing, PullError, WakeUp
  <2>2. worker[w] # "off" /\ held[w] = NoJob
    BY <2>1 DEF AtWork
  <2>3. SoleRunner' /\ StuckOnlyByFault' /\ AttemptsLeft'
    BY <2>1 DEF SoleRunner, StuckOnlyByFault, AttemptsLeft
  <2>4. AtWork' /\ DownIsEmpty' /\ Judged'
    BY <2>1, <2>2 DEF AtWork, DownIsEmpty, Judged
  <2>. QED
    BY <2>3, <2>4
<1>4. ASSUME NEW w \in Worker, Pull(w)
      PROVE  Core'
  <2>1. PICK j \in JobId :
          /\ status[j] \in Waiting
          /\ status' = [status EXCEPT ![j] = "Running"]
          /\ attempt' = [attempt EXCEPT ![j] = @ + 1]
          /\ held' = [held EXCEPT ![w] = j]
    BY <1>4 DEF Pull, First, Eligible
  <2>2. /\ worker[w] = "pulling" /\ worker' = [worker EXCEPT ![w] = "pulled"]
        /\ UNCHANGED <<limit, readable, up, verdict, orphaned>>
    BY <1>4 DEF Pull
  <2>3. held[w] = NoJob /\ \A v \in Worker : held[v] # j
    BY <2>1, <2>2 DEF SoleRunner, AtWork, Waiting
  <2>4. SoleRunner'
    BY <2>1, <2>3 DEF SoleRunner
  <2>5. StuckOnlyByFault' /\ AttemptsLeft'
    BY <2>1, <2>2, <2>3 DEF StuckOnlyByFault, AttemptsLeft
  <2>6. AtWork' /\ DownIsEmpty'
    BY <2>1, <2>2 DEF AtWork, DownIsEmpty
  <2>7. Judged'
    BY <2>1, <2>2, <2>3 DEF Judged, AtWork
  <2>. QED
    BY <2>4, <2>5, <2>6, <2>7
<1>5. ASSUME NEW w \in Worker, Dispatch(w) \/ Run(w)
      PROVE  Core'
  <2>1. /\ UNCHANGED <<status, attempt, limit, readable, up, held, orphaned>>
        /\ worker[w] \in {"pulled", "running"}
        /\ \/ worker' = [worker EXCEPT ![w] = "running"] /\ UNCHANGED verdict
           \/ /\ worker' = [worker EXCEPT ![w] = "marking"]
              /\ \E v \in Outcomes :
                   /\ v = "Retrying" => ~ attempt[held[w]] >= limit[held[w]]
                   /\ verdict' = [verdict EXCEPT ![w] = v]
    BY <1>5 DEF Dispatch, Run, Outcome, Outcomes
  <2>2. SoleRunner' /\ StuckOnlyByFault' /\ AttemptsLeft'
    BY <2>1 DEF SoleRunner, StuckOnlyByFault, AttemptsLeft
  <2>3. AtWork' /\ DownIsEmpty'
    BY <2>1 DEF AtWork, DownIsEmpty
  <2>4. held[w] \in JobId
    BY <2>1 DEF AtWork
  <2>5. \A x \in Worker \ {w} : worker'[x] = worker[x] /\ verdict'[x] = verdict[x]
    BY <2>1
  <2>6. worker'[w] = "marking" =>
          /\ verdict'[w] \in Outcomes
          /\ verdict'[w] = "Retrying" => attempt[held[w]] < limit[held[w]]
    <3>1. attempt[held[w]] \in Nat /\ limit[held[w]] \in Nat
      BY <2>4
    <3>2. CASE worker' = [worker EXCEPT ![w] = "running"]
      BY <3>2
    <3>3. CASE worker' = [worker EXCEPT ![w] = "marking"]
      BY <2>1, <3>1, <3>3
    <3>. QED
      BY <2>1, <3>2, <3>3
  <2>7. Judged'
    BY <2>1, <2>5, <2>6, JudgedFrame
  <2>. QED
    BY <2>2, <2>3, <2>7
<1>6. ASSUME NEW w \in Worker, Mark(w)
      PROVE  Core'
  <2>1. /\ worker[w] = "marking" /\ held[w] \in JobId
        /\ verdict[w] \in Outcomes
        /\ verdict[w] = "Retrying" => attempt[held[w]] < limit[held[w]]
    BY <1>6 DEF Mark, AtWork, Judged
  <2>2. /\ status' = [status EXCEPT ![held[w]] = verdict[w]]
        /\ held' = [held EXCEPT ![w] = NoJob]
        /\ verdict' = [verdict EXCEPT ![w] = "none"]
        /\ worker' = [worker EXCEPT ![w] = "top"]
        /\ UNCHANGED <<attempt, limit, up, orphaned>>
    BY <1>6 DEF Mark, Settle
  <2>0. \A i \in JobId : ~ readable[i] => ~ readable'[i]
    BY <1>6, <2>1, WriteRows DEF Mark, Settle, Postpone
  <2>3. \A v \in Worker \ {w} : held[v] # held[w]
    BY <2>1 DEF SoleRunner
  <2>4. SoleRunner'
    BY <2>1, <2>2, <2>3 DEF SoleRunner
  <2>5. StuckOnlyByFault'
    BY <2>0, <2>1, <2>2, <2>3 DEF StuckOnlyByFault, Outcomes
  <2>6. AtWork' /\ DownIsEmpty' /\ Judged'
    BY <2>1, <2>2 DEF AtWork, DownIsEmpty, Judged
  <2>7. AttemptsLeft'
    BY <2>1, <2>2 DEF AttemptsLeft, Outcomes
  <2>. QED
    BY <2>4, <2>5, <2>6, <2>7
<1>7. ASSUME NEW w \in Worker, MarkError(w) \/ RunPanic(w)
      PROVE  Core'
  <2>1. /\ worker[w] \in {"running", "marking"}
        /\ held' = [held EXCEPT ![w] = NoJob]
        /\ orphaned' = orphaned \cup {held[w]}
        /\ worker' = [worker EXCEPT ![w] = "top"]
        /\ verdict' = [verdict EXCEPT ![w] = "none"]
        /\ UNCHANGED <<status, attempt, limit, readable, up>>
    BY <1>7 DEF MarkError, RunPanic
  <2>2. SoleRunner' /\ AttemptsLeft'
    BY <2>1 DEF SoleRunner, AttemptsLeft
  <2>3. StuckOnlyByFault'
    BY <2>1 DEF StuckOnlyByFault
  <2>4. AtWork' /\ DownIsEmpty' /\ Judged'
    BY <2>1 DEF AtWork, DownIsEmpty, Judged
  <2>. QED
    BY <2>2, <2>3, <2>4
<1>8. ASSUME NEW w \in Worker, Abort(w)
      PROVE  Core'
  <2>1. DownIsEmpty'
    BY <1>8 DEF Abort, Lose, DownIsEmpty
  <2>2. Lose({w}) /\ UNCHANGED <<status, attempt, limit, readable>>
    BY <1>8 DEF Abort
  <2>. QED
    BY <2>1, <2>2, LoseStep
<1>9. ASSUME NEW p \in Process, Shutdown(p) \/ Exit(p)
      PROVE  Core'
  <2>1. UNCHANGED <<status, attempt, limit, readable, worker, held, verdict, orphaned>>
    BY <1>9 DEF Shutdown, Exit
  <2>2. DownIsEmpty'
    BY <1>9, <2>1 DEF Shutdown, Exit, DownIsEmpty, WorkersOf
  <2>. QED
    BY <2>1, <2>2 DEF SoleRunner, StuckOnlyByFault, AtWork, Judged, AttemptsLeft
<1>10. ASSUME NEW p \in Process, Crash(p)
      PROVE  Core'
  <2>1. DownIsEmpty'
    BY <1>10 DEF Crash, Lose, DownIsEmpty, WorkersOf
  <2>2. /\ Lose(WorkersOf(p)) /\ UNCHANGED <<status, attempt, limit, readable>>
        /\ WorkersOf(p) \in SUBSET Worker
    BY <1>10 DEF Crash, WorkersOf
  <2>. QED
    BY <2>1, <2>2, LoseStep
<1>11. ASSUME NEW p \in Process, Restart(p)
      PROVE  Core'
  <2>1. /\ up[p] = "down" /\ up' = [up EXCEPT ![p] = "up"]
        /\ worker' = [w \in Worker |-> IF Host[w] = p THEN "top" ELSE worker[w]]
        /\ UNCHANGED <<status, attempt, limit, readable, held, verdict, orphaned>>
    BY <1>11 DEF Restart
  <2>2. \A w \in Worker : Host[w] = p => worker[w] = "off" /\ held[w] = NoJob
    BY <2>1 DEF DownIsEmpty, AtWork
  <2>3. SoleRunner' /\ StuckOnlyByFault' /\ AttemptsLeft'
    BY <2>1 DEF SoleRunner, StuckOnlyByFault, AttemptsLeft
  <2>4. AtWork' /\ Judged'
    BY <2>1, <2>2 DEF AtWork, Judged
  <2>5. DownIsEmpty'
    BY <2>1 DEF DownIsEmpty
  <2>. QED
    BY <2>3, <2>4, <2>5
<1>12. ASSUME NEW w \in Worker, PullUnreadable(w)
       PROVE  Core'
  <2>1. /\ worker[w] = "pulled" /\ ~ readable[held[w]]
        /\ held' = [held EXCEPT ![w] = NoJob]
        /\ worker' = [worker EXCEPT ![w] = "sleeping"]
        /\ verdict' = [verdict EXCEPT ![w] = "none"]
        /\ UNCHANGED <<status, attempt, limit, readable, up, orphaned>>
    BY <1>12 DEF PullUnreadable
  <2>2. SoleRunner' /\ AttemptsLeft'
    BY <2>1 DEF SoleRunner, AttemptsLeft
  <2>3. StuckOnlyByFault'
    BY <2>1 DEF StuckOnlyByFault
  <2>4. AtWork' /\ DownIsEmpty' /\ Judged'
    BY <2>1 DEF AtWork, DownIsEmpty, Judged
  <2>. QED
    BY <2>2, <2>3, <2>4
<1>. QED
  BY <1>1, <1>2, <1>3, <1>4, <1>5, <1>6, <1>7, <1>8, <1>9, <1>10, <1>11, <1>12
     DEF Next, Work

(* The invariant that the theorems are read off. *)
LEMMA Invariance == Spec => []IInv
BY Initially, InvStep, PTL DEF Spec

(* No two workers, of whatever processes, work on one row, and a row that  *)
(* is worked on is Running until its worker settles it (pull_next).        *)
THEOREM RunnersAreSole == Spec => []Sound
<1>1. IInv => Sound
  BY DEF IInv, Core, Sound
<1>. QED
  BY <1>1, Invariance, PTL

(* A row that is Running and nobody's was lost by a fault the model names: *)
(* a crash, a shutdown, a panic, or an outcome that could not be written;  *)
(* or it did not convert into a record after pull_next had marked it.      *)
THEOREM StuckByFault == Spec => []StuckOnlyByFault
<1>1. IInv => StuckOnlyByFault
  BY DEF IInv, Core
<1>. QED
  BY <1>1, Invariance, PTL

(* The table and the workers of all processes implement JobLifecycle.      *)
LEMMA LifecycleInit == Init => Lifecycle!Init
BY DEF Init, Lifecycle!Init

LEMMA LifecycleStep ==
  IInv /\ [Next]_vars => [Lifecycle!Next]_<<status, attempt, limit>>
<1>. SUFFICES ASSUME IInv, [Next]_vars, ~ UNCHANGED <<status, attempt, limit>>
     PROVE  Lifecycle!Next
  OBVIOUS
<1>. USE DEF IInv, Core, TypeOK, rowVars, faultVars
<1>1. CASE Enqueue
  <2>1. \E j \in JobId : Lifecycle!Accept(j)
    BY <1>1 DEF Enqueue, Lifecycle!Accept
  <2>. QED
    BY <2>1 DEF Lifecycle!Next
<1>2. ASSUME NEW w \in Worker, Pull(w) PROVE Lifecycle!Next
  <2>1. PICK j \in JobId :
          /\ status[j] \in Waiting
          /\ status' = [status EXCEPT ![j] = "Running"]
          /\ attempt' = [attempt EXCEPT ![j] = @ + 1]
    BY <1>2 DEF Pull, First, Eligible
  <2>2. \/ status[j] = "Pending" /\ attempt[j] = 0
        \/ status[j] = "Retrying" /\ attempt[j] < limit[j]
    <3>1. status[j] = "Pending" \/ status[j] = "Retrying"
      BY <2>1 DEF Waiting
    <3>. QED
      BY <3>1 DEF AttemptsLeft
  <2>3. UNCHANGED limit
    BY <1>2 DEF Pull
  <2>4. Lifecycle!Begin(j)
    BY <2>1, <2>2, <2>3 DEF Lifecycle!Begin
  <2>. QED
    BY <2>4 DEF Lifecycle!Next
<1>3. ASSUME NEW w \in Worker, Mark(w) PROVE Lifecycle!Next
  <2>1. /\ held[w] \in JobId /\ status[held[w]] = "Running"
        /\ verdict[w] \in Outcomes
        /\ verdict[w] = "Retrying" => attempt[held[w]] < limit[held[w]]
    BY <1>3 DEF Mark, AtWork, Judged, SoleRunner
  <2>2. /\ status' = [status EXCEPT ![held[w]] = verdict[w]]
        /\ UNCHANGED <<attempt, limit>>
    BY <1>3 DEF Mark, Settle
  <2>3. Lifecycle!Settle(held[w], verdict[w])
    BY <2>1, <2>2 DEF Lifecycle!Settle
  <2>4. \E outcome \in {"Completed", "Dead", "Retrying"} :
          Lifecycle!Settle(held[w], outcome)
    BY <2>1, <2>3 DEF Outcomes
  <2>. QED
    BY <2>1, <2>4 DEF Lifecycle!Next
<1>4. CASE Tick \/ Migrate \/ UNCHANGED vars
  BY <1>4 DEF Tick, Migrate, vars
<1>5. ASSUME NEW w \in Worker,
             \/ LoopTop(w) \/ PullNothing(w) \/ PullError(w) \/ PullUnreadable(w)
             \/ WakeUp(w) \/ Dispatch(w) \/ Run(w) \/ MarkError(w) \/ RunPanic(w) \/ Abort(w)
      PROVE  FALSE
  BY <1>5 DEF LoopTop, PullNothing, PullError, PullUnreadable, WakeUp, Dispatch, Run,
     MarkError, RunPanic, Abort
<1>6. ASSUME NEW p \in Process, Shutdown(p) \/ Exit(p) \/ Crash(p) \/ Restart(p)
      PROVE  FALSE
  BY <1>6 DEF Shutdown, Exit, Crash, Restart
<1>. QED
  BY <1>1, <1>2, <1>3, <1>4, <1>5, <1>6 DEF Next, Work

(* Across crashes, restarts and failing statements every job goes through  *)
(* the life JobLifecycle describes: it is run at most max_attempts times   *)
(* (once, when that is 0) and never again once settled.                    *)
THEOREM ImplementsJobLifecycle == Spec => ImplementsLifecycle
<1>1. Init /\ [][Next]_vars /\ []IInv => Lifecycle!Spec
  BY LifecycleInit, LifecycleStep, PTL DEF Lifecycle!Spec
<1>. QED
  BY <1>1, Invariance, PTL DEF Spec, ImplementsLifecycle
=============================================================================
