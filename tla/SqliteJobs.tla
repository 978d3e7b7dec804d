------------------------------ MODULE SqliteJobs -------------------------------
(***************************************************************************)
(* SqliteJobStore of walastack-jobs (sqlite.rs) under the worker pools of  *)
(* several processes that crash, stop and come back while the rows stay.   *)
(* Every statement is atomic in the database; a worker learns its result   *)
(* in a later step, and may be gone by then or unable to read it.          *)
(***************************************************************************)
EXTENDS Naturals, FiniteSets

CONSTANTS
  Process, Worker,
  Host,      \* the process of every worker
  Queue,
  QueueOf,   \* the queue every job is enqueued in
  Configs,   \* the settings of JobsConfig::queues, a set per process
  Limit,     \* the values of max_attempts in use
  MaxJobs,   \* bound on the rows ever inserted
  MaxTime,   \* bound on the clock
  MaxStops,  \* bound on crashes and shutdowns together
  MaxErrors, \* bound on statements that fail and rows written unreadable
  NoJob

JobId == 1 .. MaxJobs

ASSUME SqliteAssumption ==
  /\ Host \in [Worker -> Process]
  /\ QueueOf \in [JobId -> Queue]
  /\ Configs \subseteq [Process -> SUBSET Queue]
  /\ Limit \subseteq Nat
  /\ {MaxJobs, MaxTime, MaxStops, MaxErrors} \subseteq Nat
  /\ NoJob \notin JobId

VARIABLES
  migrated,  \* does the table exist?
  status, attempt, limit, when,  \* the rows; when is scheduled_at
  readable,  \* would the payload and the times of the row parse again?
  listens,   \* JobsConfig::queues of every process
  clock,
  up,        \* "up", "stopping" after the shutdown signal, or "down"
  worker,    \* where every worker task is
  held,      \* the row a worker pulled, from the UPDATE on
  verdict,   \* what dispatch_one is about to tell the store
  stops, errors,
  orphaned   \* rows whose worker was lost, or whose outcome was (history)

rowVars == <<migrated, status, attempt, limit, when, readable, listens>>
faultVars == <<up, stops, errors, orphaned>>
vars == <<rowVars, clock, worker, held, verdict, faultVars>>

Waiting == {"Pending", "Retrying"}
Terminal == {"Completed", "Dead"}

Init ==
  /\ migrated \in BOOLEAN
  /\ status = [j \in JobId |-> "absent"]
  /\ attempt = [j \in JobId |-> 0]
  /\ limit = [j \in JobId |-> 0]
  /\ when = [j \in JobId |-> 0]
  /\ readable = [j \in JobId |-> TRUE]
  /\ listens \in Configs
  /\ clock = 0
  /\ up = [p \in Process |-> "up"]
  /\ worker = [w \in Worker |-> "top"]
  /\ held = [w \in Worker |-> NoJob]
  /\ verdict = [w \in Worker |-> "none"]
  /\ stops = 0
  /\ errors = 0
  /\ orphaned = {}

Tick ==
  /\ clock < MaxTime
  /\ clock' = clock + 1
  /\ UNCHANGED <<rowVars, worker, held, verdict, faultVars>>

Later(delay) == IF clock + delay > MaxTime THEN MaxTime ELSE clock + delay

-----------------------------------------------------------------------------
(* The store. *)

(* CREATE TABLE IF NOT EXISTS, by the migration service of any process or  *)
(* by an operator.                                                         *)
Migrate ==
  /\ ~migrated
  /\ migrated' = TRUE
  /\ UNCHANGED <<status, attempt, limit, when, readable, listens>>
  /\ UNCHANGED <<clock, worker, held, verdict, faultVars>>

(* A payload and times are written as text that need not parse again:      *)
(* serde_json writes a value nested deeper than it reads, chrono a year of *)
(* five digits.                                                            *)
Write(j) ==
  \/ UNCHANGED <<readable, errors>>
  \/ /\ errors < MaxErrors
     /\ errors' = errors + 1
     /\ readable' = [readable EXCEPT ![j] = FALSE]

(* enqueue: AUTOINCREMENT gives the next id.  scheduled_at may be ahead.   *)
Enqueue ==
  /\ migrated
  /\ \E p \in Process : up[p] = "up"
  /\ \E j \in JobId, m \in Limit, delay \in {0, 1} :
       /\ status[j] = "absent"
       /\ \A i \in 1 .. j - 1 : status[i] # "absent"
       /\ status' = [status EXCEPT ![j] = "Pending"]
       /\ limit' = [limit EXCEPT ![j] = m]
       /\ when' = [when EXCEPT ![j] = Later(delay)]
       /\ Write(j)
  /\ UNCHANGED <<migrated, attempt, listens, clock, worker, held, verdict>>
  /\ UNCHANGED <<up, stops, orphaned>>

\* WHERE queue IN (...) AND status IN (...) AND scheduled_at <= now, for a pull
\* that names these queues.
Eligible(j, queues) ==
  QueueOf[j] \in queues /\ status[j] \in Waiting /\ when[j] <= clock

\* ORDER BY scheduled_at ASC, id ASC LIMIT 1.
Before(i, j) == when[i] < when[j] \/ (when[i] = when[j] /\ i < j)

First(j, queues) ==
  /\ Eligible(j, queues)
  /\ \A i \in JobId : Eligible(i, queues) /\ i # j => Before(j, i)

Queues(w) == listens[Host[w]]

Goto(w, place) == worker' = [worker EXCEPT ![w] = place]
Drop(w) ==
  /\ held' = [held EXCEPT ![w] = NoJob]
  /\ verdict' = [verdict EXCEPT ![w] = "none"]

(* pull_next: one UPDATE ... RETURNING marks the row and counts the        *)
(* attempt; the worker has not seen the row yet.                           *)
Pull(w) ==
  /\ worker[w] = "pulling"
  /\ migrated
  /\ \E j \in JobId :
       /\ First(j, Queues(w))
       /\ status' = [status EXCEPT ![j] = "Running"]
       /\ attempt' = [attempt EXCEPT ![j] = @ + 1]
       /\ held' = [held EXCEPT ![w] = j]
  /\ Goto(w, "pulled")
  /\ UNCHANGED <<migrated, limit, when, readable, listens>>
  /\ UNCHANGED <<clock, verdict, faultVars>>

(* No row is due; without queues to listen on nothing is even executed.    *)
PullNothing(w) ==
  /\ worker[w] = "pulling"
  /\ \/ Queues(w) = {}
     \/ migrated /\ ~ \E j \in JobId : Eligible(j, Queues(w))
  /\ Goto(w, "sleeping")
  /\ UNCHANGED <<rowVars, clock, held, verdict, faultVars>>

\* Mutant: a worker gives up on an error of its store.
PullErrorEnds(w) ==
  /\ worker[w] = "pulling" /\ Queues(w) # {}
  /\ Goto(w, "off")
  /\ \/ ~migrated /\ UNCHANGED errors
     \/ migrated /\ errors < MaxErrors /\ errors' = errors + 1
  /\ UNCHANGED <<rowVars, clock, held, verdict, up, stops, orphaned>>

(* The statement fails: no such table yet, a busy database.  The worker    *)
(* sleeps and tries again.                                                 *)
PullError(w) ==
  /\ worker[w] = "pulling" /\ Queues(w) # {}
  /\ Goto(w, "sleeping")
  /\ \/ ~migrated /\ UNCHANGED errors
     \/ migrated /\ errors < MaxErrors /\ errors' = errors + 1
  /\ UNCHANGED <<rowVars, clock, held, verdict, up, stops, orphaned>>

(* The row that comes back does not convert into a record: for the worker  *)
(* the pull has failed, but the UPDATE stands.                             *)
PullUnreadable(w) ==
  /\ worker[w] = "pulled"
  /\ ~readable[held[w]]
  /\ Drop(w)
  /\ Goto(w, "sleeping")
  /\ UNCHANGED <<rowVars, clock, faultVars>>

\* The time of a retry, which a backoff of millennia makes unreadable.
Postpone(j) ==
  /\ \E delay \in {0, 1} : when' = [when EXCEPT ![j] = Later(delay)]
  /\ Write(j)

\* Mutant: the row is put back as a new one, not as a retry.
SettleAsNew(w) ==
  LET j == held[w] IN
  /\ status' = [status EXCEPT ![j] =
                  IF verdict[w] = "Retrying" THEN "Pending" ELSE verdict[w]]
  /\ IF verdict[w] = "Retrying" THEN Postpone(j) ELSE UNCHANGED <<when, readable, errors>>

\* Mutant: a retry moves scheduled_at and forgets the status.
SettleTimeOnly(w) ==
  LET j == held[w] IN
  IF verdict[w] = "Retrying"
  THEN Postpone(j) /\ UNCHANGED status
  ELSE /\ status' = [status EXCEPT ![j] = verdict[w]]
       /\ UNCHANGED <<when, readable, errors>>

(* mark_completed and mark_failed: UPDATE ... WHERE id = ?, whatever the   *)
(* status of the row is.                                                   *)
Settle(w) ==
  LET j == held[w] IN
  /\ status' = [status EXCEPT ![j] = verdict[w]]
  /\ IF verdict[w] = "Retrying" THEN Postpone(j) ELSE UNCHANGED <<when, readable, errors>>

Mark(w) ==
  /\ worker[w] = "marking"
  /\ Settle(w)
  /\ Drop(w)
  /\ Goto(w, "top")
  /\ UNCHANGED <<migrated, attempt, limit, listens, clock>>
  /\ UNCHANGED <<up, stops, orphaned>>

(* The outcome is not persisted: an error is logged, the loop goes on.     *)
MarkError(w) ==
  /\ worker[w] = "marking"
  /\ errors < MaxErrors
  /\ errors' = errors + 1
  /\ orphaned' = orphaned \cup {held[w]}
  /\ Drop(w)
  /\ Goto(w, "top")
  /\ UNCHANGED <<rowVars, clock, up, stops>>

-----------------------------------------------------------------------------
(* worker_loop and dispatch_one over this store. *)

LoopTop(w) ==
  /\ worker[w] = "top"
  /\ Goto(w, IF up[Host[w]] = "up" THEN "pulling" ELSE "off")
  /\ UNCHANGED <<rowVars, clock, held, verdict, faultVars>>

WakeUp(w) ==
  /\ worker[w] = "sleeping"
  /\ Goto(w, "top")
  /\ UNCHANGED <<rowVars, clock, held, verdict, faultVars>>

\* The reply arrives; a job this process has no handler for is given up.
Dispatch(w) ==
  /\ worker[w] = "pulled"
  /\ readable[held[w]]
  /\ \/ Goto(w, "running") /\ UNCHANGED verdict
     \/ Goto(w, "marking") /\ verdict' = [verdict EXCEPT ![w] = "Dead"]
  /\ UNCHANGED <<rowVars, clock, held, faultVars>>

\* What the handler's result makes of the row.
Outcome(w) ==
  {"Completed", IF attempt[held[w]] >= limit[held[w]] THEN "Dead" ELSE "Retrying"}

Run(w) ==
  /\ worker[w] = "running"
  /\ \E v \in Outcome(w) : verdict' = [verdict EXCEPT ![w] = v]
  /\ Goto(w, "marking")
  /\ UNCHANGED <<rowVars, clock, held, faultVars>>

\* The handler panics; supervision restarts the worker.
RunPanic(w) ==
  /\ stops < MaxStops
  /\ worker[w] = "running"
  /\ orphaned' = orphaned \cup {held[w]}
  /\ stops' = stops + 1
  /\ Drop(w)
  /\ Goto(w, "top")
  /\ UNCHANGED <<rowVars, clock, up, errors>>

-----------------------------------------------------------------------------
(* Processes. *)

Held(ws) == {held[w] : w \in ws} \ {NoJob}
WorkersOf(p) == {w \in Worker : Host[w] = p}

\* The tasks of these workers are gone, with the rows in their hands.
Lose(ws) ==
  /\ orphaned' = orphaned \cup Held(ws)
  /\ worker' = [w \in Worker |-> IF w \in ws THEN "off" ELSE worker[w]]
  /\ held' = [w \in Worker |-> IF w \in ws THEN NoJob ELSE held[w]]
  /\ verdict' = [w \in Worker |-> IF w \in ws THEN "none" ELSE verdict[w]]

Shutdown(p) ==
  /\ stops < MaxStops
  /\ up[p] = "up"
  /\ up' = [up EXCEPT ![p] = "stopping"]
  /\ stops' = stops + 1
  /\ UNCHANGED <<rowVars, clock, worker, held, verdict, errors, orphaned>>

(* The signal wins a select, or the watcher aborts the task at an await: a *)
(* statement it waits for has been executed or never will be.              *)
Abort(w) ==
  /\ up[Host[w]] = "stopping"
  /\ worker[w] \in {"pulling", "pulled", "running", "marking", "sleeping"}
  /\ Lose({w})
  /\ UNCHANGED <<rowVars, clock, up, stops, errors>>

Exit(p) ==
  /\ up[p] = "stopping"
  /\ \A w \in WorkersOf(p) : worker[w] = "off"
  /\ up' = [up EXCEPT ![p] = "down"]
  /\ UNCHANGED <<rowVars, clock, worker, held, verdict, stops, errors, orphaned>>

Crash(p) ==
  /\ stops < MaxStops
  /\ up[p] # "down"
  /\ up' = [up EXCEPT ![p] = "down"]
  /\ stops' = stops + 1
  /\ Lose(WorkersOf(p))
  /\ UNCHANGED <<rowVars, clock, errors>>

\* Mutant: a start takes what it finds Running for its own, lost, work.
RestartRecovering(p) ==
  /\ up[p] = "down"
  /\ up' = [up EXCEPT ![p] = "up"]
  /\ worker' = [w \in Worker |-> IF Host[w] = p THEN "top" ELSE worker[w]]
  /\ status' = [j \in JobId |-> IF status[j] = "Running" THEN "Pending" ELSE status[j]]
  /\ UNCHANGED <<migrated, attempt, limit, when, readable, listens>>
  /\ UNCHANGED <<clock, held, verdict, stops, errors, orphaned>>

(* A new start looks at no row that is Running.                            *)
Restart(p) ==
  /\ up[p] = "down"
  /\ up' = [up EXCEPT ![p] = "up"]
  /\ worker' = [w \in Worker |-> IF Host[w] = p THEN "top" ELSE worker[w]]
  /\ UNCHANGED <<rowVars, clock, held, verdict, stops, errors, orphaned>>

Work(w) ==
  \/ LoopTop(w) \/ Pull(w) \/ PullNothing(w) \/ PullError(w) \/ WakeUp(w)
  \/ PullUnreadable(w) \/ Dispatch(w) \/ Run(w) \/ Mark(w)

Next ==
  \/ Tick \/ Migrate \/ Enqueue
  \/ \E w \in Worker : Work(w) \/ MarkError(w) \/ RunPanic(w) \/ Abort(w)
  \/ \E p \in Process : Shutdown(p) \/ Exit(p) \/ Crash(p) \/ Restart(p)

Spec == Init /\ [][Next]_vars

(* Workers run and handlers return; the clock goes on; somebody migrates   *)
(* the schema; whoever runs the processes starts them again.               *)
FairSpec ==
  /\ Spec
  /\ WF_vars(Tick) /\ WF_vars(Migrate)
  /\ \A w \in Worker : WF_vars(Work(w)) /\ WF_vars(Abort(w))
  /\ \A p \in Process : WF_vars(Exit(p)) /\ WF_vars(Restart(p))

-----------------------------------------------------------------------------
(* Every variable has its type. *)
TypeOK ==
  /\ migrated \in BOOLEAN
  /\ status \in [JobId -> {"absent", "Running"} \cup Waiting \cup Terminal]
  /\ attempt \in [JobId -> Nat]
  /\ limit \in [JobId -> Nat]
  /\ when \in [JobId -> 0 .. MaxTime]
  /\ readable \in [JobId -> BOOLEAN]
  /\ listens \in [Process -> SUBSET Queue]
  /\ clock \in 0 .. MaxTime
  /\ up \in [Process -> {"up", "stopping", "down"}]
  /\ worker \in [Worker -> {"top", "pulling", "pulled", "running", "marking",
                            "sleeping", "off"}]
  /\ held \in [Worker -> JobId \cup {NoJob}]
  /\ verdict \in [Worker -> {"none", "Completed", "Dead", "Retrying"}]
  /\ stops \in 0 .. MaxStops
  /\ errors \in 0 .. MaxErrors
  /\ orphaned \subseteq JobId

(* No two workers, of whatever processes, ever work on one row, and the    *)
(* row a worker holds is Running until that worker itself settles it: a    *)
(* start never takes the work of a process that is still alive.            *)
SoleRunner ==
  \A w \in Worker : held[w] # NoJob =>
    /\ status[held[w]] = "Running"
    /\ \A v \in Worker \ {w} : held[v] # held[w]

Sound == TypeOK /\ SoleRunner

(* A row is stuck in Running only if its worker was lost (crash, shutdown, *)
(* panic), its outcome could not be written, or it could not be read back  *)
(* by the worker that pulled it, which then never ran it.                  *)
StuckOnlyByFault ==
  \A j \in JobId :
    status[j] = "Running" /\ j \notin orphaned =>
      \/ \E w \in Worker : held[w] = j
      \/ ~readable[j]

(* The database implements JobLifecycle across crashes and restarts: no    *)
(* attempt beyond the budget, no run of a settled job.                     *)
Lifecycle == INSTANCE JobLifecycle WITH
  JobId <- JobId, Limit <- Limit, status <- status, attempt <- attempt, limit <- limit
ImplementsLifecycle == Lifecycle!Spec

(* A row somebody listens for is settled in the end, unless it is lost or  *)
(* cannot be read: by whichever process is up and listens, after whatever  *)
(* errors, crashes and restarts.                                           *)
Awaited(j) ==
  status[j] \in Waiting /\ \E w \in Worker : QueueOf[j] \in Queues(w)
RowsSettle ==
  \A j \in JobId :
    Awaited(j) ~> status[j] \in Terminal \/ j \in orphaned \/ ~readable[j]

-----------------------------------------------------------------------------
(* What the source says of itself and the code does not do. *)

(* "At-least-once delivery": a job in a durable store is delivered again   *)
(* after a crash until it is completed or its attempts are used up.        *)
AtLeastOnce ==
  \A j \in JobId : Awaited(j) ~> status[j] \in Terminal \/ ~readable[j]
=============================================================================
