----------------------------- MODULE JobWorkers ------------------------------
(***************************************************************************)
(* The worker pool of walastack-jobs (lib.rs) over the in-memory store:    *)
(* worker_loop and dispatch_one, the enqueue helper, and what the          *)
(* supervision tree does to a worker (restart after a panic, abort at      *)
(* shutdown).  Steps end at await points and where another thread can see  *)
(* an event or the store between two effects.                              *)
(***************************************************************************)
EXTENDS InMemoryJobStore

CONSTANTS
  Worker,        \* the jobs-worker-<i> services
  MayKnow,       \* sets of jobs whose name may be registered, and only theirs
  Hanging,       \* those whose handler may never return, and no timeout
  HandlersPanic, \* may Job::run panic?
  MayShutDown,   \* may the kernel shut down?
  NoJob

ASSUME WorkersAssumption ==
  /\ MayKnow \subseteq SUBSET JobId
  /\ Hanging \subseteq JobId
  /\ HandlersPanic \in BOOLEAN
  /\ MayShutDown \in BOOLEAN
  /\ NoJob \notin JobId

VARIABLES
  known,     \* the jobs whose name has a registered handler
  shutdown,  \* the kernel's shutdown signal
  worker,    \* where every worker task is
  held,      \* the id of the record a worker pulled and has not settled yet
  taken,     \* the attempt in its copy of that record
  verdict,   \* what dispatch_one is about to tell the store
  enqueued,  \* jobs whose JobEnqueued was published
  last,      \* last other event published about a job
  panicked   \* jobs whose handler panicked (history)

kernelVars == <<known, shutdown>>
workerVars == <<kernelVars, worker, held, taken, verdict, enqueued, last, panicked>>
vars == <<storeVars, workerVars>>

JobEvent == [type : {"none", "JobStarted", "JobCompleted", "JobRetrying", "JobDead"},
             attempt : Nat]

Init ==
  /\ StoreInit
  /\ known \in MayKnow
  /\ shutdown = FALSE
  /\ worker = [w \in Worker |-> "top"]
  /\ held = [w \in Worker |-> NoJob]
  /\ taken = [w \in Worker |-> 0]
  /\ verdict = [w \in Worker |-> "none"]
  /\ enqueued = {}
  /\ last = [j \in JobId |-> [type |-> "none", attempt |-> 0]]
  /\ panicked = {}

Goto(w, place) == worker' = [worker EXCEPT ![w] = place]

\* The worker's copy of the record goes out of scope.
Drop(w) ==
  /\ held' = [held EXCEPT ![w] = NoJob]
  /\ taken' = [taken EXCEPT ![w] = 0]

-----------------------------------------------------------------------------
(* The enqueue helper: the store first, the event after it.                *)
Enqueue ==
  /\ \E q \in Queue, m \in Limit, isDue \in BOOLEAN : StoreEnqueue(q, m, isDue)
  /\ UNCHANGED workerVars

PublishEnqueued(j) ==
  /\ j <= nextId
  /\ j \notin enqueued
  /\ enqueued' = enqueued \cup {j}
  /\ UNCHANGED <<storeVars, kernelVars, worker, held, taken, verdict, last, panicked>>

Shutdown ==
  /\ MayShutDown
  /\ ~shutdown
  /\ shutdown' = TRUE
  /\ UNCHANGED <<storeVars, known, worker, held, taken, verdict, enqueued, last, panicked>>

Tick == \E j \in JobId : BecomeDue(j) /\ UNCHANGED workerVars

-----------------------------------------------------------------------------
(* worker_loop: the is_shut_down test at the top.                          *)
LoopTop(w) ==
  /\ worker[w] = "top"
  /\ Goto(w, IF shutdown THEN "stopped" ELSE "pulling")
  /\ UNCHANGED <<storeVars, kernelVars, held, taken, verdict, enqueued, last, panicked>>

\* Mutant: the record is copied before its attempt is counted.
PullStale(w) ==
  /\ worker[w] = "pulling"
  /\ \E k \in DOMAIN Listed :
       /\ FirstListed(k)
       /\ \E i \in DOMAIN queues[Listed[k]] :
            /\ FirstEligible(Listed[k], i)
            /\ StorePull(Listed[k], i)
            /\ LET j == queues[Listed[k]][i]
               IN  /\ held' = [held EXCEPT ![w] = j]
                   /\ taken' = [taken EXCEPT ![w] = attempt[j]]
  /\ Goto(w, "pulled")
  /\ UNCHANGED <<kernelVars, verdict, enqueued, last, panicked>>

(* select! evaluates its branch expressions before it polls any of them,   *)
(* so pull_next has changed the store when the branches are polled.        *)
Pull(w) ==
  /\ worker[w] = "pulling"
  /\ \E k \in DOMAIN Listed :
       /\ FirstListed(k)
       /\ \E i \in DOMAIN queues[Listed[k]] :
            /\ FirstEligible(Listed[k], i)
            /\ StorePull(Listed[k], i)
            /\ LET j == queues[Listed[k]][i]
               IN  /\ held' = [held EXCEPT ![w] = j]
                   /\ taken' = [taken EXCEPT ![w] = attempt'[j]]
  /\ Goto(w, "pulled")
  /\ UNCHANGED <<kernelVars, verdict, enqueued, last, panicked>>

PullNothing(w) ==
  /\ worker[w] = "pulling"
  /\ NothingToPull
  /\ Goto(w, "sleeping")
  /\ UNCHANGED <<storeVars, kernelVars, held, taken, verdict, enqueued, last, panicked>>

(* The shutdown branch won: the loop breaks, the pulled record is dropped. *)
DropPulled(w) ==
  /\ worker[w] = "pulled"
  /\ shutdown
  /\ Goto(w, "stopped")
  /\ Drop(w)
  /\ UNCHANGED <<storeVars, kernelVars, verdict, enqueued, last, panicked>>

WakeUp(w) ==
  /\ worker[w] = "sleeping"
  /\ Goto(w, "top")
  /\ UNCHANGED <<storeVars, kernelVars, held, taken, verdict, enqueued, last, panicked>>

SleepShutdown(w) ==
  /\ worker[w] = "sleeping"
  /\ shutdown
  /\ Goto(w, "stopped")
  /\ UNCHANGED <<storeVars, kernelVars, held, taken, verdict, enqueued, last, panicked>>

-----------------------------------------------------------------------------
Publish(w, type) ==
  last' = [last EXCEPT ![held[w]] = [type |-> type, attempt |-> taken[w]]]

(* dispatch_one: no handler for the name.  JobFailed and JobDead are       *)
(* published whatever the attempts left.                                   *)
DispatchUnknown(w) ==
  /\ worker[w] = "pulled"
  /\ held[w] \notin known
  /\ Publish(w, "JobDead")
  /\ verdict' = [verdict EXCEPT ![w] = "Dead"]
  /\ Goto(w, "marking")
  /\ UNCHANGED <<storeVars, kernelVars, held, taken, enqueued, panicked>>

(* dispatch_one: publish JobStarted and await the handler.                 *)
Dispatch(w) ==
  /\ worker[w] = "pulled"
  /\ held[w] \in known
  /\ Publish(w, "JobStarted")
  /\ Goto(w, "running")
  /\ UNCHANGED <<storeVars, kernelVars, held, taken, verdict, enqueued, panicked>>

RunOk(w) ==
  /\ worker[w] = "running"
  /\ Publish(w, "JobCompleted")
  /\ verdict' = [verdict EXCEPT ![w] = "Completed"]
  /\ Goto(w, "marking")
  /\ UNCHANGED <<storeVars, kernelVars, held, taken, enqueued, panicked>>

\* Mutant: event and store judge the attempts differently.
RunErrTwoMinds(w) ==
  /\ worker[w] = "running"
  /\ Publish(w, IF taken[w] > limit[held[w]] THEN "JobDead" ELSE "JobRetrying")
  /\ verdict' = [verdict EXCEPT ![w] =
                   IF taken[w] >= limit[held[w]] THEN "Dead" ELSE "Retrying"]
  /\ Goto(w, "marking")
  /\ UNCHANGED <<storeVars, kernelVars, held, taken, enqueued, panicked>>

(* The handler failed, its payload did not deserialize, or it exceeded its *)
(* timeout: JobFailed, then JobDead or JobRetrying.                        *)
RunErr(w) ==
  /\ worker[w] = "running"
  /\ LET dead == taken[w] >= limit[held[w]]
     IN  /\ Publish(w, IF dead THEN "JobDead" ELSE "JobRetrying")
         /\ verdict' = [verdict EXCEPT ![w] = IF dead THEN "Dead" ELSE "Retrying"]
  /\ Goto(w, "marking")
  /\ UNCHANGED <<storeVars, kernelVars, held, taken, enqueued, panicked>>

(* The event is out, now the store is told; then the loop starts over.     *)
Mark(w) ==
  /\ worker[w] = "marking"
  /\ CASE verdict[w] = "Completed" -> StoreMarkCompleted(held[w])
       [] verdict[w] = "Dead"      -> StoreMarkDead(held[w])
       [] verdict[w] = "Retrying"  -> StoreMarkRetrying(held[w])
  /\ Drop(w)
  /\ verdict' = [verdict EXCEPT ![w] = "none"]
  /\ Goto(w, "top")
  /\ UNCHANGED <<kernelVars, enqueued, last, panicked>>

-----------------------------------------------------------------------------
(* The handler panics, and the worker's root task with it.                 *)
RunPanic(w) ==
  /\ HandlersPanic
  /\ worker[w] = "running"
  /\ panicked' = panicked \cup {held[w]}
  /\ Drop(w)
  /\ Goto(w, "crashed")
  /\ UNCHANGED <<storeVars, kernelVars, verdict, enqueued, last>>

(* Supervision restarts it: OnFailure with u32::MAX attempts.              *)
Respawn(w) ==
  /\ worker[w] = "crashed"
  /\ Goto(w, "top")
  /\ UNCHANGED <<storeVars, kernelVars, held, taken, verdict, enqueued, last, panicked>>

(* At shutdown the watcher aborts the root task at an await point, or ends *)
(* its backoff; whatever the task held is dropped.                         *)
Abort(w) ==
  /\ shutdown
  /\ worker[w] \in {"running", "sleeping", "crashed"}
  /\ Goto(w, "stopped")
  /\ Drop(w)
  /\ UNCHANGED <<storeVars, kernelVars, verdict, enqueued, last, panicked>>

Work(w) == \* the steps of worker w that are not up to the handler
  \/ LoopTop(w) \/ Pull(w) \/ PullNothing(w) \/ DropPulled(w)
  \/ WakeUp(w)  \/ SleepShutdown(w)
  \/ DispatchUnknown(w) \/ Dispatch(w) \/ Mark(w)
  \/ Respawn(w)

Run(w) == RunOk(w) \/ RunErr(w) \/ RunPanic(w)

Next ==
  \/ Enqueue \/ Shutdown \/ Tick
  \/ \E j \in JobId : PublishEnqueued(j)
  \/ \E w \in Worker : Work(w) \/ Run(w) \/ Abort(w)

Spec == Init /\ [][Next]_vars

(* Workers run, the clock goes on, watchers abort at shutdown, and all     *)
(* handlers but the hanging ones return, fail, time out or panic.  Nothing *)
(* makes anybody enqueue a job or shut down.                               *)
Fairness ==
  /\ \A w \in Worker :
       /\ WF_vars(Work(w))
       /\ WF_vars(Abort(w))
       /\ WF_vars(held[w] \notin Hanging /\ Run(w))
  /\ \A j \in JobId : WF_vars(BecomeDue(j) /\ UNCHANGED workerVars)

FairSpec == Spec /\ Fairness

-----------------------------------------------------------------------------
(* Every variable has its type. *)
TypeOK ==
  /\ StoreTypeOK
  /\ known \in MayKnow
  /\ shutdown \in BOOLEAN
  /\ worker \in [Worker -> {"top", "pulling", "pulled", "running", "marking",
                            "sleeping", "crashed", "stopped"}]
  /\ held \in [Worker -> JobId \cup {NoJob}]
  /\ taken \in [Worker -> Nat]
  /\ verdict \in [Worker -> {"none", "Completed", "Dead", "Retrying"}]
  /\ enqueued \subseteq JobId
  /\ last \in [JobId -> JobEvent]
  /\ panicked \subseteq JobId

(* The map of records and the queues never disagree, whichever worker is   *)
(* between which two operations: see QueuesSound.                          *)
Sound == TypeOK /\ QueuesSound

(* Mutual exclusion: no two workers ever hold the same job, and whoever    *)
(* holds one works on the store's current attempt of a Running record.     *)
HolderUnique ==
  \A w \in Worker : held[w] # NoJob =>
    /\ status[held[w]] = "Running"
    /\ taken[w] = attempt[held[w]]
    /\ \A v \in Worker \ {w} : held[v] # held[w]

(* The store never runs ahead of the events: whatever outcome the store    *)
(* records was published before, with the attempt that produced it.        *)
OutcomePublished ==
  \A j \in JobId :
    /\ status[j] = "Completed" => last[j] = [type |-> "JobCompleted", attempt |-> attempt[j]]
    /\ status[j] = "Dead"      => last[j] = [type |-> "JobDead", attempt |-> attempt[j]]
    /\ status[j] = "Retrying"  => last[j] = [type |-> "JobRetrying", attempt |-> attempt[j]]

(* Store and workers together implement JobLifecycle: only the holder of a *)
(* Running job settles it, no attempt beyond the budget begins, and a      *)
(* settled job never runs again.                                           *)
Lifecycle == INSTANCE JobLifecycle WITH
  JobId <- JobId, Limit <- Limit, status <- status, attempt <- attempt, limit <- limit
ImplementsLifecycle == Lifecycle!Spec

OnListed(j) == home[j] \in {Listed[k] : k \in DOMAIN Listed}

(* A job in a listed queue is completed or given up in the end, even when  *)
(* the handlers of other jobs hang, as long as they leave a worker: it is  *)
(* not lost between the attempts, unless its handler panics or the kernel  *)
(* shuts down.                                                             *)
JobsSettle ==
  \A j \in JobId \ Hanging :
    status[j] \in Waiting /\ OnListed(j)
      ~> status[j] \in Terminal \/ shutdown \/ j \in panicked

=============================================================================
