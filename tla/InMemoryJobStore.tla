-------------------------- MODULE InMemoryJobStore ---------------------------
(***************************************************************************)
(* InMemoryJobStore of walastack-jobs (lib.rs): job records and one FIFO   *)
(* of job ids per queue, behind one mutex, so every operation is a single  *)
(* step.  Time is abstracted: `due` says whether a job's scheduled_at has  *)
(* come.                                                                   *)
(***************************************************************************)
EXTENDS Integers, SequencesExt

CONSTANTS
  Queue,    \* queue names
  Listed,   \* JobsConfig::queues: what workers pull from, in this order
  Limit,    \* the values of max_attempts in use
  MaxJobs,  \* bound on the jobs ever enqueued
  NoQueue   \* the queue of an id not given out yet

ASSUME StoreAssumption ==
  /\ Listed \in Seq(Queue)
  /\ Limit \subseteq Nat
  /\ MaxJobs \in Nat
  /\ NoQueue \notin Queue

JobId == 1 .. MaxJobs

VARIABLES
  nextId,   \* next_id: the last id given out
  queues,   \* queue name -> VecDeque of ids
  status,   \* JobRecord::status
  attempt,  \* JobRecord::attempt
  limit,    \* JobRecord::max_attempts
  home,     \* JobRecord::queue
  due       \* JobRecord::scheduled_at <= now

storeVars == <<nextId, queues, status, attempt, limit, home, due>>

Waiting == {"Pending", "Retrying"}
Terminal == {"Completed", "Dead"}

StoreInit ==
  /\ nextId = 0
  /\ queues = [q \in Queue |-> <<>>]
  /\ status = [j \in JobId |-> "absent"]
  /\ attempt = [j \in JobId |-> 0]
  /\ limit = [j \in JobId |-> 0]
  /\ home = [j \in JobId |-> NoQueue]
  /\ due = [j \in JobId |-> FALSE]

(* enqueue: a fresh id, a Pending record, the id at the back of queue q.   *)
(* isDue is FALSE for a scheduled_at in the future.                        *)
StoreEnqueue(q, maxAttempts, isDue) ==
  /\ nextId < MaxJobs
  /\ nextId' = nextId + 1
  /\ queues' = [queues EXCEPT ![q] = Append(@, nextId + 1)]
  /\ status' = [status EXCEPT ![nextId + 1] = "Pending"]
  /\ limit' = [limit EXCEPT ![nextId + 1] = maxAttempts]
  /\ home' = [home EXCEPT ![nextId + 1] = q]
  /\ due' = [due EXCEPT ![nextId + 1] = isDue]
  /\ UNCHANGED attempt

Eligible(j) == status[j] \in Waiting /\ due[j]

HasEligible(q) == \E i \in DOMAIN queues[q] : Eligible(queues[q][i])

\* Position i of queue q holds the first eligible id of that queue.
FirstEligible(q, i) ==
  /\ Eligible(queues[q][i])
  /\ \A h \in 1 .. i - 1 : ~Eligible(queues[q][h])

\* Queue Listed[k] is the first listed one with an eligible id.
FirstListed(k) ==
  /\ HasEligible(Listed[k])
  /\ \A h \in 1 .. k - 1 : ~HasEligible(Listed[h])

(* pull_next picked position i of queue q: take the id out of the queue,   *)
(* count the attempt, mark the record Running.                             *)
StorePull(q, i) ==
  LET j == queues[q][i]
  IN  /\ queues' = [queues EXCEPT ![q] = RemoveAt(@, i)]
      /\ attempt' = [attempt EXCEPT ![j] = @ + 1]
      /\ status' = [status EXCEPT ![j] = "Running"]
      /\ UNCHANGED <<nextId, limit, home, due>>

NothingToPull == \A k \in DOMAIN Listed : ~HasEligible(Listed[k])

(* mark_completed. *)
StoreMarkCompleted(j) ==
  /\ status' = [status EXCEPT ![j] = "Completed"]
  /\ UNCHANGED <<nextId, queues, attempt, limit, home, due>>

(* mark_failed with no next attempt. *)
StoreMarkDead(j) ==
  /\ status' = [status EXCEPT ![j] = "Dead"]
  /\ UNCHANGED <<nextId, queues, attempt, limit, home, due>>

\* Mutant: the id is not put back.
StoreMarkRetryingLost(j) ==
  /\ status' = [status EXCEPT ![j] = "Retrying"]
  /\ due' = [due EXCEPT ![j] = FALSE]
  /\ UNCHANGED <<nextId, queues, attempt, limit, home>>

\* Mutant: the record is put back as a new one.
StoreMarkPending(j) ==
  /\ status' = [status EXCEPT ![j] = "Pending"]
  /\ due' = [due EXCEPT ![j] = FALSE]
  /\ queues' = [queues EXCEPT ![home[j]] = Append(@, j)]
  /\ UNCHANGED <<nextId, attempt, limit, home>>

(* mark_failed with a next attempt: the id goes to the back of its queue   *)
(* and waits for its new scheduled_at.                                     *)
StoreMarkRetrying(j) ==
  /\ status' = [status EXCEPT ![j] = "Retrying"]
  /\ due' = [due EXCEPT ![j] = FALSE]
  /\ queues' = [queues EXCEPT ![home[j]] = Append(@, j)]
  /\ UNCHANGED <<nextId, attempt, limit, home>>

(* The clock passes a scheduled_at. *)
BecomeDue(j) ==
  /\ status[j] \in Waiting
  /\ ~due[j]
  /\ due' = [due EXCEPT ![j] = TRUE]
  /\ UNCHANGED <<nextId, queues, status, attempt, limit, home>>

-----------------------------------------------------------------------------
(* Every variable of the store has its type. *)
StoreTypeOK ==
  /\ nextId \in 0 .. MaxJobs
  /\ queues \in [Queue -> Seq(JobId)]
  /\ status \in [JobId -> {"absent", "Running"} \cup Waiting \cup Terminal]
  /\ attempt \in [JobId -> Nat]
  /\ limit \in [JobId -> Nat]
  /\ home \in [JobId -> Queue \cup {NoQueue}]
  /\ due \in [JobId -> BOOLEAN]

\* Queues hold waiting jobs of their own name only.
QueuedWait ==
  \A q \in Queue : \A i \in DOMAIN queues[q] :
    /\ home[queues[q][i]] = q
    /\ status[queues[q][i]] \in Waiting

\* No id is queued twice.
QueuedOnce == \A q \in Queue : IsInjective(queues[q])

\* A waiting job is in its queue, so that a worker can find it.
WaitingQueued ==
  \A j \in JobId : status[j] \in Waiting =>
    /\ home[j] \in Queue
    /\ \E i \in DOMAIN queues[home[j]] : queues[home[j]][i] = j

(* The queues and the records, two structures the store updates separately *)
(* in pull_next and mark_failed, agree: the queues hold exactly the        *)
(* waiting jobs, each once, in its own queue.  A queued id that is not     *)
(* waiting would never leave its queue; a waiting one not queued is lost.  *)
QueuesSound == QueuedWait /\ QueuedOnce /\ WaitingQueued
=============================================================================
