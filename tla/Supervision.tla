----------------------------- MODULE Supervision -----------------------------
(***************************************************************************)
(* The SupervisionTree of walastack-runtime (supervision.rs): one watcher  *)
(* task per service waits for the service's root task or for the shutdown  *)
(* signal, publishes the lifecycle events and applies the RestartPolicy.   *)
(*                                                                         *)
(* Steps are the stretches of code between two await points.  Durations    *)
(* are abstracted away: a sleep may elapse, and a deadline may expire, at  *)
(* any moment.                                                             *)
(***************************************************************************)
EXTENDS Naturals, FiniteSets

CONSTANTS
  Service,   \* the registrations (Arc<dyn Service>), not their names
  Name,      \* what Service::name returns
  NameOf,    \* the name of every registration; two may share one
  Policy,    \* the RestartPolicy of every registration
  U32Max,    \* u32::MAX, where `attempt.saturating_add(1)` stops
  NoService  \* an absent entry of the children map

RestartPolicy == [kind : {"OneShot", "OnFailure", "Always"},
                  max_attempts : 0 .. U32Max]

ASSUME SupervisionAssumption ==
  /\ U32Max \in Nat \ {0}
  /\ NameOf \in [Service -> Name]
  /\ Policy \in [Service -> RestartPolicy]
  /\ NoService \notin Service
  /\ IsFiniteSet(Service)

VARIABLES
  shutdown,  \* the value of the EventBus's shutdown watch channel
  call,      \* progress of the start_service call for a registration
  handle,    \* the task behind the watcher's JoinHandle
  watcher,   \* where the watcher task is
  attempt,   \* the watcher's attempt counter
  last,      \* the last lifecycle event published about a registration
  children,  \* name -> the registration whose watcher the tree holds
  aborts,    \* watchers on which shutdown_now called abort()
  drain,     \* is a drain() call running?
  draining,  \* watchers that drain() took and has not joined yet
  graceful,  \* drain()'s count of watchers that exited in time
  late       \* watchers drain() gave up on at the deadline

vars == <<shutdown, call, handle, watcher, attempt, last, children, aborts,
          drain, draining, graceful, late>>
drainVars == <<drain, draining, graceful, late>>

-----------------------------------------------------------------------------
(* Published events.  ServiceStopped carries no attempt in the code; the   *)
(* attempt recorded here is the one whose root task exited.                *)

Event == [type : {"none", "ServiceStarted", "ServiceStopped", "ServiceFailed"},
          attempt : 0 .. U32Max, will_restart : BOOLEAN]

NoEvent == [type |-> "none", attempt |-> 0, will_restart |-> FALSE]
ServiceStarted(k) ==
  [type |-> "ServiceStarted", attempt |-> k, will_restart |-> FALSE]
ServiceStopped(k) ==
  [type |-> "ServiceStopped", attempt |-> k, will_restart |-> FALSE]
ServiceFailed(k, will) ==
  [type |-> "ServiceFailed", attempt |-> k, will_restart |-> will]

\* Mutant: the budget counts restarts instead of attempts.
PermitsOneMore(p, k, wasFailure) ==
  \/ p.kind = "Always"
  \/ p.kind = "OnFailure" /\ wasFailure /\ k <= p.max_attempts

\* RestartPolicy::permits_restart_after
PermitsRestartAfter(p, k, wasFailure) ==
  \/ p.kind = "Always"
  \/ p.kind = "OnFailure" /\ wasFailure /\ k < p.max_attempts

NextAttempt(k) == IF k = U32Max THEN U32Max ELSE k + 1

-----------------------------------------------------------------------------
Alive(s) == watcher[s] \in {"watching", "backoff", "restarting"}

Init ==
  /\ shutdown = FALSE
  /\ call = [s \in Service |-> "idle"]
  /\ handle = [s \in Service |-> "none"]
  /\ watcher = [s \in Service |-> "absent"]
  /\ attempt = [s \in Service |-> 1]
  /\ last = [s \in Service |-> NoEvent]
  /\ children = [n \in Name |-> NoService]
  /\ aborts = {}
  /\ drain = FALSE
  /\ draining = {}
  /\ graceful = 0
  /\ late = {}

(* start_service: the caller awaits Service::start. *)
StartCall(s) ==
  /\ call[s] = "idle"
  /\ call' = [call EXCEPT ![s] = "starting"]
  /\ UNCHANGED <<shutdown, handle, watcher, attempt, last, children, aborts>>
  /\ UNCHANGED drainVars

(* Service::start failed: no watcher, no event, the error goes to the      *)
(* caller.                                                                 *)
StartErr(s) ==
  /\ call[s] = "starting"
  /\ call' = [call EXCEPT ![s] = "failed"]
  /\ UNCHANGED <<shutdown, handle, watcher, attempt, last, children, aborts>>
  /\ UNCHANGED drainVars

(* Service::start returned the root task: publish and spawn the watcher.   *)
StartOk(s) ==
  /\ call[s] = "starting"
  /\ call' = [call EXCEPT ![s] = "registering"]
  /\ handle' = [handle EXCEPT ![s] = "live"]
  /\ watcher' = [watcher EXCEPT ![s] = "watching"]
  /\ last' = [last EXCEPT ![s] = ServiceStarted(1)]
  /\ UNCHANGED <<shutdown, attempt, children, aborts>>
  /\ UNCHANGED drainVars

(* Insert the watcher into the children map; an entry of the same name is  *)
(* dropped, which detaches its watcher without aborting it.                *)
Register(s) ==
  /\ call[s] = "registering"
  /\ call' = [call EXCEPT ![s] = "started"]
  /\ children' = [children EXCEPT ![NameOf[s]] = s]
  /\ UNCHANGED <<shutdown, handle, watcher, attempt, last, aborts>>
  /\ UNCHANGED drainVars

-----------------------------------------------------------------------------
(* The root task returns, panics, or is cancelled through an AbortHandle   *)
(* the service kept.  After abort() it may still finish by itself.         *)
RootExit(s) ==
  /\ handle[s] \in {"live", "aborting"}
  /\ \E how \in {"ok", "panic", "cancelled"} :
       handle' = [handle EXCEPT ![s] = how]
  /\ UNCHANGED <<shutdown, call, watcher, attempt, last, children, aborts>>
  /\ UNCHANGED drainVars

(* The empty task spawned after a failed restart runs to its end.          *)
PlaceholderExit(s) ==
  /\ handle[s] = "placeholder"
  /\ handle' = [handle EXCEPT ![s] = "ok"]
  /\ UNCHANGED <<shutdown, call, watcher, attempt, last, children, aborts>>
  /\ UNCHANGED drainVars

(* supervise: the join branch saw a cancelled root task and returns        *)
(* without an event.                                                       *)
SeeCancelled(s) ==
  /\ watcher[s] = "watching"
  /\ handle[s] = "cancelled"
  /\ watcher' = [watcher EXCEPT ![s] = "exited"]
  /\ UNCHANGED <<shutdown, call, handle, attempt, last, children, aborts>>
  /\ UNCHANGED drainVars

(* supervise: the root task returned; only Always goes on to a restart.    *)
SeeCleanExit(s) ==
  /\ watcher[s] = "watching"
  /\ handle[s] = "ok"
  /\ last' = [last EXCEPT ![s] = ServiceStopped(attempt[s])]
  /\ watcher' = [watcher EXCEPT ![s] =
                   IF PermitsRestartAfter(Policy[s], attempt[s], FALSE)
                   THEN "backoff" ELSE "exited"]
  /\ UNCHANGED <<shutdown, call, handle, attempt, children, aborts>>
  /\ UNCHANGED drainVars

\* Mutant: only failures that will be retried are published.
SeePanicQuietly(s) ==
  /\ watcher[s] = "watching"
  /\ handle[s] = "panic"
  /\ LET will == PermitsRestartAfter(Policy[s], attempt[s], TRUE)
     IN  /\ last' = [last EXCEPT ![s] =
                       IF will THEN ServiceFailed(attempt[s], TRUE) ELSE @]
         /\ watcher' = [watcher EXCEPT ![s] =
                          IF will THEN "backoff" ELSE "exited"]
  /\ UNCHANGED <<shutdown, call, handle, attempt, children, aborts>>
  /\ UNCHANGED drainVars

(* supervise: the root task panicked.                                      *)
SeePanic(s) ==
  /\ watcher[s] = "watching"
  /\ handle[s] = "panic"
  /\ LET will == PermitsRestartAfter(Policy[s], attempt[s], TRUE)
     IN  /\ last' = [last EXCEPT ![s] = ServiceFailed(attempt[s], will)]
         /\ watcher' = [watcher EXCEPT ![s] =
                          IF will THEN "backoff" ELSE "exited"]
  /\ UNCHANGED <<shutdown, call, handle, attempt, children, aborts>>
  /\ UNCHANGED drainVars

\* Mutant: the attempt is not counted.
BackoffElapsedUncounted(s) ==
  /\ watcher[s] = "backoff"
  /\ watcher' = [watcher EXCEPT ![s] = "restarting"]
  /\ UNCHANGED <<shutdown, call, handle, attempt, last, children, aborts>>
  /\ UNCHANGED drainVars

(* supervise: the backoff sleep elapsed; Service::start is called again,   *)
(* and awaited with no way to interrupt it.                                *)
BackoffElapsed(s) ==
  /\ watcher[s] = "backoff"
  /\ attempt' = [attempt EXCEPT ![s] = NextAttempt(@)]
  /\ watcher' = [watcher EXCEPT ![s] = "restarting"]
  /\ UNCHANGED <<shutdown, call, handle, last, children, aborts>>
  /\ UNCHANGED drainVars

RestartOk(s) ==
  /\ watcher[s] = "restarting"
  /\ handle' = [handle EXCEPT ![s] = "live"]
  /\ last' = [last EXCEPT ![s] = ServiceStarted(attempt[s])]
  /\ watcher' = [watcher EXCEPT ![s] = "watching"]
  /\ UNCHANGED <<shutdown, call, attempt, children, aborts>>
  /\ UNCHANGED drainVars

(* The restart failed: publish, and if the policy permits another attempt  *)
(* watch a placeholder task instead of a root task.                        *)
RestartErr(s) ==
  /\ watcher[s] = "restarting"
  /\ LET will == PermitsRestartAfter(Policy[s], attempt[s], TRUE)
     IN  /\ last' = [last EXCEPT ![s] = ServiceFailed(attempt[s], will)]
         /\ handle' = [handle EXCEPT ![s] = IF will THEN "placeholder" ELSE @]
         /\ watcher' = [watcher EXCEPT ![s] =
                          IF will THEN "watching" ELSE "exited"]
  /\ UNCHANGED <<shutdown, call, attempt, children, aborts>>
  /\ UNCHANGED drainVars

(* Service::start panicked inside the watcher, which dies of it silently.  *)
RestartPanic(s) ==
  /\ watcher[s] = "restarting"
  /\ watcher' = [watcher EXCEPT ![s] = "panicked"]
  /\ UNCHANGED <<shutdown, call, handle, attempt, last, children, aborts>>
  /\ UNCHANGED drainVars

\* Mutant: only the backoff sleep is raced against the shutdown signal.
SeeShutdownInBackoff(s) ==
  /\ shutdown
  /\ watcher[s] = "backoff"
  /\ watcher' = [watcher EXCEPT ![s] = "exited"]
  /\ UNCHANGED <<shutdown, call, handle, attempt, last, children, aborts>>
  /\ UNCHANGED drainVars

\* Mutant: the root task is left to itself.
SeeShutdownNoAbort(s) ==
  /\ shutdown
  /\ watcher[s] \in {"watching", "backoff"}
  /\ watcher' = [watcher EXCEPT ![s] = "exited"]
  /\ UNCHANGED <<shutdown, call, handle, attempt, last, children, aborts>>
  /\ UNCHANGED drainVars

(* The shutdown branch of either select!: abort the root task (a finished  *)
(* task ignores it) or leave the backoff, and return.                      *)
SeeShutdown(s) ==
  /\ shutdown
  /\ watcher[s] \in {"watching", "backoff"}
  /\ handle' = [handle EXCEPT ![s] =
                  IF watcher[s] = "backoff" THEN @
                  ELSE IF @ = "live" THEN "aborting"
                  ELSE IF @ = "placeholder" THEN "cancelled" ELSE @]
  /\ watcher' = [watcher EXCEPT ![s] = "exited"]
  /\ UNCHANGED <<shutdown, call, attempt, last, children, aborts>>
  /\ UNCHANGED drainVars

-----------------------------------------------------------------------------
(* EventBus::shutdown flips the watched value. *)
Shutdown ==
  /\ ~shutdown
  /\ shutdown' = TRUE
  /\ UNCHANGED <<call, handle, watcher, attempt, last, children, aborts>>
  /\ UNCHANGED drainVars

Supervised == {children[n] : n \in Name} \ {NoService}

\* Mutant: the map is cleared before its children are collected.
DrainBeginCleared ==
  /\ ~drain
  /\ drain' = TRUE
  /\ draining' = {}
  /\ children' = [n \in Name |-> NoService]
  /\ graceful' = 0
  /\ UNCHANGED <<shutdown, call, handle, watcher, attempt, last, aborts, late>>

(* drain: take every child out of the map. *)
DrainBegin ==
  /\ ~drain
  /\ drain' = TRUE
  /\ draining' = Supervised
  /\ children' = [n \in Name |-> NoService]
  /\ graceful' = 0
  /\ UNCHANGED <<shutdown, call, handle, watcher, attempt, last, aborts, late>>

(* timeout(deadline, watcher).await is Ok: the watcher finished, however.  *)
DrainJoin(s) ==
  /\ s \in draining
  /\ ~Alive(s)
  /\ draining' = draining \ {s}
  /\ graceful' = graceful + 1
  /\ UNCHANGED <<shutdown, call, handle, watcher, attempt, last, children,
                 aborts, drain, late>>

(* The deadline passed: the JoinHandle is dropped, the watcher goes on.    *)
DrainTimeout(s) ==
  /\ s \in draining
  /\ Alive(s)
  /\ draining' = draining \ {s}
  /\ late' = late \cup {s}
  /\ UNCHANGED <<shutdown, call, handle, watcher, attempt, last, children,
                 aborts, drain, graceful>>

DrainEnd ==
  /\ drain
  /\ draining = {}
  /\ drain' = FALSE
  /\ UNCHANGED <<shutdown, call, handle, watcher, attempt, last, children,
                 aborts, draining, graceful, late>>

(* shutdown_now: take every child out of the map and abort its watcher.    *)
ShutdownNow ==
  /\ Supervised # {}
  /\ aborts' = aborts \cup Supervised
  /\ children' = [n \in Name |-> NoService]
  /\ UNCHANGED <<shutdown, call, handle, watcher, attempt, last>>
  /\ UNCHANGED drainVars

(* The executor cancels an aborted watcher at its await point.  Its        *)
(* JoinHandle is dropped with it, so a live root task runs on unwatched.   *)
WatcherAborted(s) ==
  /\ s \in aborts
  /\ Alive(s)
  /\ watcher' = [watcher EXCEPT ![s] = "aborted"]
  /\ UNCHANGED <<shutdown, call, handle, attempt, last, children, aborts>>
  /\ UNCHANGED drainVars

-----------------------------------------------------------------------------
Supervise(s) == \* one step of the watcher task of s
  \/ SeeCancelled(s)   \/ SeeCleanExit(s) \/ SeePanic(s)
  \/ BackoffElapsed(s) \/ RestartOk(s)    \/ RestartErr(s) \/ RestartPanic(s)
  \/ SeeShutdown(s)

Next ==
  \/ \E s \in Service :
       \/ StartCall(s) \/ StartErr(s) \/ StartOk(s) \/ Register(s)
       \/ RootExit(s)  \/ PlaceholderExit(s)
       \/ Supervise(s) \/ WatcherAborted(s)
       \/ DrainJoin(s) \/ DrainTimeout(s)
  \/ Shutdown \/ DrainBegin \/ DrainEnd \/ ShutdownNow

Spec == Init /\ [][Next]_vars

(* The executor runs every runnable task, Service::start returns, and      *)
(* tokio::select! picks a ready branch at random, so a branch that is      *)
(* ready again and again is taken.  Nothing makes a root task exit by      *)
(* itself, or anybody ask for shutdown.                                    *)
Fairness ==
  /\ \A s \in Service :
       /\ WF_vars(Supervise(s))
       /\ SF_vars(SeeShutdown(s))
       /\ WF_vars(PlaceholderExit(s))
       /\ WF_vars(Register(s))
       /\ WF_vars(WatcherAborted(s))
       /\ WF_vars(DrainJoin(s) \/ DrainTimeout(s))
  /\ WF_vars(DrainEnd)

FairSpec == Spec /\ Fairness

-----------------------------------------------------------------------------
(* Every variable has its type. *)
TypeOK ==
  /\ shutdown \in BOOLEAN
  /\ call \in [Service -> {"idle", "starting", "registering", "started", "failed"}]
  /\ handle \in [Service -> {"none", "live", "aborting", "placeholder",
                             "ok", "panic", "cancelled"}]
  /\ watcher \in [Service -> {"absent", "watching", "backoff", "restarting",
                              "exited", "panicked", "aborted"}]
  /\ attempt \in [Service -> 1 .. U32Max]
  /\ last \in [Service -> Event]
  /\ children \in [Name -> Service \cup {NoService}]
  /\ aborts \subseteq Service
  /\ drain \in BOOLEAN
  /\ draining \subseteq Service
  /\ graceful \in Nat
  /\ late \subseteq Service

Final(s) == \* the event after which supervision of s is over
  \/ last[s].type = "ServiceStopped" /\ Policy[s].kind # "Always"
  \/ last[s].type = "ServiceFailed" /\ ~last[s].will_restart

(* The restart budget: OnFailure makes at most max_attempts attempts, the  *)
(* initial start included, and OneShot makes one (RestartPolicy's doc),    *)
(* whichever way root tasks and restarts fail.                             *)
WithinBudget ==
  \A s \in Service :
    /\ Policy[s].kind = "OneShot" => attempt[s] = 1
    /\ Policy[s].kind = "OnFailure" =>
         attempt[s] = 1 \/ attempt[s] <= Policy[s].max_attempts

(* Giving up is announced: a watcher that returned although nobody asked   *)
(* for shutdown and nobody cancelled the root task published as its last   *)
(* word that the service is not coming back.                               *)
ExitReported ==
  \A s \in Service :
    watcher[s] = "exited" /\ ~shutdown /\ handle[s] # "cancelled" => Final(s)

(* The events never lie about a running service: while a root task runs,   *)
(* the last event published about the service is the ServiceStarted of     *)
(* this very attempt, so a service reported stopped or failed is down.     *)
LiveRootAnnounced ==
  \A s \in Service :
    handle[s] = "live" /\ watcher[s] # "aborted"
      => last[s] = ServiceStarted(attempt[s])

(* No live watcher is forgotten: one that start_service registered is in   *)
(* the map, or in the hands of drain, or drain or shutdown_now gave it up, *)
(* or a registration of the same name took its place in the map.           *)
NoneForgotten ==
  \A s \in Service :
    call[s] = "started" /\ Alive(s) =>
      \/ children[NameOf[s]] = s
      \/ s \in draining \cup late \cup aborts
      \/ \E t \in Service \ {s} : NameOf[t] = NameOf[s] /\ call[t] = "started"

(* The events follow the protocol of ServiceLifecycle. *)
Lifecycle == INSTANCE ServiceLifecycle WITH
  Service <- Service, Policy <- Policy, U32Max <- U32Max, last <- last
EventProtocol == Lifecycle!Spec

(* After shutdown every watcher ends, unless a restart's Service::start    *)
(* never returns (the fairness rules that out).                            *)
ShutdownEndsWatchers ==
  \A s \in Service : shutdown /\ Alive(s) ~> ~Alive(s)

-----------------------------------------------------------------------------
(* What the source says of itself and the code does not do. *)

(* "If the policy permits restart, `Started` is published again after the  *)
(* backoff" and "Failed-to-start counts as a failure; loop will compute    *)
(* backoff and retry": what follows ServiceFailed with will_restart is a   *)
(* ServiceStarted or the next failed attempt.                              *)
WillRestartHonoured ==
  [][\A s \in Service :
       last[s].type = "ServiceFailed" /\ last[s].will_restart
         => last'[s].type \in {"ServiceFailed", "ServiceStarted"}]_vars

=============================================================================
