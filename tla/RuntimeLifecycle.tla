-------------------------- MODULE RuntimeLifecycle ---------------------------
(***************************************************************************)
(* Runtime::run of walastack-runtime (runtime.rs) over the supervision     *)
(* tree and the shutdown half of the EventBus (events.rs): the main task   *)
(* starts the services in order, waits for the shutdown signal, drains and *)
(* publishes RuntimeStopped, while other tasks call EventBus::shutdown.    *)
(***************************************************************************)
EXTENDS Supervision, Sequences

CONSTANTS
  Plan,             \* the services in the order the builder recorded them
  Caller,           \* tasks that call EventBus::shutdown
  Main,             \* the main task, as a caller of EventBus::shutdown
  MaxShutdownCalls  \* bound on the calls of shutdown_gracefully

ASSUME RuntimeAssumption ==
  /\ Plan \in Seq(Service)
  /\ \A i, j \in 1 .. Len(Plan) : Plan[i] = Plan[j] => i = j
  /\ Main \notin Caller
  /\ MaxShutdownCalls \in Nat \ {0}

VARIABLES
  main,      \* where the main task is
  queue,     \* services Runtime::start has not come to yet
  current,   \* the service whose start_service it awaits
  caller,    \* where every caller of EventBus::shutdown is
  stopping,  \* how many RuntimeStopping were published
  started,   \* was RuntimeStarted published?
  stopped    \* how many RuntimeStopped were published

mainVars == <<main, queue, current, started, stopped>>
busVars == <<caller, stopping>>
rvars == <<vars, mainVars, busVars>>

RInit ==
  /\ Init
  /\ main = "built"
  /\ queue = <<>>
  /\ current = NoService
  /\ caller = [c \in Caller \cup {Main} |-> "idle"]
  /\ stopping = 0
  /\ started = FALSE
  /\ stopped = 0

-----------------------------------------------------------------------------
(* EventBus::shutdown: a check, then an act, with no lock around them.     *)

CallerAt(c, from, to) ==
  /\ caller[c] = from
  /\ caller' = [caller EXCEPT ![c] = to]

ShutdownCheck(c) ==
  /\ c = Main => main = "asserting"
  /\ CallerAt(c, "idle", IF shutdown THEN "done" ELSE "checked")
  /\ UNCHANGED <<vars, mainVars, stopping>>

ShutdownFlip(c) ==
  /\ CallerAt(c, "checked", "flipped")
  /\ shutdown' = TRUE
  /\ UNCHANGED <<call, handle, watcher, attempt, last, children, aborts>>
  /\ UNCHANGED drainVars
  /\ UNCHANGED <<mainVars, stopping>>

ShutdownPublish(c) ==
  /\ CallerAt(c, "flipped", "done")
  /\ stopping' = stopping + 1
  /\ UNCHANGED <<vars, mainVars>>

-----------------------------------------------------------------------------
(* Runtime::start publishes RuntimeStarting and takes the services.        *)
BeginStart ==
  /\ main = "built"
  /\ main' = "starting"
  /\ queue' = Plan
  /\ UNCHANGED <<vars, busVars, current, started, stopped>>

CallStart ==
  /\ main = "starting"
  /\ current = NoService
  /\ queue # <<>>
  /\ StartCall(Head(queue))
  /\ current' = Head(queue)
  /\ queue' = Tail(queue)
  /\ UNCHANGED <<busVars, main, started, stopped>>

StartReturnsOk ==
  /\ current \in Service
  /\ StartOk(current)
  /\ UNCHANGED <<busVars, mainVars>>

\* start_service returned Ok: on to the next service.
ServiceIsStarted ==
  /\ current \in Service
  /\ Register(current)
  /\ current' = NoService
  /\ UNCHANGED <<busVars, main, queue, started, stopped>>

\* Mutant: the failure is logged and the next service started.
StartErrIgnored ==
  /\ current \in Service
  /\ StartErr(current)
  /\ current' = NoService
  /\ UNCHANGED <<busVars, main, queue, started, stopped>>

\* start_service returned Err: the rest of the services is dropped, and run
\* goes straight to shutdown_gracefully.
StartReturnsErr ==
  /\ current \in Service
  /\ StartErr(current)
  /\ current' = NoService
  /\ queue' = <<>>
  /\ main' = "stopping"
  /\ UNCHANGED <<busVars, started, stopped>>

\* Every service is started: publish RuntimeStarted.
FinishStart ==
  /\ main = "starting"
  /\ current = NoService
  /\ queue = <<>>
  /\ started' = TRUE
  /\ main' = "running"
  /\ UNCHANGED <<vars, busVars, queue, current, stopped>>

(* wait_for_shutdown returned, or the owner of the Runtime calls           *)
(* shutdown_gracefully by itself, possibly again.                          *)
ShutdownGracefully ==
  /\ \/ main = "running"
     \/ main = "stopped" /\ stopped < MaxShutdownCalls
  /\ main' = "stopping"
  /\ UNCHANGED <<vars, busVars, queue, current, started, stopped>>

\* `if is_shut_down() {} else { events().shutdown() }`
AssertShutdown ==
  /\ main = "stopping"
  /\ main' = IF shutdown THEN "asserted" ELSE "asserting"
  /\ UNCHANGED <<vars, busVars, queue, current, started, stopped>>

ShutdownAsserted ==
  /\ main = "asserting"
  /\ caller[Main] = "done"
  /\ main' = "asserted"
  /\ UNCHANGED <<vars, busVars, queue, current, started, stopped>>

BeginDrain ==
  /\ main = "asserted"
  /\ DrainBegin
  /\ main' = "draining"
  /\ UNCHANGED <<busVars, queue, current, started, stopped>>

\* Mutant: the watchers are awaited without a deadline.
DrainOneNoDeadline ==
  /\ main = "draining"
  /\ \E s \in Service : DrainJoin(s)
  /\ UNCHANGED <<busVars, mainVars>>

DrainOne ==
  /\ main = "draining"
  /\ \E s \in Service : DrainJoin(s) \/ DrainTimeout(s)
  /\ UNCHANGED <<busVars, mainVars>>

\* Mutant: drain is not awaited.
StopAtOnce ==
  /\ main = "draining"
  /\ drain' = FALSE
  /\ main' = "stopped"
  /\ stopped' = stopped + 1
  /\ UNCHANGED <<shutdown, call, handle, watcher, attempt, last, children,
                 aborts, draining, graceful, late>>
  /\ UNCHANGED <<busVars, queue, current, started>>

\* drain returned: publish RuntimeStopped.
Stop ==
  /\ main = "draining"
  /\ DrainEnd
  /\ main' = "stopped"
  /\ stopped' = stopped + 1
  /\ UNCHANGED <<busVars, queue, current, started>>

MainStep ==
  \/ BeginStart \/ CallStart \/ StartReturnsOk \/ ServiceIsStarted
  \/ StartReturnsErr \/ FinishStart \/ ShutdownGracefully
  \/ AssertShutdown \/ ShutdownAsserted \/ BeginDrain \/ DrainOne \/ Stop

CallerStep(c) == ShutdownCheck(c) \/ ShutdownFlip(c) \/ ShutdownPublish(c)

\* The root tasks and the watchers go their own way.
Background ==
  /\ \E s \in Service : RootExit(s) \/ PlaceholderExit(s) \/ Supervise(s)
  /\ UNCHANGED <<mainVars, busVars>>

RNext == MainStep \/ (\E c \in Caller \cup {Main} : CallerStep(c)) \/ Background

RSpec == RInit /\ [][RNext]_rvars

(* The main task and a caller that entered EventBus::shutdown keep running *)
(* and the deadline expires.  The initial start of a service may hang, a   *)
(* watcher may hang in a restart, and nobody need ask for shutdown.        *)
RFairness ==
  /\ WF_rvars(CallStart)
  /\ WF_rvars(ServiceIsStarted)
  /\ WF_rvars(FinishStart)
  /\ WF_rvars(main = "running" /\ shutdown /\ ShutdownGracefully)
  /\ WF_rvars(AssertShutdown \/ ShutdownAsserted \/ BeginDrain \/ DrainOne \/ Stop)
  /\ WF_rvars(CallerStep(Main))
  /\ \A c \in Caller : WF_rvars(ShutdownFlip(c) \/ ShutdownPublish(c))

FairRSpec == RSpec /\ RFairness

-----------------------------------------------------------------------------
(* The runtime's own variables have their types. *)
RTypeOK ==
  /\ main \in {"built", "starting", "running", "stopping", "asserting",
              "asserted", "draining", "stopped"}
  /\ queue \in Seq(Service)
  /\ current \in Service \cup {NoService}
  /\ caller \in [Caller \cup {Main} -> {"idle", "checked", "flipped", "done"}]
  /\ stopping \in Nat
  /\ started \in BOOLEAN
  /\ stopped \in 0 .. MaxShutdownCalls

(* Runtime uses the supervision tree as its module says: every step of the *)
(* runtime is a step of Supervision or leaves the tree alone.              *)
RuntimeSupervises == Spec

(* Fail-fast startup: once a service failed to start, no service after it  *)
(* in the plan is ever started, RuntimeStarted is never published, and the *)
(* services before it are the only ones up.                                *)
FailFast ==
  \A i \in 1 .. Len(Plan) : call[Plan[i]] = "failed" =>
    /\ ~started
    /\ \A j \in i + 1 .. Len(Plan) : call[Plan[j]] = "idle"
    /\ \A j \in 1 .. i - 1 : call[Plan[j]] = "started"

OwnName(s) == \A t \in Service : NameOf[t] = NameOf[s] => t = s

(* RuntimeStopped means stopped: once it is published, the watcher of a    *)
(* service that shares its name with no other has ended and its root task  *)
(* has ended or was told to, except where drain gave up at the deadline.   *)
QuietAfterStop ==
  main = "stopped" =>
    \A s \in Service \ late :
      OwnName(s) => ~Alive(s) /\ handle[s] \notin {"live", "placeholder"}

(* Runtime::run returns: once the Start phase is behind it, a shutdown     *)
(* signal leads to RuntimeStopped, even if watchers hang.                  *)
ShutdownCompletes == main = "running" /\ shutdown ~> main = "stopped"

=============================================================================
