---------------------------- MODULE Observability ----------------------------
(***************************************************************************)
(* walastack-observability: the recorder, a supervised service that        *)
(* subscribes to every kernel event type at its start, and the health      *)
(* registry it keeps.  A type has a channel of its own, and select! takes  *)
(* from a ready one at random, so events of different types are handled in *)
(* any order; a channel that overflows drops its oldest event, and the     *)
(* Lagged error that says so is ignored.  What supervision publishes is    *)
(* what ServiceLifecycle says it does; its first starts follow the plan.   *)
(***************************************************************************)
EXTENDS Naturals, Sequences

CONSTANTS
    Service, Policy, U32Max,   \* as in ServiceLifecycle
    Plan,         \* the services in the order Runtime::start takes them
    Recorder,     \* "observability", one of them
    TaskType,     \* the scheduler's event types
    Untracked,    \* no entry in ObservabilityState.services
    Capacity,     \* of a broadcast channel
    MaxPublished  \* bound: events of one type while the recorder listens

VARIABLES
    last,         \* supervision: service -> the last event about it
    announced,    \* the kernel: the Runtime events published
    signal,       \* the kernel: its shutdown signal
    recording,    \* is the recorder's loop running?
    channel,      \* event type -> what its subscription holds
    lagged,       \* event types whose next recv is Err(Lagged)
    services,     \* ObservabilityState
    counts,
    phase,
    published,    \* reference: event type -> events since the subscription
    about,        \* reference: service -> its starts and failures among them
    overflowed    \* reference: event types that lost an event

kernelVars == <<announced, signal>>
stateVars == <<services, counts, phase>>
refVars == <<published, about, overflowed>>
vars == <<last, kernelVars, recording, channel, lagged, stateVars, refVars>>

RuntimeType == {"RuntimeStarted", "RuntimeStopping", "RuntimeStopped"}
ServiceType == {"ServiceStarted", "ServiceStopped", "ServiceFailed"}
Type == RuntimeType \cup ServiceType \cup TaskType

\* What ObservabilityState.services holds of a service.
Health == [status : {"Ok", "Degraded", "Failed"}, starts : Nat, failures : Nat]

ASSUME ObservabilityAssumption ==
    /\ Recorder \in Service
    /\ Capacity \in Nat \ {0}
    /\ TaskType \cap (RuntimeType \cup ServiceType) = {}
    /\ Untracked \notin Health

Supervised == INSTANCE ServiceLifecycle
                WITH Service <- Service, Policy <- Policy, U32Max <- U32Max,
                     last <- last

Init ==
    /\ Supervised!Init
    /\ announced = {}
    /\ signal = FALSE
    /\ recording = FALSE
    /\ channel = [t \in Type |-> << >>]
    /\ lagged = {}
    /\ services = [s \in Service |-> Untracked]
    /\ counts = [t \in Type |-> 0]
    /\ phase = "Initializing"
    /\ published = [t \in Type |-> 0]
    /\ about = [s \in Service |-> [starts |-> 0, failures |-> 0]]
    /\ overflowed = {}

-----------------------------------------------------------------------------
(* EventBus::publish, as far as the recorder's subscriptions go.           *)

Publish(t, event) ==
    IF recording
    THEN /\ published[t] < MaxPublished
         /\ published' = [published EXCEPT ![t] = @ + 1]
         /\ LET full == Len(channel[t]) = Capacity
                kept == IF full THEN Tail(channel[t]) ELSE channel[t]
            IN  /\ channel' = [channel EXCEPT ![t] = Append(kept, event)]
                /\ lagged' = IF full THEN lagged \cup {t} ELSE lagged
                /\ overflowed' = IF full THEN overflowed \cup {t} ELSE overflowed
    ELSE UNCHANGED <<channel, lagged, published, overflowed>>

Started(s) == last[s] # Supervised!NoEvent

\* The recorder subscribes in its start, before its ServiceStarted.
Subscribe ==
    /\ ~recording /\ ~Started(Recorder)
    /\ \A i \in 1 .. Len(Plan) :
          Plan[i] = Recorder => \A j \in 1 .. i - 1 : Started(Plan[j])
    /\ recording' = TRUE
    /\ UNCHANGED <<last, kernelVars, channel, lagged, stateVars, refVars>>

InOrder(s) ==
    ~Started(s) =>
        /\ \A i \in 1 .. Len(Plan) :
              Plan[i] = s => \A j \in 1 .. i - 1 : Started(Plan[j])
        /\ s = Recorder => recording

\* A step of the supervision of s, which publishes the event it leaves in
\* last; the recorder ends by the shutdown signal alone, without an event.
ServiceEvent(s) ==
    /\ InOrder(s) /\ (s = Recorder => ~Started(s))
    /\ Supervised!Next /\ last'[s] # last[s]
    /\ LET event == last'[s]
       IN  /\ Publish(event.type, [name |-> s, will_restart |-> event.will_restart])
           /\ about' = IF ~recording THEN about
                       ELSE IF event.type = "ServiceStarted"
                            THEN [about EXCEPT ![s].starts = @ + 1]
                       ELSE IF event.type = "ServiceFailed"
                            THEN [about EXCEPT ![s].failures = @ + 1]
                       ELSE about
    /\ UNCHANGED <<kernelVars, recording, stateVars>>

TaskEvent(t) ==
    /\ Publish(t, t)
    /\ recording
    /\ UNCHANGED <<last, kernelVars, recording, stateVars, about>>

RuntimeEvent(t) ==
    /\ t \notin announced
    /\ CASE t = "RuntimeStarted" -> \A s \in Service : Started(s)
         [] t = "RuntimeStopping" -> signal
         [] t = "RuntimeStopped" -> "RuntimeStopping" \in announced
    /\ announced' = announced \cup {t}
    /\ Publish(t, t)
    /\ UNCHANGED <<last, signal, recording, stateVars, about>>

Signal ==
    /\ ~signal
    /\ signal' = TRUE
    /\ UNCHANGED <<last, announced, recording, channel, lagged, stateVars, refVars>>

-----------------------------------------------------------------------------
(* The handlers of ObservabilityState.                                     *)

Entry(s, status) ==
    IF services[s] = Untracked
    THEN [status |-> status, starts |-> 0, failures |-> 0] ELSE services[s]

\* Mutant: the entry of a service that starts is a new one.
OnServiceStartedAnew(s) ==
    [services EXCEPT ![s] = [status |-> "Ok", starts |-> Entry(s, "Ok").starts + 1,
                             failures |-> 0]]

OnServiceStarted(s) ==
    [services EXCEPT ![s] = [Entry(s, "Ok") EXCEPT !.status = "Ok", !.starts = @ + 1]]

OnServiceStopped(s) ==
    IF services[s] = Untracked THEN services
    ELSE [services EXCEPT ![s].status = "Ok"]

\* Mutant: every failure is terminal until the service starts again.
OnServiceFailedTerminally(s, will_restart) ==
    [services EXCEPT ![s] = [Entry(s, "Failed") EXCEPT !.failures = @ + 1,
                                                       !.status = "Failed"]]

OnServiceFailed(s, will_restart) ==
    [services EXCEPT ![s] =
        [Entry(s, "Failed") EXCEPT
            !.failures = @ + 1,
            !.status = IF will_restart THEN "Degraded" ELSE "Failed"]]

PhaseOf(t) ==
    CASE t = "RuntimeStarted" -> "Running"
      [] t = "RuntimeStopping" -> "Stopping"
      [] t = "RuntimeStopped" -> "Stopped"

\* One turn of the loop: an event of type t is received and handled.
Receive(t) ==
    /\ recording /\ t \notin lagged /\ channel[t] # << >>
    /\ LET event == Head(channel[t])
       IN  /\ services' =
                CASE t = "ServiceStarted" -> OnServiceStarted(event.name)
                  [] t = "ServiceStopped" -> OnServiceStopped(event.name)
                  [] t = "ServiceFailed" ->
                        OnServiceFailed(event.name, event.will_restart)
                  [] OTHER -> services
    /\ phase' = IF t \in RuntimeType THEN PhaseOf(t) ELSE phase
    /\ counts' = IF t \in RuntimeType THEN counts
                 ELSE [counts EXCEPT ![t] = @ + 1]
    /\ channel' = [channel EXCEPT ![t] = Tail(@)]
    /\ UNCHANGED <<last, kernelVars, recording, lagged, refVars>>

\* recv returned Err(Lagged), which no branch looks at.
SkipLagged(t) ==
    /\ recording /\ t \in lagged
    /\ lagged' = lagged \ {t}
    /\ UNCHANGED <<last, kernelVars, recording, channel, stateVars, refVars>>

\* The shutdown branch: the loop ends and its subscriptions are dropped.
SeeShutdown ==
    /\ recording /\ signal /\ Started(Recorder)
    /\ recording' = FALSE
    /\ channel' = [t \in Type |-> << >>]
    /\ lagged' = {}
    /\ UNCHANGED <<last, kernelVars, stateVars, refVars>>

Next ==
    \/ Subscribe \/ Signal \/ SeeShutdown
    \/ \E s \in Service : ServiceEvent(s)
    \/ \E t \in TaskType : TaskEvent(t)
    \/ \E t \in RuntimeType : RuntimeEvent(t)
    \/ \E t \in Type : Receive(t) \/ SkipLagged(t)

Spec == Init /\ [][Next]_vars

-----------------------------------------------------------------------------
(* HealthRegistry.                                                         *)

Tracked == {s \in Service : services[s] # Untracked}

overall ==
    IF Tracked = {} THEN "Unknown"
    ELSE IF \E s \in Tracked : services[s].status = "Failed" THEN "Failed"
    ELSE IF \E s \in Tracked : services[s].status = "Degraded" THEN "Degraded"
    ELSE "Ok"

-----------------------------------------------------------------------------
(* Properties.                                                             *)

GivenUp(s) == last[s].type = "ServiceFailed" /\ ~last[s].will_restart

\* "Failed" is no false alarm, in whatever order the events were handled and
\* whichever were lost: some service has failed and will not be restarted
\* (on_service_failed, overall).
NoFalseAlarm == overall = "Failed" => \E s \in Service : GivenUp(s)

\* Whatever the order in which the channels are emptied, once the recorder has
\* caught up its totals, and the starts and failures of every service, are
\* what was published since it subscribed, unless a channel overflowed
\* (ObservabilityService::start, on_service_started, on_service_failed).
CaughtUp(t) == recording /\ channel[t] = << >> /\ t \notin overflowed
Tally ==
    /\ \A t \in Type \ RuntimeType : CaughtUp(t) => counts[t] = published[t]
    /\ \A s \in Tracked :
          /\ CaughtUp("ServiceStarted") => services[s].starts = about[s].starts
          /\ CaughtUp("ServiceFailed") => services[s].failures = about[s].failures
=============================================================================
