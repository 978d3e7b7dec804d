----------------------- MODULE RuntimeLifecycleProofs ------------------------
(***************************************************************************)
(* Part I proves what Supervision's runs check on small instances, for any *)
(* set of services, names, policies and any U32Max.  Part II proves that   *)
(* the runtime uses the supervision tree by its rules, so everything       *)
(* proved of Supervision holds in it; and that RuntimeStopped means what   *)
(* it says, for any plan, any callers and any services.                    *)
(***************************************************************************)
EXTENDS RuntimeLifecycle, Integers, TLAPS

(***************************************************************************)
(* Part I: the supervision tree, as Spec of Supervision has it.            *)
(***************************************************************************)

LEMMA Bounds == U32Max \in Nat /\ 1 \in 1 .. U32Max
BY SupervisionAssumption DEF SupervisionAssumption

LEMMA PermitsBoolean ==
  ASSUME NEW p, NEW k, NEW f PROVE PermitsRestartAfter(p, k, f) \in BOOLEAN
BY DEF PermitsRestartAfter

(* What supervision publishes are events. *)
LEMMA Events ==
  ASSUME NEW k \in 1 .. U32Max, NEW will \in BOOLEAN
  PROVE  /\ NoEvent \in Event
         /\ ServiceStarted(k) \in Event
         /\ ServiceStopped(k) \in Event
         /\ ServiceFailed(k, will) \in Event
<1>. k \in 0 .. U32Max /\ 0 \in 0 .. U32Max
  BY Bounds
<1>. QED
  BY Zenon DEF Event, NoEvent, ServiceStarted, ServiceStopped, ServiceFailed

(* Every variable has its type in every reachable state. *)
LEMMA TypeInit == Init => TypeOK
<1>. SUFFICES ASSUME Init PROVE TypeOK
  OBVIOUS
<1>. USE DEF Init
<1>1. last \in [Service -> Event] /\ attempt \in [Service -> 1 .. U32Max]
  BY Bounds, Events
<1>2. /\ call \in [Service -> {"idle", "starting", "registering", "started", "failed"}]
      /\ handle \in [Service -> {"none", "live", "aborting", "placeholder",
                                 "ok", "panic", "cancelled"}]
      /\ watcher \in [Service -> {"absent", "watching", "backoff", "restarting",
                                  "exited", "panicked", "aborted"}]
  OBVIOUS
<1>3. children \in [Name -> Service \cup {NoService}]
  OBVIOUS
<1>. QED
  BY <1>1, <1>2, <1>3 DEF TypeOK

LEMMA TypeStep == TypeOK /\ [Next]_vars => TypeOK'
<1>. SUFFICES ASSUME TypeOK, [Next]_vars PROVE TypeOK'
  OBVIOUS
<1>. USE Bounds DEF TypeOK, drainVars
<1>1. ASSUME NEW s \in Service, StartCall(s) \/ StartErr(s) \/ Register(s)
      PROVE  TypeOK'
  BY <1>1 DEF StartCall, StartErr, Register
<1>2. ASSUME NEW s \in Service, StartOk(s)
      PROVE  TypeOK'
  <2>1. ServiceStarted(1) \in Event
    BY Events
  <2>. QED
    BY <1>2, <2>1 DEF StartOk
<1>3. ASSUME NEW s \in Service, RootExit(s) \/ PlaceholderExit(s)
      PROVE  TypeOK'
  BY <1>3 DEF RootExit, PlaceholderExit
<1>4. ASSUME NEW s \in Service, SeeCancelled(s) \/ SeeShutdown(s) \/ RestartPanic(s)
      PROVE  TypeOK'
  BY <1>4 DEF SeeCancelled, SeeShutdown, RestartPanic
<1>5. ASSUME NEW s \in Service, SeeCleanExit(s) \/ SeePanic(s) \/ RestartOk(s)
      PROVE  TypeOK'
  <2>1. CASE SeeCleanExit(s)
    BY <2>1, Events DEF SeeCleanExit
  <2>2. CASE SeePanic(s)
    <3>1. last' \in [Service -> Event]
      BY <2>2, Events, PermitsBoolean DEF SeePanic
    <3>. QED
      BY <2>2, <3>1 DEF SeePanic
  <2>3. CASE RestartOk(s)
    BY <2>3, Events DEF RestartOk
  <2>. QED
    BY <1>5, <2>1, <2>2, <2>3
<1>6. ASSUME NEW s \in Service, BackoffElapsed(s)
      PROVE  TypeOK'
  BY <1>6 DEF BackoffElapsed, NextAttempt
<1>7. ASSUME NEW s \in Service, RestartErr(s)
      PROVE  TypeOK'
  <2>1. last' \in [Service -> Event]
    BY <1>7, Events, PermitsBoolean DEF RestartErr
  <2>. QED
    BY <1>7, <2>1 DEF RestartErr
<1>8. ASSUME NEW s \in Service, WatcherAborted(s) \/ DrainJoin(s) \/ DrainTimeout(s)
      PROVE  TypeOK'
  BY <1>8 DEF WatcherAborted, DrainJoin, DrainTimeout
<1>9. CASE Shutdown \/ DrainEnd
  BY <1>9 DEF Shutdown, DrainEnd
<1>10. CASE DrainBegin \/ ShutdownNow
  <2>1. Supervised \subseteq Service
    BY DEF Supervised
  <2>2. children' \in [Name -> Service \cup {NoService}]
    BY <1>10 DEF DrainBegin, ShutdownNow
  <2>. QED
    <3>1. CASE DrainBegin
      BY <3>1, <2>1, <2>2 DEF DrainBegin
    <3>2. CASE ShutdownNow
      BY <3>2, <2>1, <2>2 DEF ShutdownNow
    <3>. QED
      BY <1>10, <3>1, <3>2
<1>11. CASE UNCHANGED vars
  BY <1>11 DEF vars
<1>. QED
  BY <1>1, <1>2, <1>3, <1>4, <1>5, <1>6, <1>7, <1>8, <1>9, <1>10, <1>11
  DEF Next, Supervise

THEOREM TypeCorrect == Spec => []TypeOK
BY TypeInit, TypeStep, PTL DEF Spec

-----------------------------------------------------------------------------
(***************************************************************************)
(* The inductive invariant.  Everything is about one service at a time:    *)
(* what its watcher, its counter and its last event say of each other at   *)
(* every place the watcher can be.                                         *)
(***************************************************************************)

\* Until start_service has a root task, nothing has happened to s.
Untouched(s) ==
  call[s] \in {"idle", "starting", "failed"} =>
    /\ watcher[s] = "absent"
    /\ handle[s] = "none"
    /\ attempt[s] = 1
    /\ last[s] = NoEvent

\* WithinBudget, and in a backoff there is still an attempt to make.
Budget(s) ==
  /\ Policy[s].kind = "OneShot" =>
       attempt[s] = 1 /\ watcher[s] \notin {"backoff", "restarting"}
  /\ Policy[s].kind = "OnFailure" =>
       /\ attempt[s] = 1 \/ attempt[s] <= Policy[s].max_attempts
       /\ watcher[s] = "backoff" => attempt[s] < Policy[s].max_attempts

\* The last event leaves room for a restart.
RestartDue(s) ==
  \/ last[s].type = "ServiceFailed" /\ last[s].will_restart
  \/ last[s].type = "ServiceStopped" /\ Policy[s].kind = "Always"

\* How the last event and the counter relate at each place of the watcher.
InStep(s) ==
  /\ watcher[s] = "watching" =>
       \/ last[s] = ServiceStarted(attempt[s])
       \/ last[s] = ServiceFailed(attempt[s], TRUE) /\ handle[s] \in {"placeholder", "ok"}
  /\ watcher[s] \in {"backoff", "restarting"} =>
       handle[s] \in {"ok", "panic"} /\ RestartDue(s)
  /\ watcher[s] = "backoff" => last[s].attempt = attempt[s]
  /\ watcher[s] = "restarting" => NextAttempt(last[s].attempt) = attempt[s]
  /\ handle[s] = "live" /\ watcher[s] # "aborted"
       => last[s] = ServiceStarted(attempt[s])

ExitInOrder(s) ==
  watcher[s] = "exited" /\ ~shutdown /\ handle[s] # "cancelled" => Final(s)

Sound(s) == Untouched(s) /\ Budget(s) /\ InStep(s) /\ ExitInOrder(s)

IInv == TypeOK /\ \A s \in Service : Sound(s)

LEMMA EventFields ==
  ASSUME NEW k, NEW will
  PROVE  /\ NoEvent.type = "none"
         /\ ServiceStarted(k).type = "ServiceStarted"
         /\ ServiceStarted(k).attempt = k
         /\ ServiceStopped(k).type = "ServiceStopped"
         /\ ServiceStopped(k).attempt = k
         /\ ServiceFailed(k, will).type = "ServiceFailed"
         /\ ServiceFailed(k, will).attempt = k
         /\ ServiceFailed(k, will).will_restart = will
BY Zenon DEF NoEvent, ServiceStarted, ServiceStopped, ServiceFailed

LEMMA SoundInit == Init => \A s \in Service : Sound(s)
<1>. SUFFICES ASSUME Init, NEW s \in Service PROVE Sound(s)
  OBVIOUS
<1>1. /\ call[s] = "idle" /\ handle[s] = "none" /\ watcher[s] = "absent"
      /\ attempt[s] = 1 /\ last[s] = NoEvent
  BY DEF Init
<1>. QED
  BY <1>1 DEF Sound, Untouched, Budget, InStep, ExitInOrder

(* A step that leaves a service and its watcher alone keeps it sound; the  *)
(* shutdown signal is never taken back.                                    *)
LEMMA Frame ==
  ASSUME NEW s \in Service, Sound(s), shutdown => shutdown',
         call'[s] = call[s], handle'[s] = handle[s], watcher'[s] = watcher[s],
         attempt'[s] = attempt[s], last'[s] = last[s]
  PROVE  Sound(s)'
BY DEF Sound, Untouched, Budget, RestartDue, InStep, ExitInOrder, Final

(* A step about service s touches no other service. *)
Touches(s) ==
  /\ \A t \in Service \ {s} :
       /\ call'[t] = call[t] /\ handle'[t] = handle[t]
       /\ watcher'[t] = watcher[t] /\ attempt'[t] = attempt[t]
       /\ last'[t] = last[t]
  /\ shutdown' = shutdown

\* The steps about one service.
StepOf(s) ==
  \/ StartCall(s) \/ StartErr(s) \/ StartOk(s) \/ Register(s)
  \/ RootExit(s)  \/ PlaceholderExit(s)
  \/ Supervise(s) \/ WatcherAborted(s)
  \/ DrainJoin(s) \/ DrainTimeout(s)

LEMMA StepTouches ==
  ASSUME TypeOK, NEW s \in Service, StepOf(s)
  PROVE  Touches(s)
<1>. USE DEF TypeOK, Touches
<1>1. CASE StartCall(s) \/ StartErr(s) \/ StartOk(s) \/ Register(s)
  BY <1>1 DEF StartCall, StartErr, StartOk, Register
<1>2. CASE RootExit(s) \/ PlaceholderExit(s) \/ WatcherAborted(s)
  BY <1>2 DEF RootExit, PlaceholderExit, WatcherAborted
<1>3. CASE DrainJoin(s) \/ DrainTimeout(s)
  BY <1>3 DEF DrainJoin, DrainTimeout
<1>4. CASE SeeCancelled(s) \/ SeeCleanExit(s) \/ SeePanic(s) \/ SeeShutdown(s)
  BY <1>4 DEF SeeCancelled, SeeCleanExit, SeePanic, SeeShutdown
<1>5. CASE BackoffElapsed(s) \/ RestartOk(s) \/ RestartErr(s) \/ RestartPanic(s)
  BY <1>5 DEF BackoffElapsed, RestartOk, RestartErr, RestartPanic
<1>. QED
  BY <1>1, <1>2, <1>3, <1>4, <1>5 DEF StepOf, Supervise

(* Every step about s keeps s sound. *)
LEMMA StepSound ==
  ASSUME TypeOK, NEW s \in Service, Sound(s), StepOf(s)
  PROVE  Sound(s)'
<1>. DEFINE k == attempt[s]
<1>0. /\ Policy[s] \in RestartPolicy
      /\ k \in 1 .. U32Max
      /\ U32Max \in Nat
  BY Bounds, SupervisionAssumption DEF SupervisionAssumption, TypeOK
<1>. USE DEF Sound
<1>1. CASE StartCall(s) \/ StartErr(s)
  BY <1>1 DEF TypeOK, StartCall, StartErr, Untouched, Budget, RestartDue,
              InStep, ExitInOrder, Final
<1>2. CASE StartOk(s)
  <2>1. /\ call'[s] = "registering" /\ handle'[s] = "live"
        /\ watcher'[s] = "watching" /\ attempt'[s] = 1
        /\ last'[s] = ServiceStarted(1)
    BY <1>2 DEF TypeOK, StartOk, Untouched
  <2>. QED
    BY <1>0, <2>1 DEF Untouched, Budget, InStep, ExitInOrder
<1>3. CASE Register(s)
  BY <1>3 DEF TypeOK, Register, Untouched, Budget, RestartDue, InStep,
              ExitInOrder, Final
<1>4. CASE RootExit(s)
  <2>1. /\ handle[s] \in {"live", "aborting"}
        /\ handle'[s] \in {"ok", "panic", "cancelled"}
        /\ UNCHANGED <<shutdown, call, watcher, attempt, last>>
    BY <1>4 DEF TypeOK, RootExit
  <2>. QED
    BY <2>1 DEF Untouched, Budget, RestartDue, InStep, ExitInOrder, Final
<1>5. CASE PlaceholderExit(s)
  <2>1. /\ handle[s] = "placeholder" /\ handle'[s] = "ok"
        /\ UNCHANGED <<shutdown, call, watcher, attempt, last>>
    BY <1>5 DEF TypeOK, PlaceholderExit
  <2>. QED
    BY <2>1 DEF Untouched, Budget, RestartDue, InStep, ExitInOrder, Final
<1>6. CASE SeeCancelled(s)
  <2>1. /\ watcher[s] = "watching" /\ watcher'[s] = "exited"
        /\ handle[s] = "cancelled"
        /\ UNCHANGED <<shutdown, call, handle, attempt, last>>
    BY <1>6 DEF TypeOK, SeeCancelled
  <2>. QED
    BY <2>1 DEF Untouched, Budget, InStep, ExitInOrder
<1>7. CASE SeeCleanExit(s)
  <2>1. /\ watcher[s] = "watching" /\ handle[s] = "ok"
        /\ watcher'[s] = IF PermitsRestartAfter(Policy[s], k, FALSE)
                         THEN "backoff" ELSE "exited"
        /\ last'[s] = ServiceStopped(k)
        /\ UNCHANGED <<shutdown, call, handle, attempt>>
    BY <1>7 DEF TypeOK, SeeCleanExit
  <2>2. last'[s].type = "ServiceStopped" /\ last'[s].attempt = k
    BY <2>1, EventFields
  <2>3. CASE Policy[s].kind = "Always"
    <3>1. watcher'[s] = "backoff"
      BY <2>1, <2>3 DEF PermitsRestartAfter
    <3>. QED
      BY <2>1, <2>2, <2>3, <3>1 DEF Untouched, Budget, RestartDue, InStep, ExitInOrder
  <2>4. CASE Policy[s].kind # "Always"
    <3>1. watcher'[s] = "exited"
      BY <2>1, <2>4 DEF PermitsRestartAfter
    <3>. QED
      BY <2>1, <2>2, <2>4, <3>1 DEF Untouched, Budget, InStep, ExitInOrder, Final
  <2>. QED
    BY <2>3, <2>4
<1>8. CASE SeePanic(s)
  <2>. DEFINE will == PermitsRestartAfter(Policy[s], k, TRUE)
  <2>1. /\ watcher[s] = "watching" /\ handle[s] = "panic"
        /\ watcher'[s] = IF will THEN "backoff" ELSE "exited"
        /\ last'[s] = ServiceFailed(k, will)
        /\ UNCHANGED <<shutdown, call, handle, attempt>>
    BY <1>8 DEF TypeOK, SeePanic
  <2>2. CASE will
    <3>1. /\ watcher'[s] = "backoff"
          /\ last'[s].type = "ServiceFailed" /\ last'[s].attempt = k
          /\ last'[s].will_restart
      <4>1. will = TRUE
        BY <2>2, PermitsBoolean
      <4>2. last'[s] = ServiceFailed(k, TRUE)
        BY <2>1, <4>1
      <4>3. /\ last'[s].type = "ServiceFailed" /\ last'[s].attempt = k
            /\ last'[s].will_restart = TRUE
        BY <4>2 DEF ServiceFailed
      <4>4. watcher'[s] = "backoff"
        BY <2>1, <2>2
      <4>. QED
        BY <4>3, <4>4
    <3>2. \/ Policy[s].kind = "Always"
          \/ Policy[s].kind = "OnFailure" /\ k < Policy[s].max_attempts
      BY <2>2 DEF PermitsRestartAfter
    <3>. HIDE DEF will
    <3>. QED
      BY <2>1, <3>1, <3>2 DEF Untouched, Budget, RestartDue, InStep, ExitInOrder
  <2>3. CASE ~will
    <3>1. /\ watcher'[s] = "exited"
          /\ last'[s].type = "ServiceFailed"
          /\ ~last'[s].will_restart
      <4>1. will = FALSE
        BY <2>3, PermitsBoolean
      <4>2. last'[s] = ServiceFailed(k, FALSE)
        BY <2>1, <4>1
      <4>3. /\ last'[s].type = "ServiceFailed" /\ last'[s].attempt = k
            /\ last'[s].will_restart = FALSE
        BY <4>2 DEF ServiceFailed
      <4>4. watcher'[s] = "exited"
        BY <2>1, <2>3
      <4>. QED
        BY <4>3, <4>4
    <3>. HIDE DEF will
    <3>. QED
      BY <2>1, <3>1 DEF Untouched, Budget, InStep, ExitInOrder, Final
  <2>. QED
    BY <2>2, <2>3
<1>9. CASE BackoffElapsed(s)
  <2>1. /\ watcher[s] = "backoff" /\ watcher'[s] = "restarting"
        /\ attempt'[s] = NextAttempt(k)
        /\ UNCHANGED <<shutdown, call, handle, last>>
    BY <1>9 DEF TypeOK, BackoffElapsed
  <2>2. Policy[s].max_attempts \in 0 .. U32Max
    BY <1>0 DEF RestartPolicy
  <2>3. Budget(s)'
    BY <1>0, <2>1, <2>2 DEF Budget, NextAttempt
  <2>. QED
    BY <2>1, <2>3 DEF Untouched, RestartDue, InStep, ExitInOrder
<1>10. CASE RestartOk(s)
  <2>1. /\ watcher[s] = "restarting" /\ watcher'[s] = "watching"
        /\ handle'[s] = "live"
        /\ last'[s] = ServiceStarted(k)
        /\ UNCHANGED <<shutdown, call, attempt>>
    BY <1>10 DEF TypeOK, RestartOk
  <2>. QED
    BY <2>1 DEF Untouched, Budget, InStep, ExitInOrder
<1>11. CASE RestartErr(s)
  <2>. DEFINE will == PermitsRestartAfter(Policy[s], k, TRUE)
  <2>1. /\ watcher[s] = "restarting"
        /\ watcher'[s] = IF will THEN "watching" ELSE "exited"
        /\ handle'[s] = IF will THEN "placeholder" ELSE handle[s]
        /\ last'[s] = ServiceFailed(k, will)
        /\ UNCHANGED <<shutdown, call, attempt>>
    BY <1>11 DEF TypeOK, RestartErr
  <2>2. CASE will
    <3>1. will = TRUE
      BY <2>2, PermitsBoolean
    <3>2. /\ watcher'[s] = "watching" /\ handle'[s] = "placeholder"
          /\ last'[s] = ServiceFailed(k, TRUE)
      BY <2>1, <3>1
    <3>. HIDE DEF will
    <3>. QED
      BY <2>1, <3>2 DEF Untouched, Budget, InStep, ExitInOrder
  <2>3. CASE ~will
    <3>1. /\ watcher'[s] = "exited" /\ handle'[s] = handle[s]
          /\ last'[s].type = "ServiceFailed"
          /\ ~last'[s].will_restart
      <4>1. will = FALSE
        BY <2>3, PermitsBoolean
      <4>2. last'[s] = ServiceFailed(k, FALSE)
        BY <2>1, <4>1
      <4>3. /\ last'[s].type = "ServiceFailed" /\ last'[s].attempt = k
            /\ last'[s].will_restart = FALSE
        BY <4>2 DEF ServiceFailed
      <4>4. watcher'[s] = "exited" /\ handle'[s] = handle[s]
        BY <2>1, <2>3
      <4>. QED
        BY <4>3, <4>4
    <3>. HIDE DEF will
    <3>. QED
      BY <2>1, <3>1 DEF Untouched, Budget, InStep, ExitInOrder, Final
  <2>. QED
    BY <2>2, <2>3
<1>12. CASE RestartPanic(s) \/ WatcherAborted(s)
  <2>1. /\ watcher[s] # "absent" /\ watcher'[s] \in {"panicked", "aborted"}
        /\ watcher'[s] = "panicked" => watcher[s] = "restarting"
        /\ UNCHANGED <<shutdown, call, handle, attempt, last>>
    BY <1>12 DEF TypeOK, RestartPanic, WatcherAborted, Alive
  <2>. QED
    BY <2>1 DEF Untouched, Budget, InStep, ExitInOrder
<1>13. CASE SeeShutdown(s)
  <2>1. /\ shutdown /\ shutdown'
        /\ watcher[s] \in {"watching", "backoff"} /\ watcher'[s] = "exited"
        /\ handle'[s] # "live"
        /\ UNCHANGED <<call, attempt, last>>
    BY <1>13 DEF TypeOK, SeeShutdown, InStep
  <2>. QED
    BY <2>1 DEF Untouched, Budget, InStep, ExitInOrder
<1>14. CASE DrainJoin(s) \/ DrainTimeout(s)
  BY <1>14, Frame DEF DrainJoin, DrainTimeout
<1>. QED
  BY <1>1, <1>2, <1>3, <1>4, <1>5, <1>6, <1>7, <1>8, <1>9, <1>10, <1>11,
     <1>12, <1>13, <1>14
  DEF StepOf, Supervise

(* No step makes a service unsound. *)
LEMMA SoundStep ==
  ASSUME IInv, [Next]_vars
  PROVE  \A s \in Service : Sound(s)'
<1>. USE DEF IInv
<1>. SUFFICES ASSUME NEW t \in Service PROVE Sound(t)'
  OBVIOUS
<1>1. ASSUME NEW s \in Service, StepOf(s) PROVE Sound(t)'
  <2>1. CASE t = s
    BY <1>1, <2>1, StepSound
  <2>2. CASE t # s
    BY <1>1, <2>2, StepTouches, Frame DEF Touches
  <2>. QED
    BY <2>1, <2>2
<1>2. CASE Shutdown \/ DrainBegin \/ DrainEnd \/ ShutdownNow
  BY <1>2, Frame DEF Shutdown, DrainBegin, DrainEnd, ShutdownNow, drainVars
<1>3. CASE UNCHANGED vars
  BY <1>3, Frame DEF vars
<1>. QED
  BY <1>1, <1>2, <1>3 DEF Next, StepOf

THEOREM Invariance == Spec => []IInv
<1>1. Init => IInv
  BY TypeInit, SoundInit DEF IInv
<1>2. IInv /\ [Next]_vars => IInv'
  BY TypeStep, SoundStep DEF IInv
<1>. QED
  BY <1>1, <1>2, PTL DEF Spec

-----------------------------------------------------------------------------
(* The restart budget is kept, for every policy: never more than           *)
(* max_attempts attempts under OnFailure, never a second one under OneShot.*)
THEOREM BudgetKept == Spec => []WithinBudget
<1>1. IInv => WithinBudget
  BY DEF IInv, Sound, Budget, WithinBudget
<1>. QED
  BY <1>1, Invariance, PTL

(* A watcher that gave up said so. *)
THEOREM ExitsReported == Spec => []ExitReported
<1>1. IInv => ExitReported
  BY DEF IInv, Sound, ExitInOrder, ExitReported
<1>. QED
  BY <1>1, Invariance, PTL

(* A service whose root task runs was last announced as started, with the  *)
(* attempt that runs.                                                      *)
THEOREM LiveRootsAnnounced == Spec => []LiveRootAnnounced
<1>1. IInv => LiveRootAnnounced
  BY DEF IInv, Sound, InStep, LiveRootAnnounced
<1>. QED
  BY <1>1, Invariance, PTL

-----------------------------------------------------------------------------
(* The refinement of ServiceLifecycle: each step publishes at most one     *)
(* event, and the invariant says why the protocol allows it.               *)

LEMMA SameNames ==
  ASSUME NEW k, NEW will
  PROVE  /\ NoEvent = Lifecycle!NoEvent
         /\ ServiceStarted(k) = Lifecycle!Started(k)
         /\ ServiceStopped(k) = Lifecycle!Stopped(k)
         /\ ServiceFailed(k, will) = Lifecycle!Failed(k, will)
         /\ NextAttempt(k) = Lifecycle!Following(k)
BY DEF NoEvent, ServiceStarted, ServiceStopped, ServiceFailed, NextAttempt,
       Lifecycle!NoEvent, Lifecycle!Started, Lifecycle!Stopped,
       Lifecycle!Failed, Lifecycle!Following

LEMMA SameRetries ==
  ASSUME NEW s, NEW k
  PROVE  PermitsRestartAfter(Policy[s], k, TRUE) = Lifecycle!MayRetry(s, k)
BY Zenon DEF PermitsRestartAfter, Lifecycle!MayRetry

\* Every step about a service that publishes does so by the protocol.
LEMMA StepPublishes ==
  ASSUME IInv, NEW s \in Service, StepOf(s)
  PROVE  Lifecycle!Next \/ last' = last
<1>. DEFINE k == attempt[s]
<1>0. Sound(s) /\ last \in [Service -> Event]
  BY DEF IInv, TypeOK
<1>1. CASE StartOk(s)
  <2>1. last[s] = Lifecycle!NoEvent
    BY <1>0, <1>1, SameNames DEF StartOk, Sound, Untouched
  <2>2. Lifecycle!Publish(s, Lifecycle!Started(1))
    BY <1>1, SameNames DEF StartOk, Lifecycle!Publish
  <2>. QED
    BY <2>1, <2>2 DEF Lifecycle!Next, Lifecycle!FirstStart
<1>2. CASE SeeCleanExit(s)
  <2>1. \/ last[s] = ServiceStarted(k)
        \/ last[s] = ServiceFailed(k, TRUE)
    BY <1>0, <1>2 DEF SeeCleanExit, Sound, InStep
  <2>2. /\ last[s].attempt = k
        /\ \/ last[s].type = "ServiceStarted"
           \/ last[s].type = "ServiceFailed" /\ last[s].will_restart
    BY <2>1 DEF ServiceStarted, ServiceFailed
  <2>3. Lifecycle!Publish(s, Lifecycle!Stopped(last[s].attempt))
    BY <1>2, <2>2, SameNames DEF SeeCleanExit, Lifecycle!Publish
  <2>. QED
    BY <2>2, <2>3 DEF Lifecycle!Next, Lifecycle!Stop
<1>3. CASE SeePanic(s)
  <2>1. last[s] = ServiceStarted(k)
    BY <1>0, <1>3 DEF SeePanic, Sound, InStep
  <2>2. last[s].attempt = k /\ last[s].type = "ServiceStarted"
    BY <2>1 DEF ServiceStarted
  <2>3. Lifecycle!Publish(s, Lifecycle!Failed(k, Lifecycle!MayRetry(s, k)))
    BY <1>3, SameNames, SameRetries, Zenon DEF SeePanic, Lifecycle!Publish
  <2>. QED
    BY <2>2, <2>3 DEF Lifecycle!Next, Lifecycle!Fail
<1>4. CASE RestartOk(s)
  <2>1. Lifecycle!Restarting(s) /\ Lifecycle!Following(last[s].attempt) = k
    BY <1>0, <1>4, SameNames
    DEF RestartOk, Sound, InStep, RestartDue, Lifecycle!Restarting
  <2>2. Lifecycle!Publish(s, Lifecycle!Started(k))
    BY <1>4, SameNames DEF RestartOk, Lifecycle!Publish
  <2>. QED
    BY <2>1, <2>2 DEF Lifecycle!Next, Lifecycle!Restart
<1>5. CASE RestartErr(s)
  <2>1. Lifecycle!Restarting(s) /\ Lifecycle!Following(last[s].attempt) = k
    BY <1>0, <1>5, SameNames
    DEF RestartErr, Sound, InStep, RestartDue, Lifecycle!Restarting
  <2>2. Lifecycle!Publish(s, Lifecycle!Failed(k, Lifecycle!MayRetry(s, k)))
    BY <1>5, SameNames, SameRetries, Zenon DEF RestartErr, Lifecycle!Publish
  <2>. QED
    BY <2>1, <2>2 DEF Lifecycle!Next, Lifecycle!FailToRestart
<1>6. CASE \/ StartCall(s) \/ StartErr(s) \/ Register(s)
           \/ RootExit(s) \/ PlaceholderExit(s) \/ WatcherAborted(s)
           \/ DrainJoin(s) \/ DrainTimeout(s)
  BY <1>6 DEF StartCall, StartErr, Register, RootExit, PlaceholderExit,
              WatcherAborted, DrainJoin, DrainTimeout
<1>7. CASE \/ SeeCancelled(s) \/ BackoffElapsed(s) \/ RestartPanic(s)
           \/ SeeShutdown(s)
  BY <1>7 DEF SeeCancelled, BackoffElapsed, RestartPanic, SeeShutdown
<1>. QED
  BY <1>1, <1>2, <1>3, <1>4, <1>5, <1>6, <1>7 DEF StepOf, Supervise

(* The lifecycle events follow their protocol: what a subscriber sees of a *)
(* service is a behaviour of ServiceLifecycle.                             *)
THEOREM ProtocolKept == Spec => EventProtocol
<1>1. Init => Lifecycle!Init
  BY SameNames DEF Init, Lifecycle!Init
<1>2. IInv /\ [Next]_vars => [Lifecycle!Next]_last
  <2>. SUFFICES ASSUME IInv, [Next]_vars
                PROVE  Lifecycle!Next \/ last' = last
    OBVIOUS
  <2>1. ASSUME NEW s \in Service, StepOf(s)
        PROVE  Lifecycle!Next \/ last' = last
    BY <2>1, StepPublishes
  <2>2. CASE Shutdown \/ DrainBegin \/ DrainEnd \/ ShutdownNow
    BY <2>2 DEF Shutdown, DrainBegin, DrainEnd, ShutdownNow
  <2>3. CASE UNCHANGED vars
    BY <2>3 DEF vars
  <2>. QED
    BY <2>1, <2>2, <2>3 DEF Next, StepOf
<1>. QED
  BY <1>1, <1>2, Invariance, PTL DEF Spec, EventProtocol, Lifecycle!Spec

-----------------------------------------------------------------------------
(* No watcher falls through the cracks between the map, drain and          *)
(* shutdown_now.                                                           *)

Remembered(s) ==
  call[s] = "started" /\ Alive(s) =>
    \/ children[NameOf[s]] = s
    \/ s \in draining \cup late \cup aborts
    \/ \E t \in Service \ {s} : NameOf[t] = NameOf[s] /\ call[t] = "started"

KInv ==
  /\ TypeOK
  /\ draining # {} => drain
  /\ \A s \in Service : Remembered(s)

\* What is remembered of s only grows, unless the map or drain changes.
LEMMA FrameRemembered ==
  ASSUME NEW s \in Service, Remembered(s),
         call'[s] = "started" => call[s] = "started",
         Alive(s)' => Alive(s),
         \A t \in Service : call[t] = "started" => call'[t] = "started",
         children'[NameOf[s]] = children[NameOf[s]],
         Alive(s) /\ s \in draining => s \in draining' \cup late',
         late \subseteq late', aborts \subseteq aborts'
  PROVE  Remembered(s)'
BY DEF Remembered

LEMMA StepRemembers ==
  ASSUME KInv, NEW s \in Service, StepOf(s), NEW t \in Service
  PROVE  Remembered(t)' /\ (draining' # {} => drain')
<1>. USE DEF KInv, TypeOK, drainVars
<1>0. NameOf \in [Service -> Name]
  BY SupervisionAssumption DEF SupervisionAssumption
<1>1. CASE StartCall(s) \/ StartErr(s) \/ StartOk(s)
  <2>1. /\ call'[t] = "started" => call[t] = "started" /\ t # s
        /\ \A u \in Service : call[u] = "started" => call'[u] = "started"
        /\ t # s => watcher'[t] = watcher[t]
        /\ UNCHANGED <<children, aborts, draining, late, drain>>
    BY <1>1 DEF StartCall, StartErr, StartOk
  <2>. QED
    BY <2>1, FrameRemembered DEF Remembered, Alive
<1>2. CASE Register(s)
  <2>1. /\ call' = [call EXCEPT ![s] = "started"]
        /\ children' = [children EXCEPT ![NameOf[s]] = s]
        /\ UNCHANGED <<watcher, aborts, drain, draining, late>>
    BY <1>2 DEF Register
  <2>2. CASE NameOf[t] = NameOf[s]
    BY <1>0, <2>1, <2>2 DEF Remembered
  <2>3. CASE NameOf[t] # NameOf[s]
    <3>1. /\ children'[NameOf[t]] = children[NameOf[t]]
          /\ call'[t] = call[t]
          /\ \A u \in Service : call[u] = "started" => call'[u] = "started"
      BY <1>0, <2>1, <2>3
    <3>. QED
      BY <2>1, <3>1, FrameRemembered DEF Alive
  <2>. QED
    BY <2>1, <2>2, <2>3
<1>3. CASE RootExit(s) \/ PlaceholderExit(s)
  BY <1>3, FrameRemembered DEF RootExit, PlaceholderExit, Alive
<1>4. CASE Supervise(s) \/ WatcherAborted(s)
  <2>1. /\ Alive(t)' => Alive(t)
        /\ UNCHANGED <<call, children, aborts, drain, draining, late>>
    BY <1>4 DEF Supervise, WatcherAborted, SeeCancelled, SeeCleanExit, SeePanic,
                BackoffElapsed, RestartOk, RestartErr, RestartPanic,
                SeeShutdown, Alive
  <2>. QED
    BY <2>1, FrameRemembered
<1>5. CASE DrainJoin(s) \/ DrainTimeout(s)
  BY <1>5, FrameRemembered DEF DrainJoin, DrainTimeout, Alive
<1>. QED
  BY <1>1, <1>2, <1>3, <1>4, <1>5 DEF StepOf

LEMMA RemembersStep == KInv /\ [Next]_vars => KInv'
<1>. SUFFICES ASSUME KInv, [Next]_vars PROVE KInv'
  OBVIOUS
<1>. USE DEF KInv, TypeOK, drainVars
<1>1. ASSUME NEW s \in Service, StepOf(s) PROVE KInv'
  <2>1. draining' # {} => drain'
    BY <1>1, StepRemembers
  <2>2. \A t \in Service : Remembered(t)'
    BY <1>1, StepRemembers
  <2>. QED
    BY <2>1, <2>2, TypeStep DEF KInv
<1>2. CASE Shutdown \/ DrainEnd
  <2>1. \A t \in Service : Remembered(t)'
    BY <1>2, FrameRemembered DEF Shutdown, DrainEnd, Alive
  <2>2. draining' # {} => drain'
    BY <1>2 DEF Shutdown, DrainEnd
  <2>. QED
    BY <2>1, <2>2, TypeStep DEF KInv
<1>3. CASE DrainBegin
  <2>1. ASSUME NEW t \in Service PROVE Remembered(t)'
    <3>1. /\ draining = {} /\ draining' = Supervised
          /\ UNCHANGED <<call, watcher, late, aborts>>
      BY <1>3 DEF DrainBegin
    <3>2. children[NameOf[t]] = t => t \in Supervised
      BY SupervisionAssumption DEF SupervisionAssumption, Supervised
    <3>. QED
      BY <3>1, <3>2 DEF Remembered, Alive
  <2>. QED
    BY <1>3, <2>1, TypeStep DEF KInv, DrainBegin
<1>4. CASE ShutdownNow
  <2>1. ASSUME NEW t \in Service PROVE Remembered(t)'
    <3>1. /\ aborts' = aborts \cup Supervised
          /\ UNCHANGED <<call, watcher, late, draining>>
      BY <1>4 DEF ShutdownNow
    <3>2. children[NameOf[t]] = t => t \in Supervised
      BY SupervisionAssumption DEF SupervisionAssumption, Supervised
    <3>. QED
      BY <3>1, <3>2 DEF Remembered, Alive
  <2>. QED
    BY <1>4, <2>1, TypeStep DEF KInv, ShutdownNow
<1>5. CASE UNCHANGED vars
  <2>1. \A t \in Service : Remembered(t)'
    BY <1>5, FrameRemembered DEF vars, Alive
  <2>. QED
    BY <1>5, <2>1, TypeStep DEF KInv, vars
<1>. QED
  BY <1>1, <1>2, <1>3, <1>4, <1>5 DEF Next, StepOf

LEMMA InitKept == Init => IInv /\ KInv
<1>. SUFFICES ASSUME Init PROVE IInv /\ KInv
  OBVIOUS
<1>1. draining = {} /\ \A s \in Service : call[s] = "idle"
  BY DEF Init
<1>2. KInv
  BY <1>1, TypeInit DEF KInv, Remembered
<1>. QED
  BY <1>2, TypeInit, SoundInit DEF IInv

(* No live watcher is forgotten, however starts, drains and shutdown_now   *)
(* interleave.                                                             *)
THEOREM WatchersRemembered == Spec => []NoneForgotten
<1>1. Init => KInv
  BY InitKept
<1>2. KInv => NoneForgotten
  BY DEF KInv, Remembered, NoneForgotten
<1>. QED
  BY <1>1, <1>2, RemembersStep, PTL DEF Spec

(***************************************************************************)
(* Part II: the runtime.  The inductive invariant, in the parts the steps  *)
(* can disturb.                                                            *)
(***************************************************************************)

\* How many RuntimeStopped were published, by the place of the main task.
Counted ==
  /\ stopped \in Nat
  /\ main \in {"built", "starting", "running"} => stopped = 0
  /\ main \in {"stopping", "asserting", "asserted", "draining"}
       => stopped < MaxShutdownCalls
  /\ main = "stopped" => stopped <= MaxShutdownCalls

\* At most one start_service call is open: that of `current`.
OneStart ==
  /\ main # "starting" => current = NoService
  /\ current # NoService => call[current] \in {"starting", "registering"}
  /\ \A s \in Service : s # current => call[s] \in {"idle", "failed", "started"}

\* What drain holds, by the place of the main task.
Drained ==
  /\ aborts = {}
  /\ drain <=> main = "draining"
  /\ main # "draining" => draining = {}
  /\ main \in {"draining", "stopped"} => \A n \in Name : children[n] = NoService

\* A watcher that ended left no root task behind.
RootsEnded ==
  \A s \in Service :
    /\ watcher[s] # "aborted"
    /\ ~Alive(s) => handle[s] \notin {"live", "placeholder"}

\* How far Runtime::start has come in the plan.
Reached == Len(Plan) - Len(queue)

InOrder ==
  /\ main \in {"built", "starting"} => ~started
  /\ main = "built" => \A s \in Service : call[s] = "idle"
  /\ main = "starting" =>
       /\ Len(queue) <= Len(Plan)
       /\ \A i \in 1 .. Len(queue) : queue[i] = Plan[Reached + i]
       /\ \A j \in 1 .. Len(Plan) : j > Reached => call[Plan[j]] = "idle"
       /\ \A j \in 1 .. Len(Plan) :
            j <= Reached => \/ call[Plan[j]] = "started"
                            \/ j = Reached /\ current = Plan[j]
       /\ current # NoService => Reached >= 1 /\ current = Plan[Reached]

Typed ==
  /\ main \in {"built", "starting", "running", "stopping", "asserting",
              "asserted", "draining", "stopped"}
  /\ queue \in Seq(Service)
  /\ current \in Service \cup {NoService}
  /\ caller \in [Caller \cup {Main} -> {"idle", "checked", "flipped", "done"}]
  /\ stopping \in Nat
  /\ started \in BOOLEAN

RInv ==
  /\ IInv /\ KInv
  /\ Typed /\ Counted /\ OneStart /\ Drained /\ RootsEnded
  /\ InOrder /\ FailFast

LEMMA Constants ==
  /\ NoService \notin Service /\ NameOf \in [Service -> Name]
  /\ Plan \in Seq(Service)
  /\ \A i, j \in 1 .. Len(Plan) : Plan[i] = Plan[j] => i = j
  /\ Main \notin Caller
  /\ MaxShutdownCalls \in Nat \ {0}
BY SupervisionAssumption, RuntimeAssumption
DEF SupervisionAssumption, RuntimeAssumption

\* Every place of RNext, for the case splits below.
LEMMA Cases ==
  ASSUME [RNext]_rvars
  PROVE  \/ MainStep
         \/ \E c \in Caller \cup {Main} : CallerStep(c)
         \/ Background
         \/ UNCHANGED rvars
BY DEF RNext

-----------------------------------------------------------------------------
(* Every step of the runtime is a step of Supervision or leaves the tree   *)
(* alone.                                                                  *)

\* Raising a signal that is up changes nothing; raising it anew is Shutdown.
LEMMA FlipSupervises ==
  ASSUME NEW c \in Caller \cup {Main}, TypeOK, ShutdownFlip(c)
  PROVE  [Next]_vars
<1>1. CASE shutdown
  BY <1>1 DEF ShutdownFlip, drainVars, vars
<1>2. CASE ~shutdown
  BY <1>2 DEF ShutdownFlip, Shutdown, Next
<1>. QED
  BY <1>1, <1>2 DEF TypeOK

LEMMA RuntimeStep ==
  ASSUME TypeOK, Typed, [RNext]_rvars
  PROVE  [Next]_vars
<1>1. ASSUME NEW c \in Caller \cup {Main}, CallerStep(c) PROVE [Next]_vars
  BY <1>1, FlipSupervises DEF CallerStep, ShutdownCheck, ShutdownPublish
<1>2. CASE BeginStart \/ FinishStart \/ ShutdownGracefully \/ AssertShutdown
           \/ ShutdownAsserted
  BY <1>2 DEF BeginStart, FinishStart, ShutdownGracefully, AssertShutdown,
              ShutdownAsserted
<1>3. CASE CallStart
  <2>1. Head(queue) \in Service
    BY <1>3 DEF CallStart, Typed
  <2>. QED
    BY <1>3, <2>1 DEF CallStart, Next
<1>4. CASE StartReturnsOk \/ ServiceIsStarted \/ StartReturnsErr
  BY <1>4 DEF StartReturnsOk, ServiceIsStarted, StartReturnsErr, Next
<1>5. CASE BeginDrain \/ DrainOne \/ Stop
  BY <1>5 DEF BeginDrain, DrainOne, Stop, Next
<1>6. CASE Background
  BY <1>6 DEF Background, Next
<1>7. CASE UNCHANGED rvars
  BY <1>7 DEF rvars
<1>. QED
  BY <1>1, <1>2, <1>3, <1>4, <1>5, <1>6, <1>7, Cases DEF MainStep

LEMMA TypedStep ==
  ASSUME Typed, [RNext]_rvars
  PROVE  Typed'
<1>. USE DEF Typed, mainVars, busVars
<1>1. ASSUME NEW c \in Caller \cup {Main}, CallerStep(c) PROVE Typed'
  <2>1. caller' \in [Caller \cup {Main} -> {"idle", "checked", "flipped", "done"}]
    BY <1>1 DEF CallerStep, ShutdownCheck, ShutdownFlip, ShutdownPublish, CallerAt
  <2>2. stopping' \in Nat
    BY <1>1 DEF CallerStep, ShutdownCheck, ShutdownFlip, ShutdownPublish
  <2>3. UNCHANGED mainVars
    BY <1>1 DEF CallerStep, ShutdownCheck, ShutdownFlip, ShutdownPublish
  <2>. QED
    BY <2>1, <2>2, <2>3
<1>2. CASE BeginStart
  BY <1>2, Constants DEF BeginStart
<1>3. CASE FinishStart \/ ShutdownGracefully \/ AssertShutdown \/ ShutdownAsserted
  BY <1>3 DEF FinishStart, ShutdownGracefully, AssertShutdown, ShutdownAsserted
<1>4. CASE CallStart
  BY <1>4 DEF CallStart
<1>5. CASE StartReturnsOk \/ ServiceIsStarted
  BY <1>5 DEF StartReturnsOk, ServiceIsStarted
<1>6. CASE StartReturnsErr
  BY <1>6 DEF StartReturnsErr
<1>7. CASE BeginDrain \/ DrainOne \/ Stop
  BY <1>7 DEF BeginDrain, DrainOne, Stop
<1>8. CASE Background
  BY <1>8 DEF Background
<1>9. CASE UNCHANGED rvars
  BY <1>9 DEF rvars
<1>. QED
  BY <1>1, <1>2, <1>3, <1>4, <1>5, <1>6, <1>7, <1>8, <1>9, Cases DEF MainStep

LEMMA RuntimeInit == RInit => Typed /\ IInv /\ KInv
<1>. SUFFICES ASSUME RInit PROVE Typed /\ IInv /\ KInv
  OBVIOUS
<1>1. caller \in [Caller \cup {Main} -> {"idle", "checked", "flipped", "done"}]
  BY DEF RInit
<1>2. main = "built" /\ current = NoService /\ stopping = 0 /\ started = FALSE
  BY DEF RInit
<1>3. queue \in Seq(Service)
  BY DEF RInit
<1>4. Typed
  BY <1>1, <1>2, <1>3 DEF Typed
<1>5. IInv /\ KInv
  BY InitKept DEF RInit
<1>. QED
  BY <1>4, <1>5

(* The runtime implements Supervision: whatever is proved of Spec holds of *)
(* the runtime's services.                                                 *)
THEOREM RuntimeIsSupervision == RSpec => RuntimeSupervises
<1>1. RInit => Init
  BY DEF RInit
<1>2. TypeOK /\ Typed /\ [RNext]_rvars => [Next]_vars /\ TypeOK' /\ Typed'
  BY RuntimeStep, TypedStep, TypeStep
<1>3. RInit => TypeOK /\ Typed
  BY RuntimeInit DEF IInv
<1>. QED
  BY <1>1, <1>2, <1>3, PTL DEF RSpec, RuntimeSupervises, Spec


-----------------------------------------------------------------------------
(* The parts of the invariant, one at a time.                              *)

\* The main task is where it was, and so is everything about its calls.
SameMain ==
  /\ UNCHANGED mainVars
  /\ UNCHANGED <<call, children, aborts, drain, draining, late>>

LEMMA BackgroundSameMain ==
  ASSUME Background PROVE SameMain
<1>. USE DEF SameMain, drainVars
<1>1. PICK s \in Service : RootExit(s) \/ PlaceholderExit(s) \/ Supervise(s)
  BY DEF Background
<1>2. UNCHANGED mainVars
  BY DEF Background
<1>3. CASE RootExit(s) \/ PlaceholderExit(s)
  BY <1>2, <1>3 DEF RootExit, PlaceholderExit
<1>4. CASE SeeCancelled(s) \/ SeeCleanExit(s) \/ SeePanic(s) \/ SeeShutdown(s)
  BY <1>2, <1>4 DEF SeeCancelled, SeeCleanExit, SeePanic, SeeShutdown
<1>5. CASE BackoffElapsed(s) \/ RestartOk(s) \/ RestartErr(s) \/ RestartPanic(s)
  BY <1>2, <1>5 DEF BackoffElapsed, RestartOk, RestartErr, RestartPanic
<1>. QED
  BY <1>1, <1>3, <1>4, <1>5 DEF Supervise

LEMMA CallerSameMain ==
  ASSUME NEW c \in Caller \cup {Main}, CallerStep(c)
  PROVE  SameMain /\ UNCHANGED <<handle, watcher>>
BY DEF CallerStep, ShutdownCheck, ShutdownFlip, ShutdownPublish, SameMain,
       vars, mainVars, drainVars

LEMMA IdleSameMain ==
  ASSUME UNCHANGED rvars PROVE SameMain /\ UNCHANGED <<handle, watcher>>
BY DEF rvars, vars, mainVars, SameMain

\* Steps of the main task that leave the tree alone.
Between ==
  BeginStart \/ FinishStart \/ ShutdownGracefully \/ AssertShutdown \/ ShutdownAsserted

LEMMA BetweenSameTree ==
  ASSUME Between
  PROVE  UNCHANGED <<call, handle, watcher, children, aborts, drain, draining, late>>
BY DEF Between, BeginStart, FinishStart, ShutdownGracefully, AssertShutdown,
       ShutdownAsserted, vars

\* The ways a step of the runtime can go, as the proofs below split it.
LEMMA RuntimeCases ==
  ASSUME [RNext]_rvars
  PROVE  \/ SameMain /\ UNCHANGED <<handle, watcher>>
         \/ Background /\ SameMain
         \/ Between
         \/ CallStart \/ StartReturnsOk \/ ServiceIsStarted \/ StartReturnsErr
         \/ BeginDrain \/ DrainOne \/ Stop
BY Cases, CallerSameMain, BackgroundSameMain, IdleSameMain DEF MainStep, Between

LEMMA CountedStep ==
  ASSUME Counted, Typed, OneStart, [RNext]_rvars
  PROVE  Counted'
<1>. MaxShutdownCalls \in Nat \ {0}
  BY Constants
<1>. USE DEF Counted
<1>1. CASE SameMain
  BY <1>1 DEF SameMain, mainVars
<1>2. CASE Between
  <2>1. CASE BeginStart \/ FinishStart
    BY <2>1 DEF BeginStart, FinishStart
  <2>2. CASE ShutdownGracefully
    BY <2>2 DEF ShutdownGracefully
  <2>3. CASE AssertShutdown \/ ShutdownAsserted
    <3>1. /\ main \in {"stopping", "asserting"} /\ main' \in {"asserting", "asserted"}
          /\ stopped' = stopped
      BY <2>3 DEF AssertShutdown, ShutdownAsserted
    <3>. QED
      BY <3>1
  <2>. QED
    BY <1>2, <2>1, <2>2, <2>3 DEF Between
<1>3. CASE CallStart
  BY <1>3 DEF CallStart
<1>4. CASE StartReturnsOk \/ ServiceIsStarted
  BY <1>4 DEF StartReturnsOk, ServiceIsStarted, mainVars
<1>5. CASE StartReturnsErr
  <2>1. main = "starting"
    BY <1>5, Constants DEF StartReturnsErr, OneStart
  <2>. QED
    BY <1>5, <2>1 DEF StartReturnsErr
<1>6. CASE BeginDrain \/ DrainOne \/ Stop
  BY <1>6 DEF BeginDrain, DrainOne, Stop, mainVars
<1>. QED
  BY <1>1, <1>2, <1>3, <1>4, <1>5, <1>6, RuntimeCases

LEMMA OneStartStep ==
  ASSUME OneStart, Typed, TypeOK, [RNext]_rvars
  PROVE  OneStart'
<1>. USE Constants DEF OneStart
<1>1. CASE SameMain
  BY <1>1 DEF SameMain, mainVars
<1>2. CASE Between
  <2>1. UNCHANGED <<call, current>>
    BY <1>2, BetweenSameTree DEF Between, BeginStart, FinishStart, ShutdownGracefully,
                                 AssertShutdown, ShutdownAsserted
  <2>2. current = NoService \/ main' = main
    BY <1>2 DEF Between, BeginStart, FinishStart, ShutdownGracefully,
                AssertShutdown, ShutdownAsserted
  <2>. QED
    BY <2>1, <2>2
<1>3. CASE CallStart
  <2>. DEFINE s == Head(queue)
  <2>1. s \in Service
    BY <1>3 DEF CallStart, Typed
  <2>2. /\ call' = [call EXCEPT ![s] = "starting"]
        /\ current = NoService /\ current' = s /\ main = "starting" /\ main' = main
    BY <1>3 DEF CallStart, StartCall
  <2>. QED
    BY <2>1, <2>2 DEF TypeOK
<1>4. CASE StartReturnsOk
  <2>1. /\ call' = [call EXCEPT ![current] = "registering"]
        /\ current \in Service /\ UNCHANGED <<current, main>>
    BY <1>4 DEF StartReturnsOk, StartOk, mainVars
  <2>. QED
    BY <2>1 DEF TypeOK
<1>5. CASE ServiceIsStarted
  <2>1. /\ call' = [call EXCEPT ![current] = "started"]
        /\ current \in Service /\ current' = NoService
    BY <1>5 DEF ServiceIsStarted, Register
  <2>. QED
    BY <2>1 DEF TypeOK
<1>6. CASE StartReturnsErr
  <2>1. /\ call' = [call EXCEPT ![current] = "failed"]
        /\ current \in Service /\ current' = NoService
    BY <1>6 DEF StartReturnsErr, StartErr
  <2>. QED
    BY <2>1 DEF TypeOK
<1>7. CASE BeginDrain \/ DrainOne \/ Stop
  <2>1. main \in {"asserted", "draining"} /\ UNCHANGED <<call, current>>
    BY <1>7 DEF BeginDrain, DrainOne, Stop, DrainBegin, DrainJoin, DrainTimeout,
                DrainEnd, mainVars
  <2>. QED
    BY <2>1
<1>. QED
  BY <1>1, <1>2, <1>3, <1>4, <1>5, <1>6, <1>7, RuntimeCases

LEMMA DrainedStep ==
  ASSUME Drained, OneStart, Typed, TypeOK, [RNext]_rvars
  PROVE  Drained'
<1>. USE Constants DEF Drained
<1>1. CASE SameMain
  BY <1>1 DEF SameMain, mainVars
<1>2. CASE Between
  <2>1. /\ UNCHANGED <<children, aborts, drain, draining>>
        /\ main' \notin {"draining", "stopped"} /\ main # "draining"
    BY <1>2, BetweenSameTree DEF Between, BeginStart, FinishStart, ShutdownGracefully,
                                 AssertShutdown, ShutdownAsserted
  <2>. QED
    BY <2>1
<1>3. CASE CallStart \/ StartReturnsOk \/ ServiceIsStarted \/ StartReturnsErr
  <2>1. UNCHANGED <<aborts, drain, draining>>
    BY <1>3 DEF CallStart, StartReturnsOk, ServiceIsStarted, StartReturnsErr,
                StartCall, StartOk, Register, StartErr, drainVars
  <2>2. main = "starting" /\ main' \in {"starting", "stopping"}
    <3>1. CASE CallStart
      BY <3>1 DEF CallStart
    <3>2. CASE StartReturnsOk \/ ServiceIsStarted \/ StartReturnsErr
      <4>1. current \in Service /\ main' \in {main, "stopping"}
        BY <3>2 DEF StartReturnsOk, ServiceIsStarted, StartReturnsErr, mainVars
      <4>2. main = "starting"
        BY <4>1 DEF OneStart
      <4>. QED
        BY <4>1, <4>2
    <3>. QED
      BY <1>3, <3>1, <3>2
  <2>. QED
    BY <2>1, <2>2
<1>4. CASE BeginDrain
  BY <1>4 DEF BeginDrain, DrainBegin
<1>5. CASE DrainOne
  <2>1. main = "draining" /\ main' = main /\ UNCHANGED <<children, aborts, drain>>
    BY <1>5 DEF DrainOne, DrainJoin, DrainTimeout, mainVars
  <2>. QED
    BY <2>1
<1>6. CASE Stop
  BY <1>6 DEF Stop, DrainEnd
<1>. QED
  BY <1>1, <1>2, <1>3, <1>4, <1>5, <1>6, RuntimeCases

LEMMA RootsEndedStep ==
  ASSUME RootsEnded, IInv, Typed, [RNext]_rvars
  PROVE  RootsEnded'
<1>. SUFFICES ASSUME NEW s \in Service
              PROVE  /\ watcher'[s] # "aborted"
                     /\ ~Alive(s)' => handle'[s] \notin {"live", "placeholder"}
  BY DEF RootsEnded
<1>0. /\ TypeOK /\ Sound(s) /\ watcher[s] # "aborted"
      /\ ~Alive(s) => handle[s] \notin {"live", "placeholder"}
  BY DEF RootsEnded, IInv
<1>1. CASE watcher'[s] = watcher[s] /\ handle'[s] = handle[s]
  BY <1>0, <1>1 DEF Alive
<1>2. CASE Background
  <2>1. PICK t \in Service : RootExit(t) \/ PlaceholderExit(t) \/ Supervise(t)
    BY <1>2 DEF Background
  <2>2. CASE t # s
    <3>1. Touches(t)
      BY <1>0, <2>1, StepTouches DEF StepOf
    <3>. QED
      BY <2>2, <3>1, <1>1 DEF Touches
  <2>3. CASE t = s
    <3>1. CASE RootExit(s) \/ PlaceholderExit(s)
      BY <1>0, <3>1 DEF RootExit, PlaceholderExit, TypeOK, Alive
    <3>2. CASE SeeCancelled(s) \/ SeeCleanExit(s) \/ SeePanic(s)
      <4>1. handle'[s] = handle[s] /\ handle[s] \in {"cancelled", "ok", "panic"}
        BY <3>2 DEF SeeCancelled, SeeCleanExit, SeePanic
      <4>2. watcher'[s] \in {"exited", "backoff"}
        BY <1>0, <3>2 DEF SeeCancelled, SeeCleanExit, SeePanic, TypeOK
      <4>. QED
        BY <4>1, <4>2
    <3>3. CASE BackoffElapsed(s) \/ RestartOk(s)
      <4>1. watcher'[s] \in {"restarting", "watching"}
        BY <1>0, <3>3 DEF BackoffElapsed, RestartOk, TypeOK
      <4>. QED
        BY <4>1 DEF Alive
    <3>4. CASE RestartErr(s) \/ RestartPanic(s)
      <4>1. handle[s] \in {"ok", "panic"}
        BY <1>0, <3>4 DEF RestartErr, RestartPanic, Sound, InStep
      <4>2. \/ watcher'[s] = "watching"
            \/ watcher'[s] \in {"exited", "panicked"} /\ handle'[s] = handle[s]
        BY <1>0, <3>4 DEF RestartErr, RestartPanic, TypeOK
      <4>. QED
        BY <4>1, <4>2 DEF Alive
    <3>5. CASE SeeShutdown(s)
      <4>1. watcher[s] = "backoff" => handle[s] \in {"ok", "panic"}
        BY <1>0 DEF Sound, InStep
      <4>2. /\ watcher'[s] = "exited"
            /\ handle'[s] = IF watcher[s] = "backoff" THEN handle[s]
                            ELSE IF handle[s] = "live" THEN "aborting"
                            ELSE IF handle[s] = "placeholder" THEN "cancelled"
                            ELSE handle[s]
        BY <1>0, <3>5 DEF SeeShutdown, TypeOK
      <4>. QED
        BY <4>1, <4>2
    <3>. QED
      BY <2>1, <2>3, <3>1, <3>2, <3>3, <3>4, <3>5 DEF Supervise
  <2>. QED
    BY <2>2, <2>3
<1>3. CASE Between
  BY <1>1, <1>3, BetweenSameTree
<1>4. CASE StartReturnsOk
  <2>1. /\ current \in Service
        /\ watcher' = [watcher EXCEPT ![current] = "watching"]
        /\ handle' = [handle EXCEPT ![current] = "live"]
    BY <1>4 DEF StartReturnsOk, StartOk
  <2>2. CASE current = s
    <3>1. watcher'[s] = "watching"
      BY <1>0, <2>1, <2>2 DEF TypeOK
    <3>. QED
      BY <3>1 DEF Alive
  <2>3. CASE current # s
    BY <1>0, <1>1, <2>1, <2>3 DEF TypeOK
  <2>. QED
    BY <2>2, <2>3
<1>5. CASE CallStart \/ ServiceIsStarted \/ StartReturnsErr
  BY <1>1, <1>5 DEF CallStart, ServiceIsStarted, StartReturnsErr, StartCall, Register,
                    StartErr
<1>6. CASE BeginDrain \/ DrainOne \/ Stop
  BY <1>1, <1>6 DEF BeginDrain, DrainOne, Stop, DrainBegin, DrainJoin, DrainTimeout,
                    DrainEnd
<1>7. CASE UNCHANGED <<handle, watcher>>
  BY <1>1, <1>7
<1>. QED
  BY <1>2, <1>3, <1>4, <1>5, <1>6, <1>7, RuntimeCases

-----------------------------------------------------------------------------
(* Fail-fast startup. *)

LEMMA PlanEntries ==
  /\ Len(Plan) \in Nat
  /\ \A i \in 1 .. Len(Plan) : Plan[i] \in Service /\ Plan[i] # NoService
  /\ \A i, j \in 1 .. Len(Plan) : Plan[i] = Plan[j] => i = j
BY Constants

\* While the services are being started none of them has failed.
LEMMA NoneFailed ==
  ASSUME InOrder, OneStart, Typed, main \in {"built", "starting"},
         NEW i \in 1 .. Len(Plan)
  PROVE  call[Plan[i]] # "failed"
<1>1. Plan[i] \in Service /\ Plan[i] # NoService
  BY PlanEntries
<1>2. CASE main = "built"
  BY <1>1, <1>2 DEF InOrder
<1>3. CASE main = "starting" /\ i > Reached
  BY <1>3 DEF InOrder
<1>4. CASE main = "starting" /\ i <= Reached
  <2>1. call[Plan[i]] = "started" \/ current = Plan[i]
    BY <1>4 DEF InOrder
  <2>. QED
    BY <1>1, <2>1 DEF OneStart
<1>. QED
  <2>1. Len(queue) \in Int /\ Len(Plan) \in Int /\ i \in Int
    BY PlanEntries DEF Typed
  <2>2. i > Reached \/ i <= Reached
    BY <2>1 DEF Reached
  <2>. QED
    BY <1>2, <1>3, <1>4, <2>2

\* Taking the next service of the plan.
LEMMA CallStartInOrder ==
  ASSUME InOrder, OneStart, Typed, TypeOK, CallStart
  PROVE  InOrder'
<1>. DEFINE s == Head(queue)
            r == Reached + 1
<1>1. /\ main = "starting" /\ current = NoService /\ queue # <<>>
      /\ call' = [call EXCEPT ![s] = "starting"]
      /\ current' = s /\ queue' = Tail(queue)
      /\ UNCHANGED <<main, started>>
  BY DEF CallStart, StartCall
<1>2. /\ queue \in Seq(Service) /\ Len(queue) \in Nat \ {0} /\ Len(Plan) \in Nat
      /\ s = queue[1] /\ Len(queue') = Len(queue) - 1
      /\ \A i \in 1 .. Len(queue') : queue'[i] = queue[i + 1]
  BY <1>1, PlanEntries DEF Typed
<1>3. Len(queue) <= Len(Plan)
  BY <1>1 DEF InOrder
<1>4. /\ Reached' = r /\ r \in 1 .. Len(Plan) /\ Reached \in Int
  BY <1>2, <1>3 DEF Reached
<1>5. s = Plan[r]
  <2>1. 1 \in 1 .. Len(queue)
    BY <1>2
  <2>2. queue[1] = Plan[Reached + 1]
    BY <1>1, <2>1 DEF InOrder
  <2>. QED
    BY <1>2, <2>2
<1>6. s \in Service /\ s # NoService
  BY <1>4, <1>5, PlanEntries
<1>7. ASSUME NEW i \in 1 .. Len(queue') PROVE queue'[i] = Plan[r + i]
  <2>1. i + 1 \in 1 .. Len(queue)
    BY <1>2
  <2>2. queue[i + 1] = Plan[Reached + (i + 1)]
    BY <1>1, <2>1 DEF InOrder
  <2>3. Reached + (i + 1) = r + i
    BY <1>4
  <2>. QED
    BY <1>2, <2>2, <2>3
<1>8. ASSUME NEW j \in 1 .. Len(Plan), j > r PROVE call'[Plan[j]] = "idle"
  <2>1. Plan[j] # s /\ j > Reached
    BY <1>4, <1>5, <1>8, PlanEntries
  <2>2. call[Plan[j]] = "idle"
    BY <1>1, <2>1 DEF InOrder
  <2>. QED
    BY <1>1, <2>1, <2>2 DEF TypeOK
<1>9. ASSUME NEW j \in 1 .. Len(Plan), j <= r
      PROVE  \/ call'[Plan[j]] = "started"
             \/ j = r /\ current' = Plan[j]
  <2>1. CASE j = r
    BY <1>1, <1>5, <2>1
  <2>2. CASE j # r
    <3>1. j <= Reached /\ Plan[j] # s /\ Plan[j] # NoService
      BY <1>4, <1>5, <1>9, <2>2, PlanEntries
    <3>2. call[Plan[j]] = "started"
      BY <1>1, <3>1 DEF InOrder
    <3>. QED
      BY <1>1, <3>1, <3>2 DEF TypeOK
  <2>. QED
    BY <2>1, <2>2
<1>10. Len(queue') <= Len(Plan) /\ r >= 1
  BY <1>2, <1>3, <1>4
<1>11. ~started' /\ main' = "starting"
  BY <1>1 DEF InOrder
<1>. HIDE DEF s, r
<1>. QED
  BY <1>1, <1>4, <1>5, <1>7, <1>8, <1>9, <1>10, <1>11 DEF InOrder

LEMMA InOrderStep ==
  ASSUME InOrder, OneStart, Typed, TypeOK, [RNext]_rvars
  PROVE  InOrder'
<1>1. CASE SameMain
  BY <1>1 DEF SameMain, mainVars, InOrder, Reached
<1>2. CASE BeginStart
  <2>1. /\ main = "built" /\ main' = "starting" /\ queue' = Plan
        /\ UNCHANGED <<call, current, started>>
    BY <1>2 DEF BeginStart, vars
  <2>2. Len(queue') = Len(Plan) /\ Reached' = 0
    BY <2>1, PlanEntries DEF Reached
  <2>3. current = NoService /\ \A j \in 1 .. Len(Plan) : call[Plan[j]] = "idle"
    BY <2>1, PlanEntries DEF OneStart, InOrder
  <2>4. /\ \A i \in 1 .. Len(queue') : queue'[i] = Plan[Reached' + i]
        /\ Len(queue') <= Len(Plan)
    BY <2>1, <2>2, PlanEntries
  <2>5. \A j \in 1 .. Len(Plan) : ~(j <= Reached')
    BY <2>2
  <2>. QED
    BY <2>1, <2>3, <2>4, <2>5 DEF InOrder
<1>3. CASE Between /\ ~BeginStart
  <2>1. main' \notin {"built", "starting"}
    BY <1>3 DEF Between, FinishStart, ShutdownGracefully, AssertShutdown,
                ShutdownAsserted
  <2>. QED
    BY <2>1 DEF InOrder
<1>4. CASE CallStart
  BY <1>4, CallStartInOrder
<1>5. CASE StartReturnsOk
  <2>1. /\ current \in Service
        /\ call' = [call EXCEPT ![current] = "registering"]
        /\ UNCHANGED <<main, queue, current, started>>
    BY <1>5 DEF StartReturnsOk, StartOk, mainVars
  <2>2. main = "starting" /\ Reached' = Reached /\ call[current] # "idle"
    BY <2>1, Constants DEF OneStart, Reached
  <2>3. /\ current = Plan[Reached]
        /\ call[current] \in {"starting", "registering"}
    BY <2>1, <2>2, Constants DEF OneStart, InOrder
  <2>4. \A j \in 1 .. Len(Plan) :
          /\ call[Plan[j]] = "idle" => call'[Plan[j]] = "idle"
          /\ call[Plan[j]] = "started" => call'[Plan[j]] = "started"
    BY <2>1, <2>2, <2>3, PlanEntries DEF TypeOK
  <2>. QED
    BY <2>1, <2>2, <2>4 DEF InOrder
<1>6. CASE ServiceIsStarted
  <2>1. /\ current \in Service /\ current' = NoService
        /\ call' = [call EXCEPT ![current] = "started"]
        /\ UNCHANGED <<main, queue, started>>
    BY <1>6 DEF ServiceIsStarted, Register
  <2>2. main = "starting" /\ Reached' = Reached /\ call[current] # "idle"
    BY <2>1, Constants DEF OneStart, Reached
  <2>3. \A j \in 1 .. Len(Plan) :
          /\ call[Plan[j]] = "idle" => call'[Plan[j]] = "idle"
          /\ call[Plan[j]] = "started" => call'[Plan[j]] = "started"
          /\ Plan[j] = current => call'[Plan[j]] = "started"
    BY <2>1, <2>2, PlanEntries DEF TypeOK
  <2>. QED
    BY <2>1, <2>2, <2>3 DEF InOrder
<1>7. CASE StartReturnsErr \/ BeginDrain \/ DrainOne \/ Stop
  <2>1. main' \notin {"built", "starting"}
    BY <1>7 DEF StartReturnsErr, BeginDrain, DrainOne, Stop, mainVars
  <2>. QED
    BY <2>1 DEF InOrder
<1>. QED
  BY <1>1, <1>2, <1>3, <1>4, <1>5, <1>6, <1>7, RuntimeCases

LEMMA FailFastStep ==
  ASSUME FailFast, InOrder, OneStart, Typed, TypeOK, [RNext]_rvars
  PROVE  FailFast'
<1>1. CASE UNCHANGED <<call, started>>
  BY <1>1 DEF FailFast
<1>2. CASE FinishStart
  <2>1. UNCHANGED call /\ main = "starting"
    BY <1>2 DEF FinishStart, vars
  <2>2. \A i \in 1 .. Len(Plan) : call'[Plan[i]] # "failed"
    BY <2>1, NoneFailed
  <2>. QED
    BY <2>2 DEF FailFast
<1>3. CASE CallStart \/ StartReturnsOk \/ ServiceIsStarted
  <2>1. main = "starting"
    BY <1>3, Constants DEF CallStart, StartReturnsOk, ServiceIsStarted, OneStart
  <2>2. PICK s \in Service, c \in {"starting", "registering", "started"} :
          call' = [call EXCEPT ![s] = c]
    <3>1. CASE CallStart
      <4>1. Head(queue) \in Service
        BY <3>1 DEF CallStart, Typed
      <4>. QED
        BY <3>1, <4>1 DEF CallStart, StartCall
    <3>2. CASE StartReturnsOk \/ ServiceIsStarted
      BY <3>2 DEF StartReturnsOk, ServiceIsStarted, StartOk, Register
    <3>. QED
      BY <1>3, <3>1, <3>2
  <2>3. ASSUME NEW i \in 1 .. Len(Plan) PROVE call'[Plan[i]] # "failed"
    <3>1. call[Plan[i]] # "failed"
      BY <2>1, NoneFailed
    <3>. QED
      BY <2>2, <3>1, PlanEntries DEF TypeOK
  <2>. QED
    BY <2>3 DEF FailFast
<1>4. CASE StartReturnsErr
  <2>1. /\ current \in Service
        /\ call' = [call EXCEPT ![current] = "failed"]
        /\ UNCHANGED started
    BY <1>4 DEF StartReturnsErr, StartErr
  <2>2. main = "starting" /\ ~started
    BY <2>1, Constants DEF OneStart, InOrder
  <2>3. current = Plan[Reached] /\ Reached >= 1
    BY <2>1, <2>2, Constants DEF InOrder
  <2>4. Reached \in 1 .. Len(Plan)
    BY <2>3, PlanEntries DEF Reached, Typed
  <2>. SUFFICES ASSUME NEW i \in 1 .. Len(Plan), call'[Plan[i]] = "failed"
                PROVE  /\ ~started'
                       /\ \A j \in i + 1 .. Len(Plan) : call'[Plan[j]] = "idle"
                       /\ \A j \in 1 .. i - 1 : call'[Plan[j]] = "started"
    BY DEF FailFast
  <2>5. i = Reached
    <3>1. call[Plan[i]] # "failed"
      BY <2>2, NoneFailed
    <3>2. Plan[i] = Plan[Reached]
      BY <2>1, <2>3, <3>1, PlanEntries DEF TypeOK
    <3>. QED
      BY <2>4, <3>2, PlanEntries
  <2>6. ASSUME NEW j \in i + 1 .. Len(Plan) PROVE call'[Plan[j]] = "idle"
    <3>1. j \in 1 .. Len(Plan) /\ j > Reached
      BY <2>4, <2>5
    <3>2. Plan[j] # current
      BY <2>3, <2>4, <3>1, PlanEntries
    <3>3. call[Plan[j]] = "idle"
      BY <2>2, <3>1 DEF InOrder
    <3>. QED
      BY <2>1, <3>2, <3>3 DEF TypeOK
  <2>7. ASSUME NEW j \in 1 .. i - 1 PROVE call'[Plan[j]] = "started"
    <3>1. j \in 1 .. Len(Plan) /\ j <= Reached /\ j # Reached
      BY <2>4, <2>5
    <3>2. Plan[j] # current
      BY <2>3, <2>4, <3>1, PlanEntries
    <3>3. call[Plan[j]] = "started"
      BY <2>2, <3>1 DEF InOrder
    <3>. QED
      BY <2>1, <3>2, <3>3 DEF TypeOK
  <2>. QED
    BY <2>1, <2>2, <2>6, <2>7
<1>5. CASE SameMain
  BY <1>1, <1>5 DEF SameMain, mainVars
<1>6. CASE Between /\ ~FinishStart
  BY <1>1, <1>6 DEF Between, BeginStart, ShutdownGracefully, AssertShutdown,
                    ShutdownAsserted, vars
<1>7. CASE BeginDrain \/ DrainOne \/ Stop
  BY <1>1, <1>7 DEF BeginDrain, DrainOne, Stop, DrainBegin, DrainJoin, DrainTimeout,
                    DrainEnd, mainVars
<1>. QED
  BY <1>2, <1>3, <1>4, <1>5, <1>6, <1>7, RuntimeCases

-----------------------------------------------------------------------------
LEMMA RInvInit == RInit => RInv
<1>. SUFFICES ASSUME RInit PROVE RInv
  OBVIOUS
<1>1. /\ main = "built" /\ queue = <<>> /\ current = NoService /\ stopped = 0
      /\ started = FALSE /\ aborts = {} /\ drain = FALSE /\ draining = {}
  BY DEF RInit, Init
<1>2. \A s \in Service : call[s] = "idle" /\ watcher[s] = "absent" /\ handle[s] = "none"
  BY DEF RInit, Init
<1>3. Counted /\ OneStart /\ Drained /\ RootsEnded /\ InOrder
  BY <1>1, <1>2 DEF Counted, OneStart, Drained, RootsEnded, InOrder
<1>4. FailFast
  BY <1>2, PlanEntries DEF FailFast
<1>. QED
  BY <1>3, <1>4, RuntimeInit DEF RInv

LEMMA RInvStep == RInv /\ [RNext]_rvars => RInv'
<1>. SUFFICES ASSUME RInv, [RNext]_rvars PROVE RInv'
  OBVIOUS
<1>1. TypeOK /\ Typed /\ OneStart
  BY DEF RInv, IInv
<1>2. [Next]_vars
  BY <1>1, RuntimeStep
<1>3. IInv' /\ KInv'
  BY <1>1, <1>2, TypeStep, SoundStep, RemembersStep DEF RInv, IInv
<1>4. Typed' /\ Counted' /\ OneStart' /\ Drained' /\ RootsEnded'
  BY <1>1, TypedStep, CountedStep, OneStartStep, DrainedStep, RootsEndedStep DEF RInv
<1>5. InOrder' /\ FailFast'
  BY <1>1, InOrderStep, FailFastStep DEF RInv
<1>. QED
  BY <1>3, <1>4, <1>5 DEF RInv

THEOREM RuntimeInvariance == RSpec => []RInv
BY RInvInit, RInvStep, PTL DEF RSpec

(* The runtime's variables have their types, the number of RuntimeStopped  *)
(* included: at most one per call of shutdown_gracefully.                  *)
THEOREM RuntimeTypeCorrect == RSpec => []RTypeOK
<1>1. RInv => RTypeOK
  <2>. SUFFICES ASSUME RInv PROVE RTypeOK
    OBVIOUS
  <2>1. Typed /\ Counted /\ MaxShutdownCalls \in Nat \ {0}
    BY Constants DEF RInv
  <2>2. stopped \in 0 .. MaxShutdownCalls
    BY <2>1 DEF Typed, Counted
  <2>. QED
    BY <2>1, <2>2 DEF Typed, RTypeOK
<1>. QED
  BY <1>1, RuntimeInvariance, PTL

(* Fail-fast startup, for every plan: after a failed start the services    *)
(* before it are the only ones ever started.                               *)
THEOREM FailsFast == RSpec => []FailFast
<1>1. RInv => FailFast
  BY DEF RInv
<1>. QED
  BY <1>1, RuntimeInvariance, PTL

(* RuntimeStopped means stopped, for every plan and any number of services:*)
(* what still runs then was given up by drain at its deadline, or lost its *)
(* place in the map to another service of the same name.                   *)
THEOREM StoppedIsQuiet == RSpec => []QuietAfterStop
<1>1. RInv => QuietAfterStop
  <2>. SUFFICES ASSUME RInv, main = "stopped",
                       NEW s \in Service \ late, OwnName(s)
                PROVE  ~Alive(s) /\ handle[s] \notin {"live", "placeholder"}
    BY DEF QuietAfterStop
  <2>1. /\ Sound(s) /\ Remembered(s)
        /\ call[s] \in {"idle", "failed", "started"}
        /\ s \notin draining \cup late \cup aborts
        /\ children[NameOf[s]] # s
    <3>1. Sound(s) /\ Remembered(s)
      BY DEF RInv, IInv, KInv
    <3>2. current = NoService /\ s # NoService
      BY Constants DEF RInv, OneStart
    <3>3. call[s] \in {"idle", "failed", "started"}
      BY <3>2 DEF RInv, OneStart
    <3>4. draining = {} /\ aborts = {} /\ children[NameOf[s]] = NoService
      BY Constants DEF RInv, Drained
    <3>. QED
      BY <3>1, <3>2, <3>3, <3>4
  <2>2. ~Alive(s)
    <3>1. CASE call[s] = "started"
      BY <2>1, <3>1 DEF Remembered, OwnName
    <3>2. CASE call[s] # "started"
      BY <2>1, <3>2 DEF Sound, Untouched, Alive
    <3>. QED
      BY <3>1, <3>2
  <2>. QED
    BY <2>2 DEF RInv, RootsEnded
<1>. QED
  BY <1>1, RuntimeInvariance, PTL
=============================================================================
