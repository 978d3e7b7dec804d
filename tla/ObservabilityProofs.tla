------------------------- MODULE ObservabilityProofs --------------------------
(***************************************************************************)
(* Proofs about the recorder of walastack-observability, for any services, *)
(* policies, plan and capacity: "Failed" is no false alarm, and a recorder *)
(* that caught up without a loss has the totals of what was published.     *)
(* The order in which the channels are emptied plays no part in either:    *)
(* each channel carries its own account of what is still to be handled.    *)
(***************************************************************************)
EXTENDS Observability, Integers, SequenceTheorems, TLAPS

LifecycleEvent ==
    [type : {"none"} \cup ServiceType, attempt : Nat, will_restart : BOOLEAN]
Seen(t) == IF t \in ServiceType THEN [name : Service, will_restart : BOOLEAN] ELSE {t}

Typed ==
    /\ last \in [Service -> LifecycleEvent]
    /\ recording \in BOOLEAN
    /\ channel = [t \in Type |-> channel[t]]
    /\ \A t \in Type : channel[t] \in Seq(Seen(t))
    /\ services \in [Service -> {Untracked} \cup Health]
    /\ counts \in [Type -> Nat]
    /\ published \in [Type -> Nat]
    /\ about \in [Service -> [starts : Nat, failures : Nat]]
    /\ overflowed \subseteq Type

\* Until the recorder subscribes there is nothing to account for.
Fresh ==
    ~recording /\ ~Started(Recorder) =>
        /\ channel = [t \in Type |-> << >>]
        /\ services = [s \in Service |-> Untracked]
        /\ counts = [t \in Type |-> 0]
        /\ published = [t \in Type |-> 0]
        /\ about = [s \in Service |-> [starts |-> 0, failures |-> 0]]
        /\ overflowed = {}

\* Whoever is "Failed", or is about to be, was given up.
Alarms ==
    /\ \A s \in Service : services[s] # Untracked /\ services[s].status = "Failed" => GivenUp(s)
    /\ \A i \in 1 .. Len(channel["ServiceFailed"]) :
          ~channel["ServiceFailed"][i].will_restart => GivenUp(channel["ServiceFailed"][i].name)

\* What was handled and what waits make up what was published.
Counted ==
    recording => \A t \in Type \ RuntimeType :
        t \notin overflowed => counts[t] + Len(channel[t]) = published[t]

\* Counting the events about s from the head of q leads from one number to
\* the other.
Mentions(e, s) == IF e.name = s THEN 1 ELSE 0
Leads(q, s, from, to) ==
    \E f \in [0 .. Len(q) -> Nat] :
        /\ f[0] = from /\ f[Len(q)] = to
        /\ \A i \in 1 .. Len(q) : f[i] = f[i - 1] + Mentions(q[i], s)

Starts(s) == IF services[s] = Untracked THEN 0 ELSE services[s].starts
Failures(s) == IF services[s] = Untracked THEN 0 ELSE services[s].failures

Accounted ==
    recording => \A s \in Service :
        /\ "ServiceStarted" \notin overflowed =>
             Leads(channel["ServiceStarted"], s, Starts(s), about[s].starts)
        /\ "ServiceFailed" \notin overflowed =>
             Leads(channel["ServiceFailed"], s, Failures(s), about[s].failures)

OInv == Typed /\ Fresh /\ Alarms /\ Counted /\ Accounted

-----------------------------------------------------------------------------
(* An account over the events of a channel. *)

LEMMA LeadsNowhere ==
  ASSUME NEW s, NEW from \in Nat, NEW to \in Nat
  PROVE  Leads(<< >>, s, from, to) <=> from = to
<1>1. Len(<< >>) = 0
  OBVIOUS
<1>2. ASSUME from = to PROVE Leads(<< >>, s, from, to)
  <2>. DEFINE g == [k \in 0 .. 0 |-> from]
  <2>1. g \in [0 .. Len(<< >>) -> Nat] /\ g[0] = from /\ g[Len(<< >>)] = to
    BY <1>1, <1>2
  <2>2. \A i \in 1 .. Len(<< >>) : g[i] = g[i - 1] + Mentions((<< >>)[i], s)
    BY <1>1
  <2>. HIDE DEF g
  <2>. QED
    BY <2>1, <2>2 DEF Leads
<1>. QED
  BY <1>1, <1>2 DEF Leads

LEMMA LeadsFurther ==
  ASSUME NEW S, NEW q \in Seq(S), NEW e \in S, NEW s, NEW from \in Nat, NEW to \in Nat,
         Leads(q, s, from, to)
  PROVE  Leads(Append(q, e), s, from, to + Mentions(e, s))
<1>1. PICK f \in [0 .. Len(q) -> Nat] :
          f[0] = from /\ f[Len(q)] = to
          /\ \A i \in 1 .. Len(q) : f[i] = f[i - 1] + Mentions(q[i], s)
  BY DEF Leads
<1>. DEFINE n == Len(q)
            g == [i \in 0 .. n + 1 |-> IF i = n + 1 THEN to + Mentions(e, s) ELSE f[i]]
<1>2. n \in Nat /\ Len(Append(q, e)) = n + 1
  OBVIOUS
<1>3. Mentions(e, s) \in Nat
  BY DEF Mentions
<1>4. g \in [0 .. n + 1 -> Nat]
  BY <1>1, <1>2, <1>3
<1>5. g[0] = from /\ g[n + 1] = to + Mentions(e, s)
  BY <1>1, <1>2
<1>6. ASSUME NEW i \in 1 .. n + 1 PROVE g[i] = g[i - 1] + Mentions(Append(q, e)[i], s)
  <2>1. CASE i = n + 1
    <3>1. i - 1 = n /\ i - 1 # n + 1 /\ i - 1 \in 0 .. n + 1 /\ Append(q, e)[i] = e
      BY <1>2, <2>1
    <3>2. g[i] = to + Mentions(e, s)
      BY <1>2, <2>1
    <3>3. g[n] = f[n]
      BY <1>2
    <3>. QED
      BY <1>1, <3>1, <3>2, <3>3
  <2>2. CASE i # n + 1
    <3>1. i \in 1 .. n /\ i - 1 \in 0 .. n /\ Append(q, e)[i] = q[i]
      BY <1>2, <2>2
    <3>2. g[i] = f[i] /\ g[i - 1] = f[i - 1]
      BY <1>2, <3>1
    <3>. QED
      BY <1>1, <3>1, <3>2
  <2>. QED
    BY <2>1, <2>2
<1>. HIDE DEF g
<1>. QED
  BY <1>2, <1>4, <1>5, <1>6 DEF Leads

LEMMA LeadsOn ==
  ASSUME NEW S, NEW q \in Seq(S), q # << >>, NEW s, NEW from \in Nat, NEW to \in Nat,
         Leads(q, s, from, to)
  PROVE  Leads(Tail(q), s, from + Mentions(Head(q), s), to)
<1>1. PICK f \in [0 .. Len(q) -> Nat] :
          f[0] = from /\ f[Len(q)] = to
          /\ \A i \in 1 .. Len(q) : f[i] = f[i - 1] + Mentions(q[i], s)
  BY DEF Leads
<1>. DEFINE n == Len(q) - 1
            g == [i \in 0 .. n |-> f[i + 1]]
<1>2. n \in Nat /\ Len(Tail(q)) = n /\ Len(q) = n + 1 /\ Head(q) = q[1]
  OBVIOUS
<1>3. g \in [0 .. n -> Nat] /\ g[0] = f[1] /\ g[n] = to
  BY <1>1, <1>2
<1>4. f[1] = from + Mentions(Head(q), s)
  <2>1. 1 \in 1 .. Len(q) /\ 1 - 1 = 0
    BY <1>2
  <2>. QED
    BY <1>1, <1>2, <2>1
<1>5. ASSUME NEW i \in 1 .. n PROVE g[i] = g[i - 1] + Mentions(Tail(q)[i], s)
  <2>1. /\ i + 1 \in 1 .. Len(q) /\ (i + 1) - 1 = i /\ (i - 1) + 1 = i
        /\ i \in 0 .. n /\ i - 1 \in 0 .. n /\ Tail(q)[i] = q[i + 1]
    BY <1>2
  <2>2. g[i] = f[i + 1] /\ g[i - 1] = f[i]
    BY <2>1
  <2>3. f[i + 1] = f[(i + 1) - 1] + Mentions(q[i + 1], s)
    BY <1>1, <2>1
  <2>. QED
    BY <2>1, <2>2, <2>3
<1>. HIDE DEF g
<1>. QED
  BY <1>2, <1>3, <1>4, <1>5 DEF Leads

-----------------------------------------------------------------------------
(* What a step of supervision does to the last events. *)

LEMMA EventFields ==
  ASSUME NEW k \in Nat, NEW w \in BOOLEAN
  PROVE  /\ Supervised!Started(k) \in LifecycleEvent
         /\ Supervised!Stopped(k) \in LifecycleEvent
         /\ Supervised!Failed(k, w) \in LifecycleEvent
         /\ Supervised!Started(k).type = "ServiceStarted"
         /\ Supervised!Stopped(k).type = "ServiceStopped"
         /\ Supervised!Failed(k, w).type = "ServiceFailed"
  BY DEF LifecycleEvent, ServiceType, Supervised!Started, Supervised!Stopped, Supervised!Failed

\* One service's event changes, to one that supervision publishes, and never
\* after it was given up.
LEMMA Announced ==
  ASSUME Typed, NEW s \in Service, ServiceEvent(s)
  PROVE  /\ \E e \in LifecycleEvent : e.type \in ServiceType /\ last' = [last EXCEPT ![s] = e]
         /\ ~GivenUp(s)
         /\ s = Recorder => recording
<1>1. PICK x \in Service :
          Supervised!FirstStart(x) \/ Supervised!Fail(x) \/ Supervised!Stop(x)
          \/ Supervised!Restart(x) \/ Supervised!FailToRestart(x)
  BY DEF ServiceEvent, Supervised!Next
<1>2. last[x] \in LifecycleEvent /\ last[x].attempt \in Nat
  BY DEF Typed, LifecycleEvent
<1>. DEFINE k == last[x].attempt
            next == Supervised!Following(k)
<1>3. next \in Nat
  BY <1>2 DEF Supervised!Following
<1>4. Supervised!MayRetry(x, k) \in BOOLEAN /\ Supervised!MayRetry(x, next) \in BOOLEAN
  BY DEF Supervised!MayRetry
<1>5. PICK e \in LifecycleEvent : e.type \in ServiceType /\ last' = [last EXCEPT ![x] = e]
  <2>1. CASE Supervised!FirstStart(x)
    BY <2>1, EventFields DEF Supervised!FirstStart, Supervised!Publish, ServiceType
  <2>2. CASE Supervised!Fail(x)
    <3>1. last' = [last EXCEPT ![x] = Supervised!Failed(k, Supervised!MayRetry(x, k))]
      BY <2>2 DEF Supervised!Fail, Supervised!Publish
    <3>. QED
      BY <1>2, <1>4, <3>1, EventFields DEF ServiceType
  <2>3. CASE Supervised!Stop(x)
    BY <1>2, <2>3, EventFields DEF Supervised!Stop, Supervised!Publish, ServiceType
  <2>4. CASE Supervised!Restart(x)
    BY <1>3, <2>4, EventFields DEF Supervised!Restart, Supervised!Publish, ServiceType
  <2>5. CASE Supervised!FailToRestart(x)
    <3>1. last' = [last EXCEPT ![x] = Supervised!Failed(next, Supervised!MayRetry(x, next))]
      BY <2>5 DEF Supervised!FailToRestart, Supervised!Publish
    <3>. QED
      BY <1>3, <1>4, <3>1, EventFields DEF ServiceType
  <2>. QED
    BY <1>1, <2>1, <2>2, <2>3, <2>4, <2>5
<1>6. x = s
  BY <1>5 DEF ServiceEvent, Typed
<1>7. ~GivenUp(x)
  BY <1>1 DEF GivenUp, Supervised!FirstStart, Supervised!Fail, Supervised!Stop,
              Supervised!Restart, Supervised!FailToRestart, Supervised!Restarting,
              Supervised!NoEvent
<1>8. s = Recorder => recording
  BY DEF ServiceEvent, InOrder
<1>. QED
  BY <1>5, <1>6, <1>7, <1>8

\* Who was given up stays so, and who has started too.
LEMMA LastWord ==
  ASSUME Typed, NEW s \in Service, ServiceEvent(s)
  PROVE  /\ last' \in [Service -> LifecycleEvent]
         /\ \A x \in Service : GivenUp(x) => GivenUp(x)'
         /\ Started(Recorder) => Started(Recorder)'
<1>1. PICK e \in LifecycleEvent : e.type \in ServiceType /\ last' = [last EXCEPT ![s] = e]
  BY Announced
<1>2. ~GivenUp(s)
  BY Announced
<1>3. e # Supervised!NoEvent
  BY <1>1 DEF ServiceType, Supervised!NoEvent
<1>. QED
  BY <1>1, <1>2, <1>3, ObservabilityAssumption DEF Typed, GivenUp, Started

-----------------------------------------------------------------------------
(* What a publication does to the channel of its type. *)

LEMMA Kinds ==
  /\ "ServiceStarted" \in Type \ RuntimeType /\ "ServiceFailed" \in Type \ RuntimeType
  /\ "ServiceStarted" \in ServiceType /\ "ServiceFailed" \in ServiceType
  /\ ServiceType \subseteq Type /\ ServiceType \cap (RuntimeType \cup TaskType) = {}
  BY ObservabilityAssumption DEF Type, RuntimeType, ServiceType

LEMMA Named ==
  ASSUME Typed, NEW t \in ServiceType, NEW i \in 1 .. Len(channel[t])
  PROVE  channel[t][i].name \in Service
<1>1. channel[t] \in Seq([name : Service, will_restart : BOOLEAN])
  BY Kinds DEF Typed, Seen
<1>2. channel[t][i] \in [name : Service, will_restart : BOOLEAN]
  BY <1>1, ElementOfSeq
<1>. QED
  BY <1>2

LEMMA PublishHeard ==
  ASSUME Typed, recording, NEW t \in Type, NEW e \in Seen(t), Publish(t, e)
  PROVE  /\ channel' = [x \in Type |-> channel'[x]]
         /\ channel'[t] \in Seq(Seen(t))
         /\ \A x \in Type \ {t} : channel'[x] = channel[x]
         /\ published' = [published EXCEPT ![t] = published[t] + 1]
         /\ overflowed \subseteq overflowed' /\ overflowed' \subseteq Type
         /\ t \notin overflowed' => channel'[t] = Append(channel[t], e)
         /\ \A i \in 1 .. Len(channel'[t]) :
               \/ channel'[t][i] = e
               \/ \E j \in 1 .. Len(channel[t]) : channel'[t][i] = channel[t][j]
<1>. DEFINE full == Len(channel[t]) = Capacity
            kept == IF full THEN Tail(channel[t]) ELSE channel[t]
<1>1. /\ published' = [published EXCEPT ![t] = published[t] + 1]
      /\ channel' = [channel EXCEPT ![t] = Append(kept, e)]
      /\ overflowed' = IF full THEN overflowed \cup {t} ELSE overflowed
  BY DEF Publish
<1>2. channel[t] \in Seq(Seen(t)) /\ channel = [x \in Type |-> channel[x]]
  BY DEF Typed
<1>3. full => channel[t] # << >>
  BY ObservabilityAssumption
<1>4. /\ kept \in Seq(Seen(t))
      /\ \A i \in 1 .. Len(kept) : \E j \in 1 .. Len(channel[t]) : kept[i] = channel[t][j]
  <2>1. CASE full
    <3>1. kept = Tail(channel[t]) /\ Len(kept) = Len(channel[t]) - 1 /\ kept \in Seq(Seen(t))
      BY <1>2, <1>3, <2>1
    <3>2. ASSUME NEW i \in 1 .. Len(kept)
          PROVE  i + 1 \in 1 .. Len(channel[t]) /\ kept[i] = channel[t][i + 1]
      BY <1>2, <1>3, <3>1
    <3>. QED
      BY <3>1, <3>2
  <2>2. CASE ~full
    BY <1>2, <2>2
  <2>. QED
    BY <2>1, <2>2
<1>5. channel'[t] = Append(kept, e) /\ \A x \in Type \ {t} : channel'[x] = channel[x]
  BY <1>1, <1>2
<1>6. channel' = [x \in Type |-> channel'[x]]
  BY <1>1, <1>2
<1>7. overflowed \subseteq overflowed' /\ overflowed' \subseteq Type
  BY <1>1 DEF Typed
<1>8. t \notin overflowed' => channel'[t] = Append(channel[t], e)
  BY <1>1, <1>5
<1>9. ASSUME NEW i \in 1 .. Len(channel'[t])
      PROVE  \/ channel'[t][i] = e
             \/ \E j \in 1 .. Len(channel[t]) : channel'[t][i] = channel[t][j]
  <2>1. channel'[t][i] = e \/ (i \in 1 .. Len(kept) /\ channel'[t][i] = kept[i])
    BY <1>4, <1>5
  <2>. QED
    BY <1>4, <2>1
<1>10. channel'[t] \in Seq(Seen(t))
  BY <1>4, <1>5
<1>. QED
  BY <1>1, <1>5, <1>6, <1>7, <1>8, <1>9, <1>10

-----------------------------------------------------------------------------
(* The steps. *)

\* The parts of the state the invariant speaks of.
SameBooks ==
    /\ recording' = recording /\ channel' = channel /\ services' = services
    /\ counts' = counts /\ published' = published /\ about' = about
    /\ overflowed' = overflowed

LEMMA QuietStep ==
  ASSUME OInv, SameBooks, last' = last
  PROVE  OInv'
<1>1. Typed' /\ Fresh'
  BY DEF OInv, SameBooks, Typed, Fresh, Started
<1>2. Alarms' /\ Counted'
  BY DEF OInv, SameBooks, Alarms, GivenUp, Counted
<1>3. Accounted'
  BY DEF OInv, SameBooks, Accounted, Leads, Starts, Failures
<1>. QED
  BY <1>1, <1>2, <1>3 DEF OInv

LEMMA SubscribeStep ==
  ASSUME OInv, Subscribe
  PROVE  OInv'
<1>1. /\ last' = last /\ channel' = channel /\ services' = services /\ counts' = counts
      /\ published' = published /\ about' = about /\ overflowed' = overflowed
      /\ recording' = TRUE
  BY DEF Subscribe, stateVars, refVars
<1>2. /\ channel = [t \in Type |-> << >>]
      /\ services = [s \in Service |-> Untracked]
      /\ counts = [t \in Type |-> 0]
      /\ published = [t \in Type |-> 0]
      /\ about = [s \in Service |-> [starts |-> 0, failures |-> 0]]
  BY DEF OInv, Fresh, Subscribe
<1>3. Typed' /\ Fresh' /\ Alarms'
  BY <1>1 DEF OInv, Typed, Fresh, Alarms, GivenUp
<1>4. Counted'
  BY <1>1, <1>2 DEF Counted
<1>5. Accounted'
  <2>1. ASSUME NEW s \in Service
        PROVE  /\ Leads(channel["ServiceStarted"], s, Starts(s), about[s].starts)
               /\ Leads(channel["ServiceFailed"], s, Failures(s), about[s].failures)
    <3>1. channel["ServiceStarted"] = << >> /\ channel["ServiceFailed"] = << >>
      BY <1>2, Kinds
    <3>2. Starts(s) = 0 /\ Failures(s) = 0 /\ about[s].starts = 0 /\ about[s].failures = 0
      BY <1>2 DEF Starts, Failures
    <3>. QED
      BY <3>1, <3>2, LeadsNowhere
  <2>. QED
    BY <1>1, <2>1 DEF Accounted, Leads, Starts, Failures
<1>. QED
  BY <1>3, <1>4, <1>5 DEF OInv

LEMMA ShutdownStep ==
  ASSUME OInv, SeeShutdown
  PROVE  OInv'
<1>1. /\ last' = last /\ services' = services /\ counts' = counts /\ published' = published
      /\ about' = about /\ overflowed' = overflowed /\ recording' = FALSE
      /\ channel' = [t \in Type |-> << >>] /\ Started(Recorder)
  BY DEF SeeShutdown, stateVars, refVars
<1>2. Typed'
  <2>1. \A t \in Type : channel'[t] = << >> /\ << >> \in Seq(Seen(t))
    BY <1>1
  <2>2. channel' = [t \in Type |-> channel'[t]]
    BY <1>1
  <2>. QED
    BY <1>1, <2>1, <2>2, Kinds DEF OInv, Typed
<1>3. Alarms'
  BY <1>1, Kinds DEF OInv, Alarms, GivenUp
<1>4. Fresh' /\ Counted' /\ Accounted'
  BY <1>1 DEF Fresh, Started, Counted, Accounted
<1>. QED
  BY <1>2, <1>3, <1>4 DEF OInv

\* A publication keeps the channels typed and the totals in balance.
LEMMA PublishBalances ==
  ASSUME OInv, recording, NEW t \in Type, NEW e \in Seen(t), Publish(t, e), counts' = counts
  PROVE  /\ channel' = [x \in Type |-> channel'[x]]
         /\ \A x \in Type : channel'[x] \in Seq(Seen(x))
         /\ published' \in [Type -> Nat] /\ overflowed' \subseteq Type
         /\ Counted'
<1>1. /\ channel' = [x \in Type |-> channel'[x]] /\ channel'[t] \in Seq(Seen(t))
      /\ \A x \in Type \ {t} : channel'[x] = channel[x]
      /\ published' = [published EXCEPT ![t] = published[t] + 1]
      /\ overflowed \subseteq overflowed' /\ overflowed' \subseteq Type
      /\ t \notin overflowed' => channel'[t] = Append(channel[t], e)
  BY PublishHeard DEF OInv
<1>2. \A x \in Type : channel'[x] \in Seq(Seen(x))
  BY <1>1 DEF OInv, Typed
<1>3. published' \in [Type -> Nat]
  BY <1>1 DEF OInv, Typed
<1>4. ASSUME NEW x \in Type \ RuntimeType, x \notin overflowed'
      PROVE  counts'[x] + Len(channel'[x]) = published'[x]
  <2>1. counts[x] + Len(channel[x]) = published[x]
    BY <1>1, <1>4 DEF OInv, Counted
  <2>2. CASE x = t
    <3>1. Len(channel'[t]) = Len(channel[t]) + 1
      BY <1>1, <1>4, <2>2 DEF OInv, Typed
    <3>2. counts[t] \in Nat /\ Len(channel[t]) \in Nat /\ published'[t] = published[t] + 1
      BY <1>1 DEF OInv, Typed
    <3>. QED
      BY <2>1, <2>2, <3>1, <3>2
  <2>3. CASE x # t
    BY <1>1, <2>1, <2>3 DEF OInv, Typed
  <2>. QED
    BY <2>2, <2>3
<1>. QED
  BY <1>1, <1>2, <1>3, <1>4 DEF Counted

\* An event that is not about a service.
LEMMA OtherEventStep ==
  ASSUME OInv, NEW t \in Type \ ServiceType, Publish(t, t), last' = last,
         recording' = recording, services' = services, counts' = counts, about' = about
  PROVE  OInv'
<1>1. CASE ~recording
  BY <1>1, QuietStep DEF Publish, SameBooks
<1>2. CASE recording
  <2>. t \in Seen(t)
    BY DEF Seen
  <2>1. /\ channel'["ServiceStarted"] = channel["ServiceStarted"]
        /\ channel'["ServiceFailed"] = channel["ServiceFailed"]
        /\ overflowed \subseteq overflowed'
    BY <1>2, PublishHeard, Kinds DEF OInv
  <2>2. Typed' /\ Counted'
    BY <1>2, PublishBalances, Kinds DEF OInv, Typed
  <2>3. Fresh'
    BY <1>2 DEF Fresh
  <2>4. Alarms'
    BY <2>1 DEF OInv, Alarms, GivenUp
  <2>5. Accounted'
    BY <1>2, <2>1 DEF OInv, Accounted, Leads, Starts, Failures
  <2>. QED
    BY <2>2, <2>3, <2>4, <2>5 DEF OInv
<1>. QED
  BY <1>1, <1>2

\* Supervision announces a start, a stop or a failure of s.
LEMMA ServiceEventStep ==
  ASSUME OInv, NEW s \in Service, ServiceEvent(s)
  PROVE  OInv'
<1>. DEFINE event == last'[s]
            e == [name |-> s, will_restart |-> event.will_restart]
<1>1. /\ event \in LifecycleEvent /\ event.type \in ServiceType
      /\ \A x \in Service \ {s} : last'[x] = last[x]
      /\ s = Recorder => recording
  BY Announced DEF OInv, Typed
<1>2. /\ last' \in [Service -> LifecycleEvent]
      /\ \A x \in Service : GivenUp(x) => GivenUp(x)'
  BY LastWord DEF OInv
<1>3. /\ Publish(event.type, e) /\ recording' = recording /\ services' = services
      /\ counts' = counts
      /\ about' = IF ~recording THEN about
                  ELSE IF event.type = "ServiceStarted"
                       THEN [about EXCEPT ![s].starts = about[s].starts + 1]
                  ELSE IF event.type = "ServiceFailed"
                       THEN [about EXCEPT ![s].failures = about[s].failures + 1]
                  ELSE about
  BY DEF ServiceEvent, stateVars
<1>4. event.type = "ServiceFailed" /\ ~e.will_restart => GivenUp(s)'
  BY DEF GivenUp
<1>. HIDE DEF event
<1>5. CASE ~recording
  <2>1. channel' = channel /\ published' = published /\ overflowed' = overflowed /\ about' = about
    BY <1>3, <1>5 DEF Publish
  <2>2. Typed'
    BY <1>2, <1>3, <2>1 DEF OInv, Typed
  <2>3. Fresh'
    BY <1>1, <1>3, <1>5, <2>1, ObservabilityAssumption DEF OInv, Fresh, Started
  <2>4. Alarms'
    <3>1. \A i \in 1 .. Len(channel["ServiceFailed"]) : channel["ServiceFailed"][i].name \in Service
      BY Named, Kinds DEF OInv
    <3>. QED
      BY <1>2, <1>3, <2>1, <3>1 DEF OInv, Alarms, GivenUp
  <2>5. Counted' /\ Accounted'
    BY <1>3, <1>5 DEF Counted, Accounted
  <2>. QED
    BY <2>2, <2>3, <2>4, <2>5 DEF OInv
<1>6. CASE recording
  <2>1. event.type \in Type /\ e \in Seen(event.type)
    BY <1>1, Kinds DEF Seen, LifecycleEvent
  <2>2. /\ \A x \in Type \ {event.type} : channel'[x] = channel[x]
        /\ overflowed \subseteq overflowed'
        /\ event.type \notin overflowed' =>
             channel'[event.type] = Append(channel[event.type], e)
        /\ \A i \in 1 .. Len(channel'[event.type]) :
              \/ channel'[event.type][i] = e
              \/ \E j \in 1 .. Len(channel[event.type]) :
                    channel'[event.type][i] = channel[event.type][j]
    BY <1>3, <1>6, <2>1, PublishHeard DEF OInv
  <2>3. about' \in [Service -> [starts : Nat, failures : Nat]]
    BY <1>3 DEF OInv, Typed
  <2>4. Typed' /\ Counted'
    <3>1. /\ channel' = [x \in Type |-> channel'[x]]
          /\ \A x \in Type : channel'[x] \in Seq(Seen(x))
          /\ published' \in [Type -> Nat] /\ overflowed' \subseteq Type
          /\ Counted'
      BY <1>3, <1>6, <2>1, PublishBalances
    <3>. QED
      BY <1>2, <1>3, <2>3, <3>1, Kinds DEF OInv, Typed
  <2>5. Fresh'
    BY <1>3, <1>6 DEF Fresh
  <2>6. Alarms'
    <3>1. ASSUME NEW x \in Service, services'[x] # Untracked, services'[x].status = "Failed"
          PROVE  GivenUp(x)'
      BY <1>2, <1>3, <3>1 DEF OInv, Alarms
    <3>2. ASSUME NEW i \in 1 .. Len(channel'["ServiceFailed"]),
                 ~channel'["ServiceFailed"][i].will_restart
          PROVE  GivenUp(channel["ServiceFailed"][i].name)'
      <4>1. CASE event.type = "ServiceFailed" /\ channel'["ServiceFailed"][i] = e
        <5>1. channel'["ServiceFailed"][i].name = s /\ ~e.will_restart
          BY <3>2, <4>1
        <5>. QED
          BY <1>4, <4>1, <5>1 DEF GivenUp
      <4>2. CASE \E j \in 1 .. Len(channel["ServiceFailed"]) :
                    channel'["ServiceFailed"][i] = channel["ServiceFailed"][j]
        <5>1. PICK j \in 1 .. Len(channel["ServiceFailed"]) :
                    channel'["ServiceFailed"][i] = channel["ServiceFailed"][j]
          BY <4>2
        <5>2. channel["ServiceFailed"][j].name \in Service
          BY Named, Kinds DEF OInv
        <5>3. GivenUp(channel["ServiceFailed"][j].name)
          BY <3>2, <5>1 DEF OInv, Alarms
        <5>. DEFINE x == channel["ServiceFailed"][j].name
        <5>4. last'[x].type = "ServiceFailed" /\ ~last'[x].will_restart
          BY <1>2, <5>2, <5>3 DEF GivenUp
        <5>. QED
          BY <5>1, <5>4 DEF GivenUp
      <4>. QED
        BY <2>2, <3>2, <4>1, <4>2, Kinds
    <3>. QED
      BY <3>1, <3>2 DEF Alarms
  <2>7. ASSUME NEW x \in Service, "ServiceStarted" \notin overflowed'
        PROVE  Leads(channel'["ServiceStarted"], x, Starts(x)', about'[x].starts)
    <3>1. /\ Leads(channel["ServiceStarted"], x, Starts(x), about[x].starts)
          /\ Starts(x)' = Starts(x) /\ Starts(x) \in Nat /\ about[x].starts \in Nat
      BY <1>3, <1>6, <2>2, <2>7 DEF OInv, Accounted, Starts, Typed, Health
    <3>2. CASE event.type = "ServiceStarted"
      <4>1. about'[x].starts = about[x].starts + Mentions(e, x)
        BY <1>3, <1>6, <3>2 DEF OInv, Typed, Mentions
      <4>2. channel[event.type] \in Seq(Seen(event.type))
        BY <2>1 DEF OInv, Typed
      <4>3. Leads(Append(channel[event.type], e), x, Starts(x), about[x].starts + Mentions(e, x))
        BY <2>1, <3>1, <3>2, <4>2, LeadsFurther
      <4>. QED
        BY <2>2, <2>7, <3>1, <3>2, <4>1, <4>3
    <3>3. CASE event.type # "ServiceStarted"
      <4>1. about'[x].starts = about[x].starts
        BY <1>3, <3>3 DEF OInv, Typed
      <4>. QED
        BY <2>2, <3>1, <3>3, <4>1, Kinds
    <3>. QED
      BY <3>2, <3>3
  <2>8. ASSUME NEW x \in Service, "ServiceFailed" \notin overflowed'
        PROVE  Leads(channel'["ServiceFailed"], x, Failures(x)', about'[x].failures)
    <3>1. /\ Leads(channel["ServiceFailed"], x, Failures(x), about[x].failures)
          /\ Failures(x)' = Failures(x) /\ Failures(x) \in Nat /\ about[x].failures \in Nat
      BY <1>3, <1>6, <2>2, <2>8 DEF OInv, Accounted, Failures, Typed, Health
    <3>2. CASE event.type = "ServiceFailed"
      <4>1. about'[x].failures = about[x].failures + Mentions(e, x)
        BY <1>3, <1>6, <3>2 DEF OInv, Typed, Mentions
      <4>2. channel[event.type] \in Seq(Seen(event.type))
        BY <2>1 DEF OInv, Typed
      <4>3. Leads(Append(channel[event.type], e), x, Failures(x), about[x].failures + Mentions(e, x))
        BY <2>1, <3>1, <3>2, <4>2, LeadsFurther
      <4>. QED
        BY <2>2, <2>8, <3>1, <3>2, <4>1, <4>3
    <3>3. CASE event.type # "ServiceFailed"
      <4>1. about'[x].failures = about[x].failures
        BY <1>3, <3>3 DEF OInv, Typed
      <4>. QED
        BY <2>2, <3>1, <3>3, <4>1, Kinds
    <3>. QED
      BY <3>2, <3>3
  <2>9. Accounted'
    BY <2>7, <2>8 DEF Accounted, Leads
  <2>. QED
    BY <2>4, <2>5, <2>6, <2>9 DEF OInv
<1>. QED
  BY <1>5, <1>6

\* The numbers an entry that is not there yet starts from.
LEMMA EntryKept ==
  ASSUME Typed, NEW s \in Service, NEW st \in {"Ok", "Failed"}
  PROVE  /\ Entry(s, st) \in Health /\ Entry(s, st).starts = Starts(s)
         /\ Entry(s, st).failures = Failures(s)
         /\ Starts(s) \in Nat /\ Failures(s) \in Nat
  BY DEF Entry, Starts, Failures, Typed, Health

\* The handlers change the entry of one service.
Handled(now, s, status, starts, failures) ==
    /\ now \in [Service -> {Untracked} \cup Health]
    /\ \A x \in Service \ {s} : now[x] = services[x]
    /\ now[s] \in Health /\ now[s].status = status
    /\ now[s].starts = starts /\ now[s].failures = failures

LEMMA StartHandled ==
  ASSUME Typed, NEW s \in Service
  PROVE  Handled(OnServiceStarted(s), s, "Ok", Starts(s) + 1, Failures(s))
<1>. DEFINE h == Entry(s, "Ok")
            n == h.starts + 1
            new == [h EXCEPT !.status = "Ok", !.starts = n]
<1>1. h \in Health /\ h.starts = Starts(s) /\ h.failures = Failures(s) /\ n \in Nat
  BY EntryKept
<1>2. OnServiceStarted(s) = [services EXCEPT ![s] = new]
  BY DEF OnServiceStarted
<1>. HIDE DEF h, n
<1>3. new \in Health /\ new.status = "Ok" /\ new.starts = n /\ new.failures = h.failures
  <2>1. new \in Health
    <3>1. "Ok" \in {"Ok", "Degraded", "Failed"}
      OBVIOUS
    <3>. QED
      BY <1>1, <3>1, Zenon DEF Health
  <2>. QED
    BY <1>1, <2>1 DEF Health
<1>. HIDE DEF new
<1>. QED
  BY <1>1, <1>2, <1>3 DEF Handled, Typed, n

LEMMA FailureHandled ==
  ASSUME Typed, NEW s \in Service, NEW will \in BOOLEAN
  PROVE  Handled(OnServiceFailed(s, will), s, IF will THEN "Degraded" ELSE "Failed",
                 Starts(s), Failures(s) + 1)
<1>. DEFINE h == Entry(s, "Failed")
            status == IF will THEN "Degraded" ELSE "Failed"
            n == h.failures + 1
            new == [h EXCEPT !.failures = n, !.status = status]
<1>1. h \in Health /\ h.starts = Starts(s) /\ h.failures = Failures(s) /\ n \in Nat
  BY EntryKept
<1>2. OnServiceFailed(s, will) = [services EXCEPT ![s] = new]
  BY DEF OnServiceFailed
<1>. HIDE DEF h, n
<1>3. new \in Health /\ new.status = status /\ new.starts = h.starts /\ new.failures = n
  <2>1. status \in {"Ok", "Degraded", "Failed"}
    OBVIOUS
  <2>. HIDE DEF status
  <2>2. new \in Health
    BY <1>1, <2>1, Zenon DEF Health
  <2>. QED
    BY <1>1, <2>1, <2>2 DEF Health
<1>. HIDE DEF new
<1>. QED
  BY <1>1, <1>2, <1>3 DEF Handled, Typed, n

LEMMA StopHandled ==
  ASSUME Typed, NEW s \in Service, services[s] # Untracked
  PROVE  Handled(OnServiceStopped(s), s, "Ok", Starts(s), Failures(s))
<1>. DEFINE h == services[s]
            new == [h EXCEPT !.status = "Ok"]
<1>1. h \in Health /\ h.starts = Starts(s) /\ h.failures = Failures(s)
  BY DEF Typed, Starts, Failures
<1>2. OnServiceStopped(s) = [services EXCEPT ![s] = new]
  BY DEF OnServiceStopped
<1>. HIDE DEF h
<1>3. new \in Health /\ new.status = "Ok" /\ new.starts = h.starts /\ new.failures = h.failures
  BY <1>1 DEF Health
<1>. HIDE DEF new
<1>. QED
  BY <1>1, <1>2, <1>3 DEF Handled, Typed

\* The recorder handles the event at the head of a channel.
LEMMA ReceiveStep ==
  ASSUME OInv, NEW t \in Type, Receive(t)
  PROVE  OInv'
<1>. DEFINE event == Head(channel[t])
<1>1. /\ recording /\ recording' = recording /\ channel[t] # << >>
      /\ services' = CASE t = "ServiceStarted" -> OnServiceStarted(event.name)
                       [] t = "ServiceStopped" -> OnServiceStopped(event.name)
                       [] t = "ServiceFailed" ->
                             OnServiceFailed(event.name, event.will_restart)
                       [] OTHER -> services
      /\ counts' = IF t \in RuntimeType THEN counts ELSE [counts EXCEPT ![t] = counts[t] + 1]
      /\ channel' = [channel EXCEPT ![t] = Tail(channel[t])]
      /\ last' = last /\ published' = published /\ about' = about /\ overflowed' = overflowed
  BY DEF Receive, refVars
<1>2. /\ channel[t] \in Seq(Seen(t)) /\ event \in Seen(t) /\ Tail(channel[t]) \in Seq(Seen(t))
      /\ Len(Tail(channel[t])) = Len(channel[t]) - 1 /\ Len(channel[t]) \in Nat \ {0}
      /\ \A i \in 1 .. Len(Tail(channel[t])) :
            i + 1 \in 1 .. Len(channel[t]) /\ Tail(channel[t])[i] = channel[t][i + 1]
      /\ 1 \in 1 .. Len(channel[t]) /\ event = channel[t][1]
  BY <1>1 DEF OInv, Typed
<1>3. /\ channel' = [x \in Type |-> channel'[x]] /\ channel'[t] = Tail(channel[t])
      /\ \A x \in Type \ {t} : channel'[x] = channel[x]
  BY <1>1 DEF OInv, Typed
<1>4. t \in ServiceType => event.name \in Service /\ event.will_restart \in BOOLEAN
  BY <1>2 DEF Seen
<1>. HIDE DEF event
\* The handler of the type, and what it makes of the entry it is about.
<1>5. /\ services' \in [Service -> {Untracked} \cup Health]
      /\ t \notin ServiceType => services' = services
      /\ t \in ServiceType =>
           \/ t = "ServiceStopped" /\ services' = services
           \/ Handled(services', event.name,
                      IF t = "ServiceFailed" /\ ~event.will_restart THEN "Failed"
                      ELSE IF t = "ServiceFailed" THEN "Degraded" ELSE "Ok",
                      IF t = "ServiceStarted" THEN Starts(event.name) + 1 ELSE Starts(event.name),
                      IF t = "ServiceFailed" THEN Failures(event.name) + 1
                      ELSE Failures(event.name))
  <2>1. CASE t = "ServiceStarted"
    BY <1>1, <1>4, <2>1, StartHandled, Kinds DEF OInv, Handled
  <2>2. CASE t = "ServiceStopped"
    <3>1. t \in ServiceType /\ event.name \in Service
      BY <1>4, <2>2 DEF ServiceType
    <3>2. CASE services[event.name] = Untracked
      BY <1>1, <2>2, <3>1, <3>2 DEF OnServiceStopped, OInv, Typed
    <3>3. CASE services[event.name] # Untracked
      BY <1>1, <2>2, <3>1, <3>3, StopHandled DEF OInv, Handled
    <3>. QED
      BY <3>2, <3>3
  <2>3. CASE t = "ServiceFailed"
    BY <1>1, <1>4, <2>3, FailureHandled, Kinds DEF OInv, Handled
  <2>4. CASE t \notin ServiceType
    BY <1>1, <2>4 DEF ServiceType, OInv, Typed
  <2>. QED
    BY <2>1, <2>2, <2>3, <2>4 DEF ServiceType
\* What the handlers add, and when they say "Failed".
<1>6. ASSUME t \in ServiceType, NEW s \in Service
      PROVE  /\ Starts(s)' = Starts(s) + (IF t = "ServiceStarted" THEN Mentions(event, s) ELSE 0)
             /\ Failures(s)' = Failures(s) + (IF t = "ServiceFailed" THEN Mentions(event, s) ELSE 0)
             /\ services'[s] # Untracked /\ services'[s].status = "Failed" =>
                  \/ services[s] # Untracked /\ services[s].status = "Failed"
                  \/ t = "ServiceFailed" /\ s = event.name /\ ~event.will_restart
  <2>. Starts(s) \in Nat /\ Failures(s) \in Nat
    BY EntryKept DEF OInv
  <2>1. CASE services' = services /\ t = "ServiceStopped"
    BY <2>1 DEF Starts, Failures
  <2>2. CASE ~(services' = services /\ t = "ServiceStopped") /\ s # event.name
    BY <1>5, <1>6, <2>2 DEF Handled, Starts, Failures, Mentions
  <2>3. CASE ~(services' = services /\ t = "ServiceStopped") /\ s = event.name
    <3>1. /\ services'[s] \in Health
          /\ services'[s].status = "Failed" => t = "ServiceFailed" /\ ~event.will_restart
          /\ services'[s].starts = IF t = "ServiceStarted" THEN Starts(s) + 1 ELSE Starts(s)
          /\ services'[s].failures = IF t = "ServiceFailed" THEN Failures(s) + 1 ELSE Failures(s)
      BY <1>5, <1>6, <2>3 DEF Handled
    <3>2. services'[s] # Untracked
      BY <3>1, ObservabilityAssumption
    <3>. QED
      BY <2>3, <3>1, <3>2 DEF Starts, Failures, Mentions
  <2>. QED
    BY <2>1, <2>2, <2>3
<1>7. Typed'
  <2>1. \A x \in Type : channel'[x] \in Seq(Seen(x))
    BY <1>2, <1>3 DEF OInv, Typed
  <2>2. counts' \in [Type -> Nat]
    BY <1>1 DEF OInv, Typed
  <2>. QED
    BY <1>1, <1>3, <1>5, <2>1, <2>2, Kinds DEF OInv, Typed
<1>8. Fresh'
  BY <1>1 DEF Fresh
<1>9. Alarms'
  <2>1. ASSUME NEW s \in Service, services'[s] # Untracked, services'[s].status = "Failed"
        PROVE  GivenUp(s)
    <3>1. CASE services[s] # Untracked /\ services[s].status = "Failed"
      BY <3>1 DEF OInv, Alarms
    <3>2. CASE t = "ServiceFailed" /\ s = event.name /\ ~event.will_restart
      BY <1>2, <3>2 DEF OInv, Alarms
    <3>. QED
      BY <1>5, <1>6, <2>1, <3>1, <3>2
  <2>2. ASSUME NEW i \in 1 .. Len(channel'["ServiceFailed"]),
               ~channel'["ServiceFailed"][i].will_restart
        PROVE  GivenUp(channel["ServiceFailed"][i].name)'
    <3>1. CASE t = "ServiceFailed"
      <4>1. /\ i + 1 \in 1 .. Len(channel["ServiceFailed"])
            /\ channel'["ServiceFailed"][i] = channel["ServiceFailed"][i + 1]
        BY <1>2, <1>3, <2>2, <3>1
      <4>. QED
        BY <1>1, <2>2, <4>1 DEF OInv, Alarms, GivenUp
    <3>2. CASE t # "ServiceFailed"
      BY <1>1, <1>3, <2>2, <3>2, Kinds DEF OInv, Alarms, GivenUp
    <3>. QED
      BY <3>1, <3>2
  <2>. QED
    BY <1>1, <2>1, <2>2 DEF Alarms, GivenUp
<1>10. ASSUME NEW x \in Type \ RuntimeType, x \notin overflowed
       PROVE  counts'[x] + Len(channel'[x]) = published[x]
  <2>1. counts[x] + Len(channel[x]) = published[x] /\ counts[x] \in Nat
    BY <1>1, <1>10 DEF OInv, Counted, Typed
  <2>2. CASE x = t
    <3>1. counts'[x] = counts[x] + 1 /\ Len(channel'[x]) = Len(channel[x]) - 1
      BY <1>1, <1>2, <1>3, <1>10, <2>2 DEF OInv, Typed
    <3>2. Len(channel[x]) \in Nat /\ counts[x] \in Nat
      BY <1>2, <2>1, <2>2
    <3>. QED
      BY <2>1, <3>1, <3>2
  <2>3. CASE x # t
    BY <1>1, <1>3, <2>1, <2>3 DEF OInv, Typed
  <2>. QED
    BY <2>2, <2>3
<1>11. Counted'
  BY <1>1, <1>10 DEF Counted
<1>12. ASSUME NEW s \in Service, "ServiceStarted" \notin overflowed
       PROVE  Leads(channel'["ServiceStarted"], s, Starts(s)', about[s].starts)
  <2>1. /\ Leads(channel["ServiceStarted"], s, Starts(s), about[s].starts)
        /\ Starts(s) \in Nat /\ about[s].starts \in Nat
    BY <1>1, <1>12 DEF OInv, Accounted, Typed, Starts, Health
  <2>2. CASE t = "ServiceStarted"
    <3>1. Leads(Tail(channel[t]), s, Starts(s) + Mentions(event, s), about[s].starts)
      BY <1>1, <1>2, <2>1, <2>2, LeadsOn DEF event
    <3>. QED
      BY <1>3, <1>6, <2>2, <3>1, Kinds
  <2>3. CASE t # "ServiceStarted"
    <3>1. Starts(s)' = Starts(s)
      BY <1>5, <1>6, <2>1, <2>3 DEF Starts
    <3>. QED
      BY <1>3, <2>1, <2>3, <3>1, Kinds
  <2>. QED
    BY <2>2, <2>3
<1>13. ASSUME NEW s \in Service, "ServiceFailed" \notin overflowed
       PROVE  Leads(channel'["ServiceFailed"], s, Failures(s)', about[s].failures)
  <2>1. /\ Leads(channel["ServiceFailed"], s, Failures(s), about[s].failures)
        /\ Failures(s) \in Nat /\ about[s].failures \in Nat
    BY <1>1, <1>13 DEF OInv, Accounted, Typed, Failures, Health
  <2>2. CASE t = "ServiceFailed"
    <3>1. Leads(Tail(channel[t]), s, Failures(s) + Mentions(event, s), about[s].failures)
      BY <1>1, <1>2, <2>1, <2>2, LeadsOn DEF event
    <3>. QED
      BY <1>3, <1>6, <2>2, <3>1, Kinds
  <2>3. CASE t # "ServiceFailed"
    <3>1. Failures(s)' = Failures(s)
      BY <1>5, <1>6, <2>1, <2>3 DEF Failures
    <3>. QED
      BY <1>3, <2>1, <2>3, <3>1, Kinds
  <2>. QED
    BY <2>2, <2>3
<1>14. Accounted'
  BY <1>1, <1>12, <1>13 DEF Accounted, Leads
<1>. QED
  BY <1>7, <1>8, <1>9, <1>11, <1>14 DEF OInv

-----------------------------------------------------------------------------
LEMMA InitBooks == Init => OInv
<1>. SUFFICES ASSUME Init PROVE OInv
  OBVIOUS
<1>1. /\ last = [s \in Service |-> Supervised!NoEvent] /\ recording = FALSE
      /\ channel = [t \in Type |-> << >>] /\ services = [s \in Service |-> Untracked]
      /\ counts = [t \in Type |-> 0] /\ published = [t \in Type |-> 0]
      /\ about = [s \in Service |-> [starts |-> 0, failures |-> 0]] /\ overflowed = {}
  BY DEF Init, Supervised!Init
<1>2. Supervised!NoEvent \in LifecycleEvent
  BY DEF Supervised!NoEvent, LifecycleEvent
<1>3. Typed
  <2>1. \A t \in Type : channel[t] \in Seq(Seen(t))
    BY <1>1
  <2>. QED
    BY <1>1, <1>2, <2>1 DEF Typed
<1>4. Fresh
  BY <1>1 DEF Fresh
<1>5. Alarms /\ Counted /\ Accounted
  BY <1>1, Kinds DEF Alarms, Counted, Accounted
<1>. QED
  BY <1>3, <1>4, <1>5 DEF OInv

LEMMA BooksStep ==
  ASSUME OInv, [Next]_vars
  PROVE  OInv'
<1>1. CASE Subscribe
  BY <1>1, SubscribeStep
<1>2. CASE Signal
  BY <1>2, QuietStep DEF Signal, SameBooks, stateVars, refVars
<1>3. CASE SeeShutdown
  BY <1>3, ShutdownStep
<1>4. ASSUME NEW s \in Service, ServiceEvent(s) PROVE OInv'
  BY <1>4, ServiceEventStep
<1>5. ASSUME NEW t \in TaskType, TaskEvent(t) PROVE OInv'
  <2>1. t \in Type \ ServiceType
    BY Kinds DEF Type
  <2>. QED
    BY <1>5, <2>1, OtherEventStep DEF TaskEvent, stateVars
<1>6. ASSUME NEW t \in RuntimeType, RuntimeEvent(t) PROVE OInv'
  <2>1. t \in Type \ ServiceType
    BY Kinds DEF Type
  <2>. QED
    BY <1>6, <2>1, OtherEventStep DEF RuntimeEvent, stateVars
<1>7. ASSUME NEW t \in Type, Receive(t) PROVE OInv'
  BY <1>7, ReceiveStep
<1>8. ASSUME NEW t \in Type, SkipLagged(t) PROVE OInv'
  BY <1>8, QuietStep DEF SkipLagged, SameBooks, stateVars, refVars
<1>9. CASE UNCHANGED vars
  BY <1>9, QuietStep DEF vars, SameBooks, stateVars, refVars
<1>. QED
  BY <1>1, <1>2, <1>3, <1>4, <1>5, <1>6, <1>7, <1>8, <1>9 DEF Next

LEMMA Invariance == Spec => []OInv
<1>. QED
  BY InitBooks, BooksStep, PTL DEF Spec

(* "Failed" is no false alarm: whatever order the recorder empties its     *)
(* channels in and whatever a full channel lost, a service it reports as   *)
(* Failed was given up by supervision (on_service_failed, overall).        *)
THEOREM FailedIsNoFalseAlarm == Spec => []NoFalseAlarm
<1>1. OInv => NoFalseAlarm
  BY DEF OInv, Alarms, NoFalseAlarm, overall, Tracked
<1>. QED
  BY <1>1, Invariance, PTL

(* A recorder that caught up without a loss has the totals of what was     *)
(* published since it subscribed, and every service's starts and failures  *)
(* (ObservabilityService::start, on_service_started, on_service_failed).   *)
THEOREM TotalsAreRight == Spec => []Tally
<1>1. ASSUME OInv PROVE Tally
  <2>1. ASSUME NEW t \in Type \ RuntimeType, CaughtUp(t) PROVE counts[t] = published[t]
    <3>1. counts[t] + Len(channel[t]) = published[t] /\ Len(channel[t]) = 0 /\ counts[t] \in Nat
      BY <1>1, <2>1 DEF CaughtUp, OInv, Counted, Typed
    <3>. QED
      BY <3>1
  <2>2. ASSUME NEW s \in Tracked, CaughtUp("ServiceStarted")
        PROVE  services[s].starts = about[s].starts
    <3>1. Leads(<< >>, s, Starts(s), about[s].starts)
      BY <1>1, <2>2 DEF CaughtUp, OInv, Accounted, Tracked
    <3>2. Starts(s) \in Nat /\ about[s].starts \in Nat /\ Starts(s) = services[s].starts
      BY <1>1, <2>2 DEF OInv, Typed, Starts, Tracked, Health
    <3>. QED
      BY <3>1, <3>2, LeadsNowhere
  <2>3. ASSUME NEW s \in Tracked, CaughtUp("ServiceFailed")
        PROVE  services[s].failures = about[s].failures
    <3>1. Leads(<< >>, s, Failures(s), about[s].failures)
      BY <1>1, <2>3 DEF CaughtUp, OInv, Accounted, Tracked
    <3>2. Failures(s) \in Nat /\ about[s].failures \in Nat /\ Failures(s) = services[s].failures
      BY <1>1, <2>3 DEF OInv, Typed, Failures, Tracked, Health
    <3>. QED
      BY <3>1, <3>2, LeadsNowhere
  <2>. QED
    BY <2>1, <2>2, <2>3 DEF Tally
<1>. QED
  BY <1>1, Invariance, PTL

=============================================================================
