---------------------------- MODULE EventChannels ----------------------------
(***************************************************************************)
(* The channels of the EventBus of walastack-runtime (events.rs): for one  *)
(* event type, the channel is made by whoever needs it first and found in  *)
(* a map by all others.  An event type is used either for broadcast, where *)
(* slow subscribers lose the oldest events, or as a bounded work queue,    *)
(* where each event goes to one worker.                                    *)
(***************************************************************************)
EXTENDS Naturals, Sequences, FiniteSets

CONSTANTS
  Sender,     \* tasks that publish, or enqueue
  Receiver,   \* Subscriber handles, or Worker handles
  NoChannel,  \* no entry in the map
  Capacity,   \* broadcast_capacity (a power of two), or work_capacity
  MaxCalls    \* bound on the calls of publish and enqueue

Task == Sender \cup Receiver

ASSUME ChannelAssumption ==
  /\ Sender \cap Receiver = {}
  /\ NoChannel \notin Task
  /\ Capacity \in Nat \ {0}
  /\ MaxCalls \in Nat

VARIABLES
  pattern,  \* how the event type is used
  alive,    \* does anybody hold the EventBus?
  entry,    \* the channel in the map; a channel is named by the task that made it
  place,    \* where every task is
  chan,     \* the channel a task looked up
  buffer,   \* channel -> broadcast: all it carried; work: what is queued
  position, \* index in buffer of the next event a subscriber reads
  calls,    \* calls of publish and enqueue begun
  sent,     \* events sent, which are named 1 .. sent
  owed,     \* events published while the subscriber was subscribed (history)
  got,      \* events a receiver received
  lagged    \* how many events Lagged reported to a subscriber

registry == <<alive, entry>>
history == <<owed, got, lagged>>
vars == <<pattern, registry, place, chan, buffer, position, calls, sent, history>>

Init ==
  /\ pattern \in {"broadcast", "work"}
  /\ alive = TRUE
  /\ entry = NoChannel
  /\ place = [t \in Task |-> "idle"]
  /\ chan = [t \in Task |-> NoChannel]
  /\ buffer = [t \in Task |-> <<>>]
  /\ position = [r \in Receiver |-> 1]
  /\ calls = 0
  /\ sent = 0
  /\ owed = [r \in Receiver |-> <<>>]
  /\ got = [r \in Receiver |-> <<>>]
  /\ lagged = [r \in Receiver |-> 0]

Goto(t, p) == place' = [place EXCEPT ![t] = p]

Open == {r \in Receiver : place[r] = "open"}
Listening(c) == {r \in Open : chan[r] = c}

-----------------------------------------------------------------------------
(* broadcast_sender, work_channel: look under the read lock, and if there  *)
(* is no channel look again under the write lock before making one.        *)

Lookup(t) ==
  /\ alive
  /\ place[t] = "idle"
  /\ t \in Sender => calls < MaxCalls
  /\ calls' = IF t \in Sender THEN calls + 1 ELSE calls
  /\ Goto(t, IF entry = NoChannel THEN "missed" ELSE "ready")
  /\ chan' = [chan EXCEPT ![t] = entry]
  /\ UNCHANGED <<pattern, registry, buffer, position, sent, history>>

\* Mutant: no second look under the write lock.
MakeBlindly(t) ==
  /\ place[t] = "missed"
  /\ entry' = t
  /\ chan' = [chan EXCEPT ![t] = t]
  /\ Goto(t, "ready")
  /\ UNCHANGED <<pattern, alive, buffer, position, calls, sent, history>>

Make(t) ==
  /\ place[t] = "missed"
  /\ entry' = IF entry = NoChannel THEN t ELSE entry
  /\ chan' = [chan EXCEPT ![t] = entry']
  /\ Goto(t, "ready")
  /\ UNCHANGED <<pattern, alive, buffer, position, calls, sent, history>>

(* subscribe starts at the end of what was published; worker clones the    *)
(* channel's receiver.                                                     *)
OpenReceiver(r) ==
  /\ place[r] = "ready"
  /\ Goto(r, "open")
  /\ position' = [position EXCEPT ![r] = Len(buffer[chan[r]]) + 1]
  /\ UNCHANGED <<pattern, registry, chan, buffer, calls, sent, history>>

(* The owner drops its Subscriber or Worker.                               *)
DropReceiver(r) ==
  /\ place[r] = "open"
  /\ Goto(r, "dropped")
  /\ UNCHANGED <<pattern, registry, chan, buffer, position, calls, sent, history>>

(* The last EventBus is dropped, and the map with it.  A call in progress  *)
(* holds the bus.                                                          *)
DropBus ==
  /\ alive
  /\ \A t \in Task : place[t] \notin {"missed", "ready", "waiting"}
  /\ alive' = FALSE
  /\ entry' = NoChannel
  /\ UNCHANGED <<pattern, place, chan, buffer, position, calls, sent, history>>

-----------------------------------------------------------------------------
(* publish: an event nobody listens to is dropped.                         *)
Publish(p) ==
  /\ pattern = "broadcast"
  /\ place[p] = "ready"
  /\ sent' = sent + 1
  /\ buffer' = [buffer EXCEPT ![chan[p]] =
                  IF Listening(chan[p]) = {} THEN @ ELSE Append(@, sent')]
  /\ owed' = [r \in Receiver |-> IF r \in Open THEN Append(owed[r], sent') ELSE owed[r]]
  /\ Goto(p, "idle")
  /\ UNCHANGED <<pattern, registry, chan, position, calls, got, lagged>>

Unread(r) == Len(buffer[chan[r]]) + 1 - position[r]

(* Subscriber::recv: the channel keeps the last Capacity events; a         *)
(* subscriber further behind is told how many it lost.                     *)
RecvLagged(r) ==
  /\ pattern = "broadcast"
  /\ place[r] = "open"
  /\ Unread(r) > Capacity
  /\ position' = [position EXCEPT ![r] = @ + Unread(r) - Capacity]
  /\ lagged' = [lagged EXCEPT ![r] = @ + Unread(r) - Capacity]
  /\ UNCHANGED <<pattern, registry, place, chan, buffer, calls, sent, owed, got>>

RecvEvent(r) ==
  /\ pattern = "broadcast"
  /\ place[r] = "open"
  /\ Unread(r) \in 1 .. Capacity
  /\ got' = [got EXCEPT ![r] = Append(@, buffer[chan[r]][position[r]])]
  /\ position' = [position EXCEPT ![r] = @ + 1]
  /\ UNCHANGED <<pattern, registry, place, chan, buffer, calls, sent, owed, lagged>>

-----------------------------------------------------------------------------
QueueFull(c) == Len(buffer[c]) >= Capacity

\* Mutant: space that frees wakes nobody.
EnqueueNotWoken(p) ==
  /\ pattern = "work"
  /\ place[p] = "ready"
  /\ ~QueueFull(chan[p])
  /\ sent' = sent + 1
  /\ buffer' = [buffer EXCEPT ![chan[p]] = Append(@, sent')]
  /\ Goto(p, "idle")
  /\ UNCHANGED <<pattern, registry, chan, position, calls, history>>

(* enqueue, or try_enqueue that found room.  The map's channel has a       *)
(* receiver of its own, so it is open whether there are workers or not.    *)
Enqueue(p) ==
  /\ pattern = "work"
  /\ place[p] \in {"ready", "waiting"}
  /\ ~QueueFull(chan[p])
  /\ sent' = sent + 1
  /\ buffer' = [buffer EXCEPT ![chan[p]] = Append(@, sent')]
  /\ Goto(p, "idle")
  /\ UNCHANGED <<pattern, registry, chan, position, calls, history>>

\* enqueue suspends its caller.
EnqueueWaits(p) ==
  /\ pattern = "work"
  /\ place[p] = "ready"
  /\ QueueFull(chan[p])
  /\ Goto(p, "waiting")
  /\ UNCHANGED <<pattern, registry, chan, buffer, position, calls, sent, history>>

\* try_enqueue returns Full, and the event to its caller.
EnqueueFull(p) ==
  /\ pattern = "work"
  /\ place[p] = "ready"
  /\ QueueFull(chan[p])
  /\ Goto(p, "idle")
  /\ UNCHANGED <<pattern, registry, chan, buffer, position, calls, sent, history>>

\* Mutant: the event is read and removed in two steps; two workers read it.
TakeCopy(r) ==
  /\ pattern = "work"
  /\ place[r] = "open"
  /\ buffer[chan[r]] # <<>>
  /\ got' = [got EXCEPT ![r] = Append(@, Head(buffer[chan[r]]))]
  /\ buffer' = [buffer EXCEPT ![chan[r]] = IF Cardinality(Open) = 1 THEN Tail(@) ELSE @]
  /\ UNCHANGED <<pattern, registry, place, chan, position, calls, sent, owed, lagged>>

(* Worker::recv and try_recv: the oldest event goes to one worker.         *)
Take(r) ==
  /\ pattern = "work"
  /\ place[r] = "open"
  /\ buffer[chan[r]] # <<>>
  /\ got' = [got EXCEPT ![r] = Append(@, Head(buffer[chan[r]]))]
  /\ buffer' = [buffer EXCEPT ![chan[r]] = Tail(@)]
  /\ UNCHANGED <<pattern, registry, place, chan, position, calls, sent, owed, lagged>>

\* Nothing is left in the channel for the receiver.
Exhausted(r) ==
  IF pattern = "broadcast" THEN Unread(r) = 0 ELSE buffer[chan[r]] = <<>>

\* Mutant: a closed channel is closed at once.
RecvClosedAtOnce(r) ==
  /\ ~alive
  /\ place[r] = "open"
  /\ Goto(r, "ended")
  /\ UNCHANGED <<pattern, registry, chan, buffer, position, calls, sent, history>>

(* recv after the bus was dropped: Closed, or None, once all is received.  *)
RecvClosed(r) ==
  /\ ~alive
  /\ place[r] = "open"
  /\ Exhausted(r)
  /\ Goto(r, "ended")
  /\ UNCHANGED <<pattern, registry, chan, buffer, position, calls, sent, history>>

-----------------------------------------------------------------------------
Receive(r) == RecvLagged(r) \/ RecvEvent(r) \/ Take(r) \/ RecvClosed(r)
Send(p) == Publish(p) \/ Enqueue(p) \/ EnqueueWaits(p) \/ EnqueueFull(p)

Next ==
  \/ \E t \in Task : Lookup(t) \/ Make(t)
  \/ \E r \in Receiver : OpenReceiver(r) \/ DropReceiver(r) \/ Receive(r)
  \/ \E p \in Sender : Send(p)
  \/ DropBus

Spec == Init /\ [][Next]_vars

(* Calls in progress go on, an open receiver is received from, and the     *)
(* queue wakes a waiting producer.  Nothing makes anybody begin a call.    *)
Fairness ==
  /\ \A t \in Task : WF_vars(Make(t))
  /\ \A r \in Receiver : WF_vars(OpenReceiver(r)) /\ WF_vars(Receive(r))
  /\ \A p \in Sender : WF_vars(Send(p))

FairSpec == Spec /\ Fairness

-----------------------------------------------------------------------------
(* Every variable has its type. *)
TypeOK ==
  /\ pattern \in {"broadcast", "work"}
  /\ alive \in BOOLEAN
  /\ entry \in Task \cup {NoChannel}
  /\ place \in [Task -> {"idle", "missed", "ready", "waiting", "open", "dropped", "ended"}]
  /\ chan \in [Task -> Task \cup {NoChannel}]
  /\ buffer \in [Task -> Seq(1 .. sent)]
  /\ position \in [Receiver -> Nat \ {0}]
  /\ calls \in 0 .. MaxCalls
  /\ sent \in Nat
  /\ owed \in [Receiver -> Seq(1 .. sent)]
  /\ got \in [Receiver -> Seq(1 .. sent)]
  /\ lagged \in [Receiver -> Nat]

Elements(q) == {q[i] : i \in 1 .. Len(q)}
Increasing(q) == \A i, j \in 1 .. Len(q) : i < j => q[i] < q[j]

(* A subscriber loses no event unawares, whoever made the channel: what    *)
(* was published since it subscribed it received in that order, or can     *)
(* still receive, or Lagged counted.                                       *)
LossReported ==
  pattern = "broadcast" =>
    \A r \in Open :
      /\ Increasing(got[r]) /\ Elements(got[r]) \subseteq Elements(owed[r])
      /\ Len(got[r]) + lagged[r] + Unread(r) = Len(owed[r])

Sound == TypeOK /\ LossReported

(* Each event that was enqueued is in the queue or went to one worker,     *)
(* once, and no worker receives a later event before an earlier one.       *)
ExactlyOnce ==
  pattern = "work" =>
    LET Holders(e) == {t \in Task : e \in Elements(buffer[t])}
        Takers(e) == {r \in Receiver : e \in Elements(got[r])}
    IN  /\ \A e \in 1 .. sent : Cardinality(Holders(e)) + Cardinality(Takers(e)) = 1
        /\ \A t \in Task : Increasing(buffer[t])
        /\ \A r \in Receiver : Increasing(got[r])

(* A receiver that is told the channel is closed missed nothing: a         *)
(* subscriber received or was told of all it was owed, and no work is left.*)
ClosedIsDrained ==
  \A r \in Receiver : place[r] = "ended" =>
    IF pattern = "broadcast"
    THEN Len(got[r]) + lagged[r] = Len(owed[r])
    ELSE \A t \in Task : buffer[t] = <<>>

(* enqueue is suspended only until space frees: a waiting producer goes on *)
(* if a worker stays.                                                      *)
ProducerWakes ==
  \A p \in Sender : place[p] = "waiting" ~> place[p] # "waiting" \/ Open = {}

=============================================================================
