------------------------- MODULE EventChannelsProofs --------------------------
(***************************************************************************)
(* Proofs about the channels of the EventBus for any tasks, any capacity   *)
(* and any number of calls: no subscriber loses an event unawares, each    *)
(* event of a work queue is taken once, and a receiver that is told the    *)
(* channel is closed has missed nothing.                                   *)
(*                                                                         *)
(* All rest on there being one channel, whoever made it (OneChannel); the  *)
(* first and the last on the account a subscriber could keep (Account):    *)
(* what is unread in the channel is the end of what the subscriber is owed.*)
(***************************************************************************)
EXTENDS EventChannels, Integers, FiniteSetTheorems, TLAPS

Account(buf, pos, due, have, lost) ==
  LET unread == Len(buf) + 1 - pos
  IN  /\ pos \in 1 .. Len(buf) + 1
      /\ Len(have) + lost + unread = Len(due)
      /\ Increasing(due) /\ Increasing(have)
      /\ \A k \in 1 .. unread : buf[pos + k - 1] = due[Len(due) - unread + k]
      /\ \A i \in 1 .. Len(have) : \E j \in 1 .. Len(due) - unread : have[i] = due[j]

-----------------------------------------------------------------------------
(* How an account is kept. *)

LEMMA Opened ==
  ASSUME NEW S, NEW buf \in Seq(S)
  PROVE  Account(buf, Len(buf) + 1, << >>, << >>, 0)
BY DEF Account, Increasing

LEMMA Owing ==
  ASSUME NEW n \in Nat, NEW buf \in Seq(1 .. n), NEW due \in Seq(1 .. n),
         NEW have \in Seq(1 .. n), NEW pos \in Nat, NEW lost \in Nat,
         Account(buf, pos, due, have, lost)
  PROVE  Account(Append(buf, n + 1), pos, Append(due, n + 1), have, lost)
<1>. DEFINE b == Append(buf, n + 1)
            d == Append(due, n + 1)
            unread == Len(buf) + 1 - pos
            read == Len(due) - unread
<1>1. /\ Len(b) = Len(buf) + 1 /\ \A i \in 1 .. Len(buf) : b[i] = buf[i]
      /\ b[Len(buf) + 1] = n + 1
      /\ Len(d) = Len(due) + 1 /\ \A i \in 1 .. Len(due) : d[i] = due[i]
      /\ d[Len(due) + 1] = n + 1
      /\ Len(buf) \in Nat /\ Len(due) \in Nat /\ Len(have) \in Nat
  OBVIOUS
<1>2. /\ pos \in 1 .. Len(buf) + 1 /\ unread \in Nat /\ unread <= Len(due) /\ read \in Nat
      /\ unread = Len(buf) + 1 - pos /\ read = Len(due) - unread
      /\ Len(have) + lost + unread = Len(due)
      /\ Increasing(due) /\ Increasing(have)
  BY <1>1 DEF Account
<1>3. \A k \in 1 .. unread : buf[pos + k - 1] = due[read + k]
  BY DEF Account
<1>4. \A i \in 1 .. Len(have) : \E j \in 1 .. read : have[i] = due[j]
  BY DEF Account
<1>5. \A i \in 1 .. Len(due) : due[i] \in 1 .. n
  OBVIOUS
<1>. HIDE DEF b, d, unread, read
<1>6. Increasing(d)
  <2>1. ASSUME NEW i \in 1 .. Len(due) + 1, NEW j \in 1 .. Len(due) + 1, i < j
        PROVE  d[i] < d[j]
    <3>4. Len(due) \in Nat
      OBVIOUS
    <3>0. i \in 1 .. Len(due)
      BY <2>1, <3>4
    <3>1. i \in 1 .. Len(due) /\ d[i] = due[i]
      BY <1>1, <3>0
    <3>2. CASE j = Len(due) + 1
      <4>1. d[j] = n + 1 /\ d[i] \in 1 .. n
        BY <1>1, <1>5, <3>1, <3>2
      <4>. QED
        BY <4>1
    <3>3. CASE j \in 1 .. Len(due)
      BY <1>1, <1>2, <2>1, <3>1, <3>3 DEF Increasing
    <3>5. j = Len(due) + 1 \/ j \in 1 .. Len(due)
      BY <3>4
    <3>. QED
      BY <3>2, <3>3, <3>5
  <2>. QED
    BY <1>1, <2>1 DEF Increasing
<1>7. ASSUME NEW k \in 1 .. unread + 1 PROVE b[pos + k - 1] = d[read + k]
  <2>1. CASE k = unread + 1
    <3>1. Len(buf) \in Nat /\ Len(due) \in Nat
      OBVIOUS
    <3>2. pos + k - 1 = Len(buf) + 1
      BY <1>2, <2>1, <3>1
    <3>3. read + k = Len(due) + 1
      BY <1>2, <2>1, <3>1
    <3>. QED
      BY <1>1, <3>2, <3>3
  <2>2. CASE k \in 1 .. unread
    <3>1. Len(buf) \in Nat /\ Len(due) \in Nat
      OBVIOUS
    <3>2. pos + k - 1 \in 1 .. Len(buf)
      BY <1>2, <2>2, <3>1
    <3>3. read + k \in 1 .. Len(due)
      BY <1>2, <2>2, <3>1, SMTT(30)
    <3>4. b[pos + k - 1] = buf[pos + k - 1] /\ d[read + k] = due[read + k]
      BY <1>1, <3>2, <3>3
    <3>. QED
      BY <1>3, <2>2, <3>4
  <2>. QED
    BY <1>2, <2>1, <2>2, SMTT(30)
<1>8. ASSUME NEW i \in 1 .. Len(have) PROVE \E j \in 1 .. read : have[i] = d[j]
  <2>1. PICK j \in 1 .. read : have[i] = due[j]
    BY <1>4
  <2>2. Len(due) \in Nat
    OBVIOUS
  <2>3. j \in 1 .. Len(due)
    BY <1>2, <2>2
  <2>4. have[i] = d[j]
    BY <1>1, <2>1, <2>3
  <2>. QED
    BY <2>4
<1>9. Len(b) + 1 - pos = unread + 1 /\ Len(d) - (unread + 1) = read
  BY <1>1, <1>2
<1>10. Account(b, pos, d, have, lost)
  <2>1. pos \in 1 .. Len(b) + 1 /\ Len(have) + lost + (Len(b) + 1 - pos) = Len(d)
    <3>1. /\ Len(b) = Len(buf) + 1 /\ Len(d) = Len(due) + 1
          /\ Len(buf) \in Nat /\ Len(due) \in Nat /\ Len(have) \in Nat
      BY <1>1
    <3>2. pos \in 1 .. Len(buf) + 1 /\ Len(have) + lost + (Len(buf) + 1 - pos) = Len(due)
      BY <1>2
    <3>3. pos \in 1 .. Len(b) + 1
      BY <3>1, <3>2
    <3>4. Len(have) + lost + (Len(b) + 1 - pos) = Len(d)
      <4>1. Len(have) + lost + (unread + 1) = Len(due) + 1
        <5>1. Len(have) + lost \in Nat /\ unread \in Nat
          BY <1>2, <3>1
        <5>2. \A x \in Nat, y \in Nat : x + (y + 1) = (x + y) + 1
          OBVIOUS
        <5>3. Len(have) + lost + (unread + 1) = (Len(have) + lost + unread) + 1
          BY <5>1, <5>2
        <5>. QED
          BY <1>2, <5>3
      <4>. QED
        BY <1>9, <3>1, <4>1
    <3>. QED
      BY <3>3, <3>4
  <2>2. \A k \in 1 .. Len(b) + 1 - pos :
           b[pos + k - 1] = d[Len(d) - (Len(b) + 1 - pos) + k]
    BY <1>7, <1>9
  <2>3. \A i \in 1 .. Len(have) : \E j \in 1 .. Len(d) - (Len(b) + 1 - pos) : have[i] = d[j]
    BY <1>8, <1>9
  <2>. QED
    BY <1>2, <1>6, <2>1, <2>2, <2>3 DEF Account
<1>. QED
  BY <1>10 DEF b, d

LEMMA Skipping ==
  ASSUME NEW n \in Nat, NEW d \in Nat, NEW h \in Nat, NEW l \in Nat, NEW p \in 1 .. n + 1,
         NEW g \in Nat, g <= n + 1 - p, h + l + (n + 1 - p) = d
  PROVE  p + g \in 1 .. n + 1 /\ h + (l + g) + (n + 1 - (p + g)) = d
OBVIOUS

LEMMA Losing ==
  ASSUME NEW S, NEW buf \in Seq(S), NEW due \in Seq(S), NEW have \in Seq(S),
         NEW pos \in Nat, NEW lost \in Nat, NEW gap \in 1 .. Len(buf) + 1 - pos,
         Account(buf, pos, due, have, lost)
  PROVE  Account(buf, pos + gap, due, have, lost + gap)
<1>. DEFINE unread == Len(buf) + 1 - pos
            read == Len(due) - unread
<1>1. /\ Len(buf) \in Nat /\ Len(due) \in Nat /\ Len(have) \in Nat /\ gap \in Nat
      /\ pos \in 1 .. Len(buf) + 1 /\ unread \in Nat /\ unread <= Len(due) /\ read \in Nat
      /\ unread = Len(buf) + 1 - pos /\ read = Len(due) - unread /\ gap <= unread
      /\ Len(have) + lost + unread = Len(due)
      /\ Increasing(due) /\ Increasing(have)
  BY DEF Account
<1>2. \A k \in 1 .. unread : buf[pos + k - 1] = due[read + k]
  BY DEF Account
<1>3. \A i \in 1 .. Len(have) : \E j \in 1 .. read : have[i] = due[j]
  BY DEF Account
<1>. HIDE DEF unread, read
<1>4. /\ Len(buf) + 1 - (pos + gap) = unread - gap
      /\ Len(due) - (unread - gap) = read + gap
  BY <1>1
<1>5. ASSUME NEW k \in 1 .. unread - gap
      PROVE  buf[(pos + gap) + k - 1] = due[(read + gap) + k]
  <2>1. gap + k \in 1 .. unread
    BY <1>1
  <2>2. buf[pos + (gap + k) - 1] = due[read + (gap + k)]
    BY <1>2, <2>1
  <2>3. pos + (gap + k) - 1 = (pos + gap) + k - 1 /\ read + (gap + k) = (read + gap) + k
    BY <1>1
  <2>. QED
    BY <2>2, <2>3
<1>6. ASSUME NEW i \in 1 .. Len(have) PROVE \E j \in 1 .. read + gap : have[i] = due[j]
  BY <1>1, <1>3
<1>7. /\ pos + gap \in 1 .. Len(buf) + 1
      /\ Len(have) + (lost + gap) + (Len(buf) + 1 - (pos + gap)) = Len(due)
  <2>1. gap <= Len(buf) + 1 - pos /\ Len(have) + lost + (Len(buf) + 1 - pos) = Len(due)
    BY <1>1
  <2>. QED
    BY <1>1, <2>1, Skipping, SMTT(30)
<1>8. \A k \in 1 .. Len(buf) + 1 - (pos + gap) :
         buf[(pos + gap) + k - 1] = due[Len(due) - (Len(buf) + 1 - (pos + gap)) + k]
  BY <1>4, <1>5
<1>9. \A i \in 1 .. Len(have) :
         \E j \in 1 .. Len(due) - (Len(buf) + 1 - (pos + gap)) : have[i] = due[j]
  BY <1>4, <1>6
<1>. QED
  BY <1>1, <1>7, <1>8, <1>9 DEF Account

LEMMA Receiving ==
  ASSUME NEW n \in Nat, NEW buf \in Seq(1 .. n), NEW due \in Seq(1 .. n),
         NEW have \in Seq(1 .. n), NEW pos \in Nat, NEW lost \in Nat,
         pos <= Len(buf), Account(buf, pos, due, have, lost)
  PROVE  /\ Account(buf, pos + 1, due, Append(have, buf[pos]), lost)
         /\ buf[pos] \in 1 .. n
<1>. DEFINE h == Append(have, buf[pos])
            unread == Len(buf) + 1 - pos
            read == Len(due) - unread
<1>1. /\ Len(h) = Len(have) + 1 /\ \A i \in 1 .. Len(have) : h[i] = have[i]
      /\ h[Len(have) + 1] = buf[pos]
      /\ Len(buf) \in Nat /\ Len(due) \in Nat /\ Len(have) \in Nat
  OBVIOUS
<1>2. /\ pos \in 1 .. Len(buf) /\ unread \in Nat \ {0} /\ unread <= Len(due) /\ read \in Nat
      /\ unread = Len(buf) + 1 - pos /\ read = Len(due) - unread
      /\ Len(have) + lost + unread = Len(due)
      /\ Increasing(due) /\ Increasing(have)
  <2>1. /\ pos \in 1 .. Len(buf) + 1
        /\ Len(have) + lost + unread = Len(due)
        /\ Increasing(due) /\ Increasing(have)
    BY DEF Account
  <2>2. /\ Len(buf) \in Nat /\ Len(due) \in Nat /\ Len(have) \in Nat
        /\ pos \in Nat /\ lost \in Nat /\ pos <= Len(buf)
    OBVIOUS
  <2>3. pos \in 1 .. Len(buf) /\ unread \in Nat \ {0}
    BY <2>1, <2>2
  <2>4. unread <= Len(due) /\ read \in Nat
    BY <2>1, <2>2, <2>3
  <2>. QED
    BY <2>1, <2>3, <2>4
<1>3. \A k \in 1 .. unread : buf[pos + k - 1] = due[read + k]
  BY DEF Account
<1>4. \A i \in 1 .. Len(have) : \E j \in 1 .. read : have[i] = due[j]
  BY DEF Account
<1>5. buf[pos] \in 1 .. n
  BY <1>2
<1>6. \A i \in 1 .. Len(due) : due[i] \in 1 .. n
  OBVIOUS
<1>. HIDE DEF h, unread, read
<1>7. buf[pos] = due[read + 1] /\ read + 1 \in 1 .. Len(due)
  <2>1. 1 \in 1 .. unread /\ pos + 1 - 1 = pos
    BY <1>2
  <2>2. buf[pos + 1 - 1] = due[read + 1]
    BY <1>3, <2>1
  <2>. QED
    BY <1>1, <1>2, <2>1, <2>2
<1>8. Increasing(h)
  <2>1. ASSUME NEW i \in 1 .. Len(have) PROVE have[i] < due[read + 1]
    <3>1. PICK j \in 1 .. read : have[i] = due[j]
      BY <1>4
    <3>2. Len(due) \in Nat /\ read \in Nat /\ read + 1 <= Len(due)
      BY <1>1, <1>2, <1>7
    <3>3. j \in 1 .. Len(due) /\ j < read + 1
      BY <3>2
    <3>4. Increasing(due)
      BY <1>2
    <3>5. due[j] < due[read + 1]
      BY <1>7, <3>3, <3>4 DEF Increasing
    <3>. QED
      BY <3>1, <3>5
  <2>2. ASSUME NEW i \in 1 .. Len(have) + 1, NEW j \in 1 .. Len(have) + 1, i < j
        PROVE  h[i] < h[j]
    <3>1. i \in 1 .. Len(have) /\ h[i] = have[i]
      BY <1>1, <2>2, SMTT(30)
    <3>2. CASE j = Len(have) + 1
      BY <1>1, <1>7, <2>1, <3>1, <3>2
    <3>3. CASE j \in 1 .. Len(have)
      BY <1>1, <1>2, <2>2, <3>1, <3>3 DEF Increasing
    <3>. QED
      BY <1>1, <3>2, <3>3
  <2>. QED
    BY <1>1, <2>2 DEF Increasing
<1>9. /\ Len(buf) + 1 - (pos + 1) = unread - 1
      /\ Len(due) - (unread - 1) = read + 1
  BY <1>1, <1>2
<1>10. ASSUME NEW k \in 1 .. unread - 1
       PROVE  buf[(pos + 1) + k - 1] = due[(read + 1) + k]
  <2>1. 1 + k \in 1 .. unread
    BY <1>2
  <2>2. buf[pos + (1 + k) - 1] = due[read + (1 + k)]
    BY <1>3, <2>1
  <2>3. pos + (1 + k) - 1 = (pos + 1) + k - 1 /\ read + (1 + k) = (read + 1) + k
    BY <1>2
  <2>. QED
    BY <2>2, <2>3
<1>11. ASSUME NEW i \in 1 .. Len(have) + 1 PROVE \E j \in 1 .. read + 1 : h[i] = due[j]
  <2>1. CASE i = Len(have) + 1
    BY <1>1, <1>2, <1>7, <2>1
  <2>2. CASE i \in 1 .. Len(have)
    <3>1. PICK j \in 1 .. read : have[i] = due[j]
      BY <1>4, <2>2
    <3>2. j \in 1 .. read + 1
      BY <1>2
    <3>3. h[i] = due[j]
      BY <1>1, <2>2, <3>1
    <3>. QED
      BY <3>2, <3>3
  <2>. QED
    BY <1>1, <2>1, <2>2
<1>12. Account(buf, pos + 1, due, h, lost)
  <2>1. /\ pos + 1 \in 1 .. Len(buf) + 1
        /\ Len(h) + lost + (Len(buf) + 1 - (pos + 1)) = Len(due)
    BY <1>1, <1>2, SMTT(30)
  <2>2. \A k \in 1 .. Len(buf) + 1 - (pos + 1) :
           buf[(pos + 1) + k - 1] = due[Len(due) - (Len(buf) + 1 - (pos + 1)) + k]
    BY <1>9, <1>10
  <2>3. \A i \in 1 .. Len(h) :
           \E j \in 1 .. Len(due) - (Len(buf) + 1 - (pos + 1)) : h[i] = due[j]
    BY <1>1, <1>9, <1>11
  <2>. QED
    BY <1>2, <1>8, <2>1, <2>2, <2>3 DEF Account
<1>. QED
  BY <1>5, <1>12 DEF h

-----------------------------------------------------------------------------
(* The inductive invariant. *)

InCall == {"missed", "ready", "waiting"}
Attached == {"ready", "waiting", "open"}

\* There is one channel, as long as the bus lives the one in the map.
OneChannel ==
  /\ \A t \in Task : place[t] \in InCall => alive
  /\ \A t \in Task : place[t] \in Attached => chan[t] \in Task
  /\ \A t \in Task : alive /\ place[t] \in Attached => chan[t] = entry
  /\ \A t, u \in Task : place[t] \in Attached /\ buffer[u] # << >> => u = chan[t]
  /\ \A u \in Task : alive /\ buffer[u] # << >> => u = entry

AccountOf(r) == Account(buffer[chan[r]], position[r], owed[r], got[r], lagged[r])

Accounts ==
  pattern = "broadcast" =>
    \A r \in Receiver :
      /\ place[r] = "open" => AccountOf(r)
      /\ place[r] \in {"idle", "missed", "ready"} =>
           owed[r] = << >> /\ got[r] = << >> /\ lagged[r] = 0

Drained(r) ==
  IF pattern = "broadcast" THEN Len(got[r]) + lagged[r] = Len(owed[r])
                           ELSE \A t \in Task : buffer[t] = << >>

Ended == \A r \in Receiver : place[r] = "ended" => ~alive /\ Drained(r)

IInv == TypeOK /\ OneChannel /\ Accounts /\ Ended

Places == {"idle", "missed", "ready", "waiting", "open", "dropped", "ended"}

-----------------------------------------------------------------------------
(* Types. *)

LEMMA Widen ==
  ASSUME NEW n \in Nat, NEW q \in Seq(1 .. n)
  PROVE  q \in Seq(1 .. n + 1) /\ Append(q, n + 1) \in Seq(1 .. n + 1)
<1>1. q \in Seq(1 .. n + 1)
  <2>1. q = [i \in 1 .. Len(q) |-> q[i]] /\ Len(q) \in Nat /\ \A i \in 1 .. Len(q) : q[i] \in 1 .. n + 1
    OBVIOUS
  <2>. QED
    BY <2>1
<1>. QED
  BY <1>1

LEMMA HeadAndTail ==
  ASSUME NEW S, NEW q \in Seq(S), q # << >>
  PROVE  Head(q) \in S /\ Tail(q) \in Seq(S)
OBVIOUS

LEMMA TypeStep ==
  ASSUME IInv, [Next]_vars
  PROVE  TypeOK'
<1>. USE DEF registry, history
<1>1. /\ pattern \in {"broadcast", "work"} /\ alive \in BOOLEAN
      /\ entry \in Task \cup {NoChannel}
      /\ place \in [Task -> Places]
      /\ chan \in [Task -> Task \cup {NoChannel}]
      /\ buffer \in [Task -> Seq(1 .. sent)]
      /\ position \in [Receiver -> Nat \ {0}]
      /\ calls \in 0 .. MaxCalls /\ sent \in Nat
      /\ owed \in [Receiver -> Seq(1 .. sent)] /\ got \in [Receiver -> Seq(1 .. sent)]
      /\ lagged \in [Receiver -> Nat]
  BY DEF IInv, TypeOK, Places
<1>2. Receiver \subseteq Task /\ Sender \subseteq Task /\ MaxCalls \in Nat
  BY ChannelAssumption DEF Task
<1>3. ASSUME NEW t \in Task, Lookup(t) PROVE TypeOK'
  <2>1. calls' \in 0 .. MaxCalls
    BY <1>1, <1>2, <1>3 DEF Lookup
  <2>2. place' \in [Task -> Places] /\ chan' \in [Task -> Task \cup {NoChannel}]
    BY <1>1, <1>3 DEF Lookup, Goto, Places
  <2>. QED
    BY <1>1, <1>3, <2>1, <2>2 DEF Lookup, TypeOK, Places
<1>4. ASSUME NEW t \in Task, Make(t) PROVE TypeOK'
  BY <1>1, <1>4 DEF Make, Goto, TypeOK, Places
<1>5. ASSUME NEW r \in Receiver, OpenReceiver(r) PROVE TypeOK'
  <2>1. chan[r] \in Task
    BY <1>2, <1>5 DEF OpenReceiver, IInv, OneChannel, Attached
  <2>2. Len(buffer[chan[r]]) + 1 \in Nat \ {0}
    BY <1>1, <2>1
  <2>. QED
    BY <1>1, <1>2, <1>5, <2>2 DEF OpenReceiver, Goto, TypeOK, Places
<1>6. ASSUME NEW r \in Receiver, DropReceiver(r) \/ RecvClosed(r) PROVE TypeOK'
  BY <1>1, <1>2, <1>6 DEF DropReceiver, RecvClosed, Goto, TypeOK, Places
<1>7. CASE DropBus
  BY <1>1, <1>7 DEF DropBus, TypeOK, Places
<1>8. ASSUME NEW p \in Sender, Publish(p) \/ Enqueue(p) PROVE TypeOK'
  <2>1. chan[p] \in Task /\ sent' = sent + 1
    BY <1>2, <1>8 DEF Publish, Enqueue, IInv, OneChannel, Attached
  <2>2. /\ buffer' \in [Task -> Seq(1 .. sent + 1)] /\ got' \in [Receiver -> Seq(1 .. sent + 1)]
        /\ owed' \in [Receiver -> Seq(1 .. sent + 1)]
    <3>1. \A t \in Task : /\ buffer[t] \in Seq(1 .. sent + 1)
                          /\ Append(buffer[t], sent + 1) \in Seq(1 .. sent + 1)
      BY <1>1, Widen
    <3>2. \A r \in Receiver : /\ owed[r] \in Seq(1 .. sent + 1) /\ got[r] \in Seq(1 .. sent + 1)
                              /\ Append(owed[r], sent + 1) \in Seq(1 .. sent + 1)
      BY <1>1, Widen
    <3>3. buffer' \in [Task -> Seq(1 .. sent + 1)]
      BY <1>1, <1>8, <2>1, <3>1 DEF Publish, Enqueue
    <3>4. owed' \in [Receiver -> Seq(1 .. sent + 1)]
      BY <1>1, <1>8, <2>1, <3>2 DEF Publish, Enqueue
    <3>5. got' \in [Receiver -> Seq(1 .. sent + 1)]
      BY <1>1, <1>8, <3>2 DEF Publish, Enqueue
    <3>. QED
      BY <3>3, <3>4, <3>5
  <2>3. place' \in [Task -> Places]
    BY <1>1, <1>2, <1>8 DEF Publish, Enqueue, Goto, Places
  <2>4. UNCHANGED <<pattern, alive, entry, chan, position, calls, lagged>>
    BY <1>8 DEF Publish, Enqueue
  <2>. QED
    BY <1>1, <2>1, <2>2, <2>3, <2>4 DEF TypeOK, Places
<1>9. ASSUME NEW p \in Sender, EnqueueWaits(p) \/ EnqueueFull(p) PROVE TypeOK'
  BY <1>1, <1>2, <1>9 DEF EnqueueWaits, EnqueueFull, Goto, TypeOK, Places
<1>10. ASSUME NEW r \in Receiver, RecvLagged(r) PROVE TypeOK'
  <2>1. chan[r] \in Task
    BY <1>2, <1>10 DEF RecvLagged, IInv, OneChannel, Attached
  <2>2. Unread(r) \in Int /\ Unread(r) > Capacity /\ Capacity \in Nat
    BY <1>1, <1>10, <2>1, ChannelAssumption DEF RecvLagged, Unread
  <2>3. /\ position[r] + Unread(r) - Capacity \in Nat \ {0}
        /\ lagged[r] + Unread(r) - Capacity \in Nat
    BY <1>1, <2>2
  <2>. QED
    BY <1>1, <1>10, <2>3 DEF RecvLagged, TypeOK, Places
<1>11. ASSUME NEW r \in Receiver, RecvEvent(r) PROVE TypeOK'
  <2>1. chan[r] \in Task /\ AccountOf(r)
    BY <1>2, <1>11 DEF RecvEvent, IInv, OneChannel, Attached, Accounts
  <2>2. position[r] <= Len(buffer[chan[r]])
    BY <1>1, <1>11, <2>1 DEF RecvEvent, Unread
  <2>3. buffer[chan[r]][position[r]] \in 1 .. sent
    BY <1>1, <2>1, <2>2, SMTT(30)
  <2>4. got' \in [Receiver -> Seq(1 .. sent)]
    BY <1>1, <1>11, <2>3 DEF RecvEvent
  <2>5. position' \in [Receiver -> Nat \ {0}]
    <3>1. position[r] + 1 \in Nat \ {0}
      BY <1>1
    <3>2. position' = [position EXCEPT ![r] = position[r] + 1]
      BY <1>11 DEF RecvEvent
    <3>. QED
      BY <1>1, <3>1, <3>2
  <2>6. UNCHANGED <<pattern, alive, entry, place, chan, buffer, calls, sent, owed, lagged>>
    BY <1>11 DEF RecvEvent
  <2>. QED
    BY <1>1, <2>4, <2>5, <2>6 DEF TypeOK, Places
<1>12. ASSUME NEW r \in Receiver, Take(r) PROVE TypeOK'
  <2>1. chan[r] \in Task /\ buffer[chan[r]] \in Seq(1 .. sent) /\ buffer[chan[r]] # << >>
    BY <1>1, <1>2, <1>12 DEF Take, IInv, OneChannel, Attached
  <2>2. Head(buffer[chan[r]]) \in 1 .. sent /\ Tail(buffer[chan[r]]) \in Seq(1 .. sent)
    BY <2>1, HeadAndTail
  <2>3. Append(got[r], Head(buffer[chan[r]])) \in Seq(1 .. sent)
    BY <1>1, <2>2
  <2>4. got' \in [Receiver -> Seq(1 .. sent)]
    BY <1>1, <1>12, <2>3 DEF Take
  <2>5. buffer' \in [Task -> Seq(1 .. sent)]
    BY <1>1, <1>12, <2>1, <2>2 DEF Take
  <2>6. UNCHANGED <<pattern, alive, entry, place, chan, position, calls, sent, owed, lagged>>
    BY <1>12 DEF Take
  <2>. QED
    BY <1>1, <2>4, <2>5, <2>6 DEF TypeOK, Places
<1>13. CASE UNCHANGED vars
  BY <1>1, <1>13 DEF vars, TypeOK, Places
<1>. QED
  BY <1>3, <1>4, <1>5, <1>6, <1>7, <1>8, <1>9, <1>10, <1>11, <1>12, <1>13
  DEF Next, Receive, Send

-----------------------------------------------------------------------------
(* One channel. *)

LEMMA ChannelStep ==
  ASSUME IInv, [Next]_vars
  PROVE  OneChannel'
<1>. USE DEF registry, history, InCall, Attached
<1>1. /\ place \in [Task -> Places] /\ chan \in [Task -> Task \cup {NoChannel}]
      /\ buffer \in [Task -> Seq(1 .. sent)]
      /\ entry \in Task \cup {NoChannel} /\ NoChannel \notin Task
      /\ Receiver \subseteq Task /\ Sender \subseteq Task
  BY ChannelAssumption DEF IInv, TypeOK, Places, Task
<1>2. OneChannel
  BY DEF IInv
<1>3. ASSUME NEW t \in Task, Lookup(t) PROVE OneChannel'
  BY <1>1, <1>2, <1>3 DEF Lookup, Goto, OneChannel
<1>4. ASSUME NEW t \in Task, Make(t) PROVE OneChannel'
  <2>1. /\ alive /\ alive' = alive /\ buffer' = buffer
        /\ entry' = IF entry = NoChannel THEN t ELSE entry
        /\ chan' = [chan EXCEPT ![t] = entry']
        /\ place' = [place EXCEPT ![t] = "ready"]
    BY <1>2, <1>4 DEF Make, Goto, OneChannel
  <2>2. CASE entry = NoChannel
    <3>1. \A u \in Task : buffer[u] = << >> /\ place[u] \notin {"ready", "waiting", "open"}
      BY <1>1, <1>2, <2>1, <2>2 DEF OneChannel
    <3>. QED
      BY <1>1, <1>2, <2>1, <2>2, <3>1 DEF OneChannel
  <2>3. CASE entry # NoChannel
    BY <1>1, <1>2, <2>1, <2>3 DEF OneChannel
  <2>. QED
    BY <2>2, <2>3
<1>5. ASSUME NEW r \in Receiver,
             OpenReceiver(r) \/ DropReceiver(r) \/ RecvClosed(r) \/ RecvLagged(r) \/ RecvEvent(r)
      PROVE  OneChannel'
  <2>1. /\ UNCHANGED <<alive, entry, chan, buffer>>
        /\ place' \in {place, [place EXCEPT ![r] = "dropped"], [place EXCEPT ![r] = "ended"]}
           \/ (place[r] = "ready" /\ place' = [place EXCEPT ![r] = "open"])
    BY <1>5 DEF OpenReceiver, DropReceiver, RecvClosed, RecvLagged, RecvEvent, Goto
  <2>. QED
    BY <1>1, <1>2, <2>1 DEF OneChannel
<1>6. CASE DropBus
  BY <1>1, <1>2, <1>6 DEF DropBus, OneChannel
<1>7. ASSUME NEW p \in Sender, Publish(p) \/ Enqueue(p) PROVE OneChannel'
  <2>1. /\ place[p] \in {"ready", "waiting"} /\ alive /\ chan[p] \in Task /\ chan[p] = entry
        /\ place' = [place EXCEPT ![p] = "idle"]
        /\ UNCHANGED <<alive, entry, chan>>
    BY <1>1, <1>2, <1>7 DEF Publish, Enqueue, Goto, OneChannel
  <2>2. \A u \in Task \ {entry} : buffer'[u] = buffer[u]
    BY <1>1, <1>7, <2>1 DEF Publish, Enqueue
  <2>. QED
    BY <1>1, <1>2, <2>1, <2>2 DEF OneChannel
<1>8. ASSUME NEW p \in Sender, EnqueueWaits(p) \/ EnqueueFull(p) PROVE OneChannel'
  <2>1. /\ place[p] = "ready" /\ UNCHANGED <<alive, entry, chan, buffer>>
        /\ place' \in {[place EXCEPT ![p] = "waiting"], [place EXCEPT ![p] = "idle"]}
    BY <1>8 DEF EnqueueWaits, EnqueueFull, Goto
  <2>. QED
    BY <1>1, <1>2, <2>1 DEF OneChannel
<1>9. ASSUME NEW r \in Receiver, Take(r) PROVE OneChannel'
  <2>1. /\ UNCHANGED <<alive, entry, chan, place>>
        /\ \A u \in Task : buffer'[u] # << >> => buffer[u] # << >>
    BY <1>1, <1>9 DEF Take
  <2>. QED
    BY <1>2, <2>1 DEF OneChannel
<1>10. CASE UNCHANGED vars
  BY <1>2, <1>10 DEF vars, OneChannel
<1>. QED
  BY <1>3, <1>4, <1>5, <1>6, <1>7, <1>8, <1>9, <1>10 DEF Next, Receive, Send

-----------------------------------------------------------------------------
(* The account of every subscriber. *)

LEMMA AccountsStep ==
  ASSUME IInv, [Next]_vars
  PROVE  Accounts'
<1>. USE DEF registry, history
<1>. SUFFICES ASSUME pattern = "broadcast"
              PROVE  Accounts'
  BY DEF Next, Receive, Send, vars, Lookup, Make, OpenReceiver, DropReceiver, RecvLagged,
         RecvEvent, Take, RecvClosed, Publish, Enqueue, EnqueueWaits, EnqueueFull, DropBus,
         Accounts
<1>1. /\ place \in [Task -> Places] /\ chan \in [Task -> Task \cup {NoChannel}]
      /\ buffer \in [Task -> Seq(1 .. sent)] /\ sent \in Nat
      /\ position \in [Receiver -> Nat \ {0}]
      /\ owed \in [Receiver -> Seq(1 .. sent)] /\ got \in [Receiver -> Seq(1 .. sent)]
      /\ lagged \in [Receiver -> Nat]
  BY DEF IInv, TypeOK, Places
<1>2. /\ Receiver \subseteq Task /\ Sender \subseteq Task /\ Capacity \in Nat \ {0}
      /\ \A p \in Sender, r \in Receiver : p # r
  BY ChannelAssumption DEF Task
<1>3. \A r \in Receiver :
        /\ place[r] = "open" => AccountOf(r) /\ chan[r] \in Task
        /\ place[r] \in {"idle", "missed", "ready"} =>
             owed[r] = << >> /\ got[r] = << >> /\ lagged[r] = 0
  BY <1>2 DEF IInv, Accounts, OneChannel, Attached
<1>4. ASSUME UNCHANGED <<buffer, position, owed, got, lagged>>,
             \A r \in Receiver :
               /\ place'[r] = "open" => place[r] = "open" /\ chan'[r] = chan[r]
               /\ place'[r] \in {"idle", "missed", "ready"} =>
                    place[r] \in {"idle", "missed", "ready"}
      PROVE  Accounts'
  BY <1>3, <1>4 DEF Accounts, AccountOf
<1>5. ASSUME NEW t \in Task, Lookup(t) \/ Make(t) PROVE Accounts'
  <2>1. /\ UNCHANGED <<buffer, position, owed, got, lagged>>
        /\ place[t] \in {"idle", "missed"}
        /\ \E p \in {"missed", "ready"} : place' = [place EXCEPT ![t] = p]
        /\ \A u \in Task \ {t} : chan'[u] = chan[u]
    BY <1>1, <1>5 DEF Lookup, Make, Goto
  <2>. QED
    BY <1>1, <1>2, <1>4, <2>1
<1>6. ASSUME NEW r \in Receiver, OpenReceiver(r) PROVE Accounts'
  <2>1. /\ place[r] = "ready" /\ place' = [place EXCEPT ![r] = "open"]
        /\ position' = [position EXCEPT ![r] = Len(buffer[chan[r]]) + 1]
        /\ UNCHANGED <<chan, buffer, owed, got, lagged>>
    BY <1>6 DEF OpenReceiver, Goto
  <2>2. owed[r] = << >> /\ got[r] = << >> /\ lagged[r] = 0 /\ chan[r] \in Task
    BY <1>2, <1>3, <2>1 DEF IInv, OneChannel, Attached
  <2>3. position'[r] = Len(buffer[chan[r]]) + 1
    BY <1>1, <2>1
  <2>4. AccountOf(r)'
    BY <1>1, <2>1, <2>2, <2>3, Opened DEF AccountOf
  <2>5. place'[r] = "open"
    BY <1>1, <1>2, <2>1
  <2>6. \A x \in Receiver \ {r} : place'[x] = place[x] /\ position'[x] = position[x]
    BY <1>1, <1>2, <2>1
  <2>. QED
    BY <1>3, <2>1, <2>4, <2>5, <2>6 DEF Accounts, AccountOf
<1>7. ASSUME NEW r \in Receiver, DropReceiver(r) \/ RecvClosed(r) PROVE Accounts'
  <2>1. /\ UNCHANGED <<buffer, position, owed, got, lagged, chan>>
        /\ \E p \in {"dropped", "ended"} : place' = [place EXCEPT ![r] = p]
    BY <1>7 DEF DropReceiver, RecvClosed, Goto
  <2>. QED
    BY <1>1, <1>2, <1>4, <2>1
<1>8. CASE DropBus \/ UNCHANGED vars
  BY <1>4, <1>8 DEF DropBus, vars
<1>9. ASSUME NEW p \in Sender, Publish(p) PROVE Accounts'
  <2>1. /\ sent' = sent + 1 /\ chan[p] \in Task
        /\ UNCHANGED <<chan, position, got, lagged>>
        /\ place' = [place EXCEPT ![p] = "idle"]
        /\ owed' = [r \in Receiver |-> IF r \in Open THEN Append(owed[r], sent + 1) ELSE owed[r]]
    BY <1>2, <1>9 DEF Publish, Goto, IInv, OneChannel, Attached
  <2>2. \A r \in Receiver : place'[r] = place[r]
    BY <1>1, <1>2, <2>1
  <2>3. ASSUME NEW r \in Receiver, place[r] = "open" PROVE AccountOf(r)'
    <3>1. chan[r] = chan[p]
      BY <1>2, <1>9, <2>3 DEF Publish, IInv, OneChannel, InCall, Attached
    <3>2. r \in Open /\ Listening(chan[p]) # {}
      BY <2>3, <3>1 DEF Open, Listening
    <3>3. buffer'[chan[r]] = Append(buffer[chan[r]], sent + 1)
      BY <1>1, <1>9, <2>1, <3>1, <3>2 DEF Publish
    <3>4. owed'[r] = Append(owed[r], sent + 1)
      BY <2>1, <3>2
    <3>5. Account(Append(buffer[chan[r]], sent + 1), position[r], Append(owed[r], sent + 1),
                  got[r], lagged[r])
      <4>1. /\ buffer[chan[r]] \in Seq(1 .. sent) /\ owed[r] \in Seq(1 .. sent)
            /\ got[r] \in Seq(1 .. sent) /\ position[r] \in Nat /\ lagged[r] \in Nat
        BY <1>1, <2>1, <3>1
      <4>2. Account(buffer[chan[r]], position[r], owed[r], got[r], lagged[r])
        BY <1>3, <2>3 DEF AccountOf
      <4>. QED
        BY <1>1, <4>1, <4>2, Owing
    <3>. QED
      BY <2>1, <3>3, <3>4, <3>5 DEF AccountOf
  <2>4. \A r \in Receiver : place[r] \in {"idle", "missed", "ready"} => owed'[r] = owed[r]
    BY <2>1 DEF Open
  <2>. QED
    BY <1>3, <2>1, <2>2, <2>3, <2>4 DEF Accounts
<1>10. ASSUME NEW r \in Receiver, RecvLagged(r) \/ RecvEvent(r) PROVE Accounts'
  <2>1. /\ place[r] = "open" /\ UNCHANGED <<place, chan, buffer, owed>>
        /\ \A x \in Receiver \ {r} : /\ position'[x] = position[x] /\ got'[x] = got[x]
                                     /\ lagged'[x] = lagged[x]
    BY <1>1, <1>10 DEF RecvLagged, RecvEvent
  <2>2. /\ AccountOf(r) /\ chan[r] \in Task /\ position[r] \in Nat /\ lagged[r] \in Nat
        /\ buffer[chan[r]] \in Seq(1 .. sent) /\ owed[r] \in Seq(1 .. sent)
        /\ got[r] \in Seq(1 .. sent)
    BY <1>1, <1>3, <2>1
  <2>3. Unread(r) = Len(buffer[chan[r]]) + 1 - position[r] /\ Len(buffer[chan[r]]) \in Nat
    BY <2>2 DEF Unread
  <2>4. CASE RecvLagged(r)
    <3>. DEFINE gap == Unread(r) - Capacity
    <3>1. gap \in 1 .. Len(buffer[chan[r]]) + 1 - position[r]
      <4>1. Unread(r) > Capacity /\ Unread(r) \in Int
        BY <2>2, <2>3, <2>4 DEF RecvLagged
      <4>2. gap \in 1 .. Unread(r)
        BY <1>2, <4>1
      <4>. QED
        BY <2>3, <4>2
    <3>2. /\ position[r] + Unread(r) - Capacity = position[r] + gap
          /\ lagged[r] + Unread(r) - Capacity = lagged[r] + gap
      <4>1. Unread(r) \in Int
        BY <2>2, <2>3
      <4>2. position[r] \in Int /\ lagged[r] \in Int /\ Capacity \in Int
        BY <1>2, <2>2
      <4>. QED
        BY <4>1, <4>2
    <3>3. position'[r] = position[r] + gap /\ lagged'[r] = lagged[r] + gap /\ got' = got
      BY <1>1, <2>4, <3>2 DEF RecvLagged
    <3>. HIDE DEF gap
    <3>4. Account(buffer[chan[r]], position[r] + gap, owed[r], got[r], lagged[r] + gap)
      BY <2>2, <3>1, Losing DEF AccountOf
    <3>5. AccountOf(r)'
      BY <2>1, <3>3, <3>4 DEF AccountOf
    <3>. QED
      BY <1>3, <2>1, <3>5 DEF Accounts, AccountOf
  <2>5. CASE RecvEvent(r)
    <3>1. position[r] <= Len(buffer[chan[r]])
      BY <1>2, <2>2, <2>3, <2>5 DEF RecvEvent
    <3>2. /\ position'[r] = position[r] + 1 /\ lagged' = lagged
          /\ got'[r] = Append(got[r], buffer[chan[r]][position[r]])
      BY <1>1, <2>5 DEF RecvEvent
    <3>3. Account(buffer[chan[r]], position[r] + 1, owed[r],
                  Append(got[r], buffer[chan[r]][position[r]]), lagged[r])
      BY <1>1, <2>2, <3>1, Receiving DEF AccountOf
    <3>4. AccountOf(r)'
      BY <2>1, <3>2, <3>3 DEF AccountOf
    <3>. QED
      BY <1>3, <2>1, <3>4 DEF Accounts, AccountOf
  <2>. QED
    BY <1>10, <2>4, <2>5
<1>. QED
  BY <1>5, <1>6, <1>7, <1>8, <1>9, <1>10
  DEF Next, Receive, Send, Take, Enqueue, EnqueueWaits, EnqueueFull

-----------------------------------------------------------------------------
(* Whoever was told the channel is closed. *)

LEMMA EndedStep ==
  ASSUME IInv, [Next]_vars
  PROVE  Ended'
<1>. USE DEF registry, history
<1>1. /\ place \in [Task -> Places] /\ buffer \in [Task -> Seq(1 .. sent)]
      /\ chan \in [Task -> Task \cup {NoChannel}] /\ alive \in BOOLEAN
      /\ position \in [Receiver -> Nat \ {0}]
      /\ Receiver \subseteq Task /\ Sender \subseteq Task
      /\ \A p \in Sender, r \in Receiver : p # r
  BY ChannelAssumption DEF IInv, TypeOK, Places, Task
<1>2. \A r \in Receiver : place[r] = "ended" => ~alive /\ Drained(r)
  BY DEF IInv, Ended
<1>3. ASSUME UNCHANGED <<pattern, buffer, owed, got, lagged>>, alive' => alive,
             \A r \in Receiver : place'[r] = "ended" => place[r] = "ended"
      PROVE  Ended'
  BY <1>2, <1>3 DEF Ended, Drained
<1>4. ASSUME NEW t \in Task, Lookup(t) \/ Make(t) PROVE Ended'
  <2>1. /\ UNCHANGED <<pattern, alive, buffer, owed, got, lagged>>
        /\ \E p \in {"missed", "ready"} : place' = [place EXCEPT ![t] = p]
    BY <1>4 DEF Lookup, Make, Goto
  <2>. QED
    BY <1>1, <1>3, <2>1
<1>5. ASSUME NEW r \in Receiver, OpenReceiver(r) \/ DropReceiver(r) PROVE Ended'
  <2>1. /\ UNCHANGED <<pattern, alive, buffer, owed, got, lagged>>
        /\ \E p \in {"open", "dropped"} : place' = [place EXCEPT ![r] = p]
    BY <1>5 DEF OpenReceiver, DropReceiver, Goto
  <2>. QED
    BY <1>1, <1>3, <2>1
<1>6. CASE DropBus \/ UNCHANGED vars
  BY <1>3, <1>6 DEF DropBus, vars
<1>7. ASSUME NEW p \in Sender, Send(p) PROVE Ended'
  <2>1. alive /\ alive' = alive
    BY <1>1, <1>7 DEF Send, Publish, Enqueue, EnqueueWaits, EnqueueFull, IInv, OneChannel, InCall
  <2>2. \A r \in Receiver : place'[r] = place[r]
    BY <1>1, <1>7 DEF Send, Publish, Enqueue, EnqueueWaits, EnqueueFull, Goto
  <2>. QED
    BY <1>2, <2>1, <2>2 DEF Ended
<1>8. ASSUME NEW r \in Receiver, RecvLagged(r) \/ RecvEvent(r) PROVE Ended'
  <2>1. /\ place[r] = "open" /\ UNCHANGED <<pattern, alive, place, buffer, owed>>
        /\ \A x \in Receiver \ {r} : got'[x] = got[x] /\ lagged'[x] = lagged[x]
    BY <1>8 DEF RecvLagged, RecvEvent, IInv, TypeOK
  <2>. QED
    BY <1>2, <2>1 DEF Ended, Drained
<1>9. ASSUME NEW r \in Receiver, Take(r) PROVE Ended'
  <2>1. /\ place[r] = "open" /\ UNCHANGED <<pattern, alive, place>> /\ pattern = "work"
        /\ buffer[chan[r]] # << >> /\ chan[r] \in Task
    BY <1>1, <1>9 DEF Take, IInv, OneChannel, Attached
  <2>2. \A x \in Receiver : place[x] # "ended"
    BY <1>2, <2>1 DEF Drained
  <2>. QED
    BY <2>1, <2>2 DEF Ended
<1>10. ASSUME NEW r \in Receiver, RecvClosed(r) PROVE Ended'
  <2>1. /\ ~alive /\ place[r] = "open" /\ Exhausted(r)
        /\ UNCHANGED <<pattern, alive, chan, buffer, owed, got, lagged>>
        /\ place' = [place EXCEPT ![r] = "ended"]
    BY <1>10 DEF RecvClosed, Goto
  <2>2. chan[r] \in Task
    BY <1>1, <2>1 DEF IInv, OneChannel, Attached
  <2>3. Drained(r)
    <3>1. CASE pattern = "broadcast"
      <4>1. Unread(r) = 0 /\ AccountOf(r)
        BY <2>1, <3>1 DEF Exhausted, IInv, Accounts
      <4>2. Len(got[r]) + lagged[r] + Unread(r) = Len(owed[r])
        BY <4>1 DEF AccountOf, Account, Unread
      <4>3. Len(got[r]) \in Nat /\ lagged[r] \in Nat
        BY DEF IInv, TypeOK
      <4>. QED
        BY <3>1, <4>1, <4>2, <4>3 DEF Drained
    <3>2. CASE pattern # "broadcast"
      BY <1>1, <2>1, <2>2, <3>2 DEF Exhausted, Drained, IInv, OneChannel, Attached
    <3>. QED
      BY <3>1, <3>2
  <2>4. \A x \in Receiver : Drained(x)' <=> Drained(x)
    BY <2>1 DEF Drained
  <2>5. \A x \in Receiver \ {r} : place'[x] = place[x]
    BY <1>1, <2>1
  <2>. QED
    BY <1>2, <2>1, <2>3, <2>4, <2>5 DEF Ended
<1>. QED
  BY <1>4, <1>5, <1>6, <1>7, <1>8, <1>9, <1>10 DEF Next, Receive

-----------------------------------------------------------------------------
LEMMA Initially == Init => IInv
<1>. SUFFICES ASSUME Init PROVE IInv
  OBVIOUS
<1>1. TypeOK
  BY ChannelAssumption DEF Init, TypeOK
<1>2. OneChannel
  BY DEF Init, OneChannel, InCall, Attached
<1>3. Accounts
  BY DEF Init, Accounts, Task
<1>4. Ended
  BY DEF Init, Ended, Task
<1>. QED
  BY <1>1, <1>2, <1>3, <1>4 DEF IInv

LEMMA Invariance == Spec => []IInv
<1>1. IInv /\ [Next]_vars => IInv'
  BY TypeStep, ChannelStep, AccountsStep, EndedStep DEF IInv
<1>. QED
  BY <1>1, Initially, PTL DEF Spec

(* No subscriber loses an event unawares: what was published since it      *)
(* subscribed it has received in order, can still receive, or was told of  *)
(* by Lagged (publish, Subscriber::recv), with the type invariant.         *)
THEOREM NoSilentLoss == Spec => []Sound
<1>1. IInv => LossReported
  <2>. SUFFICES ASSUME IInv, pattern = "broadcast", NEW r \in Open
                PROVE  /\ Increasing(got[r]) /\ Elements(got[r]) \subseteq Elements(owed[r])
                       /\ Len(got[r]) + lagged[r] + Unread(r) = Len(owed[r])
    BY DEF LossReported
  <2>1. r \in Receiver /\ AccountOf(r)
    BY DEF Open, IInv, Accounts
  <2>2. /\ Increasing(got[r]) /\ Len(got[r]) + lagged[r] + Unread(r) = Len(owed[r])
        /\ position[r] \in 1 .. Len(buffer[chan[r]]) + 1
    BY <2>1 DEF AccountOf, Account, Unread
  <2>3. ASSUME NEW i \in 1 .. Len(got[r]) PROVE got[r][i] \in Elements(owed[r])
    <3>1. PICK j \in 1 .. Len(owed[r]) - Unread(r) : got[r][i] = owed[r][j]
      BY <2>1 DEF AccountOf, Account, Unread
    <3>2. /\ Len(owed[r]) \in Nat /\ Len(buffer[chan[r]]) \in Nat
      <4>1. chan[r] \in Task
        BY <2>1 DEF Open, IInv, OneChannel, Attached, Task
      <4>. QED
        BY <2>1, <4>1 DEF IInv, TypeOK
    <3>3. Unread(r) \in Nat
      BY <2>2, <3>2 DEF Unread
    <3>4. j \in 1 .. Len(owed[r])
      BY <3>2, <3>3
    <3>. QED
      BY <3>1, <3>4 DEF Elements
  <2>. QED
    BY <2>2, <2>3 DEF Elements
<1>2. IInv => Sound
  BY <1>1 DEF IInv, Sound
<1>. QED
  BY <1>2, Invariance, PTL

(* A receiver that is told the channel is closed has missed nothing, and   *)
(* leaves no work behind (RecvError::Closed of Subscriber and Worker).     *)
THEOREM ClosedMeansDrained == Spec => []ClosedIsDrained
<1>1. IInv => ClosedIsDrained
  BY DEF IInv, Ended, Drained, ClosedIsDrained
<1>. QED
  BY <1>1, Invariance, PTL

-----------------------------------------------------------------------------
(***************************************************************************)
(* The work queue.  Events leave the one channel in the order in which     *)
(* they entered it, so whatever was taken is older than all that is queued,*)
(* and what is taken next was taken by nobody before.                      *)
(***************************************************************************)

Queued(e) == \E t \in Task : e \in Elements(buffer[t])
Taken(e) == \E r \in Receiver : e \in Elements(got[r])

Once ==
  pattern = "work" =>
    /\ \A t \in Task : Increasing(buffer[t])
    /\ \A r \in Receiver : Increasing(got[r])
    /\ \A t, u \in Task : buffer[t] # << >> /\ buffer[u] # << >> => t = u
    /\ \A e \in 1 .. sent : Queued(e) \/ Taken(e)
    /\ \A r \in Receiver, t \in Task :
         \A x \in Elements(got[r]), y \in Elements(buffer[t]) : x < y
    /\ \A r, s \in Receiver :
         \A x \in Elements(got[r]) : x \in Elements(got[s]) => r = s

\* What Append and Tail do to a queue of increasing numbers.
LEMMA Appended ==
  ASSUME NEW n \in Nat, NEW q \in Seq(1 .. n), Increasing(q), NEW y \in Nat,
         \A x \in Elements(q) : x < y
  PROVE  /\ Elements(Append(q, y)) = Elements(q) \cup {y}
         /\ Increasing(Append(q, y))
<1>. DEFINE a == Append(q, y)
<1>1. /\ Len(q) \in Nat /\ Len(a) = Len(q) + 1 /\ a[Len(q) + 1] = y
      /\ \A i \in 1 .. Len(q) : a[i] = q[i]
  OBVIOUS
<1>. HIDE DEF a
<1>2. Elements(a) = Elements(q) \cup {y}
  <2>1. ASSUME NEW i \in 1 .. Len(a) PROVE a[i] \in Elements(q) \cup {y}
    <3>1. i \in 1 .. Len(q) \/ i = Len(q) + 1
      BY <1>1
    <3>. QED
      BY <1>1, <3>1 DEF Elements
  <2>2. ASSUME NEW i \in 1 .. Len(q) PROVE q[i] \in Elements(a)
    <3>1. i \in 1 .. Len(a) /\ a[i] = q[i]
      BY <1>1
    <3>. QED
      BY <3>1 DEF Elements
  <2>3. y \in Elements(a)
    <3>1. Len(q) + 1 \in 1 .. Len(a)
      BY <1>1
    <3>. QED
      BY <1>1, <3>1 DEF Elements
  <2>. QED
    BY <2>1, <2>2, <2>3 DEF Elements
<1>3. Increasing(a)
  <2>1. ASSUME NEW i \in 1 .. Len(a), NEW j \in 1 .. Len(a), i < j PROVE a[i] < a[j]
    <3>1. i \in 1 .. Len(q) /\ a[i] = q[i] /\ q[i] \in Elements(q)
      <4>1. i \in 1 .. Len(q)
        BY <1>1, <2>1
      <4>. QED
        BY <1>1, <4>1 DEF Elements
    <3>2. CASE j = Len(q) + 1
      BY <1>1, <3>1, <3>2
    <3>3. CASE j \in 1 .. Len(q)
      BY <1>1, <2>1, <3>1, <3>3 DEF Increasing
    <3>. QED
      BY <1>1, <3>2, <3>3
  <2>. QED
    BY <2>1 DEF Increasing
<1>. QED
  BY <1>2, <1>3 DEF a

LEMMA Beheaded ==
  ASSUME NEW n \in Nat, NEW q \in Seq(1 .. n), Increasing(q), q # << >>
  PROVE  /\ Elements(q) = {Head(q)} \cup Elements(Tail(q))
         /\ Increasing(Tail(q))
         /\ \A x \in Elements(Tail(q)) : Head(q) < x
         /\ Head(q) \in 1 .. n
<1>. DEFINE t == Tail(q)
            h == Head(q)
<1>1. /\ Len(q) \in Nat /\ Len(q) >= 1 /\ Len(t) = Len(q) - 1 /\ h = q[1]
      /\ \A i \in 1 .. Len(t) : t[i] = q[i + 1]
      /\ h \in 1 .. n
  OBVIOUS
<1>. HIDE DEF t, h
<1>2. ASSUME NEW i \in 1 .. Len(q) PROVE q[i] \in {h} \cup Elements(t)
  <2>1. CASE i = 1
    BY <1>1, <2>1
  <2>2. CASE i # 1
    <3>1. i - 1 \in 1 .. Len(t) /\ (i - 1) + 1 = i
      BY <1>1, <2>2
    <3>2. t[i - 1] = q[i]
      BY <1>1, <3>1
    <3>. QED
      BY <3>1, <3>2 DEF Elements
  <2>. QED
    BY <2>1, <2>2
<1>3. ASSUME NEW i \in 1 .. Len(t)
      PROVE  /\ i + 1 \in 1 .. Len(q) /\ t[i] = q[i + 1] /\ t[i] \in Elements(q)
             /\ h < t[i]
  <2>1. i + 1 \in 1 .. Len(q) /\ 1 \in 1 .. Len(q) /\ 1 < i + 1
    BY <1>1
  <2>2. t[i] = q[i + 1]
    BY <1>1
  <2>. QED
    BY <1>1, <2>1, <2>2 DEF Increasing, Elements
<1>4. h \in Elements(q)
  <2>1. 1 \in 1 .. Len(q)
    BY <1>1
  <2>. QED
    BY <1>1, <2>1 DEF Elements
<1>5. Elements(q) = {h} \cup Elements(t)
  BY <1>2, <1>3, <1>4 DEF Elements
<1>6. Increasing(t)
  <2>1. ASSUME NEW i \in 1 .. Len(t), NEW j \in 1 .. Len(t), i < j PROVE t[i] < t[j]
    <3>1. i + 1 < j + 1
      BY <1>1, <2>1
    <3>. QED
      BY <1>3, <3>1 DEF Increasing
  <2>. QED
    BY <2>1 DEF Increasing
<1>7. \A x \in Elements(t) : h < x
  BY <1>3 DEF Elements
<1>. QED
  BY <1>1, <1>5, <1>6, <1>7 DEF t, h

LEMMA EnqueueOnce ==
  ASSUME IInv, Once, NEW p \in Sender, Enqueue(p)
  PROVE  Once'
<1>. DEFINE c == chan[p]
<1>1. /\ pattern = "work" /\ pattern' = "work" /\ place[p] \in {"ready", "waiting"}
      /\ sent' = sent + 1 /\ buffer' = [buffer EXCEPT ![c] = Append(@, sent + 1)]
      /\ got' = got
  BY DEF Enqueue, history
<1>2. /\ p \in Task /\ sent \in Nat /\ buffer \in [Task -> Seq(1 .. sent)]
      /\ got \in [Receiver -> Seq(1 .. sent)]
  BY DEF IInv, TypeOK, Task
<1>3. c \in Task /\ \A u \in Task \ {c} : buffer[u] = << >>
  BY <1>1, <1>2 DEF IInv, OneChannel, Attached, InCall
<1>4. /\ \A t \in Task : Increasing(buffer[t])
      /\ \A r \in Receiver : Increasing(got[r])
      /\ \A e \in 1 .. sent : Queued(e) \/ Taken(e)
      /\ \A r \in Receiver, t \in Task :
           \A x \in Elements(got[r]), y \in Elements(buffer[t]) : x < y
      /\ \A r, s \in Receiver : \A x \in Elements(got[r]) : x \in Elements(got[s]) => r = s
  BY <1>1 DEF Once
<1>. HIDE DEF c
<1>5. /\ buffer'[c] = Append(buffer[c], sent + 1)
      /\ \A u \in Task \ {c} : buffer'[u] = << >>
  BY <1>1, <1>2, <1>3
<1>6. /\ Elements(buffer'[c]) = Elements(buffer[c]) \cup {sent + 1}
      /\ Increasing(buffer'[c])
  <2>1. buffer[c] \in Seq(1 .. sent) /\ sent + 1 \in Nat
    BY <1>2, <1>3
  <2>2. \A x \in Elements(buffer[c]) : x < sent + 1
    BY <1>2, <2>1 DEF Elements
  <2>. QED
    BY <1>2, <1>3, <1>4, <1>5, <2>1, <2>2, Appended
<1>7. Increasing(<< >>) /\ Elements(<< >>) = {}
  BY DEF Increasing, Elements
<1>8. \A r \in Receiver : \A x \in Elements(got[r]) : x \in 1 .. sent /\ x < sent + 1
  BY <1>2 DEF Elements
<1>9. ASSUME NEW e \in 1 .. sent + 1 PROVE Queued(e)' \/ Taken(e)'
  <2>1. CASE e = sent + 1
    BY <1>3, <1>6, <2>1 DEF Queued
  <2>2. CASE e # sent + 1
    <3>1. e \in 1 .. sent
      BY <1>2, <2>2
    <3>2. CASE Taken(e)
      BY <1>1, <3>2 DEF Taken
    <3>3. CASE Queued(e)
      <4>1. e \in Elements(buffer[c])
        BY <1>3, <1>7, <3>3 DEF Queued
      <4>. QED
        BY <1>3, <1>6, <4>1 DEF Queued
    <3>. QED
      BY <1>4, <3>1, <3>2, <3>3
  <2>. QED
    BY <2>1, <2>2
<1>10. ASSUME NEW r \in Receiver, NEW t \in Task,
              NEW x \in Elements(got[r]), NEW y \in Elements(buffer'[t])
       PROVE  x < y
  <2>1. t = c
    BY <1>5, <1>7
  <2>. QED
    BY <1>3, <1>4, <1>6, <1>8, <2>1
<1>11. \A t \in Task : Increasing(buffer'[t])
  BY <1>5, <1>6, <1>7
<1>12. \A t, u \in Task : buffer'[t] # << >> /\ buffer'[u] # << >> => t = u
  BY <1>5
<1>. QED
  BY <1>1, <1>4, <1>9, <1>10, <1>11, <1>12 DEF Once

LEMMA TakeOnce ==
  ASSUME IInv, Once, NEW r \in Receiver, Take(r)
  PROVE  Once'
<1>. DEFINE c == chan[r]
            h == Head(buffer[c])
<1>1. /\ pattern = "work" /\ pattern' = "work" /\ place[r] = "open" /\ sent' = sent
      /\ buffer[c] # << >> /\ buffer' = [buffer EXCEPT ![c] = Tail(buffer[c])]
      /\ got' = [got EXCEPT ![r] = Append(got[r], h)]
  BY DEF Take
<1>2. /\ r \in Task /\ sent \in Nat /\ buffer \in [Task -> Seq(1 .. sent)]
      /\ got \in [Receiver -> Seq(1 .. sent)]
  BY DEF IInv, TypeOK, Task
<1>3. c \in Task /\ \A u \in Task \ {c} : buffer[u] = << >>
  BY <1>1, <1>2 DEF IInv, OneChannel, Attached, InCall
<1>4. /\ \A t \in Task : Increasing(buffer[t])
      /\ \A s \in Receiver : Increasing(got[s])
      /\ \A e \in 1 .. sent : Queued(e) \/ Taken(e)
      /\ \A s \in Receiver, t \in Task :
           \A x \in Elements(got[s]), y \in Elements(buffer[t]) : x < y
      /\ \A s, v \in Receiver : \A x \in Elements(got[s]) : x \in Elements(got[v]) => s = v
  BY <1>1 DEF Once
<1>5. /\ Elements(buffer[c]) = {h} \cup Elements(Tail(buffer[c]))
      /\ Increasing(Tail(buffer[c])) /\ h \in 1 .. sent
      /\ \A x \in Elements(Tail(buffer[c])) : h < x
  BY <1>1, <1>2, <1>3, <1>4, Beheaded
<1>. HIDE DEF c, h
<1>6. /\ buffer'[c] = Tail(buffer[c])
      /\ \A u \in Task \ {c} : buffer'[u] = << >>
  BY <1>1, <1>2, <1>3
<1>7. /\ got'[r] = Append(got[r], h)
      /\ \A s \in Receiver \ {r} : got'[s] = got[s]
  BY <1>1, <1>2
<1>8. \A s \in Receiver : \A x \in Elements(got[s]) : x < h
  BY <1>3, <1>4, <1>5
<1>9. Elements(got'[r]) = Elements(got[r]) \cup {h} /\ Increasing(got'[r])
  <2>1. got[r] \in Seq(1 .. sent) /\ h \in Nat
    BY <1>2, <1>5
  <2>. QED
    BY <1>2, <1>4, <1>7, <1>8, <2>1, Appended
<1>10. Increasing(<< >>) /\ Elements(<< >>) = {}
  BY DEF Increasing, Elements
<1>11. ~ (h < h)
  BY <1>5
<1>12. ASSUME NEW e \in 1 .. sent PROVE Queued(e)' \/ Taken(e)'
  <2>1. CASE Taken(e)
    <3>1. PICK s \in Receiver : e \in Elements(got[s])
      BY <2>1 DEF Taken
    <3>2. e \in Elements(got'[s])
      BY <1>7, <1>9, <3>1
    <3>. QED
      BY <3>2 DEF Taken
  <2>2. CASE Queued(e)
    <3>1. e \in Elements(buffer[c])
      BY <1>3, <1>10, <2>2 DEF Queued
    <3>2. CASE e = h
      BY <1>9, <3>2 DEF Taken
    <3>3. CASE e \in Elements(buffer'[c])
      BY <1>3, <3>3 DEF Queued
    <3>. QED
      BY <1>5, <1>6, <3>1, <3>2, <3>3
  <2>. QED
    BY <1>4, <2>1, <2>2
<1>13. ASSUME NEW s \in Receiver, NEW t \in Task,
              NEW x \in Elements(got'[s]), NEW y \in Elements(buffer'[t])
       PROVE  x < y
  <2>1. t = c /\ y \in Elements(Tail(buffer[c])) /\ y \in Elements(buffer[c])
    BY <1>5, <1>6, <1>10
  <2>2. CASE x \in Elements(got[s])
    BY <1>3, <1>4, <2>1, <2>2
  <2>3. CASE x \notin Elements(got[s])
    BY <1>5, <1>7, <1>9, <2>1, <2>3
  <2>. QED
    BY <2>2, <2>3
<1>14. ASSUME NEW s \in Receiver, NEW v \in Receiver,
              NEW x \in Elements(got'[s]), x \in Elements(got'[v])
       PROVE  s = v
  <2>1. CASE x = h
    BY <1>7, <1>8, <1>11, <1>14, <2>1
  <2>2. CASE x # h
    BY <1>4, <1>7, <1>9, <1>14, <2>2
  <2>. QED
    BY <2>1, <2>2
<1>15. \A t \in Task : Increasing(buffer'[t])
  BY <1>5, <1>6, <1>10
<1>16. \A s \in Receiver : Increasing(got'[s])
  BY <1>4, <1>7, <1>9
<1>17. \A t, u \in Task : buffer'[t] # << >> /\ buffer'[u] # << >> => t = u
  BY <1>6
<1>. QED
  BY <1>1, <1>12, <1>13, <1>14, <1>15, <1>16, <1>17 DEF Once

LEMMA OnceInvariance == Spec => []Once
<1>1. Init => Once
  <2>. SUFFICES ASSUME Init PROVE Once
    OBVIOUS
  <2>1. /\ \A t \in Task : buffer[t] = << >>
        /\ \A r \in Receiver : got[r] = << >>
        /\ 1 .. sent = {}
    BY DEF Init
  <2>2. Increasing(<< >>) /\ Elements(<< >>) = {}
    BY DEF Increasing, Elements
  <2>. QED
    BY <2>1, <2>2 DEF Once
<1>2. IInv /\ Once /\ [Next]_vars => Once'
  <2>. SUFFICES ASSUME IInv, Once, [Next]_vars PROVE Once'
    OBVIOUS
  <2>1. ASSUME NEW p \in Sender, Enqueue(p) PROVE Once'
    BY <2>1, EnqueueOnce
  <2>2. ASSUME NEW r \in Receiver, Take(r) PROVE Once'
    BY <2>2, TakeOnce
  <2>3. ASSUME NEW p \in Sender, Publish(p) PROVE Once'
    BY <2>3 DEF Publish, Once
  <2>4. ASSUME NEW r \in Receiver, RecvEvent(r) PROVE Once'
    BY <2>4 DEF RecvEvent, Once
  <2>5. CASE UNCHANGED <<pattern, buffer, sent, got>>
    BY <2>5 DEF Once, Queued, Taken
  <2>. QED
    BY <2>1, <2>2, <2>3, <2>4, <2>5
    DEF Next, Receive, Send, Lookup, Make, OpenReceiver, DropReceiver, DropBus, RecvLagged,
        RecvClosed, EnqueueWaits, EnqueueFull, vars, history
<1>. QED
  BY <1>1, <1>2, Invariance, PTL DEF Spec

(* Each event that was enqueued is in the queue or went to one worker,     *)
(* once, and in order, however producers, workers and the dropping of the  *)
(* bus interleave (enqueue, try_enqueue, Worker::recv, try_recv).          *)
THEOREM WorkDoneOnce == Spec => []ExactlyOnce
<1>1. Once => ExactlyOnce
  <2>. SUFFICES ASSUME Once, pattern = "work" PROVE ExactlyOnce
    BY DEF ExactlyOnce
  <2>. DEFINE Holders(e) == {t \in Task : e \in Elements(buffer[t])}
              Takers(e) == {r \in Receiver : e \in Elements(got[r])}
  <2>1. ASSUME NEW e \in 1 .. sent
        PROVE  Cardinality(Holders(e)) + Cardinality(Takers(e)) = 1
    <3>1. ASSUME NEW t \in Task, e \in Elements(buffer[t])
          PROVE  Holders(e) = {t} /\ Takers(e) = {}
      <4>1. \A u \in Task : e \in Elements(buffer[u]) => u = t
        <5>1. \A u \in Task : e \in Elements(buffer[u]) => buffer[u] # << >>
          BY DEF Elements
        <5>. QED
          BY <3>1, <5>1 DEF Once
      <4>2. \A r \in Receiver : e \notin Elements(got[r])
        <5>1. ~(e < e)
          OBVIOUS
        <5>. QED
          BY <3>1, <5>1 DEF Once
      <4>. QED
        BY <3>1, <4>1, <4>2
    <3>2. ASSUME NEW r \in Receiver, e \in Elements(got[r])
          PROVE  Holders(e) = {} /\ Takers(e) = {r}
      <4>1. \A t \in Task : e \notin Elements(buffer[t])
        BY <3>1, <3>2
      <4>2. \A s \in Receiver : e \in Elements(got[s]) => s = r
        BY <3>2 DEF Once
      <4>. QED
        BY <3>2, <4>1, <4>2
    <3>3. Queued(e) \/ Taken(e)
      BY DEF Once
    <3>4. Cardinality({}) = 0 /\ \A x : Cardinality({x}) = 1
      BY FS_EmptySet, FS_Singleton
    <3>. HIDE DEF Holders, Takers
    <3>5. CASE Queued(e)
      <4>1. PICK t \in Task : e \in Elements(buffer[t])
        BY <3>5 DEF Queued
      <4>2. Cardinality(Holders(e)) = 1 /\ Cardinality(Takers(e)) = 0
        BY <3>1, <3>4, <4>1
      <4>. QED
        BY <4>2
    <3>6. CASE Taken(e)
      <4>1. PICK r \in Receiver : e \in Elements(got[r])
        BY <3>6 DEF Taken
      <4>2. Cardinality(Holders(e)) = 0 /\ Cardinality(Takers(e)) = 1
        BY <3>2, <3>4, <4>1
      <4>. QED
        BY <4>2
    <3>. QED
      BY <3>3, <3>5, <3>6
  <2>. QED
    BY <2>1 DEF Once, ExactlyOnce
<1>. QED
  BY <1>1, OnceInvariance, PTL

=============================================================================
