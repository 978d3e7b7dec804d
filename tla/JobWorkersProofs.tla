-------------------------- MODULE JobWorkersProofs ---------------------------
(***************************************************************************)
(* What MCJobWorkers checks on a small instance, proved for any number of  *)
(* workers, queues and jobs and any budgets.                               *)
(***************************************************************************)
EXTENDS JobWorkers, SequenceTheorems, TLAPS

Outcomes == {"Completed", "Dead", "Retrying"}

(* Ids are given out in order, each with a queue. *)
Given == \A j \in JobId :
  /\ status[j] = "absent" <=> j > nextId
  /\ status[j] # "absent" => home[j] \in Queue

StoreInv == StoreTypeOK /\ QueuesSound /\ Given

LEMMA Constants ==
  /\ Limit \subseteq Nat /\ MaxJobs \in Nat /\ JobId \subseteq Nat
  /\ NoJob \notin JobId /\ NoQueue \notin Queue
  /\ \A k \in DOMAIN Listed : Listed[k] \in Queue
BY StoreAssumption, WorkersAssumption DEF StoreAssumption, WorkersAssumption, JobId

-----------------------------------------------------------------------------
(* What is left of a sequence without its i-th element. *)
LEMMA Removed ==
  ASSUME NEW S, NEW s \in Seq(S), NEW i \in 1 .. Len(s)
  PROVE  /\ RemoveAt(s, i) \in Seq(S)
         /\ Len(RemoveAt(s, i)) = Len(s) - 1
         /\ \A k \in 1 .. Len(s) - 1 :
              RemoveAt(s, i)[k] = IF k < i THEN s[k] ELSE s[k + 1]
<1>. DEFINE front == SubSeq(s, 1, i - 1)
            back == SubSeq(s, i + 1, Len(s))
<1>1. /\ front \in Seq(S) /\ Len(front) = i - 1
      /\ \A k \in 1 .. i - 1 : front[k] = s[k]
  BY SubSeqProperties
<1>2. /\ back \in Seq(S) /\ Len(back) = Len(s) - i
      /\ \A k \in 1 .. Len(s) - i : back[k] = s[i + k]
  BY SubSeqProperties
<1>3. RemoveAt(s, i) = front \o back
  BY DEF RemoveAt
<1>4. /\ front \o back \in Seq(S)
      /\ Len(front \o back) = Len(s) - 1
      /\ \A k \in 1 .. Len(s) - 1 :
           (front \o back)[k] = IF k <= i - 1 THEN front[k] ELSE back[k - (i - 1)]
  <2>. HIDE DEF front, back
  <2>1. /\ front \o back \in Seq(S) /\ Len(front \o back) = Len(front) + Len(back)
        /\ \A k \in 1 .. Len(front) + Len(back) :
             (front \o back)[k] = IF k <= Len(front) THEN front[k] ELSE back[k - Len(front)]
    BY <1>1, <1>2, ConcatProperties
  <2>2. Len(front) + Len(back) = Len(s) - 1
    BY <1>1, <1>2
  <2>. QED
    BY <1>1, <2>1, <2>2
<1>. HIDE DEF front, back
<1>5. ASSUME NEW k \in 1 .. Len(s) - 1
      PROVE  (front \o back)[k] = IF k < i THEN s[k] ELSE s[k + 1]
  <2>1. CASE k < i
    BY <1>1, <1>4, <2>1
  <2>2. CASE ~(k < i)
    <3>1. k - (i - 1) \in 1 .. Len(s) - i
      BY <2>2
    <3>. QED
      BY <1>2, <1>4, <2>2, <3>1
  <2>. QED
    BY <2>1, <2>2
<1>. QED
  BY <1>3, <1>4, <1>5

(* Every element but the i-th is still there. *)
LEMMA Kept ==
  ASSUME NEW S, NEW s \in Seq(S), NEW i \in 1 .. Len(s),
         NEW k \in 1 .. Len(s), k # i
  PROVE  \E h \in 1 .. Len(RemoveAt(s, i)) : RemoveAt(s, i)[h] = s[k]
<1>1. CASE k < i
  <2>1. k \in 1 .. Len(s) - 1
    BY <1>1
  <2>. QED
    BY <1>1, <2>1, Removed
<1>2. CASE k > i
  <2>1. k - 1 \in 1 .. Len(s) - 1 /\ ~(k - 1 < i) /\ (k - 1) + 1 = k
    BY <1>2
  <2>. QED
    BY <2>1, Removed
<1>. QED
  BY <1>1, <1>2

-----------------------------------------------------------------------------
(* The store, one lemma per operation.                                     *)

LEMMA StoreInitially == StoreInit => StoreInv
BY Constants DEF StoreInit, StoreInv, StoreTypeOK, QueuesSound, QueuedWait, QueuedOnce,
   WaitingQueued, Given, Waiting, Terminal, IsInjective, JobId

LEMMA QueueTypes ==
  ASSUME StoreTypeOK, NEW q \in Queue
  PROVE  /\ queues[q] \in Seq(JobId)
         /\ DOMAIN queues[q] = 1 .. Len(queues[q])
         /\ \A i \in 1 .. Len(queues[q]) : queues[q][i] \in JobId
BY DEF StoreTypeOK

(* What leaves the queues and the set of waiting jobs alone does no harm. *)
LEMMA SameQueues ==
  ASSUME StoreTypeOK, QueuesSound, UNCHANGED <<queues, home>>,
         \A b \in JobId : status[b] \in Waiting <=> status'[b] \in Waiting
  PROVE  QueuesSound'
<1>1. QueuedWait'
  BY QueueTypes DEF QueuesSound, QueuedWait
<1>2. QueuedOnce'
  BY DEF QueuesSound, QueuedOnce
<1>3. WaitingQueued'
  BY DEF QueuesSound, WaitingQueued
<1>. QED
  BY <1>1, <1>2, <1>3 DEF QueuesSound

LEMMA EnqueueSound ==
  ASSUME StoreInv, NEW q \in Queue, NEW m \in Limit, NEW isDue \in BOOLEAN,
         StoreEnqueue(q, m, isDue)
  PROVE  StoreInv'
<1>. DEFINE new == nextId + 1
<1>. USE DEF StoreInv, StoreTypeOK
<1>1. new \in JobId /\ status[new] = "absent" /\ nextId \in Nat /\ m \in Nat
  BY Constants DEF StoreEnqueue, JobId, Given
<1>2. /\ nextId' = new
      /\ queues' = [queues EXCEPT ![q] = Append(@, new)]
      /\ status' = [status EXCEPT ![new] = "Pending"]
      /\ limit' = [limit EXCEPT ![new] = m]
      /\ home' = [home EXCEPT ![new] = q]
      /\ due' = [due EXCEPT ![new] = isDue]
      /\ attempt' = attempt
  BY DEF StoreEnqueue
<1>3. Append(queues[q], new) \in Seq(JobId)
  BY <1>1
<1>4. StoreTypeOK'
  <2>1. nextId' \in 0 .. MaxJobs
    BY <1>1, <1>2 DEF JobId
  <2>. QED
    BY <1>1, <1>2, <1>3, <2>1 DEF Waiting
<1>5. Given'
  BY <1>1, <1>2, Constants DEF Given
<1>6. \A p \in Queue : /\ queues[p] \in Seq(JobId)
                       /\ \A i \in 1 .. Len(queues[p]) : queues[p][i] # new
  <2>. SUFFICES ASSUME NEW p \in Queue, NEW i \in 1 .. Len(queues[p])
       PROVE  queues[p][i] # new
    OBVIOUS
  <2>1. status[queues[p][i]] \in Waiting
    BY QueueTypes DEF QueuesSound, QueuedWait
  <2>. QED
    BY <1>1, <2>1 DEF Waiting
<1>7. /\ Len(Append(queues[q], new)) = Len(queues[q]) + 1
      /\ \A i \in 1 .. Len(queues[q]) : Append(queues[q], new)[i] = queues[q][i]
      /\ Append(queues[q], new)[Len(queues[q]) + 1] = new
  BY <1>1
<1>. HIDE DEF new
<1>8. QueuedWait'
  <2>. SUFFICES ASSUME NEW p \in Queue, NEW i \in DOMAIN queues'[p]
       PROVE  /\ home'[queues'[p][i]] = p
              /\ status'[queues'[p][i]] \in Waiting
    BY DEF QueuedWait
  <2>1. CASE p = q /\ i = Len(queues[q]) + 1
    BY <1>1, <1>2, <1>7, <2>1 DEF Waiting
  <2>2. CASE ~(p = q /\ i = Len(queues[q]) + 1)
    <3>1. i \in 1 .. Len(queues[p]) /\ queues'[p][i] = queues[p][i]
      BY <1>2, <1>3, <1>6, <1>7, <2>2, SMTT(30)
    <3>2. queues[p][i] \in JobId /\ queues[p][i] # new
      BY <3>1, <1>6
    <3>3. home[queues[p][i]] = p /\ status[queues[p][i]] \in Waiting
      BY <3>1, <1>6 DEF QueuesSound, QueuedWait
    <3>. QED
      BY <1>2, <3>1, <3>2, <3>3
  <2>. QED
    BY <2>1, <2>2
<1>9. QueuedOnce'
  <2>. SUFFICES ASSUME NEW p \in Queue, NEW i \in DOMAIN queues'[p],
                       NEW h \in DOMAIN queues'[p], queues'[p][i] = queues'[p][h]
       PROVE  i = h
    BY DEF QueuedOnce, IsInjective
  <2>1. CASE p # q
    BY <1>2, <2>1 DEF QueuesSound, QueuedOnce, IsInjective
  <2>2. CASE p = q
    <3>1. /\ i \in 1 .. Len(queues[q]) + 1 /\ h \in 1 .. Len(queues[q]) + 1
          /\ Append(queues[q], new)[i] = Append(queues[q], new)[h]
      BY <1>2, <1>3, <1>7, <2>2
    <3>2. \A x, y \in 1 .. Len(queues[q]) : queues[q][x] = queues[q][y] => x = y
      <4>1. IsInjective(queues[q]) /\ DOMAIN queues[q] = 1 .. Len(queues[q])
        BY <1>6 DEF QueuesSound, QueuedOnce
      <4>. QED
        BY <4>1 DEF IsInjective
    <3>. QED
      BY <1>6, <1>7, <3>1, <3>2, SMTT(30)
  <2>. QED
    BY <2>1, <2>2
<1>10. WaitingQueued'
  <2>. SUFFICES ASSUME NEW j \in JobId, status'[j] \in Waiting
       PROVE  /\ home'[j] \in Queue
              /\ \E i \in DOMAIN queues'[home'[j]] : queues'[home'[j]][i] = j
    BY DEF WaitingQueued
  <2>1. CASE j = new
    <3>1. home'[j] = q /\ queues'[q] = Append(queues[q], new)
      BY <1>1, <1>2, <2>1
    <3>2. Len(queues[q]) + 1 \in DOMAIN Append(queues[q], new)
      BY <1>3, <1>6, <1>7
    <3>. QED
      BY <3>1, <3>2, <1>7, <2>1
  <2>2. CASE j # new
    <3>1. status[j] \in Waiting /\ home'[j] = home[j]
      BY <1>2, <2>2
    <3>2. PICK i \in DOMAIN queues[home[j]] : queues[home[j]][i] = j /\ home[j] \in Queue
      BY <3>1 DEF QueuesSound, WaitingQueued
    <3>3. i \in DOMAIN queues'[home[j]] /\ queues'[home[j]][i] = j
      <4>1. CASE home[j] = q
        <5>1. i \in 1 .. Len(queues[q]) /\ queues'[q] = Append(queues[q], new)
          BY <1>2, <1>6, <3>2, <4>1
        <5>. QED
          BY <1>3, <1>7, <3>2, <4>1, <5>1
      <4>2. CASE home[j] # q
        BY <1>2, <3>2, <4>2
      <4>. QED
        BY <4>1, <4>2
    <3>. QED
      BY <3>1, <3>2, <3>3
  <2>. QED
    BY <2>1, <2>2
<1>. QED
  BY <1>4, <1>5, <1>8, <1>9, <1>10 DEF QueuesSound

LEMMA PullSound ==
  ASSUME StoreInv, NEW q \in Queue, NEW i \in DOMAIN queues[q], StorePull(q, i)
  PROVE  StoreInv'
<1>. DEFINE j == queues[q][i]
            rest == RemoveAt(queues[q], i)
<1>. USE DEF StoreInv
<1>1. /\ queues[q] \in Seq(JobId) /\ i \in 1 .. Len(queues[q]) /\ j \in JobId
      /\ status[j] \in Waiting /\ home[j] = q
  BY QueueTypes DEF QueuesSound, QueuedWait
<1>2. /\ queues' = [queues EXCEPT ![q] = rest]
      /\ attempt' = [attempt EXCEPT ![j] = @ + 1]
      /\ status' = [status EXCEPT ![j] = "Running"]
      /\ UNCHANGED <<nextId, limit, home, due>>
  BY DEF StorePull
<1>3. /\ rest \in Seq(JobId) /\ Len(rest) = Len(queues[q]) - 1
      /\ \A k \in 1 .. Len(queues[q]) - 1 :
           rest[k] = IF k < i THEN queues[q][k] ELSE queues[q][k + 1]
  BY <1>1, Removed
<1>4. \A k \in 1 .. Len(queues[q]) : k # i =>
         \E h \in 1 .. Len(rest) : rest[h] = queues[q][k]
  BY <1>1, Kept
<1>5. \A p \in Queue : queues[p] \in Seq(JobId) /\ queues'[p] = IF p = q THEN rest ELSE queues[p]
  BY <1>2 DEF StoreTypeOK
<1>6. \A x, y \in 1 .. Len(queues[q]) : queues[q][x] = queues[q][y] => x = y
  BY <1>1 DEF QueuesSound, QueuedOnce, IsInjective
<1>7. \A k \in 1 .. Len(rest) :
         \E x \in 1 .. Len(queues[q]) : x # i /\ rest[k] = queues[q][x]
  <2>. SUFFICES ASSUME NEW k \in 1 .. Len(rest)
       PROVE  \E x \in 1 .. Len(queues[q]) : x # i /\ rest[k] = queues[q][x]
    OBVIOUS
  <2>1. CASE k < i
    BY <1>1, <1>3, <2>1
  <2>2. CASE ~(k < i)
    <3>1. k + 1 \in 1 .. Len(queues[q]) /\ k + 1 # i /\ rest[k] = queues[q][k + 1]
      BY <1>1, <1>3, <2>2
    <3>. QED
      BY <3>1
  <2>. QED
    BY <2>1, <2>2
<1>8. StoreTypeOK'
  BY <1>1, <1>2, <1>3, SMTT(30) DEF StoreTypeOK
<1>9. Given'
  BY <1>1, <1>2 DEF Given, StoreTypeOK, Waiting
<1>10. QueuedWait'
  <2>. SUFFICES ASSUME NEW p \in Queue, NEW k \in DOMAIN queues'[p]
       PROVE  home'[queues'[p][k]] = p /\ status'[queues'[p][k]] \in Waiting
    BY DEF QueuedWait
  <2>1. \E x \in DOMAIN queues[p] : queues'[p][k] = queues[p][x] /\ queues[p][x] # j
    <3>. HIDE DEF rest
    <3>1. CASE p = q
      <4>1. k \in 1 .. Len(rest) /\ queues'[p] = rest
        BY <1>3, <1>5, <3>1
      <4>2. PICK x \in 1 .. Len(queues[q]) : x # i /\ rest[k] = queues[q][x]
        BY <1>7, <4>1
      <4>. QED
        BY <1>1, <1>6, <3>1, <4>1, <4>2
    <3>2. CASE p # q
      <4>1. k \in DOMAIN queues[p] /\ queues'[p] = queues[p]
        BY <1>5, <3>2
      <4>2. home[queues[p][k]] = p
        BY <4>1 DEF QueuesSound, QueuedWait
      <4>. QED
        BY <1>1, <3>2, <4>1, <4>2
    <3>. QED
      BY <3>1, <3>2
  <2>2. PICK x \in DOMAIN queues[p] : queues'[p][k] = queues[p][x] /\ queues[p][x] # j
    BY <2>1
  <2>3. queues[p][x] \in JobId /\ home[queues[p][x]] = p /\ status[queues[p][x]] \in Waiting
    BY QueueTypes DEF QueuesSound, QueuedWait
  <2>. HIDE DEF j
  <2>. QED
    BY <1>2, <2>2, <2>3 DEF StoreTypeOK
<1>11. QueuedOnce'
  <2>. SUFFICES ASSUME NEW p \in Queue, NEW k \in DOMAIN queues'[p],
                       NEW h \in DOMAIN queues'[p], queues'[p][k] = queues'[p][h]
       PROVE  k = h
    BY DEF QueuedOnce, IsInjective
  <2>1. CASE p # q
    BY <1>5, <2>1 DEF QueuesSound, QueuedOnce, IsInjective
  <2>2. CASE p = q
    <3>. HIDE DEF rest
    <3>1. k \in 1 .. Len(rest) /\ h \in 1 .. Len(rest) /\ rest[k] = rest[h]
      BY <1>3, <1>5, <2>2
    <3>. DEFINE at(n) == IF n < i THEN n ELSE n + 1
    <3>2. ASSUME NEW n \in 1 .. Len(rest)
          PROVE  at(n) \in 1 .. Len(queues[q]) /\ rest[n] = queues[q][at(n)]
      <4>1. n \in 1 .. Len(queues[q]) - 1
        BY <1>1, <1>3
      <4>2. CASE n < i
        BY <1>1, <1>3, <4>1, <4>2
      <4>3. CASE ~(n < i)
        BY <1>1, <1>3, <4>1, <4>3
      <4>. QED
        BY <4>2, <4>3
    <3>3. at(k) = at(h)
      <4>. HIDE DEF at
      <4>. QED
        BY <1>6, <3>1, <3>2
    <3>. QED
      BY <1>1, <1>3, <3>1, <3>3
  <2>. QED
    BY <2>1, <2>2
<1>12. WaitingQueued'
  <2>. SUFFICES ASSUME NEW b \in JobId, status'[b] \in Waiting
       PROVE  /\ home'[b] \in Queue
              /\ \E k \in DOMAIN queues'[home'[b]] : queues'[home'[b]][k] = b
    BY DEF WaitingQueued
  <2>1. b # j /\ status[b] \in Waiting /\ home'[b] = home[b]
    BY <1>1, <1>2 DEF StoreTypeOK, Waiting
  <2>2. PICK k \in DOMAIN queues[home[b]] : queues[home[b]][k] = b /\ home[b] \in Queue
    BY <2>1 DEF QueuesSound, WaitingQueued
  <2>. HIDE DEF rest
  <2>3. CASE home[b] = q
    <3>1. k \in 1 .. Len(queues[q]) /\ k # i
      BY <1>1, <2>1, <2>2, <2>3
    <3>2. PICK h \in 1 .. Len(rest) : rest[h] = queues[q][k]
      BY <1>4, <3>1
    <3>3. h \in DOMAIN rest
      BY <1>3
    <3>. QED
      BY <1>5, <2>1, <2>2, <2>3, <3>2, <3>3
  <2>4. CASE home[b] # q
    BY <1>5, <2>1, <2>2, <2>4
  <2>. QED
    BY <2>3, <2>4
<1>. QED
  BY <1>8, <1>9, <1>10, <1>11, <1>12 DEF QueuesSound

LEMMA RetrySound ==
  ASSUME StoreInv, NEW j \in JobId, status[j] = "Running", StoreMarkRetrying(j)
  PROVE  StoreInv'
<1>. USE DEF StoreInv
<1>. DEFINE q == home[j]
            more == Append(queues[q], j)
<1>1. q \in Queue /\ queues[q] \in Seq(JobId)
  BY QueueTypes DEF Given
<1>2. /\ status' = [status EXCEPT ![j] = "Retrying"]
      /\ due' = [due EXCEPT ![j] = FALSE]
      /\ queues' = [queues EXCEPT ![q] = more]
      /\ UNCHANGED <<nextId, attempt, limit, home>>
  BY DEF StoreMarkRetrying
<1>3. /\ more \in Seq(JobId) /\ Len(more) = Len(queues[q]) + 1
      /\ \A i \in 1 .. Len(queues[q]) : more[i] = queues[q][i]
      /\ more[Len(queues[q]) + 1] = j
  BY <1>1
<1>4. \A p \in Queue : /\ queues[p] \in Seq(JobId)
                       /\ queues'[p] = IF p = q THEN more ELSE queues[p]
                       /\ \A i \in 1 .. Len(queues[p]) : queues[p][i] # j
  <2>. SUFFICES ASSUME NEW p \in Queue
       PROVE  /\ queues[p] \in Seq(JobId)
              /\ queues'[p] = IF p = q THEN more ELSE queues[p]
              /\ \A i \in 1 .. Len(queues[p]) : queues[p][i] # j
    OBVIOUS
  <2>. HIDE DEF more, q
  <2>1. queues'[p] = IF p = q THEN more ELSE queues[p]
    BY <1>2 DEF StoreTypeOK
  <2>2. ASSUME NEW i \in 1 .. Len(queues[p]) PROVE queues[p][i] # j
    <3>1. status[queues[p][i]] \in Waiting
      BY QueueTypes DEF QueuesSound, QueuedWait
    <3>. QED
      BY <3>1 DEF Waiting
  <2>. QED
    BY <2>1, <2>2, QueueTypes
<1>. HIDE DEF more, q
<1>5. StoreTypeOK'
  BY <1>1, <1>2, <1>3 DEF StoreTypeOK, Waiting
<1>6. Given'
  BY <1>2 DEF Given, StoreTypeOK
<1>7. QueuedWait'
  <2>. SUFFICES ASSUME NEW p \in Queue, NEW i \in DOMAIN queues'[p]
       PROVE  home'[queues'[p][i]] = p /\ status'[queues'[p][i]] \in Waiting
    BY DEF QueuedWait
  <2>1. CASE p = q /\ i = Len(queues[q]) + 1
    BY <1>1, <1>2, <1>3, <1>4, <2>1 DEF StoreTypeOK, Waiting, q
  <2>2. CASE ~(p = q /\ i = Len(queues[q]) + 1)
    <3>1. i \in 1 .. Len(queues[p]) /\ queues'[p][i] = queues[p][i]
      BY <1>1, <1>3, <1>4, <2>2
    <3>2. /\ queues[p][i] \in JobId /\ queues[p][i] # j
          /\ home[queues[p][i]] = p /\ status[queues[p][i]] \in Waiting
      BY <3>1, <1>4, QueueTypes DEF QueuesSound, QueuedWait
    <3>. QED
      BY <1>2, <3>1, <3>2 DEF StoreTypeOK
  <2>. QED
    BY <2>1, <2>2
<1>8. QueuedOnce'
  <2>. SUFFICES ASSUME NEW p \in Queue, NEW i \in DOMAIN queues'[p],
                       NEW h \in DOMAIN queues'[p], queues'[p][i] = queues'[p][h]
       PROVE  i = h
    BY DEF QueuedOnce, IsInjective
  <2>1. CASE p # q
    BY <1>4, <2>1 DEF QueuesSound, QueuedOnce, IsInjective
  <2>2. CASE p = q
    <3>1. /\ i \in 1 .. Len(queues[q]) + 1 /\ h \in 1 .. Len(queues[q]) + 1
          /\ more[i] = more[h]
      BY <1>1, <1>3, <1>4, <2>2
    <3>2. \A x, y \in 1 .. Len(queues[q]) : queues[q][x] = queues[q][y] => x = y
      BY <1>1, <1>4 DEF QueuesSound, QueuedOnce, IsInjective
    <3>3. \A x \in 1 .. Len(queues[q]) : more[x] = queues[q][x] /\ more[x] # j
      BY <1>1, <1>3, <1>4
    <3>4. Len(queues[q]) \in Nat /\ more[Len(queues[q]) + 1] = j
      BY <1>1, <1>3
    <3>. QED
      BY <3>1, <3>2, <3>3, <3>4, SMTT(30)
  <2>. QED
    BY <2>1, <2>2
<1>9. WaitingQueued'
  <2>. SUFFICES ASSUME NEW b \in JobId, status'[b] \in Waiting
       PROVE  /\ home'[b] \in Queue
              /\ \E i \in DOMAIN queues'[home'[b]] : queues'[home'[b]][i] = b
    BY DEF WaitingQueued
  <2>1. CASE b = j
    <3>1. home'[b] = q /\ queues'[q] = more /\ Len(queues[q]) + 1 \in DOMAIN more
      BY <1>1, <1>2, <1>3, <1>4, <2>1 DEF q
    <3>. QED
      BY <1>1, <1>3, <2>1, <3>1
  <2>2. CASE b # j
    <3>1. status[b] \in Waiting /\ home'[b] = home[b]
      BY <1>2, <2>2 DEF StoreTypeOK
    <3>2. PICK i \in DOMAIN queues[home[b]] : queues[home[b]][i] = b /\ home[b] \in Queue
      BY <3>1 DEF QueuesSound, WaitingQueued
    <3>3. i \in 1 .. Len(queues[home[b]])
      BY <3>2, QueueTypes
    <3>4. i \in DOMAIN queues'[home[b]] /\ queues'[home[b]][i] = b
      BY <1>1, <1>3, <1>4, <3>2, <3>3
    <3>. QED
      BY <3>1, <3>2, <3>4
  <2>. QED
    BY <2>1, <2>2
<1>. QED
  BY <1>5, <1>6, <1>7, <1>8, <1>9 DEF QueuesSound

LEMMA SettleSound ==
  ASSUME StoreInv, NEW j \in JobId, status[j] = "Running",
         StoreMarkCompleted(j) \/ StoreMarkDead(j)
  PROVE  StoreInv'
<1>. USE DEF StoreInv
<1>1. PICK outcome \in Terminal : status' = [status EXCEPT ![j] = outcome]
  BY DEF StoreMarkCompleted, StoreMarkDead, Terminal
<1>2. UNCHANGED <<nextId, queues, attempt, limit, home, due>>
  BY DEF StoreMarkCompleted, StoreMarkDead
<1>3. StoreTypeOK'
  BY <1>1, <1>2 DEF StoreTypeOK
<1>4. Given'
  BY <1>1, <1>2 DEF Given, StoreTypeOK, Terminal
<1>5. \A b \in JobId : status[b] \in Waiting <=> status'[b] \in Waiting
  BY <1>1 DEF StoreTypeOK, Waiting, Terminal
<1>. QED
  BY <1>2, <1>3, <1>4, <1>5, QueueTypes, SameQueues

LEMMA DueSound ==
  ASSUME StoreInv, NEW j \in JobId, BecomeDue(j)
  PROVE  StoreInv'
<1>. USE DEF StoreInv, BecomeDue
<1>1. StoreTypeOK' /\ Given'
  BY DEF StoreTypeOK, Given
<1>. QED
  BY <1>1, SameQueues

-----------------------------------------------------------------------------
(* The workers.                                                            *)

(* A worker holds a record exactly while it works on it. *)
AtWork == \A w \in Worker :
  held[w] # NoJob <=> worker[w] \in {"pulled", "running", "marking"}

EventOf(outcome) ==
  CASE outcome = "Completed" -> "JobCompleted"
    [] outcome = "Dead" -> "JobDead"
    [] outcome = "Retrying" -> "JobRetrying"

(* What a worker is about to tell the store it has published, and is an    *)
(* outcome its job may have.                                               *)
Judged == \A w \in Worker :
  worker[w] = "marking" =>
    /\ verdict[w] \in Outcomes
    /\ last[held[w]] = [type |-> EventOf(verdict[w]), attempt |-> taken[w]]
    /\ verdict[w] = "Retrying" => taken[w] < limit[held[w]]

(* A job that waits has an attempt left. *)
AttemptsLeft == \A j \in JobId :
  /\ status[j] \in {"absent", "Pending"} => attempt[j] = 0
  /\ status[j] = "Retrying" => attempt[j] < limit[j]

(* The store records what was published. *)
Recorded == \A j \in JobId :
  status[j] \in Outcomes => last[j] = [type |-> EventOf(status[j]), attempt |-> attempt[j]]

Core == HolderUnique /\ AtWork /\ Judged /\ AttemptsLeft /\ Recorded

IInv == TypeOK /\ StoreInv /\ Core

LEMMA RecordedPublished == TypeOK /\ Recorded => OutcomePublished
BY DEF Recorded, OutcomePublished, EventOf, Outcomes

LEMMA Initially == Init => IInv
<1>. SUFFICES ASSUME Init PROVE IInv
  OBVIOUS
<1>1. StoreInv
  BY StoreInitially DEF Init
<1>2. TypeOK
  BY <1>1, Constants DEF Init, TypeOK, JobEvent, StoreInv
<1>3. Core
  BY Constants DEF Init, StoreInit, Core, HolderUnique, AtWork, Judged, AttemptsLeft,
     Recorded, Outcomes
<1>. QED
  BY <1>1, <1>2, <1>3 DEF IInv

(* Whoever works on a job has it for itself. *)
LEMMA Holding ==
  ASSUME IInv, NEW w \in Worker, worker[w] \in {"pulled", "running", "marking"}
  PROVE  /\ held[w] \in JobId /\ status[held[w]] = "Running"
         /\ taken[w] = attempt[held[w]]
         /\ \A x \in Worker \ {w} : held[x] # held[w]
<1>1. held[w] # NoJob
  BY DEF IInv, Core, AtWork
<1>2. held[w] \in JobId
  BY <1>1 DEF IInv, TypeOK
<1>. QED
  BY <1>1, <1>2 DEF IInv, Core, HolderUnique

(* What each step does to the store. *)
LEMMA StoreStep ==
  ASSUME IInv, [Next]_vars
  PROVE  StoreInv'
<1>. USE DEF IInv, Core
<1>1. CASE Enqueue
  BY <1>1, EnqueueSound DEF Enqueue
<1>2. ASSUME NEW w \in Worker, Pull(w) PROVE StoreInv'
  <2>1. PICK k \in DOMAIN Listed :
          \E i \in DOMAIN queues[Listed[k]] : StorePull(Listed[k], i)
    BY <1>2 DEF Pull
  <2>. QED
    BY <2>1, PullSound, Constants
<1>3. ASSUME NEW w \in Worker, Mark(w) PROVE StoreInv'
  <2>1. held[w] \in JobId /\ status[held[w]] = "Running" /\ verdict[w] \in Outcomes
    <3>1. worker[w] = "marking"
      BY <1>3 DEF Mark
    <3>. QED
      BY <3>1, Holding DEF Judged
  <2>2. \/ StoreMarkCompleted(held[w]) \/ StoreMarkDead(held[w])
        \/ StoreMarkRetrying(held[w])
    BY <1>3, <2>1 DEF Mark, Outcomes
  <2>. QED
    BY <2>1, <2>2, RetrySound, SettleSound
<1>4. CASE Tick
  BY <1>4, DueSound DEF Tick
<1>5. CASE UNCHANGED storeVars
  BY <1>5 DEF storeVars, StoreInv, StoreTypeOK, QueuesSound, QueuedWait, QueuedOnce,
     WaitingQueued, Given
<1>6. \/ Enqueue \/ Tick \/ UNCHANGED storeVars
      \/ \E w \in Worker : Pull(w) \/ Mark(w)
  BY DEF Next, Work, Run, vars, Shutdown, PublishEnqueued, LoopTop, PullNothing,
     DropPulled, WakeUp, SleepShutdown, DispatchUnknown, Dispatch, Respawn, RunOk,
     RunErr, RunPanic, Abort
<1>. QED
  BY <1>1, <1>2, <1>3, <1>4, <1>5, <1>6

LEMMA EventType ==
  ASSUME TypeOK, NEW w \in Worker, NEW type \in {"JobStarted", "JobCompleted", "JobRetrying", "JobDead"},
         Publish(w, type), held[w] \in JobId
  PROVE  last' \in [JobId -> JobEvent]
BY DEF TypeOK, Publish, JobEvent

LEMMA TypeStep ==
  ASSUME IInv, [Next]_vars
  PROVE  TypeOK'
<1>1. StoreTypeOK'
  BY StoreStep DEF StoreInv
<1>2. TypeOK /\ \A w \in Worker :
        worker[w] \in {"pulled", "running", "marking"} => held[w] \in JobId
  BY Holding DEF IInv
<1>. USE <1>1, <1>2 DEF TypeOK, Goto, Drop, kernelVars, workerVars
<1>3. CASE Enqueue \/ Tick \/ Shutdown \/ UNCHANGED vars
  BY <1>3 DEF Enqueue, Tick, Shutdown, vars
<1>4. ASSUME NEW j \in JobId, PublishEnqueued(j) PROVE TypeOK'
  BY <1>4 DEF PublishEnqueued
<1>5. ASSUME NEW w \in Worker,
             \/ LoopTop(w) \/ PullNothing(w) \/ DropPulled(w) \/ WakeUp(w)
             \/ SleepShutdown(w) \/ Respawn(w) \/ Abort(w)
      PROVE  TypeOK'
  BY <1>5 DEF LoopTop, PullNothing, DropPulled, WakeUp, SleepShutdown, Respawn, Abort
<1>6. ASSUME NEW w \in Worker, Pull(w) PROVE TypeOK'
  <2>1. PICK k \in DOMAIN Listed :
          \E i \in DOMAIN queues[Listed[k]] :
            /\ held' = [held EXCEPT ![w] = queues[Listed[k]][i]]
            /\ taken' = [taken EXCEPT ![w] = attempt'[queues[Listed[k]][i]]]
    BY <1>6 DEF Pull
  <2>2. PICK i \in DOMAIN queues[Listed[k]] :
            /\ held' = [held EXCEPT ![w] = queues[Listed[k]][i]]
            /\ taken' = [taken EXCEPT ![w] = attempt'[queues[Listed[k]][i]]]
    BY <2>1
  <2>3. queues[Listed[k]][i] \in JobId
    BY Constants, QueueTypes
  <2>4. attempt'[queues[Listed[k]][i]] \in Nat
    BY <2>3 DEF StoreTypeOK
  <2>. QED
    BY <1>6, <2>2, <2>3, <2>4 DEF Pull
<1>7. ASSUME NEW w \in Worker, DispatchUnknown(w) \/ Dispatch(w) \/ RunOk(w) \/ RunErr(w)
      PROVE  TypeOK'
  <2>1. last' \in [JobId -> JobEvent]
    BY <1>7, EventType DEF DispatchUnknown, Dispatch, RunOk, RunErr
  <2>. QED
    BY <1>7, <2>1 DEF DispatchUnknown, Dispatch, RunOk, RunErr
<1>8. ASSUME NEW w \in Worker, Mark(w) PROVE TypeOK'
  BY <1>8 DEF Mark
<1>9. ASSUME NEW w \in Worker, RunPanic(w) PROVE TypeOK'
  BY <1>9 DEF RunPanic
<1>. QED
  BY <1>3, <1>4, <1>5, <1>6, <1>7, <1>8, <1>9 DEF Next, Work, Run

(* A step that leaves the other workers and the jobs in their hands alone. *)
LEMMA HolderFrame ==
  ASSUME HolderUnique, NEW w \in Worker,
         \A x \in Worker \ {w} :
           held[x] # NoJob =>
             /\ held'[x] = held[x] /\ taken'[x] = taken[x]
             /\ status'[held[x]] = status[held[x]] /\ attempt'[held[x]] = attempt[held[x]],
         \A x \in Worker \ {w} : held[x] = NoJob => held'[x] = NoJob,
         held'[w] # NoJob =>
           /\ status'[held'[w]] = "Running"
           /\ taken'[w] = attempt'[held'[w]]
           /\ \A x \in Worker \ {w} : held[x] # held'[w]
  PROVE  HolderUnique'
BY DEF HolderUnique

LEMMA JudgedFrame ==
  ASSUME Judged, NEW w \in Worker,
         \A x \in Worker \ {w} : worker'[x] = "marking" =>
           /\ worker[x] = "marking" /\ verdict'[x] = verdict[x]
           /\ held'[x] = held[x] /\ taken'[x] = taken[x]
           /\ last'[held[x]] = last[held[x]] /\ limit'[held[x]] = limit[held[x]],
         worker'[w] = "marking" =>
           /\ verdict'[w] \in Outcomes
           /\ last'[held'[w]] = [type |-> EventOf(verdict'[w]), attempt |-> taken'[w]]
           /\ verdict'[w] = "Retrying" => taken'[w] < limit'[held'[w]]
  PROVE  Judged'
BY DEF Judged

(* A job whose worker publishes about it is in no other hands. *)
LEMMA PublishFrame ==
  ASSUME IInv, NEW w \in Worker, NEW type, worker[w] \in {"pulled", "running"},
         Publish(w, type), UNCHANGED <<status, attempt, limit, held, taken>>
  PROVE  /\ HolderUnique' /\ AttemptsLeft' /\ Recorded'
         /\ last'[held[w]] = [type |-> type, attempt |-> taken[w]]
         /\ \A x \in Worker \ {w} :
              worker[x] = "marking" => last'[held[x]] = last[held[x]]
<1>1. /\ held[w] \in JobId /\ status[held[w]] = "Running"
      /\ \A x \in Worker \ {w} : held[x] # held[w]
  BY Holding
<1>2. /\ last'[held[w]] = [type |-> type, attempt |-> taken[w]]
      /\ \A j \in JobId : j # held[w] => last'[j] = last[j]
  BY <1>1 DEF IInv, TypeOK, Publish
<1>3. HolderUnique' /\ AttemptsLeft'
  BY DEF IInv, Core, HolderUnique, AttemptsLeft
<1>4. Recorded'
  BY <1>1, <1>2 DEF IInv, Core, Recorded, Outcomes
<1>5. ASSUME NEW x \in Worker \ {w}, worker[x] = "marking"
      PROVE  last'[held[x]] = last[held[x]]
  <2>1. held[x] \in JobId
    BY <1>5, Holding
  <2>. QED
    BY <1>1, <1>2, <2>1
<1>. QED
  BY <1>2, <1>3, <1>4, <1>5

LEMMA CoreStep ==
  ASSUME IInv, [Next]_vars
  PROVE  Core'
<1>1. TypeOK /\ TypeOK' /\ StoreTypeOK /\ StoreTypeOK'
  BY TypeStep DEF IInv, TypeOK
<1>2. HolderUnique /\ AtWork /\ Judged /\ AttemptsLeft /\ Recorded
  BY DEF IInv, Core
<1>3. \A w \in Worker : worker[w] \in {"pulled", "running", "marking"} =>
        /\ held[w] \in JobId /\ status[held[w]] = "Running"
        /\ taken[w] = attempt[held[w]]
        /\ \A x \in Worker \ {w} : held[x] # held[w]
  BY Holding
<1>4. CASE UNCHANGED <<status, attempt, limit, worker, held, taken, verdict, last>>
  BY <1>2, <1>4 DEF Core, HolderUnique, AtWork, Judged, AttemptsLeft, Recorded
<1>5. CASE Enqueue
  <2>1. PICK j \in JobId :
          /\ status[j] = "absent"
          /\ status' = [status EXCEPT ![j] = "Pending"]
          /\ \E m \in Limit : limit' = [limit EXCEPT ![j] = m]
    <3>1. nextId + 1 \in JobId /\ status[nextId + 1] = "absent"
      BY <1>1, <1>5, Constants DEF Enqueue, StoreEnqueue, IInv, StoreInv, Given, JobId, StoreTypeOK
    <3>. QED
      BY <1>5, <3>1 DEF Enqueue, StoreEnqueue
  <2>2. UNCHANGED <<attempt, worker, held, taken, verdict, last>>
    BY <1>5 DEF Enqueue, StoreEnqueue, workerVars
  <2>3. \A w \in Worker : held[w] # j
    BY <1>2, <2>1, Constants DEF HolderUnique
  <2>4. HolderUnique' /\ AtWork'
    BY <1>1, <1>2, <2>1, <2>2, <2>3 DEF HolderUnique, AtWork, StoreTypeOK, TypeOK
  <2>5. Judged'
    BY <1>1, <1>2, <1>3, <2>1, <2>2, <2>3 DEF Judged, StoreTypeOK
  <2>6. AttemptsLeft' /\ Recorded'
    BY <1>1, <1>2, <2>1, <2>2 DEF AttemptsLeft, Recorded, StoreTypeOK, Outcomes
  <2>. QED
    BY <2>4, <2>5, <2>6 DEF Core
<1>6. ASSUME NEW w \in Worker, Pull(w) PROVE Core'
  <2>1. PICK j \in JobId :
          /\ status[j] \in Waiting
          /\ status' = [status EXCEPT ![j] = "Running"]
          /\ attempt' = [attempt EXCEPT ![j] = @ + 1]
          /\ held' = [held EXCEPT ![w] = j]
          /\ taken' = [taken EXCEPT ![w] = attempt'[j]]
    <3>1. PICK k \in DOMAIN Listed : \E i \in DOMAIN queues[Listed[k]] :
            /\ StorePull(Listed[k], i)
            /\ held' = [held EXCEPT ![w] = queues[Listed[k]][i]]
            /\ taken' = [taken EXCEPT ![w] = attempt'[queues[Listed[k]][i]]]
      BY <1>6 DEF Pull
    <3>2. PICK i \in DOMAIN queues[Listed[k]] :
            /\ StorePull(Listed[k], i)
            /\ held' = [held EXCEPT ![w] = queues[Listed[k]][i]]
            /\ taken' = [taken EXCEPT ![w] = attempt'[queues[Listed[k]][i]]]
      BY <3>1
    <3>3. queues[Listed[k]][i] \in JobId /\ status[queues[Listed[k]][i]] \in Waiting
      BY <1>1, Constants, QueueTypes DEF IInv, StoreInv, QueuesSound, QueuedWait
    <3>. QED
      BY <3>2, <3>3 DEF StorePull
  <2>2. /\ worker[w] = "pulling" /\ worker' = [worker EXCEPT ![w] = "pulled"]
        /\ UNCHANGED <<limit, verdict, last>>
    BY <1>6 DEF Pull, StorePull, Goto
  <2>3. held[w] = NoJob /\ \A x \in Worker : held[x] # j
    <3>1. held[w] = NoJob
      BY <1>2, <2>2 DEF AtWork
    <3>. QED
      BY <1>2, <2>1, <3>1, Constants DEF HolderUnique, Waiting
  <2>4. HolderUnique'
    BY <1>1, <1>2, <2>1, <2>3, HolderFrame, ZenonT(60) DEF TypeOK, StoreTypeOK
  <2>5. AtWork'
    BY <1>1, <1>2, <2>1, <2>2, Constants DEF AtWork, TypeOK
  <2>6. Judged'
    BY <1>1, <1>2, <2>1, <2>2, <2>3, JudgedFrame DEF TypeOK
  <2>7. AttemptsLeft' /\ Recorded'
    BY <1>1, <1>2, <2>1, <2>2 DEF AttemptsLeft, Recorded, StoreTypeOK, Outcomes
  <2>. QED
    BY <2>4, <2>5, <2>6, <2>7 DEF Core
<1>7. ASSUME NEW w \in Worker,
             LoopTop(w) \/ PullNothing(w) \/ WakeUp(w) \/ SleepShutdown(w) \/ Respawn(w)
      PROVE  Core'
  <2>1. /\ UNCHANGED <<status, attempt, limit, held, taken, verdict, last>>
        /\ worker[w] \in {"top", "pulling", "sleeping", "crashed"}
        /\ \E place \in {"top", "pulling", "sleeping", "stopped"} :
             worker' = [worker EXCEPT ![w] = place]
    BY <1>7 DEF LoopTop, PullNothing, WakeUp, SleepShutdown, Respawn, Goto, storeVars
  <2>2. HolderUnique' /\ AttemptsLeft' /\ Recorded'
    BY <1>2, <2>1 DEF HolderUnique, AttemptsLeft, Recorded
  <2>3. AtWork' /\ Judged'
    BY <1>1, <1>2, <2>1 DEF AtWork, Judged, TypeOK
  <2>. QED
    BY <2>2, <2>3 DEF Core
<1>8. ASSUME NEW w \in Worker, DropPulled(w) \/ RunPanic(w) \/ Abort(w)
      PROVE  Core'
  <2>1. /\ UNCHANGED <<status, attempt, limit, verdict, last>>
        /\ held' = [held EXCEPT ![w] = NoJob]
        /\ taken' = [taken EXCEPT ![w] = 0]
        /\ \E place \in {"stopped", "crashed"} : worker' = [worker EXCEPT ![w] = place]
    BY <1>8 DEF DropPulled, RunPanic, Abort, Goto, Drop, storeVars
  <2>2. HolderUnique'
    BY <1>1, <1>2, <2>1, HolderFrame DEF TypeOK
  <2>3. AttemptsLeft' /\ Recorded'
    BY <1>2, <2>1 DEF AttemptsLeft, Recorded
  <2>4. AtWork'
    BY <1>1, <1>2, <2>1 DEF AtWork, TypeOK
  <2>5. Judged'
    BY <1>1, <1>2, <2>1, JudgedFrame DEF TypeOK
  <2>. QED
    BY <2>2, <2>3, <2>4, <2>5 DEF Core
<1>9. ASSUME NEW w \in Worker, Dispatch(w) PROVE Core'
  <2>1. /\ worker[w] = "pulled" /\ worker' = [worker EXCEPT ![w] = "running"]
        /\ Publish(w, "JobStarted")
        /\ UNCHANGED <<status, attempt, limit, held, taken, verdict>>
    BY <1>9 DEF Dispatch, Goto, storeVars
  <2>. QED
    <3>1. /\ HolderUnique' /\ AttemptsLeft' /\ Recorded'
          /\ \A x \in Worker \ {w} : worker[x] = "marking" => last'[held[x]] = last[held[x]]
      <4>1. worker[w] \in {"pulled", "running"}
        BY <2>1
      <4>2. UNCHANGED <<status, attempt, limit, held, taken>>
        BY <2>1
      <4>3. Publish(w, "JobStarted")
        BY <2>1
      <4>4. /\ HolderUnique' /\ AttemptsLeft' /\ Recorded'
            /\ last'[held[w]] = [type |-> "JobStarted", attempt |-> taken[w]]
            /\ \A x \in Worker \ {w} :
                 worker[x] = "marking" => last'[held[x]] = last[held[x]]
        BY <4>1, <4>2, <4>3, PublishFrame
      <4>. QED
        BY <4>4
    <3>2. worker'[w] = "running" /\ \A x \in Worker \ {w} : worker'[x] = worker[x]
      BY <1>1, <2>1 DEF TypeOK
    <3>3. held' = held
      BY <2>1
    <3>4. worker[w] = "pulled"
      BY <2>1
    <3>5. AtWork'
      BY <1>2, <3>2, <3>3, <3>4 DEF AtWork
    <3>6. Judged'
      BY <1>1, <1>2, <2>1, <3>1, <3>2, JudgedFrame, ZenonT(60) DEF TypeOK
    <3>. QED
      BY <3>1, <3>5, <3>6 DEF Core
<1>10. ASSUME NEW w \in Worker, DispatchUnknown(w) \/ RunOk(w) \/ RunErr(w)
       PROVE  Core'
  <2>1. /\ worker[w] \in {"pulled", "running"}
        /\ worker' = [worker EXCEPT ![w] = "marking"]
        /\ UNCHANGED <<status, attempt, limit, held, taken>>
    BY <1>10 DEF DispatchUnknown, RunOk, RunErr, Goto, storeVars
  <2>2. PICK v \in Outcomes :
          /\ Publish(w, EventOf(v))
          /\ verdict' = [verdict EXCEPT ![w] = v]
          /\ v = "Retrying" => ~(taken[w] >= limit[held[w]])
    BY <1>10 DEF DispatchUnknown, RunOk, RunErr, EventOf, Outcomes
  <2>. QED
    <3>1. /\ HolderUnique' /\ AttemptsLeft' /\ Recorded'
          /\ last'[held[w]] = [type |-> EventOf(v), attempt |-> taken[w]]
          /\ \A x \in Worker \ {w} : worker[x] = "marking" => last'[held[x]] = last[held[x]]
      BY <2>1, <2>2, PublishFrame
    <3>2. AtWork'
      BY <1>1, <1>2, <2>1 DEF AtWork, TypeOK
    <3>3. taken[w] \in Nat /\ limit[held[w]] \in Nat
      BY <1>1, <1>3, <2>1 DEF TypeOK, StoreTypeOK
    <3>4. verdict'[w] = v /\ \A x \in Worker \ {w} : verdict'[x] = verdict[x]
      BY <1>1, <2>2 DEF TypeOK
    <3>5. \A x \in Worker \ {w} : worker'[x] = worker[x]
      BY <1>1, <2>1 DEF TypeOK
    <3>6. v = "Retrying" => taken[w] < limit[held[w]]
      BY <2>2, <3>3
    <3>7. Judged'
      BY <1>2, <2>1, <3>1, <3>4, <3>5, <3>6, JudgedFrame
    <3>. QED
      BY <3>1, <3>2, <3>7 DEF Core
<1>11. ASSUME NEW w \in Worker, Mark(w) PROVE Core'
  <2>1. /\ worker[w] = "marking" /\ worker' = [worker EXCEPT ![w] = "top"]
        /\ held' = [held EXCEPT ![w] = NoJob] /\ taken' = [taken EXCEPT ![w] = 0]
        /\ verdict' = [verdict EXCEPT ![w] = "none"]
        /\ last' = last
    BY <1>11 DEF Mark, Goto, Drop
  <2>2. /\ verdict[w] \in Outcomes
        /\ last[held[w]] = [type |-> EventOf(verdict[w]), attempt |-> taken[w]]
        /\ verdict[w] = "Retrying" => taken[w] < limit[held[w]]
    BY <1>2, <2>1 DEF Judged
  <2>3. /\ status' = [status EXCEPT ![held[w]] = verdict[w]]
        /\ UNCHANGED <<attempt, limit>>
    BY <1>11, <2>2 DEF Mark, Outcomes, StoreMarkCompleted, StoreMarkDead, StoreMarkRetrying
  <2>4. /\ held[w] \in JobId /\ taken[w] = attempt[held[w]]
        /\ \A x \in Worker \ {w} : held[x] # held[w]
    BY <1>3, <2>1
  <2>5. \A x \in Worker \ {w} : /\ held'[x] = held[x] /\ taken'[x] = taken[x]
                                /\ worker'[x] = worker[x] /\ verdict'[x] = verdict[x]
    BY <1>1, <2>1 DEF TypeOK
  <2>6. /\ status'[held[w]] = verdict[w]
        /\ \A j \in JobId : j # held[w] => status'[j] = status[j]
    BY <1>1, <2>3, <2>4 DEF StoreTypeOK
  <2>7. held'[w] = NoJob /\ worker'[w] = "top"
    BY <1>1, <2>1 DEF TypeOK
  <2>8. HolderUnique'
    <3>1. \A x \in Worker \ {w} : held[x] # NoJob => held[x] \in JobId
      BY <1>1 DEF TypeOK
    <3>. QED
      BY <1>2, <2>3, <2>4, <2>5, <2>6, <2>7, <3>1, HolderFrame
  <2>9. AtWork'
    BY <1>2, <2>5, <2>7 DEF AtWork
  <2>10. Judged'
    BY <1>2, <2>1, <2>3, <2>5, <2>7, JudgedFrame
  <2>11. AttemptsLeft' /\ Recorded'
    BY <1>2, <2>1, <2>2, <2>3, <2>4, <2>6 DEF AttemptsLeft, Recorded, Outcomes
  <2>. QED
    BY <2>8, <2>9, <2>10, <2>11 DEF Core
<1>12. \/ UNCHANGED <<status, attempt, limit, worker, held, taken, verdict, last>>
       \/ Enqueue \/ \E w \in Worker : Work(w) \/ Run(w) \/ Abort(w)
  BY DEF Next, vars, storeVars, workerVars, Shutdown, Tick, BecomeDue, PublishEnqueued
<1>. QED
  BY <1>4, <1>5, <1>6, <1>7, <1>8, <1>9, <1>10, <1>11, <1>12 DEF Work, Run

(* The invariant that the theorems are read off. *)
LEMMA Invariance == Spec => []IInv
<1>1. IInv /\ [Next]_vars => IInv'
  BY TypeStep, StoreStep, CoreStep DEF IInv
<1>. QED
  BY Initially, <1>1, PTL DEF Spec

-----------------------------------------------------------------------------
(* The queues and the records agree after every step: the queues hold the  *)
(* waiting jobs, each once, in its own queue (pull_next, mark_failed).     *)
THEOREM StoreSound == Spec => []Sound
<1>1. IInv => Sound
  BY DEF IInv, StoreInv, Sound
<1>. QED
  BY <1>1, Invariance, PTL

(* No two workers ever hold the same job (pull_next, worker_loop).         *)
THEOREM HoldersUnique == Spec => []HolderUnique
<1>1. IInv => HolderUnique
  BY DEF IInv, Core
<1>. QED
  BY <1>1, Invariance, PTL

(* The store never runs ahead of the events (dispatch_one).                *)
THEOREM OutcomesPublished == Spec => []OutcomePublished
<1>1. IInv => OutcomePublished
  BY RecordedPublished DEF IInv, Core
<1>. QED
  BY <1>1, Invariance, PTL

-----------------------------------------------------------------------------
LEMMA LifecycleInit == Init => Lifecycle!Init
BY DEF Init, StoreInit, Lifecycle!Init

LEMMA LifecycleStep ==
  IInv /\ [Next]_vars => [Lifecycle!Next]_<<status, attempt, limit>>
<1>. SUFFICES ASSUME IInv, [Next]_vars, ~ UNCHANGED <<status, attempt, limit>>
     PROVE  Lifecycle!Next
  OBVIOUS
<1>1. CASE Enqueue
  <2>1. nextId + 1 \in JobId /\ status[nextId + 1] = "absent"
    BY <1>1, Constants DEF Enqueue, StoreEnqueue, IInv, StoreInv, Given, JobId, StoreTypeOK
  <2>2. Lifecycle!Accept(nextId + 1)
    BY <1>1, <2>1 DEF Enqueue, StoreEnqueue, Lifecycle!Accept
  <2>. QED
    BY <2>1, <2>2 DEF Lifecycle!Next
<1>2. ASSUME NEW w \in Worker, Pull(w) PROVE Lifecycle!Next
  <2>1. PICK k \in DOMAIN Listed :
          \E i \in DOMAIN queues[Listed[k]] : StorePull(Listed[k], i)
    BY <1>2 DEF Pull
  <2>2. PICK i \in DOMAIN queues[Listed[k]] : StorePull(Listed[k], i)
    BY <2>1
  <2>. DEFINE j == queues[Listed[k]][i]
  <2>3. j \in JobId /\ status[j] \in Waiting
    BY Constants, QueueTypes DEF IInv, StoreInv, QueuesSound, QueuedWait
  <2>4. /\ status' = [status EXCEPT ![j] = "Running"]
        /\ attempt' = [attempt EXCEPT ![j] = @ + 1]
        /\ limit' = limit
    BY <2>2 DEF StorePull
  <2>. HIDE DEF j
  <2>5. \/ status[j] = "Pending" /\ attempt[j] = 0
        \/ status[j] = "Retrying" /\ attempt[j] < limit[j]
    <3>1. status[j] = "Pending" \/ status[j] = "Retrying"
      BY <2>3 DEF Waiting
    <3>. QED
      BY <2>3, <3>1 DEF IInv, Core, AttemptsLeft
  <2>6. Lifecycle!Begin(j)
    BY <2>4, <2>5 DEF Lifecycle!Begin
  <2>. QED
    BY <2>3, <2>6 DEF Lifecycle!Next
<1>3. ASSUME NEW w \in Worker, Mark(w) PROVE Lifecycle!Next
  <2>1. worker[w] = "marking"
    BY <1>3 DEF Mark
  <2>2. /\ held[w] \in JobId /\ status[held[w]] = "Running"
        /\ taken[w] = attempt[held[w]]
    BY <2>1, Holding
  <2>3. /\ verdict[w] \in Outcomes
        /\ verdict[w] = "Retrying" => taken[w] < limit[held[w]]
    BY <2>1 DEF IInv, Core, Judged
  <2>4. /\ status' = [status EXCEPT ![held[w]] = verdict[w]]
        /\ UNCHANGED <<attempt, limit>>
    BY <1>3, <2>3 DEF Mark, Outcomes, StoreMarkCompleted, StoreMarkDead, StoreMarkRetrying
  <2>5. Lifecycle!Settle(held[w], verdict[w])
    BY <2>2, <2>3, <2>4 DEF Lifecycle!Settle
  <2>6. \E outcome \in {"Completed", "Dead", "Retrying"} :
          Lifecycle!Settle(held[w], outcome)
    BY <2>3, <2>5 DEF Outcomes
  <2>. QED
    BY <2>2, <2>6 DEF Lifecycle!Next
<1>4. \/ Enqueue \/ \E w \in Worker : Pull(w) \/ Mark(w)
  BY DEF Next, Work, Run, vars, storeVars, Shutdown, Tick, BecomeDue, PublishEnqueued,
     LoopTop, PullNothing, DropPulled, WakeUp, SleepShutdown, DispatchUnknown, Dispatch,
     Respawn, RunOk, RunErr, RunPanic, Abort
<1>. QED
  BY <1>1, <1>2, <1>3, <1>4

(* The store and its workers implement JobLifecycle: no job runs without   *)
(* an attempt left, none after it was settled.                             *)
THEOREM ImplementsJobLifecycle == Spec => ImplementsLifecycle
<1>1. Init /\ [][Next]_vars /\ []IInv => Lifecycle!Spec
  BY LifecycleInit, LifecycleStep, PTL DEF Lifecycle!Spec
<1>. QED
  BY <1>1, Invariance, PTL DEF Spec, ImplementsLifecycle
=============================================================================
