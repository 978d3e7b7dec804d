-------------------------- MODULE ApplicationProofs --------------------------
(***************************************************************************)
(* Proofs about what an application is built from and what one then does.  *)
(*                                                                         *)
(* AppBuilder, for any plugins, services, paths and calls.  A rotation is  *)
(* exact: RotationInv counts the answers given and the calls that wait     *)
(* against the slots the counter has handed out.  A build that passes      *)
(* validation starts: ResolvingInv says what the applied plugins have      *)
(* provided.  A document and its router agree: RoutesInv ties descriptions *)
(* to routes.  What depends on a length or a number of rounds is proved by *)
(* Descent.                                                                *)
(*                                                                         *)
(* HelloAuthDb, for any connections, requests, forged tokens and threads:  *)
(* a token speaks for the account it was issued for and an email has one   *)
(* account.  Neither is inductive: between two queries a handler holds an  *)
(* id and a token whose meaning rests on rows and tokens that other        *)
(* connections only ever add to.  Held says what a handler holds at each   *)
(* of its awaits, Accounts and Tokens what the rows and the tokens are,    *)
(* and KeptHeld that what grows does not disturb who waits.                *)
(***************************************************************************)
EXTENDS HelloAuthDb, AppBuilder, FiniteSetTheorems, FunctionTheorems,
        WellFoundedInduction, TLAPS

-----------------------------------------------------------------------------
(* weighted_pick and the shares of a rotation.                             *)

(* Induction: a set of numbers without a least one is empty.               *)
LEMMA Descent ==
    ASSUME NEW S \in SUBSET Nat, \A n \in S : \E m \in S : m < n
    PROVE  S = {}
<1> DEFINE below == OpToRel(<, Nat)
<1>1. IsWellFoundedOn(below, Nat)
    BY NatLessThanWellFounded
<1>2. \A a, b \in Nat : a < b => <<a, b>> \in below
    BY DEF OpToRel
<1> HIDE DEF below
<1>3. S # {} => \E m \in S : \A k \in S : ~ (<<k, m>> \in below)
    BY <1>1, WFMin
<1>4. \A k, m \in S : <<k, m>> \notin below => ~ (k < m)
    BY <1>2
<1> QED
    BY <1>3, <1>4

Weighted(w) ==
    /\ Len(w) \in Nat
    /\ DOMAIN w = 1 .. Len(w)
    /\ \A i \in DOMAIN w : w[i][2] \in Nat

(* The recursion of RunningTotal has the solution it describes: the first  *)
(* length without one would have one.                                      *)
LEMMA RunningTotalIs ==
    ASSUME NEW w, Weighted(w)
    PROVE  RunningTotal(w) = [i \in 0 .. Len(w) |->
               IF i = 0 THEN 0 ELSE RunningTotal(w)[i - 1] + w[i][2]]
<1> DEFINE Is(f, n) == f = [i \in 0 .. n |-> IF i = 0 THEN 0 ELSE f[i - 1] + w[i][2]]
           none == {n \in 0 .. Len(w) : ~ \E f : Is(f, n)}
<1>1. ASSUME NEW n \in none
      PROVE  \E m \in none : m < n
  <2>1. n # 0
    <3>1. Is([i \in 0 .. 0 |-> 0], 0)
        OBVIOUS
    <3> QED
        BY <3>1
  <2>2. n - 1 \in none
    <3>0. n \in 0 .. Len(w) /\ (~ \E g : Is(g, n)) /\ n - 1 \in 0 .. Len(w)
        BY <2>1 DEF Weighted
    <3>1. SUFFICES ASSUME NEW f, Is(f, n - 1)
                   PROVE  \E g : Is(g, n)
      <4> HIDE DEF Is
      <4> QED
          BY <3>0
    <3> DEFINE g == [i \in 0 .. n |-> IF i = n THEN f[n - 1] + w[n][2] ELSE f[i]]
    <3>2. ASSUME NEW i \in 0 .. n
          PROVE  g[i] = IF i = 0 THEN 0 ELSE g[i - 1] + w[i][2]
      <4>1. CASE i = n
          BY <2>1, <4>1
      <4>2. CASE i # n
        <5>1. i \in 0 .. n - 1
            BY <4>2
        <5>2. f[i] = IF i = 0 THEN 0 ELSE f[i - 1] + w[i][2]
            BY <3>1, <5>1
        <5> QED
            BY <4>2, <5>1, <5>2
      <4> QED
          BY <4>1, <4>2
    <3>3. Is(g, n)
        BY <3>2
    <3> QED
        BY <3>3
  <2>3. n - 1 < n
      BY <1>1
  <2> QED
      BY <2>2, <2>3
<1>2. none = {}
  <2>1. none \in SUBSET Nat
      OBVIOUS
  <2> HIDE DEF none
  <2> QED
      BY <1>1, <2>1, Descent
<1>3. \E f : Is(f, Len(w))
    BY <1>2 DEF Weighted
<1> QED
    BY <1>3 DEF RunningTotal

(* What the running total is, entry by entry.                              *)
LEMMA RunningTotalType ==
    ASSUME NEW w, Weighted(w)
    PROVE  /\ RunningTotal(w) \in [0 .. Len(w) -> Nat]
           /\ RunningTotal(w)[0] = 0
           /\ \A i \in 1 .. Len(w) : RunningTotal(w)[i] = RunningTotal(w)[i - 1] + w[i][2]
<1> DEFINE upTo == RunningTotal(w)
<1>1. /\ upTo = [i \in 0 .. Len(w) |-> IF i = 0 THEN 0 ELSE upTo[i - 1] + w[i][2]]
      /\ Len(w) \in Nat
    BY RunningTotalIs DEF Weighted
<1> HIDE DEF upTo
<1>2. /\ upTo[0] = 0
      /\ \A i \in 1 .. Len(w) : upTo[i] = upTo[i - 1] + w[i][2]
      /\ DOMAIN upTo = 0 .. Len(w)
    BY <1>1
<1>3. \A i \in 0 .. Len(w) : upTo[i] \in Nat
  <2> DEFINE bad == {i \in 0 .. Len(w) : upTo[i] \notin Nat}
  <2>1. ASSUME NEW i \in bad PROVE \E j \in bad : j < i
      BY <1>1, <1>2 DEF Weighted
  <2>2. bad \in SUBSET Nat
      BY <1>1
  <2> HIDE DEF bad
  <2>3. bad = {}
      BY <2>1, <2>2, Descent
  <2> QED
      BY <2>3 DEF bad
<1> QED
    BY <1>1, <1>2, <1>3 DEF upTo

(* The running total never falls. *)
LEMMA RunningTotalGrows ==
    ASSUME NEW w, Weighted(w), NEW i \in 0 .. Len(w), NEW j \in i .. Len(w)
    PROVE  RunningTotal(w)[i] <= RunningTotal(w)[j]
<1> DEFINE upTo == RunningTotal(w)
           bad == {k \in i .. Len(w) : ~ (upTo[i] <= upTo[k])}
<1>1. /\ \A k \in 0 .. Len(w) : upTo[k] \in Nat
      /\ \A k \in 1 .. Len(w) : upTo[k] = upTo[k - 1] + w[k][2] /\ w[k][2] \in Nat
      /\ Len(w) \in Nat
    BY RunningTotalType DEF Weighted
<1> HIDE DEF upTo
<1>2. ASSUME NEW k \in bad PROVE \E m \in bad : m < k
  <2>1. k # i
      BY <1>1
  <2>2. k \in 1 .. Len(w) /\ k - 1 \in i .. Len(w)
      BY <1>1, <2>1
  <2>3. upTo[k] = upTo[k - 1] + w[k][2] /\ w[k][2] \in Nat
      BY <1>1, <2>2
  <2>4. upTo[k] \in Nat /\ upTo[k - 1] \in Nat /\ upTo[i] \in Nat
      BY <1>1, <2>2
  <2>5. ~ (upTo[i] <= upTo[k - 1])
      BY <2>3, <2>4
  <2> QED
      BY <2>2, <2>5
<1>3. bad \in SUBSET Nat
    BY <1>1
<1>4. bad = {}
  <2> HIDE DEF bad
  <2> QED
      BY <1>2, <1>3, Descent
<1> QED
    BY <1>4 DEF upTo

-----------------------------------------------------------------------------
(* Every slot of the rotation belongs to one entry.                        *)
LEMMA EntryOfSlot ==
    ASSUME NEW w, Weighted(w), NEW k \in 0 .. Total(w) - 1
    PROVE  \E i \in 1 .. Len(w) :
               RunningTotal(w)[i - 1] <= k /\ k < RunningTotal(w)[i]
<1> DEFINE upTo == RunningTotal(w)
           past == {i \in 0 .. Len(w) : k < upTo[i]}
<1>1. /\ upTo \in [0 .. Len(w) -> Nat] /\ upTo[0] = 0
      /\ Len(w) \in Nat
      /\ k < upTo[Len(w)]
    BY RunningTotalType DEF Weighted, Total
<1> HIDE DEF upTo
<1>2. ~ \A i \in past : \E j \in past : j < i
  <2>1. Len(w) \in past /\ past \in SUBSET Nat
      BY <1>1
  <2> HIDE DEF past
  <2> QED
      BY <2>1, Descent
<1>3. PICK i \in past : \A j \in past : ~ (j < i)
    BY <1>2
<1>4. i # 0
    BY <1>1
<1>5. i \in 1 .. Len(w) /\ i - 1 \in 0 .. Len(w) /\ i - 1 < i
    BY <1>1, <1>4
<1>6. upTo[i - 1] <= k
    BY <1>1, <1>3, <1>5
<1> QED
    BY <1>5, <1>6 DEF upTo

(* The entry whose span holds a slot is the only one.                      *)
LEMMA EntryIsOne ==
    ASSUME NEW w, Weighted(w), NEW k \in Nat,
           NEW i \in 1 .. Len(w), RunningTotal(w)[i - 1] <= k, k < RunningTotal(w)[i]
    PROVE  PickedEntry(w, k) = i
<1> DEFINE upTo == RunningTotal(w)
<1>1. upTo \in [0 .. Len(w) -> Nat] /\ DOMAIN w = 1 .. Len(w) /\ Len(w) \in Nat
    BY RunningTotalType DEF Weighted
<1>2. ASSUME NEW j \in 1 .. Len(w), upTo[j - 1] <= k, k < upTo[j]
      PROVE  j = i
  <2>1. ~ (j < i)
    <3>1. SUFFICES ASSUME j < i PROVE FALSE
        OBVIOUS
    <3>2. j \in 0 .. Len(w) /\ i - 1 \in j .. Len(w)
        BY <1>1, <3>1
    <3>3. upTo[j] <= upTo[i - 1]
        BY <3>2, RunningTotalGrows
    <3> HIDE DEF upTo
    <3>4. upTo[j] \in Nat /\ upTo[i - 1] \in Nat
        BY <1>1, <3>2
    <3>5. upTo[i - 1] <= k
        BY DEF upTo
    <3> QED
        BY <1>2, <3>3, <3>4, <3>5
  <2>2. ~ (i < j)
    <3>1. SUFFICES ASSUME i < j PROVE FALSE
        OBVIOUS
    <3>2. i \in 0 .. Len(w) /\ j - 1 \in i .. Len(w)
        BY <1>1, <3>1
    <3>3. upTo[i] <= upTo[j - 1]
        BY <3>2, RunningTotalGrows
    <3>5. k < upTo[i]
        BY DEF upTo
    <3> HIDE DEF upTo
    <3>4. upTo[i] \in Nat /\ upTo[j - 1] \in Nat
        BY <1>1, <3>2
    <3> QED
        BY <1>2, <3>3, <3>4, <3>5
  <2> QED
      BY <2>1, <2>2
<1> QED
    BY <1>1, <1>2 DEF PickedEntry

(* weighted_pick finds the entry whose span holds the slot.                *)
LEMMA PickedEntryIs ==
    ASSUME NEW w, Weighted(w), NEW k \in 0 .. Total(w) - 1
    PROVE  /\ PickedEntry(w, k) \in 1 .. Len(w)
           /\ RunningTotal(w)[PickedEntry(w, k) - 1] <= k
           /\ k < RunningTotal(w)[PickedEntry(w, k)]
<1>1. PICK i \in 1 .. Len(w) : RunningTotal(w)[i - 1] <= k /\ k < RunningTotal(w)[i]
    BY EntryOfSlot
<1>2. k \in Nat
    OBVIOUS
<1> QED
    BY <1>1, <1>2, EntryIsOne

(* An entry that is picked has weight.                                     *)
LEMMA PickedHasWeight ==
    ASSUME NEW w, Weighted(w), NEW k \in 0 .. Total(w) - 1
    PROVE  w[PickedEntry(w, k)][2] > 0
<1> DEFINE i == PickedEntry(w, k)
<1>1. /\ i \in 1 .. Len(w) 
      /\ RunningTotal(w)[i - 1] <= k /\ k < RunningTotal(w)[i]
    BY PickedEntryIs
<1>3. i - 1 \in 0 .. Len(w) /\ i \in DOMAIN w
    BY <1>1 DEF Weighted
<1>2. /\ RunningTotal(w)[i] = RunningTotal(w)[i - 1] + w[i][2]
      /\ RunningTotal(w)[i - 1] \in Nat
      /\ w[i][2] \in Nat
    BY <1>1, <1>3, RunningTotalType DEF Weighted
<1> HIDE DEF i
<1> QED
    BY <1>1, <1>2 DEF i

(* The weights add up to a number.                                         *)
LEMMA TotalType ==
    ASSUME NEW w, Weighted(w)
    PROVE  Total(w) \in Nat
BY RunningTotalType DEF Total, Weighted

-----------------------------------------------------------------------------
(* Of the slots of a whole round a provider has what its names weigh.      *)
Chosen(w, bucket, k) == ResolveProvider(bucket, PickedName(w, k))
Hits(w, bucket, provider, n) ==
    {k \in 0 .. n - 1 : Chosen(w, bucket, k) = provider}
Share(w, bucket, provider) ==
    [i \in DOMAIN w |-> <<w[i][1], IF ResolveProvider(bucket, w[i][1]) = provider
                                   THEN w[i][2] ELSE 0>>]

(* The entries that lead to one provider, the others without weight.       *)
LEMMA ShareIsWeighted ==
    ASSUME NEW w, Weighted(w), NEW bucket, NEW provider
    PROVE  /\ Weighted(Share(w, bucket, provider))
           /\ Len(Share(w, bucket, provider)) = Len(w)
           /\ \A i \in DOMAIN w : Share(w, bucket, provider)[i][2] =
                 IF ResolveProvider(bucket, w[i][1]) = provider THEN w[i][2] ELSE 0
<1> DEFINE s == Share(w, bucket, provider)
<1>1. \A i \in DOMAIN w : s[i][2] =
          IF ResolveProvider(bucket, w[i][1]) = provider THEN w[i][2] ELSE 0
    BY DEF Share
<1>2. DOMAIN s = 1 .. Len(w) /\ Len(w) \in Nat
    BY DEF Share, Weighted
<1>3. s \in Seq({s[i] : i \in DOMAIN s})
    BY <1>2 DEF Share
<1>4. Len(s) = Len(w)
    BY <1>2, <1>3
<1> QED
    BY <1>1, <1>2, <1>4 DEF Weighted

(* A provider is hit a finite number of times.                             *)
LEMMA HitsAreFinite ==
    ASSUME NEW w, NEW bucket, NEW provider, NEW n \in Nat
    PROVE  IsFiniteSet(Hits(w, bucket, provider, n)) 
<1>1. IsFiniteSet(0 .. n - 1) /\ Hits(w, bucket, provider, n) \subseteq 0 .. n - 1
    BY FS_Interval DEF Hits
<1> QED
    BY <1>1, FS_Subset

(* In the spans of the first j entries a provider has what those of them   *)
(* that lead to it weigh, by induction on j.                               *)
LEMMA HitsOfEntries ==
    ASSUME NEW w, Weighted(w), NEW bucket, NEW provider, NEW j \in 0 .. Len(w)
    PROVE  Cardinality(Hits(w, bucket, provider, RunningTotal(w)[j])) =
               RunningTotal(Share(w, bucket, provider))[j]
<1> DEFINE upTo == RunningTotal(w)
           s == Share(w, bucket, provider)
           hits(i) == Hits(w, bucket, provider, upTo[i])
           bad == {i \in 0 .. Len(w) : Cardinality(hits(i)) # RunningTotal(s)[i]}
<1>1. /\ upTo \in [0 .. Len(w) -> Nat] /\ upTo[0] = 0
      /\ \A i \in 1 .. Len(w) : upTo[i] = upTo[i - 1] + w[i][2] /\ w[i][2] \in Nat
      /\ Len(w) \in Nat
    BY RunningTotalType DEF Weighted
<1>2. /\ RunningTotal(s) \in [0 .. Len(w) -> Nat] /\ RunningTotal(s)[0] = 0
      /\ \A i \in 1 .. Len(w) : RunningTotal(s)[i] = RunningTotal(s)[i - 1] + s[i][2]
    BY ShareIsWeighted, RunningTotalType
<1>3. ASSUME NEW i \in bad
      PROVE  \E h \in bad : h < i
  <2>1. i # 0
    <3>1. Hits(w, bucket, provider, 0) = {}
        BY DEF Hits
    <3> QED
        BY <1>1, <1>2, <3>1, FS_EmptySet
  <2>2. i \in 1 .. Len(w) /\ i - 1 \in 0 .. Len(w) /\ i - 1 < i
      BY <1>1, <2>1
  <2> DEFINE mine == ResolveProvider(bucket, w[i][1]) = provider
             block == upTo[i - 1] .. upTo[i] - 1
  <2>3. /\ upTo[i] \in Nat /\ upTo[i - 1] \in Nat /\ w[i][2] \in Nat
        /\ upTo[i] = upTo[i - 1] + w[i][2]
      BY <1>1, <2>2
  <2>4. ASSUME NEW k \in block
        PROVE  Chosen(w, bucket, k) = ResolveProvider(bucket, w[i][1])
    <3>1. k \in Nat /\ upTo[i - 1] <= k /\ k < upTo[i]
        BY <2>3
    <3>2. PickedEntry(w, k) = i
        BY <2>2, <3>1, EntryIsOne
    <3> QED
        BY <3>2 DEF Chosen, PickedName
  <2>12. /\ 0 .. upTo[i] - 1 = (0 .. upTo[i - 1] - 1) \cup block
         /\ IsFiniteSet(block) /\ Cardinality(block) = w[i][2]
    <3> DEFINE a == upTo[i - 1]
               b == upTo[i]
               m == w[i][2]
    <3>1. a \in Nat /\ m \in Nat /\ b \in Nat /\ b = a + m
        BY <2>3
    <3> HIDE DEF a, b, m
    <3>2. 0 .. b - 1 = (0 .. a - 1) \cup (a .. b - 1)
        BY <3>1
    <3>3. /\ a \in Int /\ b - 1 \in Int
          /\ (a > b - 1 => m = 0) /\ (b - 1) - a + 1 = m
        BY <3>1
    <3>4. /\ IsFiniteSet(a .. b - 1)
          /\ Cardinality(a .. b - 1) = IF a > b - 1 THEN 0 ELSE (b - 1) - a + 1
        BY <3>3, FS_Interval
    <3>5. Cardinality(a .. b - 1) = m
        BY <3>3, <3>4
    <3> QED
        BY <3>2, <3>4, <3>5 DEF a, b, m
  <2>5. hits(i) = hits(i - 1) \cup (IF mine THEN block ELSE {})
    <3> HIDE DEF upTo
    <3>1. 0 .. upTo[i] - 1 = (0 .. upTo[i - 1] - 1) \cup block
        BY <2>12
    <3> QED
        BY <2>4, <3>1 DEF Hits
  <2>6. hits(i - 1) \cap block = {}
    <3> HIDE DEF upTo
    <3> QED
        BY <2>3 DEF Hits
  <2>7. IsFiniteSet(hits(i - 1)) /\ Cardinality(hits(i - 1)) \in Nat
      BY <2>3, HitsAreFinite, FS_CardinalityType
  <2>8. IsFiniteSet(block) /\ Cardinality(block) = w[i][2]
      BY <2>12
  <2>9. Cardinality(hits(i)) = Cardinality(hits(i - 1)) + (IF mine THEN w[i][2] ELSE 0)
    <3>1. CASE mine
      <4>1. hits(i) = hits(i - 1) \cup block
          BY <2>5, <3>1
      <4> HIDE DEF hits, block
      <4>2. Cardinality(hits(i - 1) \cup block) =
                Cardinality(hits(i - 1)) + Cardinality(block)
                - Cardinality(hits(i - 1) \cap block)
          BY <2>7, <2>8, FS_Union
      <4>3. Cardinality(hits(i - 1) \cap block) = 0
          BY <2>6, FS_EmptySet
      <4>4. Cardinality(hits(i - 1) \cup block) = Cardinality(hits(i - 1)) + w[i][2]
          BY <2>3, <2>7, <2>8, <4>2, <4>3
      <4> QED
          BY <3>1, <4>1, <4>4
    <3>2. CASE ~ mine
      <4>1. hits(i) = hits(i - 1)
          BY <2>5, <3>2
      <4> HIDE DEF hits, block
      <4> QED
          BY <2>7, <3>2, <4>1
    <3> QED
        BY <3>1, <3>2
  <2>10. s[i][2] = IF mine THEN w[i][2] ELSE 0
    <3>1. i \in DOMAIN w
        BY <2>2 DEF Weighted
    <3> QED
        BY <3>1, ShareIsWeighted
  <2>11. i - 1 \in bad
    <3>1. RunningTotal(s)[i] = RunningTotal(s)[i - 1] + s[i][2]
        BY <1>2, <2>2
    <3>2. Cardinality(hits(i)) # RunningTotal(s)[i]
        OBVIOUS
    <3>3. Cardinality(hits(i - 1)) # RunningTotal(s)[i - 1]
      <4> HIDE DEF hits, s
      <4> QED
          BY <2>9, <2>10, <3>1, <3>2
    <3> QED
        BY <2>2, <3>3
  <2> QED
      BY <2>2, <2>11
<1>4. bad = {}
  <2>1. bad \in SUBSET Nat
      BY <1>1
  <2> HIDE DEF bad
  <2> QED
      BY <1>3, <2>1, Descent
<1> QED
    BY <1>4

(* In a whole round a provider is hit as often as its names weigh.         *)
LEMMA HitsOfRound ==
    ASSUME NEW w, Weighted(w), NEW bucket, NEW provider
    PROVE  /\ Cardinality(Hits(w, bucket, provider, Total(w))) =
                  WeightOf(w, bucket, provider)
           /\ WeightOf(w, bucket, provider) \in Nat
<1>1. Len(w) \in 0 .. Len(w)
    BY DEF Weighted
<1>2. WeightOf(w, bucket, provider) = Total(Share(w, bucket, provider))
    BY DEF WeightOf, Share
<1>3. Total(Share(w, bucket, provider)) = RunningTotal(Share(w, bucket, provider))[Len(w)]
    BY ShareIsWeighted DEF Total
<1> QED
    BY <1>1, <1>2, <1>3, HitsOfEntries, ShareIsWeighted, TotalType DEF Total

-----------------------------------------------------------------------------
(* What the first n calls of a rotation answer.                            *)
Due(w, bucket, provider, n) ==
    {k \in 0 .. n - 1 : Chosen(w, bucket, k % Total(w)) = provider}

(* A slot of the m-th round.                                               *)
LEMMA RemainderInRound ==
    ASSUME NEW T \in Nat \ {0}, NEW m \in Nat, NEW r \in 0 .. T - 1
    PROVE  (m * T + r) % T = r
OBVIOUS

(* One call more is due to the provider its slot leads to.                 *)
LEMMA NextDue ==
    ASSUME NEW w, NEW bucket, NEW provider, NEW n \in Nat
    PROVE  /\ IsFiniteSet(Due(w, bucket, provider, n))
           /\ Cardinality(Due(w, bucket, provider, n)) \in Nat
           /\ Cardinality(Due(w, bucket, provider, n + 1)) =
                  Cardinality(Due(w, bucket, provider, n))
                  + (IF Chosen(w, bucket, n % Total(w)) = provider THEN 1 ELSE 0)
<1> DEFINE d == Due(w, bucket, provider, n)
<1>1. IsFiniteSet(d) /\ Cardinality(d) \in Nat
  <2>1. IsFiniteSet(0 .. n - 1) /\ d \subseteq 0 .. n - 1
      BY FS_Interval DEF Due
  <2> QED
      BY <2>1, FS_Subset, FS_CardinalityType
<1>2. n \notin d
    BY DEF Due
<1>3. 0 .. n = (0 .. n - 1) \cup {n}
    OBVIOUS
<1>4. Due(w, bucket, provider, n + 1) =
          IF Chosen(w, bucket, n % Total(w)) = provider THEN d \cup {n} ELSE d
    BY <1>3 DEF Due
<1> HIDE DEF d
<1>5. Cardinality(d \cup {n}) = Cardinality(d) + 1
    BY <1>1, <1>2, FS_AddElement
<1> QED
    BY <1>1, <1>4, <1>5 DEF d

(* After m rounds a provider is due its weight m times, by induction on m. *)
LEMMA DueOfRounds ==
    ASSUME NEW w, Weighted(w), Total(w) > 0, NEW bucket, NEW provider, NEW m \in Nat
    PROVE  Cardinality(Due(w, bucket, provider, m * Total(w))) =
               m * WeightOf(w, bucket, provider)
<1> DEFINE T == Total(w)
           round == Hits(w, bucket, provider, T)
           due(h) == Due(w, bucket, provider, h * T)
           bad == {h \in Nat : Cardinality(due(h)) # h * WeightOf(w, bucket, provider)}
<1>1. T \in Nat \ {0}
    BY TotalType
<1>2. /\ IsFiniteSet(round)
      /\ Cardinality(round) = WeightOf(w, bucket, provider)
      /\ WeightOf(w, bucket, provider) \in Nat
    BY <1>1, HitsOfRound, HitsAreFinite
<1>3. ASSUME NEW h \in bad
      PROVE  \E g \in bad : g < h
  <2>1. h # 0
    <3>1. Due(w, bucket, provider, 0) = {}
        BY DEF Due
    <3>2. 0 * T = 0 /\ 0 * WeightOf(w, bucket, provider) = 0
        BY <1>1, <1>2
    <3> QED
        BY <3>1, <3>2, FS_EmptySet
  <2> DEFINE g == h - 1
             start == g * T
             shifted == {k \in start .. start + T - 1 : Chosen(w, bucket, k % T) = provider}
  <2>2. g \in Nat /\ g < h /\ h = g + 1
      BY <2>1
  <2> HIDE DEF g
  <2>3. start \in Nat /\ h * T = start + T
      BY <1>1, <2>2
  <2>4. \A r \in 0 .. T - 1 : (start + r) % T = r
      BY <1>1, <2>2, RemainderInRound
  <2> HIDE DEF start, T
  <2>5. ExistsBijection(round, shifted)
    <3> DEFINE f == [r \in round |-> start + r]
    <3>1. f \in [round -> shifted]
      <4>1. SUFFICES ASSUME NEW r \in round PROVE start + r \in shifted
          OBVIOUS
      <4>2. r \in 0 .. T - 1 /\ Chosen(w, bucket, r) = provider
          BY DEF Hits
      <4>3. start + r \in start .. start + T - 1
          BY <1>1, <2>3, <4>2
      <4> QED
          BY <2>4, <4>2, <4>3
    <3>2. \A a, b \in round : f[a] = f[b] => a = b
      <4>1. \A a \in round : a \in Int
          BY <1>1 DEF Hits
      <4> QED
          BY <2>3, <4>1
    <3>3. ASSUME NEW k \in shifted PROVE \E r \in round : f[r] = k
      <4>1. k - start \in 0 .. T - 1 /\ k = start + (k - start)
          BY <1>1, <2>3
      <4>2. (start + (k - start)) % T = k - start
          BY <2>4, <4>1
      <4>3. k % T = k - start
          BY <4>1, <4>2
      <4>4. k - start \in round
          BY <4>1, <4>3 DEF Hits
      <4> HIDE DEF round, shifted
      <4> QED
          BY <4>1, <4>4
    <3> HIDE DEF f, round, shifted
    <3>4. f \in Bijection(round, shifted)
        BY <3>1, <3>2, <3>3, Fun_IsBij
    <3> QED
        BY <3>4 DEF ExistsBijection
  <2>6. IsFiniteSet(shifted) /\ Cardinality(shifted) = WeightOf(w, bucket, provider)
    <3> HIDE DEF round, shifted
    <3> QED
        BY <1>2, <2>5, FS_Bijection
  <2>7. due(h) = due(g) \cup shifted
    <3>1. 0 .. start + T - 1 = (0 .. start - 1) \cup (start .. start + T - 1)
        BY <1>1, <2>3
    <3>2. due(h) = {k \in 0 .. start + T - 1 : Chosen(w, bucket, k % T) = provider}
      <4>1. due(h) = {k \in 0 .. h * T - 1 : Chosen(w, bucket, k % T) = provider}
          BY DEF Due, T
      <4>2. h * T - 1 = start + T - 1
          BY <1>1, <2>3
      <4> HIDE DEF due
      <4> QED
          BY <4>1, <4>2, Zenon
    <3>3. due(g) = {k \in 0 .. start - 1 : Chosen(w, bucket, k % T) = provider}
        BY DEF Due, T, start
    <3> HIDE DEF due
    <3> QED
        BY <3>1, <3>2, <3>3
  <2>8. due(g) \cap shifted = {}
    <3>1. due(g) \subseteq 0 .. start - 1
        BY DEF Due, T, start
    <3> HIDE DEF due
    <3> QED
        BY <1>1, <2>3, <3>1
  <2>9. IsFiniteSet(due(g)) /\ Cardinality(due(g)) \in Nat
      BY <2>3, NextDue DEF start
  <2> HIDE DEF shifted, due
  <2>10. Cardinality(due(h)) = Cardinality(due(g)) + WeightOf(w, bucket, provider)
    <3>1. Cardinality(due(g) \cup shifted) =
              Cardinality(due(g)) + Cardinality(shifted) - Cardinality(due(g) \cap shifted)
        BY <2>6, <2>9, FS_Union
    <3>2. Cardinality(due(g) \cap shifted) = 0
        BY <2>8, FS_EmptySet
    <3>3. Cardinality(due(g) \cup shifted) = Cardinality(due(h))
        BY <2>7
    <3> QED
        BY <1>2, <2>6, <2>9, <3>1, <3>2, <3>3
  <2>11. h * WeightOf(w, bucket, provider) =
             g * WeightOf(w, bucket, provider) + WeightOf(w, bucket, provider)
      BY <1>2, <2>2
  <2>12. g * WeightOf(w, bucket, provider) \in Int
      BY <1>2, <2>2
  <2>13. Cardinality(due(h)) # h * WeightOf(w, bucket, provider)
      OBVIOUS
  <2>14. g \in bad
      BY <1>2, <2>2, <2>9, <2>10, <2>11, <2>12, <2>13
  <2> QED
      BY <2>2, <2>14
<1>4. bad = {}
  <2>1. bad \in SUBSET Nat
      OBVIOUS
  <2> HIDE DEF bad
  <2> QED
      BY <1>3, <2>1, Descent
<1>5. m \notin bad
    BY <1>4
<1> QED
    BY <1>5

(* One answer more.                                                        *)
Places(s, x) == {k \in DOMAIN s : s[k] = x}

(* An answer that is appended is counted once, for its provider.           *)
LEMMA CountAppend ==
    ASSUME NEW S, NEW s \in Seq(S), NEW e \in S, NEW x
    PROVE  /\ IsFiniteSet(Places(s, x))
           /\ Cardinality(Places(s, x)) \in Nat
           /\ Cardinality(Places(Append(s, e), x)) =
                  Cardinality(Places(s, x)) + (IF e = x THEN 1 ELSE 0)
<1> USE DEF Places
<1> DEFINE old == Places(s, x)
           new == Places(Append(s, e), x)
<1>1. DOMAIN s = 1 .. Len(s) /\ Len(s) \in Nat
    OBVIOUS
<1>2. IsFiniteSet(old) /\ Cardinality(old) \in Nat
  <2>1. IsFiniteSet(1 .. Len(s)) /\ old \subseteq 1 .. Len(s)
      BY <1>1, FS_Interval
  <2> HIDE DEF old
  <2> QED
      BY <2>1, FS_Subset, FS_CardinalityType
<1>3. /\ DOMAIN Append(s, e) = 1 .. Len(s) + 1
      /\ Append(s, e)[Len(s) + 1] = e
      /\ \A k \in 1 .. Len(s) : Append(s, e)[k] = s[k]
    BY <1>1
<1>4. 1 .. Len(s) + 1 = (1 .. Len(s)) \cup {Len(s) + 1}
    BY <1>1
<1>5. Len(s) + 1 \notin old
    BY <1>1
<1>6. new = IF e = x THEN old \cup {Len(s) + 1} ELSE old
    BY <1>1, <1>3, <1>4
<1> HIDE DEF old, new
<1>7. Cardinality(old \cup {Len(s) + 1}) = Cardinality(old) + 1
    BY <1>2, <1>5, FS_AddElement
<1> QED
  <2>1. Cardinality(new) = Cardinality(old) + (IF e = x THEN 1 ELSE 0)
      BY <1>2, <1>6, <1>7
  <2> QED
      BY <1>2, <2>1 DEF old, new

-----------------------------------------------------------------------------
(* The builder and its registry.                                           *)
Building == phase \in {"configure", "applying"}

BuilderTyped ==
    /\ plugins \in Seq(Plugin)
    /\ applied \in 0 .. Len(plugins)
    /\ DOMAIN registry = {"providers", "strategies"}
    /\ \A c \in Contract :
          /\ IsStrategy(registry.strategies[c])
          /\ \A name \in DOMAIN registry.providers[c] :
                name \in Name /\ registry.providers[c][name] \in Nat

(* The counters and the calls.                                             *)
Weights(c) == registry.strategies[c].weights
Begun(c) == IF rotation[c] = None THEN 0 ELSE rotation[c]
InFlight(c) == {t \in Caller : pick[t] # None /\ pick[t][1] = c}
InFlightFor(c, provider) ==
    {t \in InFlight(c) :
        Chosen(Weights(c), registry.providers[c], pick[t][2]) = provider}
AnsweredBy(c, provider) == Places(served[c], provider)
DueTo(c, provider) ==
    Due(Weights(c), registry.providers[c], provider, Begun(c))

LookupsTyped ==
    /\ lookups \in 0 .. MaxLookups
    /\ rotation \in [Contract -> Nat \cup {None}]
    /\ pick \in [Caller -> (Contract \X Nat) \cup {None}]
    /\ served \in [Contract -> Seq(Nat \cup {None})]

Untouched ==
    /\ \A c \in Contract : Begun(c) = 0 /\ served[c] = << >>
    /\ \A t \in Caller : pick[t] = None

Counting ==
    /\ Building => Untouched
    /\ ~ Building =>
          \A c \in Contract :
              registry.strategies[c].kind = "WeightedRoundRobin" => rotation[c] \in Nat

(* A call that has begun is one that waits or one that has been answered,  *)
(* and together they have what the calls so far are due.                   *)
Tally(c) ==
    /\ Begun(c) <= lookups
    /\ IsFiniteSet(InFlight(c))
    /\ Len(served[c]) + Cardinality(InFlight(c)) = Begun(c)
    /\ \A provider \in Nat :
          Cardinality(AnsweredBy(c, provider)) + Cardinality(InFlightFor(c, provider))
              = Cardinality(DueTo(c, provider))

RotationInv ==
    /\ BuilderTyped
    /\ LookupsTyped
    /\ Counting
    /\ \A c \in Contract : Tally(c)

-----------------------------------------------------------------------------
(* Every step of an application is a step of its builder or leaves it.     *)
Configuring ==
    \/ \E p \in Plugin : WithPlugin(p)
    \/ \E r \in OwnResource : WithResource(r)
    \/ \E c \in OwnCapability : WithCapability(c[1], c[2])
    \/ \E s \in OwnService : WithSupervised(s)
    \/ ApplyPlugin

BuilderStep ==
    \/ Configuring \/ Freeze \/ Validate \/ StartService
    \/ \E t \in Caller, c \in Contract : FetchAdd(t, c)
    \/ \E t \in Caller : ResolvePick(t)
    \/ UNCHANGED rvars

(* A step of an application is a step of its builder, or leaves it alone.  *)
LEMMA StepOfBuilder == [ANext]_<<rvars, avars>> => BuilderStep
<1>1. (\E m \in AppMethod, p \in Path : PlainRoute(m, p)) => UNCHANGED rvars
    BY DEF PlainRoute
<1>2. (\E spec \in RouteSpec : OpenapiRoute(spec)) => UNCHANGED rvars
    BY DEF OpenapiRoute
<1>3. OpenapiServeAt(DocPath) => UNCHANGED rvars
    BY DEF OpenapiServeAt
<1>4. (\E p \in Plugin : AppPlugin(p)) => Configuring
    BY DEF AppPlugin, Configuring
<1>5. AppOwn => Configuring
    BY DEF AppOwn, Configuring
<1>6. Run => Configuring \/ Freeze \/ Validate \/ StartService
    BY DEF Run, Configuring
<1>7. Lookup => \/ \E t \in Caller, c \in Contract : FetchAdd(t, c)
                \/ \E t \in Caller : ResolvePick(t)
    BY DEF Lookup
<1> QED
    BY <1>1, <1>2, <1>3, <1>4, <1>5, <1>6, <1>7 DEF ANext, BuilderStep

(* What a step of the Configure phase does to the registry.                *)
LEMMA RegisterTyped ==
    ASSUME BuilderTyped, NEW capabilities, NEW i \in Nat
    PROVE  LET r == Register(registry, capabilities, i) IN
           /\ DOMAIN r = {"providers", "strategies"}
           /\ \A c \in Contract :
                 /\ r.strategies[c] = registry.strategies[c]
                 /\ DOMAIN r.providers[c] =
                        DOMAIN registry.providers[c]
                        \cup {name \in Name : <<c, name>> \in capabilities}
                 /\ \A name \in DOMAIN r.providers[c] :
                       r.providers[c][name] =
                           IF name \in Name /\ <<c, name>> \in capabilities
                           THEN i ELSE registry.providers[c][name]
                 /\ \A name \in DOMAIN r.providers[c] :
                       name \in Name /\ r.providers[c][name] \in Nat
<1> DEFINE r == Register(registry, capabilities, i)
<1>0. r = Register(registry, capabilities, i)
    OBVIOUS
<1> HIDE DEF r
<1>1. /\ r.strategies = registry.strategies
      /\ DOMAIN r = {"providers", "strategies"}
      /\ r.providers = [c \in Contract |->
            Extend(registry.providers[c],
                   [name \in {n \in Name : <<c, n>> \in capabilities} |-> i])]
    BY <1>0 DEF Register, BuilderTyped
<1>4. ASSUME NEW c \in Contract
      PROVE  /\ r.strategies[c] = registry.strategies[c]
             /\ DOMAIN r.providers[c] =
                    DOMAIN registry.providers[c]
                    \cup {name \in Name : <<c, name>> \in capabilities}
             /\ \A name \in DOMAIN r.providers[c] :
                   r.providers[c][name] =
                       IF name \in Name /\ <<c, name>> \in capabilities
                       THEN i ELSE registry.providers[c][name]
  <2> DEFINE f == [name \in {n \in Name : <<c, n>> \in capabilities} |-> i]
             g == registry.providers[c]
  <2>1. r.providers[c] = Extend(g, f) /\ r.strategies[c] = registry.strategies[c]
      BY <1>1
  <2>2. /\ DOMAIN f = {n \in Name : <<c, n>> \in capabilities}
        /\ \A name \in DOMAIN f : f[name] = i
      OBVIOUS
  <2> HIDE DEF f, g
  <2>3. /\ DOMAIN Extend(g, f) = DOMAIN f \cup DOMAIN g
        /\ \A x \in DOMAIN f \cup DOMAIN g :
              Extend(g, f)[x] = IF x \in DOMAIN f THEN f[x] ELSE g[x]
      BY DEF Extend
  <2> QED
      BY <2>1, <2>2, <2>3 DEF g
<1>5. \A c \in Contract : \A name \in DOMAIN registry.providers[c] :
          name \in Name /\ registry.providers[c][name] \in Nat
    BY DEF BuilderTyped
<1>6. ASSUME NEW c \in Contract, NEW name \in DOMAIN r.providers[c]
      PROVE  name \in Name /\ r.providers[c][name] \in Nat
  <2>1. CASE name \in Name /\ <<c, name>> \in capabilities
      BY <1>4, <1>6, <2>1
  <2>2. CASE ~ (name \in Name /\ <<c, name>> \in capabilities)
    <3>1. name \in DOMAIN registry.providers[c]
        BY <1>4, <1>6, <2>2
    <3> QED
        BY <1>4, <1>5, <1>6, <2>2, <3>1
  <2> QED
      BY <2>1, <2>2
<1> QED
    BY <1>1, <1>4, <1>6 DEF r

(* Of the strategies a plugin sets the last one for a contract stays; that *)
(* there is a last one is a descent.                                       *)
LEMMA SetStrategiesTyped ==
    ASSUME NEW old, NEW settings, settings \in Seq(ToSet(settings)),
           DOMAIN old = {"providers", "strategies"}
    PROVE  LET r == SetStrategies(old, settings) IN
           /\ DOMAIN r = {"providers", "strategies"}
           /\ \A c \in Contract :
                 /\ r.providers[c] = old.providers[c]
                 /\ \/ /\ r.strategies[c] = old.strategies[c]
                       /\ \A k \in DOMAIN settings : settings[k][1] # c
                    \/ \E k \in DOMAIN settings :
                          settings[k][1] = c /\ r.strategies[c] = settings[k][2]
<1> DEFINE r == SetStrategies(old, settings)
<1>0. r = SetStrategies(old, settings)
    OBVIOUS
<1> HIDE DEF r
<1> DEFINE for(c) == {k \in DOMAIN settings : settings[k][1] = c}
           last(c) == CHOOSE k \in for(c) : \A j \in for(c) : j <= k
<1>1. /\ r.providers = old.providers
      /\ DOMAIN r = {"providers", "strategies"}
      /\ r.strategies = [c \in Contract |-> IF for(c) = {} THEN old.strategies[c]
                                           ELSE settings[last(c)][2]]
    BY <1>0 DEF SetStrategies
<1>2. ASSUME NEW c \in Contract, for(c) # {}
      PROVE  last(c) \in for(c)
  <2> DEFINE left == {n \in 0 .. Len(settings) : Len(settings) - n \in for(c)}
  <2>1. Len(settings) \in Nat /\ for(c) \subseteq 1 .. Len(settings)
      OBVIOUS
  <2>2. left # {} /\ left \in SUBSET Nat
    <3>1. PICK k \in for(c) : TRUE
        BY <1>2
    <3>2. Len(settings) - k \in 0 .. Len(settings) /\ Len(settings) - (Len(settings) - k) = k
        BY <2>1
    <3> QED
        BY <2>1, <3>2
  <2>3. PICK n \in left : \A m \in left : ~ (m < n)
    <3> HIDE DEF left
    <3> QED
        BY <2>2, Descent
  <2>4. ASSUME NEW j \in for(c) PROVE j <= Len(settings) - n
    <3>1. j \in 1 .. Len(settings) /\ Len(settings) - j \in 0 .. Len(settings)
        BY <2>1
    <3>2. Len(settings) - (Len(settings) - j) = j
        BY <2>1, <3>1
    <3>3. Len(settings) - j \in left
        BY <3>1, <3>2
    <3>4. ~ (Len(settings) - j < n)
        BY <2>3, <3>3
    <3> QED
        BY <2>1, <2>2, <3>1, <3>4
  <2>5. Len(settings) - n \in for(c)
      OBVIOUS
  <2> HIDE DEF for
  <2> QED
      BY <2>4, <2>5
<1>4. ASSUME NEW c \in Contract
      PROVE  \/ /\ r.strategies[c] = old.strategies[c]
                /\ \A k \in DOMAIN settings : settings[k][1] # c
             \/ \E k \in DOMAIN settings :
                   settings[k][1] = c /\ r.strategies[c] = settings[k][2]
  <2>1. CASE for(c) = {}
      BY <1>1, <2>1
  <2>2. CASE for(c) # {}
    <3>1. last(c) \in for(c) /\ r.strategies[c] = settings[last(c)][2]
        BY <1>1, <1>2, <2>2
    <3> HIDE DEF last
    <3> QED
        BY <3>1
  <2> QED
      BY <2>1, <2>2
<1> QED
    BY <1>1, <1>4 DEF r

(* A step of the Configure phase keeps the registry well formed.           *)
LEMMA ConfiguredRegistry ==
    ASSUME BuilderTyped, Configuring
    PROVE  BuilderTyped'
<1> USE DEF BuilderTyped
<1>1. CASE UNCHANGED registry /\ UNCHANGED applied
          /\ \E p \in Plugin : plugins' = Append(plugins, p)
    BY <1>1
<1>2. CASE UNCHANGED <<registry, applied, plugins>>
    BY <1>2
<1>3. ASSUME NEW c \in OwnCapability, WithCapability(c[1], c[2])
      PROVE  BuilderTyped'
  <2>1. /\ registry' = Register(registry, {<<c[1], c[2]>>}, Application)
        /\ UNCHANGED <<plugins, applied>>
      BY <1>3 DEF WithCapability, BuildVars
  <2>2. Application \in Nat
      BY DEF Application
  <2> DEFINE new == Register(registry, {<<c[1], c[2]>>}, Application)
  <2> HIDE DEF BuilderTyped
  <2>3. /\ DOMAIN new = {"providers", "strategies"}
        /\ \A d \in Contract :
              /\ new.strategies[d] = registry.strategies[d]
              /\ \A name \in DOMAIN new.providers[d] :
                    name \in Name /\ new.providers[d][name] \in Nat
      BY <2>2, RegisterTyped
  <2>4. registry' = new
      BY <2>1
  <2> HIDE DEF new
  <2> QED
      BY <2>1, <2>3, <2>4 DEF BuilderTyped
<1>4. CASE ApplyPlugin
  <2> DEFINE i == applied + 1
             filled == Register(registry, ToSet(plugins[i].capabilities), i)
             settings == plugins[i].strategies
  <2>1. /\ i \in Nat /\ i \in 1 .. Len(plugins) /\ plugins[i] \in Plugin
        /\ applied' = i /\ plugins' = plugins
        /\ registry' = SetStrategies(filled, settings)
      BY <1>4 DEF ApplyPlugin, RegisterCapabilities
  <2>2. /\ settings \in Seq(ToSet(settings))
        /\ \A k \in DOMAIN settings : IsStrategy(settings[k][2])
      BY <2>1, PluginAssumption
  <2> HIDE DEF BuilderTyped, filled, settings, i
  <2>3. /\ DOMAIN filled = {"providers", "strategies"}
        /\ \A d \in Contract :
              /\ filled.strategies[d] = registry.strategies[d]
              /\ \A name \in DOMAIN filled.providers[d] :
                    name \in Name /\ filled.providers[d][name] \in Nat
      BY <2>1, RegisterTyped DEF filled
  <2> DEFINE new == SetStrategies(filled, settings)
  <2>4. /\ DOMAIN new = {"providers", "strategies"}
        /\ \A d \in Contract :
              /\ new.providers[d] = filled.providers[d]
              /\ \/ new.strategies[d] = filled.strategies[d]
                 \/ \E k \in DOMAIN settings : new.strategies[d] = settings[k][2]
      BY <2>2, <2>3, SetStrategiesTyped
  <2> HIDE DEF new
  <2>8. registry' = new
      BY <2>1 DEF new
  <2>5. \A d \in Contract : IsStrategy(registry.strategies[d])
      BY DEF BuilderTyped
  <2>6. \A d \in Contract : IsStrategy(registry'.strategies[d])
      BY <2>2, <2>3, <2>4, <2>5, <2>8
  <2>7. plugins \in Seq(Plugin) /\ i \in 0 .. Len(plugins)
      BY <2>1 DEF BuilderTyped
  <2> QED
      BY <2>1, <2>3, <2>4, <2>6, <2>7, <2>8 DEF BuilderTyped
<1> HIDE DEF BuilderTyped
<1>5. ASSUME NEW p \in Plugin, WithPlugin(p) PROVE BuilderTyped'
    BY <1>1, <1>5 DEF WithPlugin, BuildVars
<1>6. ASSUME NEW r \in OwnResource, WithResource(r) PROVE BuilderTyped'
    BY <1>2, <1>6 DEF WithResource, BuildVars
<1>7. ASSUME NEW s \in OwnService, WithSupervised(s) PROVE BuilderTyped'
    BY <1>2, <1>7 DEF WithSupervised, BuildVars
<1> QED
    BY <1>3, <1>4, <1>5, <1>6, <1>7 DEF Configuring

(* No other step touches it.                                               *)
LEMMA BuilderTypedStep ==
    ASSUME BuilderTyped, BuilderStep
    PROVE  BuilderTyped'
<1>1. CASE UNCHANGED <<registry, applied, plugins>>
    BY <1>1 DEF BuilderTyped
<1>2. Freeze \/ Validate \/ StartService => UNCHANGED <<registry, applied, plugins>>
    BY DEF Freeze, Validate, StartService, BuildVars
<1>3. \A t \in Caller, c \in Contract : FetchAdd(t, c) => UNCHANGED <<registry, applied, plugins>>
    BY DEF FetchAdd
<1>4. \A t \in Caller : ResolvePick(t) => UNCHANGED <<registry, applied, plugins>>
    BY DEF ResolvePick
<1>5. UNCHANGED rvars => UNCHANGED <<registry, applied, plugins>>
    BY DEF rvars
<1> QED
    BY <1>1, <1>2, <1>3, <1>4, <1>5, ConfiguredRegistry DEF BuilderStep

(* It is empty to begin with.                                              *)
LEMMA BuilderTypedInit == RInit => BuilderTyped
BY DEF RInit, BuilderTyped, EmptyRegistry, IsStrategy, Single

(* The weights of a rotation are numbers and add up to more than zero.     *)
LEMMA WeightsAreWeighted ==
    ASSUME BuilderTyped, NEW c \in Contract, Rotates(registry, c)
    PROVE  Weighted(Weights(c)) /\ Total(Weights(c)) \in Nat \ {0}
<1>1. /\ IsStrategy(registry.strategies[c])
      /\ registry.strategies[c].kind = "WeightedRoundRobin"
      /\ Total(Weights(c)) > 0
    BY DEF BuilderTyped, Rotates, Weights
<1>2. Weights(c) \in Seq(Name \X Nat)
    BY <1>1 DEF IsStrategy, Single, Weights
<1>3. Weighted(Weights(c))
    BY <1>2 DEF Weighted
<1> QED
    BY <1>1, <1>3, TotalType

-----------------------------------------------------------------------------
(* Before the registries are frozen no call has been made.                 *)

(* A contract nobody has called owes nothing.                              *)
LEMMA UntouchedTally ==
    Untouched /\ LookupsTyped => \A c \in Contract : Tally(c)
<1> SUFFICES ASSUME Untouched, LookupsTyped, NEW c \in Contract PROVE Tally(c)
    OBVIOUS
<1>1. /\ Begun(c) = 0 /\ served[c] = << >>
      /\ InFlight(c) = {} /\ lookups \in Nat
    BY LookupsAssumption DEF Untouched, InFlight, LookupsTyped
<1> QED
    BY <1>1, FS_EmptySet DEF Tally, InFlightFor, AnsweredBy, Places, DueTo, Due

(* The counters begin untouched.                                           *)
LEMMA RotationInit == RInit => RotationInv
<1> SUFFICES ASSUME RInit PROVE RotationInv
    OBVIOUS
<1>1. BuilderTyped
    BY BuilderTypedInit
<1>2. LookupsTyped
    BY LookupsAssumption DEF RInit, LookupsTyped
<1>3. Untouched
    BY DEF RInit, Untouched, Begun
<1>4. Building
    BY DEF RInit, Building
<1> QED
    BY <1>1, <1>2, <1>3, <1>4, UntouchedTally DEF RotationInv, Counting

(* Configuring leaves them so.                                             *)
LEMMA RotationConfiguring ==
    ASSUME RotationInv, Configuring
    PROVE  RotationInv'
<1>1. Building /\ Building' /\ UNCHANGED <<rotation, pick, lookups, served>>
    BY DEF Configuring, WithPlugin, WithResource, WithCapability, WithSupervised,
           ApplyPlugin, BuildVars, MayConfigure, Building
<1>2. BuilderTyped'
    BY ConfiguredRegistry DEF RotationInv
<1>3. Untouched' /\ LookupsTyped'
    BY <1>1 DEF RotationInv, Counting, Untouched, LookupsTyped, Begun
<1>4. (Untouched /\ LookupsTyped => \A c \in Contract : Tally(c))'
    BY UntouchedTally, PTL
<1> QED
    BY <1>1, <1>2, <1>3, <1>4 DEF RotationInv, Counting

(* Freezing sets them to zero.                                             *)
LEMMA RotationFreeze ==
    ASSUME RotationInv, Freeze
    PROVE  RotationInv'
<1>1. /\ Building /\ ~ Building'
      /\ rotation' = FrozenRotation(registry)
      /\ UNCHANGED <<plugins, applied, registry, pick, lookups, served>>
    BY DEF Freeze, Building
<1>2. BuilderTyped'
    BY <1>1 DEF RotationInv, BuilderTyped
<1>3. Untouched' /\ LookupsTyped'
    BY <1>1, CapabilitiesAssumption
       DEF RotationInv, Counting, Untouched, LookupsTyped, Begun, FrozenRotation
<1>4. (Untouched /\ LookupsTyped => \A c \in Contract : Tally(c))'
    BY UntouchedTally, PTL
<1>5. \A c \in Contract :
          registry.strategies[c].kind = "WeightedRoundRobin" => rotation'[c] \in Nat
    BY <1>1 DEF FrozenRotation
<1> QED
    BY <1>1, <1>2, <1>3, <1>4, <1>5 DEF RotationInv, Counting

(* Steps that leave the registry, the counters and the calls alone.        *)
LEMMA RotationElsewhere ==
    ASSUME RotationInv, UNCHANGED <<registry, rotation, pick, lookups, served>>,
           Building <=> Building', BuilderTyped'
    PROVE  RotationInv'
<1>1. LookupsTyped'
    BY DEF RotationInv, LookupsTyped
<1>2. Counting'
    BY DEF RotationInv, Counting, Untouched, Begun
<1>3. ASSUME NEW c \in Contract PROVE Tally(c)'
  <2>1. Tally(c)
      BY DEF RotationInv
  <2> QED
      BY <2>1 DEF Tally, Begun, InFlight, InFlightFor, AnsweredBy, DueTo, Weights
<1> QED
    BY <1>1, <1>2, <1>3 DEF RotationInv

-----------------------------------------------------------------------------
(* One call takes the next slot of its contract's rotation.                *)
LEMMA RotationFetch ==
    ASSUME RotationInv, NEW t \in Caller, NEW c \in Contract, FetchAdd(t, c)
    PROVE  RotationInv'
<1> DEFINE slot == <<c, rotation[c] % Total(Weights(c))>>
<1>1. /\ phase = "built" /\ phase' = phase /\ lookups < MaxLookups /\ lookups' = lookups + 1
      /\ Rotates(registry, c) /\ pick[t] = None
      /\ pick' = [pick EXCEPT ![t] = slot]
      /\ rotation' = [rotation EXCEPT ![c] = (rotation[c] + 1) % CounterSize]
      /\ UNCHANGED <<plugins, applied, registry, served>>
    BY DEF FetchAdd, MayLookup, Weights
<1>2. BuilderTyped /\ LookupsTyped /\ Counting /\ \A d \in Contract : Tally(d)
    BY DEF RotationInv
<1>3. /\ ~ Building /\ ~ Building'
      /\ rotation[c] \in Nat
    BY <1>1, <1>2 DEF Building, Counting, Rotates
<1>4. /\ Weighted(Weights(c)) /\ Total(Weights(c)) \in Nat \ {0}
      /\ rotation[c] % Total(Weights(c)) \in Nat
  <2>1. Weighted(Weights(c)) /\ Total(Weights(c)) \in Nat \ {0}
      BY <1>1, <1>2, WeightsAreWeighted
  <2> QED
      BY <1>3, <2>1
<1>5. /\ MaxLookups \in Nat /\ MaxLookups < CounterSize /\ CounterSize \in Nat
      /\ None \notin Nat /\ None \notin Contract \X Nat
    BY LookupsAssumption, CapabilitiesAssumption
<1>6. /\ Begun(c) = rotation[c] /\ rotation[c] <= lookups /\ lookups \in Nat
  <2>1. Begun(c) <= lookups /\ lookups \in Nat
      BY <1>2, <1>5 DEF Tally, LookupsTyped
  <2> QED
      BY <1>3, <1>5, <2>1 DEF Begun
<1>7. (rotation[c] + 1) % CounterSize = rotation[c] + 1
  <2>1. rotation[c] + 1 \in Nat /\ rotation[c] + 1 < CounterSize /\ CounterSize \in Nat \ {0}
      BY <1>1, <1>3, <1>5, <1>6
  <2>2. \A x \in Nat, m \in Nat \ {0} : x < m => x % m = x
      OBVIOUS
  <2> QED
      BY <2>1, <2>2
<1>8. /\ slot \in Contract \X Nat /\ slot # None
    BY <1>4, <1>5
<1>9. BuilderTyped'
    BY <1>1, <1>2 DEF BuilderTyped
<1>10. LookupsTyped'
  <2>1. /\ rotation \in [Contract -> Nat \cup {None}]
        /\ pick \in [Caller -> (Contract \X Nat) \cup {None}]
        /\ served' \in [Contract -> Seq(Nat \cup {None})]
      BY <1>1, <1>2 DEF LookupsTyped
  <2>2. rotation' \in [Contract -> Nat \cup {None}]
      BY <1>1, <1>3, <1>7, <2>1
  <2>3. pick' \in [Caller -> (Contract \X Nat) \cup {None}]
      BY <1>1, <1>8, <2>1
  <2>4. lookups' \in 0 .. MaxLookups
      BY <1>1, <1>5, <1>6
  <2> QED
      BY <2>1, <2>2, <2>3, <2>4 DEF LookupsTyped
<1>11. Counting'
    BY <1>1, <1>2, <1>3, <1>7 DEF Counting, LookupsTyped
<1>12. ASSUME NEW d \in Contract, d # c
       PROVE  Tally(d)'
  <2>1. Tally(d) /\ Begun(d)' = Begun(d) /\ lookups' = lookups + 1
        /\ Begun(d) \in Nat /\ lookups \in Nat
      BY <1>1, <1>2, <1>6, <1>12, <1>5 DEF Begun, LookupsTyped
  <2>2. InFlight(d)' = InFlight(d)
      BY <1>1, <1>2, <1>8, <1>12 DEF InFlight, LookupsTyped
  <2>3. \A u \in InFlight(d) : pick'[u] = pick[u]
      BY <1>1, <1>2 DEF InFlight, LookupsTyped
  <2>4. \A provider \in Nat : InFlightFor(d, provider)' = InFlightFor(d, provider)
      BY <1>1, <2>2, <2>3 DEF InFlightFor, Weights
  <2> QED
      BY <1>1, <2>1, <2>2, <2>4 DEF Tally, AnsweredBy, DueTo, Weights
<1>13. Tally(c)'
  <2>1. Tally(c) /\ Begun(c)' = Begun(c) + 1 /\ Begun(c) \in Nat
      BY <1>1, <1>2, <1>3, <1>5, <1>6, <1>7 DEF Begun, LookupsTyped
  <2>2. InFlight(c)' = InFlight(c) \cup {t} /\ t \notin InFlight(c)
      BY <1>1, <1>2, <1>8 DEF InFlight, LookupsTyped
  <2>3. /\ \A u \in InFlight(c) : pick'[u] = pick[u]
        /\ pick'[t] = slot
      BY <1>1, <1>2 DEF InFlight, LookupsTyped
  <2>4. IsFiniteSet(InFlight(c)) /\ Cardinality(InFlight(c)) \in Nat
      BY <2>1, FS_CardinalityType DEF Tally
  <2>5. IsFiniteSet(InFlight(c)') /\ Cardinality(InFlight(c)') = Cardinality(InFlight(c)) + 1
      BY <2>2, <2>4, FS_AddElement
  <2>6. ASSUME NEW provider \in Nat
        PROVE  Cardinality(AnsweredBy(c, provider)') + Cardinality(InFlightFor(c, provider)')
                   = Cardinality(DueTo(c, provider)')
    <3> DEFINE mine == Chosen(Weights(c), registry.providers[c],
                              rotation[c] % Total(Weights(c))) = provider
    <3>1. InFlightFor(c, provider)' =
              IF mine THEN InFlightFor(c, provider) \cup {t} ELSE InFlightFor(c, provider)
        BY <1>1, <2>2, <2>3 DEF InFlightFor, Weights
    <3>2. /\ IsFiniteSet(InFlightFor(c, provider))
          /\ Cardinality(InFlightFor(c, provider)) \in Nat
          /\ t \notin InFlightFor(c, provider)
      <4>1. InFlightFor(c, provider) \subseteq InFlight(c)
          BY DEF InFlightFor
      <4> QED
          BY <2>2, <2>4, <4>1, FS_Subset, FS_CardinalityType
    <3>3. Cardinality(InFlightFor(c, provider)') =
              Cardinality(InFlightFor(c, provider)) + (IF mine THEN 1 ELSE 0)
      <4>1. Cardinality(InFlightFor(c, provider) \cup {t}) =
                Cardinality(InFlightFor(c, provider)) + 1
          BY <3>2, FS_AddElement
      <4> HIDE DEF mine
      <4> QED
          BY <3>1, <3>2, <4>1
    <3>4. /\ DueTo(c, provider)' =
                 Due(Weights(c), registry.providers[c], provider, rotation[c] + 1)
          /\ DueTo(c, provider) =
                 Due(Weights(c), registry.providers[c], provider, rotation[c])
        BY <1>1, <1>6, <2>1 DEF DueTo, Weights
    <3>5. /\ Cardinality(DueTo(c, provider)') =
                 Cardinality(DueTo(c, provider)) + (IF mine THEN 1 ELSE 0)
          /\ Cardinality(DueTo(c, provider)) \in Nat
        BY <1>3, <3>4, NextDue
    <3>6. AnsweredBy(c, provider)' = AnsweredBy(c, provider)
        BY <1>1 DEF AnsweredBy
    <3>7. Cardinality(AnsweredBy(c, provider)) \in Nat
      <4>1. served[c] \in Seq(Nat \cup {None})
          BY <1>2 DEF LookupsTyped
      <4>2. None \in Nat \cup {None}
          OBVIOUS
      <4> QED
          BY <4>1, <4>2, CountAppend DEF AnsweredBy
    <3>8. Cardinality(AnsweredBy(c, provider)) + Cardinality(InFlightFor(c, provider))
              = Cardinality(DueTo(c, provider))
        BY <2>1 DEF Tally
    <3> HIDE DEF mine
    <3> QED
        BY <3>2, <3>3, <3>5, <3>6, <3>7, <3>8
  <2>7. Begun(c)' <= lookups' /\ served' = served
      BY <1>1, <1>6, <2>1
  <2>8. Len(served[c]) + Cardinality(InFlight(c)) = Begun(c) /\ Len(served[c]) \in Nat
      BY <1>2, <2>1 DEF Tally, LookupsTyped
  <2>9. Len(served[c])' + Cardinality(InFlight(c)') = Begun(c)'
      BY <2>1, <2>4, <2>5, <2>7, <2>8
  <2> QED
      BY <2>5, <2>6, <2>7, <2>9 DEF Tally
<1> QED
    BY <1>9, <1>10, <1>11, <1>12, <1>13 DEF RotationInv

(* A call that returns leaves its slot to the answers.                     *)
LEMMA RotationResolve ==
    ASSUME RotationInv, NEW t \in Caller, ResolvePick(t),
           NEW c \in Contract, NEW slot \in Nat, pick[t] = <<c, slot>>
    PROVE  RotationInv'
<1> DEFINE answer == Chosen(Weights(c), registry.providers[c], slot)
<1>1. BuilderTyped /\ LookupsTyped /\ Counting /\ \A d \in Contract : Tally(d)
    BY DEF RotationInv
<1>2. /\ pick[t] # None /\ pick[t][1] = c /\ pick[t][2] = slot
      /\ None \notin Nat /\ None \notin Contract \X Nat
    BY CapabilitiesAssumption DEF ResolvePick
<1>3. /\ served' = [served EXCEPT ![c] = Append(served[c], answer)]
      /\ pick' = [pick EXCEPT ![t] = None]
      /\ UNCHANGED <<phase, plugins, applied, registry, rotation, lookups>>
    BY <1>2 DEF ResolvePick, Chosen, Weights
<1>4. answer \in Nat \cup {None}
    BY <1>1, <1>2 DEF Chosen, ResolveProvider, BuilderTyped
<1> HIDE DEF answer
<1>5. BuilderTyped'
    BY <1>1, <1>3 DEF BuilderTyped
<1>6. LookupsTyped'
  <2>1. Append(served[c], answer) \in Seq(Nat \cup {None})
      BY <1>1, <1>2, <1>4 DEF LookupsTyped
  <2> QED
      BY <1>1, <1>3, <2>1 DEF LookupsTyped
<1>7. ~ Building
    BY <1>1, <1>2 DEF Counting, Untouched
<1>8. Counting'
    BY <1>1, <1>3, <1>7 DEF Counting, Building
<1>9. ASSUME NEW d \in Contract, d # c
      PROVE  Tally(d)'
  <2>1. /\ Tally(d) /\ Begun(d)' = Begun(d) /\ lookups' = lookups
        /\ served'[d] = served[d]
      BY <1>1, <1>3, <1>9 DEF Begun, LookupsTyped
  <2>2. InFlight(d)' = InFlight(d)
      BY <1>1, <1>2, <1>3, <1>9 DEF InFlight, LookupsTyped
  <2>3. \A u \in InFlight(d) : pick'[u] = pick[u]
    <3>1. t \notin InFlight(d)
        BY <1>2, <1>9 DEF InFlight
    <3> QED
        BY <1>1, <1>3, <3>1 DEF InFlight, LookupsTyped
  <2>4. \A provider \in Nat : InFlightFor(d, provider)' = InFlightFor(d, provider)
      BY <1>3, <2>2, <2>3 DEF InFlightFor, Weights
  <2> QED
      BY <1>3, <2>1, <2>2, <2>4 DEF Tally, AnsweredBy, DueTo, Weights
<1>10. Tally(c)'
  <2>1. Tally(c) /\ Begun(c)' = Begun(c)
      BY <1>1, <1>2, <1>3 DEF Begun
  <2>2. InFlight(c)' = InFlight(c) \ {t} /\ t \in InFlight(c)
      BY <1>1, <1>2, <1>3 DEF InFlight, LookupsTyped
  <2>3. \A u \in InFlight(c)' : pick'[u] = pick[u]
      BY <1>1, <1>3, <2>2 DEF InFlight, LookupsTyped
  <2>4. IsFiniteSet(InFlight(c)) /\ Cardinality(InFlight(c)) \in Nat
      BY <2>1, FS_CardinalityType DEF Tally
  <2>5. IsFiniteSet(InFlight(c)') /\ Cardinality(InFlight(c)') = Cardinality(InFlight(c)) - 1
      BY <2>2, <2>4, FS_RemoveElement
  <2>6. served[c] \in Seq(Nat \cup {None}) /\ served'[c] = Append(served[c], answer)
      BY <1>1, <1>2, <1>3 DEF LookupsTyped
  <2>7. ASSUME NEW provider \in Nat
        PROVE  Cardinality(AnsweredBy(c, provider)') + Cardinality(InFlightFor(c, provider)')
                   = Cardinality(DueTo(c, provider)')
    <3>1. InFlightFor(c, provider)' =
              IF answer = provider THEN InFlightFor(c, provider) \ {t}
              ELSE InFlightFor(c, provider)
        BY <1>2, <1>3, <2>2, <2>3 DEF InFlightFor, Weights, answer
    <3>2. /\ IsFiniteSet(InFlightFor(c, provider))
          /\ Cardinality(InFlightFor(c, provider)) \in Nat
          /\ answer = provider => t \in InFlightFor(c, provider)
      <4>1. InFlightFor(c, provider) \subseteq InFlight(c)
          BY DEF InFlightFor
      <4>2. answer = provider => t \in InFlightFor(c, provider)
          BY <1>2, <2>2 DEF InFlightFor, answer
      <4> QED
          BY <2>4, <4>1, <4>2, FS_Subset, FS_CardinalityType
    <3>3. Cardinality(InFlightFor(c, provider)') =
              Cardinality(InFlightFor(c, provider)) - (IF answer = provider THEN 1 ELSE 0)
      <4>1. answer = provider =>
                Cardinality(InFlightFor(c, provider) \ {t}) =
                    Cardinality(InFlightFor(c, provider)) - 1
          BY <3>2, FS_RemoveElement
      <4> QED
          BY <3>1, <3>2, <4>1
    <3>4. DueTo(c, provider)' = DueTo(c, provider)
        BY <1>3, <2>1 DEF DueTo, Weights
    <3>5. /\ Cardinality(AnsweredBy(c, provider)) \in Nat
          /\ Cardinality(AnsweredBy(c, provider)') =
                 Cardinality(AnsweredBy(c, provider)) + (IF answer = provider THEN 1 ELSE 0)
      <4>1. /\ AnsweredBy(c, provider) = Places(served[c], provider)
            /\ AnsweredBy(c, provider)' = Places(Append(served[c], answer), provider)
          BY <2>6 DEF AnsweredBy
      <4> QED
          BY <1>4, <2>6, <4>1, CountAppend
    <3>6. Cardinality(AnsweredBy(c, provider)) + Cardinality(InFlightFor(c, provider))
              = Cardinality(DueTo(c, provider))
        BY <2>1 DEF Tally
    <3> QED
        BY <3>2, <3>3, <3>4, <3>5, <3>6
  <2>8. Begun(c)' <= lookups'
      BY <1>3, <2>1 DEF Tally
  <2>9. Len(served[c]) + Cardinality(InFlight(c)) = Begun(c) /\ Len(served[c]) \in Nat
      BY <2>1, <2>6 DEF Tally
  <2>10. Len(served'[c]) = Len(served[c]) + 1
      BY <1>4, <2>6
  <2>11. Len(served'[c]) + Cardinality(InFlight(c)') = Begun(c)'
      BY <2>1, <2>4, <2>5, <2>9, <2>10
  <2> QED
      BY <2>5, <2>7, <2>8, <2>11 DEF Tally
<1>11. \A d \in Contract : Tally(d)'
    BY <1>9, <1>10
<1> QED
    BY <1>5, <1>6, <1>8, <1>11 DEF RotationInv

(* Every step keeps the tally of every contract.                           *)
LEMMA RotationStep ==
    ASSUME RotationInv, BuilderStep
    PROVE  RotationInv'
<1>1. BuilderTyped'
    BY BuilderTypedStep DEF RotationInv
<1>2. CASE Validate
    BY <1>1, <1>2, RotationElsewhere DEF Validate, BuildVars, Building
<1>3. CASE StartService
    BY <1>1, <1>3, RotationElsewhere DEF StartService, Building
<1>4. CASE UNCHANGED rvars
    BY <1>1, <1>4, RotationElsewhere DEF rvars, Building
<1>5. ASSUME NEW t \in Caller, ResolvePick(t)
      PROVE  RotationInv'
  <2>1. pick[t] \in Contract \X Nat
      BY <1>5 DEF RotationInv, LookupsTyped, ResolvePick
  <2>2. PICK c \in Contract, slot \in Nat : pick[t] = <<c, slot>>
      BY <2>1
  <2> QED
      BY <1>5, <2>2, RotationResolve
<1> QED
    BY <1>2, <1>3, <1>4, <1>5, RotationConfiguring, RotationFreeze, RotationFetch
       DEF BuilderStep

(* The answers of a rotation and the calls that wait for one are, at any   *)
(* time, exactly those its counter has handed out (FrozenRegistry,         *)
(* fetch_add).                                                             *)
THEOREM RotationInvariance == ASpec => []RotationInv
<1>1. AInit => RotationInv
    BY RotationInit DEF AInit
<1>2. RotationInv /\ [ANext]_<<rvars, avars>> => RotationInv'
    BY StepOfBuilder, RotationStep
<1> QED
    BY <1>1, <1>2, PTL DEF ASpec

(* When no call waits and the calls make whole rounds, the tally is the    *)
(* balance.                                                                *)
LEMMA RotationIsBalanced == RotationInv => Balanced
<1> SUFFICES ASSUME RotationInv, NEW c \in Contract, Rotates(registry, c), Idle,
                    Len(served[c]) % Total(Weights(c)) = 0,
                    NEW provider \in 0 .. Len(plugins)
             PROVE  AnswersOf(c, provider) =
                        (Len(served[c]) \div Total(Weights(c)))
                        * WeightOf(Weights(c), registry.providers[c], provider)
    BY DEF Balanced, Weights
<1> DEFINE n == Len(served[c])
           T == Total(Weights(c))
<1>1. Weighted(Weights(c)) /\ T \in Nat \ {0}
    BY WeightsAreWeighted DEF RotationInv
<1>2. Tally(c) /\ n \in Nat /\ provider \in Nat
  <2>1. served[c] \in Seq(Nat \cup {None}) /\ Len(plugins) \in Nat
      BY DEF RotationInv, LookupsTyped, BuilderTyped
  <2> QED
      BY <2>1 DEF RotationInv
<1>3. InFlight(c) = {} /\ InFlightFor(c, provider) = {}
    BY DEF Idle, InFlight, InFlightFor
<1>4. Cardinality({}) = 0
    BY FS_EmptySet
<1>5. Begun(c) = n
    BY <1>2, <1>3, <1>4 DEF Tally
<1>6. n = (n \div T) * T /\ n \div T \in Nat
  <2>1. \A x \in Nat, m \in Nat \ {0} : x % m = 0 => x = (x \div m) * m /\ x \div m \in Nat
      OBVIOUS
  <2> HIDE DEF n, T
  <2> QED
      BY <1>1, <1>2, <2>1 DEF n, T
<1>7. DueTo(c, provider) = Due(Weights(c), registry.providers[c], provider, (n \div T) * T)
    BY <1>5, <1>6 DEF DueTo
<1>8. Cardinality(DueTo(c, provider)) =
          (n \div T) * WeightOf(Weights(c), registry.providers[c], provider)
  <2>1. Total(Weights(c)) > 0
      BY <1>1
  <2>2. \A m \in Nat :
            Cardinality(Due(Weights(c), registry.providers[c], provider, m * T)) =
                m * WeightOf(Weights(c), registry.providers[c], provider)
      BY <1>1, <2>1, DueOfRounds
  <2> QED
      BY <1>6, <1>7, <2>2, Zenon
<1>9. Cardinality(AnsweredBy(c, provider)) = Cardinality(DueTo(c, provider))
  <2>1. Cardinality(AnsweredBy(c, provider)) \in Nat
    <3>1. served[c] \in Seq(Nat \cup {None}) /\ None \in Nat \cup {None}
        BY DEF RotationInv, LookupsTyped
    <3> QED
        BY <3>1, CountAppend DEF AnsweredBy
  <2>2. Cardinality(AnsweredBy(c, provider)) + 0 = Cardinality(DueTo(c, provider))
      BY <1>2, <1>3, <1>4 DEF Tally
  <2> QED
      BY <2>1, <2>2
<1>10. AnswersOf(c, provider) = Cardinality(AnsweredBy(c, provider))
    BY DEF AnswersOf, AnsweredBy, Places
<1> QED
    BY <1>8, <1>9, <1>10

(* A weighted round robin is exact, whatever callers race.                 *)
THEOREM BalancedHolds == ASpec => []Balanced
<1>1. RotationInv => Balanced
    BY RotationIsBalanced
<1> QED
    BY <1>1, RotationInvariance, PTL

-----------------------------------------------------------------------------
(* What the plugins have provided so far.                                  *)
Done == 1 .. applied

PlannedService == OwnService \cup UNION {ToSet(plugins[i].services) : i \in Done}

ResourcesIn ==
    /\ \A r \in DOMAIN resources : resources[r] \in Nat
    /\ \A i \in Done : ToSet(plugins[i].resources) \subseteq DOMAIN resources

ProvidersIn ==
    \A c \in Contract : \A i \in Done : \A name \in Name :
        <<c, name>> \in ToSet(plugins[i].capabilities) =>
            name \in DOMAIN registry.providers[c]

ServicesIn ==
    /\ services \in Seq(PlannedService) /\ staged \in Seq(PlannedService)
    /\ started \in 0 .. Len(services)

Validated ==
    /\ phase \in {"configure", "applying", "frozen", "built", "rejected", "startFailed"}
    /\ ~ Building => applied = Len(plugins)
    /\ phase \in {"built", "startFailed"} => \A i \in Done : MetBy(plugins[i])

(* A start has failed only for what a service looked up.                   *)
Blamed ==
    phase = "startFailed" =>
        /\ started < Len(services)
        /\ ~ LookupsSucceed(services[started + 1])

ResolvingInv ==
    /\ BuilderTyped
    /\ ResourcesIn
    /\ ProvidersIn
    /\ ServicesIn
    /\ Validated
    /\ Blamed

(* A contract one of whose users has been applied, and whose requirements  *)
(* are met, has a provider.                                                *)
LEMMA HasProvider ==
    ASSUME ResolvingInv, phase \in {"built", "startFailed"}, NEW i \in Done,
           NEW c \in Contract, Declares(plugins[i], c)
    PROVE  ContainsType(registry, c)
<1>1. CASE \E capability \in ToSet(plugins[i].capabilities) :
               capability \in Contract \X Name /\ capability[1] = c
  <2>1. PICK capability \in ToSet(plugins[i].capabilities) :
            capability \in Contract \X Name /\ capability[1] = c
      BY <1>1
  <2>2. capability[2] \in Name /\ <<c, capability[2]>> = capability
      BY <2>1
  <2>3. capability[2] \in DOMAIN registry.providers[c]
      BY <2>1, <2>2 DEF ResolvingInv, ProvidersIn
  <2> QED
      BY <2>3 DEF ContainsType
<1>2. CASE \E k \in DOMAIN plugins[i].requires : plugins[i].requires[k][1] = c
  <2>1. PICK k \in DOMAIN plugins[i].requires : plugins[i].requires[k][1] = c
      BY <1>2
  <2>2. Satisfied(plugins[i].requires[k])
      BY DEF ResolvingInv, Validated, MetBy
  <2> QED
      BY <2>1, <2>2 DEF Satisfied, ContainsType, ContainsTypedName
<1> QED
    BY <1>1, <1>2 DEF Declares

(* A chain that names a provider that is registered finds one.             *)
LEMMA ChainFinds ==
    ASSUME NEW bucket, NEW chain, chain \in Seq(Name),
           NEW name \in DOMAIN bucket, name \in ToSet(chain),
           \A n \in DOMAIN bucket : bucket[n] # None
    PROVE  FirstRegistered(bucket, chain) # None
<1> DEFINE found == {i \in DOMAIN chain : chain[i] \in DOMAIN bucket}
<1>1. found # {}
    BY DEF ToSet
<1>2. PICK i \in found : \A j \in found : ~ (j < i)
  <2>1. found \in SUBSET Nat
      OBVIOUS
  <2> HIDE DEF found
  <2> QED
      BY <1>1, <2>1, Descent
<1>3. \A j \in found : i <= j
  <2>1. found \in SUBSET Nat
      OBVIOUS
  <2> HIDE DEF found
  <2> QED
      BY <1>2, <2>1
<1> DEFINE first == CHOOSE k \in found : \A j \in found : k <= j
<1>4. first \in found
  <2> HIDE DEF found
  <2> QED
      BY <1>2, <1>3
<1>5. bucket[chain[first]] # None
  <2> HIDE DEF first
  <2> QED
      BY <1>4
<1>6. FirstRegistered(bucket, chain) = bucket[chain[first]]
    BY <1>1 DEF FirstRegistered
<1> QED
    BY <1>5, <1>6

(* Capabilities::get finds a provider of a contract whose names meet its   *)
(* strategy.                                                               *)
LEMMA ReachedResolves ==
    ASSUME BuilderTyped, NEW c \in Contract, Reached(c)
    PROVE  None \notin Obtainable(registry, c)
<1> DEFINE bucket == registry.providers[c]
           strategy == registry.strategies[c]
<1>1. \A name \in DOMAIN bucket : bucket[name] # None
    BY CapabilitiesAssumption DEF BuilderTyped
<1>2. IsStrategy(strategy)
    BY DEF BuilderTyped
<1>3. CASE strategy.kind = "Single" /\ DefaultName \in DOMAIN bucket
  <2>1. ~ Rotates(registry, c)
      BY <1>3 DEF Rotates
  <2>2. GetFixed(registry, c) = bucket[DefaultName]
      BY <1>3 DEF GetFixed, ResolveProvider
  <2> QED
      BY <1>1, <1>3, <2>1, <2>2 DEF Obtainable
<1>4. CASE strategy.kind = "Fallback" /\ ToSet(strategy.chain) \cap DOMAIN bucket # {}
  <2>1. strategy.chain \in Seq(Name)
      BY <1>2, <1>4 DEF IsStrategy, Single
  <2>2. FirstRegistered(bucket, strategy.chain) # None
    <3>1. PICK name \in DOMAIN bucket : name \in ToSet(strategy.chain)
        BY <1>4
    <3> HIDE DEF bucket, strategy
    <3> QED
        BY <1>1, <2>1, <3>1, ChainFinds
  <2>3. ~ Rotates(registry, c)
      BY <1>4 DEF Rotates
  <2>4. GetFixed(registry, c) = FirstRegistered(bucket, strategy.chain)
      BY <1>4 DEF GetFixed
  <2> QED
      BY <2>2, <2>3, <2>4 DEF Obtainable
<1>5. ASSUME strategy.kind = "WeightedRoundRobin", Total(strategy.weights) > 0,
             \A e \in DOMAIN strategy.weights :
                 strategy.weights[e][2] > 0 => strategy.weights[e][1] \in DOMAIN bucket
      PROVE  None \notin Obtainable(registry, c)
  <2> DEFINE w == strategy.weights
  <2>1. w \in Seq(Name \X Nat) /\ Weighted(w)
    <3>1. w \in Seq(Name \X Nat)
        BY <1>2, <1>5 DEF IsStrategy, Single
    <3> HIDE DEF w
    <3> QED
        BY <3>1 DEF Weighted
  <2>2. ASSUME NEW k \in 0 .. Total(w) - 1
        PROVE  ResolveProvider(bucket, PickedName(w, k)) # None
    <3> DEFINE e == PickedEntry(w, k)
    <3>1. e \in DOMAIN w /\ w[e][2] > 0
        BY <2>1, <2>2, PickedEntryIs, PickedHasWeight DEF Weighted
    <3> QED
        BY <1>1, <1>5, <3>1 DEF ResolveProvider, PickedName
  <2>3. Rotates(registry, c)
    <3>1. Total(w) \in Nat
        BY <2>1, TotalType
    <3>2. 0 \in 0 .. Total(w) - 1
        BY <1>5, <3>1
    <3>3. PickedName(w, 0) \in DOMAIN bucket
      <4>1. PickedEntry(w, 0) \in DOMAIN w /\ w[PickedEntry(w, 0)][2] > 0
          BY <2>1, <3>2, PickedEntryIs, PickedHasWeight DEF Weighted
      <4> QED
          BY <1>5, <4>1 DEF PickedName
    <3> QED
        BY <1>5, <3>3 DEF Rotates, ContainsType
  <2> QED
      BY <2>2, <2>3 DEF Obtainable
<1> QED
    BY <1>3, <1>4, <1>5 DEF Reached

(* The resources and the contracts of the service of an applied plugin are *)
(* there once its build has passed validation.                             *)
LEMMA ServiceFinds ==
    ASSUME ResolvingInv, phase \in {"built", "startFailed"},
           NEW s \in PlannedService, s \notin OwnService
    PROVE  /\ \A r \in s.reads : ContextResource(r) # None
           /\ \A c \in s.uses : c \in Contract /\ ContainsType(registry, c)
<1>1. PICK i \in Done : s \in ToSet(plugins[i].services)
    BY DEF PlannedService
<1>2. plugins[i] \in Plugin
    BY DEF ResolvingInv, BuilderTyped, Done
<1>3. ASSUME NEW r \in s.reads PROVE ContextResource(r) # None
  <2>1. r \in ToSet(plugins[i].resources)
      BY <1>1, <1>2, <1>3, ServicesAssumption
  <2>2. r \in DOMAIN resources /\ resources[r] \in Nat
      BY <2>1 DEF ResolvingInv, ResourcesIn
  <2> QED
      BY <2>2, CapabilitiesAssumption DEF ContextResource, ResolveProvider
<1>4. ASSUME NEW c \in s.uses PROVE c \in Contract /\ ContainsType(registry, c)
  <2>1. c \in Contract /\ Declares(plugins[i], c)
      BY <1>1, <1>2, <1>4, ServicesAssumption
  <2> QED
      BY <2>1, HasProvider
<1> QED
    BY <1>3, <1>4

(* Steps that leave what has been provided alone.                          *)
LEMMA ResolvingElsewhere ==
    ASSUME ResolvingInv, BuilderTyped',
           UNCHANGED <<applied, resources, registry, services, staged, started>>,
           \A i \in Done : plugins'[i] = plugins[i]
    PROVE  ResourcesIn' /\ ProvidersIn' /\ ServicesIn'
<1>1. Done' = Done
    BY DEF Done
<1>2. PlannedService' = PlannedService
    BY <1>1 DEF PlannedService
<1>3. ResourcesIn'
    BY <1>1 DEF ResolvingInv, ResourcesIn
<1>4. ProvidersIn'
    BY <1>1 DEF ResolvingInv, ProvidersIn
<1>5. ServicesIn'
    BY <1>2 DEF ResolvingInv, ServicesIn
<1> QED
    BY <1>3, <1>4, <1>5

(* A plugin that is added has not been applied.                            *)
LEMMA ResolvingPlugin ==
    ASSUME ResolvingInv, NEW p \in Plugin, WithPlugin(p)
    PROVE  ResolvingInv'
<1>1. /\ plugins' = Append(plugins, p) /\ phase = "configure" /\ phase' = "configure"
      /\ UNCHANGED <<applied, resources, registry, services, staged, started>>
    BY DEF WithPlugin, BuildVars
<1>2. BuilderTyped'
    BY ConfiguredRegistry DEF ResolvingInv, Configuring
<1>3. \A i \in Done : plugins'[i] = plugins[i]
    BY <1>1 DEF ResolvingInv, BuilderTyped, Done
<1>4. Validated' /\ Blamed'
    BY <1>1 DEF Validated, Blamed, Building
<1> QED
    BY <1>1, <1>2, <1>3, <1>4, ResolvingElsewhere DEF ResolvingInv

(* A resource that is inserted again is replaced.                          *)
LEMMA ResolvingResource ==
    ASSUME ResolvingInv, NEW r \in OwnResource, WithResource(r)
    PROVE  ResolvingInv'
<1>1. /\ resources' = Put(resources, r, Application)
      /\ phase = "configure" /\ phase' = "configure"
      /\ UNCHANGED <<plugins, applied, registry, services, staged, started>>
    BY DEF WithResource, BuildVars, MayConfigure, Insert
<1>2. BuilderTyped'
    BY <1>1 DEF ResolvingInv, BuilderTyped
<1>3. Validated' /\ Blamed'
    BY <1>1 DEF Validated, Blamed, Building
<1>4. ResourcesIn'
  <2>1. /\ DOMAIN resources' = DOMAIN resources \cup {r}
        /\ resources'[r] = 0
        /\ \A x \in DOMAIN resources \ {r} : resources'[x] = resources[x]
      BY <1>1 DEF Put, Extend, Application
  <2> QED
      BY <1>1, <2>1 DEF ResolvingInv, ResourcesIn, Done
<1>5. ProvidersIn' /\ ServicesIn'
    BY <1>1 DEF ResolvingInv, ProvidersIn, ServicesIn, PlannedService, Done
<1> QED
    BY <1>2, <1>3, <1>4, <1>5 DEF ResolvingInv

(* A capability the application registers adds its name to the contract.   *)
LEMMA ResolvingCapability ==
    ASSUME ResolvingInv, NEW o \in OwnCapability, WithCapability(o[1], o[2])
    PROVE  ResolvingInv'
<1> DEFINE given == {<<o[1], o[2]>>}
           filled == Register(registry, given, Application)
<1>1. /\ registry' = filled
      /\ phase = "configure" /\ phase' = "configure"
      /\ UNCHANGED <<plugins, applied, resources, services, staged, started>>
    BY DEF WithCapability, BuildVars, MayConfigure
<1>2. BuilderTyped'
    BY ConfiguredRegistry DEF ResolvingInv, Configuring
<1>3. Validated' /\ Blamed'
    BY <1>1 DEF Validated, Blamed, Building
<1>4. ResourcesIn' /\ ServicesIn'
    BY <1>1 DEF ResolvingInv, ResourcesIn, ServicesIn, PlannedService, Done
<1>5. \A c \in Contract :
          /\ filled.strategies[c] = registry.strategies[c]
          /\ DOMAIN filled.providers[c] =
                 DOMAIN registry.providers[c]
                 \cup {name \in Name : <<c, name>> \in given}
  <2>1. Application \in Nat
      BY DEF Application
  <2>2. BuilderTyped
      BY DEF ResolvingInv
  <2> HIDE DEF given
  <2> QED
      BY <2>1, <2>2, RegisterTyped
<1> HIDE DEF filled
<1>6. ProvidersIn'
  <2>1. ASSUME NEW c \in Contract, NEW i \in Done', NEW name \in Name,
               <<c, name>> \in ToSet(plugins'[i].capabilities)
        PROVE  name \in DOMAIN registry'.providers[c]
    <3>1. name \in DOMAIN registry.providers[c]
        BY <1>1, <2>1 DEF ResolvingInv, ProvidersIn, Done
    <3> QED
        BY <1>1, <1>5, <3>1
  <2> QED
      BY <1>1, <2>1 DEF ProvidersIn
<1> QED
    BY <1>2, <1>3, <1>4, <1>6 DEF ResolvingInv

(* A service the application adds is one of its own.                       *)
LEMMA ResolvingSupervised ==
    ASSUME ResolvingInv, NEW s \in OwnService, WithSupervised(s)
    PROVE  ResolvingInv'
<1>1. /\ services' = Append(services, s)
      /\ phase = "configure" /\ phase' = "configure"
      /\ UNCHANGED <<plugins, applied, resources, registry, staged, started>>
    BY DEF WithSupervised, BuildVars, MayConfigure
<1>2. BuilderTyped'
    BY <1>1 DEF ResolvingInv, BuilderTyped
<1>3. Validated' /\ Blamed'
    BY <1>1 DEF Validated, Blamed, Building
<1>4. ResourcesIn' /\ ProvidersIn'
    BY <1>1 DEF ResolvingInv, ResourcesIn, ProvidersIn, Done
<1>5. ServicesIn'
  <2>1. PlannedService' = PlannedService /\ s \in PlannedService
      BY <1>1 DEF PlannedService, Done
  <2>2. services \in Seq(PlannedService) /\ staged \in Seq(PlannedService) /\ started \in 0 .. Len(services)
      BY DEF ResolvingInv, ServicesIn
  <2>3. services' \in Seq(PlannedService) /\ Len(services') = Len(services) + 1
      BY <1>1, <2>1, <2>2
  <2> QED
      BY <1>1, <2>1, <2>2, <2>3 DEF ServicesIn
<1> QED
    BY <1>2, <1>3, <1>4, <1>5 DEF ResolvingInv

(* Applying a plugin adds its resources, its names and its services, and   *)
(* removes nothing.                                                        *)
LEMMA ResolvingApply ==
    ASSUME ResolvingInv, ApplyPlugin
    PROVE  ResolvingInv'
<1> DEFINE i == applied + 1
           p == plugins[i]
           filled == Register(registry, ToSet(p.capabilities), i)
<1>1. /\ phase' = "applying"
      /\ resources' = Extend(resources, [r \in ToSet(p.resources) |-> i])
      /\ registry' = SetStrategies(filled, p.strategies)
      /\ staged' = staged \o p.services
      /\ applied' = i
      /\ UNCHANGED <<plugins, services, started>>
    BY DEF ApplyPlugin, RegisterResources, RegisterCapabilities, RegisterServices
<1>2. p \in Plugin /\ i \in Nat
    BY DEF ApplyPlugin, ResolvingInv, BuilderTyped
<1>3. Done' = Done \cup {i}
    BY <1>1, <1>2 DEF Done, ResolvingInv, BuilderTyped
<1>4. BuilderTyped'
    BY ConfiguredRegistry DEF ResolvingInv, Configuring
<1>5. Validated' /\ Blamed'
    BY <1>1 DEF Validated, Blamed, Building
<1>6. /\ p.services \in Seq(ToSet(p.services))
      /\ p.strategies \in Seq(ToSet(p.strategies))
    BY <1>2, PluginAssumption
<1>7. ResourcesIn'
  <2>1. /\ DOMAIN resources' = DOMAIN resources \cup ToSet(p.resources)
        /\ \A r \in ToSet(p.resources) : resources'[r] = i
        /\ \A r \in DOMAIN resources \ ToSet(p.resources) : resources'[r] = resources[r]
    <3> HIDE DEF p, i
    <3> QED
        BY <1>1 DEF Extend
  <2>2. \A r \in DOMAIN resources' : resources'[r] \in Nat
      BY <1>2, <2>1 DEF ResolvingInv, ResourcesIn
  <2>3. \A j \in Done' : ToSet(plugins'[j].resources) \subseteq DOMAIN resources'
      BY <1>1, <1>3, <2>1 DEF ResolvingInv, ResourcesIn
  <2> QED
      BY <2>2, <2>3 DEF ResourcesIn
<1>8. ServicesIn'
  <2>1. PlannedService' = PlannedService \cup ToSet(p.services)
      BY <1>1, <1>3 DEF PlannedService
  <2>2. services \in Seq(PlannedService') /\ staged \in Seq(PlannedService')
        /\ p.services \in Seq(PlannedService')
    <3>1. PlannedService \subseteq PlannedService' /\ ToSet(p.services) \subseteq PlannedService'
        BY <2>1
    <3>2. services \in Seq(PlannedService) /\ staged \in Seq(PlannedService)
        BY DEF ResolvingInv, ServicesIn
    <3>3. \A S, T : S \subseteq T => Seq(S) \subseteq Seq(T)
        OBVIOUS
    <3> QED
        BY <1>6, <3>1, <3>2, <3>3
  <2>3. staged' \in Seq(PlannedService')
    <3> HIDE DEF p
    <3> QED
        BY <1>1, <2>2
  <2> QED
      BY <1>1, <2>2, <2>3 DEF ResolvingInv, ServicesIn
<1> DEFINE new == SetStrategies(filled, p.strategies)
<1>9. /\ DOMAIN filled = {"providers", "strategies"}
      /\ \A c \in Contract :
            /\ filled.strategies[c] = registry.strategies[c]
            /\ DOMAIN filled.providers[c] =
                   DOMAIN registry.providers[c]
                   \cup {name \in Name : <<c, name>> \in ToSet(p.capabilities)}
  <2> HIDE DEF p, i
  <2> QED
      BY <1>2, RegisterTyped DEF ResolvingInv
<1>10. \A c \in Contract :
           /\ new.providers[c] = filled.providers[c]
           /\ \/ /\ new.strategies[c] = filled.strategies[c]
                 /\ \A k \in DOMAIN p.strategies : p.strategies[k][1] # c
              \/ \E k \in DOMAIN p.strategies :
                    p.strategies[k][1] = c /\ new.strategies[c] = p.strategies[k][2]
  <2> HIDE DEF p, i, filled
  <2> QED
      BY <1>6, <1>9, SetStrategiesTyped
<1> HIDE DEF new, filled
<1>11. registry' = new
    BY <1>1 DEF new
<1>12. ProvidersIn'
  <2>1. ASSUME NEW c \in Contract, NEW j \in Done', NEW name \in Name,
               <<c, name>> \in ToSet(plugins[j].capabilities)
        PROVE  name \in DOMAIN new.providers[c]
    <3>1. CASE j \in Done
        BY <1>9, <1>10, <2>1, <3>1 DEF ResolvingInv, ProvidersIn
    <3>2. CASE j = i
        BY <1>9, <1>10, <2>1, <3>2
    <3> QED
        BY <1>3, <3>1, <3>2
  <2> QED
      BY <1>1, <1>11, <2>1 DEF ProvidersIn
<1> QED
    BY <1>4, <1>5, <1>7, <1>8, <1>12 DEF ResolvingInv

(* The services planned so far become those of the runtime.                *)
LEMMA ResolvingFreeze ==
    ASSUME ResolvingInv, Freeze
    PROVE  ResolvingInv'
<1>1. /\ applied = Len(plugins) /\ phase' = "frozen"
      /\ services' = services \o staged /\ staged' = << >>
      /\ UNCHANGED <<plugins, applied, resources, registry, started>>
    BY DEF Freeze
<1>2. BuilderTyped'
    BY <1>1 DEF ResolvingInv, BuilderTyped
<1>3. Validated' /\ Blamed'
    BY <1>1 DEF Validated, Blamed, Building
<1>4. ResourcesIn' /\ ProvidersIn'
    BY <1>1 DEF ResolvingInv, ResourcesIn, ProvidersIn, Done
<1>5. ServicesIn'
  <2>1. PlannedService' = PlannedService
      BY <1>1 DEF PlannedService, Done
  <2>2. services \in Seq(PlannedService) /\ staged \in Seq(PlannedService) /\ started \in 0 .. Len(services)
      BY DEF ResolvingInv, ServicesIn
  <2>3. services' \in Seq(PlannedService) /\ Len(services') = Len(services) + Len(staged)
        /\ staged' \in Seq(PlannedService)
      BY <1>1, <2>2
  <2> QED
      BY <1>1, <2>1, <2>2, <2>3 DEF ServicesIn
<1> QED
    BY <1>2, <1>3, <1>4, <1>5 DEF ResolvingInv

(* Validation passes only when what the plugins require is registered, and *)
(* nothing is registered after it.                                         *)
LEMMA ResolvingValidate ==
    ASSUME ResolvingInv, Validate
    PROVE  ResolvingInv'
<1>1. /\ phase = "frozen" /\ phase' \in {"built", "rejected"}
      /\ phase' = "built" => \A i \in DOMAIN plugins : MetBy(plugins[i])
      /\ UNCHANGED <<plugins, applied, resources, registry, services, staged, started>>
    BY DEF Validate, BuildVars
<1>2. BuilderTyped'
    BY <1>1 DEF ResolvingInv, BuilderTyped
<1>3. Validated'
  <2>1. applied = Len(plugins) /\ Done = DOMAIN plugins
      BY <1>1 DEF ResolvingInv, Validated, Building, BuilderTyped, Done
  <2>2. \A p : MetBy(p)' <=> MetBy(p)
      BY <1>1 DEF MetBy, Satisfied
  <2>3. phase' = "built" => \A i \in Done' : MetBy(plugins[i])'
      BY <1>1, <2>1, <2>2 DEF Done
  <2> QED
      BY <1>1, <2>1, <2>3 DEF Validated, Building
<1>4. Blamed'
    BY <1>1 DEF Blamed
<1> QED
    BY <1>1, <1>2, <1>3, <1>4, ResolvingElsewhere DEF ResolvingInv

(* A service starts, or its start fails for what it looked up.             *)
LEMMA ResolvingStart ==
    ASSUME ResolvingInv, StartService
    PROVE  ResolvingInv'
<1>1. /\ phase = "built" /\ started < Len(services)
      /\ UNCHANGED <<plugins, applied, resources, registry, services, staged>>
    BY DEF StartService
<1>2. services[started + 1] \in PlannedService /\ started \in Nat
    BY <1>1 DEF ResolvingInv, ServicesIn
<1>3. \/ phase' = "built" /\ started' = started + 1
      \/ /\ ~ LookupsSucceed(services[started + 1])
         /\ phase' = "startFailed" /\ started' = started
    BY DEF StartService
<1>4. Blamed'
  <2>1. \A s : LookupsSucceed(s)' <=> LookupsSucceed(s)
      BY <1>1 DEF LookupsSucceed, ContextResource, ContextCapability
  <2>2. CASE phase' = "built"
      BY <2>2 DEF Blamed
  <2>3. CASE /\ ~ LookupsSucceed(services[started + 1])
             /\ phase' = "startFailed" /\ started' = started
      BY <1>1, <2>1, <2>3 DEF Blamed
  <2> QED
      BY <1>3, <2>2, <2>3
<1>5. BuilderTyped'
    BY <1>1 DEF ResolvingInv, BuilderTyped
<1>6. Validated'
  <2>1. Done' = Done /\ \A p : MetBy(p)' <=> MetBy(p)
      BY <1>1 DEF MetBy, Satisfied, Done
  <2> QED
      BY <1>1, <1>3, <2>1 DEF ResolvingInv, Validated, Building
<1>7. ResourcesIn' /\ ProvidersIn'
    BY <1>1 DEF ResolvingInv, ResourcesIn, ProvidersIn, Done
<1>8. ServicesIn'
  <2>1. PlannedService' = PlannedService
      BY <1>1 DEF PlannedService, Done
  <2> QED
      BY <1>1, <1>2, <1>3, <2>1 DEF ResolvingInv, ServicesIn
<1> QED
    BY <1>4, <1>5, <1>6, <1>7, <1>8 DEF ResolvingInv

(* Every step keeps what has been provided.                                *)
LEMMA ResolvingStep ==
    ASSUME ResolvingInv, BuilderStep
    PROVE  ResolvingInv'
<1>1. CASE UNCHANGED <<phase, plugins, applied, resources, registry, services, staged,
                       started>>
  <2>1. BuilderTyped' /\ \A i \in Done : plugins'[i] = plugins[i]
      BY <1>1 DEF ResolvingInv, BuilderTyped
  <2>2. Done' = Done /\ \A p : MetBy(p)' <=> MetBy(p)
      BY <1>1 DEF MetBy, Satisfied, Done
  <2>3. Validated'
      BY <1>1, <2>2 DEF ResolvingInv, Validated, Building
  <2>4. \A s : LookupsSucceed(s)' <=> LookupsSucceed(s)
      BY <1>1 DEF LookupsSucceed, ContextResource, ContextCapability
  <2>5. Blamed'
      BY <1>1, <2>4 DEF ResolvingInv, Blamed
  <2> QED
      BY <1>1, <2>1, <2>3, <2>5, ResolvingElsewhere DEF ResolvingInv
<1>2. \A t \in Caller, c \in Contract : FetchAdd(t, c) =>
          UNCHANGED <<phase, plugins, applied, resources, registry, services, staged, started>>
    BY DEF FetchAdd
<1>3. \A t \in Caller : ResolvePick(t) =>
          UNCHANGED <<phase, plugins, applied, resources, registry, services, staged, started>>
    BY DEF ResolvePick
<1>4. UNCHANGED rvars =>
          UNCHANGED <<phase, plugins, applied, resources, registry, services, staged, started>>
    BY DEF rvars
<1>5. Configuring => ResolvingInv'
    BY ResolvingPlugin, ResolvingResource, ResolvingCapability, ResolvingSupervised,
       ResolvingApply DEF Configuring
<1> QED
    BY <1>1, <1>2, <1>3, <1>4, <1>5, ResolvingFreeze, ResolvingValidate, ResolvingStart
       DEF BuilderStep

(* Nothing has been provided to begin with.                                *)
LEMMA ResolvingInit == RInit => ResolvingInv
<1> SUFFICES ASSUME RInit PROVE ResolvingInv
    OBVIOUS
<1>1. BuilderTyped
    BY BuilderTypedInit
<1>2. Done = {}
    BY DEF RInit, Done
<1>3. /\ resources = << >> /\ staged = << >> /\ services = << >> /\ started = 0
      /\ phase = "configure" /\ registry = EmptyRegistry
    BY DEF RInit
<1>4. ResourcesIn /\ ServicesIn /\ Validated /\ Blamed
    BY <1>2, <1>3 DEF ResourcesIn, ServicesIn, Validated, Blamed, Building
<1>5. ProvidersIn
    BY <1>2 DEF ProvidersIn
<1> QED
    BY <1>1, <1>4, <1>5 DEF ResolvingInv

(* What an applied plugin registers, inserts or plans stays, a build that  *)
(* passes validation meets what every plugin requires, and a start fails   *)
(* for a lookup only (apply_all, CapabilityRequirement::is_satisfied_by).  *)
THEOREM ResolvingInvariance == ASpec => []ResolvingInv
<1>1. AInit => ResolvingInv
    BY ResolvingInit DEF AInit
<1>2. ResolvingInv /\ [ANext]_<<rvars, avars>> => ResolvingInv'
    BY StepOfBuilder, ResolvingStep
<1> QED
    BY <1>1, <1>2, PTL DEF ASpec

(* Whatever plugins are combined in whatever order, each declaring what    *)
(* its services use, and whatever the application adds or replaces: in a   *)
(* build that passes validation the start of a plugin's service finds each *)
(* resource and has a provider for each contract; it fails only where the  *)
(* providers have names that the contract's strategy does not look for     *)
(* (PluginManager::apply_all, is_satisfied_by, Capabilities::get).         *)
THEOREM StartsFailByName == ASpec => []ServicesResolve
<1>1. ASSUME ResolvingInv, phase = "startFailed", services[started + 1] \notin OwnService
      PROVE  LET s == services[started + 1]
             IN  /\ \A r \in s.reads : ContextResource(r) # None
                 /\ \A c \in s.uses : ContainsType(registry, c)
                 /\ \E c \in s.uses : ~ Reached(c)
  <2> DEFINE s == services[started + 1]
  <2>1. s \in PlannedService /\ ~ LookupsSucceed(s)
      BY <1>1 DEF ResolvingInv, ServicesIn, Blamed
  <2> HIDE DEF s
  <2>2. /\ \A r \in s.reads : ContextResource(r) # None
        /\ \A c \in s.uses : c \in Contract /\ ContainsType(registry, c)
      BY <1>1, <2>1, ServiceFinds DEF s
  <2>3. PICK c \in s.uses : None \in ContextCapability(c)
      BY <2>1, <2>2 DEF LookupsSucceed
  <2>4. ~ Reached(c)
      BY <1>1, <2>2, <2>3, ReachedResolves DEF ContextCapability, ResolvingInv
  <2> QED
      BY <2>2, <2>4 DEF s
<1>2. ResolvingInv => ServicesResolve
    BY <1>1 DEF ServicesResolve
<1> QED
    BY <1>2, ResolvingInvariance, PTL

-----------------------------------------------------------------------------
(* The routes and what describes them.                                     *)
Pattern == {TranslatePath(path) : path \in Written}
RouteKey(method, path) == [method |-> method, path |-> TranslatePath(path)]
SpecKey(spec) == RouteKey(MethodFromOpenapi(spec.method), spec.path)

(* No two routes of the router have one method and one shape.              *)
RouterApart ==
    \A r, q \in DOMAIN router :
        r.method = q.method /\ SameShape(r.path, q.path) => r = q

RouterTyped ==
    \A r \in DOMAIN router :
        r.path \in Pattern /\ r = [method |-> r.method, path |-> r.path]

(* Every route that is described reaches its handler, and no list          *)
(* describes an operation twice.                                           *)
DescribedRoute == [spec : RouteSpec, handler : Nat]

RoutedList(list) ==
    /\ list \in Seq(DescribedRoute)
    /\ \A i \in DOMAIN list :
          /\ SpecKey(list[i].spec) \in DOMAIN router
          /\ router[SpecKey(list[i].spec)] = list[i].handler
    /\ \A i, j \in DOMAIN list :
          OperationKey(list[i].spec) = OperationKey(list[j].spec) => i = j

RoutesInv ==
    /\ calls \in Nat
    /\ ~ panicked =>
          /\ RouterTyped
          /\ RouterApart
          /\ RoutedList(openapiRoutes)
          /\ \A d \in DOMAIN documents : RoutedList(documents[d])

(* A path translates segment by segment; a parameter stays one, under its  *)
(* name.                                                                   *)
LEMMA PatternIs ==
    ASSUME NEW path \in Written
    PROVE  /\ Len(path) \in Nat /\ DOMAIN path = 1 .. Len(path)
           /\ DOMAIN TranslatePath(path) = 1 .. Len(path)
           /\ Len(TranslatePath(path)) = Len(path)
           /\ \A i \in 1 .. Len(path) :
                 /\ TranslatePath(path)[i] = TranslateSegment(path[i])
                 /\ TranslatePath(path)[i] \in {Lit(path[i].name), Brace(path[i].name)}
                 /\ TranslatePath(path)[i] # Lit("value")
                 /\ IsParam(TranslatePath(path)[i]) <=> path[i].kind # "lit"
                 /\ TranslatePath(path)[i].name = path[i].name
<1> DEFINE p == TranslatePath(path)
<1>1. /\ path \in Seq(ToSet(path))
      /\ \A i \in DOMAIN path : IsSegment(path[i]) /\ path[i] # Lit("value")
    BY RoutesAssumption
<1>2. Len(path) \in Nat /\ DOMAIN path = 1 .. Len(path)
    BY <1>1
<1>3. p = [i \in 1 .. Len(path) |-> TranslateSegment(path[i])]
    BY <1>2 DEF TranslatePath
<1>4. DOMAIN p = 1 .. Len(path) /\ Len(p) = Len(path)
  <2>1. p \in Seq({TranslateSegment(path[i]) : i \in 1 .. Len(path)})
      BY <1>2, <1>3
  <2> QED
      BY <1>2, <1>3, <2>1
<1>5. ASSUME NEW i \in 1 .. Len(path)
      PROVE  /\ p[i] = TranslateSegment(path[i])
             /\ p[i] \in {Lit(path[i].name), Brace(path[i].name)}
             /\ p[i] # Lit("value")
             /\ IsParam(p[i]) <=> path[i].kind # "lit"
             /\ p[i].name = path[i].name
  <2>1. p[i] = TranslateSegment(path[i])
      BY <1>3
  <2>2. path[i] \in {Lit(path[i].name), Colon(path[i].name), Brace(path[i].name)}
        /\ path[i] # Lit("value")
      BY <1>1, <1>2 DEF IsSegment
  <2> HIDE DEF p
  <2> QED
      BY <2>1, <2>2 DEF TranslateSegment, Lit, Colon, Brace, IsParam
<1> QED
    BY <1>2, <1>4, <1>5

(* What a pattern of the router is.                                        *)
LEMMA PatternTyped ==
    ASSUME NEW p \in Pattern
    PROVE  /\ Len(p) \in Nat /\ DOMAIN p = 1 .. Len(p)
           /\ \A i \in 1 .. Len(p) :
                 /\ p[i] \in {Lit(p[i].name), Brace(p[i].name)}
                 /\ p[i] # Lit("value")
<1>1. PICK path \in Written : p = TranslatePath(path)
    BY DEF Pattern
<1> QED
    BY <1>1, PatternIs

(* To be of the same shape is reflexive and symmetric.                     *)
LEMMA ShapeOfPatterns ==
    ASSUME NEW p \in Pattern, NEW q \in Pattern
    PROVE  SameShape(p, p) /\ (SameShape(p, q) => SameShape(q, p))
BY PatternTyped DEF SameShape

(* A segment of a request for a pattern, with "value" for its parameters.  *)
LEMMA InstanceOf ==
    ASSUME NEW p \in Pattern
    PROVE  /\ Len(Instance(p)) = Len(p)
           /\ \A i \in 1 .. Len(p) :
                 Instance(p)[i] = IF IsParam(p[i]) THEN "value" ELSE p[i].name
<1>1. Len(p) \in Nat /\ DOMAIN p = 1 .. Len(p)
    BY PatternTyped
<1>2. Instance(p) = [i \in 1 .. Len(p) |-> IF IsParam(p[i]) THEN "value" ELSE p[i].name]
    BY <1>1 DEF Instance
<1>3. Instance(p) \in Seq({IF IsParam(p[i]) THEN "value" ELSE p[i].name : i \in 1 .. Len(p)})
    BY <1>1, <1>2
<1> QED
    BY <1>1, <1>2, <1>3

(* Of the routes that match it the pattern itself is tried first: where    *)
(* another differs in shape it has a parameter for a literal.              *)
LEMMA ItselfFirst ==
    ASSUME NEW p \in Pattern, NEW q \in Pattern, ~ SameShape(p, q),
           Matches(q, Instance(p))
    PROVE  Before(p, q) /\ ~ Before(q, p)
<1>1. /\ Len(q) = Len(p) /\ DOMAIN p = 1 .. Len(p) /\ DOMAIN q = 1 .. Len(p)
      /\ Len(p) \in Nat
    BY PatternTyped, InstanceOf DEF Matches
<1>2. \A i \in 1 .. Len(p) : IsParam(q[i]) \/ q[i] = Lit(Instance(p)[i])
    BY <1>1 DEF Matches
<1>3. ASSUME NEW i \in 1 .. Len(p)
      PROVE  \/ IsParam(p[i]) /\ IsParam(q[i])
             \/ ~ IsParam(p[i]) /\ (IsParam(q[i]) \/ q[i] = p[i])
  <2>1. /\ p[i] \in {Lit(p[i].name), Brace(p[i].name)}
        /\ q[i] # Lit("value")
      BY <1>1, PatternTyped
  <2>2. Instance(p)[i] = IF IsParam(p[i]) THEN "value" ELSE p[i].name
      BY InstanceOf
  <2>3. IsParam(q[i]) \/ q[i] = Lit(Instance(p)[i])
      BY <1>2
  <2>4. CASE IsParam(p[i])
      BY <2>1, <2>2, <2>3, <2>4
  <2>5. CASE ~ IsParam(p[i])
    <3>1. p[i] = Lit(p[i].name)
        BY <2>1, <2>5 DEF IsParam, Brace
    <3> QED
        BY <2>2, <2>3, <2>5, <3>1
  <2> QED
      BY <2>4, <2>5
<1> DEFINE apart == {i \in 1 .. Len(p) : ~ IsParam(p[i]) /\ IsParam(q[i])}
<1>4. apart # {}
  <2>1. PICK i \in 1 .. Len(p) : ~ (IsParam(p[i]) /\ IsParam(q[i])) /\ p[i] # q[i]
      BY <1>1 DEF SameShape
  <2> QED
      BY <1>3, <2>1
<1>5. PICK i \in apart : \A j \in apart : ~ (j < i)
  <2>1. apart \in SUBSET Nat
      BY <1>1
  <2> HIDE DEF apart
  <2> QED
      BY <1>4, <2>1, Descent
<1>6. ASSUME NEW j \in 1 .. i - 1 PROVE IsParam(p[j]) = IsParam(q[j])
  <2>1. j \in 1 .. Len(p) /\ j < i
      BY <1>1, <1>5
  <2>2. j \notin apart
      BY <1>5, <2>1
  <2>3. IsParam(p[j]) \in BOOLEAN /\ IsParam(q[j]) \in BOOLEAN
      BY DEF IsParam
  <2>4. IsParam(p[j]) <=> IsParam(q[j])
    <3>1. CASE IsParam(p[j])
        BY <1>3, <2>1, <3>1
    <3>2. CASE ~ IsParam(p[j])
        BY <2>1, <2>2, <3>2
    <3> QED
        BY <3>1, <3>2
  <2> QED
      BY <2>3, <2>4
<1>7. Before(p, q)
    BY <1>1, <1>5, <1>6 DEF Before
<1>8. ~ Before(q, p)
    BY <1>1, <1>3 DEF Before
<1> QED
    BY <1>7, <1>8

(* A request for a route of the router is dispatched to that route.        *)
LEMMA DispatchedTo ==
    ASSUME RouterTyped, RouterApart, NEW key \in DOMAIN router
    PROVE  /\ Found(router, key.method, Instance(key.path)) = key
           /\ Dispatch(router, key.method, Instance(key.path), None) = router[key]
<1> DEFINE path == Instance(key.path)
           found == Candidates(router, key.method, path)
<1>1. /\ key.path \in Pattern /\ key = [method |-> key.method, path |-> key.path]
      /\ DOMAIN key.path = 1 .. Len(key.path)
    BY PatternTyped DEF RouterTyped
<1>2. Matches(key.path, path)
  <2>1. Len(path) = Len(key.path)
      BY <1>1, InstanceOf
  <2>2. ASSUME NEW i \in 1 .. Len(key.path)
        PROVE  IsParam(key.path[i]) \/ key.path[i] = Lit(path[i])
    <3>1. key.path[i] \in {Lit(key.path[i].name), Brace(key.path[i].name)}
        BY <1>1, PatternTyped
    <3>2. path[i] = IF IsParam(key.path[i]) THEN "value" ELSE key.path[i].name
        BY <1>1, InstanceOf
    <3> HIDE DEF path
    <3> QED
        BY <3>1, <3>2 DEF IsParam, Lit, Brace
  <2> QED
      BY <1>1, <2>1, <2>2 DEF Matches
<1>3. key \in found
    BY <1>2 DEF Candidates
<1>4. ASSUME NEW q \in found \ {key}
      PROVE  Before(key.path, q.path) /\ ~ Before(q.path, key.path)
  <2>1. /\ q \in DOMAIN router /\ q.method = key.method /\ Matches(q.path, path)
        /\ q.path \in Pattern
      BY DEF Candidates, RouterTyped
  <2>2. ~ SameShape(key.path, q.path)
      BY <1>4, <2>1 DEF RouterApart
  <2> QED
      BY <1>1, <2>1, <2>2, ItselfFirst
<1> HIDE DEF found
<1>5. \A r \in found :
          (\A q \in found \ {r} : Before(r.path, q.path)) <=> r = key
  <2>1. \A q \in found \ {key} : Before(key.path, q.path)
      BY <1>4
  <2>2. ASSUME NEW r \in found, r # key, \A q \in found \ {r} : Before(r.path, q.path)
        PROVE  FALSE
      BY <1>3, <1>4, <2>2
  <2> QED
      BY <2>1, <2>2
<1>6. Found(router, key.method, path) = key
  <2>1. (CHOOSE r \in found : \A q \in found \ {r} : Before(r.path, q.path)) = key
      BY <1>3, <1>5
  <2> QED
      BY <2>1 DEF Found, found
<1> QED
    BY <1>3, <1>6 DEF Dispatch, found

(* What adding a route does to the router.                                 *)
LEMMA RouteAdded ==
    ASSUME RouterTyped, RouterApart, ~ panicked, NEW method, NEW path \in Written,
           AddRoute(method, path), ~ panicked'
    PROVE  LET key == RouteKey(method, path) IN
           /\ key \notin DOMAIN router
           /\ DOMAIN router' = DOMAIN router \cup {key}
           /\ router'[key] = calls + 1
           /\ \A r \in DOMAIN router : router'[r] = router[r]
           /\ RouterTyped' /\ RouterApart'
<1> DEFINE p == TranslatePath(path)
           key == RouteKey(method, path)
<1>1. ~ Conflict(router, method, path) /\ router' = Route(router, method, path, calls + 1)
    BY DEF AddRoute
<1>2. p \in Pattern /\ key = [method |-> method, path |-> p]
    BY DEF Pattern, RouteKey
<1> HIDE DEF p, key
<1>3. \A r \in DOMAIN router : ~ (r.method = method /\ SameShape(r.path, p))
    BY <1>1 DEF Conflict, p
<1>4. key \notin DOMAIN router
    BY <1>2, <1>3, ShapeOfPatterns
<1>5. router' = Put(router, key, calls + 1)
    BY <1>1, <1>2 DEF Route, p
<1>6. /\ DOMAIN router' = DOMAIN router \cup {key}
      /\ router'[key] = calls + 1
      /\ \A r \in DOMAIN router : router'[r] = router[r]
    BY <1>4, <1>5 DEF Put, Extend
<1>7. RouterTyped'
    BY <1>2, <1>6 DEF RouterTyped
<1>8. RouterApart'
  <2> SUFFICES ASSUME NEW r \in DOMAIN router', NEW q \in DOMAIN router',
                      r.method = q.method, SameShape(r.path, q.path)
               PROVE  r = q
      BY DEF RouterApart
  <2>1. CASE r \in DOMAIN router /\ q \in DOMAIN router
      BY <2>1 DEF RouterApart
  <2>2. CASE r = key /\ q \in DOMAIN router
    <3>1. q.path \in Pattern /\ r.path = p /\ q.method = method
        BY <1>2, <2>2 DEF RouterTyped
    <3> QED
        BY <1>2, <1>3, <2>2, <3>1, ShapeOfPatterns
  <2>3. CASE q = key /\ r \in DOMAIN router
      BY <1>2, <1>3, <2>3
  <2> QED
      BY <1>6, <2>1, <2>2, <2>3
<1> QED
    BY <1>4, <1>6, <1>7, <1>8 DEF key

(* A router that only grows keeps what was described.                      *)
LEMMA StillRouted ==
    ASSUME NEW list, RoutedList(list), DOMAIN router \subseteq DOMAIN router',
           \A r \in DOMAIN router : router'[r] = router[r]
    PROVE  RoutedList(list)'
BY DEF RoutedList

(* The operation of a document determines the route that is added for it.  *)
LEMMA KeyOfOperation ==
    ASSUME NEW s \in RouteSpec, NEW t \in RouteSpec
    PROVE  /\ s.path \in Written
           /\ OperationKey(s) = [path |-> TranslatePath(s.path), method |-> s.method]
           /\ OperationKey(s) = OperationKey(t) => SpecKey(s) = SpecKey(t)
<1>1. s.path \in Written /\ t.path \in Written
    BY DEF Written
<1>2. \A u \in {s, t} : NormalizePath(u.path) = TranslatePath(u.path)
    BY DEF NormalizePath, TranslatePath, NormalizeSegment, TranslateSegment
<1>3. \A u \in {s, t} :
          OperationKey(u) = [path |-> TranslatePath(u.path), method |-> u.method]
    BY <1>2 DEF OperationKey
<1>4. ASSUME OperationKey(s) = OperationKey(t)
      PROVE  SpecKey(s) = SpecKey(t)
  <2>1. TranslatePath(s.path) = TranslatePath(t.path) /\ s.method = t.method
      BY <1>3, <1>4
  <2> QED
      BY <2>1 DEF SpecKey, RouteKey
<1> QED
    BY <1>1, <1>3, <1>4

(* There are no routes to begin with.                                      *)
LEMMA RoutesInit == AInit => RoutesInv
BY DEF AInit, RoutesInv, RouterTyped, RouterApart, RoutedList

(* A plain route is not described.                                         *)
LEMMA RoutesPlain ==
    ASSUME RoutesInv, NEW m \in AppMethod, NEW p \in Path, PlainRoute(m, p)
    PROVE  RoutesInv'
<1>1. /\ ~ panicked /\ AddRoute(m, p) /\ calls' = calls + 1
      /\ UNCHANGED <<openapiRoutes, documents>> /\ p \in Written
    BY DEF PlainRoute, MayCall, Written
<1>2. CASE ~ panicked'
  <2>1. /\ DOMAIN router \subseteq DOMAIN router'
        /\ \A r \in DOMAIN router : router'[r] = router[r]
        /\ RouterTyped' /\ RouterApart'
      BY <1>1, <1>2, RouteAdded DEF RoutesInv
  <2> QED
      BY <1>1, <2>1, StillRouted DEF RoutesInv
<1> QED
    BY <1>1, <1>2 DEF RoutesInv

(* A document takes the descriptions there are.                            *)
LEMMA RoutesServe ==
    ASSUME RoutesInv, OpenapiServeAt(DocPath)
    PROVE  RoutesInv'
<1>1. /\ ~ panicked /\ AddRoute("GET", DocPath) /\ calls' = calls + 1
      /\ documents' = Put(documents, calls + 1, openapiRoutes)
      /\ openapiRoutes' = << >> /\ DocPath \in Written
    BY DEF OpenapiServeAt, MayCall, Written
<1>2. CASE ~ panicked'
  <2>1. /\ DOMAIN router \subseteq DOMAIN router'
        /\ \A r \in DOMAIN router : router'[r] = router[r]
        /\ RouterTyped' /\ RouterApart'
      BY <1>1, <1>2, RouteAdded DEF RoutesInv
  <2>2. RoutedList(openapiRoutes)'
      BY <1>1 DEF RoutedList
  <2>3. /\ RoutedList(openapiRoutes)
        /\ \A d \in DOMAIN documents : RoutedList(documents[d])
      BY <1>1 DEF RoutesInv
  <2>4. /\ DOMAIN documents' = DOMAIN documents \cup {calls + 1}
        /\ documents'[calls + 1] = openapiRoutes
        /\ \A d \in DOMAIN documents \ {calls + 1} : documents'[d] = documents[d]
      BY <1>1 DEF Put, Extend
  <2>5. ASSUME NEW d \in DOMAIN documents', NEW list, list = documents'[d]
        PROVE  RoutedList(list)'
      BY <2>1, <2>3, <2>4, <2>5, StillRouted
  <2> QED
      BY <1>1, <2>1, <2>2, <2>5 DEF RoutesInv
<1> QED
    BY <1>1, <1>2 DEF RoutesInv

(* A described route is routed under the number of its call; a second      *)
(* description of the operation would have met its pattern and panicked.   *)
LEMMA RoutesDescribed ==
    ASSUME RoutesInv, NEW spec \in RouteSpec, OpenapiRoute(spec)
    PROVE  RoutesInv'
<1> DEFINE new == [spec |-> spec, handler |-> calls + 1]
           n == Len(openapiRoutes)
<1>1. /\ ~ panicked /\ AddRoute(MethodFromOpenapi(spec.method), spec.path)
      /\ calls' = calls + 1 /\ calls \in Nat
      /\ openapiRoutes' = Append(openapiRoutes, new)
      /\ UNCHANGED documents /\ spec.path \in Written
    BY DEF OpenapiRoute, MayCall, Written, RoutesInv
<1>2. CASE ~ panicked'
  <2>1. /\ SpecKey(spec) \notin DOMAIN router
        /\ DOMAIN router' = DOMAIN router \cup {SpecKey(spec)}
        /\ router'[SpecKey(spec)] = calls + 1
        /\ \A r \in DOMAIN router : router'[r] = router[r]
        /\ RouterTyped' /\ RouterApart'
      BY <1>1, <1>2, RouteAdded DEF RoutesInv, SpecKey
  <2>2. RoutedList(openapiRoutes) /\ n \in Nat
        /\ openapiRoutes \in Seq(DescribedRoute)
      BY <1>1 DEF RoutesInv, RoutedList
  <2>3. /\ openapiRoutes' \in Seq(DescribedRoute)
        /\ DOMAIN openapiRoutes = 1 .. n
        /\ DOMAIN openapiRoutes' = 1 .. n + 1
        /\ openapiRoutes'[n + 1] = new
        /\ \A i \in 1 .. n : openapiRoutes'[i] = openapiRoutes[i]
    <3>1. new \in DescribedRoute
        BY <1>1 DEF DescribedRoute
    <3> HIDE DEF new
    <3> QED
        BY <1>1, <2>2, <3>1
  <2>4. \A i \in 1 .. n : /\ openapiRoutes[i].spec \in RouteSpec
                          /\ SpecKey(openapiRoutes[i].spec) \in DOMAIN router
                          /\ router[SpecKey(openapiRoutes[i].spec)] = openapiRoutes[i].handler
    <3>1. ASSUME NEW i \in 1 .. n PROVE openapiRoutes[i].spec \in RouteSpec
      <4>1. openapiRoutes[i] \in DescribedRoute
          BY <2>2, <2>3
      <4> QED
          BY <4>1 DEF DescribedRoute
    <3>2. \A i \in 1 .. n : /\ SpecKey(openapiRoutes[i].spec) \in DOMAIN router
                            /\ router[SpecKey(openapiRoutes[i].spec)] = openapiRoutes[i].handler
        BY <2>2, <2>3 DEF RoutedList
    <3> QED
        BY <3>1, <3>2
  <2>5. \A i \in 1 .. n : OperationKey(openapiRoutes[i].spec) # OperationKey(spec)
      BY <2>1, <2>4, KeyOfOperation
  <2>6. ASSUME NEW i \in DOMAIN openapiRoutes'
        PROVE  /\ SpecKey(openapiRoutes'[i].spec) \in DOMAIN router'
               /\ router'[SpecKey(openapiRoutes'[i].spec)] = openapiRoutes'[i].handler
    <3>1. CASE i = n + 1
        BY <2>1, <2>3, <3>1
    <3>2. CASE i \in 1 .. n
        BY <2>1, <2>3, <2>4, <3>2
    <3> QED
        BY <2>2, <2>3, <3>1, <3>2
  <2>7. ASSUME NEW i \in DOMAIN openapiRoutes', NEW j \in DOMAIN openapiRoutes',
               OperationKey(openapiRoutes'[i].spec) = OperationKey(openapiRoutes'[j].spec)
        PROVE  i = j
    <3>1. CASE i \in 1 .. n /\ j \in 1 .. n
        BY <2>2, <2>3, <2>7, <3>1 DEF RoutedList
    <3>2. CASE i \in 1 .. n /\ j = n + 1
        BY <2>3, <2>5, <2>7, <3>2
    <3>3. CASE i = n + 1 /\ j \in 1 .. n
        BY <2>3, <2>5, <2>7, <3>3
    <3> QED
        BY <2>2, <2>3, <3>1, <3>2, <3>3
  <2>8. RoutedList(openapiRoutes)'
      BY <2>3, <2>6, <2>7 DEF RoutedList
  <2> QED
      BY <1>1, <2>1, <2>8, StillRouted DEF RoutesInv
<1> QED
    BY <1>1, <1>2 DEF RoutesInv

(* Every step keeps the routes and their descriptions together.            *)
LEMMA RoutesStep == RoutesInv /\ [ANext]_<<rvars, avars>> => RoutesInv'
<1> SUFFICES ASSUME RoutesInv, [ANext]_<<rvars, avars>> PROVE RoutesInv'
    OBVIOUS
<1>1. CASE UNCHANGED avars
    BY <1>1 DEF avars, RoutesInv, RouterTyped, RouterApart, RoutedList
<1>2. (\E p \in Plugin : AppPlugin(p)) => UNCHANGED avars
    BY DEF AppPlugin
<1>3. AppOwn \/ Run \/ Lookup => UNCHANGED avars
    BY DEF AppOwn, Run, Lookup
<1> QED
    BY <1>1, <1>2, <1>3, RoutesPlain, RoutesServe, RoutesDescribed DEF ANext

(* No two routes of the router compete for a pattern, and every described  *)
(* route is routed (App::add_route, openapi_route).                        *)
THEOREM RoutesInvariance == ASpec => []RoutesInv
<1>1. AInit => RoutesInv
    BY RoutesInit
<1> QED
    BY <1>1, RoutesStep, PTL DEF ASpec

-----------------------------------------------------------------------------
(* What a document says of a route it was given.                           *)
LEMMA RenderedIs ==
    ASSUME NEW list, RoutedList(list), NEW i \in DOMAIN list
    PROVE  LET specs == [k \in DOMAIN list |-> list[k].spec]
               key   == OperationKey(list[i].spec)
           IN  /\ key \in DOMAIN RenderDocument(specs)
               /\ RenderDocument(specs)[key] = RenderOperation(list[i].spec)
<1> DEFINE specs == [k \in DOMAIN list |-> list[k].spec]
           key == OperationKey(list[i].spec)
           of(o) == {k \in DOMAIN specs : OperationKey(specs[k]) = o}
           last(o) == CHOOSE k \in of(o) : \A j \in of(o) : j <= k
<1>1. /\ DOMAIN specs = DOMAIN list
      /\ \A k \in DOMAIN list : specs[k] = list[k].spec
    OBVIOUS
<1>2. RenderDocument(specs) =
          [o \in {OperationKey(specs[k]) : k \in DOMAIN specs} |->
              RenderOperation(specs[last(o)])]
    BY DEF RenderDocument
<1> HIDE DEF specs
<1>3. of(key) = {i}
    BY <1>1 DEF RoutedList
<1>4. last(key) = i
  <2>1. i \in Nat
      BY DEF RoutedList
  <2> HIDE DEF of, key
  <2> QED
      BY <1>3, <2>1
<1>5. key \in {OperationKey(specs[k]) : k \in DOMAIN specs}
    BY <1>1
<1> HIDE DEF last, key
<1> QED
    BY <1>1, <1>2, <1>4, <1>5 DEF key, specs

(* An operation keeps the parameters, the body and the responses of its    *)
(* description, and has a response.                                        *)
LEMMA MethodsRendered ==
    ASSUME NEW spec
    PROVE  /\ RenderOperation(spec).parameters = spec.parameters
           /\ RenderOperation(spec).request_body = spec.request_body
           /\ DOMAIN RenderOperation(spec).responses # {}
           /\ \A status \in DOMAIN spec.responses :
                 RenderOperation(spec).responses[status] = spec.responses[status]
<1>1. DOMAIN Put(<< >>, "default", {}) # {}
    BY DEF Put, Extend
<1> QED
    BY <1>1 DEF RenderOperation

(* So a request for an operation of a document is dispatched as its        *)
(* description says.                                                       *)
LEMMA RoutesAreDocumented == RoutesInv => DocumentedIsRouted
<1> SUFFICES ASSUME RoutesInv, ~ panicked, NEW d \in DOMAIN documents,
                    NEW route \in ToSet(documents[d])
             PROVE
        LET document == RenderDocument([k \in DOMAIN documents[d] |->
                                           documents[d][k].spec])
            spec   == route.spec
            key    == OperationKey(spec)
            method == MethodFromOpenapi(spec.method)
            path   == Instance(key.path)
        IN  /\ key \in DOMAIN document
            /\ Dispatch(router, method, path, None) = route.handler
            /\ document[key].request_body = spec.request_body
            /\ DOMAIN document[key].responses # {}
            /\ \A status \in DOMAIN spec.responses :
                  document[key].responses[status] = spec.responses[status]
            /\ Declared(document[key]) =
                 {p[1] : p \in PathParams(Found(router, method, path).path, path)}
    BY DEF DocumentedIsRouted
<1>0. PICK i \in DOMAIN documents[d] : route = documents[d][i]
    BY DEF ToSet
<1> DEFINE document == RenderDocument([k \in DOMAIN documents[d] |-> documents[d][k].spec])
           spec == route.spec
           key == OperationKey(spec)
           method == MethodFromOpenapi(spec.method)
           path == Instance(key.path)
           pattern == TranslatePath(spec.path)
<1>1. RoutedList(documents[d]) /\ RouterTyped /\ RouterApart
    BY DEF RoutesInv
<1>2. spec \in RouteSpec
  <2>1. route \in DescribedRoute
      BY <1>0, <1>1 DEF RoutedList
  <2> QED
      BY <2>1 DEF DescribedRoute
<1>3. /\ spec.path \in Written
      /\ key = [path |-> pattern, method |-> spec.method]
      /\ pattern \in Pattern
    BY <1>2, KeyOfOperation DEF Pattern
<1>4. /\ key \in DOMAIN document
      /\ document[key] = RenderOperation(spec)
    BY <1>0, <1>1, RenderedIs
<1>5. /\ SpecKey(spec) \in DOMAIN router
      /\ router[SpecKey(spec)] = route.handler
      /\ SpecKey(spec) = [method |-> method, path |-> pattern]
    BY <1>0, <1>1 DEF RoutedList, SpecKey, RouteKey
<1> HIDE DEF document, key, method, pattern
<1>6. /\ Found(router, method, path) = SpecKey(spec)
      /\ Dispatch(router, method, path, None) = route.handler
  <2>1. SpecKey(spec).method = method /\ Instance(SpecKey(spec).path) = path
      BY <1>3, <1>5
  <2> HIDE DEF path, spec
  <2> QED
      BY <1>1, <1>5, <2>1, DispatchedTo
<1>7. Declared(document[key]) =
          {p[1] : p \in PathParams(Found(router, method, path).path, path)}
  <2>1. Declared(document[key]) = Declared(spec)
      BY <1>4, MethodsRendered DEF Declared
  <2>2. Declared(spec) =
            {spec.path[k].name : k \in {j \in DOMAIN spec.path : spec.path[j].kind # "lit"}}
      BY <1>2, RoutesAssumption
  <2>3. Found(router, method, path).path = pattern
      BY <1>5, <1>6
  <2>4. /\ DOMAIN spec.path = DOMAIN pattern
        /\ \A k \in DOMAIN pattern :
              /\ IsParam(pattern[k]) <=> spec.path[k].kind # "lit"
              /\ pattern[k].name = spec.path[k].name
      BY <1>3, PatternIs DEF pattern
  <2>5. {p[1] : p \in PathParams(pattern, path)} =
            {pattern[k].name : k \in {j \in DOMAIN pattern : IsParam(pattern[j])}}
    <3> DEFINE params == {j \in DOMAIN pattern : IsParam(pattern[j])}
    <3>1. PathParams(pattern, path) = {<<pattern[k].name, path[k]>> : k \in params}
        BY DEF PathParams
    <3> HIDE DEF params, path
    <3>2. \A k \in params : <<pattern[k].name, path[k]>>[1] = pattern[k].name
        OBVIOUS
    <3>3. {p[1] : p \in PathParams(pattern, path)}
              = {<<pattern[k].name, path[k]>>[1] : k \in params}
        BY <3>1, Zenon
    <3>4. {p[1] : p \in PathParams(pattern, path)} = {pattern[k].name : k \in params}
        BY <3>2, <3>3
    <3> QED
        BY <3>4 DEF params
  <2>6. {pattern[k].name : k \in {j \in DOMAIN pattern : IsParam(pattern[j])}} =
            {spec.path[k].name : k \in {j \in DOMAIN spec.path : spec.path[j].kind # "lit"}}
      BY <2>4
  <2> QED
      BY <2>1, <2>2, <2>3, <2>5, <2>6
<1>8. /\ document[key].request_body = spec.request_body
      /\ DOMAIN document[key].responses # {}
      /\ \A status \in DOMAIN spec.responses :
            document[key].responses[status] = spec.responses[status]
    BY <1>4, MethodsRendered
<1> QED
    BY <1>4, <1>6, <1>7, <1>8 DEF document, key, method

(* The document and the router read the same calls alike, whatever the     *)
(* paths, the methods and the order of the calls: every described route is *)
(* an operation of its document and a request for it reaches the handler   *)
(* it was described with (openapi_route, render_document,                  *)
(* Router::dispatch).                                                      *)
THEOREM DocumentedAreRouted == ASpec => []DocumentedIsRouted
<1> QED
    BY RoutesAreDocumented, RoutesInvariance, PTL

-----------------------------------------------------------------------------
(* HelloAuthDb: what a handler holds between its queries.                  *)

Place == {"none", "body", "extract", "select", "insert", "issue", "respond"}

(* The variables the proof speaks of are what their comments say.  Nothing *)
(* is assumed of what a request or a reply holds.                          *)
Typed ==
    /\ clock \in Nat
    /\ nextId \in Nat
    /\ at \in [Conn -> Place]
    /\ since \in [Conn -> Nat]
    /\ request = [c \in Conn |-> request[c]]
    /\ handler = [c \in Conn |-> handler[c]]
    /\ reply = [c \in Conn |-> reply[c]]
    /\ subject = [c \in Conn |-> subject[c]]

(* Ids and emails are keys of the table.                                   *)
Accounts ==
    /\ \A u \in users : u.id \in Nat /\ u.id < nextId
    /\ \A u, v \in users : u.id = v.id \/ u.email = v.email => u = v

IsAccount(id, email) == \E u \in users : u.id = id /\ u.email = email

(* A token is signed, and is for the account that asked for it.            *)
Tokens ==
    \A m \in minted :
        /\ m.token.key = secret
        /\ m.token.claims.sub = m.id
        /\ m.token.claims.exp \in Nat
        /\ IsAccount(m.id, m.email)

(* What a client may present: nothing that bears the secret's signature    *)
(* unless it was issued.                                                   *)
Presentable(token) ==
    \/ token \in {NoToken, Malformed}
    \/ token.key # secret
    \/ \E m \in minted : m.token = token

(* What a handler holds at its awaits.                                     *)
Recognised(c) ==
    /\ \E m \in minted : m.token = request[c].token /\ m.id = subject[c]
    /\ request[c].token.claims.exp + Leeway >= since[c]

Own(c) ==
    (at[c] = "respond" /\ handler[c] = "me" /\ reply[c].status = 200) =>
        /\ \E m \in minted : /\ m.token = request[c].token
                             /\ m.id = reply[c].user.id
                             /\ m.email = reply[c].user.email
        /\ request[c].token.claims.exp + Leeway >= since[c]

Held(c) ==
    /\ since[c] <= clock
    /\ at[c] # "none" => Presentable(request[c].token)
    /\ at[c] = "insert" => handler[c] # "me"
    /\ at[c] = "issue" =>
         handler[c] # "me" /\ IsAccount(subject[c], request[c].body.email)
    /\ at[c] = "select" /\ handler[c] = "me" => Recognised(c)
    /\ Own(c)

Data == Typed /\ Accounts /\ Tokens

IInv == Data /\ \A c \in Conn : Held(c)

-----------------------------------------------------------------------------
(* The extractors of /me.                                                  *)

LEMMA AuthVerdict ==
    ASSUME NEW token
    PROVE  /\ AuthRejection(token) \in {0, 401, 500}
           /\ AuthRejection(token) = 0 =>
                token \notin {NoToken, Malformed} /\ Accepts(token)
<1> DEFINE checks ==
          <<<<"JwtSettings" \in Configured, "MissingJwtSettings">>,
            <<"SecretsProvider" \in Provided, "SecretsProviderMissing">>,
            <<CodecConstructible, "SecretNotFound">>,
            <<token # NoToken, "MissingAuthorizationHeader">>,
            <<token # Malformed, "MalformedAuthorizationHeader">>,
            <<token \notin {NoToken, Malformed} => Accepts(token), "InvalidToken">>>>
           failed == {i \in DOMAIN checks : ~checks[i][1]}
<1>1. AuthRejection(token) = IF failed = {} THEN 0 ELSE AuthStatus(checks[Min(failed)][2])
  BY DEF AuthRejection
<1>2. \A r : AuthStatus(r) \in {401, 500}
  BY DEF AuthStatus
<1>3. DOMAIN checks = 1 .. 6
  OBVIOUS
<1>4. /\ checks[4][1] = (token # NoToken)
      /\ checks[5][1] = (token # Malformed)
      /\ checks[6][1] = (token \notin {NoToken, Malformed} => Accepts(token))
  OBVIOUS
<1> HIDE DEF checks
<1>5. failed = {} => checks[4][1] /\ checks[5][1] /\ checks[6][1]
  BY <1>3
<1>6. failed = {} => token # NoToken /\ token # Malformed /\ Accepts(token)
  BY <1>4, <1>5, Zenon
<1> QED
  BY <1>1, <1>2, <1>6

LEMMA ByKind ==
    ASSUME NEW e, NEW r
    PROVE  /\ e.of = "Cap" => Rejection(e, r) = CapRejection(e.contract)
           /\ e.of = "Auth" => Rejection(e, r) = AuthRejection(r.token)
BY DEF Rejection

LEMMA MeVerdict ==
    ASSUME NEW r
    PROVE  /\ FirstRejection(Parameters["me"], r) # 200
           /\ FirstRejection(Parameters["me"], r) = 0 =>
                r.token \notin {NoToken, Malformed} /\ Accepts(r.token)
<1> DEFINE taken == <<CapOf("SqlitePool"), Auth>>
           rejected == {i \in DOMAIN taken : Rejection(taken[i], r) # 0}
<1>1. FirstRejection(Parameters["me"], r)
        = IF rejected = {} THEN 0 ELSE Rejection(taken[Min(rejected)], r)
  BY DEF FirstRejection, Parameters
<1>2. DOMAIN taken = {1, 2}
  OBVIOUS
<1>3. Rejection(taken[1], r) \in {0, 500}
  <2>1. taken[1].of = "Cap"
    BY DEF CapOf
  <2>2. Rejection(taken[1], r) = CapRejection(taken[1].contract)
    BY <2>1, ByKind
  <2> QED
    BY <2>2 DEF CapRejection
<1>4. Rejection(taken[2], r) = AuthRejection(r.token)
  <2>1. taken[2].of = "Auth"
    BY DEF Auth
  <2> QED
    BY <2>1, ByKind
<1> HIDE DEF taken
<1>5. rejected # {} => Min(rejected) \in rejected
  <2>1. rejected \in {{}, {1}, {2}, {1, 2}}
    BY <1>2
  <2>2. \A S \in {{1}, {2}, {1, 2}} : \E x \in S : \A y \in S : x <= y
    OBVIOUS
  <2> QED
    BY <2>1, <2>2 DEF Min
<1>6. rejected # {} => FirstRejection(Parameters["me"], r) \in {401, 500}
  BY <1>1, <1>2, <1>3, <1>4, <1>5, AuthVerdict
<1>7. rejected = {} => AuthRejection(r.token) = 0
  BY <1>2, <1>4
<1> QED
  BY <1>1, <1>6, <1>7, AuthVerdict

-----------------------------------------------------------------------------
(* A connection that a step leaves alone, or ends.                         *)

Grown ==
    /\ users \subseteq users' /\ minted \subseteq minted'
    /\ clock \in Nat /\ clock' \in Nat /\ clock <= clock'

Kept(c) ==
    /\ at'[c] = at[c] /\ request'[c] = request[c] /\ handler'[c] = handler[c]
    /\ reply'[c] = reply[c] /\ subject'[c] = subject[c] /\ since'[c] = since[c]

LEMMA KeptHeld ==
    ASSUME NEW c \in Conn, Typed, Grown, Kept(c), Held(c)
    PROVE  Held(c)'
<1>1. since[c] \in Nat
  BY DEF Typed
<1>2. (since[c] <= clock)'
  BY <1>1 DEF Grown, Kept, Held
<1>3. (at[c] # "none" => Presentable(request[c].token))'
  BY DEF Grown, Kept, Held, Presentable
<1>4. (at[c] = "issue" =>
         handler[c] # "me" /\ IsAccount(subject[c], request[c].body.email))'
  BY DEF Grown, Kept, Held, IsAccount
<1>5. (at[c] = "select" /\ handler[c] = "me" => Recognised(c))'
  BY DEF Grown, Kept, Held, Recognised
<1>6. Own(c)'
  BY DEF Grown, Kept, Held, Own
<1> QED
  BY <1>2, <1>3, <1>4, <1>5, <1>6 DEF Held, Kept

LEMMA ReleasedHeld ==
    ASSUME NEW c \in Conn, Grown, at'[c] = "none", since'[c] \in Nat,
           since'[c] <= clock'
    PROVE  Held(c)'
BY DEF Held, Own

LEMMA TablesKept ==
    ASSUME Accounts, Tokens, UNCHANGED <<users, nextId, minted>>
    PROVE  Accounts' /\ Tokens'
BY DEF Accounts, Tokens, IsAccount

-----------------------------------------------------------------------------
(* The initial state.                                                      *)

LEMMA Initially == Init => IInv
<1> SUFFICES ASSUME Init PROVE IInv
  OBVIOUS
<1>1. Typed
  BY DEF Init, HttpInit, AuthInit, Typed, Place
<1>2. Accounts /\ Tokens
  BY DEF Init, Accounts, Tokens
<1>3. ASSUME NEW c \in Conn PROVE Held(c)
  <2>1. at[c] = "none" /\ since[c] = 0 /\ clock = 0
    BY DEF Init, HttpInit, AuthInit
  <2> QED
    BY <2>1 DEF Held, Own
<1> QED
  BY <1>1, <1>2, <1>3 DEF IInv, Data

-----------------------------------------------------------------------------
(* The server's own steps: each leaves a task alone, ends it, or takes it  *)
(* from its body to the extractors or to a response that is not 200.       *)

SameTask(c) ==
    /\ at'[c] = at[c] /\ request'[c] = request[c]
    /\ handler'[c] = handler[c] /\ reply'[c] = reply[c]

Dispatched(c) ==
    /\ at[c] = "body" /\ request'[c] = request[c]
    /\ \/ at'[c] = "extract"
       \/ at'[c] = "respond" /\ reply'[c].status # 200

TaskTyped ==
    /\ at \in [Conn -> Place]
    /\ request = [c \in Conn |-> request[c]]
    /\ handler = [c \in Conn |-> handler[c]]
    /\ reply = [c \in Conn |-> reply[c]]

LEMMA ReleaseTasks ==
    ASSUME TaskTyped, NEW cs, Release(cs)
    PROVE  /\ TaskTyped'
           /\ \A c \in Conn : IF c \in cs THEN at'[c] = "none" ELSE SameTask(c)
BY DEF Release, TaskTyped, SameTask, Place

LEMMA FinishTask ==
    ASSUME TaskTyped, NEW c \in Conn, NEW r, Finish(c, r), UNCHANGED handler
    PROVE  /\ TaskTyped'
           /\ \A d \in Conn \ {c} : SameTask(d)
           /\ at'[c] = "respond" /\ reply'[c] = r
           /\ request'[c] = request[c] /\ handler'[c] = handler[c]
BY DEF Finish, Goto, TaskTyped, SameTask, Place

LEMMA AwaitTask ==
    ASSUME TaskTyped, NEW c \in Conn, NEW p \in Place, Await(c, p), UNCHANGED handler
    PROVE  /\ TaskTyped'
           /\ \A d \in Conn \ {c} : SameTask(d)
           /\ at'[c] = p /\ reply'[c] = reply[c]
           /\ request'[c] = request[c] /\ handler'[c] = handler[c]
BY DEF Await, Goto, TaskTyped, SameTask

LEMMA ServerTasks ==
    ASSUME TaskTyped, ServerStep(App)
    PROVE  /\ TaskTyped'
           /\ \A d \in Conn : SameTask(d) \/ at'[d] = "none" \/ Dispatched(d)
<1>1. CASE UNCHANGED taskVars
  BY <1>1 DEF taskVars, TaskTyped, SameTask
<1>2. CASE Bind \/ DescriptorBack \/ SeeSignal
  BY <1>1, <1>2 DEF Bind, DescriptorBack, SeeSignal
<1>3. CASE Exit
  BY <1>3, ReleaseTasks DEF Exit
<1>4. ASSUME NEW c \in Conn, Accept(c) \/ AcceptError(c) \/ Connect(c)
      PROVE  UNCHANGED taskVars
  BY <1>4 DEF Accept, AcceptError, Connect
<1>5. ASSUME NEW c \in Conn, HangUp(c) \/ Respond(c)
      PROVE  Release({c})
  BY <1>5 DEF HangUp, Lost, Respond
<1>6. ASSUME NEW c \in Conn, ReadBodyFails(c)
      PROVE  /\ TaskTyped'
             /\ \A d \in Conn : SameTask(d) \/ Dispatched(d)
  <2>1. at[c] = "body" /\ Finish(c, Reply(400)) /\ UNCHANGED handler
    BY <1>6 DEF ReadBodyFails
  <2>2. Reply(400).status # 200
    BY DEF Reply
  <2> QED
    BY <2>1, <2>2, FinishTask DEF Dispatched
<1>7. ASSUME NEW c \in Conn, ReadBody(c, App)
      PROVE  /\ TaskTyped'
             /\ \A d \in Conn : SameTask(d) \/ Dispatched(d)
  <2>1. PICK found :
          /\ at[c] = "body"
          /\ handler' = [handler EXCEPT ![c] = found]
          /\ IF found = NoHandler THEN Finish(c, Reply(404))
             ELSE Goto(c, "extract") /\ UNCHANGED <<request, reply>>
    BY <1>7 DEF ReadBody
  <2>2. Reply(404).status # 200
    BY DEF Reply
  <2>3. TaskTyped'
    BY <2>1 DEF Finish, Goto, TaskTyped, Place
  <2>4. \A d \in Conn \ {c} : SameTask(d)
    BY <2>1 DEF Finish, Goto, TaskTyped, SameTask
  <2>5. Dispatched(c)
    BY <2>1, <2>2 DEF Finish, Goto, TaskTyped, Dispatched
  <2> QED
    BY <2>3, <2>4, <2>5
<1> QED
  BY <1>1, <1>2, <1>3, <1>4, <1>5, <1>6, <1>7, ReleaseTasks DEF ServerStep

LEMMA ServeKeeps == IInv /\ Serve => IInv'
<1> SUFFICES ASSUME IInv, Serve PROVE IInv'
  OBVIOUS
<1>1. /\ UNCHANGED <<clock, users, nextId, minted>>
      /\ subject' = [c \in Conn |-> IF at'[c] = "none" THEN NoId ELSE subject[c]]
      /\ since' = [c \in Conn |-> IF at'[c] = "none" THEN 0 ELSE since[c]]
  BY DEF Serve, Others, authVars, dbVars
<1>2. TaskTyped
  BY DEF IInv, Data, Typed, TaskTyped
<1>3. /\ TaskTyped'
      /\ \A d \in Conn : SameTask(d) \/ at'[d] = "none" \/ Dispatched(d)
  BY <1>2, ServerTasks DEF Serve
<1>4. Typed'
  BY <1>1, <1>3 DEF IInv, Data, Typed, TaskTyped
<1>5. Accounts' /\ Tokens'
  BY <1>1, TablesKept DEF IInv, Data
<1>6. Grown
  BY <1>1 DEF Grown, IInv, Data, Typed
<1>7. ASSUME NEW d \in Conn PROVE Held(d)'
  <2>1. CASE at'[d] = "none"
    <3>1. since'[d] = 0
      BY <1>1, <2>1
    <3> QED
      BY <1>6, <2>1, <3>1, ReleasedHeld DEF Grown
  <2>2. CASE SameTask(d) /\ at'[d] # "none"
    <3>1. Kept(d)
      BY <1>1, <2>2 DEF SameTask, Kept
    <3> QED
      BY <1>6, <3>1, KeptHeld DEF IInv, Data
  <2>3. CASE Dispatched(d)
    <3>1. since'[d] = since[d] /\ since[d] <= clock /\ clock' = clock
      BY <1>1, <2>3 DEF Dispatched, IInv, Held
    <3>2. Presentable(request[d].token)
      BY <2>3 DEF Dispatched, IInv, Held
    <3>3. Presentable(request[d].token)'
      BY <1>1, <2>3, <3>2 DEF Dispatched, Presentable
    <3>4. Own(d)'
      BY <2>3 DEF Dispatched, Own
    <3> QED
      BY <2>3, <3>1, <3>3, <3>4 DEF Dispatched, Held
  <2> QED
    BY <1>3, <2>1, <2>2, <2>3
<1> QED
  BY <1>4, <1>5, <1>7 DEF IInv, Data

LEMMA TimePasses == IInv /\ Environment => IInv'
<1> SUFFICES ASSUME IInv, Environment PROVE IInv'
  OBVIOUS
<1>1. /\ clock \in Nat /\ clock' = clock + 1
      /\ UNCHANGED <<at, request, handler, reply, users, nextId, minted, subject, since>>
  BY DEF Environment, Tick, httpVars, appVars, dbVars, refVars, IInv, Data, Typed
<1>2. Typed' /\ Grown
  BY <1>1 DEF IInv, Data, Typed, Grown
<1>3. Accounts' /\ Tokens'
  BY <1>1, TablesKept DEF IInv, Data
<1>4. \A c \in Conn : Kept(c)
  BY <1>1 DEF Kept
<1> QED
  BY <1>2, <1>3, <1>4, KeptHeld DEF IInv, Data

(* A client has no token the server would accept but one it was given.     *)
LEMMA SendKeeps == ASSUME NEW c \in Conn PROVE IInv /\ Send(c) => IInv'
<1> SUFFICES ASSUME IInv, Send(c) PROVE IInv'
  OBVIOUS
<1>1. PICK r \in Requests : SendHead(c, r)
  BY DEF Send
<1>2. /\ since' = [since EXCEPT ![c] = clock]
      /\ UNCHANGED <<clock, users, nextId, minted, subject>>
  BY DEF Send, authVars, dbVars
<1>3. /\ request' = [request EXCEPT ![c] = r]
      /\ at' = [at EXCEPT ![c] = "body"]
      /\ UNCHANGED <<handler, reply>>
  BY <1>1 DEF SendHead, Goto
<1>4. Typed' /\ Grown
  BY <1>2, <1>3 DEF IInv, Data, Typed, Grown, Place
<1>5. Accounts' /\ Tokens'
  BY <1>2, TablesKept DEF IInv, Data
<1>6. ASSUME NEW d \in Conn \ {c} PROVE Held(d)'
  <2>1. Kept(d)
    BY <1>2, <1>3, <1>6 DEF Kept, IInv, Data, Typed
  <2> QED
    BY <1>4, <2>1, KeptHeld DEF IInv, Data
<1>7. Presentable(r.token)
  <2>1. CASE r \in PlainRequest
    BY <2>1, RequestAssumption DEF RequestAssumption, Presentable
  <2>2. CASE r \notin PlainRequest
    <3>1. r.token \in {m.token : m \in minted} \cup Forged \cup {NoToken, Malformed}
      BY <2>2 DEF Requests, Ask
    <3> QED
      BY <3>1, RequestAssumption DEF RequestAssumption, Presentable
  <2> QED
    BY <2>1, <2>2
<1>8. Held(c)'
  <2>1. at'[c] = "body" /\ request'[c] = r /\ since'[c] = clock /\ clock' = clock
    BY <1>2, <1>3 DEF IInv, Data, Typed
  <2>2. Presentable(r.token)'
    BY <1>2, <1>7 DEF Presentable
  <2>3. Presentable(request[c].token)'
    BY <2>1, <2>2 DEF Presentable
  <2> QED
    BY <2>1, <2>3 DEF Held, Own, IInv, Data, Typed
<1> QED
  BY <1>4, <1>5, <1>6, <1>8 DEF IInv, Data

-----------------------------------------------------------------------------
(* The steps of a handler.                                                 *)

Alone(c) == \A d \in Conn \ {c} :
    SameTask(d) /\ subject'[d] = subject[d] /\ since'[d] = since[d]

LEMMA StepOf ==
    ASSUME NEW c \in Conn, IInv, Grown, Data', Alone(c), Held(c)'
    PROVE  IInv'
<1>1. ASSUME NEW d \in Conn \ {c} PROVE Held(d)'
  <2>1. Kept(d)
    BY DEF Alone, SameTask, Kept
  <2> QED
    BY <2>1, KeptHeld DEF IInv, Data
<1> QED
  BY <1>1 DEF IInv

(* A handler answers, with anything but a user of /me, or waits for what   *)
(* is neither a row of /me nor a token.                                    *)
LEMMA Answers ==
    ASSUME NEW c \in Conn, IInv, NEW r, Finish(c, r), UNCHANGED handler,
           UNCHANGED <<clock, users, nextId, minted, subject, since>>,
           at[c] # "none", handler[c] = "me" => r.status # 200
    PROVE  IInv'
<1>1. TaskTyped
  BY DEF IInv, Data, Typed, TaskTyped
<1>2. /\ TaskTyped'
      /\ \A d \in Conn \ {c} : SameTask(d)
      /\ at'[c] = "respond" /\ reply'[c] = r
      /\ request'[c] = request[c] /\ handler'[c] = handler[c]
  BY <1>1, FinishTask
<1>3. Data' /\ Grown
  BY <1>2, TablesKept DEF IInv, Data, Typed, TaskTyped, Grown
<1>4. Held(c)'
  BY <1>2 DEF Held, Own, Presentable, IInv
<1> QED
  BY <1>2, <1>3, <1>4, StepOf DEF Alone

LEMMA Awaits ==
    ASSUME NEW c \in Conn, IInv, Await(c, "select") \/ Await(c, "insert"),
           UNCHANGED handler, UNCHANGED <<clock, users, nextId, minted, subject, since>>,
           at[c] # "none", handler[c] # "me"
    PROVE  IInv'
<1>1. TaskTyped
  BY DEF IInv, Data, Typed, TaskTyped
<1>2. /\ TaskTyped'
      /\ \A d \in Conn \ {c} : SameTask(d)
      /\ at'[c] \in {"select", "insert"}
      /\ request'[c] = request[c] /\ handler'[c] = handler[c]
  BY <1>1, AwaitTask DEF Place
<1>3. Data' /\ Grown
  BY <1>2, TablesKept DEF IInv, Data, Typed, TaskTyped, Grown
<1>4. Held(c)'
  BY <1>2 DEF Held, Own, Presentable, IInv
<1> QED
  BY <1>2, <1>3, <1>4, StepOf DEF Alone

(* A handler holds the id of an account, for a token of its email.         *)
LEMMA Identifies ==
    ASSUME NEW c \in Conn, IInv, Grown, Accounts', Tokens', Await(c, "issue"),
           UNCHANGED <<handler, clock, since>>, nextId' \in Nat,
           NEW id, subject' = [subject EXCEPT ![c] = id],
           IsAccount(id, request[c].body.email)',
           at[c] # "none", handler[c] # "me"
    PROVE  IInv'
<1>1. TaskTyped
  BY DEF IInv, Data, Typed, TaskTyped
<1>2. /\ TaskTyped'
      /\ \A d \in Conn \ {c} : SameTask(d)
      /\ at'[c] = "issue"
      /\ request'[c] = request[c] /\ handler'[c] = handler[c]
  BY <1>1, AwaitTask DEF Place
<1>3. subject'[c] = id /\ \A d \in Conn \ {c} : subject'[d] = subject[d]
  BY DEF IInv, Data, Typed
<1>4. Data'
  BY <1>2 DEF IInv, Data, Typed, TaskTyped
<1>5. Presentable(request[c].token)'
  BY <1>2 DEF Held, IInv, Presentable, Grown
<1>6. IsAccount(subject[c], request[c].body.email)'
  BY <1>2, <1>3 DEF IsAccount
<1>7. Held(c)'
  BY <1>2, <1>5, <1>6 DEF Held, Own, IInv
<1> QED
  BY <1>2, <1>3, <1>4, <1>7, StepOf DEF Alone

LEMMA ExtractKeeps ==
    ASSUME NEW c \in Conn PROVE IInv /\ Extract(c) /\ UNCHANGED handler => IInv'
<1> SUFFICES ASSUME IInv, Extract(c), UNCHANGED handler PROVE IInv'
  OBVIOUS
<1> DEFINE rejection == FirstRejection(Parameters[handler[c]], request[c])
<1>1. /\ at[c] = "extract"
      /\ UNCHANGED <<clock, users, nextId, minted, since>>
  BY DEF Extract, authVars, dbVars, refVars
<1>2. CASE rejection # 0
  <2>1. Finish(c, Reply(rejection)) /\ UNCHANGED subject
    BY <1>2 DEF Extract
  <2>2. Reply(rejection).status = rejection
    BY DEF Reply
  <2>3. handler[c] = "me" => rejection # 200
    BY MeVerdict
  <2> HIDE DEF rejection
  <2> QED
    BY <1>1, <2>1, <2>2, <2>3, Answers
<1>3. CASE rejection = 0
  <2>1. Enter(c)
    BY <1>3 DEF Extract
  <2>2. CASE handler[c] # "me" /\ UNCHANGED subject
    <3>1. \/ \E r : Finish(c, r)
          \/ Await(c, "select")
      BY <2>1, <2>2 DEF Enter
    <3> QED
      BY <1>1, <2>2, <3>1, Answers, Awaits
  <2>3. CASE handler[c] = "me"
    <3>1. /\ Await(c, "select")
          /\ subject' = [subject EXCEPT ![c] = request[c].token.claims.sub]
      BY <2>1, <2>3 DEF Enter
    <3>2. request[c].token \notin {NoToken, Malformed} /\ Accepts(request[c].token)
      BY <1>3, <2>3, MeVerdict
    <3>3. TaskTyped
      BY DEF IInv, Data, Typed, TaskTyped
    <3>4. /\ TaskTyped'
          /\ \A d \in Conn \ {c} : SameTask(d)
          /\ at'[c] = "select"
          /\ request'[c] = request[c] /\ handler'[c] = handler[c]
      BY <3>1, <3>3, AwaitTask DEF Place
    <3>5. /\ subject'[c] = request[c].token.claims.sub
          /\ \A d \in Conn \ {c} : subject'[d] = subject[d]
      BY <3>1 DEF IInv, Data, Typed
    <3>6. Data' /\ Grown
      <4>1. subject' = [d \in Conn |-> subject'[d]]
        BY <3>1 DEF IInv, Data, Typed
      <4>2. Typed' /\ Grown
        BY <1>1, <3>4, <4>1 DEF IInv, Data, Typed, TaskTyped, Grown
      <4> QED
        BY <1>1, <4>2, TablesKept DEF IInv, Data
    <3>7. /\ Presentable(request[c].token)
          /\ since[c] <= clock /\ since[c] \in Nat /\ clock \in Nat
      BY <1>1 DEF IInv, Held, Data, Typed
    <3>8. PICK m \in minted : m.token = request[c].token
      BY <3>2, <3>7 DEF Presentable, Accepts
    <3>9. /\ m.id = request[c].token.claims.sub
          /\ request[c].token.claims.exp \in Nat
      BY <3>8 DEF IInv, Data, Tokens
    <3>10. Leeway \in Nat
      BY JwtAssumption DEF JwtAssumption
    <3>11. request[c].token.claims.exp + Leeway >= since[c]
      BY <3>2, <3>7, <3>9, <3>10 DEF Accepts
    <3>12. Recognised(c)'
      BY <1>1, <3>4, <3>5, <3>8, <3>9, <3>11 DEF Recognised
    <3>13. Held(c)'
      BY <1>1, <2>3, <3>4, <3>7, <3>12 DEF Held, Own, Presentable
    <3> QED
      BY <1>1, <3>4, <3>5, <3>6, <3>13, StepOf DEF Alone
  <2> QED
    BY <2>1, <2>2, <2>3 DEF Enter
<1> QED
  BY <1>2, <1>3

LEMMA QueryFailsKeeps ==
    ASSUME NEW c \in Conn PROVE IInv /\ QueryFails(c) /\ UNCHANGED handler => IInv'
<1> SUFFICES ASSUME IInv, QueryFails(c), UNCHANGED handler PROVE IInv'
  OBVIOUS
<1>1. Reply(500).status # 200
  BY DEF Reply
<1>2. at[c] # "none" /\ Finish(c, Reply(500))
      /\ UNCHANGED <<clock, users, nextId, minted, subject, since>>
  BY DEF QueryFails, authVars, refVars
<1> QED
  BY <1>1, <1>2, Answers

LEMMA SignupSelectKeeps ==
    ASSUME NEW c \in Conn PROVE IInv /\ SignupSelect(c) /\ UNCHANGED handler => IInv'
<1> SUFFICES ASSUME IInv, SignupSelect(c), UNCHANGED handler PROVE IInv'
  OBVIOUS
<1>1. /\ at[c] # "none" /\ handler[c] # "me"
      /\ UNCHANGED <<clock, users, nextId, minted, subject, since>>
      /\ Finish(c, Reply(409)) \/ Await(c, "insert")
  BY DEF SignupSelect, authVars, appVars, dbVars, refVars
<1> QED
  BY <1>1, Answers, Awaits

(* A signup that comes second meets the constraint: keys stay keys.        *)
LEMMA SignupInsertKeeps ==
    ASSUME NEW c \in Conn PROVE IInv /\ SignupInsert(c) /\ UNCHANGED handler => IInv'
<1> SUFFICES ASSUME IInv, SignupInsert(c), UNCHANGED handler PROVE IInv'
  OBVIOUS
<1>1. /\ at[c] = "insert" /\ handler[c] # "me"
      /\ UNCHANGED <<clock, minted, since>>
  BY DEF SignupInsert, authVars, refVars, IInv, Held
<1>2. CASE Row(request[c].body.email) # {}
  BY <1>1, <1>2, Answers DEF SignupInsert
<1>3. CASE Row(request[c].body.email) = {}
  <2> DEFINE new == [id |-> nextId, email |-> request[c].body.email,
                     password |-> request[c].body.password]
  <2>1. /\ users' = users \cup {new}
        /\ nextId' = nextId + 1
        /\ subject' = [subject EXCEPT ![c] = nextId]
        /\ Await(c, "issue")
    BY <1>3 DEF SignupInsert
  <2>2. new.id = nextId /\ new.email = request[c].body.email
    OBVIOUS
  <2> HIDE DEF new
  <2>3. nextId \in Nat
    BY DEF IInv, Data, Typed
  <2>4. \A u \in users : u.email # request[c].body.email
    BY <1>3 DEF Row
  <2>5. Accounts'
    BY <2>1, <2>2, <2>3, <2>4 DEF Accounts, IInv, Data
  <2>6. Tokens'
    BY <1>1, <2>1 DEF Tokens, IsAccount, IInv, Data
  <2>7. request' = request
    BY <2>1 DEF Await
  <2>8. PICK id : id = nextId
    OBVIOUS
  <2>9. IsAccount(id, request[c].body.email)'
    <3>1. new \in users' /\ new.email = request'[c].body.email
      BY <2>1, <2>2, <2>7
    <3> QED
      BY <2>2, <2>8, <3>1 DEF IsAccount
  <2>10. Grown
    BY <1>1, <2>1 DEF Grown, IInv, Data, Typed
  <2>11. nextId' \in Nat /\ subject' = [subject EXCEPT ![c] = id]
    BY <2>1, <2>3, <2>8
  <2> QED
    BY <1>1, <2>1, <2>5, <2>6, <2>9, <2>10, <2>11, Identifies
<1> QED
  BY <1>2, <1>3

LEMMA LoginSelectKeeps ==
    ASSUME NEW c \in Conn PROVE IInv /\ LoginSelect(c) /\ UNCHANGED handler => IInv'
<1> SUFFICES ASSUME IInv, LoginSelect(c), UNCHANGED handler PROVE IInv'
  OBVIOUS
<1> DEFINE row == Row(request[c].body.email)
<1>1. /\ at[c] # "none" /\ handler[c] # "me"
      /\ UNCHANGED <<clock, users, nextId, minted, since>>
  BY DEF LoginSelect, authVars, dbVars, refVars
<1>2. CASE Finish(c, Reply(401)) /\ UNCHANGED subject
  BY <1>1, <1>2, Answers
<1>3. CASE /\ \E u \in row : u.password = request[c].body.password
           /\ subject' = [subject EXCEPT ![c] = (CHOOSE u \in row : TRUE).id]
           /\ Await(c, "issue")
  <2>1. PICK u \in row : u = CHOOSE v \in row : TRUE
    BY <1>3
  <2>2. u \in users /\ u.email = request[c].body.email
    BY <2>1 DEF Row
  <2>3. request' = request
    BY <1>3 DEF Await
  <2>4. IsAccount(u.id, request[c].body.email)'
    BY <1>1, <2>2, <2>3 DEF IsAccount
  <2>5. subject' = [subject EXCEPT ![c] = u.id]
    BY <1>3, <2>1
  <2>6. Accounts' /\ Tokens' /\ Grown /\ nextId' \in Nat
    BY <1>1, TablesKept DEF IInv, Data, Typed, Grown
  <2> QED
    BY <1>1, <1>3, <2>4, <2>5, <2>6, Identifies
<1> QED
  BY <1>2, <1>3 DEF LoginSelect

LEMMA IssueTokenKeeps ==
    ASSUME NEW c \in Conn PROVE IInv /\ IssueToken(c) => IInv'
<1> SUFFICES ASSUME IInv, IssueToken(c) PROVE IInv'
  OBVIOUS
<1>1. /\ at[c] = "issue"
      /\ handler[c] # "me" /\ IsAccount(subject[c], request[c].body.email)
      /\ UNCHANGED <<clock, users, nextId>>
  BY DEF IssueToken, authVars, dbVars, IInv, Held
<1>2. /\ subject' = [subject EXCEPT ![c] = IF at'[c] = "none" THEN NoId ELSE @]
      /\ since' = [since EXCEPT ![c] = IF at'[c] = "none" THEN 0 ELSE @]
  BY DEF IssueToken
<1>3. /\ \A d \in Conn \ {c} : subject'[d] = subject[d] /\ since'[d] = since[d]
      /\ subject' = [d \in Conn |-> subject'[d]]
      /\ since' \in [Conn -> Nat]
      /\ since'[c] \in {0, since[c]}
  BY <1>2 DEF IInv, Data, Typed
<1>4. TaskTyped /\ clock \in Nat /\ nextId \in Nat /\ since[c] \in Nat /\ since[c] <= clock
  BY DEF IInv, Data, Typed, TaskTyped, Held
<1>5. CASE Lost(c) /\ UNCHANGED minted
  <2>1. TaskTyped' /\ at'[c] = "none" /\ \A d \in Conn \ {c} : SameTask(d)
    BY <1>4, <1>5, ReleaseTasks DEF Lost
  <2>2. Data' /\ Grown
    BY <1>1, <1>3, <1>4, <1>5, <2>1, TablesKept DEF IInv, Data, Typed, TaskTyped, Grown
  <2>3. Held(c)'
    BY <1>1, <1>3, <1>4, <2>1, <2>2, ReleasedHeld
  <2> QED
    BY <1>3, <2>1, <2>2, <2>3, StepOf DEF Alone
<1>6. ASSUME NEW token, token = Encode(Issue(subject[c])),
             Finish(c, [status |-> 200, token |-> token]), UNCHANGED handler,
             minted' = minted \cup {[token |-> token, id |-> subject[c],
                                     email |-> request[c].body.email]}
      PROVE  IInv'
  <2>1. /\ TaskTyped'
        /\ \A d \in Conn \ {c} : SameTask(d)
        /\ at'[c] = "respond"
        /\ request'[c] = request[c] /\ handler'[c] = handler[c]
    BY <1>4, <1>6, FinishTask
  <2>2. token.key = secret /\ token.claims.sub = subject[c] /\ token.claims.exp \in Nat
    <3>1. Ttl \in Nat
      BY JwtAssumption DEF JwtAssumption
    <3> QED
      BY <1>4, <1>6, <3>1 DEF Encode, Issue
  <2>3. Tokens'
    BY <1>1, <1>6, <2>2 DEF Tokens, IsAccount, IInv, Data
  <2>4. Accounts'
    BY <1>1 DEF Accounts, IInv, Data
  <2>5. Data' /\ Grown
    BY <1>1, <1>3, <1>4, <1>6, <2>1, <2>3, <2>4 DEF Data, Typed, TaskTyped, Grown
  <2>6. Held(c)'
    BY <1>1, <1>3, <1>4, <2>1, <2>5 DEF Held, Own, Presentable, IInv, Grown
  <2> QED
    BY <1>3, <2>1, <2>5, <2>6, StepOf DEF Alone
<1> QED
  BY <1>5, <1>6 DEF IssueToken

(* The row of the id a token was issued for is the row of its email.       *)
LEMMA MeSelectKeeps ==
    ASSUME NEW c \in Conn PROVE IInv /\ MeSelect(c) /\ UNCHANGED handler => IInv'
<1> SUFFICES ASSUME IInv, MeSelect(c), UNCHANGED handler PROVE IInv'
  OBVIOUS
<1>1. /\ at[c] = "select" /\ handler[c] = "me"
      /\ UNCHANGED <<clock, users, nextId, minted, subject, since>>
  BY DEF MeSelect, authVars, appVars, dbVars, refVars
<1>2. CASE Finish(c, Reply(401))
  <2>1. Reply(401).status # 200
    BY DEF Reply
  <2> QED
    BY <1>1, <1>2, <2>1, Answers
<1>3. ASSUME NEW u \in users, u.id = subject[c],
             Finish(c, [status |-> 200, user |-> u])
      PROVE  IInv'
  <2>1. TaskTyped
    BY DEF IInv, Data, Typed, TaskTyped
  <2>2. /\ TaskTyped'
        /\ \A d \in Conn \ {c} : SameTask(d)
        /\ at'[c] = "respond" /\ reply'[c] = [status |-> 200, user |-> u]
        /\ request'[c] = request[c] /\ handler'[c] = handler[c]
    BY <1>3, <2>1, FinishTask
  <2>3. Recognised(c)
    BY <1>1 DEF IInv, Held
  <2>4. PICK m \in minted : m.token = request[c].token /\ m.id = subject[c]
    BY <2>3 DEF Recognised
  <2>5. PICK v \in users : v.id = m.id /\ v.email = m.email
    BY <2>4 DEF IInv, Data, Tokens, IsAccount
  <2>6. m.id = u.id /\ m.email = u.email
    BY <1>3, <2>4, <2>5 DEF IInv, Data, Accounts
  <2>7. reply'[c].user = u
    BY <2>2
  <2>8. Own(c)'
    BY <1>1, <2>2, <2>3, <2>4, <2>6, <2>7 DEF Own, Recognised
  <2>9. Data' /\ Grown
    BY <1>1, <2>2, TablesKept DEF IInv, Data, Typed, TaskTyped, Grown
  <2>10. Held(c)'
    BY <1>1, <2>2, <2>8 DEF Held, Presentable, IInv
  <2> QED
    BY <1>1, <2>2, <2>9, <2>10, StepOf DEF Alone
<1>4. \/ Finish(c, Reply(401))
      \/ \E u \in users : u.id = subject[c] /\ Finish(c, [status |-> 200, user |-> u])
  <2> DEFINE row == {u \in users : u.id = subject[c]}
  <2>1. row # {} => (CHOOSE u \in row : TRUE) \in row
    OBVIOUS
  <2>2. IF row = {} THEN Finish(c, Reply(401))
        ELSE Finish(c, [status |-> 200, user |-> CHOOSE u \in row : TRUE])
    BY DEF MeSelect
  <2> QED
    BY <2>1, <2>2
<1> QED
  BY <1>2, <1>3, <1>4

-----------------------------------------------------------------------------
LEMMA StepKeeps == IInv /\ [Next]_vars => IInv'
<1> SUFFICES ASSUME IInv, [Next]_vars PROVE IInv'
  OBVIOUS
<1>1. ASSUME NEW c \in Conn, Handle(c) PROVE IInv'
  BY <1>1, IssueTokenKeeps, ExtractKeeps, QueryFailsKeeps, SignupSelectKeeps,
     SignupInsertKeeps, LoginSelectKeeps, MeSelectKeeps DEF Handle
<1>2. CASE UNCHANGED vars
  <2>1. /\ UNCHANGED <<clock, users, nextId, minted, subject, since>>
        /\ UNCHANGED <<at, request, handler, reply>>
    BY <1>2 DEF vars, httpVars, authVars, appVars, dbVars, refVars
  <2>2. Data' /\ Grown
    BY <2>1, TablesKept DEF IInv, Data, Typed, Grown
  <2>3. \A c \in Conn : Kept(c)
    BY <2>1 DEF Kept
  <2> QED
    BY <2>2, <2>3, KeptHeld DEF IInv, Data
<1> QED
  BY <1>1, <1>2, ServeKeeps, TimePasses, SendKeeps DEF Next

THEOREM Invariance == Spec => []IInv
BY Initially, StepKeeps, PTL DEF Spec

(* Whoever /me answers has presented a token that was issued at a signup   *)
(* or a login, for the account it is told of and not expired when the      *)
(* request was sent: for any requests, any forged tokens, any number of    *)
(* connections and any order of their queries (Auth, issue_token, me).     *)
THEOREM AcceptedAreOwn == Spec => []AcceptedIsOwn
<1>1. IInv => AcceptedIsOwn
  BY DEF IInv, Held, Own, AcceptedIsOwn
<1> QED
  BY <1>1, Invariance, PTL

(* However signups race, an email has one account, and every token is for  *)
(* the account of the email it was asked for (signup, login).              *)
THEOREM AccountsAreSingle == Spec => []OneAccount
<1>1. IInv => OneAccount
  BY DEF IInv, Data, Accounts, Tokens, IsAccount, OneAccount
<1> QED
  BY <1>1, Invariance, PTL
=============================================================================
