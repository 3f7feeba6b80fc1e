--------------------------- MODULE AdmissionProofs ---------------------------
(***************************************************************************)
(* Proofs about the admission package: what the weighted round-robin order *)
(* promises, for every capacity and every set of requests; that the        *)
(* gateway keeps its requests in one place and answers each of them, for   *)
(* every assignment of classes and needs; and that what is proved of the   *)
(* queue holds of the queue inside the gateway.                            *)
(***************************************************************************)
EXTENDS Gateway, WFQueueShare, SequenceTheorems, TLAPS

USE DEF Classes, High, Medium, Low, NoClass, Slots, Requests

\* Type of the queue and of the observation.
STypeOK == /\ TypeOK
           /\ watched \in Classes \cup {NoClass}
           /\ start \in Slots
           /\ travel \in 0..10
           /\ total \in 0..10
           /\ mine \in 0..10
           /\ mine <= total

\* How many slots the cursor k stands before the next slot of class c.
Dist(c, k) ==
  CASE c = High   -> IF k <= 6 THEN 0 ELSE 10 - k
    [] c = Medium -> IF k <= 7 THEN 7 - k ELSE IF k = 8 THEN 0 ELSE 8
    [] OTHER      -> 9 - k

\* How many of the first n slots of two cycles belong to class c.
Cum(c, n) ==
  CASE c = High   -> IF n <= 7 THEN n ELSE IF n <= 10 THEN 7
                     ELSE IF n <= 17 THEN n - 3 ELSE 14
    [] c = Medium -> IF n <= 7 THEN 0 ELSE IF n = 8 THEN 1 ELSE IF n <= 17 THEN 2
                     ELSE IF n = 18 THEN 3 ELSE 4
    [] OTHER      -> IF n <= 9 THEN 0 ELSE IF n <= 19 THEN 1 ELSE 2

-----------------------------------------------------------------------------
(* The cycle of the queue.                                                 *)

\* SlotAfter stays in the cycle and turns around at most once.
LEMMA SlotAfterStep ==
  ASSUME NEW k \in Slots, NEW i \in 0..10
  PROVE  /\ SlotAfter(k, i) \in Slots
         /\ SlotAfter(k, i) = IF k + i <= 9 THEN k + i
                              ELSE IF k + i <= 19 THEN k + i - 10 ELSE k + i - 20
  BY DEF SlotAfter

\* Every class has a slot within the cycle, and Dist says where.
LEMMA DistFinds ==
  ASSUME NEW c \in Classes, NEW k \in Slots
  PROVE  /\ Dist(c, k) \in 0..Gap(c)
         /\ Gap(c) \in Slots
         /\ WeightSequence[SlotAfter(k, Dist(c, k))] = c
  BY SlotAfterStep DEF Dist, Gap, Weight, WeightSequence

\* Passing slots of other classes only brings c's next slot nearer.
LEMMA DistShrinks ==
  ASSUME NEW c \in Classes, NEW k \in Slots, NEW i \in Slots,
         \A j \in 0..i : WeightSequence[SlotAfter(k, j)] # c
  PROVE  /\ i < Dist(c, k)
         /\ Dist(c, SlotAfter(k, i + 1)) = Dist(c, k) - (i + 1)
<1>1. Dist(c, k) \in 0..9 /\ WeightSequence[SlotAfter(k, Dist(c, k))] = c
  BY DistFinds DEF Gap, Weight
<1>2. i < Dist(c, k)
  BY <1>1
<1>3. SlotAfter(k, i + 1) = IF k + i + 1 <= 9 THEN k + i + 1 ELSE k + i + 1 - 10
  BY SlotAfterStep
<1>4. Dist(c, SlotAfter(k, i + 1)) = Dist(c, k) - (i + 1)
  BY <1>1, <1>2, <1>3 DEF Dist
<1> QED BY <1>2, <1>4

\* Next finds a request whenever some bucket is not empty.
LEMMA CycleCovers ==
  ASSUME NEW b, NEW k \in Slots, NEW c \in Classes, b[c] # <<>>
  PROVE  ~NothingReady(b, k)
<1>1. Dist(c, k) \in Slots /\ WeightSequence[SlotAfter(k, Dist(c, k))] = c
  BY DistFinds DEF Gap, Weight
<1>2. b[WeightSequence[SlotAfter(k, Dist(c, k))]] # <<>>
  BY <1>1, Zenon
<1> QED BY <1>1, <1>2, Zenon DEF NothingReady

-----------------------------------------------------------------------------
(* Type correctness.                                                       *)

\* Service keeps the types.
LEMMA ServeType ==
  ASSUME TypeOK, NEW i \in Slots, NEW c \in Classes, ServeAfter(i, c)
  PROVE  TypeOK'
<1>1. buckets[c] \in Seq(Items) /\ buckets[c] # <<>>
  BY DEF TypeOK, ServeAfter, FirstReady
<1>2. /\ Tail(buckets[c]) \in Seq(Items)
      /\ Len(Tail(buckets[c])) <= Capacity
  BY <1>1, CapacityAssumption DEF TypeOK
<1>3. cursor' \in Slots
  BY SlotAfterStep DEF TypeOK, ServeAfter
<1> QED BY <1>1, <1>2, <1>3 DEF TypeOK, ServeAfter, Popped

\* Admission keeps them, and the capacity.
LEMMA AdmitType ==
  ASSUME TypeOK, NEW c \in Classes, NEW x \in Items, Admit(c, x)
  PROVE  TypeOK'
<1>1. /\ Append(buckets[c], x) \in Seq(Items)
      /\ Len(Append(buckets[c], x)) <= Capacity
  BY CapacityAssumption DEF TypeOK, Admit, HasRoom
<1> QED BY <1>1 DEF TypeOK, Admit, Pushed

\* The types hold at first.
LEMMA TypeInit == SInit => STypeOK
  BY CapacityAssumption DEF SInit, Init, STypeOK, TypeOK, EmptyBuckets

\* Every step keeps the types, those of the observation too.
LEMMA TypeStep == STypeOK /\ [SNext]_svars => STypeOK'
<1> SUFFICES ASSUME STypeOK, [SNext]_svars PROVE STypeOK'
  OBVIOUS
<1>1. ASSUME NEW c \in Classes, NEW x \in Items, AdmitUnderWatch(c, x) PROVE STypeOK'
  BY <1>1, AdmitType DEF AdmitUnderWatch, STypeOK, watch
<1>2. ASSUME NEW c \in Classes, Observe(c) PROVE STypeOK'
  BY <1>2 DEF Observe, STypeOK, TypeOK, queue
<1>3. ASSUME NEW i \in Slots, NEW c \in Classes, ServeCounted(i, c) PROVE STypeOK'
  <2>1. TypeOK'
    BY <1>3, ServeType DEF ServeCounted, STypeOK
  <2>2. total' \in 0..10 /\ mine' \in 0..10 /\ mine' <= total' /\ travel' \in 0..10
    BY <1>3 DEF ServeCounted, NotCounting, STypeOK
  <2> QED BY <1>3, <2>1, <2>2 DEF ServeCounted, STypeOK
<1>4. ASSUME NEW i \in Slots, NEW c \in Classes, ServeUncounted(i, c) PROVE STypeOK'
  BY <1>4, ServeType DEF ServeUncounted, STypeOK
<1>5. CASE UNCHANGED svars
  BY <1>5 DEF svars, queue, watch, STypeOK, TypeOK
<1> QED BY <1>1, <1>2, <1>3, <1>4, <1>5 DEF SNext

\* The observation's counters stay in their ranges, and the queue in its type.
LEMMA ObservationType == SSpec => []STypeOK
  BY TypeInit, TypeStep, PTL DEF SSpec

\* The buckets never hold more than the capacity (queue.go:51), and the cursor
\* stays in the cycle.
THEOREM TypeCorrect == SSpec => []TypeOK
<1>1. STypeOK => TypeOK
  BY DEF STypeOK
<1> QED BY <1>1, ObservationType, PTL

-----------------------------------------------------------------------------
(* Next finds a request exactly when one is queued.                        *)

\* The ten slots name every class, so a cycle that finds nothing means an empty queue.
LEMMA NothingMeansEmpty ==
  ASSUME TypeOK
  PROVE  WorkConserving
<1>1. QueueLen(buckets) = 0 <=> \A c \in Classes : buckets[c] = <<>>
  BY EmptySeq DEF TypeOK, QueueLen
<1>2. ASSUME \A c \in Classes : buckets[c] = <<>> PROVE NothingReady(buckets, cursor)
  <2>1. \A j \in Slots : WeightSequence[SlotAfter(cursor, j)] \in Classes
    BY SlotAfterStep DEF WeightSequence, TypeOK
  <2> QED BY <1>2, <2>1 DEF NothingReady
<1>3. ASSUME NothingReady(buckets, cursor) PROVE \A c \in Classes : buckets[c] = <<>>
  BY <1>3, CycleCovers DEF TypeOK
<1> QED BY <1>1, <1>2, <1>3 DEF WorkConserving

\* "Nothing queued" is reported exactly when the queue is empty (queue.go:70).
THEOREM NextIsWorkConserving == SSpec => []WorkConserving
<1>1. STypeOK => WorkConserving
  BY NothingMeansEmpty DEF STypeOK
<1> QED BY <1>1, ObservationType, PTL

-----------------------------------------------------------------------------
(* Bounded bypass.  The calls that passed the watched class over, and the  *)
(* slots still to go to its next one, never add up to more than its gap.   *)

BypassInv == watched # NoClass /\ mine = 0 => total + Dist(watched, cursor) <= Gap(watched)

\* The slots a counted call passed over, and the served one unless it is the
\* watched class's own, belong to other classes.
LEMMA PassedSlots ==
  ASSUME STypeOK, NEW i \in Slots, NEW c \in Classes, ServeCounted(i, c)
  PROVE  /\ watched \in Classes
         /\ \A j \in 0..(i - 1) : WeightSequence[SlotAfter(cursor, j)] # watched
         /\ c = WeightSequence[SlotAfter(cursor, i)]
<1>1. watched \in Classes /\ buckets[watched] # <<>>
  BY DEF STypeOK, ServeCounted, NotCounting
<1>2. \A j \in 0..(i - 1) : buckets[WeightSequence[SlotAfter(cursor, j)]] = <<>>
  BY DEF ServeCounted, ServeAfter, FirstReady
<1>3. \A j \in 0..(i - 1) : WeightSequence[SlotAfter(cursor, j)] # watched
  BY <1>1, <1>2, Zenon
<1> QED BY <1>1, <1>3 DEF ServeCounted, ServeAfter

\* Every step keeps the bypasses within the distance still to go.
LEMMA BypassStep == STypeOK /\ BypassInv /\ [SNext]_svars => BypassInv'
<1> SUFFICES ASSUME STypeOK, BypassInv, [SNext]_svars PROVE BypassInv'
  OBVIOUS
<1>1. ASSUME NEW c \in Classes, NEW x \in Items, AdmitUnderWatch(c, x) PROVE BypassInv'
  BY <1>1 DEF AdmitUnderWatch, Admit, BypassInv, watch
<1>2. ASSUME NEW c \in Classes, Observe(c) PROVE BypassInv'
  <2>1. Dist(c, cursor) \in 0..Gap(c) /\ Gap(c) \in Slots
    BY DistFinds DEF STypeOK, TypeOK
  <2> QED BY <1>2, <2>1 DEF Observe, BypassInv, queue
<1>3. ASSUME NEW i \in Slots, NEW c \in Classes, ServeCounted(i, c) PROVE BypassInv'
  <2>1. CASE c = watched
    BY <1>3, <2>1 DEF ServeCounted, BypassInv, STypeOK
  <2>2. CASE c # watched
    <3>1. \A j \in 0..i : WeightSequence[SlotAfter(cursor, j)] # watched
      BY <1>3, <2>2, PassedSlots
    <3>2. /\ i < Dist(watched, cursor)
          /\ Dist(watched, SlotAfter(cursor, i + 1)) = Dist(watched, cursor) - (i + 1)
      BY <1>3, <3>1, PassedSlots, DistShrinks DEF STypeOK, TypeOK
    <3>3. /\ Dist(watched, cursor) \in 0..9
          /\ Gap(watched) \in Slots
      BY <1>3, PassedSlots, DistFinds DEF STypeOK, TypeOK, Gap, Weight
    <3>4. /\ cursor' = SlotAfter(cursor, i + 1) /\ total' = total + 1
          /\ mine' = mine /\ watched' = watched
      BY <1>3, <2>2 DEF ServeCounted, ServeAfter
    <3> QED BY <3>2, <3>3, <3>4 DEF BypassInv, STypeOK
  <2> QED BY <2>1, <2>2
<1>4. ASSUME NEW i \in Slots, NEW c \in Classes, ServeUncounted(i, c) PROVE BypassInv'
  BY <1>4 DEF ServeUncounted, BypassInv
<1>5. CASE UNCHANGED svars
  BY <1>5 DEF svars, queue, watch, BypassInv
<1> QED BY <1>1, <1>2, <1>3, <1>4, <1>5 DEF SNext

\* A backlogged class is passed over at most 3 (High), 8 (Medium) or 9 (Low)
\* times in a row, whatever the other classes do.
THEOREM BypassIsBounded == SSpec => []BoundedBypass
<1>1. SInit => BypassInv
  BY DEF SInit, BypassInv
<1>2. STypeOK /\ BypassInv => BoundedBypass
  <2> SUFFICES ASSUME STypeOK, BypassInv, watched # NoClass, mine = 0
               PROVE  total <= Gap(watched)
    BY DEF BoundedBypass
  <2>1. Dist(watched, cursor) \in 0..9 /\ Gap(watched) \in Slots
    BY DistFinds DEF STypeOK, TypeOK, Gap, Weight
  <2> QED BY <2>1 DEF BypassInv, STypeOK
<1> QED BY <1>1, <1>2, BypassStep, ObservationType, PTL DEF SSpec

-----------------------------------------------------------------------------
(* Minimum share.  While the observation has not travelled a whole cycle,  *)
(* the watched class was served in every slot of its own that was passed;  *)
(* after a whole cycle it has had its share.                               *)

ShareInv ==
  watched # NoClass =>
    /\ travel < 10 => /\ cursor = SlotAfter(start, travel)
                      /\ travel >= total
                      /\ mine >= Cum(watched, start + travel) - Cum(watched, start)
    /\ travel = 10 => mine >= Weight(watched)

\* No slot of the class passed, none counted; one is counted when it comes.
LEMMA CumSteps ==
  ASSUME NEW c \in Classes, NEW s \in Slots, NEW t \in 0..9
  PROVE  LET d == Dist(c, SlotAfter(s, t)) IN
         /\ Cum(c, s + t) \in Nat
         /\ \A i \in 0..9 : i < d /\ t + i + 1 <= 10 => Cum(c, s + t + i + 1) = Cum(c, s + t)
         /\ t + d + 1 <= 10 => Cum(c, s + t + d + 1) = Cum(c, s + t) + 1
<1>1. SlotAfter(s, t) = IF s + t <= 9 THEN s + t ELSE s + t - 10
  BY SlotAfterStep
<1>2. CASE c = High
  BY <1>1, <1>2 DEF Cum, Dist
<1>3. CASE c = Medium
  BY <1>1, <1>3 DEF Cum, Dist
<1>4. CASE c = Low
  BY <1>1, <1>4 DEF Cum, Dist
<1> QED BY <1>2, <1>3, <1>4

\* A whole cycle holds exactly the weight of the class.
LEMMA CycleWeight ==
  ASSUME NEW c \in Classes, NEW s \in Slots
  PROVE  Cum(c, s + 10) = Cum(c, s) + Weight(c) /\ Cum(c, s) \in Nat
  BY DEF Cum, Weight

\* What one counted call adds, whether or not it serves the watched class.
LEMMA ShareServe ==
  ASSUME STypeOK, ShareInv, NEW i \in Slots, NEW c \in Classes, ServeCounted(i, c)
  PROVE  ShareInv'
<1> DEFINE w == watched
           d == Dist(w, cursor)
<1>1. /\ w \in Classes /\ start \in Slots /\ cursor \in Slots /\ travel \in 0..10
      /\ total \in 0..10 /\ mine \in 0..10
  BY PassedSlots DEF STypeOK, TypeOK
<1>2. /\ cursor' = SlotAfter(cursor, i + 1) /\ total' = total + 1
      /\ mine' = IF c = w THEN mine + 1 ELSE mine
      /\ travel' = IF travel + i + 1 > 10 THEN 10 ELSE travel + i + 1
      /\ w' = w /\ start' = start
  BY DEF ServeCounted, ServeAfter
<1>3. c = w => d = i
  <2> SUFFICES ASSUME c = w PROVE d = i
    OBVIOUS
  <2>1. d \in 0..9 /\ WeightSequence[SlotAfter(cursor, d)] = w
    BY <1>1, DistFinds DEF Gap, Weight
  <2>2. ~(d \in 0..(i - 1))
    BY <2>1, PassedSlots
  <2>3. ~(i < d)
    <3>1. SlotAfter(cursor, i) = IF cursor + i <= 9 THEN cursor + i ELSE cursor + i - 10
      BY <1>1, SlotAfterStep
    <3>2. WeightSequence[SlotAfter(cursor, i)] = w
      BY PassedSlots
    <3> QED BY <1>1, <3>1, <3>2 DEF Dist, WeightSequence
  <2> QED BY <2>1, <2>2, <2>3
<1>4. c # w => i < d
  BY <1>1, PassedSlots, DistShrinks
<1>5. CASE travel = 10
  <2>1. mine >= Weight(w)
    BY <1>5, <1>1 DEF ShareInv
  <2> QED BY <1>1, <1>2, <1>5, <2>1 DEF ShareInv, Weight
<1>6. CASE travel < 10
  <2>1. /\ travel \in 0..9 /\ cursor = SlotAfter(start, travel) /\ travel >= total
        /\ mine >= Cum(w, start + travel) - Cum(w, start)
    BY <1>1, <1>6 DEF ShareInv
  <2>2. Cum(w, start) \in Nat /\ Cum(w, start + travel) \in Nat
    BY <1>1, <2>1, CumSteps, CycleWeight
  <2>3. Cum(w, start + 10) = Cum(w, start) + Weight(w)
    BY <1>1, CycleWeight
  <2>4. d \in 0..9
    BY <1>1, DistFinds DEF Gap, Weight
  <2>5. \A n \in 0..9 : n < d /\ travel + n + 1 <= 10
                           => Cum(w, start + travel + n + 1) = Cum(w, start + travel)
    BY <1>1, <2>1, CumSteps
  <2>6. travel + d + 1 <= 10 => Cum(w, start + travel + d + 1) = Cum(w, start + travel) + 1
    BY <1>1, <2>1, CumSteps
  <2>7. CASE travel + i + 1 <= 10
    <3>1. mine' >= Cum(w, start + travel + i + 1) - Cum(w, start)
      <4>1. CASE c = w
        BY <1>1, <1>2, <1>3, <2>1, <2>2, <2>6, <2>7, <4>1
      <4>2. CASE c # w
        BY <1>1, <1>2, <1>4, <2>1, <2>2, <2>5, <2>7, <4>2
      <4> QED BY <4>1, <4>2
    <3>2. SlotAfter(start, travel + i + 1) = SlotAfter(cursor, i + 1)
      <4>1. cursor = IF start + travel <= 9 THEN start + travel ELSE start + travel - 10
        BY <1>1, <2>1, SlotAfterStep
      <4> QED BY <1>1, <2>1, <2>7, <4>1, SlotAfterStep
    <3>3. travel' = travel + i + 1 /\ travel' >= total'
      BY <1>1, <1>2, <2>1, <2>7
    <3>4. travel' = 10 => mine' >= Weight(w)
      <4> SUFFICES ASSUME travel' = 10 PROVE mine' >= Weight(w)
        OBVIOUS
      <4>1. start + travel + i + 1 = start + 10
        BY <1>1, <2>1, <3>3
      <4> QED BY <4>1, <3>1, <2>2, <2>3, <1>1, <1>2 DEF Weight
    <3>5. w' # NoClass => Cum(w, start')= Cum(w, start) /\ start' + travel' = start + travel + i + 1
      BY <1>1, <1>2, <2>1, <3>3
    <3> QED BY <1>2, <3>1, <3>2, <3>3, <3>4, <3>5 DEF ShareInv
  <2>8. CASE travel + i + 1 > 10
    <3>1. travel' = 10
      BY <1>2, <2>8
    <3>2. 9 - travel \in 0..9 /\ 9 - travel < d /\ start + travel + (9 - travel) + 1 = start + 10
      BY <1>1, <1>3, <1>4, <2>1, <2>4, <2>8
    <3>3. Cum(w, start + 10) = Cum(w, start + travel)
      BY <2>1, <2>5, <3>2
    <3>4. mine' >= Weight(w)
      BY <1>1, <1>2, <2>1, <2>2, <2>3, <3>3 DEF Weight
    <3> QED BY <1>2, <3>1, <3>4 DEF ShareInv
  <2> QED BY <1>1, <2>1, <2>7, <2>8
<1> QED BY <1>1, <1>5, <1>6

\* Every step keeps the count of services with the travel of the cursor.
LEMMA ShareStep == STypeOK /\ ShareInv /\ [SNext]_svars => ShareInv'
<1> SUFFICES ASSUME STypeOK, ShareInv, [SNext]_svars PROVE ShareInv'
  OBVIOUS
<1>1. ASSUME NEW c \in Classes, NEW x \in Items, AdmitUnderWatch(c, x) PROVE ShareInv'
  BY <1>1 DEF AdmitUnderWatch, Admit, ShareInv, watch
<1>2. ASSUME NEW c \in Classes, Observe(c) PROVE ShareInv'
  <2>1. cursor = SlotAfter(cursor, 0) /\ cursor + 0 = cursor
    BY SlotAfterStep DEF STypeOK, TypeOK
  <2>2. Cum(c, cursor) \in Nat
    BY CycleWeight DEF STypeOK, TypeOK
  <2>3. Cum(c, cursor) - Cum(c, cursor) = 0
    BY <2>2
  <2> QED BY <1>2, <2>1, <2>3 DEF Observe, ShareInv, queue
<1>3. ASSUME NEW i \in Slots, NEW c \in Classes, ServeCounted(i, c) PROVE ShareInv'
  BY <1>3, ShareServe
<1>4. ASSUME NEW i \in Slots, NEW c \in Classes, ServeUncounted(i, c) PROVE ShareInv'
  BY <1>4 DEF ServeUncounted, ShareInv
<1>5. CASE UNCHANGED svars
  BY <1>5 DEF svars, queue, watch, ShareInv
<1> QED BY <1>1, <1>2, <1>3, <1>4, <1>5 DEF SNext

\* Of ten consecutive requests served while a class is backlogged, at least
\* 7 (High), 2 (Medium) or 1 (Low) are its own.
THEOREM ShareIsGuaranteed == SSpec => []MinimumShare
<1>1. SInit => ShareInv
  BY DEF SInit, ShareInv
<1>2. STypeOK /\ ShareInv => MinimumShare
  BY DEF STypeOK, ShareInv, MinimumShare
<1> QED BY <1>1, <1>2, ShareStep, ObservationType, PTL DEF SSpec

-----------------------------------------------------------------------------
(* The gateway: where its requests are.                                    *)

Queued(b, r)   == \E c \in Classes : \E k \in 1..Len(b[c]) : b[c][k] = r

\* Every request is in the bucket of its own class, and there once.
OwnBucket(b) == \A c \in Classes : \A k \in 1..Len(b[c]) : ClassOf[b[c][k]] = c
NoDup(b)     == \A c \in Classes : \A j, k \in 1..Len(b[c]) : b[c][j] = b[c][k] => j = k
Buckets      == {b \in [Classes -> Seq(Requests)] : OwnBucket(b) /\ NoDup(b)}

-----------------------------------------------------------------------------
(* What one step of the queue does to the requests in it.                  *)

\* Taking the head of a bucket takes that request out of the queue, no other.
LEMMA PopFacts ==
  ASSUME NEW b \in Buckets, NEW c \in Classes, b[c] # <<>>
  PROVE  /\ Popped(b, c) \in Buckets
         /\ Head(b[c]) \in Requests
         /\ ClassOf[Head(b[c])] = c
         /\ Queued(b, Head(b[c]))
         /\ ~Queued(Popped(b, c), Head(b[c]))
         /\ \A r : Queued(Popped(b, c), r) => Queued(b, r)
         /\ \A r : Queued(b, r) => Queued(Popped(b, c), r) \/ r = Head(b[c])
<1> DEFINE p == Popped(b, c)
           h == Head(b[c])
<1>1. /\ b[c] \in Seq(Requests) /\ Len(b[c]) \in Nat \ {0}
      /\ h = b[c][1] /\ h \in Requests
      /\ Tail(b[c]) \in Seq(Requests) /\ Len(Tail(b[c])) = Len(b[c]) - 1
      /\ \A k \in 1..Len(Tail(b[c])) : Tail(b[c])[k] = b[c][k + 1]
  BY HeadTailProperties, EmptySeq DEF Buckets
<1>2. /\ p \in [Classes -> Seq(Requests)]
      /\ p[c] = Tail(b[c])
      /\ \A d \in Classes : d # c => p[d] = b[d]
  BY <1>1 DEF Buckets, Popped
<1>3. OwnBucket(b) /\ NoDup(b)
  BY DEF Buckets
<1>4. OwnBucket(p)
  <2> SUFFICES ASSUME NEW d \in Classes, NEW k \in 1..Len(p[d]) PROVE ClassOf[p[d][k]] = d
    BY DEF OwnBucket
  <2>1. CASE d = c
    <3>1. p[d][k] = b[c][k + 1] /\ k + 1 \in 1..Len(b[c])
      BY <2>1, <1>1, <1>2
    <3> QED BY <2>1, <3>1, <1>3 DEF OwnBucket
  <2>2. CASE d # c
    BY <2>2, <1>2, <1>3 DEF OwnBucket
  <2> QED BY <2>1, <2>2
<1>5. NoDup(p)
  <2> SUFFICES ASSUME NEW d \in Classes, NEW j \in 1..Len(p[d]), NEW k \in 1..Len(p[d]),
                      p[d][j] = p[d][k]
               PROVE  j = k
    BY DEF NoDup
  <2>1. CASE d = c
    <3>1. /\ b[c][j + 1] = b[c][k + 1]
          /\ j + 1 \in 1..Len(b[c]) /\ k + 1 \in 1..Len(b[c])
      BY <2>1, <1>1, <1>2
    <3> HIDE DEF p
    <3>2. j + 1 = k + 1
      BY <3>1, <1>3 DEF NoDup
    <3> QED BY <3>2
  <2>2. CASE d # c
    BY <2>2, <1>2, <1>3 DEF NoDup
  <2> QED BY <2>1, <2>2
<1>6. ClassOf[h] = c /\ Queued(b, h)
  BY <1>1, <1>3 DEF OwnBucket, Queued
<1>7. ~Queued(p, h)
  <2> SUFFICES ASSUME NEW d \in Classes, NEW k \in 1..Len(p[d]), p[d][k] = h PROVE FALSE
    BY DEF Queued
  <2>1. d = c
    BY <1>4, <1>6 DEF OwnBucket
  <2>2. b[c][k + 1] = b[c][1] /\ k + 1 \in 1..Len(b[c]) /\ 1 \in 1..Len(b[c])
    BY <2>1, <1>1, <1>2
  <2> QED BY <2>2, <1>3 DEF NoDup
<1>8. ASSUME NEW r, Queued(p, r) PROVE Queued(b, r)
  <2>1. PICK d \in Classes, k \in Nat : k \in 1..Len(p[d]) /\ p[d][k] = r
    BY <1>8 DEF Queued
  <2>2. CASE d = c
    <3>1. b[c][k + 1] = r /\ k + 1 \in 1..Len(b[c])
      BY <2>1, <2>2, <1>1, <1>2
    <3> QED BY <3>1 DEF Queued
  <2>3. CASE d # c
    BY <2>1, <2>3, <1>2 DEF Queued
  <2> QED BY <2>2, <2>3
<1>9. ASSUME NEW r, Queued(b, r), r # h PROVE Queued(p, r)
  <2>1. PICK d \in Classes, k \in Nat : k \in 1..Len(b[d]) /\ b[d][k] = r
    BY <1>9 DEF Queued
  <2>2. CASE d = c
    <3>1. k # 1
      BY <2>1, <2>2, <1>1, <1>9
    <3>2. k - 1 \in 1..Len(p[c]) /\ p[c][k - 1] = r
      BY <2>1, <2>2, <3>1, <1>1, <1>2
    <3> QED BY <3>2 DEF Queued
  <2>3. CASE d # c
    BY <2>1, <2>3, <1>2 DEF Queued
  <2> QED BY <2>2, <2>3
<1> QED BY <1>1, <1>2, <1>4, <1>5, <1>6, <1>7, <1>8, <1>9 DEF Buckets

\* Appending a request that is not queued queues it, and no other.
LEMMA PushFacts ==
  ASSUME NEW b \in Buckets, NEW x \in Requests, ~Queued(b, x)
  PROVE  /\ Pushed(b, ClassOf[x], x) \in Buckets
         /\ \A r : Queued(Pushed(b, ClassOf[x], x), r) <=> Queued(b, r) \/ r = x
<1> DEFINE c == ClassOf[x]
           p == Pushed(b, c, x)
<1>0. c \in Classes
  BY ClassAssumption
<1>1. /\ b[c] \in Seq(Requests) /\ Len(b[c]) \in Nat
      /\ Append(b[c], x) \in Seq(Requests)
      /\ Len(Append(b[c], x)) = Len(b[c]) + 1
      /\ \A k \in 1..Len(b[c]) : Append(b[c], x)[k] = b[c][k]
      /\ Append(b[c], x)[Len(b[c]) + 1] = x
  BY <1>0, AppendProperties DEF Buckets
<1>2. /\ p \in [Classes -> Seq(Requests)]
      /\ p[c] = Append(b[c], x)
      /\ \A d \in Classes : d # c => p[d] = b[d]
  BY <1>0, <1>1 DEF Buckets, Pushed
<1>3. OwnBucket(b) /\ NoDup(b)
  BY DEF Buckets
<1>4. \A k \in 1..Len(b[c]) : b[c][k] # x
  BY <1>0 DEF Queued
<1>5. \A k \in 1..Len(p[c]) : k \in 1..Len(b[c]) \/ k = Len(b[c]) + 1
  BY <1>1, <1>2
<1>6. OwnBucket(p)
  <2> SUFFICES ASSUME NEW d \in Classes, NEW k \in 1..Len(p[d]) PROVE ClassOf[p[d][k]] = d
    BY DEF OwnBucket
  <2>1. CASE d = c /\ k \in 1..Len(b[c])
    <3>1. p[d][k] = b[c][k]
      BY <2>1, <1>1, <1>2
    <3> QED BY <2>1, <3>1, <1>0, <1>3 DEF OwnBucket
  <2>2. CASE d = c /\ k = Len(b[c]) + 1
    BY <2>2, <1>1, <1>2
  <2>3. CASE d # c
    BY <2>3, <1>2, <1>3 DEF OwnBucket
  <2> QED BY <2>1, <2>2, <2>3, <1>5
<1>7. NoDup(p)
  <2> SUFFICES ASSUME NEW d \in Classes, NEW j \in 1..Len(p[d]), NEW k \in 1..Len(p[d]),
                      p[d][j] = p[d][k]
               PROVE  j = k
    BY DEF NoDup
  <2>1. CASE d = c
    <3>1. \A i \in 1..Len(p[c]) : \/ i \in 1..Len(b[c]) /\ p[c][i] = b[c][i] /\ p[c][i] # x
                                  \/ i = Len(b[c]) + 1 /\ p[c][i] = x
      BY <1>1, <1>2, <1>4, <1>5
    <3>2. j \in 1..Len(p[c]) /\ k \in 1..Len(p[c]) /\ p[c][j] = p[c][k]
      BY <2>1
    <3> HIDE DEF p
    <3>3. \/ j \in 1..Len(b[c]) /\ k \in 1..Len(b[c]) /\ b[c][j] = b[c][k]
          \/ j = Len(b[c]) + 1 /\ k = Len(b[c]) + 1
      BY <3>1, <3>2, Zenon
    <3> QED BY <3>3, <1>0, <1>3, Zenon DEF NoDup
  <2>2. CASE d # c
    BY <2>2, <1>2, <1>3 DEF NoDup
  <2> QED BY <2>1, <2>2
<1>8. ASSUME NEW r, Queued(p, r) PROVE Queued(b, r) \/ r = x
  <2>1. PICK d \in Classes, k \in Nat : k \in 1..Len(p[d]) /\ p[d][k] = r
    BY <1>8 DEF Queued
  <2>2. CASE d = c
    <3>1. k \in 1..Len(b[c]) => b[c][k] = r
      BY <2>1, <2>2, <1>1, <1>2
    <3>2. k = Len(b[c]) + 1 => r = x
      BY <2>1, <2>2, <1>1, <1>2
    <3>3. k \in 1..Len(b[c]) => Queued(b, r)
      BY <3>1, <1>0 DEF Queued
    <3>4. k \in 1..Len(p[c])
      BY <2>1, <2>2
    <3> QED BY <3>2, <3>3, <3>4, <1>5
  <2>3. CASE d # c
    BY <2>1, <2>3, <1>2 DEF Queued
  <2> QED BY <2>2, <2>3
<1>9. ASSUME NEW r, Queued(b, r) PROVE Queued(p, r)
  <2>1. PICK d \in Classes, k \in Nat : k \in 1..Len(b[d]) /\ b[d][k] = r
    BY <1>9 DEF Queued
  <2>2. CASE d = c
    <3>1. k \in 1..Len(p[c]) /\ p[c][k] = r
      BY <2>1, <2>2, <1>1, <1>2
    <3> QED BY <3>1, <1>0 DEF Queued
  <2>3. CASE d # c
    BY <2>1, <2>3, <1>2 DEF Queued
  <2> QED BY <2>2, <2>3
<1>10. Queued(p, x)
  <2>1. Len(b[c]) + 1 \in 1..Len(p[c]) /\ p[c][Len(b[c]) + 1] = x
    BY <1>1, <1>2
  <2> QED BY <2>1, <1>0 DEF Queued
<1> QED BY <1>2, <1>6, <1>7, <1>8, <1>9, <1>10 DEF Buckets

-----------------------------------------------------------------------------
(* The inductive invariant: each request is in one place at most, in its   *)
(* own bucket if it is queued, and in none before it was admitted or after *)
(* it took its decision.                                                   *)

Waiters == {"waiting", "expired", "timedout"}
Holding == {"check", "try", "deliver", "readmit"}

HandInv   == drain.hand = Nobody <=> drain.pc \notin Holding
ApartInv  == \A r \in Requests : /\ ~(Queued(buckets, r) /\ drain.hand = r)
                                 /\ ~(Queued(buckets, r) /\ result[r])
                                 /\ ~(drain.hand = r /\ result[r])
WaiterInv == \A r \in Requests : Queued(buckets, r) \/ drain.hand = r \/ result[r] => phase[r] \in Waiters
CancelInv == \A r \in Requests : cancelled[r] => phase[r] = "timedout"
HeldInv   == \A r \in Requests : phase[r] = "waiting" /\ r \notin dropped
                                 => Queued(buckets, r) \/ drain.hand = r \/ result[r]

Inv == GTypeOK /\ buckets \in Buckets /\ HandInv /\ ApartInv /\ WaiterInv /\ CancelInv /\ HeldInv

\* Nothing is queued, in hand or answered.
LEMMA InitInv == GInit => Inv
<1> SUFFICES ASSUME GInit PROVE Inv
  OBVIOUS
<1>1. TypeOK /\ buckets \in Buckets /\ \A r : ~Queued(buckets, r)
  BY CapacityAssumption DEF GInit, Init, TypeOK, EmptyBuckets, Buckets, OwnBucket, NoDup, Queued
<1>2. GTypeOK
  BY <1>1 DEF GInit, GTypeOK, Phases, DrainPC
<1> QED BY <1>1, <1>2, NobodyAssumption
           DEF GInit, Inv, HandInv, ApartInv, WaiterInv, CancelInv, HeldInv, Holding

-----------------------------------------------------------------------------
(* The handlers.                                                           *)

\* Admit puts the request in its own bucket, once.
LEMMA AdmitStep ==
  ASSUME Inv, NEW r \in Requests, ~Queued(buckets, r), Admit(ClassOf[r], r)
  PROVE  /\ TypeOK' /\ buckets' \in Buckets
         /\ \A q : Queued(buckets', q) <=> Queued(buckets, q) \/ q = r
<1>1. ClassOf[r] \in Classes
  BY ClassAssumption
<1>2. buckets' = Pushed(buckets, ClassOf[r], r) /\ cursor' = cursor
  BY DEF Admit
<1>3. buckets' \in Buckets /\ \A q : Queued(buckets', q) <=> Queued(buckets, q) \/ q = r
  BY <1>2, PushFacts DEF Inv
<1>4. \A c \in Classes : Len(buckets'[c]) <= Capacity
  <2>1. Len(Append(buckets[ClassOf[r]], r)) <= Capacity
    BY <1>1, AppendProperties, CapacityAssumption DEF Inv, GTypeOK, TypeOK, Admit, HasRoom
  <2> QED BY <1>1, <1>2, <2>1 DEF Pushed, Inv, GTypeOK, TypeOK
<1> QED BY <1>2, <1>3, <1>4 DEF TypeOK, Inv, GTypeOK, Buckets

\* A handler keeps the invariant, at every step from the first try to the answer.
LEMMA HandlerStep ==
  ASSUME Inv, NEW r \in Requests, Handler(r)
  PROVE  Inv'
<1> USE DEF GTypeOK, Goto, Phases, Answered
<1>1. CASE TryAtOnce(r)
  BY <1>1
     DEF TryAtOnce, queue, TypeOK, Inv, HandInv, ApartInv, WaiterInv, CancelInv, HeldInv, Waiters
<1>2. CASE Commit(r)
  BY <1>2 DEF Commit, queue, TypeOK, Inv, HandInv, ApartInv, WaiterInv, CancelInv, HeldInv, Waiters
<1>3. CASE Enqueue(r)
  <2>1. ~Queued(buckets, r) /\ drain.hand # r /\ ~result[r]
    BY <1>3 DEF Enqueue, Inv, WaiterInv, Waiters
  <2>2. /\ TypeOK' /\ buckets' \in Buckets
        /\ \A q : Queued(buckets', q) <=> Queued(buckets, q) \/ q = r
    BY <1>3, <2>1, AdmitStep DEF Enqueue
  <2> QED BY <1>3, <2>1, <2>2
             DEF Enqueue, Inv, HandInv, ApartInv, WaiterInv, CancelInv, HeldInv, Waiters
<1>4. CASE Reject(r)
  BY <1>4 DEF Reject, queue, TypeOK, Inv, HandInv, ApartInv, WaiterInv, CancelInv, HeldInv, Waiters
<1>5. CASE Take(r)
  BY <1>5 DEF Take, queue, TypeOK, Inv, HandInv, ApartInv, WaiterInv, CancelInv, HeldInv, Waiters
<1>6. CASE Expire(r)
  BY <1>6 DEF Expire, queue, TypeOK, Inv, HandInv, ApartInv, WaiterInv, CancelInv, HeldInv, Waiters
<1>7. CASE GiveUp(r)
  BY <1>7 DEF GiveUp, queue, TypeOK, Inv, HandInv, ApartInv, WaiterInv, CancelInv, HeldInv, Waiters
<1> QED BY <1>1, <1>2, <1>3, <1>4, <1>5, <1>6, <1>7 DEF Handler

-----------------------------------------------------------------------------
(* The drain loop.                                                         *)

\* Next hands out the head of a bucket that is not empty.
LEMMA ServeStep ==
  ASSUME Inv, NEW c \in Classes, Serve(c)
  PROVE  /\ buckets[c] # <<>> /\ buckets' = Popped(buckets, c)
         /\ TypeOK'
<1>1. PICK i \in Slots : ServeAfter(i, c)
  BY DEF Serve
<1>2. buckets[c] # <<>> /\ buckets' = Popped(buckets, c) /\ cursor' = SlotAfter(cursor, i + 1)
  BY <1>1 DEF ServeAfter, FirstReady
<1>3. cursor' \in Slots
  BY <1>2 DEF Inv, GTypeOK, TypeOK, SlotAfter
<1>4. buckets[c] \in Seq(Items) /\ Len(buckets[c]) <= Capacity
  BY DEF Inv, GTypeOK, TypeOK
<1>5. Tail(buckets[c]) \in Seq(Items) /\ Len(Tail(buckets[c])) <= Capacity
  BY <1>2, <1>4, HeadTailProperties, EmptySeq, CapacityAssumption
<1> QED BY <1>2, <1>3, <1>5 DEF Inv, GTypeOK, TypeOK, Popped

\* The drain loop keeps it, from the tick to the end of its snapshot.
LEMMA DrainStep ==
  ASSUME Inv, Drain
  PROVE  Inv'
<1> USE DEF GTypeOK, DrainPC
<1>0. QueueLen(buckets) \in Nat
  BY DEF Inv, TypeOK, QueueLen
<1>1. CASE BeginPass
  BY <1>0, <1>1 DEF BeginPass, queue, cluster, handlers, TypeOK, Inv, HandInv, ApartInv,
     WaiterInv, CancelInv, HeldInv, Holding
<1>2. CASE EndPass
  BY <1>2 DEF EndPass, queue, cluster, handlers, TypeOK, Inv, HandInv, ApartInv, WaiterInv,
     CancelInv, HeldInv, Holding
<1>3. CASE NextRequest
  <2>1. PICK c \in Classes :
          /\ Serve(c)
          /\ drain' = [pc |-> "check", left |-> drain.left - 1, hand |-> Head(buckets[c])]
    BY <1>3 DEF NextRequest
  <2>2. drain.left - 1 \in Nat
    BY <1>3 DEF NextRequest, PassOver, Inv
  <2>3. /\ buckets' \in Buckets /\ Head(buckets[c]) \in Requests
        /\ Queued(buckets, Head(buckets[c])) /\ ~Queued(buckets', Head(buckets[c]))
        /\ \A r : Queued(buckets', r) => Queued(buckets, r)
        /\ \A r : Queued(buckets, r) => Queued(buckets', r) \/ r = Head(buckets[c])
    BY <2>1, ServeStep, PopFacts DEF Inv
  <2>4. TypeOK'
    BY <2>1, ServeStep
  <2>5. drain.hand = Nobody
    BY <1>3 DEF NextRequest, Inv, HandInv, Holding
  <2>6. UNCHANGED <<room, phase, cancelled, desired, result, dropped>>
    BY <1>3 DEF NextRequest, cluster, handlers
  <2>7. GTypeOK'
    BY <2>1, <2>2, <2>3, <2>4, <2>6 DEF Inv
  <2>8. HandInv'
    BY <2>1, <2>3, NobodyAssumption DEF HandInv, Holding
  <2>9. ApartInv'
    BY <2>1, <2>3, <2>6 DEF ApartInv, Inv
  <2>10. WaiterInv' /\ CancelInv' /\ HeldInv'
    BY <2>1, <2>3, <2>5, <2>6, NobodyAssumption DEF WaiterInv, CancelInv, HeldInv, Inv
  <2> QED BY <2>3, <2>7, <2>8, <2>9, <2>10 DEF Inv
<1>4. CASE CheckCancelled
  <2>1. drain.hand \in Requests
    BY <1>4 DEF CheckCancelled, Inv, HandInv, Holding
  <2>2. CASE cancelled[drain.hand]
    <3>1. /\ drain' = [drain EXCEPT !.pc = "pass", !.hand = Nobody]
          /\ UNCHANGED <<room, phase, cancelled, desired, buckets, cursor, result, dropped>>
      BY <1>4, <2>2 DEF CheckCancelled, queue, cluster, handlers
    <3>2. GTypeOK' /\ buckets' \in Buckets /\ HandInv' /\ CancelInv'
      BY <3>1, NobodyAssumption DEF TypeOK, Inv, HandInv, CancelInv, Holding
    <3>3. phase[drain.hand] = "timedout"
      BY <2>1, <2>2 DEF Inv, CancelInv
    <3>4. ApartInv' /\ WaiterInv' /\ HeldInv'
      BY <3>1, <3>3, NobodyAssumption DEF Inv, ApartInv, WaiterInv, HeldInv
    <3> QED BY <3>2, <3>4 DEF Inv
  <2>3. CASE ~cancelled[drain.hand]
    BY <1>4, <2>1, <2>3 DEF CheckCancelled, queue, cluster, handlers, TypeOK, Inv, HandInv,
       ApartInv, WaiterInv, CancelInv, HeldInv, Holding
  <2> QED BY <2>2, <2>3
<1>5. CASE Retry
  BY <1>5 DEF Retry, queue, cluster, handlers, TypeOK, Inv, HandInv, ApartInv, WaiterInv,
     CancelInv, HeldInv, Holding
<1>6. CASE Deliver
  BY <1>6, NobodyAssumption DEF Deliver, queue, cluster, handlers, TypeOK, Inv, HandInv,
     ApartInv, WaiterInv, CancelInv, HeldInv, Holding
<1>7. CASE Readmit
  <2>1. drain.hand \in Requests
    BY <1>7 DEF Readmit, Inv, HandInv, Holding
  <2>2. /\ drain' = [drain EXCEPT !.pc = "pass", !.hand = Nobody]
        /\ UNCHANGED <<room, phase, cancelled, desired, result>>
    BY <1>7 DEF Readmit, cluster, handlers
  <2>3. CASE HasRoom(buckets, ClassOf[drain.hand])
    <3>1. Admit(ClassOf[drain.hand], drain.hand) /\ dropped' = dropped
      BY <1>7, <2>3 DEF Readmit
    <3>2. /\ TypeOK' /\ buckets' \in Buckets
          /\ \A q : Queued(buckets', q) <=> Queued(buckets, q) \/ q = drain.hand
      BY <2>1, <3>1, AdmitStep DEF Inv, ApartInv
    <3> QED BY <2>1, <2>2, <3>1, <3>2, NobodyAssumption
               DEF Inv, HandInv, ApartInv, WaiterInv, CancelInv, HeldInv, Holding
  <2>4. CASE ~HasRoom(buckets, ClassOf[drain.hand])
    <3>1. dropped' = dropped \cup {drain.hand} /\ UNCHANGED queue
      BY <1>7, <2>4 DEF Readmit
    <3> QED BY <2>1, <2>2, <3>1, NobodyAssumption
               DEF queue, TypeOK, Inv, HandInv, ApartInv, WaiterInv, CancelInv, HeldInv, Holding
  <2> QED BY <2>3, <2>4
<1> QED BY <1>1, <1>2, <1>3, <1>4, <1>5, <1>6, <1>7 DEF Drain

\* Every step keeps the invariant.
LEMMA InvStep == Inv /\ [GNext]_vars => Inv'
<1> SUFFICES ASSUME Inv, [GNext]_vars PROVE Inv'
  OBVIOUS
<1>1. CASE RoomChanges
  BY <1>1 DEF RoomChanges, queue, handlers, GTypeOK, TypeOK, Inv, HandInv, ApartInv, WaiterInv,
     CancelInv, HeldInv
<1>2. CASE UNCHANGED vars
  BY <1>2 DEF vars, cluster, queue, handlers, GTypeOK, TypeOK, Inv, HandInv, ApartInv, WaiterInv,
     CancelInv, HeldInv
<1> QED BY <1>1, <1>2, HandlerStep, DrainStep DEF GNext

\* The invariant holds in every state.
LEMMA InvHolds == GSpec => []Inv
  BY InitInv, InvStep, PTL DEF GSpec

-----------------------------------------------------------------------------
(* What follows from the invariant.                                        *)

\* Types, and the bound of every bucket whatever the handlers and the drain loop
\* do to it (queue.go:51).
THEOREM GatewayTypeCorrect == GSpec => []GTypeOK
<1>1. Inv => GTypeOK
  BY DEF Inv
<1> QED BY <1>1, InvHolds, PTL

\* The places of a request, one by one.
LEMMA CustodyPlaces ==
  ASSUME NEW r, NEW x
  PROVE  x \in Custody(r) <=>
           \/ \E c \in Classes : \E k \in 1..Len(buckets[c]) : buckets[c][k] = r /\ x = <<c, k>>
           \/ x = <<"hand", 0>> /\ drain.hand = r
           \/ x = <<"channel", 0>> /\ result[r]
<1> DEFINE Queue   == UNION {{<<c, k>> : k \in InBucket(r, c)} : c \in Classes}
           Hand    == IF drain.hand = r THEN {<<"hand", 0>>} ELSE {}
           Channel == IF result[r] THEN {<<"channel", 0>>} ELSE {}
<1>1. x \in Queue <=> \E c \in Classes : \E k \in 1..Len(buckets[c]) : buckets[c][k] = r /\ x = <<c, k>>
  <2>1. x \in Queue <=> \E c \in Classes : \E k \in InBucket(r, c) : x = <<c, k>>
    OBVIOUS
  <2> QED BY <2>1 DEF InBucket
<1>2. x \in Hand <=> x = <<"hand", 0>> /\ drain.hand = r
  OBVIOUS
<1>3. x \in Channel <=> x = <<"channel", 0>> /\ result[r]
  OBVIOUS
<1>4. Custody(r) = Queue \cup Hand \cup Channel
  BY DEF Custody
<1> HIDE DEF Queue, Hand, Channel
<1>5. x \in Custody(r) <=> x \in Queue \/ x \in Hand \/ x \in Channel
  BY <1>4
<1> QED BY <1>1, <1>2, <1>3, <1>5, Zenon

\* No request is in two places at once (gateway.go:118-135).
THEOREM CustodyIsSingle == GSpec => []SingleCustody
<1>1. ASSUME Inv PROVE SingleCustody
  <2> SUFFICES ASSUME NEW r \in Requests, NEW p \in Custody(r), NEW q \in Custody(r)
               PROVE  p = q
    BY DEF SingleCustody
  <2> DEFINE InQueue(x) == \E c \in Classes : \E k \in 1..Len(buckets[c]) :
                             buckets[c][k] = r /\ x = <<c, k>>
  <2>1. \A x \in Custody(r) : \/ InQueue(x)
                              \/ x = <<"hand", 0>> /\ drain.hand = r
                              \/ x = <<"channel", 0>> /\ result[r]
    BY CustodyPlaces
  <2>2. \A x : InQueue(x) => Queued(buckets, r)
    BY DEF Queued
  <2>3. ASSUME InQueue(p), InQueue(q) PROVE p = q
    <3>1. PICK c \in Classes, k \in Nat : k \in 1..Len(buckets[c]) /\ buckets[c][k] = r /\ p = <<c, k>>
      BY <2>3
    <3>2. PICK d \in Classes, j \in Nat : j \in 1..Len(buckets[d]) /\ buckets[d][j] = r /\ q = <<d, j>>
      BY <2>3
    <3>0. OwnBucket(buckets) /\ NoDup(buckets)
      BY <1>1 DEF Inv, Buckets
    <3>3. c = d
      <4>1. ClassOf[buckets[c][k]] = c /\ ClassOf[buckets[d][j]] = d
        BY <3>0, <3>1, <3>2, Zenon DEF OwnBucket
      <4> QED BY <4>1, <3>1, <3>2
    <3>4. k = j
      BY <3>0, <3>1, <3>2, <3>3 DEF NoDup
    <3> QED BY <3>1, <3>2, <3>3, <3>4
  <2>4. /\ ~(Queued(buckets, r) /\ drain.hand = r)
        /\ ~(Queued(buckets, r) /\ result[r])
        /\ ~(drain.hand = r /\ result[r])
    BY <1>1 DEF Inv, ApartInv
  <2> HIDE DEF InQueue
  <2> QED BY <2>1, <2>2, <2>3, <2>4
<1> QED BY <1>1, InvHolds, PTL

\* A waiting request can be found unless its readmission failed (gateway.go:130).
THEOREM WaitingIsKept == GSpec => []WaitingIsHeld
<1>1. ASSUME Inv PROVE WaitingIsHeld
  <2> SUFFICES ASSUME NEW r \in Requests, phase[r] = "waiting", r \notin dropped
               PROVE  Custody(r) # {}
    BY DEF WaitingIsHeld
  <2>1. CASE Queued(buckets, r)
    <3>1. PICK c \in Classes, k \in Nat : k \in 1..Len(buckets[c]) /\ buckets[c][k] = r
      BY <2>1 DEF Queued
    <3>2. <<c, k>> \in Custody(r)
      BY <3>1, CustodyPlaces
    <3> QED BY <3>2
  <2>2. CASE drain.hand = r
    <3>1. <<"hand", 0>> \in Custody(r)
      BY <2>2, CustodyPlaces
    <3> QED BY <3>1
  <2>3. CASE result[r]
    <3>1. <<"channel", 0>> \in Custody(r)
      BY <2>3, CustodyPlaces
    <3> QED BY <3>1
  <2> QED BY <1>1, <2>1, <2>2, <2>3 DEF Inv, HeldInv
<1> QED BY <1>1, InvHolds, PTL

\* The drain loop never blocks on a result channel (gateway.go:133).
THEOREM DeliveryIsFree == GSpec => []DeliveryNeverBlocks
<1>1. Inv => DeliveryNeverBlocks
  BY DEF Inv, GTypeOK, HandInv, Holding, ApartInv, DeliveryNeverBlocks
<1> QED BY <1>1, InvHolds, PTL

-----------------------------------------------------------------------------
(* The snapshot of the queue's length.                                     *)

\* Admission makes the queue longer by one.
LEMMA AdmitLength ==
  ASSUME TypeOK, NEW c \in Classes, NEW x \in Items, Admit(c, x)
  PROVE  QueueLen(buckets') = QueueLen(buckets) + 1
<1>1. \A d \in Classes : Len(buckets[d]) \in Nat
  BY DEF TypeOK
<1>2. Len(Append(buckets[c], x)) = Len(buckets[c]) + 1
  BY AppendProperties DEF TypeOK
<1>3. \A d \in Classes : Len(buckets'[d]) = IF d = c THEN Len(buckets[d]) + 1 ELSE Len(buckets[d])
  BY <1>2 DEF Admit, Pushed, TypeOK
<1>4. /\ Len(buckets'[High]) = IF c = High THEN Len(buckets[High]) + 1 ELSE Len(buckets[High])
      /\ Len(buckets'[Medium]) = IF c = Medium THEN Len(buckets[Medium]) + 1 ELSE Len(buckets[Medium])
      /\ Len(buckets'[Low]) = IF c = Low THEN Len(buckets[Low]) + 1 ELSE Len(buckets[Low])
  BY <1>3
<1>5. Len(buckets[High]) \in Nat /\ Len(buckets[Medium]) \in Nat /\ Len(buckets[Low]) \in Nat
  BY <1>1
<1>6. c = High \/ c = Medium \/ c = Low
  OBVIOUS
<1>7. /\ QueueLen(buckets) = Len(buckets[High]) + Len(buckets[Medium]) + Len(buckets[Low])
      /\ QueueLen(buckets') = Len(buckets'[High]) + Len(buckets'[Medium]) + Len(buckets'[Low])
  BY DEF QueueLen
<1>8. \/ /\ Len(buckets'[High]) = Len(buckets[High]) + 1
         /\ Len(buckets'[Medium]) = Len(buckets[Medium])
         /\ Len(buckets'[Low]) = Len(buckets[Low])
      \/ /\ Len(buckets'[High]) = Len(buckets[High])
         /\ Len(buckets'[Medium]) = Len(buckets[Medium]) + 1
         /\ Len(buckets'[Low]) = Len(buckets[Low])
      \/ /\ Len(buckets'[High]) = Len(buckets[High])
         /\ Len(buckets'[Medium]) = Len(buckets[Medium])
         /\ Len(buckets'[Low]) = Len(buckets[Low]) + 1
  <2>1. High # Medium /\ High # Low /\ Medium # Low
    OBVIOUS
  <2> HIDE DEF High, Medium, Low
  <2> QED BY <1>4, <1>6, <2>1, Zenon
<1> HIDE DEF High, Medium, Low
<1>9. Len(buckets'[High]) + Len(buckets'[Medium]) + Len(buckets'[Low])
        = Len(buckets[High]) + Len(buckets[Medium]) + Len(buckets[Low]) + 1
  <2> DEFINE h == Len(buckets[High])
             m == Len(buckets[Medium])
             l == Len(buckets[Low])
             p == Len(buckets'[High])
             q == Len(buckets'[Medium])
             r == Len(buckets'[Low])
  <2>1. h \in Nat /\ m \in Nat /\ l \in Nat
    BY <1>5
  <2>2. \/ p = h + 1 /\ q = m /\ r = l
        \/ p = h /\ q = m + 1 /\ r = l
        \/ p = h /\ q = m /\ r = l + 1
    BY <1>8, Zenon
  <2> HIDE DEF h, m, l, p, q, r
  <2>3. p + q + r = h + m + l + 1
    BY <2>1, <2>2
  <2> QED BY <2>3 DEF h, m, l, p, q, r
<1> QED BY <1>7, <1>9, Zenon

\* Service makes it shorter by one.
LEMMA ServeLength ==
  ASSUME Inv, NEW c \in Classes, Serve(c)
  PROVE  QueueLen(buckets') = QueueLen(buckets) - 1
<1>0. TypeOK
  BY DEF Inv, GTypeOK
<1>1. \A d \in Classes : Len(buckets[d]) \in Nat
  BY <1>0 DEF TypeOK
<1>2. buckets[c] # <<>> /\ buckets' = Popped(buckets, c)
  BY ServeStep
<1>3. Len(Tail(buckets[c])) = Len(buckets[c]) - 1
  BY <1>0, <1>2, HeadTailProperties DEF TypeOK
<1>4. \A d \in Classes : Len(buckets'[d]) = IF d = c THEN Len(buckets[d]) - 1 ELSE Len(buckets[d])
  BY <1>0, <1>2, <1>3 DEF Popped, TypeOK
<1>5. /\ Len(buckets'[High]) = IF c = High THEN Len(buckets[High]) - 1 ELSE Len(buckets[High])
      /\ Len(buckets'[Medium]) = IF c = Medium THEN Len(buckets[Medium]) - 1 ELSE Len(buckets[Medium])
      /\ Len(buckets'[Low]) = IF c = Low THEN Len(buckets[Low]) - 1 ELSE Len(buckets[Low])
  BY <1>4
<1>6. Len(buckets[High]) \in Nat /\ Len(buckets[Medium]) \in Nat /\ Len(buckets[Low]) \in Nat
  BY <1>1
<1>7. c = High \/ c = Medium \/ c = Low
  OBVIOUS
<1>8. CASE c = High
  BY <1>8, <1>5, <1>6 DEF QueueLen
<1>9. CASE c = Medium
  BY <1>9, <1>5, <1>6 DEF QueueLen
<1>10. CASE c = Low
  BY <1>10, <1>5, <1>6 DEF QueueLen
<1> QED BY <1>7, <1>8, <1>9, <1>10

\* Every step keeps the pass within what is queued: only the drain takes items out.
LEMMA SnapshotStep == Inv /\ SnapshotHolds /\ [GNext]_vars => SnapshotHolds'
<1> SUFFICES ASSUME Inv, SnapshotHolds, [GNext]_vars PROVE SnapshotHolds'
  OBVIOUS
<1> USE DEF SnapshotHolds
<1>0. drain.left \in Nat /\ QueueLen(buckets) \in Nat
  BY DEF Inv, GTypeOK, TypeOK, QueueLen
<1>1. CASE UNCHANGED <<buckets, drain>>
  BY <1>1
<1>2. ASSUME NEW r \in Requests, Enqueue(r) PROVE SnapshotHolds'
  <2>1. QueueLen(buckets') = QueueLen(buckets) + 1
    BY <1>2, AdmitLength, ClassAssumption DEF Enqueue, Inv, GTypeOK
  <2> QED BY <1>0, <1>2, <2>1 DEF Enqueue
<1>3. CASE BeginPass
  BY <1>0, <1>3 DEF BeginPass, queue, Inv, GTypeOK
<1>4. CASE EndPass
  BY <1>0, <1>4 DEF EndPass, queue, Inv, GTypeOK
<1>5. CASE NextRequest
  <2>1. PICK c \in Classes : Serve(c) /\ drain'.left = drain.left - 1
    BY <1>5 DEF NextRequest
  <2> QED BY <1>0, <2>1, ServeLength
<1>6. CASE CheckCancelled
  BY <1>6 DEF CheckCancelled, queue, Inv, GTypeOK
<1>7. CASE Retry
  BY <1>7 DEF Retry, queue, Inv, GTypeOK
<1>8. CASE Deliver
  BY <1>8 DEF Deliver, queue, Inv, GTypeOK
<1>9. CASE Readmit
  <2>1. drain'.left = drain.left
    BY <1>9 DEF Readmit, Inv, GTypeOK
  <2>2. drain.hand \in Requests
    BY <1>9 DEF Readmit, Inv, GTypeOK, HandInv, Holding
  <2>3. QueueLen(buckets') = QueueLen(buckets) + 1 \/ buckets' = buckets
    BY <1>9, <2>2, AdmitLength, ClassAssumption DEF Readmit, queue, Inv, GTypeOK
  <2> QED BY <1>0, <2>1, <2>3
<1>10. ASSUME NEW r \in Requests, Handler(r), ~Enqueue(r) PROVE UNCHANGED <<buckets, drain>>
  BY <1>10 DEF Handler, TryAtOnce, Commit, Reject, Take, Expire, GiveUp, queue
<1> QED BY <1>1, <1>2, <1>3, <1>4, <1>5, <1>6, <1>7, <1>8, <1>9, <1>10
        DEF GNext, Drain, RoomChanges, vars, queue

\* Next always has a request for each attempt of a pass (gateway.go:119-124).
THEOREM SnapshotIsKept == GSpec => []SnapshotHolds
<1>1. GInit => SnapshotHolds
  BY DEF GInit, Init, EmptyBuckets, SnapshotHolds, QueueLen
<1> QED BY <1>1, SnapshotStep, InvHolds, PTL DEF GSpec

-----------------------------------------------------------------------------
(* The gateway implements the service, as far as safety goes.              *)

\* Every step maps to a step of the service or to a stutter.
LEMMA RefinementStep == Inv /\ [GNext]_vars => [Service!Next]_(Service!svars)
<1> SUFFICES ASSUME Inv, [GNext]_vars PROVE Service!Next \/ UNCHANGED Service!svars
  OBVIOUS
<1>0. phase \in [Requests -> Phases]
  BY DEF Inv, GTypeOK
<1>1. CASE UNCHANGED <<phase, desired>>
  BY <1>1 DEF Service!svars
<1> USE DEF Goto, Phases, Answered, Service!Next, Service!svars, Service!Answer
<1>2. ASSUME NEW r \in Requests, TryAtOnce(r) PROVE Service!Submit(r)
  BY <1>0, <1>2 DEF TryAtOnce, Service!Submit
<1>3. ASSUME NEW r \in Requests, Commit(r) PROVE Service!Accept(r)
  BY <1>0, <1>3 DEF Commit, Service!Accept
<1>4. ASSUME NEW r \in Requests, Enqueue(r) \/ Take(r) \/ Expire(r) PROVE UNCHANGED Service!svars
  BY <1>0, <1>4 DEF Enqueue, Take, Expire
<1>5. ASSUME NEW r \in Requests, Reject(r) \/ GiveUp(r) PROVE Service!Refuse(r)
  BY <1>0, <1>5 DEF Reject, GiveUp, Service!Refuse
<1>6. ASSUME RoomChanges \/ Drain \/ UNCHANGED vars PROVE UNCHANGED <<phase, desired>>
  BY <1>6 DEF RoomChanges, Drain, BeginPass, EndPass, NextRequest, CheckCancelled, Retry, Deliver,
              Readmit, vars, handlers
<1> QED BY <1>1, <1>2, <1>3, <1>4, <1>5, <1>6 DEF GNext, Handler

\* A caller that was refused did not place anything, one that was answered 200
\* did, and each is answered once (gateway.go:52-96).
THEOREM RefinesService == GSpec => Service!Init /\ [][Service!Next]_(Service!svars)
<1>1. GInit => Service!Init
  BY DEF GInit, Service!Init
<1> QED BY <1>1, RefinementStep, InvHolds, PTL DEF GSpec

-----------------------------------------------------------------------------
(* The queue inside the gateway.                                           *)

\* Every step of a handler or of the drain loop is a call of Admit or of Next, or
\* leaves the queue alone.
LEMMA QueueStep == Inv /\ [GNext]_vars => [Next]_queue
<1> SUFFICES ASSUME Inv, [GNext]_vars PROVE Next \/ UNCHANGED queue
  OBVIOUS
<1>1. ASSUME NEW r \in Requests, Admit(ClassOf[r], r) PROVE Next
  <2>1. ClassOf[r] \in Classes
    BY ClassAssumption
  <2> QED BY <1>1, <2>1 DEF Next
<1>2. CASE NextRequest
  BY <1>2 DEF NextRequest, Next
<1>3. CASE Readmit
  <2>1. drain.hand \in Requests
    BY <1>3 DEF Readmit, Inv, HandInv, Holding, GTypeOK
  <2>2. Admit(ClassOf[drain.hand], drain.hand) \/ UNCHANGED queue
    BY <1>3 DEF Readmit
  <2> QED BY <1>1, <2>1, <2>2
<1>4. ASSUME NEW r \in Requests, Enqueue(r) PROVE Next
  BY <1>1, <1>4 DEF Enqueue
<1>5. ASSUME NEW r \in Requests, Handler(r), ~Enqueue(r) PROVE UNCHANGED queue
  BY <1>5 DEF Handler, TryAtOnce, Commit, Reject, Take, Expire, GiveUp
<1>6. CASE BeginPass \/ EndPass \/ CheckCancelled \/ Retry \/ Deliver
  BY <1>6 DEF BeginPass, EndPass, CheckCancelled, Retry, Deliver
<1>7. CASE RoomChanges \/ UNCHANGED vars
  BY <1>7 DEF RoomChanges, vars
<1> QED BY <1>2, <1>3, <1>4, <1>5, <1>6, <1>7 DEF GNext, Drain

\* Handlers and drain loop run the queue of WFQueue: what is proved of its states
\* and of its order of service holds of the queue they share (gateway.go:69-131).
THEOREM DrivesTheQueue == GSpec => Spec
<1>1. GInit => Init
  BY DEF GInit
<1> QED BY <1>1, QueueStep, InvHolds, PTL DEF GSpec, Spec

\* While a pass has attempts left, Next finds a request: the early return of
\* drainOnce is dead code, whatever the handlers did to the queue since the
\* snapshot (gateway.go:121-124).
THEOREM PassNeverRunsDry == GSpec => [](drain.left > 0 => ~NothingReady(buckets, cursor))
<1>1. ASSUME Inv, SnapshotHolds PROVE drain.left > 0 => ~NothingReady(buckets, cursor)
  <2>1. drain.left \in Nat /\ QueueLen(buckets) \in Nat
    BY <1>1 DEF Inv, GTypeOK, TypeOK, QueueLen
  <2>2. WorkConserving
    BY <1>1, NothingMeansEmpty DEF Inv, GTypeOK
  <2> QED BY <1>1, <2>1, <2>2 DEF SnapshotHolds, WorkConserving
<1> QED BY <1>1, SnapshotIsKept, InvHolds, PTL
=============================================================================
