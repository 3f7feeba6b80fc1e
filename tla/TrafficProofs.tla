---------------------------- MODULE TrafficProofs ----------------------------
(***************************************************************************)
(* Proofs about the traffic analyzer (Traffic): its types, that a signal   *)
(* is earned by requests made within the window, and that with room for    *)
(* one signal of each model none is lost.  The first two compare what is   *)
(* counted, in the map and still in the channel, with what was asked; the  *)
(* third rests on the rate limit, which keeps the signals distinct.        *)
(***************************************************************************)
EXTENDS Traffic, FiniteSums

-----------------------------------------------------------------------------
(* The inductive invariant.                                                *)

\* The places of requestEventCh that hold a request of this model and age.
Places(r, m, a) == {i \in 1..Len(r) : r[i].model = m /\ r[i].age = a}
Waiting(r, m, a) == Cardinality(Places(r, m, a))

\* What the analyzer counts and what it is still to take were all asked for.
CountInv ==
  \A m \in Models, a \in Ages : Capped(events[m][a] + Waiting(requests, m, a)) <= asked[m][a]

\* The signals underway are of different models, signalled less than a window ago.
SignalInv ==
  /\ \A i, j \in 1..Len(signals) : signals[i] = signals[j] => i = j
  /\ \A i \in 1..Len(signals) : prewarmSent[signals[i]] < Window

Inv == TypeOK /\ CountInv /\ SignalInv /\ SignalsAreNotLost

-----------------------------------------------------------------------------
(* Counting the requests that wait.                                        *)

Requests == Seq([model : Models, age : Ages])

\* What a queue of requests holds.
LEMMA RequestsHold ==
  ASSUME NEW r \in Requests
  PROVE  /\ Len(r) \in Nat /\ \A i \in 1..Len(r) : r[i] \in [model : Models, age : Ages]
         /\ r # <<>> => /\ Head(r) \in [model : Models, age : Ages]
                        /\ Tail(r) \in Requests /\ Len(Tail(r)) = Len(r) - 1
<1> DEFINE S == [model : Models, age : Ages]
<1>1. r \in Seq(S) /\ Requests = Seq(S) BY DEF Requests
<1> HIDE DEF S
<1>2. /\ Len(r) \in Nat /\ \A i \in 1..Len(r) : r[i] \in S
      /\ r # <<>> => Head(r) \in S /\ Tail(r) \in Requests /\ Len(Tail(r)) = Len(r) - 1
  BY <1>1
<1> QED BY <1>2 DEF S

\* The places are finitely many.
LEMMA PlacesFinite ==
  ASSUME NEW r \in Requests, NEW m, NEW a
  PROVE  IsFiniteSet(Places(r, m, a)) /\ Waiting(r, m, a) \in Nat
<1>1. IsFiniteSet(1..Len(r)) BY FS_Interval DEF Requests
<1>2. Places(r, m, a) \in SUBSET (1..Len(r)) BY DEF Places
<1>3. IsFiniteSet(Places(r, m, a)) BY <1>1, <1>2, FS_Subset
<1> QED BY <1>3, FS_CardinalityType DEF Waiting

\* A request sent adds itself to those of its model and age, and to no others.
LEMMA WaitingAppend ==
  ASSUME NEW r \in Requests, NEW x \in [model : Models, age : Ages], NEW m, NEW a
  PROVE  Waiting(Append(r, x), m, a) =
           Waiting(r, m, a) + (IF x.model = m /\ x.age = a THEN 1 ELSE 0)
<1> DEFINE n == Len(r)
<1>1. /\ n \in Nat /\ Len(Append(r, x)) = n + 1 /\ Append(r, x)[n + 1] = x
      /\ \A i \in 1..n : Append(r, x)[i] = r[i]
  BY DEF Requests
<1>2. IsFiniteSet(Places(r, m, a)) /\ Waiting(r, m, a) \in Nat
  BY PlacesFinite
<1>3. n + 1 \notin Places(r, m, a) BY <1>1 DEF Places
<1>4. CASE x.model = m /\ x.age = a
  <2>1. Places(Append(r, x), m, a) = Places(r, m, a) \cup {n + 1}
    BY <1>1, <1>4 DEF Places
  <2>2. Waiting(Append(r, x), m, a) = Waiting(r, m, a) + 1
    BY <2>1, <1>2, <1>3, FS_AddElement DEF Waiting
  <2> QED BY <1>4, <2>2
<1>5. CASE ~(x.model = m /\ x.age = a)
  <2>1. Places(Append(r, x), m, a) = Places(r, m, a)
    BY <1>1, <1>5 DEF Places
  <2> QED BY <1>2, <1>5, <2>1 DEF Waiting
<1> QED BY <1>4, <1>5

\* The request taken leaves those of its model and age one fewer.
LEMMA WaitingTail ==
  ASSUME NEW r \in Requests, r # <<>>, NEW m, NEW a
  PROVE  Waiting(r, m, a) =
           Waiting(Tail(r), m, a) + (IF Head(r).model = m /\ Head(r).age = a THEN 1 ELSE 0)
<1> DEFINE n == Len(r)
           Rest == Places(r, m, a) \ {1}
           f == [i \in Places(Tail(r), m, a) |-> i + 1]
<1>1. /\ n \in Nat /\ n >= 1 /\ Len(Tail(r)) = n - 1 /\ Head(r) = r[1] /\ Tail(r) \in Requests
      /\ \A i \in 1..n - 1 : Tail(r)[i] = r[i + 1]
  BY DEF Requests
<1>2. IsFiniteSet(Places(r, m, a)) /\ IsFiniteSet(Places(Tail(r), m, a))
      /\ Waiting(r, m, a) \in Nat /\ Waiting(Tail(r), m, a) \in Nat
  BY <1>1, PlacesFinite
<1>3. f \in Bijection(Places(Tail(r), m, a), Rest)
  <2>1. f \in [Places(Tail(r), m, a) -> Rest]
    BY <1>1 DEF Places
  <2>2. \A i, j \in Places(Tail(r), m, a) : f[i] = f[j] => i = j
    BY <1>1 DEF Places
  <2>3. ASSUME NEW k \in Rest PROVE \E i \in Places(Tail(r), m, a) : f[i] = k
    <3>1. k \in 1..n /\ k # 1 /\ r[k].model = m /\ r[k].age = a
      BY <2>3 DEF Places
    <3>2. k - 1 \in 1..n - 1 /\ (k - 1) + 1 = k BY <3>1, <1>1
    <3>3. k - 1 \in Places(Tail(r), m, a) BY <3>1, <3>2, <1>1 DEF Places
    <3> QED BY <3>2, <3>3
  <2> QED BY <2>1, <2>2, <2>3 DEF Bijection, Injection, IsInjective, Surjection
<1>4. Cardinality(Rest) = Waiting(Tail(r), m, a)
  BY <1>2, <1>3, FS_Bijection DEF ExistsBijection, Waiting
<1>5. Cardinality(Rest) = IF 1 \in Places(r, m, a) THEN Waiting(r, m, a) - 1 ELSE Waiting(r, m, a)
  BY <1>2, FS_RemoveElement DEF Waiting
<1>6. 1 \in Places(r, m, a) <=> Head(r).model = m /\ Head(r).age = a
  BY <1>1 DEF Places
<1> QED BY <1>2, <1>4, <1>5, <1>6

\* What waits while a period passes.
Aged(r) == [i \in 1..Len(r) |-> [r[i] EXCEPT !.age = Older(@)]]

\* The requests that wait keep their number and their models.
LEMMA AgedType ==
  ASSUME NEW r \in Requests
  PROVE  /\ Aged(r) \in Requests /\ Len(Aged(r)) = Len(r)
         /\ \A i \in 1..Len(r) :
              /\ r[i].model \in Models /\ r[i].age \in Ages
              /\ Aged(r)[i].model = r[i].model /\ Aged(r)[i].age = Older(r[i].age)
<1> USE TrafficAssumption DEF Ages
<1> DEFINE Elder(x) == [x EXCEPT !.age = Older(@)]
<1>1. \A x \in [model : Models, age : Ages] :
        /\ x.model \in Models /\ x.age \in Ages /\ Elder(x) \in [model : Models, age : Ages]
        /\ Elder(x).model = x.model /\ Elder(x).age = Older(x.age)
  BY DEF Older
<1>2. Len(r) \in Nat /\ \A i \in 1..Len(r) : r[i] \in [model : Models, age : Ages]
  BY RequestsHold
<1>3. Aged(r) = [i \in 1..Len(r) |-> Elder(r[i])] BY DEF Aged
<1> HIDE DEF Elder
<1>4. Aged(r) \in Requests /\ Len(Aged(r)) = Len(r)
  BY <1>1, <1>2, <1>3 DEF Requests
<1> QED BY <1>1, <1>2, <1>3, <1>4

\* When a period passes all that waits gets older: nothing new is left, and beyond
\* the window old and older come together.
LEMMA WaitingAged ==
  ASSUME NEW r \in Requests, NEW m \in Models, NEW a \in Ages
  PROVE  /\ Aged(r) \in Requests /\ Len(Aged(r)) = Len(r)
         /\ Waiting(Aged(r), m, a) =
              IF a = 0 THEN 0
              ELSE IF a = Window THEN Waiting(r, m, a) + Waiting(r, m, a - 1)
              ELSE Waiting(r, m, a - 1)
<1> USE TrafficAssumption DEF Ages
<1>1. Aged(r) \in Requests /\ Len(Aged(r)) = Len(r) BY AgedType
<1>2. \A i \in 1..Len(r) :
        /\ r[i].model \in Models /\ r[i].age \in Ages
        /\ Aged(r)[i].model = r[i].model /\ Aged(r)[i].age = Older(r[i].age)
  BY AgedType
<1>3. CASE a = 0
  <2>1. Places(Aged(r), m, a) = {}
    BY <1>1, <1>2, <1>3 DEF Places, Older
  <2> QED BY <1>1, <1>3, <2>1, FS_EmptySet DEF Waiting
<1>4. CASE a = Window
  <2>1. Places(Aged(r), m, a) = Places(r, m, a) \cup Places(r, m, a - 1)
    <3>1. \A x \in Ages : Older(x) = Window <=> x = Window \/ x = Window - 1
      BY DEF Older
    <3> QED BY <1>1, <1>2, <1>4, <3>1 DEF Places
  <2>2. Places(r, m, a) \cap Places(r, m, a - 1) = {}
    BY <1>2, <1>4 DEF Places
  <2>3. /\ IsFiniteSet(Places(r, m, a)) /\ IsFiniteSet(Places(r, m, a - 1))
        /\ Waiting(r, m, a) \in Nat /\ Waiting(r, m, a - 1) \in Nat
    BY PlacesFinite
  <2>4. Waiting(Aged(r), m, a) = Waiting(r, m, a) + Waiting(r, m, a - 1) - 0
    BY <2>1, <2>2, <2>3, FS_Union, FS_EmptySet DEF Waiting
  <2> QED BY <1>1, <1>4, <2>3, <2>4
<1>5. CASE a # 0 /\ a # Window
  <2>1. Places(Aged(r), m, a) = Places(r, m, a - 1)
    BY <1>1, <1>2, <1>5 DEF Places, Older
  <2> QED BY <1>1, <1>5, <2>1 DEF Waiting
<1> QED BY <1>3, <1>4, <1>5

-----------------------------------------------------------------------------
(* The counts.                                                             *)

Counts == [Ages -> 0..Threshold]

\* A count goes up by one up to Threshold, where it stays.
LEMMA CountOneValue ==
  ASSUME NEW f \in Counts, NEW a \in Ages
  PROVE  /\ CountOne(f, a) \in Counts
         /\ \A b \in Ages : CountOne(f, a)[b] = IF b = a THEN Capped(f[b] + 1) ELSE f[b]
BY TrafficAssumption DEF Counts, CountOne, Capped

\* A count moves on to the next age.
LEMMA OlderAllValue ==
  ASSUME NEW f \in Counts
  PROVE  /\ OlderAll(f) \in Counts
         /\ \A b \in Ages : OlderAll(f)[b] = IF b = 0 THEN 0
                                           ELSE IF b = Window THEN Capped(f[b] + f[b - 1])
                                           ELSE f[b - 1]
<1> USE TrafficAssumption DEF Ages
<1>1. ASSUME NEW b \in Ages
      PROVE  (IF b = 0 THEN 0 ELSE IF b = Window THEN Capped(f[b] + f[b - 1])
              ELSE f[b - 1]) \in 0..Threshold
  <2>1. CASE b = 0 BY <2>1
  <2>2. CASE b = Window /\ b # 0
    <3>1. f[b] \in 0..Threshold /\ f[b - 1] \in 0..Threshold BY <2>2 DEF Counts
    <3> QED BY <2>2, <3>1 DEF Capped
  <2>3. CASE b # Window /\ b # 0
    <3>1. f[b - 1] \in 0..Threshold BY <2>3 DEF Counts
    <3> QED BY <2>3, <3>1
  <2> QED BY <2>1, <2>2, <2>3
<1> QED BY <1>1 DEF OlderAll, Counts

\* What is past the window is forgotten.
LEMMA PrunedValue ==
  ASSUME NEW f \in Counts
  PROVE  /\ Pruned(f) \in Counts
         /\ \A b \in Ages : Pruned(f)[b] = IF b = Window THEN 0 ELSE f[b]
BY TrafficAssumption DEF Counts, Pruned, Ages

\* The types that CountInv speaks of.
LEMMA Typed ==
  ASSUME TypeOK
  PROVE  /\ requests \in Requests
         /\ \A m \in Models : events[m] \in Counts /\ asked[m] \in Counts
         /\ \A m \in Models, a \in Ages :
              /\ events[m][a] \in Nat /\ events[m][a] <= Threshold
              /\ asked[m][a] \in Nat /\ asked[m][a] <= Threshold
<1>1. \A m \in Models : events[m] \in Counts /\ asked[m] \in Counts
  BY DEF TypeOK, Counts
<1>2. \A f \in Counts : \A a \in Ages : f[a] \in Nat /\ f[a] <= Threshold
  BY TrafficAssumption DEF Counts
<1>3. requests \in Requests BY DEF TypeOK, Requests
<1> QED BY <1>1, <1>2, <1>3

\* Every step keeps the counts below what was asked: taking a request from the
\* channel moves it, time ages both sides alike, pruning only lessens.
LEMMA CountStep ==
  ASSUME Inv, [Next]_vars
  PROVE  CountInv'
<1> USE TrafficAssumption
<1>0. /\ requests \in Requests
      /\ events \in [Models -> Counts] /\ asked \in [Models -> Counts]
      /\ \A m \in Models, a \in Ages :
           /\ events[m][a] \in Nat /\ events[m][a] <= Threshold
           /\ asked[m][a] \in Nat /\ asked[m][a] <= Threshold
           /\ Waiting(requests, m, a) \in Nat
           /\ Capped(events[m][a] + Waiting(requests, m, a)) <= asked[m][a]
  BY Typed, PlacesFinite DEF Inv, CountInv, TypeOK, Counts
<1>1. ASSUME NEW n \in Models, RecordRequest(n) PROVE CountInv'
  <2>1. SUFFICES ASSUME NEW m \in Models, NEW a \in Ages
                 PROVE  Capped(events[m][a] + Waiting(requests', m, a)) <= asked'[m][a]
    BY <1>1 DEF RecordRequest, CountInv
  <2> DEFINE x == [model |-> n, age |-> 0]
             one == IF n = m /\ 0 = a THEN 1 ELSE 0
  <2>2. x \in [model : Models, age : Ages] BY DEF Ages
  <2>3. Waiting(requests', m, a) \in Nat /\ Waiting(requests', m, a) <= Waiting(requests, m, a) + one
    <3>1. CASE Len(requests) < RequestCap
      <4>1. requests' = Append(requests, x) BY <1>1, <3>1 DEF RecordRequest
      <4>2. Waiting(requests', m, a) = Waiting(requests, m, a) + one
        BY <4>1, <2>2, <1>0, WaitingAppend
      <4> QED BY <4>2, <1>0
    <3>2. CASE ~(Len(requests) < RequestCap)
      <4>1. requests' = requests BY <1>1, <3>2 DEF RecordRequest
      <4> QED BY <4>1, <1>0
    <3> QED BY <3>1, <3>2
  <2>4. asked'[m][a] = IF n = m /\ 0 = a THEN Capped(asked[m][a] + 1) ELSE asked[m][a]
    <3>1. asked' = [asked EXCEPT ![n] = CountOne(asked[n], 0)] BY <1>1 DEF RecordRequest
    <3>2. 0 \in Ages /\ asked[n] \in Counts BY <1>0 DEF Ages
    <3>3. CASE n = m BY <3>1, <3>2, <3>3, <1>0, CountOneValue
    <3>4. CASE n # m BY <3>1, <3>4, <1>0
    <3> QED BY <3>3, <3>4
  <2> QED BY <2>3, <2>4, <1>0 DEF Capped
<1>2. CASE Ingest
  <2>1. SUFFICES ASSUME NEW m \in Models, NEW a \in Ages
                 PROVE  Capped(events'[m][a] + Waiting(requests', m, a)) <= asked[m][a]
    BY <1>2 DEF Ingest, CountInv
  <2> DEFINE h == Head(requests)
             mine == h.model = m /\ h.age = a
  <2>2. requests # <<>> /\ requests' = Tail(requests) /\ Tail(requests) \in Requests
        /\ h \in [model : Models, age : Ages]
    BY <1>2, <1>0, RequestsHold DEF Ingest
  <2>3. h.model \in Models /\ h.age \in Ages BY <2>2
  <2>4. Waiting(requests, m, a) = Waiting(requests', m, a) + (IF mine THEN 1 ELSE 0)
    BY <2>2, <1>0, WaitingTail
  <2>5. Waiting(requests', m, a) \in Nat BY <2>2, PlacesFinite
  <2>6. events'[m][a] = IF mine THEN Capped(events[m][a] + 1) ELSE events[m][a]
    <3>1. events' = [events EXCEPT ![h.model] = CountOne(events[h.model], h.age)]
      BY <1>2 DEF Ingest
    <3>2. events[h.model] \in Counts BY <2>3, <1>0
    <3> HIDE DEF h
    <3>3. CASE h.model = m BY <3>1, <3>2, <3>3, <2>3, <1>0, CountOneValue
    <3>4. CASE h.model # m BY <3>1, <3>4, <1>0
    <3> QED BY <3>3, <3>4
  <2> QED BY <2>4, <2>5, <2>6, <1>0 DEF Capped
<1>3. ASSUME NEW n \in Models, Analyze(n) PROVE CountInv'
  <2>1. UNCHANGED <<requests, asked>> /\ events' = [events EXCEPT ![n] = Pruned(events[n])]
    BY <1>3 DEF Analyze
  <2>2. ASSUME NEW m \in Models, NEW a \in Ages
        PROVE  events'[m][a] \in Nat /\ events'[m][a] <= events[m][a]
    <3>1. CASE n = m BY <2>1, <3>1, <1>0, PrunedValue
    <3>2. CASE n # m BY <2>1, <3>2, <1>0
    <3> QED BY <3>1, <3>2
  <2>3. ASSUME NEW m \in Models, NEW a \in Ages
        PROVE  Capped(events'[m][a] + Waiting(requests, m, a)) <= asked[m][a]
    BY <2>2, <1>0 DEF Capped
  <2> QED BY <2>1, <2>3 DEF CountInv
<1>4. CASE Clock
  <2>1. /\ requests' = Aged(requests)
        /\ events' = [m \in Models |-> OlderAll(events[m])]
        /\ asked' = [m \in Models |-> OlderAll(asked[m])]
    BY <1>4 DEF Clock, Aged
  <2>2. SUFFICES ASSUME NEW m \in Models, NEW a \in Ages

                 PROVE Capped(OlderAll(events[m])[a] + Waiting(Aged(requests), m, a)) <= OlderAll(asked[m])[a]
    BY <2>1 DEF CountInv
  <2>3. events[m] \in Counts /\ asked[m] \in Counts BY <1>0
  <2>4. CASE a = 0
    <3>1. OlderAll(events[m])[a] = 0 /\ OlderAll(asked[m])[a] = 0 /\ Waiting(Aged(requests), m, a) = 0
      BY <2>3, <2>4, <1>0, OlderAllValue, WaitingAged
    <3> QED BY <3>1 DEF Capped
  <2>5. CASE a # 0 /\ a # Window
    <3>1. a - 1 \in Ages BY <2>5 DEF Ages
    <3>2. /\ OlderAll(events[m])[a] = events[m][a - 1] /\ OlderAll(asked[m])[a] = asked[m][a - 1]
          /\ Waiting(Aged(requests), m, a) = Waiting(requests, m, a - 1)
      BY <2>3, <2>5, <1>0, OlderAllValue, WaitingAged
    <3> QED BY <3>1, <3>2, <1>0
  <2>6. CASE a # 0 /\ a = Window
    <3>1. a - 1 \in Ages BY <2>6 DEF Ages
    <3>2. /\ OlderAll(events[m])[a] = Capped(events[m][a] + events[m][a - 1])
          /\ OlderAll(asked[m])[a] = Capped(asked[m][a] + asked[m][a - 1])
          /\ Waiting(Aged(requests), m, a) = Waiting(requests, m, a) + Waiting(requests, m, a - 1)
      BY <2>3, <2>6, <1>0, OlderAllValue, WaitingAged
    <3>3. /\ Capped(events[m][a] + Waiting(requests, m, a)) <= asked[m][a]
          /\ Capped(events[m][a - 1] + Waiting(requests, m, a - 1)) <= asked[m][a - 1]
      BY <3>1, <1>0
    <3>4. /\ events[m][a] \in Nat /\ events[m][a - 1] \in Nat
          /\ asked[m][a] \in Nat /\ asked[m][a - 1] \in Nat
          /\ Waiting(requests, m, a) \in Nat /\ Waiting(requests, m, a - 1) \in Nat
      BY <3>1, <1>0
    <3> QED BY <3>2, <3>3, <3>4 DEF Capped
  <2> QED BY <2>4, <2>5, <2>6
<1>5. CASE UNCHANGED <<requests, events, asked>>
  BY <1>5 DEF Inv, CountInv
<1>6. StartAnalysis \/ HandleSignal \/ UNCHANGED vars => UNCHANGED <<requests, events, asked>>
  BY DEF StartAnalysis, HandleSignal, vars, code
<1> QED BY <1>1, <1>2, <1>3, <1>4, <1>5, <1>6 DEF Next

-----------------------------------------------------------------------------
(* The types.                                                              *)

\* Every step keeps the types and the channels within their capacities.
LEMMA TypeStep ==
  ASSUME Inv, [Next]_vars
  PROVE  TypeOK'
<1> USE TrafficAssumption
<1>0. /\ requests \in Requests /\ Len(requests) <= RequestCap
      /\ events \in [Models -> Counts] /\ asked \in [Models -> Counts]
      /\ prewarmSent \in [Models -> Ages] /\ tickDue \in BOOLEAN /\ dropped \in BOOLEAN
      /\ signals \in Seq(Models) /\ Len(signals) <= SignalCap
      /\ todo \subseteq Models /\ handled \in Models \cup {"nothing"}
  BY DEF Inv, TypeOK, Requests, Counts
<1> DEFINE Rest == /\ requests \in Requests /\ Len(requests) <= RequestCap
                   /\ events \in [Models -> Counts] /\ asked \in [Models -> Counts]
                   /\ prewarmSent \in [Models -> Ages] /\ tickDue \in BOOLEAN /\ dropped \in BOOLEAN
                   /\ signals \in Seq(Models) /\ Len(signals) <= SignalCap
                   /\ todo \subseteq Models /\ handled \in Models \cup {"nothing"}
<1>1. ASSUME NEW n \in Models, RecordRequest(n) PROVE Rest'
  <2>1. asked' \in [Models -> Counts]
    <3>1. asked' = [asked EXCEPT ![n] = CountOne(asked[n], 0)] BY <1>1 DEF RecordRequest
    <3>2. CountOne(asked[n], 0) \in Counts BY <1>0, CountOneValue DEF Ages
    <3> QED BY <3>1, <3>2, <1>0
  <2>2. requests' \in Requests /\ Len(requests') <= RequestCap
    <3>1. CASE Len(requests) < RequestCap
      <4> DEFINE x == [model |-> n, age |-> 0]
                 S == [model : Models, age : Ages]
      <4>1. x \in S BY DEF Ages
      <4>2. requests' = Append(requests, x) BY <1>1, <3>1 DEF RecordRequest
      <4>3. requests \in Seq(S) /\ Requests = Seq(S) BY <1>0 DEF Requests
      <4> HIDE DEF x, S
      <4> QED BY <4>1, <4>2, <4>3, <3>1
    <3>2. CASE ~(Len(requests) < RequestCap)
      BY <1>0, <1>1, <3>2 DEF RecordRequest
    <3> QED BY <3>1, <3>2
  <2> QED BY <2>1, <2>2, <1>0, <1>1 DEF RecordRequest
<1>2. ASSUME Ingest PROVE Rest'
  <2> DEFINE h == Head(requests)
  <2>1. h.model \in Models /\ h.age \in Ages /\ requests' \in Requests /\ Len(requests') <= RequestCap
    <3>1. h \in [model : Models, age : Ages] BY <1>0, <1>2, RequestsHold DEF Ingest
    <3>2. requests' = Tail(requests) /\ requests # <<>> BY <1>2 DEF Ingest
    <3> QED BY <1>0, <3>1, <3>2, RequestsHold
  <2>2. events' = [events EXCEPT ![h.model] = CountOne(events[h.model], h.age)]
    BY <1>2 DEF Ingest
  <2>3. CountOne(events[h.model], h.age) \in Counts BY <2>1, <1>0, CountOneValue
  <2> HIDE DEF h
  <2>4. events' \in [Models -> Counts] BY <2>1, <2>2, <2>3, <1>0
  <2> QED BY <2>1, <2>4, <1>0, <1>2 DEF Ingest
<1>3. ASSUME StartAnalysis PROVE Rest'
  BY <1>0, <1>3 DEF StartAnalysis
<1>4. ASSUME NEW n \in Models, Analyze(n) PROVE Rest'
  <2>1. events' \in [Models -> Counts]
    <3>1. events' = [events EXCEPT ![n] = Pruned(events[n])] BY <1>4 DEF Analyze
    <3>2. Pruned(events[n]) \in Counts BY <1>0, PrunedValue
    <3> QED BY <3>1, <3>2, <1>0
  <2>2. prewarmSent' \in [Models -> Ages]
    <3>1. 0 \in Ages BY DEF Ages
    <3> QED BY <3>1, <1>0, <1>4 DEF Analyze
  <2>4. dropped' \in BOOLEAN
    BY <1>0, <1>4 DEF Analyze
  <2>3. signals' \in Seq(Models) /\ Len(signals') <= SignalCap
    BY <1>0, <1>4 DEF Analyze
  <2> QED BY <2>1, <2>2, <2>3, <2>4, <1>0, <1>4 DEF Analyze
<1>5. ASSUME HandleSignal PROVE Rest'
  BY <1>0, <1>5 DEF HandleSignal
<1>6. ASSUME Clock PROVE Rest'
  <2>1. requests' \in Requests /\ Len(requests') <= RequestCap
    <3>1. requests' = Aged(requests) BY <1>6 DEF Clock, Aged
    <3>2. Aged(requests) \in Requests /\ Len(Aged(requests)) = Len(requests)
      BY <1>0, AgedType
    <3> QED BY <1>0, <3>1, <3>2
  <2>2. events' \in [Models -> Counts] /\ asked' \in [Models -> Counts]
    BY <1>0, <1>6, OlderAllValue DEF Clock
  <2>3. prewarmSent' \in [Models -> Ages]
    BY <1>0, <1>6 DEF Clock, Older, Ages
  <2> QED BY <2>1, <2>2, <2>3, <1>0, <1>6 DEF Clock
<1>7. ASSUME UNCHANGED vars PROVE Rest'
  BY <1>0, <1>7 DEF vars, code
<1>8. Rest' BY <1>1, <1>2, <1>3, <1>4, <1>5, <1>6, <1>7 DEF Next
<1>9. \A m \in Models, a \in Ages : events'[m][a] <= asked'[m][a]
  <2> SUFFICES ASSUME NEW m \in Models, NEW a \in Ages PROVE events'[m][a] <= asked'[m][a]
    OBVIOUS
  <2>1. Capped(events'[m][a] + Waiting(requests', m, a)) <= asked'[m][a]
    BY CountStep DEF CountInv
  <2>2. Waiting(requests', m, a) \in Nat BY <1>8, PlacesFinite
  <2>3. events'[m][a] \in 0..Threshold /\ asked'[m][a] \in 0..Threshold
    BY <1>8 DEF Counts
  <2> QED BY <2>1, <2>2, <2>3 DEF Capped
<1> QED BY <1>8, <1>9 DEF TypeOK, Requests, Counts

-----------------------------------------------------------------------------
(* The signals.                                                            *)

\* While a model has no signal underway there is room for one.
LEMMA RoomForSignal ==
  ASSUME Inv, NEW m \in Models, prewarmSent[m] >= Window, SignalCap >= Cardinality(Models)
  PROVE  Len(signals) < SignalCap
<1> DEFINE n == Len(signals)
           Others == Models \ {m}
<1>1. /\ n \in Nat /\ signals \in [1..n -> Models]
      /\ \A i, j \in 1..n : signals[i] = signals[j] => i = j
  BY DEF Inv, TypeOK, SignalInv
<1>2. ASSUME NEW i \in 1..n PROVE signals[i] # m
  <2>1. prewarmSent[signals[i]] < Window BY <1>2 DEF Inv, SignalInv
  <2>2. prewarmSent[m] \in Int /\ Window \in Int
    BY TrafficAssumption DEF Inv, TypeOK, Ages
  <2> QED BY <2>1, <2>2
<1>3. signals \in Injection(1..n, Others)
  BY <1>1, <1>2 DEF Injection, IsInjective
<1>4. /\ IsFiniteSet(Others) /\ Cardinality(Models) \in Nat
      /\ Cardinality(Others) = Cardinality(Models) - 1
  BY TrafficAssumption, FS_RemoveElement, FS_CardinalityType
<1>5. Cardinality(1..n) <= Cardinality(Others)
  BY <1>3, <1>4, FS_Injection
<1>6. Cardinality(1..n) = n
  BY <1>1, FS_Interval
<1> QED BY <1>1, <1>4, <1>5, <1>6, TrafficAssumption

\* Every step keeps the signals distinct, so that a send finds room.
LEMMA SignalStep ==
  ASSUME Inv, [Next]_vars
  PROVE  SignalInv' /\ SignalsAreNotLost'
<1> USE TrafficAssumption
<1>0. /\ signals \in Seq(Models) /\ Len(signals) \in Nat
      /\ prewarmSent \in [Models -> Ages] /\ \A m \in Models : prewarmSent[m] \in Int
      /\ dropped \in BOOLEAN
      /\ \A i \in 1..Len(signals) : signals[i] \in Models
  <2>1. signals \in Seq(Models) /\ prewarmSent \in [Models -> Ages] /\ dropped \in BOOLEAN
    BY DEF Inv, TypeOK
  <2>2. Ages \subseteq Int BY DEF Ages
  <2>3. Len(signals) \in Nat /\ \A i \in 1..Len(signals) : signals[i] \in Models BY <2>1
  <2>4. \A m \in Models : prewarmSent[m] \in Int BY <2>1, <2>2
  <2> QED BY <2>1, <2>3, <2>4
<1>1. ASSUME NEW n \in Models, Analyze(n) PROVE SignalInv' /\ SignalsAreNotLost'
  <2>1. CASE Due(n, Pruned(events[n]))
    <3>1. prewarmSent' = [prewarmSent EXCEPT ![n] = 0]
      BY <1>1, <2>1 DEF Analyze
    <3>2. prewarmSent[n] >= Window BY <2>1 DEF Due
    <3>3. \A i \in 1..Len(signals) : signals[i] # n
      <4> SUFFICES ASSUME NEW i \in 1..Len(signals), signals[i] = n PROVE FALSE OBVIOUS
      <4>1. prewarmSent[n] < Window BY DEF Inv, SignalInv
      <4> QED BY <4>1, <3>2, <1>0
    <3>4. CASE Len(signals) < SignalCap
      <4>1. signals' = Append(signals, n) BY <1>1, <2>1, <3>4 DEF Analyze
      <4>2. /\ Len(signals') = Len(signals) + 1 /\ signals'[Len(signals) + 1] = n
            /\ \A i \in 1..Len(signals) : signals'[i] = signals[i]
        BY <4>1, <1>0
      <4>3. \A i \in 1..Len(signals') : i = Len(signals) + 1 \/ i \in 1..Len(signals)
        BY <4>2, <1>0
      <4>4. \A i, j \in 1..Len(signals') : signals'[i] = signals'[j] => i = j
        BY <4>2, <4>3, <3>3 DEF Inv, SignalInv
      <4>5. \A i \in 1..Len(signals') : prewarmSent'[signals'[i]] < Window
        BY <4>2, <4>3, <3>1, <3>3, <1>0 DEF Inv, SignalInv
      <4>6. dropped' = dropped
        <5>1. ~(Len(signals) >= SignalCap) BY <3>4, <1>0
        <5>2. dropped' = (dropped \/ Len(signals) >= SignalCap) BY <1>1, <2>1 DEF Analyze
        <5> QED BY <5>1, <5>2, <1>0
      <4> QED BY <4>4, <4>5, <4>6 DEF Inv, SignalInv, SignalsAreNotLost
    <3>5. CASE ~(Len(signals) < SignalCap)
      <4>1. signals' = signals BY <1>1, <2>1, <3>5 DEF Analyze
      <4>2. ~(SignalCap >= Cardinality(Models)) BY <3>2, <3>5, RoomForSignal
      <4>3. \A i \in 1..Len(signals) : prewarmSent'[signals[i]] = prewarmSent[signals[i]]
        BY <3>1, <3>3, <1>0
      <4> QED BY <4>1, <4>2, <4>3 DEF Inv, SignalInv, SignalsAreNotLost
    <3> QED BY <3>4, <3>5
  <2>2. CASE ~Due(n, Pruned(events[n]))
    <3>1. UNCHANGED <<prewarmSent, signals, dropped>> BY <1>1, <2>2 DEF Analyze
    <3> QED BY <3>1 DEF Inv, SignalInv, SignalsAreNotLost
  <2> QED BY <2>1, <2>2
<1>2. CASE HandleSignal
  <2>1. signals # <<>> /\ signals' = Tail(signals) /\ UNCHANGED <<prewarmSent, dropped>>
    BY <1>2 DEF HandleSignal
  <2>2. /\ Len(signals') = Len(signals) - 1
        /\ \A i \in 1..Len(signals') : signals'[i] = signals[i + 1] /\ i + 1 \in 1..Len(signals)
    BY <2>1, <1>0
  <2>3. \A i, j \in 1..Len(signals') : signals'[i] = signals'[j] => i = j
    <3>1. \A i, j \in 1..Len(signals) : signals[i] = signals[j] => i = j BY DEF Inv, SignalInv
    <3> SUFFICES ASSUME NEW i \in 1..Len(signals'), NEW j \in 1..Len(signals'), signals'[i] = signals'[j]
                 PROVE  i = j
      OBVIOUS
    <3>2. i + 1 \in 1..Len(signals) /\ j + 1 \in 1..Len(signals) /\ signals[i + 1] = signals[j + 1]
      BY <2>2
    <3>3. i + 1 = j + 1 BY <3>1, <3>2
    <3> QED BY <3>3
  <2>4. \A i \in 1..Len(signals') : prewarmSent'[signals'[i]] < Window
    BY <2>1, <2>2 DEF Inv, SignalInv
  <2> QED BY <2>1, <2>3, <2>4 DEF Inv, SignalInv, SignalsAreNotLost
<1>3. CASE Clock
  <2>1. /\ Prompt /\ UNCHANGED <<signals, dropped>>
        /\ prewarmSent' = [m \in Models |-> Older(prewarmSent[m])]
    BY <1>3 DEF Clock
  <2>2. ASSUME NEW i \in 1..Len(signals) PROVE prewarmSent'[signals[i]] < Window
    <3>1. prewarmSent[signals[i]] < Window - 1 BY <2>1 DEF Prompt
    <3>2. prewarmSent'[signals[i]] = Older(prewarmSent[signals[i]]) BY <2>1, <1>0
    <3>3. prewarmSent[signals[i]] \in Int BY <1>0
    <3> QED BY <3>1, <3>2, <3>3 DEF Older
  <2> QED BY <2>1, <2>2 DEF Inv, SignalInv, SignalsAreNotLost
<1>4. CASE UNCHANGED <<signals, prewarmSent, dropped>>
  BY <1>4 DEF Inv, SignalInv, SignalsAreNotLost
<1>5. ASSUME NEW n \in Models, RecordRequest(n) PROVE UNCHANGED <<signals, prewarmSent, dropped>>
  BY <1>5 DEF RecordRequest
<1>6. Ingest \/ StartAnalysis \/ UNCHANGED vars => UNCHANGED <<signals, prewarmSent, dropped>>
  BY DEF Ingest, StartAnalysis, vars, code
<1> QED BY <1>1, <1>2, <1>3, <1>4, <1>5, <1>6 DEF Next

-----------------------------------------------------------------------------
(* The theorems.                                                           *)

\* Nothing is counted, asked or signalled.
LEMMA InitInv == Init => Inv
<1> SUFFICES ASSUME Init PROVE Inv OBVIOUS
<1> USE TrafficAssumption DEF Init
<1>1. TypeOK
  <2>1. 0 \in 0..Threshold /\ Window \in Ages BY DEF Ages
  <2>2. Nothing \in [Ages -> 0..Threshold] /\ \A a \in Ages : Nothing[a] = 0
    BY <2>1 DEF Nothing
  <2>3. events \in [Models -> [Ages -> 0..Threshold]] /\ asked \in [Models -> [Ages -> 0..Threshold]]
    BY <2>2
  <2>4. \A m \in Models, a \in Ages : events[m][a] <= asked[m][a] BY <2>2
  <2>5. requests \in Seq([model : Models, age : Ages]) /\ Len(requests) = 0
        /\ signals \in Seq(Models) /\ Len(signals) = 0
    OBVIOUS
  <2>6. prewarmSent \in [Models -> Ages] BY <2>1
  <2>7. Len(requests) <= RequestCap /\ Len(signals) <= SignalCap BY <2>5
  <2>8. tickDue \in BOOLEAN /\ dropped \in BOOLEAN OBVIOUS
  <2>9. todo \subseteq Models /\ handled \in Models \cup {"nothing"} OBVIOUS
  <2> HIDE DEF Init
  <2> QED BY <2>3, <2>4, <2>5, <2>6, <2>7, <2>8, <2>9 DEF TypeOK
<1>2. CountInv
  <2> SUFFICES ASSUME NEW m \in Models, NEW a \in Ages
               PROVE  Capped(events[m][a] + Waiting(requests, m, a)) <= asked[m][a]
    BY DEF CountInv
  <2>1. Places(requests, m, a) = {} BY DEF Places
  <2>2. Waiting(requests, m, a) = 0 BY <2>1, FS_EmptySet DEF Waiting
  <2> QED BY <2>2 DEF Nothing, Capped
<1>3. SignalInv /\ SignalsAreNotLost BY DEF SignalInv, SignalsAreNotLost
<1> QED BY <1>1, <1>2, <1>3 DEF Inv

\* The invariant holds in every state, whatever the two loops take first.
THEOREM Invariance == Spec => []Inv
<1>1. Inv /\ [Next]_vars => Inv'
  BY TypeStep, CountStep, SignalStep DEF Inv
<1> QED BY InitInv, <1>1, PTL DEF Spec

\* The channels keep to their capacities, and the analyzer never counts more
\* requests of an age than were made (traffic_analyzer.go:93-104).
THEOREM Types == Spec => []TypeOK
<1>1. Inv => TypeOK BY DEF Inv
<1> QED BY Invariance, <1>1, PTL

\* With room for one signal of each model none is lost, for any number of models
\* and any window (traffic_analyzer.go:137-157).
THEOREM NoSignalIsLost == Spec => []SignalsAreNotLost
<1>1. Inv => SignalsAreNotLost BY DEF Inv
<1> QED BY Invariance, <1>1, PTL

\* What counts as fresh is at most what was asked for in the window.
LEMMA FreshWereAsked ==
  ASSUME TypeOK, NEW m \in Models
  PROVE  FreshCount(Pruned(events[m])) <= FreshCount(asked[m])
<1> DEFINE Fresh == Ages \ {Window}
<1>1. IsFiniteSet(Fresh)
  <2>1. IsFiniteSet(Ages) BY TrafficAssumption, FS_Interval DEF Ages
  <2> QED BY <2>1, FS_Difference
<1>2. \A a \in Fresh : Pruned(events[m])[a] = events[m][a]
  BY Typed, PrunedValue
<1>3. /\ Weighs(Pruned(events[m]), Fresh) /\ Weighs(asked[m], Fresh)
      /\ \A a \in Fresh : Pruned(events[m])[a] <= asked[m][a]
  BY <1>2, Typed DEF Weighs, TypeOK
<1>4. SumOver(Pruned(events[m]), Fresh) <= SumOver(asked[m], Fresh)
  BY <1>1, <1>3, SumBelow
<1> QED BY <1>4 DEF FreshCount, SumOver

\* Both counts are numbers, so that they can be compared.
LEMMA FreshType ==
  ASSUME TypeOK, NEW m \in Models
  PROVE  FreshCount(Pruned(events[m])) \in Int /\ FreshCount(asked[m]) \in Int
<1> DEFINE Fresh == Ages \ {Window}
<1>1. IsFiniteSet(Fresh)
  <2>1. IsFiniteSet(Ages) BY TrafficAssumption, FS_Interval DEF Ages
  <2> QED BY <2>1, FS_Difference
<1>2. Weighs(Pruned(events[m]), Fresh) /\ Weighs(asked[m], Fresh)
  BY Typed, PrunedValue DEF Weighs
<1>3. SumOver(Pruned(events[m]), Fresh) \in Nat /\ SumOver(asked[m], Fresh) \in Nat
  BY <1>1, <1>2, SumType
<1> QED BY <1>3 DEF FreshCount, SumOver

\* A step that marks a model signalled finds Threshold requests for it, made within
\* the window (traffic_analyzer.go:112-133).
THEOREM SignalsEarned == Spec => SignalsAreEarned
<1>1. ASSUME Inv, [Next]_vars, NEW m \in Models, prewarmSent'[m] < prewarmSent[m]
      PROVE  FreshCount(asked[m]) >= Threshold
  <2>0. prewarmSent \in [Models -> Ages] /\ \A n \in Models : prewarmSent[n] \in Int
    <3>1. prewarmSent \in [Models -> Ages] BY <1>1 DEF Inv, TypeOK
    <3>2. \A a \in Ages : a \in Int BY TrafficAssumption DEF Ages
    <3> QED BY <3>1, <3>2
  <2>1. ASSUME NEW n \in Models, Analyze(n) PROVE n = m /\ Due(m, Pruned(events[m]))
    BY <1>1, <2>0, <2>1 DEF Analyze
  <2>2. CASE Clock
    <3>1. prewarmSent'[m] = Older(prewarmSent[m]) BY <2>2 DEF Clock
    <3> QED BY <1>1, <2>0, <3>1, TrafficAssumption DEF Older, Ages
  <2>3. ~UNCHANGED prewarmSent BY <1>1, <2>0
  <2>4. ASSUME NEW n \in Models, RecordRequest(n) PROVE UNCHANGED prewarmSent
    BY <2>4 DEF RecordRequest
  <2>5. Ingest \/ StartAnalysis \/ HandleSignal \/ UNCHANGED vars => UNCHANGED prewarmSent
    BY DEF Ingest, StartAnalysis, HandleSignal, vars, code
  <2>6. CASE Due(m, Pruned(events[m]))
    <3>1. FreshCount(Pruned(events[m])) >= Threshold BY <2>6 DEF Due
    <3>2. FreshCount(Pruned(events[m])) <= FreshCount(asked[m])
      BY <1>1, FreshWereAsked DEF Inv
    <3>3. FreshCount(Pruned(events[m])) \in Int /\ FreshCount(asked[m]) \in Int
      BY <1>1, FreshType DEF Inv
    <3> QED BY <3>1, <3>2, <3>3, TrafficAssumption
  <2> QED BY <1>1, <2>1, <2>2, <2>3, <2>4, <2>5, <2>6 DEF Next
<1>2. Inv /\ [Next]_vars => [\A m \in Models : prewarmSent'[m] < prewarmSent[m]
                                => FreshCount(asked[m]) >= Threshold]_vars
  BY <1>1
<1> QED BY Invariance, <1>2, PTL DEF Spec, SignalsAreEarned
=============================================================================
