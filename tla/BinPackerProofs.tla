-------------------------- MODULE BinPackerProofs --------------------------
(***************************************************************************)
(* Theorems about BinPacker.  Types, and what the registry's nodes are     *)
(* made of, hold of every heartbeat.  What a placement promises is a fact  *)
(* about a snapshot: the invariant says that a call's snapshot is one and  *)
(* that its answer is among the choices of that snapshot, and the lemmas   *)
(* about the selection do the rest.  A best candidate exists because there *)
(* are finitely many.  Beside it, the preemption queue is always a heap.   *)
(***************************************************************************)
EXTENDS BinPacker, FiniteSums, FunctionTheorems, SequenceTheorems

NodeFields == {"mig", "slices", "total", "used", "weights", "healthy"}

\* A node of the registry: a heartbeat and the flag the registry adds.
IsNode(g) == DOMAIN g = NodeFields /\ IsReport(g) /\ g.healthy \in BOOLEAN

IsSnapshot(snap) ==
  /\ DOMAIN snap \subseteq Nodes
  /\ \A n \in DOMAIN snap : IsNode(snap[n])

RegistryInv == /\ DOMAIN registry = Nodes
               /\ \A n \in Nodes : registry[n] # Absent => IsNode(registry[n])

\* A call that is still to decide may share nodes with the registry.
CallInv ==
  call # Idle =>
    /\ {"req", "snap", "shared", "done"} \subseteq DOMAIN call
    /\ call.req \in Requests
    /\ IsSnapshot(call.snap)
    /\ call.shared \subseteq DOMAIN call.snap
    /\ \A n \in call.shared : call.snap[n] = registry[n]
    /\ call.shared # {} => ~call.done /\ "answer" \notin DOMAIN call

\* The outcome was decided on the call's own snapshot.
OutcomeInv ==
  /\ Placed => \E c \in Picks(call.snap, call.req) : call.answer = Decision(call.snap, c)
  /\ Failed => Picks(call.snap, call.req) = {}

\* No task is more important than the one above it, among the first n.
Ordered(q, n) == \A k \in 2..n : q[k] <= q[k \div 2]

IsHeap(q) == q \in Seq(Nat) /\ Ordered(q, Len(q))

\* container/heap keeps its slice in order.
HeapInv == IsHeap(taskQueue)

Inv == RegistryInv /\ CallInv /\ OutcomeInv /\ HeapInv

-----------------------------------------------------------------------------
(* The slices of one node.                                                 *)

\* A node has finitely many slices, with integers for their VRAM, and no slice
\* of a partitioned one is called "" (effectiveSlices, node_registry.go:112).
LEMMA SliceTypes ==
  ASSUME NEW g, IsNode(g)
  PROVE  /\ IsFiniteSet(SliceIds(g))
         /\ \A s \in SliceIds(g) : FreeVRAM(SliceOf(g, s)) \in Int
         /\ "" \notin SliceIds(g)
<1>1. CASE Partitioned(g)
  <2>1. SliceIds(g) = DOMAIN g.slices BY <1>1 DEF SliceIds
  <2>2. ASSUME NEW s \in DOMAIN g.slices PROVE FreeVRAM(SliceOf(g, s)) \in Int
    <3>1. g.slices[s] \in [total : Int, used : Int, healthy : BOOLEAN]
      BY DEF IsNode, IsReport
    <3>2. SliceOf(g, s) = g.slices[s] BY <1>1 DEF SliceOf
    <3> QED BY <3>1, <3>2 DEF FreeVRAM
  <2>3. IsFiniteSet(DOMAIN g.slices) /\ "" \notin DOMAIN g.slices BY DEF IsNode, IsReport
  <2> QED BY <2>1, <2>2, <2>3
<1>2. CASE ~Partitioned(g)
  <2>1. SliceIds(g) = {Full} BY <1>2 DEF SliceIds
  <2>2. IsFiniteSet({Full}) BY FS_Singleton
  <2>3. g.total \in Int /\ g.used \in Int BY DEF IsNode, IsReport
  <2>4. FreeVRAM(FullSlice(g)) \in Int BY <2>3 DEF FullSlice, FreeVRAM
  <2> QED BY <1>2, <2>1, <2>2, <2>4 DEF SliceOf, Full
<1> QED BY <1>1, <1>2

\* Something is best where finitely many things are compared by integers.
LEMMA Extreme ==
  ASSUME NEW S, IsFiniteSet(S), S # {}, NEW f, \A x \in S : f[x] \in Int
  PROVE  \E x \in S : \A y \in S : f[y] <= f[x]
<1> DEFINE AtLeast(x) == {y \in S : f[x] <= f[y]}
           Levels == {AtLeast(x) : x \in S}
<1>1. Levels \subseteq SUBSET S /\ Levels # {} OBVIOUS
<1>2. PICK u \in Levels : \A v \in Levels : v \subseteq u => v = u
  <2> HIDE DEF Levels
  <2> QED BY <1>1, MinimalSubset
<1>3. PICK x \in S : u = AtLeast(x) OBVIOUS
<1>4. ASSUME NEW y \in S, ~(f[y] <= f[x]) PROVE FALSE
  <2>1. f[x] <= f[y] BY <1>4
  <2>2. AtLeast(y) \subseteq AtLeast(x) BY <2>1
  <2>3. AtLeast(y) = AtLeast(x) BY <1>2, <1>3, <2>2
  <2>4. x \in AtLeast(x) OBVIOUS
  <2>5. x \in AtLeast(y) BY <2>3, <2>4
  <2> QED BY <1>4, <2>5
<1> QED BY <1>4

\* ... and so is something smallest.
LEMMA Least ==
  ASSUME NEW S, IsFiniteSet(S), S # {}, NEW f, \A x \in S : f[x] \in Int
  PROVE  \E x \in S : \A y \in S : f[x] <= f[y]
<1> DEFINE h == [x \in S |-> 0 - f[x]]
<1>1. \A x \in S : h[x] \in Int OBVIOUS
<1>2. PICK x \in S : \A y \in S : h[y] <= h[x]
  <2> HIDE DEF h
  <2> QED BY <1>1, Extreme
<1>3. \A y \in S : 0 - f[y] <= 0 - f[x] BY <1>2
<1> QED BY <1>3

\* A node can host a model exactly when one of its slices fits it: BestSliceFor
\* and the packer's own slice by slice test agree (node_registry.go:88-168).
LEMMA HostsWhereASliceFits ==
  ASSUME NEW g, IsNode(g), NEW need \in Int
  PROVE  NodeCanHost(g, need) <=> \E s \in SliceIds(g) : SliceFits(g, s, need)
<1>1. CASE Partitioned(g)
  <2> DEFINE fitting == {s \in HealthySlices(g) : FreeVRAM(g.slices[s]) >= need}
             f == [s \in fitting |-> FreeVRAM(g.slices[s])]
  <2>1. fitting = {s \in SliceIds(g) : SliceFits(g, s, need)}
    BY <1>1 DEF HealthySlices, SliceIds, SliceFits, SliceOf
  <2>2. BestSliceFor(g, need, FALSE) =
          {s \in fitting : \A t \in fitting : FreeVRAM(g.slices[s]) <= FreeVRAM(g.slices[t])}
    BY <1>1 DEF BestSliceFor
  <2>3. ASSUME fitting # {} PROVE BestSliceFor(g, need, FALSE) # {}
    <3>1. IsFiniteSet(fitting) BY <2>1, SliceTypes, FS_Subset
    <3>2. \A s \in fitting : f[s] \in Int BY <1>1, <2>1, SliceTypes DEF SliceOf
    <3>3. PICK s \in fitting : \A t \in fitting : f[s] <= f[t]
      <4> HIDE DEF fitting, f
      <4> QED BY <2>3, <3>1, <3>2, Least
    <3>4. \A t \in fitting : FreeVRAM(g.slices[s]) <= FreeVRAM(g.slices[t]) BY <3>3
    <3> HIDE DEF fitting
    <3> QED BY <2>2, <3>4
  <2>4. NodeCanHost(g, need) <=> BestSliceFor(g, need, FALSE) # {}
    BY <1>1 DEF NodeCanHost
  <2>5. BestSliceFor(g, need, FALSE) \subseteq fitting BY <2>2
  <2> QED BY <2>1, <2>3, <2>4, <2>5
<1>2. CASE ~Partitioned(g)
  <2>1. NodeCanHost(g, need) <=> g.total - g.used >= need
    BY <1>2 DEF NodeCanHost, NodeFreeVRAM
  <2>2. SliceFits(g, Full, need) <=> g.total - g.used >= need
    BY <1>2 DEF SliceFits, SliceOf, FullSlice, FreeVRAM
  <2> QED BY <1>2, <2>1, <2>2 DEF SliceIds
<1> QED BY <1>1, <1>2

-----------------------------------------------------------------------------
(* The selection on a snapshot.                                            *)

\* A candidate is a slice that fits, of a node of the snapshot
\* (bin_packer.go:117-147).
LEMMA CandidateIs ==
  ASSUME NEW snap, NEW need, NEW c
  PROVE  c \in Candidates(snap, need) <=>
           \E n \in DOMAIN snap : \E s \in SliceIds(snap[n]) :
             c = <<n, s>> /\ SliceFits(snap[n], s, need)
BY DEF Candidates

\* ... so that its node has it, and it is large enough.
LEMMA CandidateFits ==
  ASSUME NEW snap, NEW need, NEW c \in Candidates(snap, need)
  PROVE  /\ c[1] \in DOMAIN snap /\ c[2] \in SliceIds(snap[c[1]])
         /\ SliceFits(snap[c[1]], c[2], need)
         /\ c = <<c[1], c[2]>>
BY CandidateIs

\* There are finitely many candidates, with integers for their free VRAM.
LEMMA CandidateTypes ==
  ASSUME PackerAssumption, NEW snap, IsSnapshot(snap), NEW need
  PROVE  /\ IsFiniteSet(Candidates(snap, need))
         /\ \A c \in Candidates(snap, need) : Free(snap, c) \in Int
<1> DEFINE D == DOMAIN snap
           Ids == [n \in D |-> SliceIds(snap[n])]
           Sets == {Ids[n] : n \in D}
<1>1. IsFiniteSet(D) BY FS_Subset DEF PackerAssumption, IsSnapshot
<1>2. \A n \in D : IsFiniteSet(Ids[n]) BY SliceTypes DEF IsSnapshot
<1>3. IsFiniteSet(UNION Sets)
  <2>1. Ids \in Surjection(D, Sets) BY DEF Surjection
  <2>2. IsFiniteSet(Sets)
    <3> HIDE DEF D, Ids, Sets
    <3> QED BY <1>1, <2>1, FS_Surjection
  <2>3. \A T \in Sets : IsFiniteSet(T) BY <1>2
  <2> HIDE DEF Sets
  <2> QED BY <2>2, <2>3, FS_UNION
<1>4. Candidates(snap, need) \subseteq D \X UNION Sets
  BY CandidateIs
<1>5. IsFiniteSet(D \X UNION Sets)
  <2> HIDE DEF D, Sets
  <2> QED BY <1>1, <1>3, FS_Product
<1>6. IsFiniteSet(Candidates(snap, need)) BY <1>4, <1>5, FS_Subset
<1>7. ASSUME NEW c \in Candidates(snap, need) PROVE Free(snap, c) \in Int
  BY CandidateFits, SliceTypes DEF IsSnapshot, Free
<1> QED BY <1>6, <1>7

\* What is chosen is in the pool, and the pool is of candidates
\* (bin_packer.go:154-177).
LEMMA PicksAreCandidates ==
  ASSUME NEW snap, NEW r, NEW c \in Picks(snap, r)
  PROVE  c \in Pool(snap, r) /\ c \in Candidates(snap, r.need)
<1>1. c \in Pool(snap, r) BY DEF Picks, MostFreeSlice, LeastFitSlice
<1>2. c \in Candidates(snap, r.need) BY <1>1 DEF Pool, AffinityHits
<1> QED BY <1>1, <1>2

\* Where there is a candidate there is a choice: the pool is not empty, and one
\* of it is the freest, one the tightest.
LEMMA SomethingIsPicked ==
  ASSUME PackerAssumption, NEW snap, IsSnapshot(snap), NEW r, r.need \in Int,
         Candidates(snap, r.need) # {}
  PROVE  Picks(snap, r) # {}
<1> DEFINE P == Pool(snap, r)
           f == [c \in P |-> Free(snap, c)]
<1>1. P # {} /\ P \subseteq Candidates(snap, r.need) BY DEF Pool, AffinityHits
<1>2. IsFiniteSet(P) BY <1>1, CandidateTypes, FS_Subset
<1>3. \A c \in P : f[c] \in Int BY <1>1, CandidateTypes
<1>4. \E c \in P : \A d \in P : f[d] <= f[c]
  <2> HIDE DEF P, f
  <2> QED BY <1>1, <1>2, <1>3, Extreme
<1>5. \E c \in P : \A d \in P : f[c] <= f[d]
  <2> HIDE DEF P, f
  <2> QED BY <1>1, <1>2, <1>3, Least
<1>6. MostFreeSlice(snap, P) # {} BY <1>4 DEF MostFreeSlice
<1>7. \A c \in P : Free(snap, c) >= r.need
  BY <1>1, CandidateFits DEF SliceFits, Free
<1>8. LeastFitSlice(snap, P, r.need) # {}
  <2>1. PICK c \in P : \A d \in P : Free(snap, c) <= Free(snap, d) BY <1>5
  <2>2. c \in LeastFitSlice(snap, P, r.need) BY <1>7, <2>1 DEF LeastFitSlice
  <2> QED BY <2>2
<1> QED BY <1>6, <1>8 DEF Picks

\* The answer names the slice by the reconciler's key (reconciler.go:289), and
\* the node by its own.
LEMMA AnswerIs ==
  ASSUME NEW snap, IsSnapshot(snap), NEW need, NEW c \in Candidates(snap, need)
  PROVE  Decision(snap, c).node = c[1] /\ KeyOf(Decision(snap, c)) = c[2]
<1>1. Decision(snap, c).node = c[1] BY DEF Decision
<1>2. Decision(snap, c).slice = IF snap[c[1]].mig THEN c[2] ELSE "" BY DEF Decision
<1>3. c[1] \in DOMAIN snap /\ c[2] \in SliceIds(snap[c[1]]) BY CandidateFits
<1>4. "" \notin SliceIds(snap[c[1]]) BY <1>3, SliceTypes DEF IsSnapshot
<1>5. CASE snap[c[1]].mig BY <1>1, <1>2, <1>3, <1>4, <1>5 DEF KeyOf
<1>6. CASE ~snap[c[1]].mig
  BY <1>1, <1>2, <1>3, <1>6 DEF KeyOf, SliceIds, Partitioned
<1> QED BY <1>1, <1>5, <1>6

-----------------------------------------------------------------------------
(* The heap: up and down.                                                  *)

\* up and down are recursive functions: that there are such functions is shown
\* before they are unfolded.
UpBody(F, j) == [q \in Seq(Nat) |->
  IF j > 1 /\ Less(q, j, j \div 2) THEN F[j \div 2][Swap(q, j \div 2, j)] ELSE q]

\* The parent of a place comes before it.
LEMMA Parent ==
  ASSUME NEW j \in Nat, j > 1
  PROVE  /\ j \div 2 \in Nat /\ j \div 2 >= 1 /\ j \div 2 < j
         /\ j = 2 * (j \div 2) \/ j = 2 * (j \div 2) + 1
OBVIOUS

\* There is a function that calls itself as up does, towards the top.
LEMMA UpExists ==
  ASSUME NEW n \in Nat
  PROVE  \E F : F = [j \in 1..n |-> UpBody(F, j)]
<1> DEFINE Upto(F, m) == F = [j \in 1..m |-> UpBody(F, j)]
           Good(m) == \E F : Upto(F, m)
           Bad == {m \in Nat : ~Good(m)}
<1>1. Good(0)
  <2> DEFINE F == [j \in 1..0 |-> 0]
  <2>1. F = [j \in 1..0 |-> UpBody(F, j)] OBVIOUS
  <2> QED BY <2>1
<1>2. ASSUME NEW m \in Nat, Good(m) PROVE Good(m + 1)
  <2>1. PICK F : Upto(F, m) BY <1>2
  <2> DEFINE G == [j \in 1..(m + 1) |-> UpBody(F, j)]
  <2>2. ASSUME NEW j \in 1..m PROVE F[j] = UpBody(F, j) BY <2>1
  <2>3. ASSUME NEW j \in 1..(m + 1) PROVE UpBody(F, j) = UpBody(G, j)
    <3>1. ASSUME j > 1 PROVE F[j \div 2] = G[j \div 2]
      <4>1. j \div 2 \in 1..m BY <3>1, Parent
      <4>2. j \div 2 \in 1..(m + 1) BY <4>1
      <4>3. G[j \div 2] = UpBody(F, j \div 2) BY <4>2
      <4> HIDE DEF G
      <4> QED BY <2>2, <4>1, <4>3
    <3> HIDE DEF G
    <3> QED BY <3>1 DEF UpBody
  <2>4. Upto(G, m + 1) BY <2>3
  <2> QED BY <2>4
<1>3. \A m \in Nat : Good(m)
  <2> SUFFICES ASSUME Bad # {} PROVE FALSE OBVIOUS
  <2> HIDE DEF Good
  <2>1. PICK m \in Bad : \A k \in Bad : m <= k BY LeastNumber
  <2>2. m # 0 BY <1>1
  <2>3. m - 1 \in Nat /\ ~(m <= m - 1) BY <2>2
  <2>4. Good(m - 1) BY <2>1, <2>3
  <2>5. Good((m - 1) + 1) BY <1>2, <2>3, <2>4
  <2> QED BY <2>5
<1> QED BY <1>3

\* up, unfolded.
LEMMA UpIs ==
  ASSUME NEW n \in Nat, NEW j \in 1..n
  PROVE  Up(n)[j] = UpBody(Up(n), j)
<1>1. Up(n) = CHOOSE F : F = [k \in 1..n |-> UpBody(F, k)] BY DEF Up, UpBody
<1>2. Up(n) = [k \in 1..n |-> UpBody(Up(n), k)] BY <1>1, UpExists
<1> QED BY <1>2

DownBody(F, n, i) == [q \in Seq(Nat) |->
  IF 2 * i <= n /\ Less(q, Child(q, i, n), i)
  THEN F[Child(q, i, n)][Swap(q, i, Child(q, i, n))] ELSE q]

\* A child comes after its parent, and within the heap.
LEMMA Children ==
  ASSUME NEW q, NEW n \in Nat, NEW i \in Nat \ {0}, 2 * i <= n
  PROVE  /\ Child(q, i, n) \in Nat \ {0} /\ Child(q, i, n) > i /\ Child(q, i, n) <= n
         /\ Child(q, i, n) \div 2 = i /\ Child(q, i, n) \in {2 * i, 2 * i + 1}
<1>1. CASE 2 * i + 1 <= n /\ Less(q, 2 * i + 1, 2 * i)
  <2>1. Child(q, i, n) = 2 * i + 1 BY <1>1 DEF Child
  <2> QED BY <2>1, <1>1
<1>2. CASE ~(2 * i + 1 <= n /\ Less(q, 2 * i + 1, 2 * i))
  <2>1. Child(q, i, n) = 2 * i BY <1>2 DEF Child
  <2> QED BY <2>1
<1> QED BY <1>1, <1>2

\* ... and one as down does, away from it.
LEMMA DownExists ==
  ASSUME NEW n \in Nat
  PROVE  \E F : F = [i \in Nat \ {0} |-> DownBody(F, n, i)]
<1> DEFINE Places == Nat \ {0}
           From(F, m) == /\ F = [i \in Places |-> F[i]]
                         /\ \A i \in Places : i + m >= n => F[i] = DownBody(F, n, i)
           Good(m) == \E F : From(F, m)
           Bad == {m \in Nat : ~Good(m)}
<1>1. Good(0)
  <2> DEFINE F == [i \in Places |-> [q \in Seq(Nat) |-> q]]
  <2>1. ASSUME NEW i \in Places, i + 0 >= n PROVE F[i] = DownBody(F, n, i)
    <3>1. ~(2 * i <= n) BY <2>1
    <3>2. DownBody(F, n, i) = [q \in Seq(Nat) |-> q] BY <3>1 DEF DownBody
    <3> QED BY <3>2
  <2>2. F = [i \in Places |-> F[i]] OBVIOUS
  <2> HIDE DEF F, Places
  <2> QED BY <2>1, <2>2
<1>2. ASSUME NEW m \in Nat, Good(m) PROVE Good(m + 1)
  <2>1. PICK F : From(F, m) BY <1>2
  <2> DEFINE G == [i \in Places |-> DownBody(F, n, i)]
  <2>2. ASSUME NEW i \in Places, i + m >= n PROVE F[i] = G[i] BY <2>1, <2>2
  <2>3. ASSUME NEW i \in Places, i + (m + 1) >= n PROVE DownBody(F, n, i) = DownBody(G, n, i)
    <3>1. ASSUME NEW q, 2 * i <= n
          PROVE  F[Child(q, i, n)] = G[Child(q, i, n)]
      <4>1. Child(q, i, n) \in Places /\ Child(q, i, n) + m >= n
        BY <3>1, <2>3, Children
      <4> HIDE DEF G, Places
      <4> QED BY <2>2, <4>1
    <3> HIDE DEF G, Places
    <3> QED BY <3>1 DEF DownBody
  <2>4. ASSUME NEW i \in Places, i + (m + 1) >= n PROVE G[i] = DownBody(G, n, i)
    <3>1. G[i] = DownBody(F, n, i) OBVIOUS
    <3> HIDE DEF G, Places
    <3> QED BY <2>3, <2>4, <3>1
  <2>5. G = [i \in Places |-> G[i]] OBVIOUS
  <2> HIDE DEF G, Places
  <2> QED BY <2>4, <2>5
<1>3. \A m \in Nat : Good(m)
  <2> SUFFICES ASSUME Bad # {} PROVE FALSE OBVIOUS
  <2> HIDE DEF Good
  <2>1. PICK m \in Bad : \A k \in Bad : m <= k BY LeastNumber
  <2>2. m # 0 BY <1>1
  <2>3. m - 1 \in Nat /\ ~(m <= m - 1) BY <2>2
  <2>4. Good(m - 1) BY <2>1, <2>3
  <2>5. Good((m - 1) + 1) BY <1>2, <2>3, <2>4
  <2> QED BY <2>5
<1>4. PICK F : From(F, n) BY <1>3
<1>5. \A i \in Places : i + n >= n OBVIOUS
<1>6. F = [i \in Places |-> F[i]] /\ \A i \in Places : F[i] = DownBody(F, n, i) BY <1>4, <1>5
<1> QED BY <1>6

\* down, unfolded.
LEMMA DownIs ==
  ASSUME NEW n \in Nat, NEW i \in Nat \ {0}
  PROVE  Down(n)[i] = DownBody(Down(n), n, i)
<1>1. Down(n) = CHOOSE F : F = [k \in Nat \ {0} |-> DownBody(F, n, k)] BY DEF Down, DownBody
<1>2. Down(n) = [k \in Nat \ {0} |-> DownBody(Down(n), n, k)] BY <1>1, DownExists
<1> QED BY <1>2

-----------------------------------------------------------------------------
(* Counting.                                                               *)

\* The places that hold a task.
At(q, t) == {i \in 1..Len(q) : q[i] = t}

\* They are finitely many.
LEMMA AtFinite ==
  ASSUME NEW q \in Seq(Nat), NEW t
  PROVE  IsFiniteSet(At(q, t)) /\ HowMany(q, t) = Cardinality(At(q, t)) /\ HowMany(q, t) \in Nat
<1>1. IsFiniteSet(1..Len(q)) BY FS_Interval
<1>2. IsFiniteSet(At(q, t)) BY <1>1, FS_Subset DEF At
<1> QED BY <1>2, FS_CardinalityType DEF HowMany, At

\* What changes when two tasks change places.
LEMMA SwapFacts ==
  ASSUME NEW q \in Seq(Nat), NEW i \in 1..Len(q), NEW j \in 1..Len(q)
  PROVE  /\ Swap(q, i, j) \in Seq(Nat) /\ Len(Swap(q, i, j)) = Len(q)
         /\ Swap(q, i, j)[i] = q[j] /\ Swap(q, i, j)[j] = q[i]
         /\ \A k \in 1..Len(q) : k # i /\ k # j => Swap(q, i, j)[k] = q[k]
BY DEF Swap

\* Changing places leaves the tasks the same.
LEMMA SwapKeeps ==
  ASSUME NEW q \in Seq(Nat), NEW i \in 1..Len(q), NEW j \in 1..Len(q), NEW t
  PROVE  HowMany(Swap(q, i, j), t) = HowMany(q, t)
<1> DEFINE r == Swap(q, i, j)
           f == [k \in At(q, t) |-> IF k = i THEN j ELSE IF k = j THEN i ELSE k]
<1>1. /\ r \in Seq(Nat) /\ Len(r) = Len(q) /\ r[i] = q[j] /\ r[j] = q[i]
      /\ \A k \in 1..Len(q) : k # i /\ k # j => r[k] = q[k]
  BY SwapFacts
<1> HIDE DEF r
<1>2. f \in [At(q, t) -> At(r, t)] BY <1>1 DEF At
<1>3. \A k, l \in At(q, t) : f[k] = f[l] => k = l BY <1>1 DEF At
<1>4. ASSUME NEW l \in At(r, t) PROVE \E k \in At(q, t) : f[k] = l
  <2> DEFINE k == IF l = i THEN j ELSE IF l = j THEN i ELSE l
  <2>1. k \in At(q, t) BY <1>1 DEF At
  <2>2. f[k] = l BY <2>1
  <2> QED BY <2>1, <2>2
<1>5. f \in Bijection(At(q, t), At(r, t))
  BY <1>2, <1>3, <1>4 DEF Bijection, Injection, IsInjective, Surjection
<1>6. Cardinality(At(r, t)) = Cardinality(At(q, t))
  BY <1>5, AtFinite, FS_Bijection DEF ExistsBijection
<1>7. HowMany(r, t) = Cardinality(At(r, t)) BY <1>1, AtFinite
<1> QED BY <1>6, <1>7, AtFinite DEF r

\* One more of what is appended.
LEMMA AppendCounts ==
  ASSUME NEW q \in Seq(Nat), NEW x \in Nat, NEW t
  PROVE  HowMany(Append(q, x), t) = HowMany(q, t) + (IF x = t THEN 1 ELSE 0)
<1> DEFINE n == Len(q)
           r == Append(q, x)
<1>1. /\ n \in Nat /\ Len(r) = n + 1 /\ r[n + 1] = x /\ r \in Seq(Nat)
      /\ \A i \in 1..n : r[i] = q[i]
  OBVIOUS
<1> HIDE DEF r
<1>2. n + 1 \notin At(q, t) BY <1>1 DEF At
<1>3. CASE x = t
  <2>1. At(r, t) = At(q, t) \cup {n + 1} BY <1>1, <1>3 DEF At
  <2>2. Cardinality(At(r, t)) = Cardinality(At(q, t)) + 1
    BY <2>1, <1>2, AtFinite, FS_AddElement
  <2> QED BY <1>1, <1>3, <2>2, AtFinite DEF r
<1>4. CASE x # t
  <2>1. At(r, t) = At(q, t) BY <1>1, <1>4 DEF At
  <2>2. HowMany(r, t) = HowMany(q, t) BY <1>1, <2>1, AtFinite
  <2>3. HowMany(q, t) \in Nat BY AtFinite
  <2> QED BY <1>4, <2>2, <2>3 DEF r
<1> QED BY <1>3, <1>4

\* One fewer of what is cut off.
LEMMA CutCounts ==
  ASSUME NEW q \in Seq(Nat), q # <<>>, NEW t
  PROVE  LET r == SubSeq(q, 1, Len(q) - 1)
         IN /\ r \in Seq(Nat) /\ Len(r) = Len(q) - 1 /\ \A i \in 1..Len(r) : r[i] = q[i]
            /\ HowMany(q, t) = HowMany(r, t) + (IF q[Len(q)] = t THEN 1 ELSE 0)
<1> DEFINE n == Len(q)
           r == SubSeq(q, 1, n - 1)
<1>0. n \in Nat \ {0} BY EmptySeq
<1>1. /\ Len(r) = n - 1 /\ r \in Seq(Nat)
      /\ \A i \in 1..(n - 1) : r[i] = q[i]
  <2>1. 1 \in Int /\ n - 1 \in Int /\ \A i \in 1..(n - 1) : q[i] \in Nat BY <1>0
  <2>2. /\ r \in Seq(Nat) /\ Len(r) = (IF 1 <= n - 1 THEN (n - 1) - 1 + 1 ELSE 0)
        /\ \A i \in 1..((n - 1) - 1 + 1) : r[i] = q[1 + i - 1]
    BY <2>1, SubSeqProperties
  <2>3. (n - 1) - 1 + 1 = n - 1 /\ \A i \in 1..(n - 1) : 1 + i - 1 = i BY <1>0
  <2> HIDE DEF r, n
  <2> QED BY <1>0, <2>2, <2>3
<1> HIDE DEF r
<1>2. Append(r, q[n]) = q
  <2>1. /\ q[n] \in Nat /\ Append(r, q[n]) \in Seq(Nat) /\ Len(Append(r, q[n])) = n
        /\ \A i \in 1..n : Append(r, q[n])[i] = q[i]
    BY <1>0, <1>1
  <2> HIDE DEF r
  <2> QED BY <2>1
<1>3. HowMany(Append(r, q[n]), t) = HowMany(r, t) + (IF q[n] = t THEN 1 ELSE 0)
  BY <1>0, <1>1, AppendCounts
<1> QED BY <1>0, <1>1, <1>2, <1>3 DEF r

-----------------------------------------------------------------------------
(* The order of the heap.                                                  *)

\* In order but for place j, below which all is in order with what is above it.
OrderedButAt(q, j, n) ==
  /\ \A k \in 2..n : k # j => q[k] <= q[k \div 2]
  /\ \A k \in 2..n : k \div 2 = j /\ j > 1 => q[k] <= q[j \div 2]

\* In order but for what is right below place i.
OrderedButBelow(q, i, n) ==
  /\ \A k \in 2..n : k \div 2 # i => q[k] <= q[k \div 2]
  /\ \A k \in 2..n : k \div 2 = i /\ i > 1 => q[k] <= q[i \div 2]

\* r is q with its tasks in other places.
Rearranged(r, q) ==
  /\ r \in Seq(Nat) /\ Len(r) = Len(q)
  /\ \A t \in Nat : HowMany(r, t) = HowMany(q, t)

\* A step of up.
LEMMA UpStep ==
  ASSUME NEW q \in Seq(Nat), NEW j \in 2..Len(q), OrderedButAt(q, j, Len(q)), q[j] > q[j \div 2]
  PROVE  /\ j \div 2 \in 1..Len(q) /\ j \div 2 < j
         /\ Rearranged(Swap(q, j \div 2, j), q)
         /\ OrderedButAt(Swap(q, j \div 2, j), j \div 2, Len(q))
<1> DEFINE n == Len(q)
           p == j \div 2
           r == Swap(q, p, j)
<1>1. p \in 1..n /\ p < j /\ j \in 1..n BY Parent
<1>2. /\ r \in Seq(Nat) /\ Len(r) = n /\ r[p] = q[j] /\ r[j] = q[p]
      /\ \A k \in 1..n : k # p /\ k # j => r[k] = q[k]
  BY <1>1, SwapFacts
<1>3. Rearranged(r, q) BY <1>1, <1>2, SwapKeeps DEF Rearranged
<1>4. \A k \in 1..n : q[k] \in Nat OBVIOUS
<1>5. \A k \in 2..n : k \div 2 \in 1..n /\ k \div 2 < k BY Parent
<1>6. \A k \in 2..n : k # j => q[k] <= q[k \div 2] BY DEF OrderedButAt
<1>7. \A k \in 2..n : k \div 2 = j => q[k] <= q[p] BY DEF OrderedButAt
<1>8. q[j] > q[p] OBVIOUS
<1> HIDE DEF r
<1>9. ASSUME NEW k \in 2..n, k # p PROVE r[k] <= r[k \div 2]
  <2>1. CASE k = j
    <3>1. r[k] = q[p] /\ r[k \div 2] = q[j] BY <2>1, <1>1, <1>2
    <3>2. q[p] \in Nat /\ q[j] \in Nat BY <1>1, <1>4
    <3> QED BY <3>1, <3>2, <1>8
  <2>2. CASE k # j /\ k \div 2 = p
    <3>1. q[k] <= q[p] BY <2>2, <1>6
    <3>2. r[k] = q[k] /\ r[k \div 2] = q[j] BY <2>2, <1>2, <1>9
    <3> QED BY <3>1, <3>2, <1>1, <1>4, <1>8
  <2>3. CASE k # j /\ k \div 2 = j
    <3>1. q[k] <= q[p] BY <2>3, <1>7
    <3>2. r[k] = q[k] /\ r[k \div 2] = q[p] BY <2>3, <1>2, <1>9
    <3> QED BY <3>1, <3>2
  <2>4. CASE k # j /\ k \div 2 # p /\ k \div 2 # j
    <3>1. q[k] <= q[k \div 2] BY <2>4, <1>6
    <3>2. k \in 1..n /\ k \div 2 \in 1..n BY <1>5
    <3>3. r[k] = q[k] BY <2>4, <3>2, <1>2, <1>9
    <3>4. r[k \div 2] = q[k \div 2] BY <2>4, <3>2, <1>2
    <3> QED BY <3>1, <3>3, <3>4
  <2> QED BY <2>1, <2>2, <2>3, <2>4
<1>10. ASSUME NEW k \in 2..n, k \div 2 = p, p > 1 PROVE r[k] <= r[p \div 2]
  <2>1. p \div 2 \in 1..n /\ p \div 2 < p BY <1>1, <1>5, <1>10
  <2>2. r[p \div 2] = q[p \div 2] BY <2>1, <1>1, <1>2
  <2>3. p \in 2..n /\ p # j BY <1>1, <1>10
  <2>4. q[p] <= q[p \div 2] BY <2>3, <1>6
  <2>5. CASE k = j BY <2>2, <2>4, <2>5, <1>2
  <2>6. CASE k # j
    <3>1. k # p BY <1>5, <1>10
    <3>2. r[k] = q[k] BY <2>6, <3>1, <1>2
    <3>3. q[k] <= q[p] BY <2>6, <1>6, <1>10
    <3> QED BY <3>2, <3>3, <2>1, <2>2, <2>4, <1>1, <1>4
  <2> QED BY <2>5, <2>6
<1>11. OrderedButAt(r, p, n) BY <1>9, <1>10 DEF OrderedButAt
<1> QED BY <1>1, <1>3, <1>11 DEF r

\* up puts the queue in order when only its last place was out of it, and keeps
\* its tasks.
LEMMA UpOrders ==
  ASSUME NEW n \in Nat, NEW q \in Seq(Nat), Len(q) = n, NEW j \in 1..n, OrderedButAt(q, j, n)
  PROVE  Rearranged(Up(n)[j][q], q) /\ Ordered(Up(n)[j][q], n)
<1> DEFINE Fine(k) == \A r \in Seq(Nat) : Len(r) = n /\ OrderedButAt(r, k, n) =>
                        Rearranged(Up(n)[k][r], r) /\ Ordered(Up(n)[k][r], n)
           Bad == {k \in 1..n : ~Fine(k)}
<1>1. ASSUME Bad # {} PROVE FALSE
  <2>1. PICK k \in Bad : \A l \in Bad : k <= l
    <3>1. Bad \subseteq Nat OBVIOUS
    <3> HIDE DEF Bad
    <3> QED BY <1>1, <3>1, LeastNumber
  <2>2. k \in 1..n /\ ~Fine(k) OBVIOUS
  <2>3. PICK r \in Seq(Nat) : /\ Len(r) = n /\ OrderedButAt(r, k, n)
                              /\ ~(Rearranged(Up(n)[k][r], r) /\ Ordered(Up(n)[k][r], n))
    BY <2>2
  <2> HIDE DEF Bad, Fine
  <2>0. k \in Nat /\ k >= 1 /\ k <= n BY <2>2
  <2>4. Up(n)[k][r] = IF k > 1 /\ Less(r, k, k \div 2)
                      THEN Up(n)[k \div 2][Swap(r, k \div 2, k)] ELSE r
    <3>1. Up(n)[k] = UpBody(Up(n), k) BY <2>2, UpIs
    <3> QED BY <2>3, <3>1 DEF UpBody
  <2>5. CASE k > 1 /\ Less(r, k, k \div 2)
    <3> DEFINE s == Swap(r, k \div 2, k)
    <3>1. /\ k \div 2 \in 1..n /\ k \div 2 < k /\ Rearranged(s, r)
          /\ OrderedButAt(s, k \div 2, n)
      <4>1. k \in 2..Len(r) /\ OrderedButAt(r, k, Len(r)) /\ r[k] > r[k \div 2]
        BY <2>0, <2>3, <2>5 DEF Less
      <4> QED BY <2>3, <4>1, UpStep
    <3>2. ~(k <= k \div 2) BY <2>0, <3>1
    <3>3. k \div 2 \notin Bad BY <2>1, <3>2
    <3>4. Fine(k \div 2) BY <3>1, <3>3 DEF Bad
    <3>5. s \in Seq(Nat) /\ Len(s) = n BY <2>3, <3>1 DEF Rearranged
    <3> HIDE DEF s
    <3>6. Rearranged(Up(n)[k \div 2][s], s) /\ Ordered(Up(n)[k \div 2][s], n)
      BY <3>1, <3>4, <3>5 DEF Fine
    <3>7. Rearranged(Up(n)[k \div 2][s], r) BY <3>1, <3>6 DEF Rearranged
    <3> QED BY <2>3, <2>4, <2>5, <3>6, <3>7 DEF s
  <2>6. CASE ~(k > 1 /\ Less(r, k, k \div 2))
    <3>1. Rearranged(r, r) BY DEF Rearranged
    <3>2. Ordered(r, n)
      <4>0. k > 1 => k \div 2 \in 1..n /\ k \in 1..n BY <2>0, Parent
      <4>1. k > 1 => r[k \div 2] \in Nat /\ r[k] \in Nat BY <2>3, <4>0
      <4>2. k > 1 => r[k] <= r[k \div 2] BY <2>6, <4>1 DEF Less
      <4> QED BY <2>0, <2>3, <4>2 DEF OrderedButAt, Ordered
    <3> QED BY <2>3, <2>4, <2>6, <3>1, <3>2
  <2> QED BY <2>5, <2>6
<1>2. Fine(j) BY <1>1
<1> QED BY <1>2

\* The child taken is the less important one.
LEMMA ChildIsTop ==
  ASSUME NEW n \in Nat, NEW q \in Seq(Nat), n <= Len(q), NEW i \in Nat \ {0}, 2 * i <= n,
         NEW k \in 2..n, k \div 2 = i
  PROVE  q[k] <= q[Child(q, i, n)]
<1>1. k = 2 * i \/ k = 2 * i + 1 BY Parent
<1>2. q[2 * i] \in Nat /\ (2 * i + 1 <= n => q[2 * i + 1] \in Nat)
  <2>1. 2 * i \in 1..Len(q) OBVIOUS
  <2>2. 2 * i + 1 <= n => 2 * i + 1 \in 1..Len(q) OBVIOUS
  <2> QED BY <2>1, <2>2
<1>3. CASE 2 * i + 1 <= n /\ Less(q, 2 * i + 1, 2 * i)
  BY <1>1, <1>2, <1>3 DEF Child, Less
<1>4. CASE ~(2 * i + 1 <= n /\ Less(q, 2 * i + 1, 2 * i))
  BY <1>1, <1>2, <1>4 DEF Child, Less
<1> QED BY <1>3, <1>4

\* A step of down.
LEMMA DownStep ==
  ASSUME NEW n \in Nat, NEW q \in Seq(Nat), n <= Len(q), NEW i \in Nat \ {0}, 2 * i <= n,
         q[Child(q, i, n)] > q[i], OrderedButBelow(q, i, n)
  PROVE  LET c == Child(q, i, n)  r == Swap(q, i, c)
         IN /\ c \in Nat \ {0} /\ c > i
            /\ Rearranged(r, q) /\ OrderedButBelow(r, c, n)
            /\ \A k \in 1..Len(q) : k > n => r[k] = q[k]
<1> DEFINE c == Child(q, i, n)
           r == Swap(q, i, c)
<1>1. c \in 1..n /\ c > i /\ c \div 2 = i /\ i \in 1..n BY Children
<1>2. /\ r \in Seq(Nat) /\ Len(r) = Len(q) /\ r[i] = q[c] /\ r[c] = q[i]
      /\ \A k \in 1..Len(q) : k # i /\ k # c => r[k] = q[k]
  <2>1. i \in 1..Len(q) /\ c \in 1..Len(q) BY <1>1
  <2> HIDE DEF c
  <2> QED BY <2>1, SwapFacts
<1>3. Rearranged(r, q)
  <2>1. i \in 1..Len(q) /\ c \in 1..Len(q) BY <1>1
  <2> HIDE DEF c
  <2> QED BY <2>1, <1>2, SwapKeeps DEF Rearranged
<1>4. \A k \in 1..n : q[k] \in Nat /\ k \in 1..Len(q) OBVIOUS
<1>5. \A k \in 2..n : k \div 2 \in 1..n /\ k \div 2 < k /\ k \in 1..n BY Parent
<1>6. \A k \in 2..n : k \div 2 # i => q[k] <= q[k \div 2] BY DEF OrderedButBelow
<1>7. \A k \in 2..n : k \div 2 = i /\ i > 1 => q[k] <= q[i \div 2] BY DEF OrderedButBelow
<1>8. \A k \in 2..n : k \div 2 = i => q[k] <= q[c] BY ChildIsTop
<1>9. q[c] > q[i] OBVIOUS
<1> HIDE DEF r, c
<1>10. ASSUME NEW k \in 2..n, k \div 2 # c PROVE r[k] <= r[k \div 2]
  <2>1. CASE k = c
    <3>1. r[k] = q[i] /\ r[k \div 2] = q[c] BY <2>1, <1>1, <1>2
    <3>2. q[i] \in Nat /\ q[c] \in Nat BY <1>1, <1>4
    <3> QED BY <3>1, <3>2, <1>9
  <2>2. CASE k # c /\ k \div 2 = i
    <3>1. k # i BY <2>2, <1>5
    <3>2. r[k] = q[k] BY <2>2, <3>1, <1>2, <1>4, <1>5
    <3> QED BY <2>2, <3>2, <1>2, <1>8
  <2>3. CASE k # c /\ k = i
    <3>1. i > 1 /\ c \in 2..n BY <2>3, <1>1
    <3>2. q[c] <= q[i \div 2] BY <3>1, <1>1, <1>7
    <3>3. i \div 2 \in 1..n /\ i \div 2 # i BY <2>3, <1>5
    <3>4. r[i \div 2] = q[i \div 2] BY <2>3, <3>3, <1>2, <1>4, <1>10
    <3> QED BY <2>3, <3>2, <3>4, <1>2
  <2>4. CASE k # c /\ k # i /\ k \div 2 # i
    <3>1. r[k] = q[k] /\ r[k \div 2] = q[k \div 2] BY <2>4, <1>2, <1>4, <1>5, <1>10
    <3> QED BY <2>4, <3>1, <1>6
  <2> QED BY <2>1, <2>2, <2>3, <2>4
<1>11. ASSUME NEW k \in 2..n, k \div 2 = c PROVE r[k] <= r[c \div 2]
  <2>1. k # c /\ k # i BY <1>1, <1>5, <1>11
  <2>2. r[k] = q[k] BY <2>1, <1>2, <1>4, <1>5
  <2>3. k \div 2 # i BY <1>1, <1>11
  <2>4. q[k] <= q[c] BY <2>3, <1>6, <1>11
  <2> QED BY <2>2, <2>4, <1>1, <1>2
<1>12. OrderedButBelow(r, c, n) BY <1>10, <1>11 DEF OrderedButBelow
<1>13. \A k \in 1..Len(q) : k > n => r[k] = q[k] BY <1>1, <1>2
<1> QED BY <1>1, <1>3, <1>12, <1>13 DEF c, r

\* down puts the first n in order when only what is right below place i was out of
\* it, and touches no other place.
LEMMA DownOrders ==
  ASSUME NEW n \in Nat, NEW q \in Seq(Nat), n <= Len(q), NEW i \in Nat \ {0},
         OrderedButBelow(q, i, n)
  PROVE  /\ Rearranged(Down(n)[i][q], q) /\ Ordered(Down(n)[i][q], n)
         /\ \A k \in 1..Len(q) : k > n => Down(n)[i][q][k] = q[k]
<1> DEFINE Good(d, r) == /\ Rearranged(d, r) /\ Ordered(d, n)
                         /\ \A k \in 1..Len(r) : k > n => d[k] = r[k]
           Fine(m) == \A j \in Nat \ {0} : \A r \in Seq(Nat) :
                        j + m >= n /\ n <= Len(r) /\ OrderedButBelow(r, j, n)
                          => Good(Down(n)[j][r], r)
           Bad == {m \in Nat : ~Fine(m)}
<1>1. ASSUME Bad # {} PROVE FALSE
  <2>1. PICK m \in Bad : \A l \in Bad : m <= l
    <3>1. Bad \subseteq Nat OBVIOUS
    <3> HIDE DEF Bad
    <3> QED BY <1>1, <3>1, LeastNumber
  <2>2. m \in Nat /\ ~Fine(m) OBVIOUS
  <2> HIDE DEF Good
  <2>3. PICK j \in Nat \ {0}, r \in Seq(Nat) :
          /\ j + m >= n /\ n <= Len(r) /\ OrderedButBelow(r, j, n)
          /\ ~Good(Down(n)[j][r], r)
    BY <2>2
  <2> DEFINE c == Child(r, j, n)
             s == Swap(r, j, c)
  <2> HIDE DEF Bad, Fine
  <2>4. Down(n)[j][r] = IF 2 * j <= n /\ Less(r, c, j) THEN Down(n)[c][s] ELSE r
    <3>1. Down(n)[j] = DownBody(Down(n), n, j) BY DownIs
    <3> QED BY <2>3, <3>1 DEF DownBody
  <2>5. CASE 2 * j <= n /\ Less(r, c, j)
    <3>1. /\ c \in Nat \ {0} /\ c > j /\ Rearranged(s, r) /\ OrderedButBelow(s, c, n)
          /\ \A k \in 1..Len(r) : k > n => s[k] = r[k]
      BY <2>3, <2>5, DownStep DEF Less
    <3> HIDE DEF s, c
    <3>2. m # 0 BY <2>2, <2>3, <2>5
    <3>3. m - 1 \in Nat /\ ~(m <= m - 1) /\ c + (m - 1) >= n BY <2>2, <2>3, <3>1, <3>2
    <3>4. Fine(m - 1) BY <2>1, <3>3 DEF Bad
    <3>5. s \in Seq(Nat) /\ Len(s) = Len(r) BY <3>1 DEF Rearranged
    <3>6. Good(Down(n)[c][s], s) BY <2>3, <3>1, <3>3, <3>4, <3>5 DEF Fine
    <3>7. Good(Down(n)[c][s], r) BY <3>1, <3>5, <3>6 DEF Good, Rearranged
    <3> QED BY <2>3, <2>4, <2>5, <3>7
  <2>6. CASE ~(2 * j <= n /\ Less(r, c, j))
    <3>1. Rearranged(r, r) BY DEF Rearranged
    <3>2. ASSUME NEW k \in 2..n PROVE r[k] <= r[k \div 2]
      <4>1. CASE k \div 2 # j BY <2>3, <3>2, <4>1 DEF OrderedButBelow
      <4>2. CASE k \div 2 = j
        <5>1. 2 * j <= n BY <4>2, Parent
        <5>2. c \in 1..n /\ j \in 1..n BY <5>1, <2>3, Children
        <5>3. r[k] <= r[c] BY <5>1, <4>2, <2>3, ChildIsTop
        <5>4. r[c] \in Nat /\ r[j] \in Nat /\ r[k] \in Nat
          <6> HIDE DEF c
          <6>1. c \in 1..Len(r) /\ j \in 1..Len(r) /\ k \in 1..Len(r) BY <5>2, <2>3
          <6> QED BY <6>1
        <5>5. ~(r[c] > r[j]) BY <5>1, <2>6 DEF Less
        <5> HIDE DEF c
        <5> QED BY <5>3, <5>4, <5>5, <4>2
      <4> QED BY <4>1, <4>2
    <3> QED BY <2>3, <2>4, <2>6, <3>1, <3>2 DEF Good, Ordered
  <2> QED BY <2>5, <2>6
<1>2. Fine(n) BY <1>1
<1>3. i + n >= n OBVIOUS
<1> QED BY <1>2, <1>3

\* The least important task is on top.
LEMMA TopIsLast ==
  ASSUME NEW n \in Nat, NEW q \in Seq(Nat), Len(q) = n, Ordered(q, n)
  PROVE  \A k \in 1..n : q[k] <= q[1]
<1> DEFINE Bad == {k \in 1..n : ~(q[k] <= q[1])}
<1> SUFFICES ASSUME Bad # {} PROVE FALSE OBVIOUS
<1>1. PICK k \in Bad : \A l \in Bad : k <= l
  <2>1. Bad \subseteq Nat OBVIOUS
  <2> HIDE DEF Bad
  <2> QED BY <2>1, LeastNumber
<1>2. \A l \in 1..n : q[l] \in Nat OBVIOUS
<1>3. k \in 1..n /\ ~(q[k] <= q[1]) OBVIOUS
<1>4. k # 1 BY <1>2, <1>3
<1>5. k \div 2 \in 1..n /\ ~(k <= k \div 2) /\ k \in 2..n BY <1>3, <1>4, Parent
<1>6. k \div 2 \notin Bad
  <2> HIDE DEF Bad
  <2> QED BY <1>1, <1>5
<1>7. q[k \div 2] <= q[1] BY <1>5, <1>6
<1>8. q[k] <= q[k \div 2] BY <1>5 DEF Ordered
<1>9. 1 \in 1..n BY <1>3
<1>10. q[k] \in Nat /\ q[k \div 2] \in Nat /\ q[1] \in Nat BY <1>2, <1>3, <1>5, <1>9
<1> QED BY <1>3, <1>7, <1>8, <1>10

-----------------------------------------------------------------------------
(* heap.Push, heap.Pop and Evict.                                          *)

\* Push adds a task, and the queue stays a heap.
LEMMA PushFacts ==
  ASSUME NEW q, IsHeap(q), NEW x \in Nat
  PROVE  /\ IsHeap(HeapPush(q, x))
         /\ \A t \in Nat : HowMany(HeapPush(q, x), t) = HowMany(q, t) + (IF x = t THEN 1 ELSE 0)
<1> DEFINE n == Len(q) + 1
           r == Append(q, x)
<1>1. /\ q \in Seq(Nat) /\ Len(q) \in Nat /\ n \in Nat \ {0} /\ r \in Seq(Nat) /\ Len(r) = n
      /\ \A k \in 1..Len(q) : r[k] = q[k]
  BY DEF IsHeap
<1> HIDE DEF r
<1>2. OrderedButAt(r, n, n)
  <2>1. ASSUME NEW k \in 2..n, k # n PROVE r[k] <= r[k \div 2]
    <3>1. k \in 2..Len(q) BY <2>1, <1>1
    <3>2. k \div 2 \in 1..Len(q) /\ k \in 1..Len(q) BY <3>1, Parent
    <3> QED BY <3>1, <3>2, <1>1 DEF IsHeap, Ordered
  <2>2. ASSUME NEW k \in 2..n PROVE k \div 2 # n BY <1>1, Parent
  <2> QED BY <2>1, <2>2 DEF OrderedButAt
<1>3. HeapPush(q, x) = Up(n)[n][r] BY DEF HeapPush, r
<1>4. Rearranged(HeapPush(q, x), r) /\ Ordered(HeapPush(q, x), n)
  BY <1>1, <1>2, <1>3, UpOrders
<1>5. \A t \in Nat : HowMany(r, t) = HowMany(q, t) + (IF x = t THEN 1 ELSE 0)
  BY <1>1, AppendCounts DEF r
<1> QED BY <1>1, <1>4, <1>5 DEF IsHeap, Rearranged

\* Pop takes the task on top, and the rest is a heap.
LEMMA PopFacts ==
  ASSUME NEW q, IsHeap(q), q # <<>>
  PROVE  /\ HeapPop(q).task = q[1] /\ IsHeap(HeapPop(q).rest)
         /\ \A t \in Nat : HowMany(q, t) = HowMany(HeapPop(q).rest, t) + (IF q[1] = t THEN 1 ELSE 0)
<1> DEFINE n == Len(q)
           s == Swap(q, 1, n)
           d == Down(n - 1)[1][s]
           r == SubSeq(d, 1, n - 1)
<1>1. q \in Seq(Nat) /\ n \in Nat \ {0} /\ 1 \in 1..n /\ n \in 1..n BY EmptySeq DEF IsHeap
<1>2. /\ s \in Seq(Nat) /\ Len(s) = n /\ s[n] = q[1]
      /\ \A k \in 1..n : k # 1 /\ k # n => s[k] = q[k]
  BY <1>1, SwapFacts
<1>3. \A t \in Nat : HowMany(s, t) = HowMany(q, t) BY <1>1, SwapKeeps
<1> HIDE DEF s
<1>4. OrderedButBelow(s, 1, n - 1)
  <2>1. ASSUME NEW k \in 2..(n - 1), k \div 2 # 1 PROVE s[k] <= s[k \div 2]
    <3>1. k \div 2 \in 1..n /\ k \div 2 # n /\ k \in 2..n /\ k # n BY <1>1, Parent
    <3>2. s[k] = q[k] /\ s[k \div 2] = q[k \div 2] BY <2>1, <3>1, <1>2
    <3> QED BY <3>1, <3>2 DEF IsHeap, Ordered
  <2> QED BY <2>1 DEF OrderedButBelow
<1>5. /\ Rearranged(d, s) /\ Ordered(d, n - 1)
      /\ \A k \in 1..Len(s) : k > n - 1 => d[k] = s[k]
  <2>1. n - 1 \in Nat /\ n - 1 <= Len(s) BY <1>1, <1>2
  <2> QED BY <2>1, <1>2, <1>4, DownOrders
<1>6. HeapPop(q).task = d[n] /\ HeapPop(q).rest = r BY DEF HeapPop, s
<1> HIDE DEF d
<1>7. d \in Seq(Nat) /\ Len(d) = n /\ d # <<>> /\ d[n] = q[1]
  BY <1>1, <1>2, <1>5 DEF Rearranged
<1>8. /\ r \in Seq(Nat) /\ Len(r) = n - 1 /\ \A k \in 1..(n - 1) : r[k] = d[k]
      /\ \A t : HowMany(d, t) = HowMany(r, t) + (IF d[n] = t THEN 1 ELSE 0)
  BY <1>7, CutCounts
<1> HIDE DEF r
<1>9. ASSUME NEW k \in 2..(n - 1) PROVE r[k] <= r[k \div 2]
  <2>1. k \div 2 \in 1..(n - 1) /\ k \in 1..(n - 1) BY <1>1, Parent
  <2> QED BY <2>1, <1>5, <1>8 DEF Ordered
<1>10. IsHeap(r) BY <1>8, <1>9 DEF IsHeap, Ordered
<1>11. \A t \in Nat : HowMany(d, t) = HowMany(q, t) BY <1>3, <1>5 DEF Rearranged
<1> QED BY <1>6, <1>7, <1>8, <1>10, <1>11

\* Evict takes the least important task away, unless that one is P0.
LEMMA EvictFacts ==
  ASSUME NEW q, IsHeap(q)
  PROVE  /\ IsHeap(AfterEvict(q))
         /\ q = <<>> => AfterEvict(q) = q
         /\ q # <<>> => \A t \in Nat :
              HowMany(AfterEvict(q), t) =
                HowMany(q, t) - (IF q[1] = t /\ q[1] # P0Production THEN 1 ELSE 0)
<1>1. CASE q = <<>> BY <1>1 DEF AfterEvict
<1>2. CASE q # <<>>
  <2> DEFINE p == HeapPop(q)
  <2>1. /\ p.task = q[1] /\ IsHeap(p.rest)
        /\ \A t \in Nat : HowMany(q, t) = HowMany(p.rest, t) + (IF q[1] = t THEN 1 ELSE 0)
    BY <1>2, PopFacts
  <2>2. AfterEvict(q) = IF p.task = P0Production THEN HeapPush(p.rest, p.task) ELSE p.rest
    BY <1>2 DEF AfterEvict
  <2> HIDE DEF p
  <2>3. \A t \in Nat : HowMany(p.rest, t) \in Nat BY <2>1, AtFinite DEF IsHeap
  <2>4. CASE q[1] = P0Production
    <3>1. AfterEvict(q) = HeapPush(p.rest, 0) BY <2>1, <2>2, <2>4 DEF P0Production
    <3>2. /\ IsHeap(HeapPush(p.rest, 0))
          /\ \A t \in Nat : HowMany(HeapPush(p.rest, 0), t) = HowMany(p.rest, t) + (IF 0 = t THEN 1 ELSE 0)
      BY <2>1, PushFacts
    <3> QED BY <1>2, <2>1, <2>3, <2>4, <3>1, <3>2 DEF P0Production
  <2>5. CASE q[1] # P0Production
    BY <1>2, <2>1, <2>2, <2>3, <2>5
  <2> QED BY <2>4, <2>5
<1> QED BY <1>1, <1>2

-----------------------------------------------------------------------------
(* The invariant.                                                          *)

\* The registry starts empty and no call is under way.
LEMMA InitInv == Init => Inv
<1> SUFFICES ASSUME Init PROVE Inv OBVIOUS
<1>1. RegistryInv /\ CallInv /\ OutcomeInv
  BY DEF Init, RegistryInv, CallInv, OutcomeInv, Placed, Failed
<1>2. HeapInv
  <2>1. taskQueue = <<>> /\ <<>> \in Seq(Nat) /\ Len(<<>>) = 0 BY DEF Init
  <2> QED BY <2>1 DEF HeapInv, IsHeap, Ordered
<1> QED BY <1>1, <1>2 DEF Inv

\* A node that loses its flag is a node still.
LEMMA FlaggedIsNode ==
  ASSUME NEW g, IsNode(g)
  PROVE  IsNode([g EXCEPT !.healthy = FALSE])
<1> DEFINE h == [g EXCEPT !.healthy = FALSE]
<1>1. DOMAIN h = NodeFields /\ h.healthy = FALSE BY DEF IsNode, NodeFields
<1>2. h.mig = g.mig /\ h.slices = g.slices /\ h.total = g.total /\ h.used = g.used
  BY DEF IsNode, NodeFields
<1> HIDE DEF h
<1>3. IsNode(h) BY <1>1, <1>2 DEF IsNode, IsReport
<1> QED BY <1>3 DEF h

\* A heartbeat replaces a node whole and MarkUnhealthy clears its flag: the
\* registry keeps nodes (node_registry.go:178-213).
LEMMA RegistryStep ==
  ASSUME PackerAssumption, Inv, [Next]_vars
  PROVE  RegistryInv'
<1>0. RegistryInv BY DEF Inv
<1>1. ASSUME NEW n \in Nodes, Heartbeat(n) PROVE RegistryInv'
  <2>1. PICK rep \in Reports : registry' = Upserted(registry, n, rep) BY <1>1 DEF Heartbeat
  <2> DEFINE g == [mig |-> rep.mig, slices |-> rep.slices, total |-> rep.total,
                   used |-> rep.used, weights |-> rep.weights, healthy |-> TRUE]
  <2>2. IsReport(rep) BY DEF PackerAssumption
  <2>3. g.healthy \in BOOLEAN /\ DOMAIN g = NodeFields BY DEF NodeFields
  <2>4. IsReport(g) BY <2>2 DEF IsReport
  <2>5. IsNode(g) BY <2>3, <2>4 DEF IsNode
  <2>6. registry' = [registry EXCEPT ![n] = g] BY <2>1 DEF Upserted
  <2> HIDE DEF g
  <2> QED BY <1>0, <2>5, <2>6 DEF RegistryInv
<1>2. ASSUME NEW n \in Nodes, MarkDead(n) PROVE RegistryInv'
  <2> DEFINE g == [registry[n] EXCEPT !.healthy = FALSE]
  <2>1. IsNode(g)
    BY <1>0, <1>2, FlaggedIsNode DEF MarkDead, HealthyNodes, RegistryInv
  <2>2. registry' = [registry EXCEPT ![n] = g] BY <1>2 DEF MarkDead, MarkedUnhealthy
  <2> HIDE DEF g
  <2> QED BY <1>0, <2>1, <2>2 DEF RegistryInv
<1>3. CASE UNCHANGED registry BY <1>0, <1>3 DEF RegistryInv
<1> QED BY <1>1, <1>2, <1>3
        DEF Next, vars, Snapshot, Decide, Fail, Return, Enqueue, Evict

\* While a call is to decide, a heartbeat takes the node out of what the call
\* shares, and a death clears the flag on both sides (node_registry.go:197-213).
LEMMA SharedStep ==
  ASSUME Inv, NEW n \in Nodes, Heartbeat(n) \/ MarkDead(n), InSnapshot(n)
  PROVE  /\ call # Idle /\ ~call.done /\ "answer" \notin DOMAIN call
         /\ DOMAIN call' = DOMAIN call
         /\ call'.req = call.req /\ call'.done = call.done
         /\ IsSnapshot(call'.snap)
         /\ call'.shared \subseteq DOMAIN call'.snap
         /\ \A k \in call'.shared : call'.snap[k] = registry'[k]
<1>1. /\ call # Idle /\ n \in call.shared
      /\ {"req", "snap", "shared", "done"} \subseteq DOMAIN call
      /\ IsSnapshot(call.snap) /\ call.shared \subseteq DOMAIN call.snap
      /\ \A k \in call.shared : call.snap[k] = registry[k]
      /\ ~call.done /\ "answer" \notin DOMAIN call
  BY DEF InSnapshot, Inv, CallInv
<1>2. DOMAIN registry = Nodes /\ call.shared \subseteq Nodes
  BY <1>1 DEF Inv, RegistryInv, IsSnapshot
<1>3. CASE Heartbeat(n)
  <2>1. call' = [call EXCEPT !.shared = call.shared \ {n}] BY <1>3 DEF Heartbeat
  <2>2. /\ DOMAIN call' = DOMAIN call /\ call'.shared = call.shared \ {n}
        /\ call'.req = call.req /\ call'.done = call.done /\ call'.snap = call.snap
    BY <1>1, <2>1
  <2>3. \A k \in Nodes : k # n => registry'[k] = registry[k]
    BY <1>2, <1>3 DEF Heartbeat, Upserted
  <2> QED BY <1>1, <1>2, <2>2, <2>3
<1>4. CASE MarkDead(n)
  <2> DEFINE after == MarkedUnhealthy(call.snap, n)
  <2>1. call' = [call EXCEPT !.snap = after] BY <1>4 DEF MarkDead
  <2>2. /\ DOMAIN after = DOMAIN call.snap
        /\ after[n] = [call.snap[n] EXCEPT !.healthy = FALSE]
        /\ \A k \in DOMAIN call.snap : k # n => after[k] = call.snap[k]
    BY <1>1 DEF MarkedUnhealthy
  <2>3. /\ registry'[n] = [registry[n] EXCEPT !.healthy = FALSE]
        /\ \A k \in Nodes : k # n => registry'[k] = registry[k]
    BY <1>2, <1>4 DEF MarkDead, MarkedUnhealthy
  <2>4. IsNode(after[n]) BY <1>1, <2>2, FlaggedIsNode DEF IsSnapshot
  <2> HIDE DEF after
  <2>5. /\ DOMAIN call' = DOMAIN call /\ call'.snap = after
        /\ call'.req = call.req /\ call'.done = call.done /\ call'.shared = call.shared
    BY <1>1, <2>1
  <2>6. IsSnapshot(after) BY <1>1, <2>2, <2>4 DEF IsSnapshot
  <2>7. \A k \in call.shared : after[k] = registry'[k] BY <1>1, <1>2, <2>2, <2>3
  <2> QED BY <1>1, <2>2, <2>5, <2>6, <2>7
<1> QED BY <1>3, <1>4

\* What a call shares with the registry stays the registry's own, and what it does
\* not share stays as it was.
LEMMA CallStep ==
  ASSUME PackerAssumption, Inv, [Next]_vars
  PROVE  CallInv'
<1>1. ASSUME NEW r \in Requests, Snapshot(r) PROVE CallInv'
  <2>1. /\ call' = [req |-> r, snap |-> All(registry), shared |-> HealthyNodes(registry),
                    done |-> FALSE]
        /\ registry' = registry
    BY <1>1 DEF Snapshot
  <2>2. DOMAIN All(registry) = HealthyNodes(registry) BY DEF All
  <2>3. HealthyNodes(registry) \subseteq Nodes BY DEF HealthyNodes
  <2>4. ASSUME NEW n \in HealthyNodes(registry)
        PROVE  IsNode(All(registry)[n]) /\ All(registry)[n] = registry[n]
    <3>1. All(registry)[n] = registry[n] BY DEF All
    <3>2. n \in Nodes /\ registry[n] # Absent BY DEF HealthyNodes
    <3> QED BY <3>1, <3>2 DEF Inv, RegistryInv
  <2>5. IsSnapshot(All(registry)) BY <2>2, <2>3, <2>4 DEF IsSnapshot
  <2> QED BY <2>1, <2>2, <2>4, <2>5 DEF CallInv
<1>2. CASE Decide
  <2>1. PICK c \in Picks(call.snap, call.req) :
          call' = [req |-> call.req, snap |-> call.snap, shared |-> {}, done |-> TRUE,
                   answer |-> Decision(call.snap, c)]
    BY <1>2 DEF Decide
  <2>2. call # Idle BY <1>2 DEF Decide
  <2> QED BY <2>1, <2>2 DEF Inv, CallInv
<1>3. CASE Fail
  <2>1. call # Idle /\ call' = [call EXCEPT !.done = TRUE, !.shared = {}] BY <1>3 DEF Fail
  <2>2. {"req", "snap", "shared", "done"} \subseteq DOMAIN call BY <2>1 DEF Inv, CallInv
  <2>3. /\ DOMAIN call' = DOMAIN call /\ call'.shared = {}
        /\ call'.req = call.req /\ call'.snap = call.snap
    BY <2>1, <2>2
  <2> QED BY <2>1, <2>2, <2>3 DEF Inv, CallInv
<1>4. CASE Return BY <1>4 DEF Return, CallInv
<1>5. CASE UNCHANGED <<registry, call>> BY <1>5 DEF Inv, CallInv
<1>6. ASSUME NEW n \in Nodes, Heartbeat(n) \/ MarkDead(n) PROVE CallInv'
  <2>1. CASE InSnapshot(n)
    <3>1. {"req", "snap", "shared", "done"} \subseteq DOMAIN call /\ call.req \in Requests
      BY <1>6, <2>1, SharedStep DEF Inv, CallInv
    <3> QED BY <1>6, <2>1, <3>1, SharedStep DEF CallInv
  <2>2. CASE ~InSnapshot(n)
    <3>1. call' = call BY <1>6, <2>2 DEF Heartbeat, MarkDead
    <3>2. call # Idle => n \notin call.shared BY <2>2 DEF InSnapshot
    <3>3. \A k \in Nodes : k # n => registry'[k] = registry[k]
      BY <1>6 DEF Heartbeat, MarkDead, Upserted, MarkedUnhealthy, Inv, RegistryInv
    <3>4. call # Idle => call.shared \subseteq Nodes BY DEF Inv, CallInv, IsSnapshot
    <3> QED BY <3>1, <3>2, <3>3, <3>4 DEF Inv, CallInv
  <2> QED BY <2>1, <2>2
<1> QED BY <1>1, <1>2, <1>3, <1>4, <1>5, <1>6
        DEF Next, vars, Enqueue, Evict

\* Schedule answers with one of the choices of its snapshot, and fails only
\* when it has none (bin_packer.go:119-190).
LEMMA OutcomeStep ==
  ASSUME PackerAssumption, Inv, [Next]_vars
  PROVE  OutcomeInv'
<1>1. ASSUME NEW r \in Requests, Snapshot(r) PROVE OutcomeInv'
  BY <1>1 DEF Snapshot, OutcomeInv, Placed, Failed
<1>2. CASE Decide
  <2>1. PICK c \in Picks(call.snap, call.req) :
          call' = [req |-> call.req, snap |-> call.snap, shared |-> {}, done |-> TRUE,
                   answer |-> Decision(call.snap, c)]
    BY <1>2 DEF Decide
  <2>2. /\ "answer" \in DOMAIN call' /\ call'.answer = Decision(call.snap, c)
        /\ call'.snap = call.snap /\ call'.req = call.req
    BY <2>1
  <2> QED BY <2>2 DEF OutcomeInv, Placed, Failed
<1>3. CASE Fail
  <2>0. /\ call # Idle /\ {"req", "snap", "shared", "done"} \subseteq DOMAIN call
        /\ call' = [call EXCEPT !.done = TRUE, !.shared = {}]
        /\ Picks(call.snap, call.req) = {}
    BY <1>3 DEF Fail, Inv, CallInv
  <2>1. /\ DOMAIN call' = DOMAIN call
        /\ call'.snap = call.snap /\ call'.req = call.req
    BY <2>0
  <2>2. "answer" \in DOMAIN call => call'.answer = call.answer BY <2>0
  <2> QED BY <2>0, <2>1, <2>2 DEF Inv, OutcomeInv, Placed, Failed
<1>4. CASE Return BY <1>4 DEF Return, OutcomeInv, Placed, Failed
<1>5. CASE UNCHANGED call BY <1>5 DEF Inv, OutcomeInv, Placed, Failed
<1>6. ASSUME NEW n \in Nodes, Heartbeat(n) \/ MarkDead(n) PROVE OutcomeInv'
  <2>1. CASE InSnapshot(n)
    <3>1. /\ ~call.done /\ "answer" \notin DOMAIN call
          /\ DOMAIN call' = DOMAIN call /\ call'.done = call.done
      BY <1>6, <2>1, SharedStep
    <3> QED BY <3>1 DEF OutcomeInv, Placed, Failed
  <2>2. CASE ~InSnapshot(n)
    <3>1. call' = call BY <1>6, <2>2 DEF Heartbeat, MarkDead
    <3> QED BY <1>5, <3>1
  <2> QED BY <2>1, <2>2
<1> QED BY <1>1, <1>2, <1>3, <1>4, <1>5, <1>6
        DEF Next, vars, Enqueue, Evict

\* Tasks join the queue and leave it through the heap (bin_packer.go:247-293).
LEMMA HeapStep ==
  ASSUME PackerAssumption, Inv, [Next]_vars
  PROVE  HeapInv'
<1>1. ASSUME NEW t \in Priorities, Enqueue(t) PROVE HeapInv'
  <2>1. t \in Nat /\ taskQueue' = HeapPush(taskQueue, t)
    BY <1>1 DEF PackerAssumption, Enqueue
  <2> QED BY <2>1, PushFacts DEF Inv, HeapInv
<1>2. CASE Evict BY <1>2, EvictFacts DEF Evict, Inv, HeapInv
<1>3. CASE UNCHANGED taskQueue BY <1>3 DEF Inv, HeapInv
<1> QED BY <1>1, <1>2, <1>3
        DEF Next, vars, Heartbeat, MarkDead, Snapshot, Decide, Fail, Return

\* The invariant holds in every state, with heartbeats and deaths between a call's
\* snapshot and its decision.
THEOREM Invariance == Spec => []Inv
<1>1. Inv /\ [Next]_vars => Inv'
  BY PackerAssumption, RegistryStep, CallStep, OutcomeStep, HeapStep DEF Inv
<1> QED BY InitInv, <1>1, PTL DEF Spec

-----------------------------------------------------------------------------
(* The theorems.                                                           *)

\* What a call looks at is the registry's own node, so that a death is seen in the
\* snapshot, until a heartbeat puts another into the registry
\* (node_registry.go:197-226).
THEOREM Types == Spec => []TypeOK
<1>1. Inv => TypeOK
  <2> SUFFICES ASSUME Inv PROVE TypeOK OBVIOUS
  <2>1. \A n \in Nodes : registry[n] # Absent => registry[n].healthy \in BOOLEAN
    BY DEF Inv, RegistryInv, IsNode
  <2>2. call # Idle => /\ call.req \in Requests /\ DOMAIN call.snap \subseteq Nodes
                      /\ call.shared \subseteq DOMAIN call.snap
                      /\ \A n \in call.shared : call.snap[n] = registry[n]
    BY DEF Inv, CallInv, IsSnapshot
  <2> QED BY <2>1, <2>2 DEF TypeOK
<1> QED BY Invariance, <1>1, PTL

\* What a placed call answers, in terms of the candidate it was made from.
LEMMA PlacedIs ==
  ASSUME Inv, Placed
  PROVE  /\ IsSnapshot(call.snap) /\ call.req \in Requests
         /\ \E c \in Picks(call.snap, call.req) :
              /\ c \in Pool(call.snap, call.req)
              /\ c \in Candidates(call.snap, call.req.need)
              /\ call.answer.node = c[1] /\ KeyOf(call.answer) = c[2]
              /\ c[1] \in DOMAIN call.snap /\ c[2] \in SliceIds(call.snap[c[1]])
              /\ SliceFits(call.snap[c[1]], c[2], call.req.need)
<1>1. call # Idle BY DEF Placed
<1>2. IsSnapshot(call.snap) /\ call.req \in Requests BY <1>1 DEF Inv, CallInv
<1>3. PICK c \in Picks(call.snap, call.req) : call.answer = Decision(call.snap, c)
  BY DEF Inv, OutcomeInv
<1>4. c \in Pool(call.snap, call.req) /\ c \in Candidates(call.snap, call.req.need)
  BY PicksAreCandidates
<1>5. call.answer.node = c[1] /\ KeyOf(call.answer) = c[2]
  BY <1>2, <1>3, <1>4, AnswerIs
<1>6. /\ c[1] \in DOMAIN call.snap /\ c[2] \in SliceIds(call.snap[c[1]])
      /\ SliceFits(call.snap[c[1]], c[2], call.req.need)
  BY <1>4, CandidateFits
<1> QED BY <1>2, <1>4, <1>5, <1>6

\* A node of a snapshot that can host the model gives a candidate.
LEMMA HostIsCandidate ==
  ASSUME NEW snap, IsSnapshot(snap), NEW need \in Int,
         NEW n \in DOMAIN snap, NodeCanHost(snap[n], need)
  PROVE  \E s \in SliceIds(snap[n]) : <<n, s>> \in Candidates(snap, need)
<1>1. PICK s \in SliceIds(snap[n]) : SliceFits(snap[n], s, need)
  BY HostsWhereASliceFits DEF IsSnapshot
<1> QED BY <1>1, CandidateIs

\* A request fails only if no node of the snapshot could host it, by the
\* registry's own account of the node: no capacity is overlooked.
THEOREM NoCapacityOverlooked == Spec => []FailsOnlyWhenNothingFits
<1>1. PackerAssumption /\ Inv => FailsOnlyWhenNothingFits
  <2> SUFFICES ASSUME PackerAssumption, Inv, Failed, NEW n \in DOMAIN call.snap,
                      NodeCanHost(call.snap[n], call.req.need)
               PROVE  FALSE
    BY DEF FailsOnlyWhenNothingFits
  <2>1. call # Idle BY DEF Failed
  <2>2. IsSnapshot(call.snap) /\ call.req \in Requests BY <2>1 DEF Inv, CallInv
  <2>3. call.req.need \in Int BY <2>2 DEF PackerAssumption
  <2>4. Candidates(call.snap, call.req.need) # {} BY <2>2, <2>3, HostIsCandidate
  <2>5. Picks(call.snap, call.req) # {} BY <2>2, <2>3, <2>4, SomethingIsPicked
  <2> QED BY <2>5 DEF Inv, OutcomeInv
<1> QED BY Invariance, <1>1, PackerAssumption, PTL

\* A placement names a slice the reconciler knows on that node, healthy and
\* large enough, whether MIG is off, on, or on without slices.
THEOREM PlacementIsUsable == Spec => []PlacedWhereReconciled
<1>1. PackerAssumption /\ Inv => PlacedWhereReconciled
  <2> SUFFICES ASSUME PackerAssumption, Inv, Placed PROVE PlacedWhereReconciled
    BY DEF PlacedWhereReconciled
  <2>1. PICK c \in Picks(call.snap, call.req) :
          /\ call.answer.node = c[1] /\ KeyOf(call.answer) = c[2]
          /\ c[2] \in SliceIds(call.snap[c[1]])
          /\ SliceFits(call.snap[c[1]], c[2], call.req.need)
    BY PlacedIs
  <2>2. ASSUME Partitioned(call.snap[c[1]])
        PROVE  c[2] \in HealthySlices(call.snap[c[1]])
    BY <2>1, <2>2 DEF SliceFits, SliceIds, HealthySlices
  <2>3. FreeVRAM(SliceOf(call.snap[c[1]], c[2])) >= call.req.need
    BY <2>1 DEF SliceFits
  <2> QED BY <2>1, <2>2, <2>3 DEF PlacedWhereReconciled
<1> QED BY Invariance, <1>1, PackerAssumption, PTL

\* Where a node that holds the weights can host the model, such a node is
\* chosen, in spread mode too.
THEOREM AffinityIsHonoured == Spec => []WeightsAreUsed
<1>1. PackerAssumption /\ Inv => WeightsAreUsed
  <2> SUFFICES ASSUME PackerAssumption, Inv, Placed, NEW n \in DOMAIN call.snap,
                      HasWeights(call.snap[n], call.req.model),
                      NodeCanHost(call.snap[n], call.req.need)
               PROVE  HasWeights(call.snap[call.answer.node], call.req.model)
    BY DEF WeightsAreUsed
  <2>1. IsSnapshot(call.snap) /\ call.req.need \in Int BY PlacedIs DEF PackerAssumption
  <2>2. PICK s : <<n, s>> \in Candidates(call.snap, call.req.need)
    BY <2>1, HostIsCandidate
  <2>3. <<n, s>> \in AffinityHits(call.snap, call.req) BY <2>2 DEF AffinityHits
  <2>4. PICK c \in Pool(call.snap, call.req) : call.answer.node = c[1] BY PlacedIs
  <2>5. c \in AffinityHits(call.snap, call.req) BY <2>3, <2>4 DEF Pool
  <2> QED BY <2>4, <2>5 DEF AffinityHits
<1> QED BY Invariance, <1>1, PackerAssumption, PTL

\* Within a node, the slices of the pool are those that fit, so that the freest
\* and the tightest of the pool are the freest and the tightest of the node.
LEMMA PoolHoldsTheNode ==
  ASSUME NEW snap, NEW r, NEW c \in Pool(snap, r), NEW t \in SliceIds(snap[c[1]]),
         SliceFits(snap[c[1]], t, r.need)
  PROVE  <<c[1], t>> \in Pool(snap, r)
<1>1. c \in Candidates(snap, r.need) BY DEF Pool, AffinityHits
<1>2. c[1] \in DOMAIN snap BY <1>1, CandidateFits
<1>3. <<c[1], t>> \in Candidates(snap, r.need) BY <1>2, CandidateIs
<1>4. CASE AffinityHits(snap, r) # {} BY <1>3, <1>4 DEF Pool, AffinityHits
<1>5. CASE AffinityHits(snap, r) = {} BY <1>3, <1>5 DEF Pool
<1> QED BY <1>4, <1>5

\* The slice taken is the one BestSliceFor would pick on its node: the two
\* copies of the fit rule agree, in both modes.
THEOREM SliceRulesAgree == Spec => []SliceIsBestOfNode
<1>1. PackerAssumption /\ Inv => SliceIsBestOfNode
  <2> SUFFICES ASSUME PackerAssumption, Inv, Placed,
                      Partitioned(call.snap[call.answer.node])
               PROVE  SliceIsBestOfNode
    BY DEF SliceIsBestOfNode
  <2> DEFINE snap == call.snap
             r == call.req
             g == snap[call.answer.node]
             k == KeyOf(call.answer)
             Hot == AnySliceAboveThreshold(snap, Candidates(snap, r.need))
  <2>1. PICK c \in Picks(snap, r) :
          /\ c \in Pool(snap, r) /\ call.answer.node = c[1] /\ k = c[2]
          /\ c[2] \in SliceIds(g) /\ SliceFits(g, c[2], r.need)
    BY PlacedIs
  <2>2. k \in HealthySlices(g) /\ FreeVRAM(g.slices[k]) >= r.need
    BY <2>1 DEF SliceFits, SliceIds, SliceOf, HealthySlices
  <2>3. ASSUME NEW t \in HealthySlices(g), FreeVRAM(g.slices[t]) >= r.need
        PROVE  <<c[1], t>> \in Pool(snap, r) /\ Free(snap, <<c[1], t>>) = FreeVRAM(g.slices[t])
    <3>1. t \in SliceIds(g) /\ SliceFits(g, t, r.need)
      BY <2>3 DEF SliceIds, SliceFits, SliceOf, HealthySlices
    <3>2. <<c[1], t>> \in Pool(snap, r) BY <2>1, <3>1, PoolHoldsTheNode
    <3>3. Free(snap, <<c[1], t>>) = FreeVRAM(g.slices[t]) BY <2>1 DEF Free, SliceOf
    <3> QED BY <3>2, <3>3
  <2>4. Free(snap, c) = FreeVRAM(g.slices[k]) BY <2>1 DEF Free, SliceOf
  <2>5. CASE Hot
    <3>1. \A d \in Pool(snap, r) : Free(snap, d) <= Free(snap, c)
      BY <2>1, <2>5 DEF Picks, MostFreeSlice
    <3>2. \A t \in HealthySlices(g) : FreeVRAM(g.slices[t]) >= r.need =>
            FreeVRAM(g.slices[t]) <= FreeVRAM(g.slices[k])
      BY <2>3, <2>4, <3>1
    <3>3. ASSUME NEW t \in HealthySlices(g), FreeVRAM(g.slices[t]) >= r.need
          PROVE  FreeVRAM(g.slices[k]) >= FreeVRAM(g.slices[t])
      BY <3>2, <3>3
    <3>4. k \in BestSliceFor(g, r.need, TRUE) BY <2>2, <3>3 DEF BestSliceFor
    <3>5. PICK d \in Candidates(snap, r.need) :
            Exceeds(SliceOf(snap[d[1]], d[2]).used, SliceOf(snap[d[1]], d[2]).total,
                    VRAMEvictionThresholdPct)
      BY <2>5 DEF AnySliceAboveThreshold
    <3>6. d[1] \in DOMAIN snap /\ d[2] \in SliceIds(snap[d[1]]) BY CandidateFits
    <3> QED BY <3>4, <3>5, <3>6 DEF SliceIsBestOfNode
  <2>6. CASE ~Hot
    <3>1. \A d \in Pool(snap, r) : Free(snap, d) >= r.need => Free(snap, c) <= Free(snap, d)
      BY <2>1, <2>6 DEF Picks, LeastFitSlice
    <3>2. \A t \in HealthySlices(g) : FreeVRAM(g.slices[t]) >= r.need =>
            FreeVRAM(g.slices[k]) <= FreeVRAM(g.slices[t])
      BY <2>3, <2>4, <3>1
    <3>3. k \in BestSliceFor(g, r.need, FALSE) BY <2>2, <3>2 DEF BestSliceFor
    <3> QED BY <3>3 DEF SliceIsBestOfNode
  <2> QED BY <2>5, <2>6
<1> QED BY Invariance, <1>1, PackerAssumption, PTL

\* An eviction takes one of the least important tasks, nothing when all are P0,
\* and leaves the others in the queue.
THEOREM EvictionIsRight == Spec => EvictsLeastImportant
<1> DEFINE work == {taskQueue[i] : i \in 1..Len(taskQueue)} \ {P0Production}
           Goes(t) == t \in work /\ \A u \in work : u <= t
           Right == Evict => \A t \in Priorities :
             HowMany(taskQueue', t) = HowMany(taskQueue, t) - (IF Goes(t) THEN 1 ELSE 0)
<1>1. PackerAssumption /\ Inv => Right
  <2> SUFFICES ASSUME PackerAssumption, Inv, Evict, NEW t \in Priorities
               PROVE  HowMany(taskQueue', t) =
                        HowMany(taskQueue, t) - (IF Goes(t) THEN 1 ELSE 0)
    OBVIOUS
  <2>1. IsHeap(taskQueue) /\ taskQueue' = AfterEvict(taskQueue)
    BY DEF Inv, HeapInv, Evict
  <2>2. t \in Nat /\ taskQueue \in Seq(Nat) /\ Len(taskQueue) \in Nat
    BY <2>1 DEF PackerAssumption, IsHeap
  <2>3. HowMany(taskQueue, t) \in Nat BY <2>2, AtFinite
  <2>4. CASE taskQueue = <<>>
    <3>1. work = {} BY <2>4
    <3>2. taskQueue' = taskQueue BY <2>1, <2>4, EvictFacts
    <3> HIDE DEF work
    <3> QED BY <2>3, <3>1, <3>2
  <2>5. CASE taskQueue # <<>>
    <3>1. HowMany(taskQueue', t) = HowMany(taskQueue, t)
            - (IF taskQueue[1] = t /\ taskQueue[1] # P0Production THEN 1 ELSE 0)
      BY <2>1, <2>2, <2>5, EvictFacts
    <3>2. \A k \in 1..Len(taskQueue) :
            taskQueue[k] <= taskQueue[1] /\ taskQueue[k] \in Nat
      BY <2>1, <2>2, TopIsLast DEF IsHeap
    <3>3. 1 \in 1..Len(taskQueue) BY <2>2, <2>5, EmptySeq
    <3>4. \A u \in work : u \in Nat /\ u <= taskQueue[1] /\ u # 0
      BY <3>2 DEF P0Production
    <3>5. taskQueue[1] # 0 => taskQueue[1] \in work BY <3>3 DEF P0Production
    <3>6. taskQueue[1] \in Nat BY <3>2, <3>3
    <3> HIDE DEF work
    <3>7. Goes(t) <=> taskQueue[1] = t /\ taskQueue[1] # P0Production
      BY <2>2, <3>4, <3>5, <3>6 DEF P0Production
    <3> QED BY <3>1, <3>7
  <2> QED BY <2>4, <2>5
<1>2. PackerAssumption /\ Inv => [Right]_vars BY <1>1
<1> QED BY Invariance, <1>2, PackerAssumption, PTL DEF EvictsLeastImportant
=============================================================================
