----------------------------- MODULE FiniteSums -----------------------------
(***************************************************************************)
(* What MapThenSumSet of the community modules computes on finite sets: a  *)
(* sum that does not depend on the order in which it is taken, that grows  *)
(* with the set and with the weights.  The memory the loader adds up and   *)
(* the requests the traffic analyzer counts are such sums.  The proofs go  *)
(* by a minimal counterexample, which well-foundedness provides.           *)
(***************************************************************************)
EXTENDS Integers, FiniteSetsExt, FiniteSetTheorems, WellFoundedInduction, TLAPS

SumOver(w, S) == MapThenSumSet(LAMBDA x : w[x], S)
Weighs(w, S)  == \A x \in S : w[x] \in Nat

-----------------------------------------------------------------------------
(* Minimal elements.                                                       *)

\* A set of subsets of a finite set has a minimal member.
LEMMA MinimalSubset ==
  ASSUME NEW A, IsFiniteSet(A), NEW T, T \subseteq SUBSET A, T # {}
  PROVE  \E x \in T : \A y \in T : y \subseteq x => y = x
<1>1. IsWellFoundedOn(StrictSubsetOrdering(A), SUBSET A)
  BY FS_StrictSubsetOrderingWellFounded, FS_FiniteSubsetsOfFinite
<1>2. PICK x \in T : \A y \in T : <<y, x>> \notin StrictSubsetOrdering(A)
  BY <1>1, WFMin
<1>3. ASSUME NEW y \in T, y \subseteq x, y # x PROVE FALSE
  BY <1>2, <1>3 DEF StrictSubsetOrdering
<1> QED BY <1>3

\* A set of natural numbers has a least member.
LEMMA LeastNumber ==
  ASSUME NEW T, T \subseteq Nat, T # {}
  PROVE  \E n \in T : \A k \in T : n <= k
<1> DEFINE R == {p \in Nat \X Nat : p[1] < p[2]}
<1>1. IsWellFoundedOn(R, Nat) BY NatLessThanWellFounded DEF OpToRel
<1>2. ASSUME NEW n \in T, NEW k \in T, <<k, n>> \notin R PROVE n <= k
  BY <1>2
<1> HIDE DEF R
<1>3. PICK n \in T : \A k \in T : <<k, n>> \notin R BY <1>1, WFMin
<1> QED BY <1>2, <1>3

-----------------------------------------------------------------------------
(* The function that MapThenSumSet recurses with, on the subsets of A.     *)

Chosen(s) == CHOOSE x \in s : TRUE

SumsUpTo(F, w, A, n) ==
  \A s \in SUBSET A : Cardinality(s) <= n =>
    F[s] = IF s = {} THEN 0 ELSE w[Chosen(s)] + F[s \ {Chosen(s)}]

IsSumOf(F, w, A) ==
  F = [s \in SUBSET A |-> IF s = {} THEN 0 ELSE w[Chosen(s)] + F[s \ {Chosen(s)}]]

\* There is such a function: one good for the sets of up to n elements gives one
\* good for those of n + 1.
LEMMA SumExists ==
  ASSUME NEW A, IsFiniteSet(A), NEW w, Weighs(w, A)
  PROVE  \E F \in [SUBSET A -> Nat] : IsSumOf(F, w, A)
<1> DEFINE Good(n) == \E F \in [SUBSET A -> Nat] : SumsUpTo(F, w, A, n)
           Next(F) == [s \in SUBSET A |-> IF s = {} THEN 0
                                          ELSE w[Chosen(s)] + F[s \ {Chosen(s)}]]
           Bad == {n \in Nat : ~Good(n)}
<1>1. \A s \in SUBSET A : s # {} => Chosen(s) \in s
  BY DEF Chosen
<1>2. \A s \in SUBSET A : IsFiniteSet(s) /\ Cardinality(s) \in Nat
  BY FS_Subset, FS_CardinalityType
<1>3. \A F \in [SUBSET A -> Nat] : Next(F) \in [SUBSET A -> Nat]
  <2> SUFFICES ASSUME NEW F \in [SUBSET A -> Nat], NEW s \in SUBSET A
               PROVE  (IF s = {} THEN 0 ELSE w[Chosen(s)] + F[s \ {Chosen(s)}]) \in Nat
    OBVIOUS
  <2>1. CASE s = {} BY <2>1
  <2>2. CASE s # {}
    <3>1. w[Chosen(s)] \in Nat BY <2>2, <1>1 DEF Weighs
    <3>2. F[s \ {Chosen(s)}] \in Nat OBVIOUS
    <3> QED BY <2>2, <3>1, <3>2
  <2> QED BY <2>1, <2>2
<1>4. Good(0)
  <2> DEFINE F == [s \in SUBSET A |-> 0]
  <2>1. F \in [SUBSET A -> Nat] OBVIOUS
  <2>2. ASSUME NEW s \in SUBSET A, Cardinality(s) <= 0 PROVE s = {}
    BY <2>2, <1>2, FS_EmptySet
  <2>3. SumsUpTo(F, w, A, 0) BY <2>2 DEF SumsUpTo
  <2> QED BY <2>1, <2>3
<1>5. ASSUME NEW n \in Nat, Good(n) PROVE Good(n + 1)
  <2>1. PICK F \in [SUBSET A -> Nat] : SumsUpTo(F, w, A, n) BY <1>5
  <2>2. Next(F) \in [SUBSET A -> Nat] BY <1>3
  <2>3. ASSUME NEW s \in SUBSET A, Cardinality(s) <= n + 1, s # {}
        PROVE  Next(F)[s] = w[Chosen(s)] + Next(F)[s \ {Chosen(s)}]
    <3> DEFINE r == s \ {Chosen(s)}
    <3>1. r \in SUBSET A OBVIOUS
    <3>2. Cardinality(r) <= n
      BY <2>3, <1>1, <1>2, FS_RemoveElement
    <3>3. F[r] = Next(F)[r]
      BY <3>1, <3>2, <2>1 DEF SumsUpTo
    <3>4. Next(F)[s] = w[Chosen(s)] + F[r]
      BY <2>3
    <3> QED BY <3>3, <3>4
  <2>4. SumsUpTo(Next(F), w, A, n + 1)
    BY <2>3 DEF SumsUpTo
  <2> QED BY <2>2, <2>4
<1>6. \A n \in Nat : Good(n)
  <2> SUFFICES ASSUME Bad # {} PROVE FALSE OBVIOUS
  <2>1. PICK n \in Bad : \A k \in Bad : n <= k BY LeastNumber
  <2> HIDE DEF Good
  <2>2. n # 0 BY <1>4
  <2>3. n - 1 \in Nat /\ ~(n <= n - 1) BY <2>2
  <2>4. Good(n - 1) BY <2>1, <2>3
  <2>5. Good((n - 1) + 1) BY <1>5, <2>3, <2>4
  <2> QED BY <2>5
<1>7. PICK F \in [SUBSET A -> Nat] : SumsUpTo(F, w, A, Cardinality(A))
  BY <1>6, <1>2
<1>8. \A s \in SUBSET A : Cardinality(s) <= Cardinality(A)
  BY FS_Subset
<1>9. \A s \in SUBSET A : F[s] = Next(F)[s]
  BY <1>7, <1>8 DEF SumsUpTo
<1>10. F = Next(F) BY <1>9
<1> QED BY <1>10 DEF IsSumOf

\* Any two of them agree where both are defined.
LEMMA SumUnique ==
  ASSUME NEW A, IsFiniteSet(A), NEW B \in SUBSET A, NEW w,
         NEW F, IsSumOf(F, w, A), NEW G, IsSumOf(G, w, B)
  PROVE  \A s \in SUBSET B : F[s] = G[s]
<1> DEFINE Bad == {s \in SUBSET B : F[s] # G[s]}
<1> SUFFICES ASSUME Bad # {} PROVE FALSE OBVIOUS
<1>1. PICK s \in Bad : \A r \in Bad : r \subseteq s => r = s
  <2>1. Bad \subseteq SUBSET A /\ Bad # {} OBVIOUS
  <2> HIDE DEF Bad
  <2> QED BY <2>1, MinimalSubset
<1>2. s # {} BY DEF IsSumOf
<1>3. Chosen(s) \in s BY <1>2 DEF Chosen
<1>4. F[s] = w[Chosen(s)] + F[s \ {Chosen(s)}] BY <1>2 DEF IsSumOf
<1>5. G[s] = w[Chosen(s)] + G[s \ {Chosen(s)}] BY <1>2 DEF IsSumOf
<1>6. F[s \ {Chosen(s)}] = G[s \ {Chosen(s)}] BY <1>1, <1>3
<1> QED BY <1>4, <1>5, <1>6

IsAdditive(F, w, A) ==
  /\ F \in [SUBSET A -> Nat]
  /\ \A s \in SUBSET A : SumOver(w, s) = F[s]
  /\ F[{}] = 0
  /\ \A s \in SUBSET A : \A x \in s : F[s] = w[x] + F[s \ {x}]

\* SumOver is such a function, and any element may be taken first.
LEMMA SumIsAdditive ==
  ASSUME NEW A, IsFiniteSet(A), NEW w, Weighs(w, A)
  PROVE  \E F : IsAdditive(F, w, A)
<1>1. PICK F \in [SUBSET A -> Nat] : IsSumOf(F, w, A) BY SumExists
<1>2. ASSUME NEW s \in SUBSET A PROVE SumOver(w, s) = F[s]
  <2> DEFINE Iter == CHOOSE G : IsSumOf(G, w, s)
  <2>1. IsFiniteSet(s) BY FS_Subset
  <2>2. Weighs(w, s) BY DEF Weighs
  <2>3. \E G : IsSumOf(G, w, s) BY <2>1, <2>2, SumExists
  <2>4. IsSumOf(Iter, w, s) BY <2>3
  <2>5. F[s] = Iter[s] BY <1>1, <2>4, SumUnique
  <2>6. SumOver(w, s) = Iter[s]
    BY DEF SumOver, MapThenSumSet, MapThenFoldSet, IsSumOf, Chosen
  <2> QED BY <2>5, <2>6
<1>3. F[{}] = 0 BY <1>1 DEF IsSumOf
<1> DEFINE Bad == {s \in SUBSET A : ~ \A x \in s : F[s] = w[x] + F[s \ {x}]}
<1>4. ASSUME Bad # {} PROVE FALSE
  <2>1. PICK s \in Bad : \A r \in Bad : r \subseteq s => r = s
    <3>1. Bad \subseteq SUBSET A OBVIOUS
    <3> HIDE DEF Bad
    <3> QED BY <1>4, <3>1, MinimalSubset
  <2>2. PICK x \in s : F[s] # w[x] + F[s \ {x}] OBVIOUS
  <2> DEFINE y == Chosen(s)
  <2>3. y \in s BY DEF Chosen
  <2>4. F[s] = w[y] + F[s \ {y}] BY <1>1 DEF IsSumOf
  <2>5. x # y BY <2>2, <2>4
  <2> HIDE DEF y
  <2>6. F[s \ {y}] = w[x] + F[(s \ {y}) \ {x}] BY <2>1, <2>3, <2>5
  <2>7. F[s \ {x}] = w[y] + F[(s \ {x}) \ {y}] BY <2>1, <2>3, <2>5
  <2>8. (s \ {y}) \ {x} = (s \ {x}) \ {y} OBVIOUS
  <2> DEFINE r == F[(s \ {x}) \ {y}]
  <2>9. w[x] \in Nat /\ w[y] \in Nat /\ r \in Nat BY <2>3 DEF Weighs
  <2>10. F[s] = w[y] + (w[x] + r) BY <2>4, <2>6, <2>8
  <2>11. w[x] + F[s \ {x}] = w[x] + (w[y] + r) BY <2>7
  <2> HIDE DEF r
  <2> QED BY <2>2, <2>9, <2>10, <2>11
<1> QED BY <1>2, <1>3, <1>4 DEF IsAdditive

-----------------------------------------------------------------------------
(* What is used of it.                                                     *)

\* The sum of natural numbers is one.
LEMMA SumType ==
  ASSUME NEW S, IsFiniteSet(S), NEW w, Weighs(w, S)
  PROVE  SumOver(w, S) \in Nat
<1>1. PICK F : IsAdditive(F, w, S) BY SumIsAdditive
<1> QED BY <1>1 DEF IsAdditive

\* Nothing adds up to nothing.
LEMMA SumEmpty ==
  ASSUME NEW w
  PROVE  SumOver(w, {}) = 0
<1>1. IsFiniteSet({}) /\ Weighs(w, {}) BY FS_EmptySet DEF Weighs
<1>2. PICK F : IsAdditive(F, w, {}) BY <1>1, SumIsAdditive
<1> QED BY <1>2 DEF IsAdditive

\* Any element may be taken out first.
LEMMA SumRemove ==
  ASSUME NEW S, IsFiniteSet(S), NEW w, Weighs(w, S), NEW x \in S
  PROVE  SumOver(w, S) = w[x] + SumOver(w, S \ {x})
<1>1. PICK F : IsAdditive(F, w, S) BY SumIsAdditive
<1> QED BY <1>1 DEF IsAdditive

\* A new element adds its weight: an engine built, a request made.
LEMMA SumAdd ==
  ASSUME NEW S, IsFiniteSet(S), NEW w, Weighs(w, S),
         NEW y, y \notin S, w[y] \in Nat
  PROVE  SumOver(w, S \cup {y}) = SumOver(w, S) + w[y]
<1>1. IsFiniteSet(S \cup {y}) BY FS_AddElement
<1>2. (S \cup {y}) \ {y} = S OBVIOUS
<1>3. SumOver(w, S) \in Nat BY SumType
<1>4. Weighs(w, S \cup {y}) BY DEF Weighs
<1>5. SumOver(w, S \cup {y}) = w[y] + SumOver(w, (S \cup {y}) \ {y})
  BY <1>1, <1>4, SumRemove
<1> QED BY <1>2, <1>3, <1>5

\* A part weighs no more than the whole: memory given back is no longer used.
LEMMA SumMonotone ==
  ASSUME NEW S, IsFiniteSet(S), NEW w, Weighs(w, S), NEW T \in SUBSET S
  PROVE  SumOver(w, T) <= SumOver(w, S)
<1>1. PICK F : IsAdditive(F, w, S)
  BY SumIsAdditive
<1> DEFINE Bad == {s \in SUBSET S : T \subseteq s /\ ~(F[T] <= F[s])}
<1>2. ASSUME Bad # {} PROVE FALSE
  <2>1. PICK s \in Bad : \A r \in Bad : r \subseteq s => r = s
    <3>1. Bad \subseteq SUBSET S OBVIOUS
    <3> HIDE DEF Bad
    <3> QED BY <1>2, <3>1, MinimalSubset
  <2>2. s # T BY <1>1 DEF IsAdditive
  <2>3. PICK x \in s : x \notin T BY <2>2
  <2>4. F[T] <= F[s \ {x}] BY <2>1, <2>3
  <2>5. F[s] = w[x] + F[s \ {x}] BY <1>1 DEF IsAdditive
  <2>6. w[x] \in Nat /\ F[s] \in Nat /\ F[s \ {x}] \in Nat /\ F[T] \in Nat
    BY <1>1 DEF IsAdditive, Weighs
  <2> QED BY <2>4, <2>5, <2>6
<1> QED BY <1>1, <1>2 DEF IsAdditive

\* Smaller weights make a smaller sum.
LEMMA SumBelow ==
  ASSUME NEW S, IsFiniteSet(S), NEW w, NEW v,
         Weighs(w, S), Weighs(v, S), \A x \in S : w[x] <= v[x]
  PROVE  SumOver(w, S) <= SumOver(v, S)
<1>1. PICK F : IsAdditive(F, w, S)
  BY SumIsAdditive
<1>2. PICK G : IsAdditive(G, v, S)
  BY SumIsAdditive
<1> DEFINE Bad == {s \in SUBSET S : ~(F[s] <= G[s])}
<1>3. ASSUME Bad # {} PROVE FALSE
  <2>1. PICK s \in Bad : \A r \in Bad : r \subseteq s => r = s
    <3>1. Bad \subseteq SUBSET S OBVIOUS
    <3> HIDE DEF Bad
    <3> QED BY <1>3, <3>1, MinimalSubset
  <2>2. F[{}] = 0 /\ G[{}] = 0 BY <1>1, <1>2 DEF IsAdditive
  <2>3. s # {} BY <2>2
  <2>4. PICK x \in s : TRUE BY <2>3
  <2>5. F[s \ {x}] <= G[s \ {x}] BY <2>1, <2>4
  <2>6. F[s] = w[x] + F[s \ {x}] /\ G[s] = v[x] + G[s \ {x}] BY <1>1, <1>2, <2>4 DEF IsAdditive
  <2>7. /\ w[x] \in Nat /\ v[x] \in Nat /\ w[x] <= v[x]
        /\ F[s] \in Nat /\ F[s \ {x}] \in Nat /\ G[s] \in Nat /\ G[s \ {x}] \in Nat
    BY <1>1, <1>2, <2>4 DEF IsAdditive, Weighs
  <2> QED BY <2>5, <2>6, <2>7
<1> QED BY <1>1, <1>2, <1>3 DEF IsAdditive
=============================================================================
