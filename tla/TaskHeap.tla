------------------------------ MODULE TaskHeap ------------------------------
(***************************************************************************)
(* The packer's preemption queue (scheduler/scheduler/bin_packer.go:242-   *)
(* 297): a slice of tasks kept in order by container/heap, which works     *)
(* through Less, Swap, Push and Pop.  A task is its Priority, 0 the most   *)
(* important.                                                              *)
(***************************************************************************)
EXTENDS Integers, Sequences, FiniteSets

P0Production == 0

\* Less: the least important task is on top.
Less(q, i, j) == q[i] > q[j]
Swap(q, i, j) == [q EXCEPT ![i] = q[j], ![j] = q[i]]

\* container/heap on a heap of n: up from place j, down from place i.
Up(n) ==
  LET U[j \in 1..n] == [q \in Seq(Nat) |->
        IF j > 1 /\ Less(q, j, j \div 2) THEN U[j \div 2][Swap(q, j \div 2, j)] ELSE q]
  IN U

Child(q, i, n) == IF 2 * i + 1 <= n /\ Less(q, 2 * i + 1, 2 * i) THEN 2 * i + 1 ELSE 2 * i

Down(n) ==
  LET D[i \in Nat \ {0}] == [q \in Seq(Nat) |->
        IF 2 * i <= n /\ Less(q, Child(q, i, n), i)
        THEN D[Child(q, i, n)][Swap(q, i, Child(q, i, n))] ELSE q]
  IN D

HeapPush(q, t) == LET n == Len(q) + 1 IN Up(n)[n][Append(q, t)]

\* heap.Pop: the top changes places with the last, which is then cut off.
HeapPop(q) ==
  LET n == Len(q)  p == Down(n - 1)[1][Swap(q, 1, n)]
  IN [task |-> p[n], rest |-> SubSeq(p, 1, n - 1)]

\* The queue Evict leaves: without the task on top, or, as that one is P0, with it.
AfterEvict_Drops(q) == IF q = <<>> THEN q ELSE HeapPop(q).rest   \* a slip: P0 not put back
AfterEvict(q) ==
  IF q = <<>> THEN q
  ELSE LET p == HeapPop(q)
       IN IF p.task = P0Production THEN HeapPush(p.rest, p.task) ELSE p.rest

HowMany(q, t) == Cardinality({i \in 1..Len(q) : q[i] = t})
=============================================================================
