------------------------------ MODULE WFQueue ------------------------------
(***************************************************************************)
(* The admission queue of the scheduler (scheduler/admission/queue.go):    *)
(* one bounded FIFO bucket per priority class, served in the weighted      *)
(* round-robin order of a ten-slot cycle.  Every method holds the queue's  *)
(* mutex from its first to its last statement, so each is one step.        *)
(***************************************************************************)
EXTENDS Integers, Sequences

CONSTANTS Items,      \* the pending requests a bucket can hold
          Capacity    \* NewQueue's capacityPerClass

ASSUME CapacityAssumption == Capacity \in Nat \ {0}

VARIABLES buckets,    \* Queue.buckets: a FIFO per class
          cursor      \* Queue.cursor: the slot of the cycle Next looks at first

queue == <<buckets, cursor>>

High   == "High"
Medium == "Medium"
Low    == "Low"
Classes == {High, Medium, Low}

\* The ten slots of the cycle, numbered from 0 as in the code.
Slots == 0..9
\* (_NoLow, _SixThreeOne: slips of the table the properties must notice.)
WeightSequence_NoLow ==
  [k \in Slots |-> IF k <= 6 THEN High ELSE Medium]
WeightSequence_SixThreeOne ==
  [k \in Slots |-> IF k <= 5 THEN High ELSE IF k <= 8 THEN Medium ELSE Low]
WeightSequence ==
  [k \in Slots |-> IF k <= 6 THEN High ELSE IF k <= 8 THEN Medium ELSE Low]

\* The slot i places after slot k of the cycle.
SlotAfter_NoAdvance(k, i) == i % 10     \* a slip: the cursor is never kept
SlotAfter(k, i) == (k + i) % 10

-----------------------------------------------------------------------------
(* What the methods compute, shared with the modules that use the queue.   *)

EmptyBuckets == [c \in Classes |-> <<>>]

\* Admit's test: there is room in the bucket.
HasRoom_OneTooMany(b, c) == Len(b[c]) <= Capacity     \* a slip: > for >=
HasRoom(b, c) == Len(b[c]) < Capacity

Pushed(b, c, x) == [b EXCEPT ![c] = Append(@, x)]
Popped_Peek(b, c) == b                                \* a slip: Front without Remove
Popped(b, c)    == [b EXCEPT ![c] = Tail(@)]

\* The number of slots Next passes over before it finds a nonempty bucket is i.
FirstReady(b, k, i) ==
  /\ b[WeightSequence[SlotAfter(k, i)]] # <<>>
  /\ \A j \in 0..(i-1) : b[WeightSequence[SlotAfter(k, j)]] = <<>>

\* Next went around the whole cycle and found nothing.
NothingReady(b, k) ==
  \A j \in Slots : b[WeightSequence[SlotAfter(k, j)]] = <<>>

QueueLen(b) == Len(b[High]) + Len(b[Medium]) + Len(b[Low])

-----------------------------------------------------------------------------
(* The queue as a state machine of its own.                                *)

Init == buckets = EmptyBuckets /\ cursor = 0

Admit(c, x) ==
  /\ HasRoom(buckets, c)
  /\ buckets' = Pushed(buckets, c, x)
  /\ UNCHANGED cursor

\* Next: serve class c, found after i slots of other, empty classes.
ServeAfter(i, c) ==
  /\ FirstReady(buckets, cursor, i)
  /\ c = WeightSequence[SlotAfter(cursor, i)]
  /\ buckets' = Popped(buckets, c)
  /\ cursor' = SlotAfter(cursor, i + 1)

Serve(c) == \E i \in Slots : ServeAfter(i, c)

Next == \/ \E c \in Classes, x \in Items : Admit(c, x)
        \/ \E c \in Classes : Serve(c)

Spec == Init /\ [][Next]_queue

-----------------------------------------------------------------------------
(* Type, with the capacity of every bucket (queue.go:51).                  *)
TypeOK == /\ buckets \in [Classes -> Seq(Items)]
          /\ \A c \in Classes : Len(buckets[c]) <= Capacity
          /\ cursor \in Slots
=============================================================================
