---------------------------- MODULE WFQueueShare ----------------------------
(***************************************************************************)
(* What the weighted round-robin order promises a class that is waiting    *)
(* (the 70/20/10 split of queue.go:23-28).  A history variable observes    *)
(* one class over consecutive calls of Queue.Next: an observation may      *)
(* begin at any moment, and it is over when it has counted ten calls or    *)
(* when a call of Next finds the observed bucket empty.                    *)
(***************************************************************************)
EXTENDS WFQueue

VARIABLES watched,   \* the observed class, or NoClass
          start,     \* the cursor when the observation began
          travel,    \* slots the cursor has passed since then, at most ten
          total,     \* requests served since then, of any class
          mine       \* those of the observed class

watch == <<watched, start, travel, total, mine>>
svars == <<queue, watch>>

NoClass == "NoClass"

\* Slots a class owns in one cycle, and the longest run of slots it does not own.
Weight(c) == IF c = High THEN 7 ELSE IF c = Medium THEN 2 ELSE 1
Gap(c)    == 10 - Weight(c)

SInit == /\ Init
         /\ watched = NoClass
         /\ start = 0 /\ travel = 0 /\ total = 0 /\ mine = 0

Observe(c) ==
  /\ watched = NoClass
  /\ watched' = c /\ start' = cursor
  /\ travel' = 0 /\ total' = 0 /\ mine' = 0
  /\ UNCHANGED queue

AdmitUnderWatch(c, x) == Admit(c, x) /\ UNCHANGED watch

\* The next call of Next is not counted: nobody is observed, or no longer.
NotCounting == IF watched = NoClass THEN TRUE
               ELSE total = 10 \/ buckets[watched] = <<>>

\* A call of Next that the observation counts.
ServeCounted(i, c) ==
  /\ ~NotCounting
  /\ ServeAfter(i, c)
  /\ total' = total + 1
  /\ mine' = IF c = watched THEN mine + 1 ELSE mine
  /\ travel' = IF travel + i + 1 > 10 THEN 10 ELSE travel + i + 1
  /\ UNCHANGED <<watched, start>>

\* A call of Next nobody observes; it ends an observation that is over.
ServeUncounted(i, c) ==
  /\ NotCounting
  /\ ServeAfter(i, c)
  /\ watched' = NoClass
  /\ start' = 0 /\ travel' = 0 /\ total' = 0 /\ mine' = 0

SNext == \/ \E c \in Classes, x \in Items : AdmitUnderWatch(c, x)
         \/ \E c \in Classes : Observe(c)
         \/ \E i \in Slots, c \in Classes : ServeCounted(i, c)
         \/ \E i \in Slots, c \in Classes : ServeUncounted(i, c)

SSpec == SInit /\ [][SNext]_svars

-----------------------------------------------------------------------------
\* Queue.Next reports "nothing queued" (queue.go:70) exactly when Len is 0:
\* the cycle leaves no class out, wherever the cursor stands.
WorkConserving == NothingReady(buckets, cursor) <=> QueueLen(buckets) = 0

\* A class that stays backlogged is passed over at most Gap times in a row:
\* High 3, Medium 8, Low 9 (weightSequence, queue.go:26-28).  No load of the
\* other classes starves it.
BoundedBypass == watched # NoClass /\ mine = 0 => total <= Gap(watched)

\* Of any ten consecutive requests served while a class is backlogged, the
\* class gets at least its share (7, 2, 1), from whatever slot the ten start;
\* with all three classes backlogged the split is then exact (queue.go:23-25).
MinimumShare == watched # NoClass /\ total = 10 => mine >= Weight(watched)

=============================================================================
