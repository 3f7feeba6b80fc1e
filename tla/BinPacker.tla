----------------------------- MODULE BinPacker -----------------------------
(***************************************************************************)
(* BinPacker.Schedule (scheduler/scheduler/bin_packer.go:104-229) against  *)
(* a registry that heartbeats and the reconciler change while it runs.     *)
(* Schedule takes its snapshot (All) under the registry's lock and decides *)
(* without it.  A snapshot is of pointers: a heartbeat puts another node   *)
(* into the registry and leaves the one of the snapshot, MarkUnhealthy     *)
(* clears the flag of the node they share.  Schedule reserves nothing.     *)
(* The preemption queue beside it has callers of its own.                  *)
(***************************************************************************)
EXTENDS NodeRegistry, TaskHeap

CONSTANTS Reports,    \* the heartbeats a node may send
          Requests,   \* [model, need] records
          Priorities, \* of tasks: P0Production and others
          MaxTasks,   \* bound: tasks in the queue
          Idle

\* A HeartbeatMsg; an agent gives each of its slices a name (main.rs:205-214).
IsReport(rep) ==
  /\ rep.mig \in BOOLEAN /\ rep.total \in Int /\ rep.used \in Int
  /\ IsFiniteSet(DOMAIN rep.slices) /\ "" \notin DOMAIN rep.slices
  /\ \A s \in DOMAIN rep.slices :
       rep.slices[s] \in [total : Int, used : Int, healthy : BOOLEAN]

ASSUME PackerAssumption ==
  /\ IsFiniteSet(Nodes)
  /\ \A rep \in Reports : IsReport(rep)
  /\ \A r \in Requests : r.need \in Int
  /\ Priorities \subseteq Nat

VARIABLES registry,
          call,       \* the Schedule call in progress, or Idle; shared are the
                      \* nodes of its snapshot that are still the registry's
          taskQueue

vars == <<registry, call, taskQueue>>

VRAMEvictionThresholdPct == 85

-----------------------------------------------------------------------------
(* The selection.  A candidate is a node of the snapshot and a slice of it. *)

SliceFits_Strict(n, s, need) ==       \* a slip: an exact fit is turned away
  /\ Partitioned(n) => n.slices[s].healthy
  /\ FreeVRAM(SliceOf(n, s)) > need
SliceFits_AnyHealth(n, s, need) ==    \* a slip: slices out of order are used
  FreeVRAM(SliceOf(n, s)) >= need
SliceFits(n, s, need) ==
  /\ Partitioned(n) => n.slices[s].healthy
  /\ FreeVRAM(SliceOf(n, s)) >= need

Candidates(snap, need) ==
  UNION {{<<n, s>> : s \in {t \in SliceIds(snap[n]) : SliceFits(snap[n], t, need)}}
           : n \in DOMAIN snap}

Free(snap, c) == FreeVRAM(SliceOf(snap[c[1]], c[2]))

AffinityHits(snap, r) == {c \in Candidates(snap, r.need) : HasWeights(snap[c[1]], r.model)}

\* Nodes that hold the weights first, all others only if there is none.
Pool_NoAffinity(snap, r) == Candidates(snap, r.need)      \* a slip
Pool(snap, r) == IF AffinityHits(snap, r) # {} THEN AffinityHits(snap, r)
                 ELSE Candidates(snap, r.need)

AnySliceAboveThreshold(snap, cs) ==
  \E c \in cs : LET s == SliceOf(snap[c[1]], c[2])
                IN Exceeds(s.used, s.total, VRAMEvictionThresholdPct)

MostFreeSlice(snap, cs) == {c \in cs : \A d \in cs : Free(snap, d) <= Free(snap, c)}

LeastFitSlice_FirstFit(snap, cs, need) ==                 \* a slip: not sorted
  {c \in cs : Free(snap, c) >= need}
LeastFitSlice(snap, cs, need) ==
  LET fit == {c \in cs : Free(snap, c) >= need}
  IN {c \in fit : \A d \in fit : Free(snap, c) <= Free(snap, d)}

\* All the answers the code may give: map order and an unstable sort break ties.
Picks(snap, r) ==
  IF AnySliceAboveThreshold(snap, Candidates(snap, r.need))
  THEN MostFreeSlice(snap, Pool(snap, r))
  ELSE LeastFitSlice(snap, Pool(snap, r), r.need)

\* ScheduleDecision: SliceID is empty on a node without MIG.
Decision(snap, c) ==
  [node |-> c[1], slice |-> IF snap[c[1]].mig THEN c[2] ELSE ""]

-----------------------------------------------------------------------------
Init == registry = [n \in Nodes |-> Absent] /\ call = Idle /\ taskQueue = <<>>

\* The node is one of the snapshot of a call that is still to decide.
InSnapshot(n) == IF call = Idle THEN FALSE ELSE n \in call.shared

Heartbeat(n) ==
  /\ \E rep \in Reports : registry' = Upserted(registry, n, rep)
  /\ call' = IF InSnapshot(n) THEN [call EXCEPT !.shared = @ \ {n}] ELSE call
  /\ UNCHANGED taskQueue

MarkDead(n) ==
  /\ n \in HealthyNodes(registry)
  /\ registry' = MarkedUnhealthy(registry, n)
  /\ call' = IF InSnapshot(n) THEN [call EXCEPT !.snap = MarkedUnhealthy(@, n)] ELSE call
  /\ UNCHANGED taskQueue

Snapshot(r) ==
  /\ call = Idle
  /\ call' = [req |-> r, snap |-> All(registry), shared |-> HealthyNodes(registry),
              done |-> FALSE]
  /\ UNCHANGED <<registry, taskQueue>>

\* A call that has its answer does not look at the nodes any more.
Decide ==
  /\ call # Idle /\ ~call.done
  /\ \E c \in Picks(call.snap, call.req) :
       call' = [req |-> call.req, snap |-> call.snap, shared |-> {}, done |-> TRUE,
                answer |-> Decision(call.snap, c)]
  /\ UNCHANGED <<registry, taskQueue>>

\* No healthy node, or no slice with room.
Fail ==
  /\ call # Idle /\ ~call.done
  /\ Picks(call.snap, call.req) = {}
  /\ call' = [call EXCEPT !.done = TRUE, !.shared = {}]
  /\ UNCHANGED <<registry, taskQueue>>

Return == /\ call # Idle /\ call.done
          /\ call' = Idle
          /\ UNCHANGED <<registry, taskQueue>>

Enqueue(t) ==
  /\ Len(taskQueue) < MaxTasks
  /\ taskQueue' = HeapPush(taskQueue, t)
  /\ UNCHANGED <<registry, call>>

Evict ==
  /\ taskQueue' = AfterEvict(taskQueue)
  /\ UNCHANGED <<registry, call>>

Next == \/ \E n \in Nodes : Heartbeat(n) \/ MarkDead(n)
        \/ \E r \in Requests : Snapshot(r)
        \/ Decide \/ Fail \/ Return
        \/ Evict \/ \E t \in Priorities : Enqueue(t)

Spec == Init /\ [][Next]_vars

-----------------------------------------------------------------------------
(* Properties.                                                             *)

Placed == IF call = Idle THEN FALSE ELSE "answer" \in DOMAIN call
Failed == IF call = Idle THEN FALSE ELSE call.done /\ "answer" \notin DOMAIN call

\* What node_registry.go says of a node as a whole, independently of the packer.
NodeCanHost(n, need) == IF Partitioned(n) THEN BestSliceFor(n, need, FALSE) # {}
                        ELSE NodeFreeVRAM(n) >= need

\* The slice of an answer, under the id the reconciler gives it (sliceKey,
\* reconciler.go:289: "" is "full").
KeyOf(a) == IF a.slice = "" THEN Full ELSE a.slice

\* Types; a node of the snapshot is the registry's own, flag and all, until a
\* heartbeat replaces it there (node_registry.go:197-226).
TypeOK ==
  /\ \A n \in Nodes : registry[n] # Absent => registry[n].healthy \in BOOLEAN
  /\ call # Idle => /\ call.req \in Requests /\ DOMAIN call.snap \subseteq Nodes
                   /\ call.shared \subseteq DOMAIN call.snap
                   /\ \A n \in call.shared : call.snap[n] = registry[n]

\* A request fails only if no node of the snapshot could host it: the slice by slice
\* search agrees with the node's own view of itself (node_registry.go:88-168).
FailsOnlyWhenNothingFits ==
  Failed => \A n \in DOMAIN call.snap : ~NodeCanHost(call.snap[n], call.req.need)

\* The slice chosen is one the reconciler diffs on that node as it was reported
\* (reconciler.go:204-208, 257), healthy and large enough: the model can be
\* prewarmed there, whether MIG is off, on, or on without slices.
PlacedWhereReconciled ==
  Placed =>
    LET n == call.snap[call.answer.node]
        k == KeyOf(call.answer)
    IN /\ k \in SliceIds(n)
       /\ Partitioned(n) => k \in HealthySlices(n)
       /\ FreeVRAM(SliceOf(n, k)) >= call.req.need

\* A node that holds the weights is used whenever one of them can host the
\* model, in spread mode too (bin_packer.go:154-165).
WeightsAreUsed ==
  Placed /\ (\E n \in DOMAIN call.snap : /\ HasWeights(call.snap[n], call.req.model)
                                         /\ NodeCanHost(call.snap[n], call.req.need))
    => HasWeights(call.snap[call.answer.node], call.req.model)

\* Within its node the slice is the one BestSliceFor would pick for one of the
\* two modes, and the tightest one unless a slice is over the threshold: the two
\* copies of the fit rule agree (bin_packer.go:203-229, node_registry.go:140).
SliceIsBestOfNode ==
  Placed =>
    LET n == call.snap[call.answer.node]
        hot == \E m \in DOMAIN call.snap : \E s \in SliceIds(call.snap[m]) :
                 Exceeds(SliceOf(call.snap[m], s).used, SliceOf(call.snap[m], s).total,
                         VRAMEvictionThresholdPct)
        Best(spread) == KeyOf(call.answer) \in BestSliceFor(n, call.req.need, spread)
    IN Partitioned(n) => IF hot THEN Best(TRUE) \/ Best(FALSE) ELSE Best(FALSE)

\* An eviction takes one of the least important tasks there are, nothing when
\* all are P0, and leaves the others in the queue (bin_packer.go:255-292).
EvictsLeastImportant ==
  [][Evict =>
       LET work == {taskQueue[i] : i \in 1..Len(taskQueue)} \ {P0Production}
           Goes(t) == t \in work /\ \A u \in work : u <= t
       IN \A t \in Priorities :
            HowMany(taskQueue', t) = HowMany(taskQueue, t) - (IF Goes(t) THEN 1 ELSE 0)]_vars

=============================================================================
