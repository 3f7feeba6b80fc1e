---------------------------- MODULE NodeRegistry ----------------------------
(***************************************************************************)
(* The registry of GPU nodes (scheduler/registry/node_registry.go) as the  *)
(* placement code reads it.  A node is the record of its last heartbeat:   *)
(* whether MIG is on, its slices (a function from slice ids, empty when    *)
(* MIG is off), the VRAM of the whole GPU, the models whose weights its    *)
(* NVMe holds, and the Healthy flag the registry keeps.  VRAM is counted   *)
(* in small units; percentages are exact where the code uses floats.       *)
(***************************************************************************)
EXTENDS Integers, FiniteSets

CONSTANTS Nodes,      \* "nodeID/gpuID" keys
          Absent      \* no heartbeat yet

Full == "full"        \* SyntheticFullSlice's id

FreeVRAM(s) == s.total - s.used

\* VRAMUtilizationPct over pct, safe against zero-total.
Exceeds(used, total, pct) == total # 0 /\ used * 100 > pct * total

Partitioned(n) == n.mig /\ DOMAIN n.slices # {}

FullSlice(n) == [total |-> n.total, used |-> n.used, healthy |-> n.healthy]

\* The slices the scheduler reasons about.
SliceIds(n)   == IF Partitioned(n) THEN DOMAIN n.slices ELSE {Full}
SliceOf(n, s) == IF Partitioned(n) THEN n.slices[s] ELSE FullSlice(n)

HasWeights(n, model) == model \in n.weights

HealthySlices(n) == {s \in DOMAIN n.slices : n.slices[s].healthy}

\* GPUNode.FreeVRAM: the largest free slice, because a model cannot span slices.
NodeFreeVRAM(n) ==
  IF Partitioned(n)
  THEN CHOOSE v \in {0} \cup {FreeVRAM(n.slices[s]) : s \in HealthySlices(n)} :
         \A s \in HealthySlices(n) : FreeVRAM(n.slices[s]) <= v
  ELSE n.total - n.used

\* BestSliceFor: the tightest or the freest healthy slice that fits; ties are
\* the code's to break, so the answer is a set, empty for nil.
BestSliceFor(n, need, spread) ==
  LET fitting == {s \in HealthySlices(n) : FreeVRAM(n.slices[s]) >= need}
      Better(s, t) == IF spread THEN FreeVRAM(n.slices[s]) >= FreeVRAM(n.slices[t])
                                ELSE FreeVRAM(n.slices[s]) <= FreeVRAM(n.slices[t])
  IN IF Partitioned(n) THEN {s \in fitting : \A t \in fitting : Better(s, t)} ELSE {}

-----------------------------------------------------------------------------
(* The registry's methods; each holds its lock throughout.                 *)

Upserted(reg, n, report)  ==
  [reg EXCEPT ![n] = [mig |-> report.mig, slices |-> report.slices, total |-> report.total,
                      used |-> report.used, weights |-> report.weights, healthy |-> TRUE]]
MarkedUnhealthy(reg, n)   == [reg EXCEPT ![n] = [@ EXCEPT !.healthy = FALSE]]
HealthyNodes(reg)         == {n \in Nodes : IF reg[n] = Absent THEN FALSE ELSE reg[n].healthy}
\* The nodes themselves, not copies: see BinPacker for what a caller shares.
All(reg)                  == [n \in HealthyNodes(reg) |-> reg[n]]
=============================================================================
