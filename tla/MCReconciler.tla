---------------------------- MODULE MCReconciler ----------------------------
(* Two MIG nodes with one slice each, the first with a model resident that   *)
(* nobody asked for.  The cfg files take one node and both models, for the   *)
(* diffs, or both nodes and one model, for failures of a node.               *)
EXTENDS Reconciler, TLC

CONSTANTS n1, n2, g1, g2, m1, m2

MCNodeOf  == [p \in Places |-> IF p = g1 THEN n1 ELSE n2]
MCLists   == {{m2}}
MCFixture == [p \in Places |-> IF p = g1 THEN Models \ {m2} ELSE {}]
=============================================================================
