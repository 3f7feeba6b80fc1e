------------------------------ MODULE MCAgent ------------------------------
(* Two models and two tasks; a node with one place, which is its one slice   *)
(* or the whole GPU: mode says which.  The first model is the one the agent  *)
(* reports when it starts.  One heartbeat is on its way at a time.           *)
EXTENDS Agent, TLC

CONSTANTS m1, m2, p1, t1, t2

MCFixture == [p \in Slices \cup {Whole} |-> {m1}]
=============================================================================
