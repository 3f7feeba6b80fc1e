---------------------------- MODULE MCBinPacker ----------------------------
(* Two nodes, each a whole GPU, a partitioned one, or MIG-enabled with no    *)
(* slice, with slices tight, hot (over 85%), exactly at 85%, an exact fit,   *)
(* and one out of order that alone has room; requests that fit in many       *)
(* slices, in few, nowhere; and, besides, preemption queues of up to four    *)
(* tasks.                                                                    *)
EXTENDS BinPacker, TLC

Symmetry == Permutations(Nodes)

Slice(used, ok) == [total |-> 20, used |-> used, healthy |-> ok]
Whole(used, w)  == [mig |-> FALSE, slices |-> <<>>, total |-> 40, used |-> used, weights |-> w]
Split(a, b, w)  == [mig |-> TRUE, slices |-> ("1g-0" :> a) @@ ("1g-1" :> b),
                    total |-> 40, used |-> a.used + b.used, weights |-> w]

MCReports ==
  { Whole(35, {"llama"}),
    [Whole(10, {}) EXCEPT !.mig = TRUE],
    Split(Slice(18, TRUE), Slice(12, TRUE), {}),
    Split(Slice(17, TRUE), Slice(10, TRUE), {"llama"}),
    Split(Slice(0, FALSE), Slice(13, TRUE), {"llama"}) }

MCRequests == { [model |-> "llama", need |-> 8], [model |-> "llama", need |-> 2] }
=============================================================================
