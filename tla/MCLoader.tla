------------------------------ MODULE MCLoader ------------------------------
(* Two loads of one model and one of another, which do not all fit, an       *)
(* eviction of each model, and two generations with the first.  The second   *)
(* load of the first model and the other model name a slice.                 *)
EXTENDS Loader, TLC

CONSTANTS a, b, l1, l2, l3, e1, e2, g1, g2, s1

MCModelOf  == (l1 :> a) @@ (l2 :> a) @@ (l3 :> b) @@ (e1 :> a) @@ (e2 :> b)
              @@ (g1 :> a) @@ (g2 :> a)
MCSliceOf  == (l1 :> Whole) @@ (l2 :> s1) @@ (l3 :> s1)
MCSliceCap == (s1 :> 6)
MCSize     == (a :> 3) @@ (b :> 5)
=============================================================================
