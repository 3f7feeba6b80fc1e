---------------------------- MODULE MCCheckpoint ----------------------------
(* Three saves, a delete and a restore of one model, and one kill of the     *)
(* process at any point.                                                     *)
EXTENDS Checkpoint, TLC

CONSTANTS m, s1, s2, s3, d1, r1

MCNameOf == [x \in {s1, s2, s3, d1, r1} |-> m]
Symmetry == Permutations({s1, s2, s3})
=============================================================================
