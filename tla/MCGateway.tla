----------------------------- MODULE MCGateway -----------------------------
(* Three requests: two production requests that compete for the one place   *)
(* of their bucket, and a batch request.                                    *)
EXTENDS Gateway, TLC

CONSTANTS p1, p2, batch

MCClassOf == (p1 :> High) @@ (p2 :> High) @@ (batch :> Low)
MCNeed    == (p1 :> 1) @@ (p2 :> 1) @@ (batch :> 1)
=============================================================================
