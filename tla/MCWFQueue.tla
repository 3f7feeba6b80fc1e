------------------------------ MODULE MCWFQueue ------------------------------
(* The admission queue with one kind of request per class: the order of     *)
(* service depends on the classes only.                                     *)
EXTENDS WFQueueShare
=============================================================================
