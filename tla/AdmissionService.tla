-------------------------- MODULE AdmissionService --------------------------
(***************************************************************************)
(* What POST /schedule promises its callers, without the queue and the     *)
(* drain loop: a request is answered once, with 200 exactly if its model   *)
(* has become desired state, and no request waits for ever.                *)
(***************************************************************************)
CONSTANT Requests

VARIABLES status,     \* each request: not sent, waiting for its answer, answered
          desired     \* the requests whose model is desired state

svars == <<status, desired>>

Init == status = [r \in Requests |-> "idle"] /\ desired = {}

Submit(r) ==
  /\ status[r] = "idle"
  /\ status' = [status EXCEPT ![r] = "pending"]
  /\ UNCHANGED desired

Accept(r) ==
  /\ status[r] = "pending"
  /\ status' = [status EXCEPT ![r] = "accepted"]
  /\ desired' = desired \cup {r}

Refuse(r) ==
  /\ status[r] = "pending"
  /\ status' = [status EXCEPT ![r] = "refused"]
  /\ UNCHANGED desired

Answer(r) == Accept(r) \/ Refuse(r)

Next == \E r \in Requests : Submit(r) \/ Answer(r)

Spec == /\ Init /\ [][Next]_svars
        /\ \A r \in Requests : WF_svars(Answer(r))
=============================================================================
