--------------------------- MODULE ManifestStore ---------------------------
(***************************************************************************)
(* What the checkpoint manager (agent/loader/checkpoint.py) promises, seen *)
(* from outside: at most one whole manifest under each name, put there by  *)
(* a save where there is none, and gone only by a save or a delete that    *)
(* is underway.  A replacement is two steps, with nothing in between, and  *)
(* what was replaced never comes back.  A restore gets what is kept.       *)
(***************************************************************************)
CONSTANTS Names, Saves, Deletes, Restores,
          NameOf,    \* the directory name each operation is about
          None

VARIABLES kept,      \* the save whose manifest is under each name
          stage,     \* saves and deletes: idle, busy, done
          answer     \* what each restore got

svars == <<kept, stage, answer>>

Init ==
  /\ kept = [n \in Names |-> None]
  /\ stage = [o \in Saves \cup Deletes |-> "idle"]
  /\ answer = [r \in Restores |-> "pending"]

Busy(o) == stage[o] = "busy"

Call(o) ==
  /\ stage[o] = "idle"
  /\ stage' = [stage EXCEPT ![o] = "busy"]
  /\ UNCHANGED <<kept, answer>>

Drop(o) ==
  /\ Busy(o) /\ kept[NameOf[o]] # None
  /\ kept' = [kept EXCEPT ![NameOf[o]] = None]
  /\ UNCHANGED <<stage, answer>>

Put(s) ==
  /\ Busy(s) /\ kept[NameOf[s]] = None
  /\ kept' = [kept EXCEPT ![NameOf[s]] = s]
  /\ stage' = [stage EXCEPT ![s] = "done"]
  /\ UNCHANGED answer

\* An operation ends with nothing (more) to do, or by an error.
End(o) ==
  /\ stage[o] # "done"
  /\ stage' = [stage EXCEPT ![o] = "done"]
  /\ UNCHANGED <<kept, answer>>

Restore(r) ==
  /\ answer[r] = "pending"
  /\ answer' = [answer EXCEPT ![r] = kept[NameOf[r]]]
  /\ UNCHANGED <<kept, stage>>

\* The process is killed: whoever was at work will not finish.
Kill ==
  /\ stage' = [o \in Saves \cup Deletes |-> IF Busy(o) THEN "done" ELSE stage[o]]
  /\ \E R \in SUBSET {r \in Restores : answer[r] = "pending"} :
       answer' = [r \in Restores |-> IF r \in R THEN "killed" ELSE answer[r]]
  /\ UNCHANGED kept

Next == \/ \E o \in Saves \cup Deletes : Call(o) \/ Drop(o) \/ End(o)
        \/ \E s \in Saves : Put(s)
        \/ \E r \in Restores : Restore(r)
        \/ Kill

Spec == Init /\ [][Next]_svars
=============================================================================
