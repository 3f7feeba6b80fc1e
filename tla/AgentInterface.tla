--------------------------- MODULE AgentInterface ---------------------------
(***************************************************************************)
(* What the control loop takes an agent for (Execute, Lose and             *)
(* SendHeartbeat in Reconciler): it takes commands, and each one it takes  *)
(* changes the list of its place once, or is lost without a trace; nothing *)
(* else changes a list, and what it reports is a copy of the lists, which  *)
(* arrives in its turn, after whatever has changed them since.             *)
(***************************************************************************)
EXTENDS Sequences

CONSTANTS Models, Tasks, NoCommand

VARIABLES loaded,     \* the list of every place
          taken,      \* the command each task holds
          sent,       \* the reports on their way
          seen        \* the last report to arrive

ivars == <<loaded, taken, sent, seen>>

Commands == [verb : {"PREWARM", "EVICT"}, place : DOMAIN loaded, model : Models]

Take(t) ==
  /\ taken[t] = NoCommand
  /\ \E c \in Commands : taken' = [taken EXCEPT ![t] = c]
  /\ UNCHANGED <<loaded, sent, seen>>

Execute(t) ==
  /\ taken[t] # NoCommand
  /\ loaded' = [loaded EXCEPT ![taken[t].place] = IF taken[t].verb = "PREWARM"
                                                  THEN @ \cup {taken[t].model}
                                                  ELSE @ \ {taken[t].model}]
  /\ taken' = [taken EXCEPT ![t] = NoCommand]
  /\ UNCHANGED <<sent, seen>>

Lose(t) ==
  /\ taken[t] # NoCommand
  /\ taken' = [taken EXCEPT ![t] = NoCommand]
  /\ UNCHANGED <<loaded, sent, seen>>

Report == sent' = Append(sent, loaded) /\ UNCHANGED <<loaded, taken, seen>>

Arrive ==
  /\ sent # <<>>
  /\ seen' = Head(sent) /\ sent' = Tail(sent)
  /\ UNCHANGED <<loaded, taken>>

Next == Report \/ Arrive \/ \E t \in Tasks : Take(t) \/ Execute(t) \/ Lose(t)
=============================================================================
