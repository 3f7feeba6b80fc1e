------------------------------- MODULE Agent -------------------------------
(***************************************************************************)
(* The node agent (agent/src/main.rs) between the scheduler and the model  *)
(* loader.  Each command runs in a task of its own, which has the loader   *)
(* do the work and then corrects the payload; the heartbeat loop rewrites  *)
(* parts of that payload and sends a copy.  The payload's lock is never    *)
(* held across an await, so the tasks interleave at every call, and marks  *)
(* come between the copy and its arrival.                                  *)
(*                                                                         *)
(* The scheduler is modelled from outside: it has seen some payload and    *)
(* sends the commands that take it to the desired state.  So is the        *)
(* loader, which knows models by name and no slices.                       *)
(***************************************************************************)
EXTENDS Integers, FiniteSets, Sequences

CONSTANTS Models, Tasks,
          Slices,        \* the slices of a MIG node
          Whole,         \* the one place of a plain node
          Fixture,       \* build_initial_state: what is reported at the start
          NoCommand, NoStatus,
          MaxFaults,     \* bound on failed calls, lost heartbeats, loader restarts
          MaxSent        \* bound on the copies that have not arrived yet

ASSUME FixtureAssumption == Fixture \in [Slices \cup {Whole} -> SUBSET Models]
ASSUME FaultsAssumption == MaxFaults \in Nat
ASSUME SentAssumption == MaxSent \in Nat \ {0}
ASSUME NoCommandAssumption ==
  NoCommand \notin [verb : {"PREWARM", "EVICT"}, place : Slices \cup {Whole}, model : Models]

VARIABLES mode,       \* how the agent was built and started, fixed
          reported,   \* the lists of the payload the reconciler diffs, by place
          hb,         \* the heartbeat loop: where it stands, and the loader's status
          task,       \* the tasks of handle_command
          sent,       \* copies of the payload in the POST or in heartbeatCh
          serving,    \* what the loader serves
          seen,       \* the payload the scheduler saw last
          desired,    \* the scheduler's desired state
          faults

agent     == <<reported, hb, task>>
scheduler == <<seen, desired>>
vars      == <<mode, agent, sent, serving, scheduler, faults>>

Modes  == {"plain", "mig", "mockPlain", "mockMig"}
Mig    == mode \in {"mig", "mockMig"}
Mock   == mode \in {"mockPlain", "mockMig"}
Places == IF Mig THEN Slices ELSE {Whole}

Command(v, p, m) == [verb |-> v, place |-> p, model |-> m]
Idle == [pc |-> "idle", cmd |-> NoCommand]

\* A production loader starts empty, whatever the agent first reports.
Init ==
  /\ mode \in Modes
  /\ reported = [p \in Places |-> Fixture[p]]
  /\ hb = [pc |-> "tick", status |-> NoStatus]
  /\ task = [t \in Tasks |-> Idle]
  /\ sent = <<>>
  /\ serving = {}
  /\ seen = [p \in Places |-> {}]
  /\ desired = [p \in Places |-> {}]
  /\ faults = 0

Fault == faults < MaxFaults /\ faults' = faults + 1

-----------------------------------------------------------------------------
(* The heartbeat loop.                                                     *)

\* GET /status of the loader, awaited without the lock; a mock build never asks.
FetchStatus ==
  /\ hb.pc = "tick" /\ ~Mock
  /\ \/ hb' = [pc |-> "write", status |-> serving] /\ UNCHANGED faults
     \/ hb' = [pc |-> "write", status |-> NoStatus] /\ Fault
  /\ UNCHANGED <<mode, reported, task, sent, serving, scheduler>>

\* Under the lock: a mock build reports its fixture again, a production build
\* what the loader said.  Slices are never rewritten.
Overwritten_Never ==                   \* a slip: the loader's answer is not taken over
  reported
Overwritten_MockFirst ==               \* a slip: a mock MIG node reports its fixture again
  IF Mock THEN [p \in Places |-> Fixture[p]]
  ELSE IF Mig \/ hb.status = NoStatus THEN reported
  ELSE [p \in Places |-> hb.status]
Overwritten_SlicesToo ==               \* a slip: slices get the loader's list, too
  IF Mock \/ hb.status = NoStatus THEN reported ELSE [p \in Places |-> hb.status]
Overwritten ==
  IF Mig THEN reported
  ELSE IF Mock THEN [p \in Places |-> Fixture[p]]
  ELSE IF hb.status = NoStatus THEN reported
  ELSE [p \in Places |-> hb.status]

WritePayload ==
  /\ hb.pc = IF Mock THEN "tick" ELSE "write"
  /\ reported' = Overwritten
  /\ hb' = [pc |-> "send", status |-> NoStatus]
  /\ UNCHANGED <<mode, task, sent, serving, scheduler, faults>>

\* The lock is taken anew to copy the payload, and the copy is sent without it; a
\* POST that fails, or finds the channel full, is only logged.
SendPayload ==
  /\ hb.pc = "send"
  /\ \/ Len(sent) < MaxSent /\ sent' = Append(sent, reported) /\ UNCHANGED faults
     \/ sent' = sent /\ Fault
  /\ hb' = [hb EXCEPT !.pc = "tick"]
  /\ UNCHANGED <<mode, reported, task, serving, scheduler>>

Heartbeat == FetchStatus \/ WritePayload \/ SendPayload

-----------------------------------------------------------------------------
(* The scheduler, from outside.                                            *)

\* The reconciler takes the oldest heartbeat, whatever the node has become since.
Arrive ==
  /\ sent # <<>>
  /\ seen' = Head(sent) /\ sent' = Tail(sent)
  /\ UNCHANGED <<mode, agent, serving, desired, faults>>

\* A placement on this node; nothing is ever removed.
AddDesired(p, m) ==
  /\ m \notin desired[p]
  /\ desired' = [desired EXCEPT ![p] = @ \cup {m}]
  /\ UNCHANGED <<mode, agent, sent, serving, seen, faults>>

\* The commands for the payload last seen; a place without desires is let be.
Missing(p)  == {Command("PREWARM", p, m) : m \in desired[p] \ seen[p]}
Unwanted(p) == IF desired[p] = {} THEN {}
               ELSE {Command("EVICT", p, m) : m \in seen[p] \ desired[p]}
Drift == UNION {Missing(p) \cup Unwanted(p) : p \in Places}

Receive(t, c) ==
  /\ task[t] = Idle /\ c \in Drift
  /\ task' = [task EXCEPT ![t] = [pc |-> "calling", cmd |-> c]]
  /\ UNCHANGED <<mode, reported, hb, sent, serving, scheduler, faults>>

-----------------------------------------------------------------------------
(* The loader, from outside, and handle_command around it.                 *)

\* The loader has done what the task asked for, and the task gets its answer,
\* unless nobody listens to the task any more.
LoaderDone_AlwaysLoads(t) ==           \* a slip: both arms of the match call /load
  /\ task[t].pc \in {"calling", "late"}
  /\ serving' = serving \cup {task[t].cmd.model}
  /\ task' = [task EXCEPT ![t] = IF @.pc = "late" THEN Idle ELSE [@ EXCEPT !.pc = "answered"]]
  /\ UNCHANGED <<mode, reported, hb, sent, scheduler, faults>>
LoaderDone(t) ==
  /\ task[t].pc \in {"calling", "late"}
  /\ LET c == task[t].cmd IN
       serving' = IF c.verb = "PREWARM" THEN serving \cup {c.model} ELSE serving \ {c.model}
  /\ task' = [task EXCEPT ![t] = IF @.pc = "late" THEN Idle ELSE [@ EXCEPT !.pc = "answered"]]
  /\ UNCHANGED <<mode, reported, hb, sent, scheduler, faults>>

LoaderRefuses(t) ==
  /\ task[t].pc \in {"calling", "late"} /\ Fault
  /\ task' = [task EXCEPT ![t] = Idle]
  /\ UNCHANGED <<mode, reported, hb, sent, serving, scheduler>>

\* A load outlasts the scheduler's 5 s client timeout (main.go:136): the handler
\* is dropped with its connection, the load goes on.
TimeOut(t) ==
  /\ task[t].pc = "calling"
  /\ task[t].cmd.verb = "PREWARM" /\ task[t].cmd.model \notin serving
  /\ task' = [task EXCEPT ![t].pc = "late"]
  /\ UNCHANGED <<mode, reported, hb, sent, serving, scheduler, faults>>

\* mark_loaded and mark_evicted, in the list of the command's place.
Mark_Forgotten(t) ==                   \* a slip: the payload is not corrected
  /\ task[t].pc = "answered"
  /\ task' = [task EXCEPT ![t] = Idle]
  /\ UNCHANGED <<mode, reported, hb, sent, serving, scheduler, faults>>
Mark(t) ==
  /\ task[t].pc = "answered"
  /\ LET c == task[t].cmd IN
       reported' = [reported EXCEPT ![c.place] = IF c.verb = "PREWARM" THEN @ \cup {c.model}
                                                 ELSE @ \ {c.model}]
  /\ task' = [task EXCEPT ![t] = Idle]
  /\ UNCHANGED <<mode, hb, sent, serving, scheduler, faults>>

LoaderRestart ==
  /\ Fault
  /\ serving' = {}
  /\ UNCHANGED <<mode, agent, sent, scheduler>>

-----------------------------------------------------------------------------
Next == \/ Heartbeat \/ Arrive \/ LoaderRestart
        \/ \E p \in Places, m \in Models : AddDesired(p, m)
        \/ \E t \in Tasks : \/ \E c \in Drift : Receive(t, c)
                            \/ LoaderDone(t) \/ LoaderRefuses(t) \/ TimeOut(t) \/ Mark(t)

\* The loop ticks, what it sent arrives and the tasks run; the loader ends what it
\* began; the reconciler sends a command again until it is not needed any more.
Fairness ==
  /\ WF_vars(Heartbeat) /\ WF_vars(Arrive)
  /\ \A t \in Tasks : WF_vars(LoaderDone(t)) /\ WF_vars(Mark(t))
  /\ \A v \in {"PREWARM", "EVICT"}, p \in Slices \cup {Whole}, m \in Models :
       SF_vars(\E t \in Tasks : Receive(t, Command(v, p, m)))

Spec == Init /\ [][Next]_vars /\ Fairness

-----------------------------------------------------------------------------
(* Properties.                                                             *)

\* Types; the task's places are places of this node (main.rs:388-390).
TypeOK ==
  /\ mode \in Modes
  /\ reported \in [Places -> SUBSET Models] /\ seen \in [Places -> SUBSET Models]
  /\ hb.pc \in {"tick", "write", "send"} /\ (hb.status = NoStatus \/ hb.status \subseteq Models)
  /\ \A t \in Tasks : task[t] = Idle \/ /\ task[t].pc \in {"calling", "late", "answered"}
                                        /\ task[t].cmd.place \in Places
  /\ \A i \in DOMAIN sent : sent[i] \in [Places -> SUBSET Models]
  /\ Len(sent) <= MaxSent
  /\ serving \subseteq Models
  /\ faults \in 0..MaxFaults

\* No model comes to be served or reported that was neither asked for nor in the
\* fixture: nothing gets into another slice's list, and no late answer, old status
\* or dropped handler brings in a model of its own (main.rs:453-470).
NothingUnasked ==
  /\ serving \subseteq UNION {desired[p] : p \in Places}
  /\ \A p \in Places :
       /\ reported[p] \cup seen[p] \subseteq Fixture[p] \cup desired[p]
       /\ \A i \in DOMAIN sent : sent[i][p] \subseteq Fixture[p] \cup desired[p]

\* A node that reports what is desired, with no command to send, under way or
\* still at the loader, and no older heartbeat on its way, stays so until something
\* more is desired or, without MIG, the loader restarts: the heartbeat loop does not
\* write over what the tasks have marked (main.rs:442-452).  A mock node without MIG
\* does (243-270).
AsDesired(lists) == \A p \in Places : desired[p] # {} => lists[p] = desired[p]
Settled ==
  /\ mode # "mockPlain"
  /\ Drift = {} /\ \A t \in Tasks : task[t] = Idle
  /\ AsDesired(reported) /\ \A i \in DOMAIN sent : AsDesired(sent[i])
  /\ mode = "plain" /\ desired[Whole] # {} =>
       serving = desired[Whole] /\ hb.status \in {NoStatus, serving}
SettledStays ==
  [][Settled /\ desired' = desired /\ (mode = "plain" => serving' = serving) => Settled']_vars

\* To the control loop a MIG node's agent is what AgentInterface says: its lists
\* change only by commands it took, each at its own slice and once, whatever the
\* loader does, refuses or forgets (main.rs:387-430).
Interface == INSTANCE AgentInterface WITH
  loaded <- reported,
  taken  <- [t \in Tasks |-> IF task[t].pc \in {"calling", "answered"} THEN task[t].cmd ELSE NoCommand]
ImplementsInterface == [][Mig => Interface!Next]_(Interface!ivars)

\* On a production node without MIG the loader ends up serving exactly what the
\* scheduler wants there and the heartbeats say so: neither a status read before
\* a load and written after it (main.rs:269-277), nor a mark made after the
\* opposite call, nor a handler dropped by the timeout has lasting effect.
ServesDesired ==
  <>[](mode = "plain" /\ desired[Whole] # {}
         => serving = desired[Whole] /\ reported[Whole] = serving)

\* On every node but a mock one without MIG the commands end: a model that was
\* loaded or evicted shows in the list the reconciler diffs (main.rs:442-452).
CommandsEnd ==
  mode # "mockPlain" => <>[](Drift = {} /\ \A t \in Tasks : task[t] = Idle)

-----------------------------------------------------------------------------
\* "It represents the *actual* state of a GPU as observed by nvidia-smi (or mock)"
\* (reconciler.go:12-13): what a production node reports at a slice it was given
\* work for comes to be what the loader serves.
HonestReports ==
  <>[](mode = "mig" => \A p \in Places : desired[p] # {} => reported[p] \subseteq serving)
=============================================================================
