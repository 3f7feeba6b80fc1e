----------------------------- MODULE Reconciler -----------------------------
(***************************************************************************)
(* The control loop: agents send heartbeats, the reconciler goroutine      *)
(* (scheduler/reconciler/reconciler.go) applies them to the registry and   *)
(* every tick diffs desired against reported state, and the action         *)
(* goroutine (handleActions, dispatchToAgent in scheduler/main.go) sends   *)
(* the commands, each on a goroutine of its own.  Heartbeats and actions   *)
(* travel in bounded channels: the heartbeat handler never blocks, the     *)
(* reconciler does.                                                        *)
(*                                                                         *)
(* The nodes are MIG nodes and a place is a slice of one: what an agent    *)
(* reports of a slice changes by the commands it carries out, by nothing   *)
(* else: Agent shows it of such a node (AgentInterface).  A node without   *)
(* MIG, whose list the heartbeat loop rewrites, is in Agent only.          *)
(***************************************************************************)
EXTENDS Integers, Sequences, FiniteSets

CONSTANTS Nodes, Places, Models,
          NodeOf,        \* the node of each place
          Fixture,       \* what an agent that starts reports at each place
          Lists,         \* the lists of models SetDesired is called with
          NoEntry,       \* a place without an entry in desiredState
          Absent,        \* a node without an entry in the registry
          HbCap, ActCap, \* capacities of the two channels
          MaxInFlight,   \* bound on copies of one command on their way
          MaxFaults      \* bound on crashes, lost commands, late heartbeats, and
                         \* calls of SetDesired and RemoveDesired

ASSUME PlaceAssumption ==
  /\ NodeOf \in [Places -> Nodes]
  /\ Fixture \in [Places -> SUBSET Models]
  /\ Lists \subseteq SUBSET Models

ASSUME NoEntryAssumption == \A ms \in SUBSET Models : ms # NoEntry

ASSUME BoundAssumption ==
  /\ HbCap \in Nat \ {0} /\ ActCap \in Nat \ {0}
  /\ MaxInFlight \in Nat \ {0} /\ MaxFaults \in Nat

VARIABLES
  up,         \* agents that run and can be reached
  loaded,     \* what the agents report, place by place
  hbCh,       \* copies of payloads on their way: in a POST, then in heartbeatCh
  registry,   \* each node's last heartbeat applied, its age and Healthy flag
  desired,    \* desiredState
  placing,    \* requests decided and not yet committed: model and place
  rec,        \* the reconciler goroutine
  actionCh,   \* actionCh
  inflight,   \* commands on their way to agents, how many of each
  faults,     \* faults so far
  announced   \* history: MARK_DEADs per node since its last heartbeat

agents  == <<up, loaded>>
handler == <<desired, placing>>
vars == <<agents, hbCh, registry, handler, rec, actionCh, inflight, faults, announced>>

PlacesOf(n) == {p \in Places : NodeOf[p] = n}
\* What the registry keeps of a node.
Entries(n)  == [loaded : [PlacesOf(n) -> SUBSET Models], healthy : BOOLEAN, old : BOOLEAN]

ASSUME AbsentAssumption == \A n \in Nodes : Absent \notin Entries(n)

\* announced counts one, two, many.
Counted(k)  == IF k < 2 THEN k + 1 ELSE k

Known(n)    == registry[n] # Absent
Healthy(n)  == IF Known(n) THEN registry[n].healthy ELSE FALSE
StaleNodes_EveryTick == {n \in Nodes : IF Known(n) THEN registry[n].old ELSE FALSE}  \* a slip: no Healthy test
StaleNodes  == {n \in Nodes : IF Known(n) THEN registry[n].healthy /\ registry[n].old ELSE FALSE}

Command(v, p, m) == [verb |-> v, place |-> p, model |-> m]
Commands == {Command(v, p, m) : v \in {"PREWARM", "EVICT"}, p \in Places, m \in Models}
MarkDeadOf(n) == [verb |-> "MARK_DEAD", node |-> n]

Init ==
  /\ up = Nodes /\ loaded = Fixture
  /\ hbCh = <<>>
  /\ registry = [n \in Nodes |-> Absent]
  /\ desired = [p \in Places |-> NoEntry]
  /\ placing = {}
  /\ rec = [pc |-> "idle", todo |-> {}, out |-> {}]
  /\ actionCh = <<>>
  /\ inflight = [c \in Commands |-> 0]
  /\ faults = 0
  /\ announced = [n \in Nodes |-> 0]

-----------------------------------------------------------------------------
(* Agents.                                                                 *)

\* The agent copies its payload and posts the copy (main.rs:284-293); its slices
\* may change before the copy is applied.  Where on its way a copy is shows only
\* when the scheduler restarts.  The handler never blocks: when the channel is full
\* the answer is 503 and the heartbeat is lost (main.go:67-72).
SendHeartbeat(n) ==
  /\ n \in up
  /\ Len(hbCh) < HbCap
  /\ hbCh' = Append(hbCh, [node |-> n, loaded |-> [p \in PlacesOf(n) |-> loaded[p]]])
  /\ UNCHANGED <<agents, registry, handler, rec, actionCh, inflight, faults, announced>>

\* A command arrives: the agent has the loader do it, then reports it done
\* (mark_loaded, mark_evicted in agent/src/main.rs:453-488).
Execute_Unreported(c) ==             \* a slip: the agent does the work and reports nothing
  /\ inflight[c] > 0 /\ NodeOf[c.place] \in up
  /\ inflight' = [inflight EXCEPT ![c] = @ - 1]
  /\ UNCHANGED <<agents, hbCh, registry, handler, rec, actionCh, faults, announced>>
Execute(c) ==
  /\ inflight[c] > 0 /\ NodeOf[c.place] \in up
  /\ inflight' = [inflight EXCEPT ![c] = @ - 1]
  /\ loaded' = [loaded EXCEPT ![c.place] = IF c.verb = "PREWARM" THEN @ \cup {c.model}
                                           ELSE @ \ {c.model}]
  /\ UNCHANGED <<up, hbCh, registry, handler, rec, actionCh, faults, announced>>

Fault == faults < MaxFaults /\ faults' = faults + 1

\* The agent is gone, or, as a fault, the loader refuses or the 5 s client timeout
\* strikes first: an error is logged, nothing is retried here (main.go:206-228).
Lose(c) ==
  /\ inflight[c] > 0
  /\ \/ NodeOf[c.place] \notin up /\ UNCHANGED faults
     \/ NodeOf[c.place] \in up /\ Fault
  /\ inflight' = [inflight EXCEPT ![c] = @ - 1]
  /\ UNCHANGED <<agents, hbCh, registry, handler, rec, actionCh, announced>>

Crash(n) ==
  /\ Fault /\ n \in up
  /\ up' = up \ {n}
  /\ UNCHANGED <<loaded, hbCh, registry, handler, rec, actionCh, inflight, announced>>

Restart(n) ==
  /\ n \notin up
  /\ up' = up \cup {n}
  /\ loaded' = [p \in Places |-> IF NodeOf[p] = n THEN Fixture[p] ELSE loaded[p]]
  /\ UNCHANGED <<hbCh, registry, handler, rec, actionCh, inflight, faults, announced>>

-----------------------------------------------------------------------------
(* POST /schedule, as far as desired state goes.                           *)

\* Decided and not yet committed; each model is asked for once at a time.
Wanted(m, p) == IF desired[p] = NoEntry THEN FALSE ELSE m \in desired[p]
Asked(m)     == (\E q \in placing : q[1] = m) \/ \E p \in Places : Wanted(m, p)

Decide(m, p) ==
  /\ ~Asked(m) /\ Healthy(NodeOf[p])
  /\ placing' = placing \cup {<<m, p>>}
  /\ UNCHANGED <<agents, hbCh, registry, desired, rec, actionCh, inflight, faults, announced>>

\* AddDesired: one more model at the place; idempotent.
DesiredWith_Replacing(p, m) == {m}      \* a slip: SetDesired for AddDesired
DesiredWith(p, m) == (IF desired[p] = NoEntry THEN {} ELSE desired[p]) \cup {m}

AddDesired(m, p) ==
  /\ <<m, p>> \in placing
  /\ placing' = placing \ {<<m, p>>}
  /\ desired' = [desired EXCEPT ![p] = DesiredWith(p, m)]
  /\ UNCHANGED <<agents, hbCh, registry, rec, actionCh, inflight, faults, announced>>

\* RemoveDesired: an entry stays, empty if need be; without one nothing happens.
RemoveDesired(m, p) ==
  /\ Fault /\ Wanted(m, p)
  /\ desired' = [desired EXCEPT ![p] = @ \ {m}]
  /\ UNCHANGED <<agents, hbCh, registry, placing, rec, actionCh, inflight, announced>>

\* SetDesired replaces the list, whatever was added since.
SetDesired(p, ms) ==
  /\ Fault /\ desired[p] # ms
  /\ desired' = [desired EXCEPT ![p] = ms]
  /\ UNCHANGED <<agents, hbCh, registry, placing, rec, actionCh, inflight, announced>>

-----------------------------------------------------------------------------
(* The reconciler goroutine: heartbeats and ticks, one at a time.          *)

ApplyHeartbeat ==
  /\ rec.pc = "idle" /\ hbCh # <<>>
  /\ LET hb == Head(hbCh) IN
       /\ registry' = [registry EXCEPT ![hb.node] =
                         [loaded |-> hb.loaded, healthy |-> TRUE, old |-> FALSE]]
       /\ announced' = [announced EXCEPT ![hb.node] = 0]
  /\ hbCh' = Tail(hbCh)
  /\ UNCHANGED <<agents, handler, rec, actionCh, inflight, faults>>

\* Two seconds pass without a heartbeat applied: for a node that is down, or,
\* as a fault, for one whose heartbeats were late or turned away.
GrowOld(n) ==
  /\ Known(n) /\ ~registry[n].old
  /\ \/ n \notin up /\ UNCHANGED faults
     \/ n \in up /\ Fault
  /\ registry' = [registry EXCEPT ![n].old = TRUE]
  /\ UNCHANGED <<agents, hbCh, handler, rec, actionCh, inflight, announced>>

\* A tick: reconcile first collects the stale nodes.
Tick ==
  /\ rec.pc = "idle"
  /\ rec' = [pc |-> "stale", todo |-> StaleNodes, out |-> {}]
  /\ UNCHANGED <<agents, hbCh, registry, handler, actionCh, inflight, faults, announced>>

MarkUnhealthy_OnlyAnnounces(n) ==    \* a slip: the registry is not told
  /\ rec.pc = "stale" /\ rec.out = {} /\ n \in rec.todo
  /\ rec' = [rec EXCEPT !.todo = @ \ {n}, !.out = {MarkDeadOf(n)}]
  /\ announced' = [announced EXCEPT ![n] = Counted(@)]
  /\ UNCHANGED <<agents, hbCh, registry, handler, actionCh, inflight, faults>>
MarkUnhealthy(n) ==
  /\ rec.pc = "stale" /\ rec.out = {} /\ n \in rec.todo
  /\ registry' = [registry EXCEPT ![n].healthy = FALSE]
  /\ rec' = [rec EXCEPT !.todo = @ \ {n}, !.out = {MarkDeadOf(n)}]
  /\ announced' = [announced EXCEPT ![n] = Counted(@)]
  /\ UNCHANGED <<agents, hbCh, handler, actionCh, inflight, faults>>

\* Then it takes All() and diffs the places of the healthy nodes.
StartDiff ==
  /\ rec.pc = "stale" /\ rec.todo = {} /\ rec.out = {}
  /\ rec' = [rec EXCEPT !.pc = "diff", !.todo = {p \in Places : Healthy(NodeOf[p])}]
  /\ UNCHANGED <<agents, hbCh, registry, handler, actionCh, inflight, faults, announced>>

\* What one place needs.  Desired state is read once per place, before any send.
\* No slice is skipped as unhealthy: agents report theirs healthy (main.rs:213).
Missing_EveryTick(p) == {Command("PREWARM", p, m) : m \in desired[p]}   \* a slip: loaded or not
Missing(p) == {Command("PREWARM", p, m) : m \in desired[p] \ registry[NodeOf[p]].loaded[p]}
Unwanted_Never(p) == {}              \* a slip: nothing is evicted
Unwanted(p) == {Command("EVICT", p, m) : m \in registry[NodeOf[p]].loaded[p] \ desired[p]}
Drift_Unmanaged(p) ==                \* a slip: hasDesired is not looked at
  IF desired[p] = NoEntry
  THEN {Command("EVICT", p, m) : m \in registry[NodeOf[p]].loaded[p]}
  ELSE Missing(p) \cup Unwanted(p)
Drift(p) == IF desired[p] = NoEntry THEN {} ELSE Missing(p) \cup Unwanted(p)

DiffPlace(p) ==
  /\ rec.pc = "diff" /\ rec.out = {} /\ p \in rec.todo
  /\ rec' = [rec EXCEPT !.todo = @ \ {p}, !.out = Drift(p)]
  /\ UNCHANGED <<agents, hbCh, registry, handler, actionCh, inflight, faults, announced>>

\* r.actions <-: blocks while the channel is full; prewarms go before evictions.
SendAction_NoBound ==                \* a slip: the channel is never full
  /\ \E a \in rec.out :
       /\ actionCh' = Append(actionCh, a)
       /\ rec' = [rec EXCEPT !.out = @ \ {a}]
  /\ UNCHANGED <<agents, hbCh, registry, handler, inflight, faults, announced>>
SendAction ==
  /\ Len(actionCh) < ActCap
  /\ \E a \in rec.out :
       /\ a.verb = "EVICT" => \A b \in rec.out : b.verb = "EVICT"
       /\ actionCh' = Append(actionCh, a)
       /\ rec' = [rec EXCEPT !.out = @ \ {a}]
  /\ UNCHANGED <<agents, hbCh, registry, handler, inflight, faults, announced>>

EndTick ==
  /\ rec.pc = "diff" /\ rec.todo = {} /\ rec.out = {}
  /\ rec' = [rec EXCEPT !.pc = "idle"]
  /\ UNCHANGED <<agents, hbCh, registry, handler, actionCh, inflight, faults, announced>>

Reconcile == \/ \E n \in Nodes : MarkUnhealthy(n)
             \/ StartDiff \/ SendAction \/ EndTick
             \/ \E p \in Places : DiffPlace(p)

-----------------------------------------------------------------------------
(* handleActions: a MARK_DEAD is only logged; a command gets a goroutine.  *)

\* Every node with an action is known (CommandsAreAddressed), and agents always
\* report their address, so the drop of main.go:189 does not happen.
Launched(a) == IF inflight[a] < MaxInFlight THEN inflight[a] + 1 ELSE inflight[a]

HandleAction_ReturnsOnDead ==        \* a slip: the loop ends at a MARK_DEAD
  /\ actionCh # <<>> /\ Head(actionCh).verb # "MARK_DEAD"
  /\ actionCh' = Tail(actionCh)
  /\ inflight' = [inflight EXCEPT ![Head(actionCh)] = Launched(Head(actionCh))]
  /\ UNCHANGED <<agents, hbCh, registry, handler, rec, faults, announced>>
HandleAction ==
  /\ actionCh # <<>>
  /\ actionCh' = Tail(actionCh)
  /\ LET a == Head(actionCh) IN
       inflight' = IF a.verb = "MARK_DEAD" THEN inflight
                   ELSE [inflight EXCEPT ![a] = Launched(a)]
  /\ UNCHANGED <<agents, hbCh, registry, handler, rec, faults, announced>>

\* The scheduler process dies and starts again: everything it knew was in
\* memory; requests already on the wire still arrive, the last heartbeats among them.
SchedulerRestart ==
  /\ Fault
  /\ \E k \in 1..(Len(hbCh) + 1) : hbCh' = SubSeq(hbCh, k, Len(hbCh))
  /\ actionCh' = <<>> /\ placing' = {}
  /\ registry' = [n \in Nodes |-> Absent]
  /\ desired' = [p \in Places |-> NoEntry]
  /\ rec' = [pc |-> "idle", todo |-> {}, out |-> {}]
  /\ announced' = [n \in Nodes |-> 0]
  /\ UNCHANGED <<agents, inflight>>

-----------------------------------------------------------------------------
Next == \/ \E n \in Nodes : SendHeartbeat(n) \/ Crash(n) \/ Restart(n) \/ GrowOld(n)
        \/ \E c \in Commands : Execute(c) \/ Lose(c)
        \/ \E m \in Models, p \in Places : Decide(m, p) \/ AddDesired(m, p) \/ RemoveDesired(m, p)
        \/ \E p \in Places, ms \in Lists : SetDesired(p, ms)
        \/ ApplyHeartbeat \/ Tick \/ Reconcile \/ HandleAction \/ SchedulerRestart

\* Goroutines run; the select of Run is fair between heartbeats and ticks; an
\* agent that runs gets heartbeats through and does not refuse a command it is
\* sent over and over; a node that is down is found old.
Fairness ==
  /\ WF_vars(Reconcile) /\ SF_vars(ApplyHeartbeat) /\ SF_vars(Tick) /\ WF_vars(HandleAction)
  /\ \A n \in Nodes : SF_vars(SendHeartbeat(n)) /\ WF_vars(n \notin up /\ GrowOld(n))
  /\ \A c \in Commands : WF_vars(Execute(c) \/ Lose(c))
  /\ \A m \in Models, p \in Places : WF_vars(AddDesired(m, p))

Spec == Init /\ [][Next]_vars /\ Fairness

-----------------------------------------------------------------------------
(* Properties.                                                             *)

\* Types, and the bounds of the two channels (main.go:33-34).
TypeOK ==
  /\ up \subseteq Nodes
  /\ loaded \in [Places -> SUBSET Models]
  /\ Len(hbCh) <= HbCap /\ Len(actionCh) <= ActCap
  /\ \A n \in Nodes : Known(n) => registry[n] \in Entries(n)
  /\ \A p \in Places : desired[p] = NoEntry \/ desired[p] \subseteq Models
  /\ placing \subseteq Models \X Places
  /\ rec.pc \in {"idle", "stale", "diff"}
  /\ rec.out \subseteq Commands \cup {MarkDeadOf(n) : n \in Nodes}
  /\ inflight \in [Commands -> 0..MaxInFlight]
  /\ faults \in 0..MaxFaults

\* A node that stops is announced dead once, not on every tick until it comes
\* back (node_registry.go:236-239).
DeadAnnouncedOnce == \A n \in Nodes : announced[n] <= 1

\* Commands are decided for places of healthy nodes, and any that waits to be
\* dispatched is for a place with desired state on a node the registry knows,
\* whatever was marked dead, removed or replaced since: no address is missing and
\* no command is dropped at the dispatch (reconciler.go:200, 209; main.go:189).
Pending == rec.out \cup {actionCh[k] : k \in 1..Len(actionCh)}
CommandsAreAddressed ==
  /\ \A a \in rec.out : a.verb # "MARK_DEAD" => Healthy(NodeOf[a.place])
  /\ \A a \in Pending : a.verb # "MARK_DEAD" => desired[a.place] # NoEntry /\ Known(NodeOf[a.place])

\* A place that holds what is desired of it, with every report of it saying so and
\* no command for it under way, stays so until its desired state changes or its
\* agent restarts: nothing that goes on at other places or nodes, no death, late
\* heartbeat or tick starts the place moving again (reconciler.go:204-248).
Settled(p) ==
  /\ desired[p] # NoEntry /\ loaded[p] = desired[p]
  /\ \A k \in 1..Len(hbCh) : hbCh[k].node = NodeOf[p] => hbCh[k].loaded[p] = desired[p]
  /\ Known(NodeOf[p]) => registry[NodeOf[p]].loaded[p] = desired[p]
  /\ \A a \in Pending : a.verb # "MARK_DEAD" => a.place # p
  /\ \A c \in Commands : c.place = p => inflight[c] = 0
SettledStays ==
  [][\A p \in Places :
       Settled(p) /\ desired'[p] = desired[p] /\ ~(NodeOf[p] \notin up /\ NodeOf[p] \in up')
         => Settled(p)']_vars

\* A tick always ends, although the reconciler blocks whenever the action
\* channel is full: nothing it waits for waits for it (reconciler.go:196-249).
TicksEnd == rec.pc # "idle" ~> rec.pc = "idle"

\* A node that stays down is taken out of placement, even when heartbeats it
\* sent before are still queued and bring it back for a while.
DeathsAreFound == \A n \in Nodes : n \notin up ~> (n \in up \/ ~Healthy(n))

\* Once faults are over, every place of a running node that has desired state
\* comes to hold exactly that, nothing where all was removed, and keeps it:
\* commands that were lost, repeated or overtaken by newer ones, or by a removal
\* between the diff and the send, are made good (reconciler.go:57-59, 113-131).
Converges ==
  <>[](\A p \in Places : NodeOf[p] \in up /\ desired[p] # NoEntry => loaded[p] = desired[p])

\* Then no command to a MIG node is sent any more: what its tasks mark stays in the
\* lists that are diffed (agent/src/main.rs:445-452).  To a mock node without MIG
\* they are sent for ever (main.rs:255-259), see CommandsEnd in Agent.
GoesQuiet == <>[](actionCh = <<>> /\ \A c \in Commands : inflight[c] = 0)

\* Without faults and removals a placement decided for a client ends with the model loaded
\* where it was decided, to stay, whatever else is placed there.
PlacementsAreServed ==
  [](faults = 0) =>
    \A m \in Models, p \in Places : <<m, p>> \in placing ~> [](m \in loaded[p])

-----------------------------------------------------------------------------
\* "NODE DOWN ... workloads will be rescheduled" (main.go:165): a model that is
\* desired on a node that has been announced dead gets loaded on a running node,
\* or its node comes back.
WorkloadsRescheduled ==
  \A m \in Models, p \in Places :
    (Wanted(m, p) /\ announced[NodeOf[p]] > 0)
      ~> \/ ~Wanted(m, p) \/ NodeOf[p] \in up
         \/ \E q \in Places : NodeOf[q] \in up /\ m \in loaded[q]
=============================================================================
