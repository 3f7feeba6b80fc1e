-------------------------- MODULE ReconcilerProofs --------------------------
(***************************************************************************)
(* Proofs about the control loop (Reconciler), for any nodes, places,      *)
(* models and channel capacities: its types, that a node that stops is     *)
(* announced dead once, that every command that waits has an address, and  *)
(* that a settled place is left alone.                                     *)
(***************************************************************************)
EXTENDS Reconciler, SequenceTheorems, TLAPS

Heartbeats == UNION {[node : {n}, loaded : [PlacesOf(n) -> SUBSET Models]] : n \in Nodes}
Actions    == Commands \cup {MarkDeadOf(n) : n \in Nodes}

\* The types of all that travels and of all that is kept; the diff comes only to
\* places of nodes the registry knows.
TypeInv ==
  /\ TypeOK
  /\ hbCh \in Seq(Heartbeats) /\ actionCh \in Seq(Actions)
  /\ DOMAIN registry = Nodes
  /\ desired \in [Places -> (SUBSET Models) \cup {NoEntry}]
  /\ rec \in [pc : {"idle", "stale", "diff"}, todo : SUBSET (Nodes \cup Places), out : SUBSET Actions]
  /\ rec.pc = "stale" => rec.todo \subseteq Nodes
  /\ rec.pc = "diff" => rec.todo \subseteq {p \in Places : Known(NodeOf[p])}

\* A healthy node is not announced, and the nodes a tick found stale stay healthy
\* until it marks them: nothing else takes a node's health in between.
HealthInv ==
  /\ announced \in [Nodes -> 0..1]
  /\ \A n \in Nodes : Healthy(n) => announced[n] = 0
  /\ rec.pc = "stale" => \A n \in rec.todo : Healthy(n)

Inv == TypeInv /\ HealthInv

-----------------------------------------------------------------------------
(* What the helpers return.                                                *)

\* A command names its place and its model, and no command is a MARK_DEAD.
LEMMA CommandTypes ==
  /\ \A c \in Commands : /\ c.verb \in {"PREWARM", "EVICT"}
                         /\ c.place \in Places /\ c.model \in Models
  /\ \A v \in {"PREWARM", "EVICT"}, p \in Places, m \in Models : Command(v, p, m) \in Commands
  /\ \A n \in Nodes : MarkDeadOf(n).verb = "MARK_DEAD" /\ MarkDeadOf(n) \in Actions
  /\ \A a \in Actions : a.verb # "MARK_DEAD" => a \in Commands
  /\ Commands \subseteq Actions
<1>1. ASSUME NEW c \in Commands
      PROVE  c.verb \in {"PREWARM", "EVICT"} /\ c.place \in Places /\ c.model \in Models
  BY DEF Commands, Command
<1>2. \A v \in {"PREWARM", "EVICT"}, p \in Places, m \in Models : Command(v, p, m) \in Commands
  BY DEF Commands
<1>3. \A n \in Nodes : MarkDeadOf(n).verb = "MARK_DEAD" /\ MarkDeadOf(n) \in Actions
  BY DEF MarkDeadOf, Actions
<1>4. \A a \in Actions : a.verb # "MARK_DEAD" => a \in Commands
  BY <1>3 DEF Actions
<1> QED BY <1>1, <1>2, <1>3, <1>4 DEF Actions

\* A known node's entry keeps its types when a flag changes, and is an entry still.
LEMMA EntryTypes ==
  ASSUME NEW n \in Nodes, NEW e \in Entries(n), NEW b \in BOOLEAN
  PROVE  /\ [e EXCEPT !.old = b] \in Entries(n) /\ [e EXCEPT !.healthy = b] \in Entries(n)
         /\ [e EXCEPT !.old = b].healthy = e.healthy /\ [e EXCEPT !.healthy = b].healthy = b
         /\ e # Absent /\ [e EXCEPT !.old = b] # Absent /\ [e EXCEPT !.healthy = b] # Absent
<1>1. [e EXCEPT !.old = b] \in Entries(n) /\ [e EXCEPT !.healthy = b] \in Entries(n)
  BY DEF Entries
<1>2. [e EXCEPT !.old = b].healthy = e.healthy /\ [e EXCEPT !.healthy = b].healthy = b
  BY DEF Entries
<1> QED BY <1>1, <1>2, AbsentAssumption

\* What a place of a known node needs is made of commands.
LEMMA DriftTypes ==
  ASSUME TypeInv, NEW p \in Places, Known(NodeOf[p])
  PROVE  Drift(p) \subseteq Commands
<1>1. NodeOf[p] \in Nodes /\ p \in PlacesOf(NodeOf[p])
  BY PlaceAssumption DEF PlacesOf
<1>2. registry[NodeOf[p]] \in Entries(NodeOf[p]) BY <1>1 DEF TypeInv, TypeOK
<1>3. registry[NodeOf[p]].loaded[p] \subseteq Models BY <1>1, <1>2 DEF Entries
<1>4. CASE desired[p] = NoEntry BY <1>4 DEF Drift
<1>5. CASE desired[p] # NoEntry
  <2>1. desired[p] \subseteq Models BY <1>5 DEF TypeInv, TypeOK
  <2>2. Missing(p) \subseteq Commands BY <2>1, CommandTypes DEF Missing
  <2>3. Unwanted(p) \subseteq Commands BY <1>3, CommandTypes DEF Unwanted
  <2> QED BY <1>5, <2>2, <2>3 DEF Drift
<1> QED BY <1>4, <1>5

\* What the heartbeat channel holds.
LEMMA HeartbeatTypes ==
  ASSUME NEW h \in Heartbeats
  PROVE  /\ h.node \in Nodes
         /\ [loaded |-> h.loaded, healthy |-> TRUE, old |-> FALSE] \in Entries(h.node)
BY DEF Heartbeats, Entries

-----------------------------------------------------------------------------
(* The steps.                                                              *)

\* The registry in the steps of the reconciler that change one node's entry.
LEMMA RegistryEntry ==
  ASSUME TypeInv, NEW n \in Nodes, NEW e \in Entries(n), registry' = [registry EXCEPT ![n] = e]
  PROVE  /\ DOMAIN registry' = Nodes
         /\ \A k \in Nodes : Known(k)' => registry'[k] \in Entries(k)
         /\ \A k \in Nodes : Known(k) => Known(k)'
         /\ \A k \in Nodes : k # n => (Healthy(k)' <=> Healthy(k))
         /\ Healthy(n)' <=> e.healthy
<1>1. /\ DOMAIN registry' = Nodes /\ registry'[n] = e
      /\ \A k \in Nodes : k # n => registry'[k] = registry[k]
  BY DEF TypeInv
<1>2. e # Absent /\ e.healthy \in BOOLEAN BY AbsentAssumption DEF Entries
<1> QED BY <1>1, <1>2 DEF TypeInv, TypeOK, Known, Healthy

\* Every step keeps the types: of the agents, of the handlers, of each step of a tick.
LEMMA TypeStep ==
  ASSUME Inv, [Next]_vars
  PROVE  TypeInv'
<1> USE PlaceAssumption, BoundAssumption DEF agents, handler
<1>0. TypeInv BY DEF Inv
<1>1. ASSUME NEW n \in Nodes, SendHeartbeat(n) PROVE TypeInv'
  <2> DEFINE h == [node |-> n, loaded |-> [p \in PlacesOf(n) |-> loaded[p]]]
  <2>1. h \in Heartbeats
    <3>1. \A p \in PlacesOf(n) : loaded[p] \in SUBSET Models BY <1>0 DEF TypeInv, TypeOK, PlacesOf
    <3> QED BY <3>1 DEF Heartbeats
  <2>2. hbCh' = Append(hbCh, h) /\ Len(hbCh) < HbCap BY <1>1 DEF SendHeartbeat
  <2>3. hbCh \in Seq(Heartbeats) BY <1>0 DEF TypeInv
  <2> HIDE DEF h
  <2>4. hbCh' \in Seq(Heartbeats) /\ Len(hbCh') <= HbCap BY <2>1, <2>2, <2>3
  <2> QED BY <2>4, <1>0, <1>1 DEF SendHeartbeat, TypeInv, TypeOK, Known
<1>2. ASSUME NEW n \in Nodes, Crash(n) \/ Restart(n) PROVE TypeInv'
  <2>1. up' \subseteq Nodes /\ loaded' \in [Places -> SUBSET Models] /\ faults' \in 0..MaxFaults
    BY <1>0, <1>2 DEF Crash, Restart, Fault, TypeInv, TypeOK
  <2> QED BY <2>1, <1>0, <1>2 DEF Crash, Restart, TypeInv, TypeOK, Known
<1>3. ASSUME NEW n \in Nodes, GrowOld(n) PROVE TypeInv'
  <2>1. registry[n] \in Entries(n) BY <1>0, <1>3 DEF GrowOld, TypeInv, TypeOK
  <2> DEFINE e == [registry[n] EXCEPT !.old = TRUE]
  <2>2. e \in Entries(n) BY <2>1, EntryTypes
  <2>3. registry' = [registry EXCEPT ![n] = e] BY <1>3 DEF GrowOld
  <2> HIDE DEF e
  <2>4. /\ DOMAIN registry' = Nodes /\ \A k \in Nodes : Known(k)' => registry'[k] \in Entries(k)
        /\ \A k \in Nodes : Known(k) => Known(k)'
    BY <1>0, <2>2, <2>3, RegistryEntry
  <2>5. faults' \in 0..MaxFaults BY <1>0, <1>3 DEF GrowOld, Fault, TypeInv, TypeOK
  <2> QED BY <2>4, <2>5, <1>0, <1>3 DEF GrowOld, TypeInv, TypeOK
<1>4. ASSUME NEW c \in Commands, Execute(c) \/ Lose(c) PROVE TypeInv'
  <2>1. c.place \in Places /\ c.model \in Models BY CommandTypes
  <2>2. inflight' \in [Commands -> 0..MaxInFlight]
    <3>1. inflight[c] \in 0..MaxInFlight /\ inflight \in [Commands -> 0..MaxInFlight]
      BY <1>0 DEF TypeInv, TypeOK
    <3>2. inflight[c] > 0 /\ inflight' = [inflight EXCEPT ![c] = inflight[c] - 1]
      BY <1>4 DEF Execute, Lose
    <3>3. inflight[c] - 1 \in 0..MaxInFlight BY <3>1, <3>2
    <3> QED BY <3>1, <3>2, <3>3
  <2>3. loaded' \in [Places -> SUBSET Models]
    <3>1. loaded \in [Places -> SUBSET Models] BY <1>0 DEF TypeInv, TypeOK
    <3>2. CASE Execute(c)
      <4> DEFINE now == IF c.verb = "PREWARM" THEN loaded[c.place] \cup {c.model}
                        ELSE loaded[c.place] \ {c.model}
      <4>1. loaded' = [loaded EXCEPT ![c.place] = now] BY <3>2 DEF Execute
      <4>2. now \in SUBSET Models BY <2>1, <3>1
      <4> HIDE DEF now
      <4> QED BY <2>1, <3>1, <4>1, <4>2
    <3>3. CASE Lose(c) BY <3>1, <3>3 DEF Lose
    <3> QED BY <1>4, <3>2, <3>3
  <2>4. faults' \in 0..MaxFaults BY <1>0, <1>4 DEF Execute, Lose, Fault, TypeInv, TypeOK
  <2> QED BY <2>2, <2>3, <2>4, <1>0, <1>4 DEF Execute, Lose, TypeInv, TypeOK, Known
<1>5. ASSUME NEW m \in Models, NEW p \in Places, Decide(m, p) \/ AddDesired(m, p) \/ RemoveDesired(m, p)
      PROVE  TypeInv'
  <2>1. desired' \in [Places -> (SUBSET Models) \cup {NoEntry}]
    BY <1>0, <1>5 DEF Decide, AddDesired, DesiredWith, RemoveDesired, Wanted, TypeInv
  <2>2. placing' \subseteq Models \X Places
    BY <1>0, <1>5 DEF Decide, AddDesired, RemoveDesired, TypeInv, TypeOK
  <2>3. faults' \in 0..MaxFaults
    BY <1>0, <1>5 DEF Decide, AddDesired, RemoveDesired, Fault, TypeInv, TypeOK
  <2>4. \A q \in Places : desired'[q] = NoEntry \/ desired'[q] \subseteq Models BY <2>1
  <2> QED BY <2>1, <2>2, <2>3, <2>4, <1>0, <1>5
             DEF Decide, AddDesired, RemoveDesired, TypeInv, TypeOK, Known
<1>6. ASSUME NEW p \in Places, NEW ms \in Lists, SetDesired(p, ms) PROVE TypeInv'
  <2>1. desired' \in [Places -> (SUBSET Models) \cup {NoEntry}]
    BY <1>0, <1>6 DEF SetDesired, TypeInv
  <2>2. faults' \in 0..MaxFaults BY <1>0, <1>6 DEF SetDesired, Fault, TypeInv, TypeOK
  <2> QED BY <2>1, <2>2, <1>0, <1>6 DEF SetDesired, TypeInv, TypeOK, Known
<1>7. CASE ApplyHeartbeat
  <2> DEFINE h == Head(hbCh)
             e == [loaded |-> h.loaded, healthy |-> TRUE, old |-> FALSE]
  <2>1. h \in Heartbeats /\ hbCh' \in Seq(Heartbeats) /\ Len(hbCh') <= HbCap
    BY <1>0, <1>7 DEF ApplyHeartbeat, TypeInv, TypeOK
  <2>2. h.node \in Nodes /\ e \in Entries(h.node) BY <2>1, HeartbeatTypes
  <2>3. registry' = [registry EXCEPT ![h.node] = e] BY <1>7 DEF ApplyHeartbeat
  <2> HIDE DEF h, e
  <2>4. /\ DOMAIN registry' = Nodes /\ \A k \in Nodes : Known(k)' => registry'[k] \in Entries(k)
        /\ \A k \in Nodes : Known(k) => Known(k)'
    BY <1>0, <2>2, <2>3, RegistryEntry
  <2> QED BY <2>1, <2>4, <1>0, <1>7 DEF ApplyHeartbeat, TypeInv, TypeOK
<1>8. CASE Tick
  <2>1. StaleNodes \subseteq Nodes BY DEF StaleNodes
  <2> QED BY <2>1, <1>0, <1>8 DEF Tick, TypeInv, TypeOK, Known
<1>9. ASSUME NEW n \in Nodes, MarkUnhealthy(n) PROVE TypeInv'
  <2>1. Healthy(n) BY <1>9 DEF MarkUnhealthy, Inv, HealthInv
  <2>2. registry[n] \in Entries(n) BY <1>0, <2>1 DEF Healthy, TypeInv, TypeOK
  <2> DEFINE e == [registry[n] EXCEPT !.healthy = FALSE]
  <2>3. e \in Entries(n) BY <2>2, EntryTypes
  <2>4. registry' = [registry EXCEPT ![n] = e] BY <1>9 DEF MarkUnhealthy
  <2> HIDE DEF e
  <2>5. /\ DOMAIN registry' = Nodes /\ \A k \in Nodes : Known(k)' => registry'[k] \in Entries(k)
        /\ \A k \in Nodes : Known(k) => Known(k)'
    BY <1>0, <2>3, <2>4, RegistryEntry
  <2>6. {MarkDeadOf(n)} \subseteq Actions BY CommandTypes
  <2> QED BY <2>5, <2>6, <1>0, <1>9 DEF MarkUnhealthy, TypeInv, TypeOK, Actions
<1>10. CASE StartDiff
  <2>1. {p \in Places : Healthy(NodeOf[p])} \subseteq {p \in Places : Known(NodeOf[p])}
    BY DEF Healthy
  <2> QED BY <2>1, <1>0, <1>10 DEF StartDiff, TypeInv, TypeOK, Known
<1>11. ASSUME NEW p \in Places, DiffPlace(p) PROVE TypeInv'
  <2>1. Known(NodeOf[p]) BY <1>0, <1>11 DEF DiffPlace, TypeInv
  <2>2. Drift(p) \subseteq Commands BY <1>0, <2>1, DriftTypes
  <2> QED BY <2>2, <1>0, <1>11 DEF DiffPlace, TypeInv, TypeOK, Known, Actions
<1>12. CASE SendAction
  <2>1. PICK a \in rec.out : actionCh' = Append(actionCh, a) /\ rec' = [rec EXCEPT !.out = @ \ {a}]
    BY <1>12 DEF SendAction
  <2>2. a \in Actions /\ actionCh \in Seq(Actions) BY <1>0, <2>1 DEF TypeInv
  <2>3. actionCh' \in Seq(Actions) /\ Len(actionCh') <= ActCap
    BY <1>12, <2>1, <2>2 DEF SendAction
  <2> QED BY <2>1, <2>3, <1>0, <1>12 DEF SendAction, TypeInv, TypeOK, Known, Actions
<1>13. CASE EndTick
  BY <1>0, <1>13 DEF EndTick, TypeInv, TypeOK, Known
<1>14. CASE HandleAction
  <2> DEFINE a == Head(actionCh)
  <2>1. a \in Actions /\ actionCh' \in Seq(Actions) /\ Len(actionCh') <= ActCap
    BY <1>0, <1>14 DEF HandleAction, TypeInv, TypeOK
  <2>2. inflight' \in [Commands -> 0..MaxInFlight]
    <3>1. CASE a.verb = "MARK_DEAD"
      BY <3>1, <1>0, <1>14 DEF HandleAction, TypeInv, TypeOK
    <3>2. CASE a.verb # "MARK_DEAD"
      <4>1. a \in Commands BY <3>2, <2>1, CommandTypes
      <4>2. inflight' = [inflight EXCEPT ![a] = Launched(a)] BY <3>2, <1>14 DEF HandleAction
      <4> HIDE DEF a
      <4>3. inflight[a] \in 0..MaxInFlight BY <4>1, <1>0 DEF TypeInv, TypeOK
      <4>4. Launched(a) \in 0..MaxInFlight BY <4>3 DEF Launched
      <4> QED BY <4>1, <4>2, <4>4, <1>0 DEF TypeInv, TypeOK
    <3> QED BY <3>1, <3>2
  <2> QED BY <2>1, <2>2, <1>0, <1>14 DEF HandleAction, TypeInv, TypeOK, Known
<1>15. CASE SchedulerRestart
  <2>1. faults' \in 0..MaxFaults BY <1>0, <1>15 DEF SchedulerRestart, Fault, TypeInv, TypeOK
  <2>2. Len(hbCh') <= HbCap /\ hbCh' \in Seq(Heartbeats)
    <3>1. hbCh \in Seq(Heartbeats) /\ Len(hbCh) <= HbCap /\ Len(hbCh) \in Nat
      BY <1>0, LenProperties DEF TypeInv, TypeOK
    <3>2. PICK k \in 1..(Len(hbCh) + 1) : hbCh' = SubSeq(hbCh, k, Len(hbCh))
      BY <1>15 DEF SchedulerRestart
    <3>3. hbCh' \in Seq(Heartbeats) /\ Len(hbCh') = IF k <= Len(hbCh) THEN Len(hbCh) - k + 1 ELSE 0
      BY <3>1, <3>2, SubSeqProperties
    <3> QED BY <3>1, <3>3
  <2>5. Len(actionCh') = 0 /\ actionCh' \in Seq(Actions)
    BY <1>15 DEF SchedulerRestart
  <2>3. /\ desired' \in [Places -> (SUBSET Models) \cup {NoEntry}]
        /\ \A q \in Places : desired'[q] = NoEntry
        /\ \A n \in Nodes : ~Known(n)'
        /\ DOMAIN registry' = Nodes
    BY <1>15 DEF SchedulerRestart, Known
  <2>4. rec' \in [pc : {"idle", "stale", "diff"}, todo : SUBSET (Nodes \cup Places), out : SUBSET Actions]
        /\ rec'.pc = "idle" /\ rec'.out = {}
    BY <1>15 DEF SchedulerRestart
  <2> QED BY <2>1, <2>2, <2>3, <2>4, <2>5, <1>0, <1>15 DEF SchedulerRestart, TypeInv, TypeOK, Known
<1>16. CASE UNCHANGED vars
  BY <1>0, <1>16 DEF vars, TypeInv, TypeOK, Known
<1> QED
  BY <1>1, <1>2, <1>3, <1>4, <1>5, <1>6, <1>7, <1>8, <1>9, <1>10, <1>11, <1>12, <1>13,
     <1>14, <1>15, <1>16
  DEF Next, Reconcile

\* The health of the nodes, and what was announced of them, in the steps that
\* leave both and the reconciler alone.
LEMMA HealthKept ==
  ASSUME Inv, UNCHANGED <<registry, announced>>,
         rec'.pc = "stale" => rec.pc = "stale" /\ rec'.todo \subseteq rec.todo
  PROVE  HealthInv'
BY DEF Inv, HealthInv, Healthy, Known

\* Every step keeps the health and the announcements together: only the tick marks,
\* only a heartbeat revives.
LEMMA HealthStep ==
  ASSUME Inv, [Next]_vars
  PROVE  HealthInv'
<1> USE PlaceAssumption DEF agents, handler
<1>0. TypeInv /\ HealthInv BY DEF Inv
<1>1. ASSUME NEW n \in Nodes, GrowOld(n) PROVE HealthInv'
  <2>1. registry[n] \in Entries(n) BY <1>0, <1>1 DEF GrowOld, TypeInv, TypeOK
  <2> DEFINE e == [registry[n] EXCEPT !.old = TRUE]
  <2>2. e \in Entries(n) /\ e.healthy = registry[n].healthy BY <2>1, EntryTypes
  <2>3. registry' = [registry EXCEPT ![n] = e] BY <1>1 DEF GrowOld
  <2> HIDE DEF e
  <2>4. (\A k \in Nodes : k # n => (Healthy(k)' <=> Healthy(k))) /\ (Healthy(n)' <=> e.healthy)
    BY <1>0, <2>2, <2>3, RegistryEntry
  <2>5. Healthy(n) <=> registry[n].healthy BY <1>1 DEF GrowOld, Healthy
  <2>6. \A k \in Nodes : Healthy(k)' <=> Healthy(k) BY <2>2, <2>4, <2>5
  <2>7. UNCHANGED <<rec, announced>> /\ (rec.pc = "stale" => rec.todo \subseteq Nodes)
    BY <1>0, <1>1 DEF GrowOld, TypeInv
  <2> QED BY <1>0, <2>6, <2>7 DEF HealthInv
<1>2. CASE ApplyHeartbeat
  <2> DEFINE h == Head(hbCh)
             e == [loaded |-> h.loaded, healthy |-> TRUE, old |-> FALSE]
  <2>1. h \in Heartbeats BY <1>0, <1>2 DEF ApplyHeartbeat, TypeInv
  <2>2. h.node \in Nodes /\ e \in Entries(h.node) BY <2>1, HeartbeatTypes
  <2>3. /\ registry' = [registry EXCEPT ![h.node] = e]
        /\ announced' = [announced EXCEPT ![h.node] = 0]
        /\ rec.pc = "idle" /\ rec' = rec
    BY <1>2 DEF ApplyHeartbeat
  <2> HIDE DEF h, e
  <2>4. \A k \in Nodes : k # h.node => (Healthy(k)' <=> Healthy(k))
    BY <1>0, <2>2, <2>3, RegistryEntry
  <2>5. announced' \in [Nodes -> 0..1] /\ announced'[h.node] = 0
        /\ \A k \in Nodes : k # h.node => announced'[k] = announced[k]
    BY <1>0, <2>2, <2>3 DEF HealthInv
  <2> QED BY <1>0, <2>3, <2>4, <2>5 DEF HealthInv
<1>3. CASE Tick
  <2>1. \A n \in StaleNodes : Healthy(n) BY DEF StaleNodes, Healthy
  <2>2. rec'.todo = StaleNodes /\ UNCHANGED <<registry, announced>> BY <1>3 DEF Tick
  <2> QED BY <1>0, <2>1, <2>2 DEF HealthInv, Healthy, Known
<1>4. ASSUME NEW n \in Nodes, MarkUnhealthy(n) PROVE HealthInv'
  <2>1. Healthy(n) /\ announced[n] = 0 BY <1>0, <1>4 DEF MarkUnhealthy, HealthInv
  <2>2. registry[n] \in Entries(n) BY <1>0, <2>1 DEF Healthy, TypeInv, TypeOK
  <2> DEFINE e == [registry[n] EXCEPT !.healthy = FALSE]
  <2>3. e \in Entries(n) /\ e.healthy = FALSE BY <2>2, EntryTypes
  <2>4. registry' = [registry EXCEPT ![n] = e] BY <1>4 DEF MarkUnhealthy
  <2> HIDE DEF e
  <2>5. (\A k \in Nodes : k # n => (Healthy(k)' <=> Healthy(k))) /\ ~Healthy(n)'
    BY <1>0, <2>3, <2>4, RegistryEntry
  <2>6. /\ announced' \in [Nodes -> 0..1]
        /\ \A k \in Nodes : k # n => announced'[k] = announced[k]
    BY <1>0, <1>4, <2>1 DEF MarkUnhealthy, Counted, HealthInv
  <2>7. rec'.todo = rec.todo \ {n} /\ rec.pc = "stale" /\ rec.todo \subseteq Nodes
    BY <1>0, <1>4 DEF MarkUnhealthy, TypeInv
  <2> QED BY <1>0, <2>5, <2>6, <2>7 DEF HealthInv
<1>5. CASE SchedulerRestart
  <2>1. /\ announced' = [n \in Nodes |-> 0] /\ rec'.pc = "idle"
    BY <1>5 DEF SchedulerRestart
  <2> QED BY <2>1 DEF HealthInv
<1>6. StartDiff \/ SendAction \/ EndTick => HealthInv'
  BY <1>0, HealthKept DEF StartDiff, SendAction, EndTick, TypeInv
<1>7. ASSUME NEW p \in Places, DiffPlace(p) PROVE HealthInv'
  BY <1>0, <1>7, HealthKept DEF DiffPlace, TypeInv
<1>8. CASE UNCHANGED <<registry, announced, rec>>
  BY <1>8, HealthKept
<1>9. ASSUME NEW n \in Nodes, SendHeartbeat(n) \/ Crash(n) \/ Restart(n)
      PROVE  UNCHANGED <<registry, announced, rec>>
  BY <1>9 DEF SendHeartbeat, Crash, Restart
<1>10. ASSUME NEW c \in Commands, Execute(c) \/ Lose(c) PROVE UNCHANGED <<registry, announced, rec>>
  BY <1>10 DEF Execute, Lose
<1>11. ASSUME NEW m \in Models, NEW p \in Places, Decide(m, p) \/ AddDesired(m, p) \/ RemoveDesired(m, p)
       PROVE  UNCHANGED <<registry, announced, rec>>
  BY <1>11 DEF Decide, AddDesired, RemoveDesired
<1>12. ASSUME NEW p \in Places, NEW ms \in Lists, SetDesired(p, ms)
       PROVE  UNCHANGED <<registry, announced, rec>>
  BY <1>12 DEF SetDesired
<1>13. HandleAction \/ UNCHANGED vars => UNCHANGED <<registry, announced, rec>>
  BY DEF HandleAction, vars
<1> QED
  BY <1>1, <1>2, <1>3, <1>4, <1>5, <1>6, <1>7, <1>8, <1>9, <1>10, <1>11, <1>12, <1>13
  DEF Next, Reconcile

-----------------------------------------------------------------------------
(* The theorems.                                                           *)

\* No node is known and nothing is desired.
LEMMA InitInv == Init => Inv
<1> SUFFICES ASSUME Init PROVE Inv OBVIOUS
<1> USE PlaceAssumption, BoundAssumption DEF Init
<1>1. /\ \A n \in Nodes : ~Known(n) /\ ~Healthy(n)
      /\ \A p \in Places : desired[p] = NoEntry
  BY DEF Known, Healthy
<1>2. Len(hbCh) = 0 /\ Len(actionCh) = 0 /\ hbCh \in Seq(Heartbeats) /\ actionCh \in Seq(Actions)
  OBVIOUS
<1>3. rec \in [pc : {"idle", "stale", "diff"}, todo : SUBSET (Nodes \cup Places), out : SUBSET Actions]
      /\ rec.pc = "idle" /\ rec.out = {}
  OBVIOUS
<1>4. inflight \in [Commands -> 0..MaxInFlight] /\ faults \in 0..MaxFaults
  OBVIOUS
<1>5. TypeInv BY <1>1, <1>2, <1>3, <1>4 DEF TypeInv, TypeOK
<1>6. HealthInv BY <1>1, <1>3 DEF HealthInv
<1> QED BY <1>5, <1>6 DEF Inv

\* The invariant holds in every state, whatever is lost, repeated or late.
THEOREM Invariance == Spec => []Inv
<1>1. Inv /\ [Next]_vars => Inv' BY TypeStep, HealthStep DEF Inv
<1> QED BY InitInv, <1>1, PTL DEF Spec

\* Heartbeats, actions and commands keep to their types and the two channels to
\* their capacities; the diff asks only of nodes it knows (main.go:33-34).
THEOREM Types == Spec => []TypeOK
<1>1. Inv => TypeOK BY DEF Inv, TypeInv
<1> QED BY Invariance, <1>1, PTL

\* A node that stops is announced dead once until it is heard of again, however
\* ticks, heartbeats and restarts interleave (node_registry.go:236-239).
THEOREM AnnouncedOnce == Spec => []DeadAnnouncedOnce
<1>1. Inv => DeadAnnouncedOnce BY DEF Inv, HealthInv, DeadAnnouncedOnce
<1> QED BY Invariance, <1>1, PTL

-----------------------------------------------------------------------------
(* Which steps change what the dispatch and the diff read.                 *)

\* Reports change by commands and restarts, the queue of heartbeats and the
\* registry by heartbeats, desired state by the handlers, and everything of the
\* scheduler's by its restart.
LEMMA WhoChanges ==
  ASSUME [Next]_vars
  PROVE  /\ \/ UNCHANGED loaded
            \/ \E c \in Commands : Execute(c)
            \/ \E n \in Nodes : Restart(n)
         /\ \/ UNCHANGED hbCh
            \/ \E n \in Nodes : SendHeartbeat(n)
            \/ ApplyHeartbeat \/ SchedulerRestart
         /\ \/ UNCHANGED registry
            \/ \E n \in Nodes : GrowOld(n) \/ MarkUnhealthy(n)
            \/ ApplyHeartbeat \/ SchedulerRestart
         /\ \/ UNCHANGED desired
            \/ \E m \in Models, p \in Places : AddDesired(m, p) \/ RemoveDesired(m, p)
            \/ \E p \in Places, ms \in Lists : SetDesired(p, ms)
            \/ SchedulerRestart
         /\ \/ UNCHANGED <<rec, actionCh>>
            \/ Tick \/ StartDiff \/ SendAction \/ EndTick \/ HandleAction \/ SchedulerRestart
            \/ \E n \in Nodes : MarkUnhealthy(n)
            \/ \E p \in Places : DiffPlace(p)
         /\ \/ UNCHANGED inflight
            \/ \E c \in Commands : Execute(c) \/ Lose(c)
            \/ HandleAction
<1> USE DEF agents, handler
<1>1. ASSUME NEW n \in Nodes, SendHeartbeat(n)
      PROVE  UNCHANGED <<loaded, registry, desired, rec, actionCh, inflight>>
  BY <1>1 DEF SendHeartbeat
<1>2. ASSUME NEW n \in Nodes, Crash(n)
      PROVE  UNCHANGED <<loaded, hbCh, registry, desired, rec, actionCh, inflight>>
  BY <1>2 DEF Crash
<1>3. ASSUME NEW n \in Nodes, Restart(n)
      PROVE  UNCHANGED <<hbCh, registry, desired, rec, actionCh, inflight>>
  BY <1>3 DEF Restart
<1>4. ASSUME NEW n \in Nodes, GrowOld(n)
      PROVE  UNCHANGED <<loaded, hbCh, desired, rec, actionCh, inflight>>
  BY <1>4 DEF GrowOld
<1>5. ASSUME NEW c \in Commands, Execute(c)
      PROVE  UNCHANGED <<hbCh, registry, desired, rec, actionCh>>
  BY <1>5 DEF Execute
<1>6. ASSUME NEW c \in Commands, Lose(c)
      PROVE  UNCHANGED <<loaded, hbCh, registry, desired, rec, actionCh>>
  BY <1>6 DEF Lose
<1>7. ASSUME NEW m \in Models, NEW p \in Places, Decide(m, p)
      PROVE  UNCHANGED <<loaded, hbCh, registry, desired, rec, actionCh, inflight>>
  BY <1>7 DEF Decide
<1>8. ASSUME NEW m \in Models, NEW p \in Places, AddDesired(m, p) \/ RemoveDesired(m, p)
      PROVE  UNCHANGED <<loaded, hbCh, registry, rec, actionCh, inflight>>
  BY <1>8 DEF AddDesired, RemoveDesired
<1>9. ASSUME NEW p \in Places, NEW ms \in Lists, SetDesired(p, ms)
      PROVE  UNCHANGED <<loaded, hbCh, registry, rec, actionCh, inflight>>
  BY <1>9 DEF SetDesired
<1>10. CASE ApplyHeartbeat
  <2>1. UNCHANGED <<loaded, desired, rec, actionCh, inflight>> BY <1>10 DEF ApplyHeartbeat
  <2> QED BY <1>10, <2>1
<1>11. ASSUME Tick \/ StartDiff \/ SendAction \/ EndTick \/ \E p \in Places : DiffPlace(p)
       PROVE  UNCHANGED <<loaded, hbCh, registry, desired, inflight>>
  BY <1>11 DEF Tick, StartDiff, SendAction, EndTick, DiffPlace
<1>12. ASSUME NEW n \in Nodes, MarkUnhealthy(n)
       PROVE  UNCHANGED <<loaded, hbCh, desired, inflight>>
  BY <1>12 DEF MarkUnhealthy
<1>13. CASE HandleAction
  <2>1. UNCHANGED <<loaded, hbCh, registry, desired>> BY <1>13 DEF HandleAction
  <2> QED BY <1>13, <2>1
<1>14. CASE SchedulerRestart
  <2>1. UNCHANGED <<loaded, inflight>> BY <1>14 DEF SchedulerRestart
  <2> QED BY <1>14, <2>1
<1>15. CASE UNCHANGED vars
  BY <1>15 DEF vars
<1> QED
  BY <1>1, <1>2, <1>3, <1>4, <1>5, <1>6, <1>7, <1>8, <1>9, <1>10, <1>11, <1>12, <1>13, <1>14, <1>15
  DEF Next, Reconcile

\* Only the marking of a dead node and the diff of a place put actions out.
LEMMA OutShrinks ==
  ASSUME TypeInv, UNCHANGED rec \/ Tick \/ StartDiff \/ SendAction \/ EndTick \/ HandleAction
  PROVE  rec'.out \subseteq rec.out
<1>0. rec \in [pc : {"idle", "stale", "diff"}, todo : SUBSET (Nodes \cup Places), out : SUBSET Actions]
  BY DEF TypeInv
<1>1. CASE UNCHANGED rec \/ HandleAction
  BY <1>1 DEF HandleAction
<1>2. CASE Tick
  <2>1. rec'.out = {} BY <1>2 DEF Tick
  <2> QED BY <2>1
<1>3. CASE StartDiff
  <2>1. rec'.out = rec.out BY <1>0, <1>3 DEF StartDiff
  <2> QED BY <2>1
<1>4. CASE SendAction
  <2>1. PICK b \in rec.out : rec' = [rec EXCEPT !.out = @ \ {b}] BY <1>4 DEF SendAction
  <2> QED BY <1>0, <2>1
<1>5. CASE EndTick
  <2>1. rec'.out = rec.out BY <1>0, <1>5 DEF EndTick
  <2> QED BY <2>1
<1> QED BY <1>1, <1>2, <1>3, <1>4, <1>5

\* A command that waits was there before, or has just been found by the diff of
\* its place.
LEMMA PendingSource ==
  ASSUME TypeInv, [Next]_vars, NEW a \in Pending'
  PROVE  \/ a \in Pending
         \/ a.verb = "MARK_DEAD"
         \/ \E p \in Places : DiffPlace(p) /\ a \in Drift(p)
<1>0. /\ actionCh \in Seq(Actions)
      /\ rec \in [pc : {"idle", "stale", "diff"}, todo : SUBSET (Nodes \cup Places), out : SUBSET Actions]
  BY DEF TypeInv
<1>1. CASE UNCHANGED <<rec, actionCh>>
  BY <1>1 DEF Pending
<1>2. CASE Tick \/ StartDiff \/ EndTick
  <2>1. actionCh' = actionCh BY <1>2 DEF Tick, StartDiff, EndTick
  <2>2. rec'.out \subseteq rec.out BY <1>0, <1>2, OutShrinks
  <2> QED BY <2>1, <2>2 DEF Pending
<1>3. CASE SendAction
  <2>1. PICK b \in rec.out : actionCh' = Append(actionCh, b) /\ rec' = [rec EXCEPT !.out = @ \ {b}]
    BY <1>3 DEF SendAction
  <2>2. b \in Actions BY <1>0, <2>1
  <2>3. \A k \in 1..Len(actionCh') :
          (k \in 1..Len(actionCh) /\ actionCh'[k] = actionCh[k]) \/ actionCh'[k] = b
    BY <1>0, <2>1, <2>2
  <2>4. rec'.out \subseteq rec.out BY <1>0, <2>1
  <2> QED BY <2>1, <2>3, <2>4 DEF Pending
<1>4. CASE HandleAction
  <2>1. actionCh # <<>> /\ actionCh' = Tail(actionCh) /\ rec' = rec
    BY <1>4 DEF HandleAction
  <2>2. \A k \in 1..Len(actionCh') : k + 1 \in 1..Len(actionCh) /\ actionCh'[k] = actionCh[k + 1]
    BY <1>0, <2>1
  <2> QED BY <2>1, <2>2 DEF Pending
<1>5. CASE SchedulerRestart
  <2>1. Len(actionCh') = 0 /\ rec'.out = {} BY <1>5 DEF SchedulerRestart
  <2> QED BY <2>1 DEF Pending
<1>6. ASSUME NEW n \in Nodes, MarkUnhealthy(n) PROVE a \in Pending \/ a.verb = "MARK_DEAD"
  <2>1. rec'.out = {MarkDeadOf(n)} /\ actionCh' = actionCh
    BY <1>0, <1>6 DEF MarkUnhealthy
  <2> QED BY <2>1, CommandTypes DEF Pending
<1>7. ASSUME NEW p \in Places, DiffPlace(p) PROVE a \in Pending \/ a \in Drift(p)
  <2>1. rec'.out = Drift(p) /\ actionCh' = actionCh
    BY <1>0, <1>7 DEF DiffPlace
  <2> QED BY <2>1 DEF Pending
<1> QED BY <1>1, <1>2, <1>3, <1>4, <1>5, <1>6, <1>7, WhoChanges

\* What the diff of a place finds is for that place, and it finds nothing without
\* desired state.
LEMMA DriftPlace ==
  ASSUME NEW p \in Places, NEW a \in Drift(p)
  PROVE  a.place = p /\ desired[p] # NoEntry /\ a.verb # "MARK_DEAD"
<1>1. desired[p] # NoEntry /\ a \in Missing(p) \cup Unwanted(p) BY DEF Drift
<1> QED BY <1>1 DEF Missing, Unwanted, Command

\* An entry of desired state is never taken away, but by the restart.
LEMMA EntriesStay ==
  ASSUME TypeInv, [Next]_vars, ~SchedulerRestart, NEW p \in Places, desired[p] # NoEntry
  PROVE  desired'[p] # NoEntry
<1>0. desired \in [Places -> (SUBSET Models) \cup {NoEntry}] BY DEF TypeInv
<1>1. ASSUME NEW m \in Models, NEW q \in Places, AddDesired(m, q) PROVE desired'[p] # NoEntry
  <2>1. DesiredWith(q, m) \in SUBSET Models BY <1>0 DEF DesiredWith
  <2>2. DesiredWith(q, m) # NoEntry BY <2>1, NoEntryAssumption
  <2> QED BY <1>0, <1>1, <2>2 DEF AddDesired
<1>2. ASSUME NEW m \in Models, NEW q \in Places, RemoveDesired(m, q) PROVE desired'[p] # NoEntry
  <2>1. desired[q] # NoEntry BY <1>2 DEF RemoveDesired, Wanted
  <2>2. desired[q] \ {m} \in SUBSET Models BY <1>0, <2>1
  <2>3. desired[q] \ {m} # NoEntry BY <2>2, NoEntryAssumption
  <2> QED BY <1>0, <1>2, <2>3 DEF RemoveDesired
<1>3. ASSUME NEW q \in Places, NEW ms \in Lists, SetDesired(q, ms) PROVE desired'[p] # NoEntry
  <2>1. ms # NoEntry BY PlaceAssumption, NoEntryAssumption
  <2> QED BY <1>0, <1>3, <2>1 DEF SetDesired
<1> QED BY <1>1, <1>2, <1>3, WhoChanges

\* A node that is known stays known, but for the restart, and only the tick that
\* marks it takes its health.
LEMMA HealthSource ==
  ASSUME Inv, [Next]_vars, ~SchedulerRestart, NEW n \in Nodes
  PROVE  /\ Known(n) => Known(n)'
         /\ Healthy(n) => Healthy(n)' \/ MarkUnhealthy(n)
<1>0. TypeInv BY DEF Inv
<1>1. CASE UNCHANGED registry
  BY <1>1 DEF Known, Healthy
<1>2. ASSUME NEW k \in Nodes, GrowOld(k)
      PROVE (Known(n) => Known(n)') /\ (Healthy(n) => Healthy(n)')
  <2>1. registry[k] \in Entries(k) BY <1>0, <1>2 DEF GrowOld, TypeInv, TypeOK
  <2> DEFINE e == [registry[k] EXCEPT !.old = TRUE]
  <2>2. e \in Entries(k) /\ e.healthy = registry[k].healthy BY <2>1, EntryTypes
  <2>3. registry' = [registry EXCEPT ![k] = e] BY <1>2 DEF GrowOld
  <2> HIDE DEF e
  <2>4. /\ \A j \in Nodes : Known(j) => Known(j)'
        /\ \A j \in Nodes : j # k => (Healthy(j)' <=> Healthy(j))
        /\ Healthy(k)' <=> e.healthy
    BY <1>0, <2>2, <2>3, RegistryEntry
  <2>5. Healthy(k) <=> registry[k].healthy BY <1>2 DEF GrowOld, Healthy
  <2> QED BY <2>2, <2>4, <2>5
<1>3. ASSUME NEW k \in Nodes, MarkUnhealthy(k)
      PROVE  (Known(n) => Known(n)') /\ (Healthy(n) => Healthy(n)' \/ n = k)
  <2>1. Healthy(k) BY <1>3 DEF MarkUnhealthy, Inv, HealthInv
  <2>2. registry[k] \in Entries(k) BY <1>0, <2>1 DEF Healthy, TypeInv, TypeOK
  <2> DEFINE e == [registry[k] EXCEPT !.healthy = FALSE]
  <2>3. e \in Entries(k) BY <2>2, EntryTypes
  <2>4. registry' = [registry EXCEPT ![k] = e] BY <1>3 DEF MarkUnhealthy
  <2> HIDE DEF e
  <2> QED BY <1>0, <2>3, <2>4, RegistryEntry
<1>4. CASE ApplyHeartbeat
  <2> DEFINE h == Head(hbCh)
             e == [loaded |-> h.loaded, healthy |-> TRUE, old |-> FALSE]
  <2>1. h \in Heartbeats BY <1>0, <1>4 DEF ApplyHeartbeat, TypeInv
  <2>2. h.node \in Nodes /\ e \in Entries(h.node) BY <2>1, HeartbeatTypes
  <2>3. registry' = [registry EXCEPT ![h.node] = e] /\ e.healthy BY <1>4 DEF ApplyHeartbeat
  <2> HIDE DEF h, e
  <2> QED BY <1>0, <2>2, <2>3, RegistryEntry
<1> QED BY <1>1, <1>2, <1>3, <1>4, WhoChanges

-----------------------------------------------------------------------------
(* The address of every command.  The diff comes to places of healthy      *)
(* nodes only, and no node loses its health during a diff.                 *)

AddressInv ==
  /\ CommandsAreAddressed
  /\ rec.pc = "diff" => \A p \in rec.todo : Healthy(NodeOf[p])

\* No command waits at first.
LEMMA AddressInit == Init => AddressInv
<1> SUFFICES ASSUME Init PROVE AddressInv OBVIOUS
<1>1. rec.out = {} /\ rec.pc = "idle" /\ Len(actionCh) = 0 BY DEF Init
<1> QED BY <1>1 DEF AddressInv, CommandsAreAddressed, Pending

\* Every step keeps the addresses: desired entries and known nodes stay, and nodes
\* are marked dead before the diff.
LEMMA AddressStep ==
  ASSUME Inv, AddressInv, [Next]_vars
  PROVE  AddressInv'
<1>0. /\ TypeInv
      /\ rec \in [pc : {"idle", "stale", "diff"}, todo : SUBSET (Nodes \cup Places), out : SUBSET Actions]
      /\ NodeOf \in [Places -> Nodes]
  BY PlaceAssumption DEF Inv, TypeInv
<1>1. CASE SchedulerRestart
  <2>1. rec'.out = {} /\ rec'.pc = "idle" /\ Len(actionCh') = 0 BY <1>1 DEF SchedulerRestart
  <2> QED BY <2>1 DEF AddressInv, CommandsAreAddressed, Pending
<1>2. CASE ~SchedulerRestart
  <2>1. \A p \in Places : desired[p] # NoEntry => desired'[p] # NoEntry
    BY <1>0, <1>2, EntriesStay
  <2>2. \A n \in Nodes : Known(n) => Known(n)'
    BY <1>2, HealthSource
  <2>3. ASSUME NEW a \in Pending, a.verb # "MARK_DEAD" PROVE a.place \in Places
    <3>1. a \in Actions BY <1>0, <2>3 DEF Pending, TypeInv
    <3> QED BY <3>1, <2>3, CommandTypes
  <2>4. ASSUME NEW a \in Pending', a.verb # "MARK_DEAD"
        PROVE  (desired[a.place] # NoEntry)' /\ Known(NodeOf[a.place])'
    <3>1. CASE a \in Pending
      BY <1>0, <2>1, <2>2, <2>3, <2>4, <3>1 DEF AddressInv, CommandsAreAddressed
    <3>2. ASSUME NEW p \in Places, DiffPlace(p), a \in Drift(p)
          PROVE  (desired[a.place] # NoEntry)' /\ Known(NodeOf[a.place])'
      <4>1. a.place = p /\ desired[p] # NoEntry BY <3>2, DriftPlace
      <4>2. Known(NodeOf[p]) BY <3>2, <1>0 DEF DiffPlace, TypeInv
      <4> QED BY <4>1, <4>2, <2>1, <2>2, <1>0
    <3> QED BY <1>0, <2>4, <3>1, <3>2, PendingSource
  <2>5. \/ \E n \in Nodes : MarkUnhealthy(n)
        \/ \A n \in Nodes : Healthy(n) => Healthy(n)'
    BY <1>2, HealthSource
  <2>6. ASSUME NEW n \in Nodes, MarkUnhealthy(n)
        PROVE  rec'.pc = "stale" /\ \A a \in rec'.out : a.verb = "MARK_DEAD"
    BY <1>0, <2>6, CommandTypes DEF MarkUnhealthy
  <2>7. ASSUME \A n \in Nodes : Healthy(n) => Healthy(n)', NEW a \in rec'.out, a.verb # "MARK_DEAD",
               \A n \in Nodes : ~MarkUnhealthy(n)
        PROVE  Healthy(NodeOf[a.place])'
    <3>1. CASE a \in rec.out
      <4>1. a \in Pending BY <3>1 DEF Pending
      <4>2. a.place \in Places BY <4>1, <2>3, <2>7
      <4> QED BY <1>0, <2>7, <3>1, <4>2 DEF AddressInv, CommandsAreAddressed
    <3>2. CASE a \notin rec.out
      <4>1. PICK p \in Places : DiffPlace(p)
        <5>1. UNCHANGED rec \/ Tick \/ StartDiff \/ SendAction \/ EndTick \/ HandleAction
                => rec'.out \subseteq rec.out
          BY <1>0, OutShrinks
        <5> QED BY <1>2, <2>7, <3>2, <5>1, WhoChanges
      <4>2. a \in Drift(p) BY <1>0, <2>7, <4>1 DEF DiffPlace
      <4>3. a.place = p BY <4>2, DriftPlace
      <4>4. Healthy(NodeOf[p]) BY <4>1 DEF DiffPlace, AddressInv
      <4> QED BY <1>0, <2>7, <4>3, <4>4
    <3> QED BY <3>1, <3>2
  <2>8. ASSUME \A n \in Nodes : Healthy(n) => Healthy(n)', rec'.pc = "diff", NEW p \in rec'.todo
        PROVE  Healthy(NodeOf[p])'
    <3>0. p \in Places
      <4>1. TypeInv' BY TypeStep
      <4> QED BY <4>1, <2>8 DEF TypeInv
    <3>1. CASE rec.pc = "diff" /\ p \in rec.todo
      BY <1>0, <2>8, <3>0, <3>1 DEF AddressInv
    <3>2. CASE StartDiff
      <4>1. Healthy(NodeOf[p]) BY <1>0, <2>8, <3>2 DEF StartDiff
      <4> QED BY <1>0, <2>8, <3>0, <4>1
    <3>3. UNCHANGED rec \/ Tick \/ SendAction \/ EndTick \/ HandleAction
            => rec.pc = "diff" /\ p \in rec.todo
      BY <1>0, <2>8 DEF Tick, SendAction, EndTick, HandleAction
    <3>4. ASSUME NEW q \in Places, DiffPlace(q) PROVE rec.pc = "diff" /\ p \in rec.todo
      BY <1>0, <2>8, <3>4 DEF DiffPlace
    <3>5. ASSUME NEW n \in Nodes, MarkUnhealthy(n) PROVE FALSE
      BY <3>5, <2>6, <2>8
    <3> QED BY <1>2, <3>1, <3>2, <3>3, <3>4, <3>5, WhoChanges
  <2>9. CASE \E n \in Nodes : MarkUnhealthy(n)
    BY <2>4, <2>6, <2>9 DEF AddressInv, CommandsAreAddressed
  <2>10. CASE ~\E n \in Nodes : MarkUnhealthy(n)
    BY <2>4, <2>5, <2>7, <2>8, <2>10 DEF AddressInv, CommandsAreAddressed
  <2> QED BY <2>9, <2>10
<1> QED BY <1>1, <1>2

\* No command is dropped for want of an address, and none is decided for a node
\* that is not healthy (reconciler.go:200, 209; main.go:189).
THEOREM Addressed == Spec => []CommandsAreAddressed
<1>1. Inv /\ AddressInv /\ [Next]_vars => AddressInv' BY AddressStep
<1>2. AddressInv => CommandsAreAddressed BY DEF AddressInv
<1> QED BY Invariance, AddressInit, <1>1, <1>2, PTL DEF Spec

-----------------------------------------------------------------------------
(* A place that is settled stays so.                                       *)

\* The places of a node are among its entries.
LEMMA PlaceOfItsNode ==
  ASSUME NEW p \in Places
  PROVE  NodeOf[p] \in Nodes /\ p \in PlacesOf(NodeOf[p])
BY PlaceAssumption DEF PlacesOf

\* A settled place needs nothing, so the diff finds nothing there.
LEMMA SettledNeedsNothing ==
  ASSUME TypeInv, NEW p \in Places, Settled(p), DiffPlace(p)
  PROVE  Drift(p) = {}
<1>1. Known(NodeOf[p]) BY DEF DiffPlace, TypeInv
<1>2. registry[NodeOf[p]].loaded[p] = desired[p] BY <1>1 DEF Settled
<1> QED BY <1>2 DEF Drift, Missing, Unwanted

\* No agent changes what it reports of a settled place, unless it restarts.
LEMMA SettledReport ==
  ASSUME Inv, [Next]_vars, NEW p \in Places, Settled(p),
         ~(NodeOf[p] \notin up /\ NodeOf[p] \in up')
  PROVE  loaded'[p] = loaded[p]
<1>0. loaded \in [Places -> SUBSET Models] /\ up \subseteq Nodes BY DEF Inv, TypeInv, TypeOK
<1>1. ASSUME NEW c \in Commands, Execute(c) PROVE loaded'[p] = loaded[p]
  <2>1. c.place # p BY <1>1 DEF Execute, Settled
  <2> QED BY <1>0, <1>1, <2>1 DEF Execute
<1>2. ASSUME NEW n \in Nodes, Restart(n) PROVE loaded'[p] = loaded[p]
  <2>1. NodeOf[p] # n BY <1>2 DEF Restart
  <2> QED BY <1>2, <2>1 DEF Restart
<1> QED BY <1>1, <1>2, WhoChanges

\* The heartbeats on their way keep saying so.
LEMMA SettledHeartbeats ==
  ASSUME Inv, [Next]_vars, ~SchedulerRestart, NEW p \in Places, Settled(p),
         NEW k \in 1..Len(hbCh'), hbCh'[k].node = NodeOf[p]
  PROVE  hbCh'[k].loaded[p] = desired[p]
<1>0. hbCh \in Seq(Heartbeats) /\ \A j \in 1..Len(hbCh) : hbCh[j].node = NodeOf[p] => hbCh[j].loaded[p] = desired[p]
  BY DEF Inv, TypeInv, Settled
<1>1. CASE UNCHANGED hbCh
  BY <1>0, <1>1
<1>2. ASSUME NEW n \in Nodes, SendHeartbeat(n) PROVE hbCh'[k].loaded[p] = desired[p]
  <2> DEFINE h == [node |-> n, loaded |-> [q \in PlacesOf(n) |-> loaded[q]]]
  <2>1. hbCh' = Append(hbCh, h) BY <1>2 DEF SendHeartbeat
  <2>2. h.node = NodeOf[p] => h.loaded[p] = desired[p] BY PlaceOfItsNode DEF Settled
  <2>3. h \in Heartbeats
    <3>1. \A q \in PlacesOf(n) : loaded[q] \in SUBSET Models BY DEF Inv, TypeInv, TypeOK, PlacesOf
    <3> QED BY <3>1 DEF Heartbeats
  <2> HIDE DEF h
  <2>4. (k \in 1..Len(hbCh) /\ hbCh'[k] = hbCh[k]) \/ hbCh'[k] = h
    BY <1>0, <2>1, <2>3
  <2> QED BY <1>0, <2>2, <2>4
<1>3. CASE ApplyHeartbeat
  <2>1. hbCh # <<>> /\ hbCh' = Tail(hbCh) BY <1>3 DEF ApplyHeartbeat
  <2>2. k + 1 \in 1..Len(hbCh) /\ hbCh'[k] = hbCh[k + 1] BY <1>0, <2>1
  <2> QED BY <1>0, <2>2
<1> QED BY <1>1, <1>2, <1>3, WhoChanges

\* So does what the registry keeps of the node.
LEMMA SettledEntry ==
  ASSUME Inv, [Next]_vars, ~SchedulerRestart, NEW p \in Places, Settled(p), Known(NodeOf[p])'
  PROVE  registry'[NodeOf[p]].loaded[p] = desired[p]
<1> DEFINE n == NodeOf[p]
<1>0. n \in Nodes /\ DOMAIN registry = Nodes BY PlaceOfItsNode DEF Inv, TypeInv
<1>1. Known(n) => registry[n].loaded[p] = desired[p] BY DEF Settled
<1>2. CASE UNCHANGED registry
  BY <1>1, <1>2 DEF Known
<1>3. ASSUME NEW k \in Nodes, GrowOld(k) PROVE registry'[n].loaded[p] = desired[p]
  <2>1. registry[k] \in Entries(k) BY <1>3 DEF GrowOld, Inv, TypeInv, TypeOK
  <2>2. registry' = [registry EXCEPT ![k].old = TRUE] /\ Known(k) BY <1>3 DEF GrowOld
  <2>3. n = k => registry'[n].loaded = registry[n].loaded BY <1>0, <2>1, <2>2 DEF Entries
  <2>4. n # k => registry'[n] = registry[n] BY <1>0, <2>2
  <2> QED BY <1>1, <2>2, <2>3, <2>4 DEF Known
<1>4. ASSUME NEW k \in Nodes, MarkUnhealthy(k) PROVE registry'[n].loaded[p] = desired[p]
  <2>0. Healthy(k) BY <1>4 DEF MarkUnhealthy, Inv, HealthInv
  <2>1. registry[k] \in Entries(k) /\ Known(k) BY <2>0 DEF Healthy, Inv, TypeInv, TypeOK
  <2>2. registry' = [registry EXCEPT ![k].healthy = FALSE] BY <1>4 DEF MarkUnhealthy
  <2>3. n = k => registry'[n].loaded = registry[n].loaded BY <1>0, <2>1, <2>2 DEF Entries
  <2>4. n # k => registry'[n] = registry[n] BY <1>0, <2>2
  <2> QED BY <1>1, <2>1, <2>3, <2>4 DEF Known
<1>5. CASE ApplyHeartbeat
  <2>1. hbCh # <<>> /\ hbCh \in Seq(Heartbeats) BY <1>5 DEF ApplyHeartbeat, Inv, TypeInv
  <2>2. 1 \in 1..Len(hbCh) /\ Head(hbCh) = hbCh[1] BY <2>1
  <2>3. registry' = [registry EXCEPT ![Head(hbCh).node] = [loaded |-> Head(hbCh).loaded, healthy |-> TRUE, old |-> FALSE]]
    BY <1>5 DEF ApplyHeartbeat
  <2>4. Head(hbCh).node = n => Head(hbCh).loaded[p] = desired[p] BY <2>2 DEF Settled
  <2>5. n = Head(hbCh).node => registry'[n].loaded = Head(hbCh).loaded BY <1>0, <2>3
  <2>6. n # Head(hbCh).node => registry'[n] = registry[n] BY <1>0, <2>3
  <2> QED BY <1>1, <2>4, <2>5, <2>6 DEF Known
<1> QED BY <1>2, <1>3, <1>4, <1>5, WhoChanges

\* No command for the place is found, and none is sent on its way.
LEMMA SettledQuiet ==
  ASSUME Inv, [Next]_vars, NEW p \in Places, Settled(p)
  PROVE  /\ \A a \in Pending' : a.verb # "MARK_DEAD" => a.place # p
         /\ \A c \in Commands : c.place = p => inflight'[c] = 0
<1>0. TypeInv /\ actionCh \in Seq(Actions) /\ inflight \in [Commands -> 0..MaxInFlight]
  BY DEF Inv, TypeInv, TypeOK
<1>1. ASSUME NEW a \in Pending', a.verb # "MARK_DEAD", a.place = p PROVE FALSE
  <2>1. CASE a \in Pending
    BY <1>1, <2>1 DEF Settled
  <2>2. ASSUME NEW q \in Places, DiffPlace(q), a \in Drift(q) PROVE FALSE
    <3>1. q = p BY <1>1, <2>2, DriftPlace
    <3> QED BY <1>0, <2>2, <3>1, SettledNeedsNothing
  <2> QED BY <1>0, <1>1, <2>1, <2>2, PendingSource
<1>2. ASSUME NEW c \in Commands, c.place = p PROVE inflight'[c] = 0
  <2>0. inflight[c] = 0 BY <1>2 DEF Settled
  <2>1. ASSUME NEW d \in Commands, Execute(d) \/ Lose(d) PROVE inflight'[c] = 0
    <3>1. inflight[d] > 0 /\ inflight' = [inflight EXCEPT ![d] = inflight[d] - 1]
      BY <2>1 DEF Execute, Lose
    <3>2. c # d BY <2>0, <3>1
    <3> QED BY <1>0, <2>0, <3>1, <3>2
  <2>2. CASE HandleAction
    <3> DEFINE a == Head(actionCh)
    <3>1. a \in Actions /\ a \in Pending
      <4>1. actionCh # <<>> BY <2>2 DEF HandleAction
      <4>2. 1 \in 1..Len(actionCh) /\ a = actionCh[1] BY <1>0, <4>1
      <4> QED BY <1>0, <4>2 DEF Pending
    <3>2. inflight' = IF a.verb = "MARK_DEAD" THEN inflight ELSE [inflight EXCEPT ![a] = Launched(a)]
      BY <2>2 DEF HandleAction
    <3>3. a.verb # "MARK_DEAD" => a # c BY <1>2, <3>1 DEF Settled
    <3> HIDE DEF a
    <3> QED BY <1>0, <2>0, <3>2, <3>3
  <2> QED BY <2>0, <2>1, <2>2, WhoChanges
<1> QED BY <1>1, <1>2

\* Once a place holds what is desired of it, and all that is known and under way
\* agrees, only a new desire or a restart of its agent starts it moving again
\* (reconciler.go:204-248).
THEOREM SettledPlacesStay == Spec => SettledStays
<1> DEFINE Right == \A p \in Places :
                      Settled(p) /\ desired'[p] = desired[p] /\ ~(NodeOf[p] \notin up /\ NodeOf[p] \in up')
                        => Settled(p)'
<1>1. ASSUME Inv, [Next]_vars PROVE Right
  <2> SUFFICES ASSUME NEW p \in Places, Settled(p), desired'[p] = desired[p],
                      ~(NodeOf[p] \notin up /\ NodeOf[p] \in up')
               PROVE  Settled(p)'
    OBVIOUS
  <2>1. desired[p] # NoEntry /\ desired'[p] # NoEntry /\ loaded[p] = desired[p] BY DEF Settled
  <2>2. ~SchedulerRestart BY <2>1 DEF SchedulerRestart
  <2>3. loaded'[p] = desired'[p] BY <1>1, <2>1, SettledReport
  <2>4. \A k \in 1..Len(hbCh') : hbCh'[k].node = NodeOf[p] => hbCh'[k].loaded[p] = desired'[p]
    BY <1>1, <2>2, SettledHeartbeats
  <2>5. Known(NodeOf[p])' => registry'[NodeOf[p]].loaded[p] = desired'[p]
    BY <1>1, <2>2, SettledEntry
  <2>6. /\ \A a \in Pending' : a.verb # "MARK_DEAD" => a.place # p
        /\ \A c \in Commands : c.place = p => inflight'[c] = 0
    BY <1>1, SettledQuiet
  <2> QED BY <2>1, <2>3, <2>4, <2>5, <2>6 DEF Settled
<1>2. Inv /\ [Next]_vars => [Right]_vars BY <1>1
<1> QED BY Invariance, <1>2, PTL DEF Spec, SettledStays
=============================================================================
