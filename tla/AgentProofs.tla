----------------------------- MODULE AgentProofs -----------------------------
(***************************************************************************)
(* Proofs about the node agent, for any models, slices and number of       *)
(* command tasks: its types, that nothing is served or reported unasked,   *)
(* that a settled node stays settled, and that the agent of a MIG node is  *)
(* what the control loop takes it for.                                     *)
(***************************************************************************)
EXTENDS Agent, SequenceTheorems, TLAPS

Commands == [verb : {"PREWARM", "EVICT"}, place : Places, model : Models]
Busy     == [pc : {"calling", "late", "answered"}, cmd : Commands]

Asked == UNION {desired[p] : p \in Places}

\* Types of all that is kept, the commands in the tasks included.
TypeInv ==
  /\ TypeOK
  /\ desired \in [Places -> SUBSET Models]
  /\ hb \in [pc : {"tick", "write", "send"}, status : (SUBSET Models) \cup {NoStatus}]
  /\ task \in [Tasks -> {Idle} \cup Busy]
  /\ sent \in Seq([Places -> SUBSET Models])

\* What is asked for is never taken back, so what a task is to load was asked for
\* at its place, and so was all that the loader says it serves.
AskedInv ==
  /\ NothingUnasked
  /\ hb.status # NoStatus => hb.status \subseteq Asked
  /\ \A t \in Tasks : task[t] # Idle /\ task[t].cmd.verb = "PREWARM"
                        => task[t].cmd.model \in desired[task[t].cmd.place]

Inv == TypeInv /\ AskedInv

-----------------------------------------------------------------------------
(* What the helpers return.                                                *)

\* The places of a node have a fixture, whatever the node is.
LEMMA PlacesHaveFixtures == /\ Places \subseteq Slices \cup {Whole}
                            /\ \A p \in Places : Fixture[p] \in SUBSET Models
<1>1. Places \subseteq Slices \cup {Whole} BY DEF Places
<1> QED BY <1>1, FixtureAssumption

\* What the scheduler sends is a command for a place of the node; what is to be
\* loaded there is desired there.
LEMMA DriftCommands ==
  ASSUME TypeInv, NEW c \in Drift
  PROVE  c \in Commands /\ (c.verb = "PREWARM" => c.model \in desired[c.place])
<1>1. PICK p \in Places : c \in Missing(p) \cup Unwanted(p) BY DEF Drift
<1>2. desired[p] \subseteq Models /\ seen[p] \subseteq Models BY DEF TypeInv, TypeOK
<1>3. CASE c \in Missing(p)
  BY <1>2, <1>3 DEF Missing, Command, Commands
<1>4. CASE c \in Unwanted(p)
  <2>1. PICK m \in seen[p] : c = Command("EVICT", p, m) BY <1>4 DEF Unwanted
  <2> QED BY <1>2, <2>1 DEF Command, Commands
<1> QED BY <1>1, <1>3, <1>4

\* A task that is not idle holds a command.
LEMMA TaskTypes ==
  ASSUME TypeInv, NEW t \in Tasks
  PROVE  /\ task[t] = Idle \/ task[t] \in Busy
         /\ task[t] = Idle => task[t].pc = "idle" /\ task[t].cmd = NoCommand
         /\ task[t].pc # "idle" => /\ task[t] # Idle /\ task[t] \in Busy /\ task[t].cmd \in Commands
                                   /\ task[t].cmd.place \in Places /\ task[t].cmd.model \in Models
                                   /\ task[t].cmd.verb \in {"PREWARM", "EVICT"}
<1>1. task[t] \in {Idle} \cup Busy BY DEF TypeInv
<1>2. task[t] = Idle => task[t].pc = "idle" /\ task[t].cmd = NoCommand BY DEF Idle
<1>3. task[t] \in Busy => task[t].cmd \in Commands BY DEF Busy
<1>4. task[t].cmd \in Commands => /\ task[t].cmd.place \in Places /\ task[t].cmd.model \in Models
                                  /\ task[t].cmd.verb \in {"PREWARM", "EVICT"}
  BY DEF Commands
<1> QED BY <1>1, <1>2, <1>3, <1>4

\* What the heartbeat loop writes is a list for every place.
LEMMA OverwrittenTypes ==
  ASSUME TypeInv
  PROVE  /\ Overwritten \in [Places -> SUBSET Models]
         /\ Mig => Overwritten = reported
<1>1. CASE Mig BY <1>1 DEF Overwritten, TypeInv, TypeOK
<1>2. CASE ~Mig /\ Mock BY <1>2, PlacesHaveFixtures DEF Overwritten
<1>3. CASE ~Mig /\ ~Mock
  <2>1. hb.status \in SUBSET Models \/ hb.status = NoStatus BY DEF TypeInv
  <2> QED BY <1>3, <2>1 DEF Overwritten, TypeInv, TypeOK
<1> QED BY <1>1, <1>2, <1>3

\* No step changes what kind of node this is, and none takes a desire back.
LEMMA ModeStays ==
  ASSUME TypeInv, [Next]_vars
  PROVE  /\ mode' = mode /\ Places' = Places /\ Commands' = Commands /\ Busy' = Busy
         /\ desired' \in [Places -> SUBSET Models]
         /\ \A p \in Places : desired[p] \subseteq desired'[p]
         /\ Asked \subseteq Asked'
<1> USE DEF agent, scheduler
<1>0. desired \in [Places -> SUBSET Models] BY DEF TypeInv
<1>1. mode' = mode /\ (desired' = desired \/ \E p \in Places, m \in Models : AddDesired(p, m))
  BY DEF Next, vars, Heartbeat, FetchStatus, WritePayload, SendPayload, Arrive, LoaderRestart, AddDesired,
         Receive, LoaderDone, LoaderRefuses, TimeOut, Mark
<1>2. Places' = Places BY <1>1 DEF Places, Mig
<1>3. desired' \in [Places -> SUBSET Models] /\ \A p \in Places : desired[p] \subseteq desired'[p]
  <2>1. ASSUME NEW q \in Places, NEW m \in Models, AddDesired(q, m)

        PROVE desired' \in [Places -> SUBSET Models] /\ \A p \in Places : desired[p] \subseteq desired'[p]
    <3>1. desired' = [desired EXCEPT ![q] = desired[q] \cup {m}] BY <2>1 DEF AddDesired
    <3>2. desired[q] \cup {m} \in SUBSET Models BY <1>0
    <3> QED BY <1>0, <3>1, <3>2
  <2> QED BY <1>0, <1>1, <2>1
<1>4. Asked \subseteq Asked' BY <1>2, <1>3 DEF Asked
<1> QED BY <1>1, <1>2, <1>3, <1>4 DEF Commands, Busy

-----------------------------------------------------------------------------
(* The steps of the command tasks.                                         *)

\* What a step makes of its own task; the other tasks are left alone.
LEMMA TaskSteps ==
  ASSUME TypeInv, NEW t \in Tasks
  PROVE  /\ \A c \in Drift : Receive(t, c) =>
              /\ task' = [task EXCEPT ![t] = [pc |-> "calling", cmd |-> c]]
              /\ [pc |-> "calling", cmd |-> c] \in Busy
         /\ LoaderDone(t) =>
              \E x \in {Idle} \cup Busy : /\ task' = [task EXCEPT ![t] = x]
                                          /\ x # Idle => x.cmd = task[t].cmd /\ x.pc = "answered"
                                          /\ task[t].pc = "calling" => x # Idle
                                          /\ task[t].pc = "late" => x = Idle
         /\ LoaderRefuses(t) \/ Mark(t) => task' = [task EXCEPT ![t] = Idle]
         /\ TimeOut(t) =>
              \E x \in Busy : /\ task' = [task EXCEPT ![t] = x]
                              /\ x.cmd = task[t].cmd /\ x.pc = "late"
<1>1. ASSUME NEW c \in Drift, Receive(t, c)
      PROVE  task' = [task EXCEPT ![t] = [pc |-> "calling", cmd |-> c]]
             /\ [pc |-> "calling", cmd |-> c] \in Busy
  BY <1>1, DriftCommands DEF Receive, Busy
<1>2. ASSUME LoaderDone(t)
      PROVE  \E x \in {Idle} \cup Busy : /\ task' = [task EXCEPT ![t] = x]
                                         /\ x # Idle => x.cmd = task[t].cmd /\ x.pc = "answered"
                                         /\ task[t].pc = "calling" => x # Idle
                                         /\ task[t].pc = "late" => x = Idle
  <2>1. task[t] \in Busy BY <1>2, TaskTypes DEF LoaderDone
  <2> DEFINE x == IF task[t].pc = "late" THEN Idle ELSE [task[t] EXCEPT !.pc = "answered"]
  <2>2. task' = [task EXCEPT ![t] = x] BY <1>2 DEF LoaderDone
  <2>3. [task[t] EXCEPT !.pc = "answered"] \in Busy BY <2>1 DEF Busy
  <2>4. [task[t] EXCEPT !.pc = "answered"].cmd = task[t].cmd /\ [task[t] EXCEPT !.pc = "answered"].pc = "answered"
    BY <2>1 DEF Busy
  <2>5. [task[t] EXCEPT !.pc = "answered"] # Idle BY <2>4 DEF Idle
  <2>6. x \in {Idle} \cup Busy /\ (x # Idle => x.cmd = task[t].cmd /\ x.pc = "answered")
        /\ (task[t].pc = "calling" => x # Idle) /\ (task[t].pc = "late" => x = Idle)
    BY <2>3, <2>4, <2>5
  <2> HIDE DEF x
  <2> QED BY <2>2, <2>6
<1>3. LoaderRefuses(t) \/ Mark(t) => task' = [task EXCEPT ![t] = Idle]
  BY DEF LoaderRefuses, Mark
<1>4. ASSUME TimeOut(t)
      PROVE  \E x \in Busy : task' = [task EXCEPT ![t] = x] /\ x.cmd = task[t].cmd /\ x.pc = "late"
  <2>1. task[t] \in Busy BY <1>4, TaskTypes DEF TimeOut
  <2> DEFINE x == [task[t] EXCEPT !.pc = "late"]
  <2>2. x \in Busy /\ x.cmd = task[t].cmd /\ x.pc = "late" BY <2>1 DEF Busy
  <2>3. task' = [task EXCEPT ![t] = x] BY <1>4 DEF TimeOut
  <2> HIDE DEF x
  <2> QED BY <2>2, <2>3
<1> QED BY <1>1, <1>2, <1>3, <1>4

\* A mark changes the list of the command's place by the command's model.
LEMMA MarkStep ==
  ASSUME TypeInv, NEW t \in Tasks, Mark(t)
  PROVE  LET c == task[t].cmd IN
         /\ c \in Commands /\ c.place \in Places /\ c.model \in Models
         /\ reported' \in [Places -> SUBSET Models]
         /\ \A p \in Places : p # c.place => reported'[p] = reported[p]
         /\ reported'[c.place] = IF c.verb = "PREWARM" THEN reported[c.place] \cup {c.model}
                                 ELSE reported[c.place] \ {c.model}
<1> DEFINE c   == task[t].cmd
           now == IF c.verb = "PREWARM" THEN reported[c.place] \cup {c.model}
                  ELSE reported[c.place] \ {c.model}
<1>1. c \in Commands /\ c.place \in Places /\ c.model \in Models BY TaskTypes DEF Mark
<1>2. reported' = [reported EXCEPT ![c.place] = now] BY DEF Mark
<1>3. reported \in [Places -> SUBSET Models] BY DEF TypeInv, TypeOK
<1>4. now \in SUBSET Models BY <1>1, <1>3
<1> HIDE DEF c, now
<1>5. /\ reported' \in [Places -> SUBSET Models] /\ reported'[c.place] = now
      /\ \A p \in Places : p # c.place => reported'[p] = reported[p]
  BY <1>1, <1>2, <1>3, <1>4
<1> QED BY <1>1, <1>5 DEF c, now

-----------------------------------------------------------------------------
(* Type correctness.                                                       *)

\* At the start all is reported as the fixture says, and nothing is under way.
LEMMA InitInv == Init => Inv
<1> SUFFICES ASSUME Init PROVE Inv OBVIOUS
<1>1. reported \in [Places -> SUBSET Models] /\ \A p \in Places : reported[p] = Fixture[p]
  BY PlacesHaveFixtures DEF Init
<1>2. \A t \in Tasks : task[t] = Idle BY DEF Init
<1>3. TypeInv
  <2>1. sent = <<>> /\ sent \in Seq([Places -> SUBSET Models]) /\ Len(sent) = 0 BY EmptySeq DEF Init
  <2> QED BY <1>1, <1>2, <2>1, FaultsAssumption, SentAssumption DEF Init, TypeInv, TypeOK
<1>4. AskedInv BY <1>1, <1>2 DEF Init, AskedInv, NothingUnasked
<1> QED BY <1>3, <1>4 DEF Inv

\* Every step keeps the types, whatever the calls return and in which order.
LEMMA TypeStep ==
  ASSUME TypeInv, [Next]_vars
  PROVE  TypeInv'
<1> DEFINE Lists  == [Places -> SUBSET Models]
           States == [Tasks -> {Idle} \cup Busy]
           Loops  == [pc : {"tick", "write", "send"}, status : (SUBSET Models) \cup {NoStatus}]
           Typed  == /\ reported' \in Lists /\ seen' \in Lists /\ hb' \in Loops
                     /\ task' \in States /\ serving' \subseteq Models /\ faults' \in 0..MaxFaults
                     /\ sent' \in Seq(Lists) /\ Len(sent') <= MaxSent
<1> USE DEF agent, scheduler
<1>0. /\ reported \in Lists /\ seen \in Lists /\ hb \in Loops
      /\ task \in States /\ serving \subseteq Models /\ faults \in 0..MaxFaults
      /\ Idle \in {Idle} \cup Busy /\ sent \in Seq(Lists) /\ Len(sent) <= MaxSent
  BY DEF TypeInv, TypeOK
<1>1. Fault => faults' \in 0..MaxFaults BY <1>0, FaultsAssumption DEF Fault
<1>2. ASSUME FetchStatus PROVE Typed
  <2>1. hb' \in Loops BY <1>0, <1>2 DEF FetchStatus
  <2> HIDE DEF Loops, Lists, States
  <2> QED BY <1>0, <1>1, <1>2, <2>1 DEF FetchStatus
<1>3. ASSUME WritePayload PROVE Typed
  <2>1. hb' \in Loops BY <1>3 DEF WritePayload
  <2>2. reported' \in Lists BY <1>3, OverwrittenTypes DEF WritePayload
  <2> HIDE DEF Loops, Lists, States
  <2> QED BY <1>0, <1>3, <2>1, <2>2 DEF WritePayload
<1>4. ASSUME SendPayload PROVE Typed
  <2>1. hb' \in Loops BY <1>0, <1>4 DEF SendPayload
  <2> HIDE DEF Loops, Lists, States
  <2>2. sent' \in Seq(Lists) /\ Len(sent') <= MaxSent
    <3>1. CASE sent' = sent BY <1>0, <3>1
    <3>2. CASE Len(sent) < MaxSent /\ sent' = Append(sent, reported)
      <4>1. sent' \in Seq(Lists) /\ Len(sent') = Len(sent) + 1 /\ Len(sent) \in Nat
        BY <1>0, <3>2, AppendProperties
      <4> QED BY <3>2, <4>1, SentAssumption
    <3> QED BY <1>4, <3>1, <3>2 DEF SendPayload
  <2> QED BY <1>0, <1>1, <1>4, <2>1, <2>2 DEF SendPayload
<1>5. ASSUME LoaderRestart PROVE Typed
  <2> HIDE DEF Loops, Lists, States
  <2> QED BY <1>0, <1>1, <1>5 DEF LoaderRestart
<1>6. ASSUME NEW p \in Places, NEW m \in Models, AddDesired(p, m) PROVE Typed
  <2> HIDE DEF Loops, Lists, States
  <2> QED BY <1>0, <1>6 DEF AddDesired
<1>7. ASSUME NEW t \in Tasks, NEW c \in Drift, Receive(t, c) PROVE Typed
  <2>1. task' \in States BY <1>0, <1>7, TaskSteps
  <2> HIDE DEF Loops, Lists, States
  <2> QED BY <1>0, <1>7, <2>1 DEF Receive
<1>8. ASSUME NEW t \in Tasks, LoaderDone(t) PROVE Typed
  <2>1. task' \in States
    <3>1. PICK x \in {Idle} \cup Busy : task' = [task EXCEPT ![t] = x] BY <1>8, TaskSteps
    <3> QED BY <1>0, <3>1
  <2>2. serving' \subseteq Models
    <3>1. task[t].cmd.model \in Models BY <1>8, TaskTypes DEF LoaderDone
    <3>2. serving' = serving \cup {task[t].cmd.model} \/ serving' = serving \ {task[t].cmd.model}
      BY <1>8 DEF LoaderDone
    <3> QED BY <1>0, <3>1, <3>2
  <2> HIDE DEF Loops, Lists, States
  <2> QED BY <1>0, <1>8, <2>1, <2>2 DEF LoaderDone
<1>9. ASSUME NEW t \in Tasks, LoaderRefuses(t) PROVE Typed
  <2>1. task' \in States BY <1>0, <1>9, TaskSteps
  <2> HIDE DEF Loops, Lists, States
  <2> QED BY <1>0, <1>1, <1>9, <2>1 DEF LoaderRefuses
<1>10. ASSUME NEW t \in Tasks, TimeOut(t) PROVE Typed
  <2>1. task' \in States
    <3>1. PICK x \in Busy : task' = [task EXCEPT ![t] = x] BY <1>10, TaskSteps
    <3> QED BY <1>0, <3>1
  <2> HIDE DEF Loops, Lists, States
  <2> QED BY <1>0, <1>10, <2>1 DEF TimeOut
<1>11. ASSUME NEW t \in Tasks, Mark(t) PROVE Typed
  <2>1. task' \in States BY <1>0, <1>11, TaskSteps
  <2>2. reported' \in Lists BY <1>11, MarkStep
  <2> HIDE DEF Loops, Lists, States
  <2> QED BY <1>0, <1>11, <2>1, <2>2 DEF Mark
<1>12. ASSUME Arrive PROVE Typed
  <2> HIDE DEF Loops, Lists, States
  <2>1. sent' \in Seq(Lists) /\ Len(sent') = Len(sent) - 1 /\ seen' \in Lists
    <3>1. sent # <<>> /\ sent' = Tail(sent) /\ seen' = Head(sent) BY <1>12 DEF Arrive
    <3> QED BY <1>0, <3>1, HeadTailProperties
  <2>2. Len(sent') <= MaxSent
    <3>1. Len(sent) \in Nat BY <1>0, LenProperties
    <3> QED BY <1>0, <2>1, <3>1, SentAssumption
  <2> QED BY <1>0, <1>12, <2>1, <2>2 DEF Arrive
<1>13. ASSUME UNCHANGED vars PROVE Typed
  BY <1>0, <1>13 DEF vars
<1>14. Typed
  <2> HIDE DEF Typed
  <2> QED BY <1>2, <1>3, <1>4, <1>5, <1>6, <1>7, <1>8, <1>9, <1>10, <1>11, <1>12, <1>13 DEF Next, Heartbeat
<1>15. /\ mode' = mode /\ mode \in Modes /\ Places' = Places /\ Busy' = Busy /\ Commands' = Commands
       /\ desired' \in Lists
  BY ModeStays DEF TypeInv, TypeOK
<1>16. \A t \in Tasks : task'[t] = Idle \/ /\ task'[t].pc \in {"calling", "late", "answered"}
                                           /\ task'[t].cmd.place \in Places
  BY <1>14 DEF Busy, Commands
<1>17. hb'.pc \in {"tick", "write", "send"} /\ (hb'.status = NoStatus \/ hb'.status \subseteq Models)
  BY <1>14
<1>18. TypeOK' BY <1>14, <1>15, <1>16, <1>17 DEF TypeOK
<1> QED BY <1>14, <1>15, <1>18 DEF TypeInv

-----------------------------------------------------------------------------
(* Nothing unasked.                                                        *)

\* Tasks come to hold what was asked for: they take it from the drift, and keep it
\* till they are done with it.
LEMMA TasksAsked ==
  ASSUME Inv, [Next]_vars, NEW u \in Tasks, task'[u] # Idle, task'[u].cmd.verb = "PREWARM"
  PROVE  task'[u].cmd.model \in desired[task'[u].cmd.place]
<1> USE DEF agent, scheduler
<1>0. /\ TypeInv /\ task \in [Tasks -> {Idle} \cup Busy]
      /\ task[u] # Idle /\ task[u].cmd.verb = "PREWARM"
           => task[u].cmd.model \in desired[task[u].cmd.place]
  BY DEF Inv, TypeInv, AskedInv
<1>1. ASSUME NEW t \in Tasks, NEW x \in {Idle} \cup Busy, task' = [task EXCEPT ![t] = x],
             x # Idle => task[t] # Idle /\ x.cmd = task[t].cmd
      PROVE  task'[u].cmd.model \in desired[task'[u].cmd.place]
  <2>1. CASE u = t
    <3>1. task'[u] = x BY <1>0, <1>1, <2>1
    <3> QED BY <1>0, <1>1, <2>1, <3>1
  <2>2. CASE u # t
    <3>1. task'[u] = task[u] BY <1>0, <1>1, <2>2
    <3> QED BY <1>0, <3>1
  <2> QED BY <2>1, <2>2
<1>2. CASE UNCHANGED task
  BY <1>0, <1>2
<1>3. ASSUME NEW t \in Tasks, NEW c \in Drift, Receive(t, c)
      PROVE  task'[u].cmd.model \in desired[task'[u].cmd.place]
  <2> DEFINE x == [pc |-> "calling", cmd |-> c]
  <2>1. task' = [task EXCEPT ![t] = x] BY <1>0, <1>3, TaskSteps
  <2>2. x.cmd = c OBVIOUS
  <2> HIDE DEF x
  <2>3. CASE u = t
    <3>1. task'[u].cmd = c BY <1>0, <2>1, <2>2, <2>3
    <3> QED BY <1>0, <3>1, DriftCommands
  <2>4. CASE u # t
    <3>1. task'[u] = task[u] BY <1>0, <2>1, <2>4
    <3> QED BY <1>0, <3>1
  <2> QED BY <2>3, <2>4
<1>4. ASSUME NEW t \in Tasks, LoaderDone(t)
      PROVE  task'[u].cmd.model \in desired[task'[u].cmd.place]
  <2>1. PICK x \in {Idle} \cup Busy : task' = [task EXCEPT ![t] = x] /\ (x # Idle => x.cmd = task[t].cmd)
    BY <1>0, <1>4, TaskSteps
  <2>2. task[t] # Idle BY <1>0, <1>4, TaskTypes DEF LoaderDone
  <2> QED BY <1>1, <2>1, <2>2
<1>5. ASSUME NEW t \in Tasks, LoaderRefuses(t) \/ Mark(t)
      PROVE  task'[u].cmd.model \in desired[task'[u].cmd.place]
  BY <1>0, <1>1, <1>5, TaskSteps
<1>6. ASSUME NEW t \in Tasks, TimeOut(t)
      PROVE  task'[u].cmd.model \in desired[task'[u].cmd.place]
  <2>1. PICK x \in Busy : task' = [task EXCEPT ![t] = x] /\ x.cmd = task[t].cmd
    BY <1>0, <1>6, TaskSteps
  <2>2. task[t] # Idle BY <1>0, <1>6, TaskTypes DEF TimeOut
  <2> QED BY <1>1, <2>1, <2>2
<1>7. ASSUME NEW p \in Places, NEW m \in Models, AddDesired(p, m) PROVE UNCHANGED task
  BY <1>7 DEF AddDesired
<1>8. Heartbeat \/ Arrive \/ LoaderRestart \/ UNCHANGED vars => UNCHANGED task
  BY DEF Heartbeat, FetchStatus, WritePayload, SendPayload, Arrive, LoaderRestart, vars
<1> QED BY <1>2, <1>3, <1>4, <1>5, <1>6, <1>7, <1>8 DEF Next

\* The lists grow by what was asked for at their place, or by what the loader serves
\* on a node with one place.
LEMMA ListsAsked ==
  ASSUME Inv, [Next]_vars, NEW p \in Places
  PROVE  /\ reported'[p] \cup seen'[p] \subseteq Fixture[p] \cup desired[p]
         /\ \A i \in DOMAIN sent' : sent'[i][p] \subseteq Fixture[p] \cup desired[p]
<1> USE DEF agent, scheduler
<1>0. /\ TypeInv
      /\ \A q \in Places : reported[q] \cup seen[q] \subseteq Fixture[q] \cup desired[q]
      /\ \A i \in DOMAIN sent : sent[i][p] \subseteq Fixture[p] \cup desired[p]
      /\ sent \in Seq([Places -> SUBSET Models])
  BY DEF Inv, TypeInv, AskedInv, NothingUnasked
<1>1. CASE UNCHANGED <<reported, sent, seen>>
  BY <1>0, <1>1
<1>2. CASE WritePayload
  <2>1. reported' = Overwritten /\ UNCHANGED <<sent, seen>> BY <1>2 DEF WritePayload
  <2>2. CASE Mig BY <1>0, <2>1, <2>2, OverwrittenTypes
  <2>3. CASE ~Mig /\ Mock
    <3>1. reported'[p] = Fixture[p] BY <2>1, <2>3 DEF Overwritten
    <3> QED BY <1>0, <2>1, <3>1
  <2>4. CASE ~Mig /\ ~Mock /\ hb.status = NoStatus BY <1>0, <2>1, <2>4 DEF Overwritten
  <2>5. CASE ~Mig /\ ~Mock /\ hb.status # NoStatus
    <3>1. reported'[p] = hb.status BY <2>1, <2>5 DEF Overwritten
    <3>2. hb.status \subseteq Asked BY <2>5 DEF Inv, AskedInv
    <3>3. Places = {Whole} BY <2>5 DEF Places
    <3>4. Asked \subseteq desired[p] BY <3>3 DEF Asked
    <3> QED BY <1>0, <2>1, <3>1, <3>2, <3>4
  <2> QED BY <2>2, <2>3, <2>4, <2>5
<1>3. CASE SendPayload
  <2>1. UNCHANGED <<reported, seen>> /\ (sent' = sent \/ sent' = Append(sent, reported))
    BY <1>3 DEF SendPayload
  <2>2. ASSUME sent' = Append(sent, reported), NEW i \in DOMAIN sent'
        PROVE  sent'[i][p] \subseteq Fixture[p] \cup desired[p]
    <3>1. reported \in [Places -> SUBSET Models] BY <1>0 DEF TypeInv, TypeOK
    <3>2. sent'[i] = reported \/ (i \in DOMAIN sent /\ sent'[i] = sent[i])
      BY <1>0, <2>2, <3>1, AppendProperties, LenProperties
    <3> QED BY <1>0, <3>2
  <2> QED BY <1>0, <2>1, <2>2
<1>8. CASE Arrive
  <2>1. sent # <<>> /\ sent' = Tail(sent) /\ seen' = Head(sent) /\ reported' = reported
    BY <1>8 DEF Arrive
  <2>2. 1 \in DOMAIN sent /\ seen' = sent[1] BY <1>0, <2>1
  <2>3. \A i \in DOMAIN sent' : i + 1 \in DOMAIN sent /\ sent'[i] = sent[i + 1]
    BY <1>0, <2>1, HeadTailProperties, LenProperties
  <2> QED BY <1>0, <2>1, <2>2, <2>3
<1>4. ASSUME NEW t \in Tasks, Mark(t)
      PROVE /\ reported'[p] \cup seen'[p] \subseteq Fixture[p] \cup desired[p]
            /\ sent' = sent
  <2> DEFINE c == task[t].cmd
  <2>1. UNCHANGED <<sent, seen>> /\ c.verb \in {"PREWARM", "EVICT"} /\ task[t] # Idle
    BY <1>0, <1>4, TaskTypes DEF Mark
  <2>2. c.verb = "PREWARM" => c.model \in desired[c.place] BY <2>1 DEF Inv, AskedInv
  <2>3. p # c.place => reported'[p] = reported[p] BY <1>0, <1>4, MarkStep
  <2>4. p = c.place => reported'[p] \subseteq reported[p] \cup IF c.verb = "PREWARM" THEN {c.model} ELSE {}
    BY <1>0, <1>4, MarkStep
  <2> HIDE DEF c
  <2> QED BY <1>0, <2>1, <2>2, <2>3, <2>4
<1>5. FetchStatus \/ LoaderRestart \/ UNCHANGED vars => UNCHANGED <<reported, sent, seen>>
  BY DEF FetchStatus, LoaderRestart, vars
<1>6. ASSUME NEW q \in Places, NEW m \in Models, AddDesired(q, m) PROVE UNCHANGED <<reported, sent, seen>>
  BY <1>6 DEF AddDesired
<1>7. ASSUME NEW t \in Tasks, LoaderDone(t) \/ LoaderRefuses(t) \/ TimeOut(t) \/ \E c \in Drift : Receive(t, c)
      PROVE  UNCHANGED <<reported, sent, seen>>
  BY <1>7 DEF LoaderDone, LoaderRefuses, TimeOut, Receive
<1> QED BY <1>0, <1>1, <1>2, <1>3, <1>4, <1>5, <1>6, <1>7, <1>8 DEF Next, Heartbeat

\* The loader serves what some task was to load, and says so.
LEMMA ServingAsked ==
  ASSUME Inv, [Next]_vars
  PROVE  /\ serving' \subseteq Asked
         /\ hb'.status # NoStatus => hb'.status \subseteq Asked
<1> USE DEF agent, scheduler
<1>0. /\ TypeInv /\ serving \subseteq Asked
      /\ hb \in [pc : {"tick", "write", "send"}, status : (SUBSET Models) \cup {NoStatus}]
      /\ hb.status # NoStatus => hb.status \subseteq Asked
  BY DEF Inv, TypeInv, AskedInv, NothingUnasked, Asked
<1>1. CASE UNCHANGED <<serving, hb>>
  BY <1>0, <1>1
<1>2. CASE FetchStatus
  <2>1. serving' = serving /\ hb'.status \in {serving, NoStatus} BY <1>2 DEF FetchStatus
  <2> QED BY <1>0, <2>1
<1>3. CASE WritePayload
  <2>1. serving' = serving /\ hb'.status = NoStatus BY <1>3 DEF WritePayload
  <2> QED BY <1>0, <2>1
<1>4. CASE SendPayload
  <2>1. serving' = serving /\ hb' = [hb EXCEPT !.pc = "tick"] BY <1>4 DEF SendPayload
  <2>2. hb'.status = hb.status BY <1>0, <2>1
  <2> QED BY <1>0, <2>1, <2>2
<1>5. CASE LoaderRestart
  BY <1>0, <1>5 DEF LoaderRestart
<1>6. ASSUME NEW t \in Tasks, LoaderDone(t) PROVE serving' \subseteq Asked /\ hb' = hb
  <2> DEFINE c == task[t].cmd
  <2>1. task[t] # Idle /\ c.place \in Places BY <1>0, <1>6, TaskTypes DEF LoaderDone
  <2>2. c.verb = "PREWARM" => c.model \in Asked BY <2>1 DEF Inv, AskedInv, Asked
  <2>3. hb' = hb /\ serving' = IF c.verb = "PREWARM" THEN serving \cup {c.model} ELSE serving \ {c.model}
    BY <1>6 DEF LoaderDone
  <2> HIDE DEF c
  <2> QED BY <1>0, <2>2, <2>3
<1>7. ASSUME NEW q \in Places, NEW m \in Models, AddDesired(q, m) PROVE UNCHANGED <<serving, hb>>
  BY <1>7 DEF AddDesired
<1>8. ASSUME NEW t \in Tasks, LoaderRefuses(t) \/ TimeOut(t) \/ Mark(t) \/ \E c \in Drift : Receive(t, c)
      PROVE  UNCHANGED <<serving, hb>>
  BY <1>8 DEF LoaderRefuses, TimeOut, Mark, Receive
<1>9. Arrive \/ UNCHANGED vars => UNCHANGED <<serving, hb>>
  BY DEF Arrive, vars
<1> QED BY <1>0, <1>1, <1>2, <1>3, <1>4, <1>5, <1>6, <1>7, <1>8, <1>9 DEF Next, Heartbeat

\* The invariant holds in every state.
LEMMA InvHolds == Spec => []Inv
<1>1. ASSUME Inv, [Next]_vars PROVE Inv'
  <2>1. /\ Places' = Places /\ \A p \in Places : desired[p] \subseteq desired'[p]
        /\ Asked \subseteq Asked'
    BY <1>1, ModeStays DEF Inv
  <2>2. TypeInv' BY <1>1, TypeStep DEF Inv
  <2>3. serving' \subseteq Asked' /\ (hb'.status # NoStatus => hb'.status \subseteq Asked')
    BY <1>1, <2>1, ServingAsked
  <2>4. \A p \in Places : /\ reported'[p] \cup seen'[p] \subseteq Fixture[p] \cup desired'[p]
                          /\ \A i \in DOMAIN sent' : sent'[i][p] \subseteq Fixture[p] \cup desired'[p]
    BY <1>1, <2>1, ListsAsked
  <2>5. \A u \in Tasks : task'[u] # Idle /\ task'[u].cmd.verb = "PREWARM"
                           => task'[u].cmd.model \in desired'[task'[u].cmd.place]
    <3> SUFFICES ASSUME NEW u \in Tasks, task'[u] # Idle, task'[u].cmd.verb = "PREWARM"
                 PROVE  task'[u].cmd.model \in desired'[task'[u].cmd.place]
      OBVIOUS
    <3>1. task'[u].cmd.place \in Places
      <4>1. task'[u] \in Busy' /\ Busy' = Busy BY <1>1, <2>2, ModeStays DEF Inv, TypeInv, Idle
      <4> QED BY <4>1 DEF Busy, Commands
    <3>2. task'[u].cmd.model \in desired[task'[u].cmd.place] BY <1>1, TasksAsked
    <3> QED BY <2>1, <3>1, <3>2
  <2>6. NothingUnasked' BY <2>1, <2>3, <2>4 DEF NothingUnasked, Asked
  <2>7. AskedInv' BY <2>3, <2>5, <2>6 DEF AskedInv
  <2> QED BY <2>2, <2>7 DEF Inv
<1> QED BY InitInv, <1>1, PTL DEF Spec

\* Types, and every task's place is a place of the node (main.rs:388-390).
THEOREM AgentTypes == Spec => []TypeOK
<1>1. Inv => TypeOK BY DEF Inv, TypeInv
<1> QED BY InvHolds, <1>1, PTL

\* Nothing is served or reported that was neither asked for nor in the fixture, at
\* no slice but the one it was asked for (main.rs:453-470).
THEOREM NothingIsUnasked == Spec => []NothingUnasked
<1>1. Inv => NothingUnasked BY DEF Inv, AskedInv
<1> QED BY InvHolds, <1>1, PTL

-----------------------------------------------------------------------------
(* A settled node stays settled.                                           *)

\* Nothing to send means that the scheduler has seen what it desires.
LEMMA NoDrift ==
  ASSUME TypeInv
  PROVE  Drift = {} <=> \A p \in Places : desired[p] # {} => seen[p] = desired[p]
<1>0. \A p \in Places : desired[p] \subseteq Models /\ seen[p] \subseteq Models
  BY DEF TypeInv, TypeOK
<1>1. ASSUME Drift = {}, NEW p \in Places, desired[p] # {} PROVE seen[p] = desired[p]
  <2>1. Missing(p) = {} /\ Unwanted(p) = {} BY <1>1 DEF Drift
  <2>2. ASSUME NEW m \in desired[p], m \notin seen[p] PROVE FALSE
    <3>1. Command("PREWARM", p, m) \in Missing(p) BY <2>2 DEF Missing
    <3> QED BY <2>1, <3>1
  <2>3. ASSUME NEW m \in seen[p], m \notin desired[p] PROVE FALSE
    <3>1. Command("EVICT", p, m) \in Unwanted(p) BY <1>1, <2>3 DEF Unwanted
    <3> QED BY <2>1, <3>1
  <2> QED BY <2>2, <2>3
<1>2. ASSUME \A p \in Places : desired[p] # {} => seen[p] = desired[p] PROVE Drift = {}
  <2>1. ASSUME NEW p \in Places PROVE Missing(p) \cup Unwanted(p) = {}
    <3>1. desired[p] \ seen[p] = {} BY <1>2
    <3>2. desired[p] # {} => seen[p] \ desired[p] = {} BY <1>2
    <3> QED BY <3>1, <3>2 DEF Missing, Unwanted
  <2> QED BY <2>1 DEF Drift
<1> QED BY <1>1, <1>2

\* In a settled state only the heartbeat loop has anything to do, besides new
\* desires and the loader's restart.
LEMMA SettledSteps ==
  ASSUME TypeInv, Settled, [Next]_vars, desired' = desired
  PROVE  \/ UNCHANGED <<mode, reported, sent, seen, hb, task, desired, serving>>
         \/ FetchStatus \/ WritePayload \/ SendPayload \/ Arrive \/ LoaderRestart
<1>1. \A t \in Tasks : task[t].pc = "idle" BY DEF Settled, Idle
<1>2. ASSUME NEW t \in Tasks PROVE ~LoaderDone(t) /\ ~LoaderRefuses(t) /\ ~TimeOut(t) /\ ~Mark(t)
  BY <1>1 DEF LoaderDone, LoaderRefuses, TimeOut, Mark
<1>3. Drift = {} BY DEF Settled
<1>4. ASSUME NEW p \in Places, NEW m \in Models PROVE ~AddDesired(p, m)
  <2> SUFFICES ASSUME AddDesired(p, m) PROVE FALSE OBVIOUS
  <2>1. m \notin desired[p] /\ desired' = [desired EXCEPT ![p] = desired[p] \cup {m}]
    BY DEF AddDesired
  <2>2. desired'[p] = desired[p] \cup {m} BY <2>1 DEF TypeInv
  <2> QED BY <2>1, <2>2
<1> QED BY <1>2, <1>3, <1>4 DEF Next, Heartbeat, vars, agent, scheduler

\* A node that reports what is desired goes on doing so: its heartbeats never
\* write over what its tasks marked, and neither an old status nor an old copy of the
\* payload comes after (main.rs:284-293, 442-452).
THEOREM SettledNodesStay == Spec => SettledStays
<1> DEFINE Right == Settled /\ desired' = desired /\ (mode = "plain" => serving' = serving) => Settled'
<1>1. ASSUME Inv, [Next]_vars PROVE Right
  <2> SUFFICES ASSUME Settled, desired' = desired, mode = "plain" => serving' = serving
               PROVE  Settled'
    OBVIOUS
  <2> USE DEF agent, scheduler
  <2>0. /\ TypeInv /\ mode' = mode /\ Places' = Places /\ mode \in Modes
        /\ TypeInv'
    BY <1>1, TypeStep, ModeStays DEF Inv, TypeInv, TypeOK
  <2>1. /\ \A t \in Tasks : task[t] = Idle
        /\ AsDesired(reported) /\ AsDesired(seen) /\ \A i \in DOMAIN sent : AsDesired(sent[i])
        /\ sent \in Seq([Places -> SUBSET Models]) /\ reported \in [Places -> SUBSET Models]
        /\ mode # "mockPlain"
    BY <2>0, NoDrift DEF Settled, AsDesired, TypeInv, TypeOK
  <2>2. mode = "plain" /\ desired[Whole] # {}
          => serving = desired[Whole] /\ (hb.status = NoStatus \/ hb.status = serving)
    BY DEF Settled
  <2>3. /\ \A t \in Tasks : task'[t] = Idle
        /\ AsDesired(reported') /\ AsDesired(seen') /\ \A i \in DOMAIN sent' : AsDesired(sent'[i])
        /\ mode = "plain" /\ desired[Whole] # {}
             => serving' = desired[Whole] /\ (hb'.status = NoStatus \/ hb'.status = serving')
    <3>1. CASE UNCHANGED <<mode, reported, sent, seen, hb, task, desired, serving>>
      BY <2>1, <2>2, <3>1
    <3>2. CASE FetchStatus
      <4>1. UNCHANGED <<reported, sent, seen, task, serving>> /\ hb'.status \in {serving, NoStatus}
        BY <3>2 DEF FetchStatus
      <4> QED BY <2>1, <2>2, <4>1
    <3>3. CASE WritePayload
      <4>1. reported' = Overwritten /\ UNCHANGED <<sent, seen, task, serving>> /\ hb'.status = NoStatus
        BY <3>3 DEF WritePayload
      <4>2. AsDesired(reported')
        <5>1. CASE Mig BY <2>0, <2>1, <4>1, <5>1, OverwrittenTypes
        <5>2. CASE ~Mig
          <6>1. mode = "plain" /\ Places = {Whole} /\ ~Mock BY <2>0, <2>1, <5>2 DEF Mig, Mock, Modes, Places
          <6>2. hb.status = NoStatus => reported' = reported BY <4>1, <5>2, <6>1 DEF Overwritten
          <6>3. hb.status # NoStatus => reported'[Whole] = hb.status
            BY <4>1, <5>2, <6>1 DEF Overwritten
          <6> QED BY <2>1, <2>2, <6>1, <6>2, <6>3 DEF AsDesired
        <5> QED BY <5>1, <5>2
      <4> QED BY <2>1, <2>2, <4>1, <4>2
    <3>4. CASE SendPayload
      <4>1. /\ UNCHANGED <<reported, seen, task, serving>>
            /\ sent' = sent \/ sent' = Append(sent, reported)
            /\ hb' = [hb EXCEPT !.pc = "tick"]
        BY <3>4 DEF SendPayload
      <4>2. hb'.status = hb.status BY <2>0, <4>1 DEF TypeInv
      <4>3. ASSUME sent' = Append(sent, reported), NEW i \in DOMAIN sent' PROVE AsDesired(sent'[i])
        <5>1. sent'[i] = reported \/ (i \in DOMAIN sent /\ sent'[i] = sent[i])
          BY <2>1, <4>3, AppendProperties, LenProperties
        <5> QED BY <2>1, <5>1
      <4> QED BY <2>1, <2>2, <4>1, <4>2, <4>3
    <3>6. CASE Arrive
      <4>1. /\ UNCHANGED <<reported, hb, task, serving>>
            /\ sent # <<>> /\ seen' = Head(sent) /\ sent' = Tail(sent)
        BY <3>6 DEF Arrive
      <4>2. 1 \in DOMAIN sent /\ seen' = sent[1] BY <2>1, <4>1
      <4>3. \A i \in DOMAIN sent' : i + 1 \in DOMAIN sent /\ sent'[i] = sent[i + 1]
        BY <2>1, <4>1, HeadTailProperties, LenProperties
      <4> QED BY <2>1, <2>2, <4>1, <4>2, <4>3
    <3>5. CASE LoaderRestart
      <4>1. UNCHANGED <<reported, sent, seen, task, hb>> BY <3>5 DEF LoaderRestart
      <4> QED BY <2>1, <2>2, <4>1
    <3> QED BY <1>1, <2>0, <3>1, <3>2, <3>3, <3>4, <3>5, <3>6, SettledSteps
  <2>4. (Drift = {})'
    <3>1. (\A p \in Places : desired[p] # {} => seen[p] = desired[p])' BY <1>1, <2>0, <2>3 DEF AsDesired
    <3>2. TypeInv' => ((Drift = {})' <=> (\A p \in Places : desired[p] # {} => seen[p] = desired[p])')
      BY NoDrift, PTL
    <3> QED BY <2>0, <3>1, <3>2
  <2>5. (AsDesired(reported) /\ \A i \in DOMAIN sent : AsDesired(sent[i]))' BY <2>0, <2>3 DEF AsDesired
  <2> QED BY <2>0, <2>1, <2>3, <2>4, <2>5 DEF Settled
<1>2. Inv /\ [Next]_vars => [Right]_vars BY <1>1
<1> QED BY InvHolds, <1>2, PTL DEF Spec, SettledStays

-----------------------------------------------------------------------------
(* What the control loop takes the agent of a MIG node for.                *)

\* The command a task holds for the control loop: none once nobody listens to it.
Held(t) == IF task[t].pc \in {"calling", "answered"} THEN task[t].cmd ELSE NoCommand

\* Every step of a MIG node is one of the interface's, or changes nothing it sees.
LEMMA InterfaceStep ==
  ASSUME TypeInv, [Next]_vars, Mig
  PROVE  Interface!Next \/ UNCHANGED Interface!ivars
<1> DEFINE taken == [t \in Tasks |-> Held(t)]
<1> USE DEF agent, scheduler
<1>0. /\ task \in [Tasks -> {Idle} \cup Busy]
      /\ reported \in [Places -> SUBSET Models] /\ DOMAIN reported = Places
      /\ NoCommand \notin Commands
  <2>1. NoCommand \notin Commands BY PlacesHaveFixtures, NoCommandAssumption DEF Commands
  <2> QED BY <2>1 DEF TypeInv, TypeOK
<1>1. ASSUME NEW t \in Tasks, NEW x \in {Idle} \cup Busy, task' = [task EXCEPT ![t] = x]
      PROVE  [u \in Tasks |-> Held(u)]' =
               [taken EXCEPT ![t] = IF x.pc \in {"calling", "answered"} THEN x.cmd ELSE NoCommand]
  <2>1. task'[t] = x /\ \A u \in Tasks : u # t => task'[u] = task[u] BY <1>0, <1>1
  <2> QED BY <2>1 DEF Held
<1>2. \A t \in Tasks : /\ task[t].pc \in {"calling", "answered"} => taken[t] = task[t].cmd /\ taken[t] # NoCommand
                       /\ task[t].pc \notin {"calling", "answered"} => taken[t] = NoCommand
  BY <1>0, TaskTypes DEF Held
<1> DEFINE takenAfter == [t \in Tasks |-> Held(t)]'
<1>3. /\ Interface!Commands = Commands
      /\ Interface!ivars = <<reported, taken, sent, seen>>
      /\ \A t \in Tasks : taken[t] = Held(t)
  BY <1>0 DEF Interface!Commands, Commands, Interface!ivars, Held
<1>4. ASSUME UNCHANGED <<reported, sent, seen, task>> PROVE UNCHANGED Interface!ivars
  BY <1>4 DEF Interface!ivars
<1>5. CASE FetchStatus \/ LoaderRestart \/ UNCHANGED vars
  BY <1>4, <1>5 DEF FetchStatus, LoaderRestart, vars
<1>6. CASE WritePayload
  BY <1>4, <1>6, OverwrittenTypes DEF WritePayload
<1>7. CASE SendPayload
  <2>1. UNCHANGED <<reported, seen, task>> /\ (sent' = sent \/ sent' = Append(sent, reported))
    BY <1>7 DEF SendPayload
  <2> QED BY <1>4, <2>1 DEF Interface!Next, Interface!Report
<1>16. CASE Arrive
  BY <1>16 DEF Arrive, Interface!Next, Interface!Arrive
<1>8. ASSUME NEW p \in Places, NEW m \in Models, AddDesired(p, m) PROVE UNCHANGED Interface!ivars
  BY <1>4, <1>8 DEF AddDesired
<1>9. ASSUME NEW t \in Tasks, NEW c \in Drift, Receive(t, c) PROVE Interface!Take(t)
  <2> DEFINE x == [pc |-> "calling", cmd |-> c]
  <2>1. c \in Commands BY DriftCommands
  <2>2. x \in Busy /\ task' = [task EXCEPT ![t] = x] BY <1>9, TaskSteps
  <2>3. x.pc = "calling" /\ x.cmd = c OBVIOUS
  <2> HIDE DEF x
  <2>4. takenAfter = [taken EXCEPT ![t] = c] BY <1>1, <2>2, <2>3
  <2>5. taken[t] = NoCommand
    <3>1. task[t].pc = "idle" BY <1>9 DEF Receive, Idle
    <3> QED BY <1>2, <3>1
  <2>6. UNCHANGED <<reported, sent, seen>> BY <1>9 DEF Receive
  <2> QED BY <1>3, <2>1, <2>4, <2>5, <2>6 DEF Interface!Take, Held
<1>10. ASSUME NEW t \in Tasks, LoaderDone(t) PROVE UNCHANGED Interface!ivars
  <2>1. PICK x \in {Idle} \cup Busy : /\ task' = [task EXCEPT ![t] = x]
                                      /\ x # Idle => x.cmd = task[t].cmd /\ x.pc = "answered"
                                      /\ task[t].pc = "calling" => x # Idle
                                      /\ task[t].pc = "late" => x = Idle
    BY <1>10, TaskSteps
  <2>2. task[t].pc \in {"calling", "late"} /\ UNCHANGED <<reported, sent, seen>> BY <1>10 DEF LoaderDone
  <2>3. (IF x.pc \in {"calling", "answered"} THEN x.cmd ELSE NoCommand) = taken[t]
    <3>1. CASE task[t].pc = "calling" BY <1>2, <2>1, <3>1
    <3>2. CASE task[t].pc = "late"
      <4>1. x.pc = "idle" BY <2>1, <3>2 DEF Idle
      <4> QED BY <1>2, <3>2, <4>1
    <3> QED BY <2>2, <3>1, <3>2
  <2>4. takenAfter = [taken EXCEPT ![t] = taken[t]] BY <1>1, <2>1, <2>3
  <2>5. [taken EXCEPT ![t] = taken[t]] = taken OBVIOUS
  <2> QED BY <1>3, <2>2, <2>4, <2>5 DEF Interface!ivars, Held
<1>11. ASSUME NEW t \in Tasks, task' = [task EXCEPT ![t] = Idle]
       PROVE  takenAfter = [taken EXCEPT ![t] = NoCommand]
  <2>1. (IF Idle.pc \in {"calling", "answered"} THEN Idle.cmd ELSE NoCommand) = NoCommand BY DEF Idle
  <2> QED BY <1>1, <1>11, <2>1
<1>12. ASSUME NEW t \in Tasks, takenAfter = [taken EXCEPT ![t] = NoCommand], UNCHANGED <<reported, sent, seen>>
       PROVE  Interface!Lose(t) \/ UNCHANGED Interface!ivars
  <2>1. CASE taken[t] # NoCommand
    BY <1>3, <1>12, <2>1 DEF Interface!Lose, Held
  <2>2. CASE taken[t] = NoCommand
    <3>1. [taken EXCEPT ![t] = NoCommand] = taken BY <2>2
    <3> QED BY <1>3, <1>12, <3>1 DEF Interface!ivars, Held
  <2> QED BY <2>1, <2>2
<1>13. ASSUME NEW t \in Tasks, LoaderRefuses(t) PROVE Interface!Lose(t) \/ UNCHANGED Interface!ivars
  <2>1. task' = [task EXCEPT ![t] = Idle] /\ UNCHANGED <<reported, sent, seen>> BY <1>13 DEF LoaderRefuses
  <2> QED BY <1>11, <1>12, <2>1
<1>14. ASSUME NEW t \in Tasks, TimeOut(t) PROVE Interface!Lose(t) \/ UNCHANGED Interface!ivars
  <2>1. PICK x \in Busy : task' = [task EXCEPT ![t] = x] /\ x.pc = "late" BY <1>14, TaskSteps
  <2>2. takenAfter = [taken EXCEPT ![t] = NoCommand] BY <1>1, <2>1
  <2>3. UNCHANGED <<reported, sent, seen>> BY <1>14 DEF TimeOut
  <2> QED BY <1>12, <2>2, <2>3
<1>15. ASSUME NEW t \in Tasks, Mark(t) PROVE Interface!Execute(t)
  <2> DEFINE c == task[t].cmd
  <2>1. taken[t] = c /\ taken[t] # NoCommand BY <1>2, <1>15 DEF Mark
  <2>2. reported' = [reported EXCEPT ![c.place] = IF c.verb = "PREWARM" THEN reported[c.place] \cup {c.model}
                                                  ELSE reported[c.place] \ {c.model}]
    BY <1>15 DEF Mark
  <2>3. UNCHANGED <<sent, seen>> /\ takenAfter = [taken EXCEPT ![t] = NoCommand] BY <1>11, <1>15 DEF Mark
  <2> HIDE DEF c
  <2> QED BY <2>1, <2>2, <2>3 DEF Interface!Execute, Held
<1> QED
  BY <1>5, <1>6, <1>7, <1>8, <1>9, <1>10, <1>13, <1>14, <1>15, <1>16 DEF Next, Heartbeat, Interface!Next

\* On a MIG node, commands taken and carried out once, lost, or not yet answered are
\* all there is to a list of the payload: what Reconciler builds on (main.rs:387-430).
THEOREM ImplementsTheInterface == Spec => ImplementsInterface
<1>1. Inv /\ [Next]_vars => [Mig => Interface!Next]_(Interface!ivars)
  BY InterfaceStep DEF Inv
<1> QED BY InvHolds, <1>1, PTL DEF Spec, ImplementsInterface
=============================================================================
