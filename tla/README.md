# A TLA+ verification of the GPU orchestrator

This directory models the scheduler (Go), the node agent (Rust) and the model
loader (Python) in TLA+, checks the models on small instances with TLC, and
proves part of what was checked for every instance with TLAPS. `PROJECT.json`
lists the runs, the line ranges each definition stands for, the mutated
definitions that show what each property can detect, the hazards and the
findings.

## 1. The system

| Component | Source | State it keeps | Operations |
|---|---|---|---|
| Admission queue | `scheduler/admission/queue.go` | a bounded FIFO per priority class, the cursor of a ten-slot cycle; one mutex | `Admit`, `Next`, `Len` |
| Admission gateway | `scheduler/admission/gateway.go` | per request: the handler, `cancelled`, a result channel of capacity 1 | `HandleSchedule` (a goroutine per request), `commit`, `DrainLoop`/`drainOnce` |
| Bin packer | `scheduler/scheduler/bin_packer.go` | none during `Schedule`; a task heap | `Schedule`; `Enqueue`, `Evict` (tests only) |
| Node registry | `scheduler/registry/node_registry.go` | the last heartbeat of each node, `Healthy`; a read-write lock | `Upsert`, `MarkUnhealthy`, `All`, `Get`, `StaleNodes`, views of a node |
| Reconciler | `scheduler/reconciler/reconciler.go` | `desiredState` per slice | `AddDesired` (`SetDesired`, `RemoveDesired`: tests only), `applyHeartbeat`, `reconcile` |
| Scheduler process | `scheduler/main.go` | two bounded channels, dispatch goroutines | `/heartbeat` handler, `handleActions`, `dispatchToAgent` |
| Node agent | `agent/src/main.rs` | the heartbeat payload behind a mutex | the heartbeat loop, `handle_command`, `mark_loaded`, `mark_evicted` |
| Model loader | `agent/loader/main.py`, `vllm_engine.py` | the store of engines, `_load_lock` | `/load`, `/evict`, `/status`, `/generate`, `/checkpoint` |
| Checkpoint manager | `agent/loader/checkpoint.py` | manifest directories | `save`, `restore`, `list_manifests`, `delete` |
| Traffic analyzer | `scheduler/traffic/traffic_analyzer.go` | request times, time of the last signal per model | `recordEvent`, `analyze`, `maybeSignalPrewarm` |
| Model cache | `scheduler/cache/model_cache.go` | cache entries per model; created and dropped by `main.go` | `Register`, `Evict`, `TouchNode`, queries |

How they interact. Agents POST heartbeats; the handler puts them in a channel
without ever blocking. One goroutine, the reconciler, applies them to the
registry and every 500 ms diffs desired against reported models, sending actions
into a second channel, on which it does block. `handleActions` empties that
channel; each command travels on a goroutine of its own to the agent, which calls
the loader and then corrects the payload its next heartbeat sends. Clients POST
to `/schedule`; the handler calls `BinPacker.Schedule`, which looks at the
registry's healthy nodes, commits the decision with `AddDesired`, or queues the request, which
the drain loop retries every 500 ms.

What is hard. Nothing is reserved and no snapshot is fresh when it is used.
The drain loop, up to one handler per client, the reconciler, the dispatch
goroutines, the agent's tasks and heartbeat loop and the loader's event loop and
threads run beside each other. Commands can be lost, repeated and reordered,
heartbeats lost and delayed; a load takes far longer than the 5 s that the
client of the command waits; nodes and the scheduler crash, and the scheduler
keeps nothing on disk. The file `PROJECT.json` lists these hazards line by line
with the properties that cover them, or the reason why none does yet.

What makes each part correct:

* queue: bounded, loses nothing, serves somebody whenever somebody is queued, and
  gives each class its share;
* gateway: a request is answered once, with 200 exactly if its model is desired,
  is never placed twice, and absent clients cost the others nothing for long;
* packer and registry: a request fails only if no node can host it, and the place
  chosen is healthy, large enough and known to the reconciler by that name;
* control loop: no deadlock of its channels, dead nodes found and announced once,
  reported state converges to desired state and the loop falls quiet;
* agent: the payload the scheduler diffs reflects the commands carried out;
* loader: only an eviction takes an engine from its users, accounts are not
  inflated, loads are answered, memory comes back;
* checkpoints: a reader never sees half a manifest, saves in each other's way
  leave one of theirs, and nothing a kill leaves behind stops a later call;
* traffic: a signal is earned by recent requests, a burst is noticed, and no
  signal is lost while its rate limit counts it as sent.

## 2. The modules

| Module | Models | Uses |
|---|---|---|
| `WFQueue` | the queue: `Admit`, `Serve` (= `Next`) | |
| `WFQueueShare` | the same queue with a history variable that observes one class over at most ten calls of `Next` | `WFQueue` |
| `AdmissionService` | abstract: what `/schedule` promises a client | |
| `Gateway` | handlers and drain loop over the queue, composed | `WFQueue`, refines `AdmissionService` |
| `NodeRegistry` | a node as its last heartbeat, its slices, the registry's operations | |
| `TaskHeap` | `container/heap` from outside, and the packer's queue order | |
| `BinPacker` | `Schedule` beside heartbeats and `MarkUnhealthy`; `Enqueue` and `Evict` of the preemption queue | `NodeRegistry`, `TaskHeap` |
| `Reconciler` | agents of MIG nodes as they report, the channels, the reconciler, `handleActions`, commands on their way; `AddDesired`, `SetDesired`, `RemoveDesired` | |
| `AgentInterface` | abstract: what the control loop takes an agent for | |
| `Agent` | the agent between a scheduler and a loader, both from outside | refines `AgentInterface` on a MIG node |
| `Loader` | `/load`, `/evict` and `/generate` with store and lock; vLLM and CUDA from outside | |
| `ManifestStore` | abstract: what the checkpoint manager promises | |
| `Checkpoint` | `save`, `delete` and `restore` as file operations, with kills | refines `ManifestStore` |
| `Traffic` | the analyzer between `RecordRequest` and `handleActions` | |
| `AdmissionProofs` | theorems about the queue, the gateway, and the queue inside the gateway | `Gateway`, `WFQueueShare` |
| `CheckpointProofs`, `BinPackerProofs`, `ReconcilerProofs`, `AgentProofs`, `LoaderProofs`, `TrafficProofs` | theorems about the module they are named for | that module |
| `FiniteSums` | lemmas about sums over finite sets and about minimal elements | |
| `MC*` | values of the constants for TLC | |

Correspondence. A mutex-protected method is one step. A handler is cut where
another goroutine can act: `Gateway`'s `phase[r]` is the program counter of the
handler of request `r` (`TryAtOnce` = line 63, `Enqueue`/`Reject` = 70-74,
`Take`/`Expire` = the two cases of the select, `GiveUp` = 88-90, `Commit` = 94-96)
and `drain.pc` that of `drainOnce`. In `Reconciler`, `rec` is the reconciler
goroutine: `stale` while it marks nodes, `diff` while it walks over places, with
`rec.out` the actions the code has decided and not yet been able to send. In
`Agent`, `hb` and `task` stand at the awaits of `main.rs`, and `sent` holds the copies
of the payload (line 284) that have not been applied yet, in the POST (285-289) or in
`heartbeatCh`: marks come between a copy and its arrival. In `Loader`, the code
between two awaits of a coroutine is one step (`Check`, `Publish`) while the
worker thread's `Begin`, `Build`, `Measure` and the threads of `/evict` and
`/generate` interleave at will; a generation that runs keeps its engine
(`Holding`) although the handle may have let it go.

The nodes of `Reconciler` are MIG nodes, each place one of their slices. Its agents'
lists change by commands alone, and that is what `Agent` shows of a MIG node's agent
(`ImplementsInterface`). On a node without MIG the heartbeat loop rewrites the list on
every tick (`main.rs:255-277`), from the loader or, in a mock build, from a fixture;
that node is in `Agent` only, with the scheduler from outside, and what `Reconciler`
shows to converge and fall quiet is not claimed of it. `hbCh` holds, as `sent` does,
every copy of a payload that was made and not applied; `HbCap` bounds both parts of
its way together. A restart of the scheduler takes the part that was in its channel and
leaves the part that was on the wire.

`NodeRegistry.All` hands out the registry's own nodes. So in `BinPacker` a death that
is marked while a call is at work shows in the nodes the call looks at, until a
heartbeat puts another node into the registry; `call.shared` names the nodes of
which this is so. `Decide` is one step: the one field that can change under it is
`Healthy` of a node, which `Schedule` copies into a plain node's synthetic slice and
decides nothing by.

In `Checkpoint` each file operation is a step: `mkdtemp`, opening and closing the
file, `exists`, the lstat, open, unlink and rmdir of `shutil.rmtree` (Python 3.11,
`Dockerfile.agent`), `rename`. A directory is named by the save that made it, so
`at` says which one has a model's name and `manifest` what is in each. Models
whose names `_manifest_name` maps to one directory share a name. `Kill` is the end
of the process; the loss of written data in a power failure is not modelled
(the code does not call fsync and promises nothing about it).

In `Traffic` time goes by in periods of the analysis ticker and a timestamp is
its age in periods; all ages from the window on are alike. The events of the
program, received one at a time, are counted per age. The select of `Run` is
`Ingest` and `StartAnalysis`, and one round of `analyze`'s loop over the models,
with `maybeSignalPrewarm`, is `Analyze`. An analysis takes no time; `Prompt` says
that `handleActions`, which never waits for anything else, takes a signal before
a window has passed.

Abstractions common to all: a model, node, slice or request is a model value;
VRAM is counted in small units; time is an event (a node grows old, a wait
expires, a client gives up) that may happen whenever its cause is there;
decoding, formatting and logging are left out. Definitions whose name carries a
suffix after an underscore, marked "a slip", are plausible errors of the code,
used only to show that the properties notice them.

## 3. What the runs show

Every bound is a constant of a `.cfg` file or a definition of an `MC` module.

| Run | Instance | Shows |
|---|---|---|
| `wfq` | capacity 2, one kind of request | `WorkConserving`, `BoundedBypass`, `MinimumShare` from every cursor and filling. The order of service depends on the classes only, so one kind is enough; the proofs lift the bound |
| `gateway` | two High requests and a Low one, capacity 1, room 0 or 1 | `SingleCustody`, `WaitingIsHeld`, `SnapshotHolds`; the liveness of `CancelledLeaveTheQueue` and `ImplementsService`. Two requests for one place are what a lost readmission takes |
| `gateway_lost` | the same | violates `NoWaitingRequestLost` (finding 1) |
| `placement` | two nodes out of five shapes, which between them are tight, hot (over 85 %), exactly at 85 %, an exact fit, MIG without slices, and with the only room in a slice out of order; two needs; a preemption queue of up to four tasks in three priorities, which is where a heap first has a choice of children on the way down | `FailsOnlyWhenNothingFits`, `PlacedWhereReconciled`, `WeightsAreUsed`, `SliceIsBestOfNode`, `EvictsLeastImportant`. The nodes are interchangeable, hence the symmetry; no property here is a liveness property |
| `reconciler` | one MIG node with a slice, two models, channels of length 1, one copy of a command on its way, one fault, removal or `SetDesired` with another model | `DeadAnnouncedOnce`, `CommandsAreAddressed`, `SettledStays`, `TicksEnd`, `DeathsAreFound`, `Converges`, `GoesQuiet`, `PlacementsAreServed`. Channels of length 1 block soonest. That places do not get in each other's way is what the proofs add for every number of them |
| `reconciler_dead` | two such nodes, one model | violates `WorkloadsRescheduled` (finding 2) |
| `loader` | two loads of one model and one of another, which do not all fit, two evictions, two generations; any load may fail in its constructor or its construction | `OnlyEvictionsTakeEngines`, `NeverOvercharged`, `LoadsAreAnswered`, `NothingLeaks` |
| `loader_headroom` | the same | violates `HeadroomWhenBuilding` (finding 3) |
| `agent` | two models, two tasks, one place (the slice or the whole GPU, by mode), one copy of the payload on its way, one fault, the four modes | `NothingUnasked`, `SettledStays`, `ImplementsInterface`, `ServesDesired`, `CommandsEnd`. The proofs of the first three are for any number of slices and of copies. One copy is the loop waiting for its POST; a second would be one the reconciler has not yet taken out of `heartbeatCh` |
| `agent_honest` | the same | violates `HonestReports` (finding 4) |
| `checkpoint` | three saves, a delete and a restore of one model, one kill | `ManifestSurvives`, `LoneCallsSucceed`, `ImplementsStore`. Models do not meet in the file system, so one is enough; three saves are what it takes for two to fail because of each other while a third is done. `MaxKills` is 1: a call after the kill finds every state a kill leaves |
| `traffic` | two models, a window of two periods, a threshold of two requests, channels of two, at most two requests a period (`MaxRate`) | `SignalsAreNotLost`, `SignalsAreEarned`, `BurstsAreNoticed`. Both models can be hot at once, the request channel fills, and a model is hot again as soon as it may be signalled again |

The type invariants that say more than types (`GTypeOK`, and those of `Reconciler`,
`Loader` and `Checkpoint`) are checked too; the others, and `DeliveryNeverBlocks`,
which `SingleCustody` implies, are proved and not repeated here. `loader` and
`checkpoint` turn deadlock checking off: they take finitely many requests and stop
when these are served. Elsewhere it is on, and no state is without a successor.
`MaxFaults` bounds crashes, losses, late heartbeats and restarts, in `Reconciler` the
calls of `RemoveDesired` and `SetDesired` too: the liveness properties say what holds
once faults are over, and one fault at any point is what a recovery starts from.
`MaxSent` bounds the copies of a payload that have not been applied: with it reached the
heartbeat loop waits for its POST, and a POST may fail instead, as a fault.
`MaxInFlight` merges further copies of a command with one already on its way. Desired
state never shrinks in `Agent`, because in the program nothing calls `RemoveDesired`.
In `Reconciler` a model is asked for at one place at a time.

Findings without a run are comments that say more than the code does
(`gateway.go:119`, `bin_packer.go:19`, `traffic_analyzer.go:17` and `28`), the
replacement of a manifest in two file operations (`checkpoint.py:79-80`: the
states between are those in which `ManifestStore` keeps nothing for a name), the
second look at `_llm` in a generation (`vllm_engine.py:159`: the state "broken" of
`Loader`), and the
mock agent of a plain node, which rewrites its list on every tick and is
therefore sent the same commands for ever; `CommandsEnd` excludes it by name.

### Fairness

* `Gateway`: the drain loop is a goroutine woken by a ticker, and each handler is
  one too: weak fairness on the steps of each. A handler that waits times out at
  the latest (`Expire`). Clients need not send anything.
* `Reconciler`: weak fairness on the goroutines' own steps. `Run` selects between
  heartbeats and ticks, and Go's select takes a ready case at random: strong
  fairness on each. An agent sends every 500 ms whatever the answer, so it gets a
  heartbeat through if the channel has room again and again: strong fairness. A
  command that was sent is carried out or lost; losing one at a running node is a
  fault, and faults are bounded. A node that is down is found old: weak fairness.
  Crashes and restarts are never forced.
* `Agent`: weak fairness on the loop, on the arrival of what it sent (the POST ends, and
  the select of `Run` picks a ready channel), on the tasks and on the loader's answers;
  strong fairness on the arrival of a command that is needed again and again, as
  the reconciler repeats it on every tick.
* `Loader`: weak fairness on the steps of a load or generation in progress, on the
  end of an eviction and on the collection of an engine nobody refers to.
* `Traffic`: weak fairness on the analysis and on `handleActions`, goroutines that
  wait for nothing else; strong fairness on taking a request, since the select of
  `Run` picks a ready case at random. Nobody has to send requests, and the clock
  need not go on.
* `Checkpoint` states none: its properties are safety properties, and the
  refinement is one of steps.

## 4. What is proved

`AdmissionProofs`, of the queue (for every positive capacity and every set of requests):

* `TypeCorrect`: `TypeOK`, with the capacity of every bucket, and the ranges of
  the observation's counters.
* `NextIsWorkConserving`: each class has a slot within ten of every cursor
  (`CycleCovers`), so one turn that finds nothing means an empty queue.
* `BypassIsBounded` and `ShareIsGuaranteed`: neither bound is inductive by
  itself, since it says nothing of where the cursor stands. `BypassInv` adds the
  distance to the class's next slot: calls passed over so far plus `Dist` stay
  within the bound. `ShareInv` counts the slots the cursor has passed since the
  observation began (`travel`): each slot of the watched class served it, because
  it stayed backlogged, and every call passed at least one slot, so ten calls see
  the whole cycle. `Cum` and the lemmas on it count the slots of a
  class along the cycle.

`AdmissionProofs`, of the gateway (for every set of requests, capacity, assignment of
classes and needs):

* `Inv` is inductive: the types; each request only in its own class's bucket and
  once (`Buckets`); the drain loop holds a request exactly in the states in
  which it should (`HandInv`); queue, hand and channel exclude each other
  (`ApartInv`); who is in them has been sent and is not placed (`WaiterInv`);
  `CancelInv` relates the flag to the handler's phase; a waiting request is held
  unless it was dropped (`HeldInv`). `InvStep` has a lemma for the handlers, one
  for the drain loop and a step per action in each.
* `GatewayTypeCorrect`, `CustodyIsSingle`, `WaitingIsKept`, `DeliveryIsFree`
  follow from `Inv`. `SnapshotIsKept` needs a second induction on the length of
  the queue.
* `RefinesService`: with the mapping of `Service`, initial states of the gateway
  are initial states of `AdmissionService` and each step is one of its steps or a
  stutter.
* `DrivesTheQueue`: every behaviour of the gateway is, of its queue, a behaviour of
  `WFQueue` (`QueueStep`). What is proved of the order of service there therefore
  holds while handlers and the drain loop share the queue.
* `PassNeverRunsDry` puts the two halves together: by `SnapshotIsKept` a request is
  queued for each attempt left of a pass, and by `NothingMeansEmpty` `Next` then
  finds one, so the early return of `drainOnce` (`gateway.go:121-124`) is dead code.

`CheckpointProofs` (for every set of saves, deletes, restores and names, and any
number of kills):

* `Inv` adds to `TypeOK` what is known of a save's directory from where the save
  stands, that a directory under a model's name belongs to a save that ended well,
  and that the directory an `rmtree` has open was under its own name (`DirInv`).
  `CheckpointTypeCorrect` follows, with its clause that nothing half-written has a
  model's name.
* `LoneCallsDoSucceed`: `LoneInv` says what a call that met no other finds under its
  name at each point of `rmtree` and `rename`; `LoneFrame` shows that a step of one
  call leaves this to every other call it did not meet.
* `ManifestDoesSurvive`: while only saves were at work on a name and one succeeded,
  a missing manifest means a save is left that is past every check and will put its
  own there (`SurviveInv`).
* `RefinesStore`: every step is a step of `ManifestStore` or a stutter. Unlinking a
  manifest is `Drop`, the rename is `Put`, an error or an end without effect is
  `End`, and a restore takes effect when it opens the file or finds none.

`BinPackerProofs` (for every finite set of nodes, and every set of heartbeats, of
requests and of priority levels):

* `Inv` says that the registry holds nodes (`RegistryInv`), that a call looks at
  nodes of the registry, which stay the registry's own until a heartbeat replaces
  them there, a mark of death included (`CallInv`), and that the outcome of a call is
  one of the choices of the nodes as it found them when it decided, or that there was
  none (`OutcomeInv`). `Types` follows. `OutcomeInv` is what the other theorems need
  and what would break if `Schedule` looked at the registry again after `All`.
* What follows is about snapshots. `CandidateIs` and `CandidateTypes`: the
  candidates are the slices that fit, and they are finitely many. `Extreme` and
  `Least`: so one of them is the freest and one the tightest, hence
  `SomethingIsPicked`. `HostsWhereASliceFits`: a node can host a model, by
  `NodeFreeVRAM` and `BestSliceFor`, exactly when a slice of it fits by the
  packer's rule. `AnswerIs`: the name an answer gives a slice is the reconciler's
  key of it.
* `NoCapacityOverlooked`, `PlacementIsUsable`, `AffinityIsHonoured`,
  `SliceRulesAgree` put these together; the last one needs that the pool holds all
  of a node's fitting slices or none (`PoolHoldsTheNode`).
* `EvictionIsRight`: `HeapInv` says that no task of the preemption queue is more
  important than the one above it, for queues of every length. `Up` and `Down` are
  recursive functions: `UpExists` and `DownExists` show that such functions exist, by
  a minimal counterexample, before `UpIs` and `DownIs` unfold them. `UpStep` and
  `DownStep` carry "in order but for this place" (`OrderedButAt`, `OrderedButBelow`)
  from one place to the next, `SwapKeeps` the number of tasks of each level;
  `PushFacts`, `PopFacts` and `EvictFacts` are what `heap.Push`, `heap.Pop` and
  `Evict` do as a whole, and `TopIsLast` that the top is least important.

`ReconcilerProofs` (for every set of nodes, places and models, all channel lengths
and bounds):

* `TypeInv` strengthens `TypeOK` by what travels: heartbeats and actions in the
  channels are well formed, a tick's list of stale nodes holds nodes, its diff only
  places of nodes the registry knows.
* `AnnouncedOnce`: `HealthInv` adds that a healthy node has not been announced, and
  that the nodes a tick has found stale stay healthy until the tick marks them,
  because heartbeats are applied by the same goroutine. `HealthStep` has a step per
  action.
* `Addressed`: `CommandsAreAddressed` is not inductive alone. `AddressInv` adds that
  the places a diff still has to visit are of healthy nodes: only the reconciler
  itself marks a node, and it is at the diff. An entry of desired state, once there,
  may be emptied but goes only with the scheduler, whose channels go too
  (`EntriesStay`). `PendingSource` says where an action that waits can come from,
  `OutShrinks` and `HealthSource` what can disturb it.
* `SettledPlacesStay`: a place is settled when its list, the registry's copy of it
  and every copy still in the heartbeat channel are what is desired, and no command
  for it waits or is on its way. `SettledReport`, `SettledHeartbeats`, `SettledEntry`
  and `SettledQuiet` show, conjunct by conjunct, that a step which neither changes
  its desire nor restarts its agent keeps this; `SettledNeedsNothing` that a diff of
  it decides nothing.

`AgentProofs` (for every set of models, slices and tasks, in the four modes):

* `TypeInv` types the commands in the tasks; `AgentTypes` follows.
* `NothingIsUnasked`: `AskedInv` adds that the command of each task that loads, and
  the status the heartbeat loop holds, were asked for. Desired state only grows
  (`TasksAsked`, `ListsAsked`, `ServingAsked`: one lemma for each of the
  places an unasked model could come from).
* `SettledNodesStay`: from a settled state only the heartbeat loop and the arrival of
  its copies can act, and what the loop writes is what is there: nothing on a MIG node,
  the loader's status, now or as it was read, on a plain one (`NoDrift`,
  `SettledSteps`). An older copy of the payload that is still on its way could set the
  node in motion again when it arrives, so "settled" says that there is none; copies
  that say the same may be on their way.
* `ImplementsTheInterface`: on a MIG node every step is a step of `AgentInterface` or
  a stutter. A task takes its command when it starts and lets go of it at the mark
  (`Execute`), at a refusal or at the timeout (`Lose`); what the loader does in
  between is invisible. This is what `Reconciler` assumes of an agent; a plain
  node's agent does not satisfy it, since its list is the loader's.

`LoaderProofs` (for every set of requests, sizes and slices, and every device):

* `LockInv`: the waiters of `_load_lock` are distinct and the load at work is at the
  head, so no two loads are between `Begin` and `Publish`. `EngineInv` and
  `GenerationInv`: where an engine is, by the stage of its load and of the
  evictions; a generation's entry is up unless an eviction of the model went
  through. `Types` and `EnginesStay` follow.
* `ChargesAreFair`: `MemoryInv` bounds the memory in use by what was in use before a
  construction began, and after it by that and the size of the model. Both need
  `LockInv`: evictions and collections only lower it, and nobody else builds.
  `UsedShrinks` and `MemoryStep` rest on `FiniteSums`.

`TrafficProofs` (for every finite set of models, window, threshold and capacities):

* `CountInv`: of each model and age, what is counted and what still waits in the
  channel is at most what was asked for (up to the cap). `WaitingAppend`,
  `WaitingTail` and `WaitingAged` say how the channel's part changes.
* `SignalsEarned` is an action property: a step that marks a model signalled finds
  `Threshold` counted requests, and `FreshWereAsked` turns these into requests made
  (`SumBelow` of `FiniteSums`).
* `NoSignalIsLost`: `SignalInv` says the signals underway are of different models,
  each marked less than a window ago. A model that may be signalled again is
  therefore not among them, and the pigeonhole principle leaves room for it
  (`RoomForSignal`).

`FiniteSums` shows what `MapThenSumSet` of the community modules computes: the
function it recurses with exists and is unique, the sum is independent of the order
(`SumRemove`), additive and monotone. The induction theorems of the library take an
operator as an argument, which the provers cannot instantiate; the proofs go by a
minimal counterexample instead, which the library's theorem on well-founded
relations provides (`MinimalSubset`, `LeastNumber`).

Every inductive invariant was checked by TLC on the instance of its run before it was
proved. The assumptions are those declared with the constants: a positive capacity,
classes and natural needs for the requests; a name for each call on checkpoints,
saves that are neither deletes nor `None` nor one of the strings a restore may
answer; finitely many nodes, integers for VRAM, and slices with a name
(`agent/src/main.rs:205-214` gives every slice one), natural numbers for the
priorities (`bin_packer.go:12-17` has 0, 1 and 2); places are on nodes, an `Absent`
that is no registry entry and a `NoEntry` that is no set of models; a fixture for
each place of an agent, and a `NoCommand` that is no command; finitely many loads,
none of them named like a stage of an eviction, and natural sizes; finitely many
models, a positive window and threshold, natural capacities for the analyzer. TLC
evaluates all of them in the runs.

Only model-checked: every liveness property, among them the fairness half of
`ImplementsService`, `CancelledLeaveTheQueue`, `BurstsAreNoticed`, and all that
`Reconciler`, `Agent` and `Loader` promise to happen in the end. Liveness and ENABLED
are out of the prover's reach. Every invariant and every action property that a
passing run checks is also proved.

## 5. What is not modelled

* Model cache: `main.go:29-30` creates it and drops it, and nothing calls it; its
  methods are independent single steps under a mutex.
* `list_manifests`: it has no caller and changes nothing; see the finding.
* Loader: the mock engine, `/status`, which only reads, and the shutdown hook, which
  evicts everything just before the process ends. `/checkpoint` is `save`.
  A generation's own memory is not counted, so `NeverOvercharged` speaks of engines
  that are built beside evictions and other engines only.
* Checkpoints: of the file operations the disk may refuse, only the writing of a
  manifest; a `rename` or an `rmtree` fails for what it finds there.
* Traffic: `Prompt` rests on `handleActions` taking a signal within a window, and the
  signal channel of the run has room for each model, so a dropped signal, which
  would be held for sent, is what `SignalsAreNotLost` excludes there and not
  explored further.
* Agent: a status call that hangs (a crash of the node, as far as the scheduler
  sees), and two slices of one node that hold one model, which an eviction by name
  takes from both.
* Reconciler: nodes without MIG (see section 2), an unhealthy slice, which agents never report (`main.rs:213`), and a
  node whose layout changes, which takes a restart of its agent with another layout
  (`main.rs:205-221`) under the same node id.
* Hardware sampling, the drift of mock figures, HTTP, logging, configuration,
  images and deployment: I/O without state of the program's own.

## 6. Plan

The order puts what decides whether a client's request is served first: queue,
gateway, packer, control loop, agent, loader, then checkpoints and traffic. All of
these are done, and so are the proofs of what is not liveness. What a continuation could
add:

1. Compositions: `Agent` with `Reconciler` through `AgentInterface`, in one state
   space; `Agent` with `Loader` (two slices of one model, eviction by name);
   `BinPacker` with `Gateway` (how far concurrent calls overcommit a node).
2. `Reconciler`: places of a MIG node whose layout changes between a decision and
   the tick.
