------------------------------- MODULE Loader -------------------------------
(***************************************************************************)
(* The model loader of a node (agent/loader/main.py, vllm_engine.py) on    *)
(* real hardware.  /load is a coroutine: it looks, checks the headroom and *)
(* queues for _load_lock in one go, then builds its engine on a worker     *)
(* thread while it holds the lock.  /evict runs on a thread of its own, at *)
(* any time; /generate runs its engine on yet another.  What vLLM and CUDA *)
(* do with memory is modelled from outside: building an engine takes the   *)
(* model's size, for which there must be room, or fails, for any reason;   *)
(* it is given back when the last reference to the engine goes.            *)
(***************************************************************************)
EXTENDS Integers, Sequences, FiniteSetsExt

CONSTANTS Models, Loads, Evicts, Generates,
          ModelOf,       \* the model of each request
          SliceOf,       \* the slice of each load, or Whole
          Whole,         \* no slice_id: the whole GPU
          SliceCap,      \* slice_vram_cap_mib of each slice
          Size,          \* what an engine of each model takes
          Total,         \* memory of the device
          Headroom,      \* VRAM_HEADROOM_MIB
          None

ASSUME LoaderAssumption ==
  /\ IsFiniteSet(Loads)
  /\ ModelOf \in [Loads \cup Evicts \cup Generates -> Models]
  /\ Size \in [Models -> Nat] /\ Total \in Nat
  /\ Loads \cap {None, "new", "nothing", "done"} = {}

VARIABLES store,      \* ModelStore: the load whose engine serves each model
          alive,      \* the loads whose EngineHandle has its engine (_llm)
          recorded,   \* vram_used_mib of each engine
          before,     \* memory in use as each engine's construction began
          load,       \* where each /load request stands
          evict,      \* where each /evict request stands
          gen,        \* where each /generate request stands
          entryOf,    \* the load whose entry a /generate request holds
          lock        \* _load_lock: the queue of its waiters, the holder first

engines == <<alive, recorded, before>>
gens    == <<gen, entryOf>>
vars    == <<store, engines, load, evict, gens, lock>>

\* A generation keeps the engine it runs on, whatever becomes of its handle.
Running  == {entryOf[g] : g \in {h \in Generates : gen[h] = "running"}}
Holding  == alive \cup Running
Takes    == [l \in Loads |-> Size[ModelOf[l]]]
Used     == MapThenSumSet(LAMBDA l : Takes[l], Holding)
Stored   == {l \in Loads : store[ModelOf[l]] = l}
Answers  == {"existing", "refused", "failed", "loaded"}

LoadTo(l, s)  == load' = [load EXCEPT ![l] = s]
EvictTo(e, s) == evict' = [evict EXCEPT ![e] = s]

Init ==
  /\ store = [m \in Models |-> None] /\ alive = {}
  /\ recorded = [l \in Loads |-> 0] /\ before = [l \in Loads |-> 0]
  /\ load = [l \in Loads |-> "new"]
  /\ evict = [e \in Evicts |-> "new"]
  /\ gen = [g \in Generates |-> "new"] /\ entryOf = [g \in Generates |-> None]
  /\ lock = <<>>

-----------------------------------------------------------------------------
(* /load                                                                   *)

UsedOnSlice(s) == MapThenSumSet(LAMBDA l : recorded[l], {l \in Stored : SliceOf[l] = s})

\* _assert_vram_headroom: a slice is measured by what the store recorded, the
\* whole GPU by what is allocated.
FreeFor(l) == IF SliceOf[l] = Whole THEN Total - Used
              ELSE SliceCap[SliceOf[l]] - UsedOnSlice(SliceOf[l])

\* A live engine is answered at once, too little headroom with 507. Else an
\* EngineHandle is made, which raises for a quantization vLLM does not know (the
\* coroutine ends, before any try), and the coroutine gets in line for the lock.
Check(l) ==
  /\ load[l] = "new"
  /\ IF store[ModelOf[l]] # None THEN LoadTo(l, "existing") /\ UNCHANGED lock
     ELSE IF FreeFor(l) < Headroom THEN LoadTo(l, "refused") /\ UNCHANGED lock
     ELSE \/ LoadTo(l, "waiting") /\ lock' = Append(lock, l)
          \/ LoadTo(l, "failed") /\ UNCHANGED lock
  /\ UNCHANGED <<store, engines, evict, gens>>

\* The lock is taken and the worker thread reads the memory in use.
Begin_Unlocked(l) ==                   \* a slip: no lock around engine.load
  /\ load[l] = "waiting"
  /\ before' = [before EXCEPT ![l] = Used]
  /\ LoadTo(l, "building")
  /\ UNCHANGED <<store, alive, recorded, evict, lock, gens>>
Begin(l) ==
  /\ load[l] = "waiting" /\ Head(lock) = l
  /\ before' = [before EXCEPT ![l] = Used]
  /\ LoadTo(l, "building")
  /\ UNCHANGED <<store, alive, recorded, evict, lock, gens>>

Fits(l) == Used + Takes[l] <= Total

Build(l) ==
  /\ load[l] = "building" /\ Fits(l)
  /\ alive' = alive \cup {l}
  /\ LoadTo(l, "built")
  /\ UNCHANGED <<store, recorded, before, evict, lock, gens>>

\* The thread measures what it took: max(after - before, 0).
Measure(l) ==
  /\ load[l] = "built"
  /\ recorded' = [recorded EXCEPT ![l] = IF Used > before[l] THEN Used - before[l] ELSE 0]
  /\ LoadTo(l, "measured")
  /\ UNCHANGED <<store, alive, before, evict, lock, gens>>

\* EngineLoadError: the lock is released on the way out, 500 is answered.
FailBuild_KeepsLock(l) ==              \* a slip: no release on the error path
  /\ load[l] = "building"
  /\ LoadTo(l, "failed")
  /\ UNCHANGED <<store, engines, evict, lock, gens>>
FailBuild(l) ==
  /\ load[l] = "building"
  /\ LoadTo(l, "failed")
  /\ lock' = Tail(lock)
  /\ UNCHANGED <<store, engines, evict, gens>>

\* Back on the event loop: the lock is released and the engine published, over
\* the entry of the same model if there is one, before any other coroutine runs.
Publish_UnloadsOld(l) ==               \* a slip: an engine overwritten is unloaded at once
  /\ load[l] = "measured"
  /\ lock' = Tail(lock)
  /\ store' = [store EXCEPT ![ModelOf[l]] = l]
  /\ alive' = alive \ {store[ModelOf[l]]}
  /\ LoadTo(l, "loaded")
  /\ UNCHANGED <<recorded, before, evict, gens>>
Publish(l) ==
  /\ load[l] = "measured"
  /\ lock' = Tail(lock)
  /\ store' = [store EXCEPT ![ModelOf[l]] = l]
  /\ LoadTo(l, "loaded")
  /\ UNCHANGED <<engines, evict, gens>>

\* An engine whose entry was overwritten is garbage; it goes when Python sees to it.
Collect(l) ==
  /\ load[l] = "loaded" /\ l \in alive /\ l \notin Stored
  /\ \A e \in Evicts : evict[e] # l
  /\ \A g \in Generates : gen[g] \in {"held", "checked", "running"} => entryOf[g] # l
  /\ alive' = alive \ {l}
  /\ UNCHANGED <<store, recorded, before, load, evict, lock, gens>>

LoadStep(l) == Begin(l) \/ Build(l) \/ Measure(l) \/ FailBuild(l) \/ Publish(l)

-----------------------------------------------------------------------------
(* /evict: evict[e] is the load whose engine e has taken out of the store.  *)

EvictNothing(e) ==
  /\ evict[e] = "new" /\ store[ModelOf[e]] = None
  /\ EvictTo(e, "nothing")
  /\ UNCHANGED <<store, engines, load, lock, gens>>

Remove(e) ==
  /\ evict[e] = "new" /\ store[ModelOf[e]] # None
  /\ EvictTo(e, store[ModelOf[e]])
  /\ store' = [store EXCEPT ![ModelOf[e]] = None]
  /\ UNCHANGED <<engines, load, lock, gens>>

Unload_Keeps(e) ==                     \* a slip: something still refers to the engine
  /\ evict[e] \in Loads
  /\ EvictTo(e, evict[e])
  /\ UNCHANGED <<store, engines, load, lock, gens>>
Unload(e) ==
  /\ evict[e] \in Loads
  /\ alive' = alive \ {evict[e]}
  /\ EvictTo(e, "done")
  /\ UNCHANGED <<store, recorded, before, load, lock, gens>>

-----------------------------------------------------------------------------
(* /generate, as far as the engine it uses goes.                           *)

GenTo(g, s) == gen' = [gen EXCEPT ![g] = s]

\* On the event loop: 404, or the entry is kept for the worker thread.
FindEntry(g) ==
  /\ gen[g] = "new"
  /\ IF store[ModelOf[g]] = None THEN GenTo(g, "unknown") /\ UNCHANGED entryOf
     ELSE GenTo(g, "held") /\ entryOf' = [entryOf EXCEPT ![g] = store[ModelOf[g]]]
  /\ UNCHANGED <<store, engines, load, evict, lock>>

\* On the thread: without its engine the handle raises EngineLoadError (500).
CheckEngine(g) ==
  /\ gen[g] = "held"
  /\ GenTo(g, IF entryOf[g] \in alive THEN "checked" ELSE "unloaded")
  /\ UNCHANGED <<store, engines, load, evict, entryOf, lock>>

\* _llm is looked up once more: gone meanwhile, it is an AttributeError, which
\* the endpoint does not expect.
StartGenerating(g) ==
  /\ gen[g] = "checked"
  /\ GenTo(g, IF entryOf[g] \in alive THEN "running" ELSE "broken")
  /\ UNCHANGED <<store, engines, load, evict, entryOf, lock>>

Generated(g) ==
  /\ gen[g] = "running"
  /\ GenTo(g, "generated")
  /\ UNCHANGED <<store, engines, load, evict, entryOf, lock>>

GenerateStep(g) == CheckEngine(g) \/ StartGenerating(g) \/ Generated(g)

-----------------------------------------------------------------------------
Next == \/ \E l \in Loads : Check(l) \/ LoadStep(l) \/ Collect(l)
        \/ \E e \in Evicts : EvictNothing(e) \/ Remove(e) \/ Unload(e)
        \/ \E g \in Generates : FindEntry(g) \/ GenerateStep(g)

\* The event loop and the worker threads run; nobody has to send a request.
Fairness == /\ \A l \in Loads : WF_vars(LoadStep(l)) /\ WF_vars(Collect(l))
            /\ \A e \in Evicts : WF_vars(Unload(e))
            /\ \A g \in Generates : WF_vars(GenerateStep(g))

Spec == Init /\ [][Next]_vars /\ Fairness

-----------------------------------------------------------------------------
(* Properties.                                                             *)

LoadStates == Answers \cup {"new", "waiting", "building", "built", "measured"}
AtWork     == {l \in Loads : load[l] \in {"building", "built", "measured"}}

\* Types, and who is in line for the lock (main.py:61-89).
TypeOK ==
  /\ store \in [Models -> Loads \cup {None}] /\ alive \subseteq Loads
  /\ recorded \in [Loads -> 0..Total] /\ before \in [Loads -> 0..Total]
  /\ load \in [Loads -> LoadStates]
  /\ evict \in [Evicts -> Loads \cup {"new", "nothing", "done"}]
  /\ gen \in [Generates -> {"new", "unknown", "held", "checked", "running",
                           "generated", "unloaded", "broken"}]
  /\ entryOf \in [Generates -> Loads \cup {None}]
  /\ {lock[i] : i \in 1..Len(lock)} = {l \in Loads : load[l] = "waiting"} \cup AtWork

\* Only an eviction takes an engine from under its users: what the store answers
\* for is up, and a generation that found its entry fails only when an eviction of
\* the model came after, never by a load that replaced the entry (main.py:217,
\* 245-256, 278, 311-318).
OnlyEvictionsTakeEngines ==
  /\ \A m \in Models : store[m] # None => store[m] \in alive
  /\ \A g \in Generates : gen[g] \in {"unloaded", "broken"} =>
       \E e \in Evicts : ModelOf[e] = ModelOf[g] /\ evict[e] = "done"

\* The memory charged to a model is never more than it takes, whatever loads and
\* evictions go on around its construction: the difference of two readings is
\* good for that because loads exclude each other (vllm_engine.py:106-126).
NeverOvercharged ==
  \A l \in Loads : load[l] \in {"measured", "loaded"} => recorded[l] <= Takes[l]

\* Every load that got in line is answered, after failures of others too: the
\* lock always comes free (main.py:210-217).
LoadsAreAnswered == \A l \in Loads : load[l] = "waiting" ~> load[l] \in Answers

\* When all is answered, memory is held by the engines in the store and by no
\* other: overwritten and evicted ones are gone, and the generations that kept
\* them have ended (main.py:217, 316, vllm_engine.py:159, 189-192).
NothingLeaks == <>[](Holding = Stored)

-----------------------------------------------------------------------------
\* "The check-then-load is only safe if load can't interleave with another load"
\* (main.py:206-209, on the lock): a construction begins with the headroom that
\* was checked for it.
HeadroomWhenBuilding == [][\A l \in Loads : Begin(l) => FreeFor(l) >= Headroom]_vars
=============================================================================
