---------------------------- MODULE LoaderProofs ----------------------------
(***************************************************************************)
(* Proofs about the model loader (Loader): its types, that only evictions  *)
(* take engines from under their users, and that no model is charged more  *)
(* memory than it takes.  The last one rests on _load_lock: two readings   *)
(* of the memory in use differ by no more than the engine built between    *)
(* them, because nothing else is built meanwhile.                          *)
(***************************************************************************)
EXTENDS Loader, FiniteSums

-----------------------------------------------------------------------------
(* The inductive invariant.                                                *)

\* The waiters of _load_lock are distinct, and the load at work holds it.
LockInv ==
  /\ lock \in Seq(Loads)
  /\ \A i, j \in 1..Len(lock) : lock[i] = lock[j] => i = j
  /\ \A l \in AtWork : Head(lock) = l

\* Where the engines are: up from their construction on, in the store under their
\* own model, out of it once an eviction has them.
EngineInv ==
  /\ \A l \in alive : load[l] \in {"built", "measured", "loaded"}
  /\ \A l \in Loads : load[l] \in {"built", "measured"} => l \in alive
  /\ \A m \in Models : store[m] # None =>
       /\ ModelOf[store[m]] = m
       /\ load[store[m]] = "loaded" /\ store[m] \in alive
  /\ \A e \in Evicts : evict[e] \in Loads =>
       /\ ModelOf[evict[e]] = ModelOf[e]
       /\ load[evict[e]] = "loaded" /\ store[ModelOf[e]] # evict[e]

\* An eviction of the model of request r was carried through.
Evicted(r) == \E e \in Evicts : ModelOf[e] = ModelOf[r] /\ evict[e] = "done"

\* A generation holds an entry of its model, whose engine is up or was evicted.
GenerationInv ==
  /\ \A g \in Generates : gen[g] \in {"held", "checked", "running"} =>
       /\ entryOf[g] \in Loads
       /\ ModelOf[entryOf[g]] = ModelOf[g] /\ load[entryOf[g]] = "loaded"
  /\ \A g \in Generates : gen[g] \in {"held", "checked"} /\ entryOf[g] \notin alive
                            => Evicted(g)
  /\ \A g \in Generates : gen[g] \in {"unloaded", "broken"} => Evicted(g)

\* The readings of the memory in use around a construction.
MemoryInv ==
  /\ Used \in 0..Total
  /\ \A l \in Loads : load[l] = "building" => Used <= before[l]
  /\ \A l \in Loads : load[l] = "built" => Used <= before[l] + Takes[l]
  /\ NeverOvercharged

Inv == TypeOK /\ LockInv /\ EngineInv /\ GenerationInv /\ MemoryInv

-----------------------------------------------------------------------------
(* The lock.                                                               *)

\* Only the coroutines of /load queue for the lock and leave it.
LockTypeOK ==
  {lock[i] : i \in 1..Len(lock)} = {l \in Loads : load[l] = "waiting"} \cup AtWork

\* A load that gets in line is new to it.
LEMMA JoinLock ==
  ASSUME Inv, NEW l \in Loads, load[l] = "new",
         load' = [load EXCEPT ![l] = "waiting"], lock' = Append(lock, l)
  PROVE  LockTypeOK' /\ LockInv'
<1>1. /\ lock' \in Seq(Loads) /\ Len(lock') = Len(lock) + 1 /\ Len(lock) \in Nat
      /\ lock'[Len(lock) + 1] = l
      /\ \A i \in 1..Len(lock) : lock'[i] = lock[i]
  BY DEF Inv, LockInv
<1>2. \A i \in 1..Len(lock) : lock[i] # l
  BY DEF Inv, TypeOK, AtWork
<1>3. AtWork' = AtWork /\ l \notin AtWork
  BY DEF Inv, TypeOK, AtWork
<1>4. LockTypeOK'
  <2>1. ASSUME NEW i \in 1..Len(lock')
        PROVE lock'[i] \in {k \in Loads : load'[k] = "waiting"} \cup AtWork'
    <3>1. CASE i = Len(lock) + 1
      BY <1>1, <3>1 DEF Inv, TypeOK
    <3>2. CASE i \in 1..Len(lock)
      <4>1. lock[i] \in {k \in Loads : load[k] = "waiting"} \cup AtWork
        BY <3>2 DEF Inv, TypeOK
      <4> QED BY <4>1, <3>2, <1>1, <1>2, <1>3 DEF Inv, TypeOK
    <3> QED BY <3>1, <3>2, <1>1
  <2>2. ASSUME NEW k \in {k \in Loads : load'[k] = "waiting"} \cup AtWork'
        PROVE  \E i \in 1..Len(lock') : lock'[i] = k
    <3>1. CASE k = l
      BY <1>1, <3>1
    <3>2. CASE k # l
      <4>1. k \in {j \in Loads : load[j] = "waiting"} \cup AtWork
        BY <3>2, <1>3 DEF Inv, TypeOK
      <4>2. PICK i \in 1..Len(lock) : lock[i] = k
        BY <4>1 DEF Inv, TypeOK
      <4> QED BY <4>2, <1>1
    <3> QED BY <3>1, <3>2
  <2> QED BY <2>1, <2>2 DEF LockTypeOK
<1>5. \A i, j \in 1..Len(lock') : lock'[i] = lock'[j] => i = j
  <2>1. \A i \in 1..Len(lock') : i = Len(lock) + 1 \/ i \in 1..Len(lock)
    BY <1>1
  <2>2. \A i, j \in 1..Len(lock) : lock[i] = lock[j] => i = j
    BY DEF Inv, LockInv
  <2> QED BY <2>1, <2>2, <1>1, <1>2
<1>6. ASSUME NEW k \in AtWork' PROVE Head(lock') = k
  <2>1. k \in AtWork BY <1>3, <1>6
  <2>2. \E i \in 1..Len(lock) : lock[i] = k
    BY <2>1 DEF Inv, TypeOK
  <2>3. lock # <<>> /\ 1 \in 1..Len(lock) BY <2>2 DEF Inv, LockInv
  <2>4. Head(lock) = lock[1] /\ Head(lock') = lock'[1]
    BY <2>3, <1>1 DEF Inv, LockInv
  <2> QED BY <2>1, <2>3, <2>4, <1>1 DEF Inv, LockInv
<1> QED BY <1>1, <1>4, <1>5, <1>6 DEF LockInv

\* The load at work, or first in line, is at the head; when it leaves, the others stay.
LEMMA LeaveLock ==
  ASSUME Inv, NEW l \in AtWork, NEW to \in LoadStates \ {"waiting", "building", "built", "measured"},
         load' = [load EXCEPT ![l] = to], lock' = Tail(lock)
  PROVE  LockTypeOK' /\ LockInv'
<1>1. l \in Loads /\ Head(lock) = l
  BY DEF Inv, LockInv, AtWork
<1>2. AtWork = {l}
  BY <1>1 DEF Inv, LockInv
<1>3. AtWork' = {}
  BY <1>2 DEF AtWork, Inv, TypeOK
<1>4. \E i \in 1..Len(lock) : lock[i] = l
  BY DEF Inv, TypeOK
<1>5. /\ lock' \in Seq(Loads) /\ Len(lock) \in Nat /\ Len(lock) >= 1
      /\ Len(lock') = Len(lock) - 1 /\ lock[1] = l
      /\ \A i \in 1..Len(lock') : lock'[i] = lock[i + 1] /\ i + 1 \in 1..Len(lock)
  BY <1>1, <1>4 DEF Inv, LockInv
<1>6. \A i, j \in 1..Len(lock) : lock[i] = lock[j] => i = j
  BY DEF Inv, LockInv
<1>7. LockTypeOK'
  <2>1. ASSUME NEW i \in 1..Len(lock') PROVE lock'[i] \in Loads /\ load'[lock'[i]] = "waiting"
    <3>1. lock[i + 1] # l /\ lock[i + 1] \in Loads
      BY <1>5, <1>6 DEF Inv, LockInv
    <3>2. load[lock[i + 1]] = "waiting"
      BY <3>1, <1>2, <1>5 DEF Inv, TypeOK
    <3> QED BY <3>1, <3>2, <1>5 DEF Inv, TypeOK
  <2>2. ASSUME NEW k \in Loads, load'[k] = "waiting" PROVE \E i \in 1..Len(lock') : lock'[i] = k
    <3>1. k # l /\ load[k] = "waiting"
      BY <2>2, <1>1 DEF Inv, TypeOK, AtWork
    <3>2. PICK i \in 1..Len(lock) : lock[i] = k
      BY <3>1 DEF Inv, TypeOK
    <3>3. i # 1 /\ i - 1 \in 1..Len(lock')
      BY <3>1, <3>2, <1>5
    <3>4. lock'[i - 1] = lock[(i - 1) + 1] BY <3>3, <1>5
    <3> QED BY <3>2, <3>3, <3>4
  <2> QED BY <2>1, <2>2, <1>3 DEF LockTypeOK
<1>8. \A i, j \in 1..Len(lock') : lock'[i] = lock'[j] => i = j
  BY <1>5, <1>6
<1> QED BY <1>3, <1>5, <1>7, <1>8 DEF LockInv

\* The load at the head gets to work, or goes on with it.
LEMMA KeepLock ==
  ASSUME Inv, NEW l \in Loads, load[l] = "waiting" \/ l \in AtWork, Head(lock) = l,
         NEW to \in {"building", "built", "measured"},
         load' = [load EXCEPT ![l] = to], lock' = lock
  PROVE  LockTypeOK' /\ LockInv'
<1>1. AtWork' = {l}
  BY DEF Inv, TypeOK, LockInv, AtWork
<1>2. {k \in Loads : load'[k] = "waiting"} \cup AtWork' = {k \in Loads : load[k] = "waiting"} \cup AtWork
  BY <1>1 DEF Inv, TypeOK, LockInv, AtWork
<1>3. {lock[i] : i \in 1..Len(lock)} = {k \in Loads : load[k] = "waiting"} \cup AtWork
  BY DEF Inv, TypeOK
<1>4. LockTypeOK' BY <1>2, <1>3 DEF LockTypeOK
<1>5. LockInv' BY <1>1 DEF Inv, LockInv
<1> QED BY <1>4, <1>5

\* A load that neither waits nor works moves on, or none does.
LEMMA IgnoreLock ==
  ASSUME Inv, lock' = lock,
         {k \in Loads : load'[k] = "waiting"} = {k \in Loads : load[k] = "waiting"},
         AtWork' = AtWork
  PROVE  LockTypeOK' /\ LockInv'
<1>1. LockTypeOK BY DEF Inv, TypeOK, LockTypeOK
<1>2. LockTypeOK' BY <1>1 DEF LockTypeOK
<1>3. LockInv' BY DEF Inv, LockInv
<1> QED BY <1>2, <1>3

\* Every step keeps the line for _load_lock: those that wait and the one at work.
LEMMA LockStep ==
  ASSUME Inv, [Next]_vars
  PROVE  LockTypeOK' /\ LockInv'
<1>1. ASSUME NEW l \in Loads, Check(l) PROVE LockTypeOK' /\ LockInv'
  <2>1. CASE load' = [load EXCEPT ![l] = "waiting"] /\ lock' = Append(lock, l)
    BY <1>1, <2>1, JoinLock DEF Check
  <2>2. CASE lock' = lock /\ \E s \in {"existing", "refused", "failed"} : load' = [load EXCEPT ![l] = s]
    <3>1. load[l] = "new" BY <1>1 DEF Check
    <3>2. \A k \in Loads : \/ load'[k] = load[k]
                           \/ k = l /\ load[k] = "new" /\ load'[k] \in {"existing", "refused", "failed"}
      BY <2>2, <3>1 DEF Inv, TypeOK
    <3>3. AtWork' = AtWork BY <3>2 DEF AtWork
    <3>4. {k \in Loads : load'[k] = "waiting"} = {k \in Loads : load[k] = "waiting"} BY <3>2
    <3> QED BY <2>2, <3>3, <3>4, IgnoreLock
  <2> QED BY <1>1, <2>1, <2>2 DEF Check, LoadTo
<1>2. ASSUME NEW l \in Loads, Begin(l) \/ Build(l) \/ Measure(l) PROVE LockTypeOK' /\ LockInv'
  <2>1. lock' = lock /\ \E s \in {"building", "built", "measured"} : load' = [load EXCEPT ![l] = s]
    BY <1>2 DEF Begin, Build, Measure, LoadTo
  <2>2. (load[l] = "waiting" \/ l \in AtWork) /\ Head(lock) = l
    BY <1>2 DEF Begin, Build, Measure, AtWork, Inv, LockInv
  <2> QED BY <2>1, <2>2, KeepLock
<1>3. ASSUME NEW l \in Loads, FailBuild(l) \/ Publish(l) PROVE LockTypeOK' /\ LockInv'
  <2>1. l \in AtWork /\ lock' = Tail(lock)
    BY <1>3 DEF FailBuild, Publish, AtWork
  <2>2. \E s \in {"failed", "loaded"} : load' = [load EXCEPT ![l] = s]
    BY <1>3 DEF FailBuild, Publish, LoadTo
  <2> QED BY <2>1, <2>2, LeaveLock DEF LoadStates, Answers
<1>4. CASE UNCHANGED <<load, lock>>
  <2>1. AtWork' = AtWork BY <1>4 DEF AtWork
  <2> QED BY <1>4, <2>1, IgnoreLock
<1>5. ASSUME NEW l \in Loads, Collect(l) PROVE UNCHANGED <<load, lock>>
  BY <1>5 DEF Collect
<1>6. ASSUME NEW e \in Evicts, EvictNothing(e) \/ Remove(e) \/ Unload(e)
      PROVE UNCHANGED <<load, lock>>
  BY <1>6 DEF EvictNothing, Remove, Unload
<1>7. ASSUME NEW g \in Generates, FindEntry(g) \/ GenerateStep(g) PROVE UNCHANGED <<load, lock>>
  BY <1>7 DEF FindEntry, GenerateStep, CheckEngine, StartGenerating, Generated
<1>8. CASE UNCHANGED vars
  BY <1>4, <1>8 DEF vars
<1> QED BY <1>1, <1>2, <1>3, <1>4, <1>5, <1>6, <1>7, <1>8 DEF Next, LoadStep

-----------------------------------------------------------------------------
(* The memory.                                                             *)

\* The memory in use is a sum over the engines that hold any, now and next.
LEMMA UsedIsSum == Used = SumOver(Takes, Holding)
BY DEF Used, SumOver

\* ... in the next state too.
LEMMA UsedNext == Used' = SumOver(Takes, Holding')
<1>1. (Used = SumOver(Takes, Holding))' BY UsedIsSum, PTL
<1> QED BY <1>1

\* Memory is held by engines of loads, and what they take adds up.
LEMMA HoldingLoads ==
  ASSUME Inv
  PROVE  /\ Holding \in SUBSET Loads /\ IsFiniteSet(Holding)
         /\ Weighs(Takes, Loads) /\ Used = SumOver(Takes, Holding)
<1>1. Holding \in SUBSET Loads
  BY DEF Holding, Running, Inv, TypeOK, GenerationInv
<1>2. IsFiniteSet(Holding) BY <1>1, LoaderAssumption, FS_Subset
<1>3. Weighs(Takes, Loads) BY LoaderAssumption DEF Weighs, Takes
<1> QED BY <1>1, <1>2, <1>3, UsedIsSum

\* Giving memory back, or only passing it on, never makes more of it used.
LEMMA UsedShrinks ==
  ASSUME Inv, Holding' \subseteq Holding
  PROVE  Used' \in Nat /\ Used' <= Used
<1>1. Used' = SumOver(Takes, Holding') BY UsedNext
<1>2. Weighs(Takes, Holding) BY HoldingLoads DEF Weighs
<1>3. Used' <= Used BY <1>1, <1>2, HoldingLoads, SumMonotone
<1>4. IsFiniteSet(Holding') /\ Weighs(Takes, Holding')
  BY <1>2, HoldingLoads, FS_Subset DEF Weighs
<1> QED BY <1>1, <1>3, <1>4, SumType

\* An engine whose construction is underway holds nothing yet.
LEMMA BuildingHoldsNothing ==
  ASSUME Inv, NEW l \in Loads, load[l] = "building"
  PROVE  l \notin Holding
BY DEF Inv, EngineInv, GenerationInv, Holding, Running

\* Where nobody builds and nobody moves on, the readings stay good.
LEMMA ReadingsKept ==
  ASSUME Inv, Holding' \subseteq Holding, UNCHANGED <<load, before, recorded>>
  PROVE  MemoryInv'
<1>1. Used' \in Nat /\ Used' <= Used BY UsedShrinks
<1>2. Used \in Nat /\ Used <= Total BY LoaderAssumption DEF Inv, MemoryInv
<1>3. before \in [Loads -> Int] /\ \A l \in Loads : Takes[l] \in Nat
  BY HoldingLoads DEF Inv, TypeOK, Weighs
<1>4. Used' \in 0..Total BY <1>1, <1>2, LoaderAssumption
<1>5. \A l \in Loads : load'[l] = "building" => Used' <= before'[l]
  BY <1>1, <1>2, <1>3 DEF Inv, MemoryInv
<1>6. \A l \in Loads : load'[l] = "built" => Used' <= before'[l] + Takes[l]
  BY <1>1, <1>2, <1>3 DEF Inv, MemoryInv
<1>7. NeverOvercharged' BY DEF Inv, MemoryInv, NeverOvercharged
<1> QED BY <1>4, <1>5, <1>6, <1>7 DEF MemoryInv

\* Every step keeps the readings: between the two of a load only evictions and
\* failures happen, because _load_lock keeps other constructions out.
LEMMA MemoryStep ==
  ASSUME Inv, [Next]_vars
  PROVE  MemoryInv'
<1> USE LoaderAssumption
<1>0. /\ Used \in Nat /\ Used <= Total /\ before \in [Loads -> 0..Total]
      /\ recorded \in [Loads -> 0..Total] /\ load \in [Loads -> LoadStates]
      /\ \A l \in Loads : Takes[l] \in Nat
  BY HoldingLoads DEF Inv, TypeOK, MemoryInv, Weighs
<1>a. ASSUME UNCHANGED <<alive, gen, entryOf>> PROVE Holding' = Holding /\ Used' = Used
  BY <1>a, UsedIsSum, UsedNext DEF Holding, Running
<1>1. ASSUME NEW l \in Loads, Check(l) \/ FailBuild(l) \/ Publish(l) PROVE MemoryInv'
  <2>1. /\ UNCHANGED <<alive, gen, entryOf, before, recorded>>
        /\ \E s \in LoadStates \ {"building", "built", "measured"} : load' = [load EXCEPT ![l] = s]
        /\ load'[l] \in {"loaded"} => load[l] = "measured"
    BY <1>1, <1>0 DEF Check, FailBuild, Publish, LoadTo, engines, gens, LoadStates, Answers
  <2>2. \A k \in Loads : \/ load'[k] = load[k]
                         \/ load'[k] \notin {"building", "built", "measured", "loaded"}
                         \/ load'[k] = "loaded" /\ load[k] = "measured"
    <3>1. \A k \in Loads : k # l => load'[k] = load[k] BY <2>1, <1>0
    <3>2. load'[l] \notin {"building", "built", "measured"} BY <2>1, <1>0
    <3> QED BY <2>1, <3>1, <3>2
  <2> QED BY <2>1, <2>2, <1>0, <1>a DEF Inv, MemoryInv, NeverOvercharged
<1>2. ASSUME NEW l \in Loads, Begin(l) PROVE MemoryInv'
  <2>1. /\ UNCHANGED <<alive, gen, entryOf, recorded>> /\ before' = [before EXCEPT ![l] = Used]
        /\ load' = [load EXCEPT ![l] = "building"] /\ load[l] = "waiting"
    BY <1>2 DEF Begin, LoadTo, gens
  <2> QED BY <2>1, <1>0, <1>a DEF Inv, MemoryInv, NeverOvercharged
<1>3. ASSUME NEW l \in Loads, Build(l) PROVE MemoryInv'
  <2>1. /\ UNCHANGED <<gen, entryOf, recorded, before>> /\ alive' = alive \cup {l}
        /\ load' = [load EXCEPT ![l] = "built"] /\ load[l] = "building" /\ Fits(l)
    BY <1>3 DEF Build, LoadTo, gens
  <2>2. Holding' = Holding \cup {l} BY <2>1 DEF Holding, Running
  <2>3. Used' = Used + Takes[l]
    <3>1. Used' = SumOver(Takes, Holding') BY UsedNext
    <3>2. Weighs(Takes, Holding) BY HoldingLoads DEF Weighs
    <3>3. l \notin Holding BY <2>1, BuildingHoldsNothing
    <3> QED BY <2>2, <3>1, <3>2, <3>3, <1>0, HoldingLoads, SumAdd
  <2>4. \A k \in Loads : load[k] = "building" => k = l
    BY <2>1 DEF Inv, LockInv, AtWork
  <2>5. \A k \in Loads : load[k] # "built"
    BY <2>1 DEF Inv, LockInv, AtWork
  <2>6. Used' \in 0..Total BY <2>1, <2>3, <1>0 DEF Fits
  <2>7. Used' <= before[l] + Takes[l] BY <2>1, <2>3, <1>0 DEF Inv, MemoryInv
  <2>8. NeverOvercharged' BY <2>1, <1>0 DEF Inv, MemoryInv, NeverOvercharged
  <2>9. \A k \in Loads : load'[k] # "building" /\ (load'[k] = "built" => k = l)
    BY <2>1, <2>4, <2>5, <1>0
  <2> QED BY <2>1, <2>6, <2>7, <2>8, <2>9 DEF MemoryInv
<1>4. ASSUME NEW l \in Loads, Measure(l) PROVE MemoryInv'
  <2>1. /\ UNCHANGED <<alive, gen, entryOf, before>>
        /\ recorded' = [recorded EXCEPT ![l] = IF Used > before[l] THEN Used - before[l] ELSE 0]
        /\ load' = [load EXCEPT ![l] = "measured"] /\ load[l] = "built"
    BY <1>4 DEF Measure, LoadTo, gens
  <2>2. Used <= before[l] + Takes[l] BY <2>1 DEF Inv, MemoryInv
  <2>3. recorded'[l] <= Takes[l] BY <2>1, <2>2, <1>0
  <2>4. NeverOvercharged' BY <2>1, <2>3, <1>0 DEF Inv, MemoryInv, NeverOvercharged
  <2> QED BY <2>1, <2>4, <1>0, <1>a DEF Inv, MemoryInv
<1>5. ASSUME NEW l \in Loads, Collect(l) PROVE MemoryInv'
  <2>1. Holding' \subseteq Holding BY <1>5 DEF Collect, gens, Holding, Running
  <2> QED BY <1>5, <2>1, ReadingsKept DEF Collect
<1>6. ASSUME NEW e \in Evicts, EvictNothing(e) \/ Remove(e) \/ Unload(e) PROVE MemoryInv'
  <2>1. Holding' \subseteq Holding
    BY <1>6 DEF EvictNothing, Remove, Unload, gens, engines, Holding, Running
  <2> QED BY <1>6, <2>1, ReadingsKept DEF EvictNothing, Remove, Unload, engines
<1>7. ASSUME NEW g \in Generates, FindEntry(g) \/ GenerateStep(g) PROVE MemoryInv'
  <2>1. Holding' \subseteq Holding
    <3>1. CASE FindEntry(g)
      BY <3>1 DEF FindEntry, GenTo, engines, Holding, Running, Inv, TypeOK
    <3>2. CASE CheckEngine(g)
      BY <3>2 DEF CheckEngine, GenTo, engines, Holding, Running, Inv, TypeOK
    <3>3. CASE StartGenerating(g)
      BY <3>3 DEF StartGenerating, GenTo, engines, Holding, Running, Inv, TypeOK
    <3>4. CASE Generated(g)
      BY <3>4 DEF Generated, GenTo, engines, Holding, Running, Inv, TypeOK
    <3> QED BY <1>7, <3>1, <3>2, <3>3, <3>4 DEF GenerateStep
  <2> QED
    BY <1>7, <2>1, ReadingsKept
    DEF FindEntry, GenerateStep, CheckEngine, StartGenerating, Generated, engines
<1>8. CASE UNCHANGED vars
  <2>1. Holding' = Holding BY <1>8 DEF vars, engines, gens, Holding, Running
  <2> QED BY <1>8, <2>1, ReadingsKept DEF vars, engines
<1> QED BY <1>1, <1>2, <1>3, <1>4, <1>5, <1>6, <1>7, <1>8 DEF Next, LoadStep

-----------------------------------------------------------------------------
(* The types.                                                              *)

\* Every step keeps the types; no engine is built beyond the memory there is.
LEMMA TypeStep ==
  ASSUME Inv, [Next]_vars
  PROVE  TypeOK'
<1> USE LoaderAssumption DEF Inv, TypeOK, LoadStates, Answers
<1>0. LockTypeOK' BY LockStep
<1> DEFINE Rest == /\ store \in [Models -> Loads \cup {None}] /\ alive \subseteq Loads
                   /\ recorded \in [Loads -> 0..Total] /\ before \in [Loads -> 0..Total]
                   /\ load \in [Loads -> LoadStates]
                   /\ evict \in [Evicts -> Loads \cup {"new", "nothing", "done"}]
                   /\ gen \in [Generates -> {"new", "unknown", "held", "checked", "running",
                                            "generated", "unloaded", "broken"}]
                   /\ entryOf \in [Generates -> Loads \cup {None}]
<1>1. ASSUME NEW l \in Loads, Check(l) PROVE Rest'
  BY <1>1 DEF Check, LoadTo, engines, gens
<1>2. ASSUME NEW l \in Loads, Begin(l) PROVE Rest'
  BY <1>2 DEF Begin, LoadTo, gens, MemoryInv
<1>3. ASSUME NEW l \in Loads, Build(l) PROVE Rest'
  BY <1>3 DEF Build, LoadTo, gens
<1>4. ASSUME NEW l \in Loads, Measure(l) PROVE Rest'
  <2>1. Used \in 0..Total /\ before[l] \in 0..Total BY DEF MemoryInv
  <2>2. (IF Used > before[l] THEN Used - before[l] ELSE 0) \in 0..Total BY <2>1
  <2> QED BY <1>4, <2>2 DEF Measure, LoadTo, gens
<1>5. ASSUME NEW l \in Loads, FailBuild(l) PROVE Rest'
  BY <1>5 DEF FailBuild, LoadTo, engines, gens
<1>6. ASSUME NEW l \in Loads, Publish(l) PROVE Rest'
  BY <1>6 DEF Publish, LoadTo, engines, gens
<1>7. ASSUME NEW l \in Loads, Collect(l) PROVE Rest'
  BY <1>7 DEF Collect, gens
<1>8. ASSUME NEW e \in Evicts, EvictNothing(e) \/ Remove(e) \/ Unload(e) PROVE Rest'
  BY <1>8 DEF EvictNothing, Remove, Unload, EvictTo, engines, gens
<1>9. ASSUME NEW g \in Generates, FindEntry(g) PROVE Rest'
  BY <1>9 DEF FindEntry, GenTo, engines
<1>10. ASSUME NEW g \in Generates, GenerateStep(g) PROVE Rest'
  BY <1>10 DEF GenerateStep, CheckEngine, StartGenerating, Generated, GenTo, engines
<1>11. ASSUME UNCHANGED vars PROVE Rest'
  BY <1>11 DEF vars, engines, gens
<1>12. Rest'
  BY <1>1, <1>2, <1>3, <1>4, <1>5, <1>6, <1>7, <1>8, <1>9, <1>10, <1>11 DEF Next, LoadStep
<1> QED BY <1>0, <1>12 DEF LockTypeOK

-----------------------------------------------------------------------------
(* The engines and the generations that use them.                          *)

\* Every step keeps the engines where they belong: the store, an eviction that has
\* taken one out, or a load on its way (main.py:206-256).
LEMMA EngineStep ==
  ASSUME Inv, [Next]_vars
  PROVE  EngineInv'
<1> USE LoaderAssumption DEF Inv, TypeOK, EngineInv
<1>1. ASSUME NEW l \in Loads, Check(l) PROVE EngineInv'
  <2>1. UNCHANGED <<store, alive, evict>> BY <1>1 DEF Check, engines
  <2>2. load[l] = "new" /\ \A k \in Loads : k # l => load'[k] = load[k]
    BY <1>1 DEF Check, LoadTo
  <2>3. load'[l] \in {"existing", "refused", "failed", "waiting"} BY <1>1 DEF Check, LoadTo
  <2>4. \A k \in Loads : load[k] \in {"built", "measured", "loaded"} <=> load'[k] \in {"built", "measured", "loaded"}
    BY <2>2, <2>3
  <2>5. \A k \in Loads : load[k] \in {"built", "measured", "loaded"} => load'[k] = load[k]
    BY <2>2
  <2> HIDE DEF TypeOK
  <2>6. alive \subseteq Loads /\ \A m \in Models : store[m] \in Loads \cup {None} BY DEF TypeOK
  <2> QED BY <2>1, <2>4, <2>5, <2>6
<1>2. ASSUME NEW l \in Loads, Begin(l) PROVE EngineInv'
  BY <1>2 DEF Begin, LoadTo
<1>3. ASSUME NEW l \in Loads, Build(l) PROVE EngineInv'
  BY <1>3 DEF Build, LoadTo
<1>4. ASSUME NEW l \in Loads, Measure(l) PROVE EngineInv'
  BY <1>4 DEF Measure, LoadTo
<1>5. ASSUME NEW l \in Loads, FailBuild(l) PROVE EngineInv'
  BY <1>5 DEF FailBuild, LoadTo, engines
<1>6. ASSUME NEW l \in Loads, Publish(l) PROVE EngineInv'
  BY <1>6 DEF Publish, LoadTo, engines
<1>7. ASSUME NEW l \in Loads, Collect(l) PROVE EngineInv'
  BY <1>7 DEF Collect, Stored
<1>8. ASSUME NEW e \in Evicts, EvictNothing(e) PROVE EngineInv'
  BY <1>8 DEF EvictNothing, EvictTo, engines
<1>9. ASSUME NEW e \in Evicts, Remove(e) PROVE EngineInv'
  BY <1>9 DEF Remove, EvictTo, engines
<1>10. ASSUME NEW e \in Evicts, Unload(e) PROVE EngineInv'
  BY <1>10 DEF Unload, EvictTo
<1>11. ASSUME NEW g \in Generates, FindEntry(g) \/ GenerateStep(g) PROVE EngineInv'
  BY <1>11 DEF FindEntry, GenerateStep, CheckEngine, StartGenerating, Generated, engines
<1>12. CASE UNCHANGED vars
  BY <1>12 DEF vars, engines
<1> QED
  BY <1>1, <1>2, <1>3, <1>4, <1>5, <1>6, <1>7, <1>8, <1>9, <1>10, <1>11, <1>12
  DEF Next, LoadStep

\* Every step keeps what a generation knows of its entry, or an eviction of its
\* model has gone through (main.py:245-256, 311-318).
LEMMA GenerationStep ==
  ASSUME Inv, [Next]_vars
  PROVE  GenerationInv'
<1> USE LoaderAssumption DEF Inv, TypeOK, GenerationInv, Evicted
<1>1. ASSUME NEW l \in Loads, LoadStep(l) \/ Check(l) PROVE GenerationInv'
  <2>1. /\ UNCHANGED <<gen, entryOf, evict>> /\ alive \subseteq alive'
        /\ \A k \in Loads : load[k] = "loaded" => load'[k] = "loaded"
    BY <1>1 DEF LoadStep, Check, Begin, Build, Measure, FailBuild, Publish, LoadTo, engines, gens
  <2> QED BY <2>1
<1>2. ASSUME NEW l \in Loads, Collect(l) PROVE GenerationInv'
  BY <1>2 DEF Collect, gens
<1>3. ASSUME NEW e \in Evicts, EvictNothing(e) \/ Remove(e) PROVE GenerationInv'
  <2>1. /\ UNCHANGED <<gen, entryOf, alive, load>>
        /\ \A d \in Evicts : evict[d] = "done" => evict'[d] = "done"
    BY <1>3 DEF EvictNothing, Remove, EvictTo, engines, gens
  <2> QED BY <2>1
<1>4. ASSUME NEW e \in Evicts, Unload(e) PROVE GenerationInv'
  <2>1. /\ UNCHANGED <<gen, entryOf, load>> /\ alive' = alive \ {evict[e]}
        /\ evict[e] \in Loads /\ evict'[e] = "done" /\ ModelOf[evict[e]] = ModelOf[e]
        /\ \A d \in Evicts : evict[d] = "done" => evict'[d] = "done"
    BY <1>4 DEF Unload, EvictTo, gens, EngineInv
  <2> QED BY <2>1
<1>5. ASSUME NEW g \in Generates, FindEntry(g) PROVE GenerationInv'
  <2>1. UNCHANGED <<alive, load, evict>> /\ \A h \in Generates : h # g => gen'[h] = gen[h] /\ entryOf'[h] = entryOf[h]
    BY <1>5 DEF FindEntry, GenTo, engines
  <2>2. CASE store[ModelOf[g]] = None
    <3>1. gen'[g] = "unknown" BY <1>5, <2>2 DEF FindEntry, GenTo
    <3> HIDE DEF TypeOK
    <3> QED BY <2>1, <3>1
  <2>3. CASE store[ModelOf[g]] # None
    <3>1. gen'[g] = "held" /\ entryOf'[g] = store[ModelOf[g]]
      BY <1>5, <2>3 DEF FindEntry, GenTo
    <3>2. /\ store[ModelOf[g]] \in Loads /\ ModelOf[store[ModelOf[g]]] = ModelOf[g]
          /\ load[store[ModelOf[g]]] = "loaded" /\ store[ModelOf[g]] \in alive
      BY <2>3 DEF EngineInv
    <3> HIDE DEF TypeOK
    <3> QED BY <2>1, <3>1, <3>2
  <2> QED BY <2>2, <2>3
<1>6. ASSUME NEW g \in Generates, CheckEngine(g) PROVE GenerationInv'
  BY <1>6 DEF CheckEngine, GenTo, engines
<1>7. ASSUME NEW g \in Generates, StartGenerating(g) PROVE GenerationInv'
  BY <1>7 DEF StartGenerating, GenTo, engines
<1>8. ASSUME NEW g \in Generates, Generated(g) PROVE GenerationInv'
  BY <1>8 DEF Generated, GenTo, engines
<1>9. CASE UNCHANGED vars
  BY <1>9 DEF vars, engines, gens
<1> QED
  BY <1>1, <1>2, <1>3, <1>4, <1>5, <1>6, <1>7, <1>8, <1>9 DEF Next, GenerateStep

-----------------------------------------------------------------------------
(* The theorems.                                                           *)

\* Nothing is loaded and nobody asks.
LEMMA InitInv == Init => Inv
<1> SUFFICES ASSUME Init PROVE Inv OBVIOUS
<1> USE LoaderAssumption DEF Init
<1>1. TypeOK /\ LockInv
  BY DEF TypeOK, LockInv, AtWork, LoadStates, Answers
<1>2. EngineInv /\ GenerationInv
  BY DEF EngineInv, GenerationInv
<1>3. Holding = {} BY DEF Holding, Running
<1>4. Used = 0 BY <1>3, UsedIsSum, SumEmpty
<1>5. MemoryInv BY <1>4 DEF MemoryInv, NeverOvercharged
<1> QED BY <1>1, <1>2, <1>5 DEF Inv

\* The invariant holds in every state, however loads, evictions and generations
\* interleave at the awaits of main.py.
THEOREM Invariance == Spec => []Inv
<1>1. Inv /\ [Next]_vars => Inv'
  BY TypeStep, LockStep, EngineStep, GenerationStep, MemoryStep DEF Inv
<1> QED BY InitInv, <1>1, PTL DEF Spec

\* Every variable stays in its type, for any requests: above all the memory in use
\* is never more than the device has, and exactly the loads that wait and the one at
\* work are in line for _load_lock (main.py:61-89, 206-217).
THEOREM Types == Spec => []TypeOK
<1>1. Inv => TypeOK BY DEF Inv
<1> QED BY Invariance, <1>1, PTL

\* What the store answers for is up, and a generation that found its entry fails
\* only after an eviction of its model (main.py:245-256, 311-318).
THEOREM EnginesStay == Spec => []OnlyEvictionsTakeEngines
<1>1. Inv => OnlyEvictionsTakeEngines
  BY DEF Inv, EngineInv, GenerationInv, Evicted, OnlyEvictionsTakeEngines
<1> QED BY Invariance, <1>1, PTL

\* What is recorded for an engine is never more than it takes, whatever evictions
\* and generations run around its construction (vllm_engine.py:106-126).
THEOREM ChargesAreFair == Spec => []NeverOvercharged
<1>1. Inv => NeverOvercharged BY DEF Inv, MemoryInv
<1> QED BY Invariance, <1>1, PTL
=============================================================================
