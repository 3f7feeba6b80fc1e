-------------------------- MODULE CheckpointProofs --------------------------
(***************************************************************************)
(* Theorems about Checkpoint, for any number of saves, deletes, restores,  *)
(* models and kills.                                                       *)
(***************************************************************************)
EXTENDS Checkpoint, TLAPS

Written == {"written", "removing", "opening", "opened", "emptied", "clear"}

\* What is known of the directory a save made, from where the save stands, and
\* of the one an operation has open: it was under the name of the operation, and
\* if it still exists it still is.
DirInv ==
  /\ \A s \in Saves :
       /\ pc[s] = "new" => manifest[s] = "absent"
       /\ pc[s] = "made" => manifest[s] = "empty"
       /\ pc[s] = "writing" => manifest[s] = "half"
       /\ pc[s] \in Written => manifest[s] = "whole"
       /\ pc[s] = "saved" => manifest[s] = "absent" \/ at[NameOf[s]] = s
  /\ \A n \in Names : at[n] # None => pc[at[n]] = "saved"
  /\ \A o \in Ops : pc[o] \in {"opening", "opened", "emptied"} =>
       fd[o] \in Saves /\ NameOf[fd[o]] = NameOf[o] /\ pc[fd[o]] = "saved"

Inv == TypeOK /\ DirInv

\* The store is empty and no call has begun.
LEMMA InitInv == Init => Inv
  BY CheckpointAssumption
     DEF Init, Inv, TypeOK, DirInv, Ops, Files, Working, Ends, SaveEnds, Written

\* A save keeps types and directories, at every system call it makes.
LEMMA SaveStepInv ==
  ASSUME Inv, NEW s \in Saves, SaveStep(s)
  PROVE  Inv'
<1> USE CheckpointAssumption DEF Inv, Ops, Files, Working, Ends, SaveEnds, Written, To, Content
<1>1. CASE MakeTemp(s)
  <2>1. TypeOK'
    BY <1>1 DEF MakeTemp, Meet, TypeOK, DirInv
  <2>2. DirInv'
    BY <1>1 DEF MakeTemp, TypeOK, DirInv
  <2> QED BY <2>1, <2>2
<1>2. CASE OpenFile(s)
  BY <1>2 DEF OpenFile, TypeOK, DirInv
<1>3. CASE CloseFile(s)
  BY <1>3 DEF CloseFile, TypeOK, DirInv
<1>4. CASE WriteFails(s)
  BY <1>4 DEF WriteFails, TypeOK, DirInv
<1>5. CASE LookAtTarget(s)
  BY <1>5 DEF LookAtTarget, Target, TypeOK, DirInv
<1>6. CASE Rename(s)
  <2>1. CASE Occupied(s)
    BY <1>6, <2>1 DEF Rename, TypeOK, DirInv
  <2>2. CASE ~Occupied(s)
    <3>1. TypeOK'
      BY <1>6, <2>2 DEF Rename, Occupied, Place, Target, TypeOK, DirInv
    <3>2. DirInv'
      BY <1>6, <2>2 DEF Rename, Occupied, Place, Target, TypeOK, DirInv
    <3> QED BY <3>1, <3>2
  <2> QED BY <2>1, <2>2
<1> QED BY <1>1, <1>2, <1>3, <1>4, <1>5, <1>6 DEF SaveStep

\* An error of rmtree removes nothing but the temporary directory of a save.
LEMMA BeatenInv ==
  ASSUME Inv, NEW o \in Ops, pc[o] \in {"removing", "opening", "opened", "emptied"},
         Beaten(o), UNCHANGED <<read, met, kills>>
  PROVE  Inv'
  BY CheckpointAssumption
  DEF Inv, Ops, Files, Working, Ends, SaveEnds, Written, To, Content, Beaten, TypeOK, DirInv

\* ... and so does shutil.rmtree, in a save or in a delete.
LEMMA RemoveTreeInv ==
  ASSUME Inv, NEW o \in Ops, RemoveTree(o)
  PROVE  Inv'
<1> USE CheckpointAssumption DEF Ops, Files, Working, Ends, SaveEnds, Written, To, Content, Target
<1>1. CASE StatTarget(o)
  <2>1. CASE Target(o) = None
    BY <1>1, <2>1, BeatenInv DEF StatTarget
  <2>2. CASE Target(o) # None
    BY <1>1, <2>2 DEF StatTarget, Inv, TypeOK, DirInv
  <2> QED BY <2>1, <2>2
<1>2. CASE OpenTarget(o)
  <2>1. CASE Target(o) # fd[o]
    BY <1>2, <2>1, BeatenInv DEF OpenTarget
  <2>2. CASE Target(o) = fd[o]
    BY <1>2, <2>2 DEF OpenTarget, Inv, TypeOK, DirInv
  <2> QED BY <2>1, <2>2
<1>3. CASE Unlink(o)
  <2>1. CASE manifest[fd[o]] \in {"empty", "absent"}
    BY <1>3, <2>1, BeatenInv DEF Unlink
  <2>2. CASE manifest[fd[o]] \notin {"empty", "absent"}
    BY <1>3, <2>2 DEF Unlink, Inv, TypeOK, DirInv
  <2> QED BY <2>1, <2>2
<1>4. CASE RemoveDir(o)
  <2>1. CASE Target(o) = None \/ Occupied(o)
    BY <1>4, <2>1, BeatenInv DEF RemoveDir
  <2>2. CASE ~(Target(o) = None \/ Occupied(o))
    <3>1. \A n \in Names \ {NameOf[o]} : at[n] # None => at[n] # Target(o)
      BY DEF Inv, TypeOK
    <3>2. /\ at' \in [Names -> Saves \cup {None}] /\ manifest' \in [Saves -> Files]
          /\ pc' \in [Ops -> Working \cup Ends \cup {"new"}] /\ fd' \in [Ops -> Saves \cup {None}]
      BY <1>4, <2>2 DEF RemoveDir, Occupied, Place, Inv, TypeOK
    <3>3. TypeOK'
      BY <1>4, <2>2, <3>1, <3>2 DEF RemoveDir, Occupied, Place, Inv, TypeOK
    <3>4. DirInv'
      BY <1>4, <2>2 DEF RemoveDir, Occupied, Place, Inv, TypeOK, DirInv
    <3> QED BY <3>3, <3>4 DEF Inv
  <2> QED BY <2>1, <2>2
<1> QED BY <1>1, <1>2, <1>3, <1>4 DEF RemoveTree

\* ... and a delete that starts, a restore, and a kill.
LEMMA OtherStepInv ==
  ASSUME Inv,
         \/ \E d \in Deletes : StartDelete(d)
         \/ \E r \in Restores : LookForManifest(r) \/ ReadManifest(r)
         \/ Kill
         \/ UNCHANGED vars
  PROVE  Inv'
<1>1. ASSUME NEW d \in Deletes, StartDelete(d) PROVE Inv'
  <2>1. TypeOK'
    BY <1>1, CheckpointAssumption
    DEF StartDelete, Meet, To, Target, Inv, TypeOK, Ops, Working, Ends, SaveEnds
  <2>2. DirInv'
    BY <1>1, CheckpointAssumption DEF StartDelete, To, Target, Inv, TypeOK, DirInv, Ops, Written
  <2> QED BY <2>1, <2>2 DEF Inv
<1>2. ASSUME NEW r \in Restores, LookForManifest(r) PROVE Inv'
  <2>1. read' \in [Restores -> Saves \cup {None, "new", "seen", "broken", "killed"}]
    BY <1>2 DEF LookForManifest, Inv, TypeOK
  <2> QED BY <1>2, <2>1 DEF LookForManifest, Inv, TypeOK, DirInv
<1>3. ASSUME NEW r \in Restores, ReadManifest(r) PROVE Inv'
  <2>1. NameOf[r] \in Names
    BY CheckpointAssumption
  <2>2. read' \in [Restores -> Saves \cup {None, "new", "seen", "broken", "killed"}]
    BY <1>3, <2>1 DEF ReadManifest, Target, Inv, TypeOK
  <2> QED BY <1>3, <2>2 DEF ReadManifest, Inv, TypeOK, DirInv
<1>4. CASE Kill
  BY <1>4, CheckpointAssumption
  DEF Kill, Active, Inv, TypeOK, DirInv, Ops, Working, Ends, SaveEnds, Written
<1>5. CASE UNCHANGED vars
  BY <1>5 DEF vars, Inv, TypeOK, DirInv
<1> QED BY <1>1, <1>2, <1>3, <1>4, <1>5

\* Every step keeps the invariant.
LEMMA InvStep == Inv /\ [Next]_vars => Inv'
  BY SaveStepInv, RemoveTreeInv, OtherStepInv DEF Next

\* For every number of calls and kills types hold, and what has a model's name
\* was never half-written (checkpoint.py:62-110).
THEOREM CheckpointTypeCorrect == Spec => []TypeOK
<1>1. Inv => TypeOK
  BY DEF Inv
<1> QED BY <1>1, InitInv, InvStep, PTL DEF Spec

-----------------------------------------------------------------------------
(* A call that met no other.                                               *)

\* What such a call finds under its name is what it expects there.
Undisturbed(o) ==
  /\ pc[o] = "removing" => Target(o) # None
  /\ pc[o] = "opening" => Target(o) = fd[o]
  /\ pc[o] = "opened" => Target(o) = fd[o] /\ manifest[fd[o]] = "whole"
  /\ pc[o] = "emptied" => Target(o) # None /\ manifest[Target(o)] = "empty"
  /\ pc[o] = "clear" => Target(o) = None
  /\ pc[o] # "beaten"

LoneInv ==
  /\ \A o, p \in Ops : o # p /\ NameOf[o] = NameOf[p] /\ Active(o) /\ Active(p) => o \in met
  /\ \A o \in Ops \ met : Undisturbed(o)

\* A step of one call leaves what another one sees, unless they met.
LEMMA LoneFrame ==
  ASSUME Inv, LoneInv, met' = met, NEW o \in Ops, Active(o),
         \A p \in Ops \ {o} : pc'[p] = pc[p] /\ fd'[p] = fd[p],
         \A n \in Names \ {NameOf[o]} :
           at'[n] = at[n] /\ (at[n] # None => manifest'[at[n]] = manifest[at[n]]),
         o \notin met => Undisturbed(o)'
  PROVE  LoneInv'
<1>1. ASSUME NEW p \in Ops, NEW q \in Ops, p # q, NameOf[p] = NameOf[q], Active(p)', Active(q)'
      PROVE  p \in met
  BY <1>1 DEF LoneInv, Active
<1>2. ASSUME NEW p \in Ops \ met, p # o PROVE Undisturbed(p)'
  <2>1. CASE NameOf[p] # NameOf[o]
    <3>1. NameOf[p] \in Names
      BY CheckpointAssumption DEF Ops
    <3>2. Target(p)' = Target(p) /\ (Target(p) # None => manifest'[Target(p)] = manifest[Target(p)])
      BY <2>1, <3>1 DEF Target
    <3>3. pc[p] = "opened" => fd[p] # None
      BY CheckpointAssumption DEF Inv, DirInv
    <3> QED BY <1>2, <3>2, <3>3 DEF Undisturbed, LoneInv
  <2>2. CASE NameOf[p] = NameOf[o]
    BY <1>2, <2>2 DEF LoneInv, Active, Undisturbed, Ends, SaveEnds
  <2> QED BY <2>1, <2>2
<1> QED BY <1>1, <1>2 DEF LoneInv

\* A save keeps what the calls that met no other rely on.
LEMMA LoneSaveStep ==
  ASSUME Inv, LoneInv, NEW s \in Saves, SaveStep(s)
  PROVE  LoneInv'
<1> USE CheckpointAssumption DEF Ops, To, Content
<1>1. CASE MakeTemp(s)
  BY <1>1
     DEF MakeTemp, Meet, Inv, TypeOK, DirInv, LoneInv, Undisturbed, Active, Target, Ends, SaveEnds
<1>2. CASE OpenFile(s)
  BY <1>2, LoneFrame DEF OpenFile, Inv, TypeOK, DirInv, Undisturbed, Active, Ends, SaveEnds
<1>3. CASE CloseFile(s)
  BY <1>3, LoneFrame DEF CloseFile, Inv, TypeOK, DirInv, Undisturbed, Active, Ends, SaveEnds
<1>4. CASE WriteFails(s)
  BY <1>4, LoneFrame DEF WriteFails, Inv, TypeOK, DirInv, Undisturbed, Active, Ends, SaveEnds
<1>5. CASE LookAtTarget(s)
  BY <1>5, LoneFrame
     DEF LookAtTarget, Target, Inv, TypeOK, DirInv, Undisturbed, Active, Ends, SaveEnds
<1>6. CASE Rename(s)
  <2>1. CASE Occupied(s)
    BY <1>6, <2>1, LoneFrame
    DEF Rename, Occupied, Target, Inv, TypeOK, DirInv, LoneInv, Undisturbed, Active, Ends, SaveEnds
  <2>2. CASE ~Occupied(s)
    BY <1>6, <2>2, LoneFrame
    DEF Rename, Place, Target, Inv, TypeOK, DirInv, Undisturbed, Active, Ends, SaveEnds
  <2> QED BY <2>1, <2>2
<1> QED BY <1>1, <1>2, <1>3, <1>4, <1>5, <1>6 DEF SaveStep

\* An error of rmtree comes only to a call that met another.
LEMMA LoneBeaten ==
  ASSUME Inv, LoneInv, NEW o \in met, pc[o] \in {"removing", "opening", "opened", "emptied"},
         Beaten(o), UNCHANGED <<read, met, kills>>
  PROVE  LoneInv'
  BY CheckpointAssumption, LoneFrame
  DEF Beaten, To, Content, Ops, Inv, TypeOK, DirInv, Undisturbed, Active, Ends, SaveEnds

\* ... and so does shutil.rmtree.
LEMMA LoneRemoveTree ==
  ASSUME Inv, LoneInv, NEW o \in Ops, RemoveTree(o)
  PROVE  LoneInv'
<1> USE CheckpointAssumption DEF Ops, To, Content, Target
<1>1. CASE StatTarget(o)
  <2>1. CASE Target(o) = None
    BY <1>1, <2>1, LoneBeaten DEF StatTarget, LoneInv, Undisturbed
  <2>2. CASE Target(o) # None
    BY <1>1, <2>2, LoneFrame DEF StatTarget, Inv, TypeOK, Undisturbed, Active, Ends, SaveEnds
  <2> QED BY <2>1, <2>2
<1>2. CASE OpenTarget(o)
  <2>1. CASE Target(o) # fd[o]
    BY <1>2, <2>1, LoneBeaten DEF OpenTarget, LoneInv, Undisturbed
  <2>2. CASE Target(o) = fd[o]
    BY <1>2, <2>2, LoneFrame
       DEF OpenTarget, Inv, TypeOK, DirInv, Undisturbed, Active, Ends, SaveEnds
  <2> QED BY <2>1, <2>2
<1>3. CASE Unlink(o)
  <2>1. CASE manifest[fd[o]] \in {"empty", "absent"}
    BY <1>3, <2>1, LoneBeaten DEF Unlink, LoneInv, Undisturbed
  <2>2. CASE manifest[fd[o]] \notin {"empty", "absent"}
    BY <1>3, <2>2, LoneFrame
    DEF Unlink, Inv, TypeOK, DirInv, LoneInv, Undisturbed, Active, Ends, SaveEnds
  <2> QED BY <2>1, <2>2
<1>4. CASE RemoveDir(o)
  <2>1. CASE Target(o) = None \/ Occupied(o)
    BY <1>4, <2>1, LoneBeaten DEF RemoveDir, Occupied, LoneInv, Undisturbed
  <2>2. CASE ~(Target(o) = None \/ Occupied(o))
    BY <1>4, <2>2, LoneFrame
    DEF RemoveDir, Place, Inv, TypeOK, Undisturbed, Active, Ends, SaveEnds
  <2> QED BY <2>1, <2>2
<1> QED BY <1>1, <1>2, <1>3, <1>4 DEF RemoveTree

\* Every step keeps it.
LEMMA LoneInvStep == Inv /\ LoneInv /\ [Next]_vars => LoneInv'
<1> SUFFICES ASSUME Inv, LoneInv, [Next]_vars PROVE LoneInv'
  OBVIOUS
<1>1. ASSUME NEW s \in Saves, SaveStep(s) PROVE LoneInv'
  BY <1>1, LoneSaveStep
<1>2. ASSUME NEW o \in Ops, RemoveTree(o) PROVE LoneInv'
  BY <1>2, LoneRemoveTree
<1>3. ASSUME NEW d \in Deletes, StartDelete(d) PROVE LoneInv'
  BY <1>3, CheckpointAssumption
  DEF StartDelete, To, Meet, Target, Ops, Inv, TypeOK, LoneInv, Undisturbed, Active, Ends, SaveEnds
<1>4. ASSUME NEW r \in Restores, LookForManifest(r) \/ ReadManifest(r) PROVE LoneInv'
  BY <1>4 DEF LookForManifest, ReadManifest, LoneInv, Undisturbed, Active, Target
<1>5. CASE Kill
  BY <1>5 DEF Kill, Inv, TypeOK, LoneInv, Undisturbed, Active, Target, Ends, SaveEnds
<1>6. CASE UNCHANGED vars
  BY <1>6 DEF vars, LoneInv, Undisturbed, Active, Target
<1> QED BY <1>1, <1>2, <1>3, <1>4, <1>5, <1>6 DEF Next

\* Whatever kills left behind, a save or a delete that met no other one on its
\* name never fails for what it finds there (checkpoint.py:74-85, 105-110).
THEOREM LoneCallsDoSucceed == Spec => []LoneCallsSucceed
<1>1. Init => LoneInv
  BY DEF Init, LoneInv, Undisturbed, Active
<1>2. LoneInv => LoneCallsSucceed
  BY DEF LoneInv, Undisturbed, LoneCallsSucceed
<1> QED BY <1>1, <1>2, InitInv, InvStep, LoneInvStep, PTL DEF Spec

-----------------------------------------------------------------------------
(* Saves in each other's way.                                              *)

\* Nothing but saves has been at work on a name, and one of them succeeded.
OnlySaved(n) ==
  /\ kills = 0
  /\ \E s \in Saves : NameOf[s] = n /\ pc[s] = "saved"
  /\ \A d \in Deletes : NameOf[d] = n => pc[d] \in {"new", "nothing"}

\* If the manifest is gone, a save is left that is past every check.
SurviveInv ==
  \A n \in Names : OnlySaved(n) =>
    /\ at[n] = None => \E s \in Saves : NameOf[s] = n /\ pc[s] = "clear"
    /\ at[n] # None /\ manifest[at[n]] = "empty" =>
         \E s \in Saves : NameOf[s] = n /\ pc[s] \in {"emptied", "clear"}

\* A save of a name only saved takes its manifest away only to put another there.
LEMMA SurviveSaveStep ==
  ASSUME Inv, SurviveInv, NEW s \in Saves, SaveStep(s)
  PROVE  SurviveInv'
<1> SUFFICES ASSUME NEW n \in Names, OnlySaved(n)'
             PROVE  /\ at'[n] = None => \E t \in Saves : NameOf[t] = n /\ pc'[t] = "clear"
                    /\ at'[n] # None /\ manifest'[at'[n]] = "empty" =>
                         \E t \in Saves : NameOf[t] = n /\ pc'[t] \in {"emptied", "clear"}
  BY DEF SurviveInv
<1> USE CheckpointAssumption DEF Inv, TypeOK, DirInv, Ops, To, Content, OnlySaved
<1>1. CASE MakeTemp(s)
  BY <1>1 DEF MakeTemp, SurviveInv
<1>2. CASE OpenFile(s)
  BY <1>2 DEF OpenFile, SurviveInv
<1>3. CASE CloseFile(s)
  BY <1>3 DEF CloseFile, SurviveInv
<1>4. CASE WriteFails(s)
  BY <1>4 DEF WriteFails, SurviveInv
<1>5. CASE LookAtTarget(s)
  BY <1>5 DEF LookAtTarget, SurviveInv
<1>6. CASE Rename(s)
  <2>1. manifest[s] = "whole" /\ s # None /\ \A k \in Names : at[k] # s
    BY <1>6 DEF Rename, Written
  <2>2. CASE NameOf[s] = n /\ Occupied(s)
    BY <1>6, <2>1, <2>2 DEF Rename, Occupied, Target
  <2>3. CASE NameOf[s] = n /\ ~Occupied(s)
    BY <1>6, <2>1, <2>3 DEF Rename, Target, Place
  <2>4. CASE NameOf[s] # n
    <3>1. OnlySaved(n)
      BY <1>6, <2>4 DEF Rename
    <3>2. at'[n] = at[n] /\ (at[n] # None => manifest'[at[n]] = manifest[at[n]] /\ at[n] # Target(s))
      BY <1>6, <2>1, <2>4 DEF Rename, Target, Place
    <3>3. \A t \in Saves : NameOf[t] = n => pc'[t] = pc[t]
      BY <1>6, <2>4 DEF Rename
    <3> QED BY <3>1, <3>2, <3>3 DEF SurviveInv
  <2> QED BY <2>2, <2>3, <2>4
<1> QED BY <1>1, <1>2, <1>3, <1>4, <1>5, <1>6 DEF SaveStep

\* ... and its shutil.rmtree empties only what it is replacing.
LEMMA SurviveRemoveTree ==
  ASSUME Inv, SurviveInv, NEW o \in Ops, RemoveTree(o)
  PROVE  SurviveInv'
<1> SUFFICES ASSUME NEW n \in Names, OnlySaved(n)'
             PROVE  /\ at'[n] = None => \E t \in Saves : NameOf[t] = n /\ pc'[t] = "clear"
                    /\ at'[n] # None /\ manifest'[at'[n]] = "empty" =>
                         \E t \in Saves : NameOf[t] = n /\ pc'[t] \in {"emptied", "clear"}
  BY DEF SurviveInv
<1> USE CheckpointAssumption DEF Inv, TypeOK, DirInv, Ops, To, Content, Beaten
<1>1. OnlySaved(n) /\ (NameOf[o] = n => o \in Saves)
  BY DEF RemoveTree, StatTarget, OpenTarget, Unlink, RemoveDir, OnlySaved
<1>2. CASE StatTarget(o)
  BY <1>1, <1>2 DEF StatTarget, SurviveInv
<1>3. CASE OpenTarget(o)
  BY <1>1, <1>3 DEF OpenTarget, SurviveInv
<1>4. CASE Unlink(o)
  BY <1>1, <1>4 DEF Unlink, SurviveInv
<1>5. CASE RemoveDir(o)
  <2>1. CASE Target(o) = None \/ Occupied(o)
    BY <1>1, <1>5, <2>1 DEF RemoveDir, Occupied, Target, SurviveInv
  <2>2. CASE ~(Target(o) = None \/ Occupied(o))
    BY <1>1, <1>5, <2>2 DEF RemoveDir, Occupied, Target, Place, SurviveInv
  <2> QED BY <2>1, <2>2
<1> QED BY <1>2, <1>3, <1>4, <1>5 DEF RemoveTree

\* Every step keeps a saved name from being lost.
LEMMA SurviveStep == Inv /\ SurviveInv /\ [Next]_vars => SurviveInv'
<1> SUFFICES ASSUME Inv, SurviveInv, [Next]_vars PROVE SurviveInv'
  OBVIOUS
<1>1. ASSUME NEW s \in Saves, SaveStep(s) PROVE SurviveInv'
  BY <1>1, SurviveSaveStep
<1>2. ASSUME NEW o \in Ops, RemoveTree(o) PROVE SurviveInv'
  BY <1>2, SurviveRemoveTree
<1>3. ASSUME NEW d \in Deletes, StartDelete(d) PROVE SurviveInv'
  BY <1>3, CheckpointAssumption
  DEF StartDelete, To, Ops, Inv, TypeOK, SurviveInv, OnlySaved
<1>4. ASSUME NEW r \in Restores, LookForManifest(r) \/ ReadManifest(r) PROVE SurviveInv'
  BY <1>4 DEF LookForManifest, ReadManifest, SurviveInv, OnlySaved
<1>5. CASE Kill
  BY <1>5, CheckpointAssumption DEF Kill, Inv, TypeOK, SurviveInv, OnlySaved
<1>6. CASE UNCHANGED vars
  BY <1>6 DEF vars, SurviveInv, OnlySaved
<1> QED BY <1>1, <1>2, <1>3, <1>4, <1>5, <1>6 DEF Next

\* Saves of one model that fail because of each other leave the manifest of one
\* of them, however many there are (checkpoint.py:78-85).
THEOREM ManifestDoesSurvive == Spec => []ManifestSurvives
<1>1. Init => SurviveInv
  BY DEF Init, SurviveInv, OnlySaved, Ops
<1>2. Inv /\ SurviveInv => ManifestSurvives
  <2> SUFFICES ASSUME Inv, SurviveInv, NEW n \in Names, Settled(n), OnlySaved(n) PROVE Whole(n)
    BY DEF ManifestSurvives, OnlySaved
  <2>1. ~ \E s \in Saves : NameOf[s] = n /\ pc[s] \in {"emptied", "clear"}
    BY DEF Settled, Active, Ops, Ends, SaveEnds
  <2> QED BY <2>1 DEF Inv, TypeOK, SurviveInv, Whole
<1> QED BY <1>1, <1>2, InitInv, InvStep, SurviveStep, PTL DEF Spec

-----------------------------------------------------------------------------
(* Refinement of ManifestStore.                                            *)

\* How a change of one call's stage shows.
LEMMA StageStep ==
  ASSUME Inv, NEW o \in Ops, NEW p, To(o, p)
  PROVE  Stage' = [Stage EXCEPT ![o] = IF p = "new" THEN "idle"
                                       ELSE IF p \in Ends THEN "done" ELSE "busy"]
  BY DEF To, Stage, Active, Inv, TypeOK, Ends, SaveEnds

\* A step of a save is a step of the store, or leaves it as it is.
LEMMA StoreSaveStep ==
  ASSUME Inv, NEW s \in Saves, SaveStep(s)
  PROVE  Store!Next \/ UNCHANGED Store!svars
<1> USE CheckpointAssumption DEF Ops, Content
<1>0. /\ s \in Ops /\ (pc[s] # "saved" => \A n \in Names : at[n] # s)
      /\ Answer' = Answer
      /\ pc[s] # "clear" => \A d \in Saves \ {s} : manifest'[d] = manifest[d]
  BY DEF Inv, TypeOK, DirInv, Answer, SaveStep, MakeTemp, OpenFile, CloseFile, WriteFails,
     LookAtTarget, Rename
<1>1. ASSUME \A n \in Names : at'[n] = at[n] /\ (at[n] # None => manifest'[at[n]] = manifest[at[n]])
      PROVE  Kept' = Kept
  BY <1>1 DEF Kept, Whole
<1>2. ASSUME pc[s] # "saved", UNCHANGED at, \A d \in Saves \ {s} : manifest'[d] = manifest[d]
      PROVE  Kept' = Kept
  BY <1>0, <1>1, <1>2 DEF Inv, TypeOK
<1>3. CASE MakeTemp(s)
  <2>1. Kept' = Kept /\ Stage[s] = "idle"
    BY <1>0, <1>2, <1>3 DEF MakeTemp, Stage
  <2>2. CASE To(s, "made")
    BY <1>0, <2>1, <2>2, StageStep DEF Store!Next, Store!Call, Ends, SaveEnds
  <2>3. CASE To(s, "unwritten")
    BY <1>0, <2>1, <2>3, StageStep DEF Store!Next, Store!End, Ends, SaveEnds
  <2> QED BY <1>3, <2>2, <2>3 DEF MakeTemp
<1>4. pc[s] # "new" /\ Active(s) => Stage[s] = "busy" /\ Stage = [Stage EXCEPT ![s] = "busy"]
  BY <1>0 DEF Stage
<1>5. CASE OpenFile(s) \/ CloseFile(s) \/ LookAtTarget(s)
  <2>1. Kept' = Kept /\ Active(s) /\ pc[s] # "new"
    BY <1>0, <1>2, <1>5 DEF OpenFile, CloseFile, LookAtTarget, Active, Ends, SaveEnds
  <2>2. Stage' = Stage
    BY <1>0, <1>4, <1>5, <2>1, StageStep DEF OpenFile, CloseFile, LookAtTarget, Ends, SaveEnds
  <2> QED BY <1>0, <2>1, <2>2 DEF Store!svars
<1>6. CASE WriteFails(s)
  <2>1. Kept' = Kept /\ Stage[s] = "busy"
    BY <1>0, <1>2, <1>4, <1>6 DEF WriteFails, Active, Ends, SaveEnds
  <2> QED BY <1>0, <1>6, <2>1, StageStep DEF WriteFails, Store!Next, Store!End, Ends, SaveEnds
<1>7. CASE Rename(s)
  <2>1. Stage[s] = "busy" /\ manifest[s] = "whole" /\ NameOf[s] \in Names
    BY <1>0, <1>4, <1>7 DEF Rename, Active, Ends, SaveEnds, Inv, DirInv, Written
  <2>2. CASE Occupied(s)
    <3>1. Kept' = Kept
      BY <1>0, <1>2, <1>7, <2>2 DEF Rename, Inv, TypeOK
    <3> QED BY <1>0, <1>7, <2>1, <2>2, <3>1, StageStep
               DEF Rename, Store!Next, Store!End, Ends, SaveEnds
  <2>3. CASE ~Occupied(s)
    <3>1. Kept[NameOf[s]] = None
      BY <2>1, <2>3 DEF Kept, Whole, Occupied, Target
    <3>2. \A n \in Names \ {NameOf[s]} : at[n] # None => at[n] # Target(s)
      BY DEF Inv, TypeOK, Target
    <3>3. /\ at' = [at EXCEPT ![NameOf[s]] = s] /\ s # None
          /\ manifest'[s] = "whole" \/ s = Target(s)
          /\ \A d \in Saves \ {Target(s)} : manifest'[d] = manifest[d]
      BY <1>7, <2>1, <2>3 DEF Rename, Place, Target
    <3>4. s # Target(s)
      BY <1>0, <1>7, <2>1 DEF Rename, Target
    <3>5. \A n \in Names \ {NameOf[s]} :
            at'[n] = at[n] /\ (at[n] # None => manifest'[at[n]] = manifest[at[n]])
      BY <3>2, <3>3 DEF Inv, TypeOK
    <3>6. Whole(NameOf[s])' /\ at'[NameOf[s]] = s
      BY <2>1, <3>3, <3>4 DEF Whole, Inv, TypeOK
    <3>7. \A n \in Names : (IF Whole(n)' THEN at'[n] ELSE None)
                           = IF n = NameOf[s] THEN s ELSE IF Whole(n) THEN at[n] ELSE None
      BY <3>5, <3>6 DEF Whole
    <3>8. Kept' = [Kept EXCEPT ![NameOf[s]] = s]
      BY <2>1, <3>7 DEF Kept
    <3> QED BY <1>0, <1>7, <2>1, <2>3, <3>1, <3>8, StageStep
            DEF Rename, Store!Next, Store!Put, Store!Busy, Ends, SaveEnds
  <2> QED BY <2>2, <2>3
<1> QED BY <1>3, <1>5, <1>6, <1>7 DEF SaveStep

\* An error of rmtree shows as the end of the call.
LEMMA StoreBeaten ==
  ASSUME Inv, NEW o \in Ops, Stage[o] = "busy", Answer' = Answer, Beaten(o), pc[o] # "saved"
  PROVE  Store!End(o)
<1>1. Kept' = Kept
  BY CheckpointAssumption DEF Beaten, Content, Kept, Whole, Inv, TypeOK, DirInv, Ops
<1> QED BY <1>1, StageStep DEF Beaten, Store!End, Ends, SaveEnds

\* ... and so is one of shutil.rmtree: the unlink of the manifest is the drop.
LEMMA StoreRemoveTree ==
  ASSUME Inv, NEW o \in Ops, RemoveTree(o)
  PROVE  Store!Next \/ UNCHANGED Store!svars
<1> USE CheckpointAssumption
<1>0. /\ pc[o] \in {"removing", "opening", "opened", "emptied"} /\ NameOf[o] \in Names
      /\ Stage[o] = "busy" /\ Stage = [Stage EXCEPT ![o] = "busy"]
      /\ Answer' = Answer /\ o \in Saves \cup Deletes
  BY DEF RemoveTree, StatTarget, OpenTarget, Unlink, RemoveDir, Stage, Answer, Active, Ops, Ends,
     SaveEnds
<1>1. CASE Beaten(o)
  BY <1>0, <1>1, StoreBeaten DEF Store!Next
<1>2. ASSUME NEW p \in {"opening", "opened", "emptied", "clear"}, To(o, p)
      PROVE  Stage' = Stage
  BY <1>0, <1>2, StageStep DEF Ends, SaveEnds
<1>3. CASE (StatTarget(o) \/ OpenTarget(o)) /\ ~Beaten(o)
  <2>1. UNCHANGED <<at, manifest>> /\ Stage' = Stage
    BY <1>2, <1>3 DEF StatTarget, OpenTarget
  <2> QED BY <1>0, <2>1 DEF Store!svars, Kept, Whole
<1>4. CASE Unlink(o) /\ ~Beaten(o)
  <2>1. /\ at[NameOf[o]] = fd[o] /\ manifest[fd[o]] = "whole" /\ fd[o] # None
        /\ UNCHANGED at /\ manifest' = [manifest EXCEPT ![fd[o]] = "empty"] /\ To(o, "emptied")
    <3>1. /\ manifest[fd[o]] \notin {"empty", "absent"} /\ pc[o] = "opened"
          /\ UNCHANGED at /\ To(o, "emptied")
          /\ manifest' = [manifest EXCEPT ![fd[o]] = "empty"]
      BY <1>4 DEF Unlink, Content
    <3>2. fd[o] \in Saves /\ NameOf[fd[o]] = NameOf[o] /\ pc[fd[o]] = "saved"
      BY <3>1 DEF Inv, DirInv
    <3>3. at[NameOf[o]] = fd[o]
      BY <3>1, <3>2 DEF Inv, DirInv
    <3>4. fd[o] # None /\ manifest[fd[o]] = "whole"
      BY <1>0, <3>1, <3>2, <3>3 DEF Inv, TypeOK
    <3> QED BY <3>1, <3>3, <3>4
  <2>2. \A n \in Names \ {NameOf[o]} : at[n] # None => manifest'[at[n]] = manifest[at[n]]
    BY <1>0, <2>1 DEF Inv, TypeOK
  <2>3. ~Whole(NameOf[o])'
    BY <2>1 DEF Whole, Inv, TypeOK
  <2>4. \A n \in Names : (IF Whole(n)' THEN at'[n] ELSE None)
                         = IF n = NameOf[o] THEN None ELSE IF Whole(n) THEN at[n] ELSE None
    BY <2>1, <2>2, <2>3 DEF Whole
  <2>5. Kept' = [Kept EXCEPT ![NameOf[o]] = None] /\ Kept[NameOf[o]] # None
    BY <1>0, <2>1, <2>4 DEF Kept, Whole
  <2>6. Stage' = Stage
    BY <1>2, <2>1
  <2> QED BY <1>0, <2>5, <2>6 DEF Store!Next, Store!Drop, Store!Busy
<1>5. CASE RemoveDir(o) /\ ~Beaten(o)
  <2>1. /\ at[NameOf[o]] # None /\ manifest[at[NameOf[o]]] = "empty" /\ at' = [at EXCEPT ![NameOf[o]] = None]
        /\ manifest' = [manifest EXCEPT ![at[NameOf[o]]] = "absent"]
        /\ To(o, IF o \in Saves THEN "clear" ELSE "deleted")
    BY <1>5 DEF RemoveDir, Occupied, Place, Content, Target
  <2>2. \A n \in Names \ {NameOf[o]} :
          at'[n] = at[n] /\ (at[n] # None => manifest'[at[n]] = manifest[at[n]])
    BY <1>0, <2>1 DEF Inv, TypeOK
  <2>3. ~Whole(NameOf[o]) /\ ~Whole(NameOf[o])'
    BY <1>0, <2>1 DEF Whole, Inv, TypeOK
  <2>4. Kept' = Kept
    BY <2>2, <2>3 DEF Kept, Whole
  <2>5. CASE o \in Saves
    <3>1. Stage' = Stage
      BY <1>2, <2>1, <2>5
    <3> QED BY <1>0, <2>4, <3>1 DEF Store!svars
  <2>6. CASE o \notin Saves
    BY <1>0, <2>1, <2>4, <2>6, StageStep DEF Store!Next, Store!End, Ends, SaveEnds
  <2> QED BY <2>5, <2>6
<1> QED BY <1>1, <1>3, <1>4, <1>5 DEF RemoveTree

\* Every step maps to a step of the store or to a stutter.
LEMMA StoreStep == Inv /\ [Next]_vars => [Store!Next]_(Store!svars)
<1> SUFFICES ASSUME Inv, [Next]_vars PROVE Store!Next \/ UNCHANGED Store!svars
  OBVIOUS
<1> USE CheckpointAssumption
<1>1. ASSUME NEW s \in Saves, SaveStep(s) PROVE Store!Next \/ UNCHANGED Store!svars
  BY <1>1, StoreSaveStep
<1>2. ASSUME NEW o \in Ops, RemoveTree(o) PROVE Store!Next \/ UNCHANGED Store!svars
  BY <1>2, StoreRemoveTree
<1>3. ASSUME NEW d \in Deletes, StartDelete(d) PROVE Store!Next
  <2>1. d \in Ops /\ Stage[d] = "idle" /\ Kept' = Kept /\ Answer' = Answer
    BY <1>3 DEF StartDelete, Stage, Kept, Whole, Answer, Ops
  <2>2. CASE To(d, "nothing")
    BY <2>1, <2>2, StageStep DEF Store!Next, Store!End, Ops, Ends, SaveEnds
  <2>3. CASE To(d, "removing")
    BY <2>1, <2>3, StageStep DEF Store!Next, Store!Call, Ops, Ends, SaveEnds
  <2> QED BY <1>3, <2>2, <2>3 DEF StartDelete
<1>4. ASSUME NEW r \in Restores, LookForManifest(r) \/ ReadManifest(r)
      PROVE  Store!Next \/ UNCHANGED Store!svars
  <2>1. /\ Kept' = Kept /\ Stage' = Stage /\ NameOf[r] \in Names
        /\ Answer[r] = "pending" /\ Answer = [Answer EXCEPT ![r] = "pending"]
    BY <1>4 DEF LookForManifest, ReadManifest, Kept, Whole, Stage, Active, Answer
  <2>2. ASSUME NEW a, read' = [read EXCEPT ![r] = a]
        PROVE  Answer' = [Answer EXCEPT ![r] = IF a \in {"new", "seen"} THEN "pending" ELSE a]
    BY <2>2 DEF Answer, Inv, TypeOK
  <2>3. ~HasManifest(r) => Kept[NameOf[r]] = None
    BY <2>1 DEF HasManifest, Target, Kept, Whole
  <2>4. HasManifest(r) => manifest[Target(r)] = "whole" /\ Kept[NameOf[r]] = Target(r) /\ Target(r) \in Saves
    BY <2>1 DEF HasManifest, Target, Kept, Whole, Inv, TypeOK
  <2>5. \A x \in Saves \cup {None} : x \notin {"new", "seen"}
    OBVIOUS
  <2>6. CASE read' = [read EXCEPT ![r] = "seen"]
    BY <2>1, <2>2, <2>6 DEF Store!svars
  <2>7. CASE read' = [read EXCEPT ![r] = Kept[NameOf[r]]]
    <3>1. Kept[NameOf[r]] \in Saves \cup {None}
      BY <2>3, <2>4
    <3>2. Answer' = [Answer EXCEPT ![r] = Kept[NameOf[r]]]
      BY <2>2, <2>5, <2>7, <3>1
    <3> QED BY <2>1, <3>2 DEF Store!Next, Store!Restore
  <2> QED BY <1>4, <2>3, <2>4, <2>6, <2>7 DEF LookForManifest, ReadManifest
<1>5. CASE Kill
  <2>1. Kept' = Kept
    BY <1>5 DEF Kill, Kept, Whole
  <2>2. Stage' = [o \in Saves \cup Deletes |-> IF Stage[o] = "busy" THEN "done" ELSE Stage[o]]
    BY <1>5 DEF Kill, Stage, Active, Ops, Ends, SaveEnds
  <2>3. Answer' = [r \in Restores |-> IF read[r] = "seen" THEN "killed" ELSE Answer[r]]
    BY <1>5 DEF Kill, Answer
  <2> DEFINE R == {r \in Restores : read[r] = "seen"}
  <2>4. R \in SUBSET {r \in Restores : Answer[r] = "pending"}
    BY DEF Answer
  <2>5. Answer' = [r \in Restores |-> IF r \in R THEN "killed" ELSE Answer[r]]
    BY <2>3
  <2>6. Store!Kill
    BY <2>1, <2>2, <2>4, <2>5 DEF Store!Kill, Store!Busy
  <2> QED BY <2>6 DEF Store!Next
<1>6. CASE UNCHANGED vars
  BY <1>6 DEF vars, Store!svars, Kept, Whole, Stage, Active, Answer
<1> QED BY <1>1, <1>2, <1>3, <1>4, <1>5, <1>6 DEF Next

\* For every number of calls and kills the files go through the states of a
\* store of whole manifests, and a restore gets what is kept at one moment of it
\* (checkpoint.py:66-110).
THEOREM RefinesStore == Spec => ImplementsStore
<1>1. Init => Store!Init
  BY CheckpointAssumption DEF Init, Store!Init, Kept, Whole, Stage, Answer, Ops
<1> QED BY <1>1, InitInv, InvStep, StoreStep, PTL DEF Spec, ImplementsStore, Store!Spec
=============================================================================
