----------------------------- MODULE Checkpoint -----------------------------
(***************************************************************************)
(* The checkpoint manager of the loader (agent/loader/checkpoint.py) at    *)
(* the grain of its file operations.  /checkpoint runs save on a worker    *)
(* thread, any number at once.  A directory is named by the save that made *)
(* it: it is born under a temporary name nobody else uses, and renamed to  *)
(* the name of its model; shutil.rmtree takes the old one away in steps.   *)
(* The process may be killed at any point: its threads vanish, the files   *)
(* stay.                                                                   *)
(***************************************************************************)
EXTENDS Naturals

CONSTANTS Names, Saves, Deletes, Restores,
          NameOf,      \* the directory name of the model each call is about
          None,
          MaxKills     \* bound: how often the process is killed

ASSUME CheckpointAssumption ==
  /\ NameOf \in [Saves \cup Deletes \cup Restores -> Names]
  /\ Saves \cap Deletes = {} /\ None \notin Saves
  /\ (Saves \cup {None}) \cap {"new", "seen", "pending", "broken", "killed"} = {}
  /\ MaxKills \in Nat

VARIABLES at,        \* the directory under each model's name
          manifest,  \* manifest.json of each save's directory
          pc,        \* where each save and each delete stands
          fd,        \* the directory each of them has open to remove
          read,      \* where each restore stands, or what it got
          met,       \* operations that met another one on their name
          kills

vars == <<at, manifest, pc, fd, read, met, kills>>

Ops      == Saves \cup Deletes
SaveEnds == {"saved", "unwritten", "beaten"}
Ends     == SaveEnds \cup {"deleted", "nothing", "killed"}
Active(o) == pc[o] \notin Ends \cup {"new"}
Target(o) == at[NameOf[o]]

Init ==
  /\ at = [n \in Names |-> None]
  /\ manifest = [s \in Saves |-> "absent"]
  /\ pc = [o \in Ops |-> "new"] /\ fd = [o \in Ops |-> None]
  /\ read = [r \in Restores |-> "new"]
  /\ met = {} /\ kills = 0

To(o, p)      == pc' = [pc EXCEPT ![o] = p]
Content(s, c) == manifest' = [manifest EXCEPT ![s] = c]
Place(o, d)   == at' = [at EXCEPT ![NameOf[o]] = d]

\* Two operations on one name overlap from the moment the later one starts.
Meet(o) == LET others == {p \in Ops \ {o} : NameOf[p] = NameOf[o] /\ Active(p)}
           IN met' = IF others = {} THEN met ELSE met \cup others \cup {o}

-----------------------------------------------------------------------------
(* save.  Any error but that of mkdtemp removes the temporary directory,   *)
(* which no one else touches, and is raised again.                         *)

\* mkdtemp.
MakeTemp(s) ==
  /\ pc[s] = "new" /\ Meet(s)
  /\ \/ To(s, "made") /\ Content(s, "empty")
     \/ To(s, "unwritten") /\ UNCHANGED manifest
  /\ UNCHANGED <<at, fd, read, kills>>

OpenFile(s) ==
  /\ pc[s] = "made"
  /\ To(s, "writing") /\ Content(s, "half")
  /\ UNCHANGED <<at, fd, read, met, kills>>

CloseFile(s) ==
  /\ pc[s] = "writing"
  /\ To(s, "written") /\ Content(s, "whole")
  /\ UNCHANGED <<at, fd, read, met, kills>>

WriteFails_OldRemovedFirst(s) ==       \* a slip: the old manifest goes before the new one is written
  /\ pc[s] \in {"made", "writing", "clear"}
  /\ To(s, "unwritten") /\ Content(s, "absent")
  /\ UNCHANGED <<at, fd, read, met, kills>>
WriteFails(s) ==
  /\ pc[s] \in {"made", "writing"}
  /\ To(s, "unwritten") /\ Content(s, "absent")
  /\ UNCHANGED <<at, fd, read, met, kills>>

\* if target.exists()
LookAtTarget_Never(s) ==               \* a slip: the old directory is not removed
  /\ pc[s] = "written"
  /\ To(s, "clear")
  /\ UNCHANGED <<at, manifest, fd, read, met, kills>>
LookAtTarget_Unflushed(s) ==           \* a slip: the file is still open
  /\ pc[s] \in {"writing", "written"}
  /\ To(s, IF Target(s) = None THEN "clear" ELSE "removing")
  /\ UNCHANGED <<at, manifest, fd, read, met, kills>>
LookAtTarget(s) ==
  /\ pc[s] = "written"
  /\ To(s, IF Target(s) = None THEN "clear" ELSE "removing")
  /\ UNCHANGED <<at, manifest, fd, read, met, kills>>

\* rename replaces no directory or an empty one; it refuses one with a file in it.
Occupied(o) == Target(o) # None /\ manifest[Target(o)] # "empty"

Rename_Replaces(s) ==                  \* a slip: as if a directory were replaced like a file
  /\ pc[s] = "clear"
  /\ Place(s, s) /\ To(s, "saved")
  /\ UNCHANGED <<manifest, fd, read, met, kills>>
Rename(s) ==
  /\ pc[s] = "clear"
  /\ IF Occupied(s)
     THEN To(s, "beaten") /\ Content(s, "absent") /\ UNCHANGED at
     ELSE /\ Place(s, s) /\ To(s, "saved")
          /\ manifest' = [d \in Saves |-> IF d = Target(s) THEN "absent" ELSE manifest[d]]
  /\ UNCHANGED <<fd, read, met, kills>>

-----------------------------------------------------------------------------
(* shutil.rmtree(target), as Python 3.11 does it with file descriptors.    *)

\* Its error ends a save, whose temporary directory goes with it, or a delete.
Beaten(o) ==
  /\ To(o, "beaten") /\ fd' = [fd EXCEPT ![o] = None]
  /\ IF o \in Saves THEN Content(o, "absent") ELSE UNCHANGED manifest
  /\ UNCHANGED at

\* lstat and open; they must find the same directory.
StatTarget(o) ==
  /\ pc[o] = "removing"
  /\ IF Target(o) = None THEN Beaten(o)
     ELSE To(o, "opening") /\ fd' = [fd EXCEPT ![o] = Target(o)] /\ UNCHANGED <<at, manifest>>
  /\ UNCHANGED <<read, met, kills>>

\* open and scandir.
OpenTarget(o) ==
  /\ pc[o] = "opening"
  /\ IF Target(o) # fd[o] THEN Beaten(o)
     ELSE /\ To(o, IF manifest[fd[o]] = "empty" THEN "emptied" ELSE "opened")
          /\ UNCHANGED <<at, manifest, fd>>
  /\ UNCHANGED <<read, met, kills>>

\* unlink of the file that was listed, in the directory that was opened.
Unlink(o) ==
  /\ pc[o] = "opened"
  /\ IF manifest[fd[o]] \in {"empty", "absent"} THEN Beaten(o)
     ELSE To(o, "emptied") /\ Content(fd[o], "empty") /\ UNCHANGED <<at, fd>>
  /\ UNCHANGED <<read, met, kills>>

\* rmdir of whatever has the name by now.
RemoveDir(o) ==
  /\ pc[o] = "emptied"
  /\ IF Target(o) = None \/ Occupied(o) THEN Beaten(o)
     ELSE /\ To(o, IF o \in Saves THEN "clear" ELSE "deleted")
          /\ Place(o, None) /\ Content(Target(o), "absent")
          /\ fd' = [fd EXCEPT ![o] = None]
  /\ UNCHANGED <<read, met, kills>>

RemoveTree(o) == StatTarget(o) \/ OpenTarget(o) \/ Unlink(o) \/ RemoveDir(o)

-----------------------------------------------------------------------------
(* delete, restore, and the end of the process.                            *)

StartDelete(o) ==
  /\ pc[o] = "new" /\ Meet(o)
  /\ To(o, IF Target(o) = None THEN "nothing" ELSE "removing")
  /\ UNCHANGED <<at, manifest, fd, read, kills>>

HasManifest(o) == Target(o) # None /\ manifest[Target(o)] \in {"half", "whole"}
\* manifest_path.exists(); None stands for FileNotFoundError.
LookForManifest(r) ==
  /\ read[r] = "new"
  /\ read' = [read EXCEPT ![r] = IF HasManifest(r) THEN "seen" ELSE None]
  /\ UNCHANGED <<at, manifest, pc, fd, met, kills>>

\* The path is looked up once more to open it.
ReadManifest(r) ==
  /\ read[r] = "seen"
  /\ read' = [read EXCEPT ![r] = IF ~HasManifest(r) THEN None
                                 ELSE IF manifest[Target(r)] = "half" THEN "broken"
                                 ELSE Target(r)]
  /\ UNCHANGED <<at, manifest, pc, fd, met, kills>>

Kill ==
  /\ kills < MaxKills
  /\ kills' = kills + 1
  /\ pc' = [o \in Ops |-> IF Active(o) THEN "killed" ELSE pc[o]]
  /\ read' = [r \in Restores |-> IF read[r] = "seen" THEN "killed" ELSE read[r]]
  /\ fd' = [o \in Ops |-> None]
  /\ UNCHANGED <<at, manifest, met>>

-----------------------------------------------------------------------------
SaveStep(s) == \/ MakeTemp(s) \/ OpenFile(s) \/ CloseFile(s) \/ WriteFails(s)
               \/ LookAtTarget(s) \/ Rename(s)

Next == \/ \E s \in Saves : SaveStep(s)
        \/ \E o \in Ops : RemoveTree(o)
        \/ \E d \in Deletes : StartDelete(d)
        \/ \E r \in Restores : LookForManifest(r) \/ ReadManifest(r)
        \/ Kill

Spec == Init /\ [][Next]_vars

-----------------------------------------------------------------------------
(* Properties.                                                             *)

Working == {"made", "writing", "written", "removing", "opening", "opened", "emptied", "clear"}
Files   == {"absent", "empty", "half", "whole"}

\* Types; a directory is at one place, and what has a model's name is there and
\* was never half-written (checkpoint.py:62-110).
TypeOK ==
  /\ at \in [Names -> Saves \cup {None}] /\ manifest \in [Saves -> Files]
  /\ pc \in [Ops -> Working \cup Ends \cup {"new"}] /\ fd \in [Ops -> Saves \cup {None}]
  /\ read \in [Restores -> Saves \cup {None, "new", "seen", "broken", "killed"}]
  /\ met \subseteq Ops /\ kills \in 0..MaxKills
  /\ \A n \in Names : at[n] # None => NameOf[at[n]] = n /\ manifest[at[n]] \in {"empty", "whole"}

Whole(n)   == at[n] # None /\ manifest[at[n]] = "whole"
Settled(n) == \A o \in Ops : NameOf[o] = n => ~Active(o)

\* Saves of one model that get in each other's way end with one of their
\* manifests in place: once a save of it succeeded, and until a delete or a
\* kill, there is one whenever none is underway, whichever of them failed
\* (checkpoint.py:78-85).
ManifestSurvives ==
  \A n \in Names :
    /\ kills = 0 /\ Settled(n)
    /\ \E s \in Saves : NameOf[s] = n /\ pc[s] = "saved"
    /\ \A d \in Deletes : NameOf[d] = n => pc[d] \in {"new", "nothing"}
    => Whole(n)

\* Nothing a kill leaves behind, an empty directory under the name or a
\* temporary one, stops a later call: a save or a delete fails for want of the
\* disk or because it met another one on its name (checkpoint.py:74-85, 105-110).
LoneCallsSucceed == \A o \in Ops : pc[o] = "beaten" => o \in met

Kept   == [n \in Names |-> IF Whole(n) THEN at[n] ELSE None]
Stage  == [o \in Ops |-> IF pc[o] = "new" THEN "idle" ELSE IF Active(o) THEN "busy" ELSE "done"]
Answer == [r \in Restores |-> IF read[r] \in {"new", "seen"} THEN "pending" ELSE read[r]]

\* Under each name whole manifests come and go one at a time, replaced by way of
\* none; a restore gets the one that is there, never half of it
\* (checkpoint.py:66-94).
Store == INSTANCE ManifestStore WITH kept <- Kept, stage <- Stage, answer <- Answer
ImplementsStore == Store!Spec
=============================================================================
