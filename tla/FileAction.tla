----------------------------- MODULE FileAction -----------------------------
(***************************************************************************)
(* The file actions of a deployment (local_hand_deploy/files.py): one      *)
(* target file is planned, its original backed up and a candidate staged,  *)
(* the prepared action is saved by the coordinator, published by a rename  *)
(* or an unlink, and possibly restored by an action of its own.  A file is *)
(* an object with an identity (the file handle) and a value (bytes and     *)
(* attributes); directory entries are volatile until their directory is    *)
(* synchronised.  The process may die between any two steps, the host may  *)
(* lose power, and administrators may replace the target between calls.    *)
(***************************************************************************)
EXTENDS Naturals, FiniteSets, FiniteSetsExt

CONSTANTS
  Values,     \* contents with attributes
  MaxFiles,   \* max_preparation_files
  MaxCrashes, \* bound: deaths of the process and power losses
  MaxEdits,   \* bound: replacements by an administrator
  None        \* no file

FileAssumption == MaxFiles \in Nat \ {0} /\ MaxCrashes \in Nat /\ MaxEdits \in Nat

VARIABLES
  dir,      \* the directories as processes see them: target, candidates, backup, incomplete backups
  disk,     \* the same as a power loss leaves them
  rec,      \* the coordinator's durable record: phase, planned entry, saved actions
  pc,       \* the running call
  work,     \* the action the running call prepares
  serial,   \* next file handle
  foreign,  \* history: handles of objects an administrator created
  edits, crashes

vars == <<dir, disk, rec, pc, work, serial, foreign, edits, crashes>>
faults == <<foreign, edits, crashes>>

Object(v) == [id |-> serial, val |-> v]
NoAction == [kind |-> "none", expected |-> None, desired |-> None]

\* The same contents and attributes.
SameValue(a, b) == a = b \/ (a # None /\ b # None /\ a.val = b.val)

\* _matching: identity and value.
Same(a, b) == a = b

\* _usage: the files of the step's staging directory and of its namespace.
Usage == Cardinality(dir.cands) + Cardinality(dir.scraps) + (IF dir.backup = None THEN 0 ELSE 1)

\* _reserve_creation
Reserve == Usage < MaxFiles

\* fsync of a directory
SyncParent(d, k) == [k EXCEPT !.target = d.target, !.cands = d.cands]
SyncState(d, k) == [k EXCEPT !.backup = d.backup, !.scraps = d.scraps]

Call(step) == pc' = step
Keep(phase) == rec' = [rec EXCEPT !.phase = phase]

-----------------------------------------------------------------------------
(* plan_files and prepare_file *)

\* The target and the candidate are read and recorded.
Plan ==
  /\ rec.phase = "none" /\ pc = "idle"
  /\ \E want \in Values \cup {None} :
       rec' = [rec EXCEPT !.phase = "planned", !.original = dir.target, !.want = want]
  /\ UNCHANGED <<dir, disk, pc, work, serial, faults>>

\* The target is still the planned object; a target that has the wanted value is left alone.
Prepare ==
  /\ rec.phase = "planned" /\ pc = "idle"
  /\ IF ~Same(dir.target, rec.original)
     THEN Keep("conflict") /\ UNCHANGED <<pc, work>>
     ELSE /\ work' = [kind |-> "noop", expected |-> rec.original, desired |-> rec.original]
          /\ IF (rec.original = None /\ rec.want = None) \/ (rec.original # None /\ rec.original.val = rec.want)
             THEN Call("save")
             ELSE Call(IF rec.original = None THEN "stage" ELSE "backup")
          /\ UNCHANGED rec
  /\ UNCHANGED <<dir, disk, serial, faults>>

\* A new backup is written under an incomplete name.
WriteScrap ==
  /\ pc = "backup" /\ dir.backup = None
  /\ IF Reserve
     THEN /\ dir' = [dir EXCEPT !.scraps = @ \cup {Object(rec.original.val)}]
          /\ disk' = SyncState(dir', disk)
          /\ serial' = serial + 1 /\ Call("rename") /\ UNCHANGED rec
     ELSE Keep("limit") /\ Call("idle") /\ UNCHANGED <<dir, disk, serial>>
  /\ UNCHANGED <<work, faults>>

\* The write stops half way: the partial file stays.
WriteShort ==
  /\ pc = "backup" /\ dir.backup = None /\ Reserve /\ crashes < MaxCrashes
  /\ dir' = [dir EXCEPT !.scraps = @ \cup {[id |-> serial, val |-> None]}]
  /\ serial' = serial + 1 /\ crashes' = crashes + 1 /\ Call("idle") /\ work' = NoAction
  /\ UNCHANGED <<disk, rec, foreign, edits>>

RenameBackup ==
  /\ pc = "rename"
  /\ LET made == CHOOSE s \in dir.scraps : s.id = Max({x.id : x \in dir.scraps}) IN
       dir' = [dir EXCEPT !.scraps = @ \ {made}, !.backup = made]
  /\ Call("backup")
  /\ UNCHANGED <<disk, rec, work, serial, faults>>

\* Fault: a backup that is there is taken as durable.
KeepBackupSeen ==
  /\ pc = "backup" /\ dir.backup # None /\ dir.backup.val = rec.original.val
  /\ IF rec.want = None THEN work' = [work EXCEPT !.kind = "delete", !.desired = None] /\ Call("save")
                        ELSE Call("stage") /\ UNCHANGED work
  /\ UNCHANGED <<dir, disk, rec, serial, faults>>

\* A complete backup, new or of an earlier preparation, is synchronised in any case.
KeepBackup ==
  /\ pc = "backup" /\ dir.backup # None
  /\ IF dir.backup.val = rec.original.val
     THEN /\ disk' = SyncState(dir, disk) /\ UNCHANGED rec
          /\ IF rec.want = None THEN work' = [work EXCEPT !.kind = "delete", !.desired = None] /\ Call("save")
                                ELSE Call("stage") /\ UNCHANGED work
     ELSE Keep("conflict") /\ Call("idle") /\ UNCHANGED <<disk, work>>
  /\ UNCHANGED <<dir, serial, faults>>

\* _write_new beside the target, under a fresh name, with the directory synchronised.
Stage(value) ==
  /\ IF Reserve
     THEN /\ dir' = [dir EXCEPT !.cands = @ \cup {Object(value)}] /\ disk' = SyncParent(dir', disk)
          /\ work' = [work EXCEPT !.kind = "replace", !.desired = Object(value)]
          /\ serial' = serial + 1 /\ UNCHANGED rec
          /\ Call(IF pc = "stage" THEN "save" ELSE "savers")
     ELSE Keep("limit") /\ Call("idle") /\ UNCHANGED <<dir, disk, work, serial>>
  /\ UNCHANGED faults

StageCandidate == pc = "stage" /\ Stage(rec.want)

\* The coordinator saves the prepared action as its intent.
Save ==
  /\ pc = "save" /\ rec' = [rec EXCEPT !.phase = "prepared", !.action = work]
  /\ Call("idle") /\ work' = NoAction
  /\ UNCHANGED <<dir, disk, serial, faults>>

-----------------------------------------------------------------------------
(* execute_file *)

Intent == IF rec.phase = "prepared" THEN rec.action ELSE rec.restore

\* The target is the desired object already, or the expected one and the candidate is still staged.
Applies(a) ==
  \/ Same(dir.target, a.desired)
  \/ /\ Same(dir.target, a.expected) /\ a.kind # "noop"
     /\ a.kind = "replace" => a.desired \in dir.cands

\* rename, unlink, or nothing: a publication that happened is never repeated.
Effect(a) == IF Same(dir.target, a.desired) THEN dir
             ELSE [dir EXCEPT !.target = a.desired, !.cands = @ \ {a.desired}]

Execute ==
  /\ pc = "idle" /\ rec.phase \in {"prepared", "restoring"}
  /\ Applies(Intent) /\ dir' = Effect(Intent) /\ Call("sync")
  /\ UNCHANGED <<disk, rec, work, serial, faults>>

Refuse ==
  /\ pc = "idle" /\ rec.phase \in {"prepared", "restoring"}
  /\ ~Applies(Intent)
  /\ Keep("conflict")
  /\ UNCHANGED <<dir, disk, pc, work, serial, faults>>

\* The directory is synchronised, the target observed again and the outcome recorded.
Sync ==
  /\ pc = "sync"
  /\ disk' = IF Intent.kind = "noop" THEN disk ELSE SyncParent(dir, disk)
  /\ Keep(IF dir.target # Intent.desired THEN "conflict" ELSE IF rec.phase = "prepared" THEN "published" ELSE "restored")
  /\ Call("idle")
  /\ UNCHANGED <<dir, work, serial, faults>>

-----------------------------------------------------------------------------
(* prepare_restore: an action of its own from the published one *)

PrepareRestore ==
  /\ pc = "idle" /\ rec.phase \in {"prepared", "published"}
  /\ IF dir.target \notin {rec.action.desired, rec.action.expected}
     THEN Keep("conflict") /\ UNCHANGED <<pc, work>>
     ELSE /\ UNCHANGED rec
          /\ LET a == [kind |-> "noop", expected |-> dir.target, desired |-> dir.target] IN
             IF SameValue(dir.target, rec.original)
             THEN work' = a /\ Call("savers")
             ELSE IF rec.original = None
             THEN work' = [a EXCEPT !.kind = "delete", !.desired = None] /\ Call("savers")
             ELSE work' = a /\ Call("restage")
  /\ UNCHANGED <<dir, disk, serial, faults>>

\* The backup is compared with the original before its bytes are staged.
Restage ==
  /\ pc = "restage"
  /\ IF dir.backup # None /\ dir.backup.val = rec.original.val
     THEN Stage(dir.backup.val)
     ELSE Keep("conflict") /\ Call("idle") /\ UNCHANGED <<dir, disk, work, serial, faults>>

SaveRestore ==
  /\ pc = "savers" /\ rec' = [rec EXCEPT !.phase = "restoring", !.restore = work]
  /\ Call("idle") /\ work' = NoAction
  /\ UNCHANGED <<dir, disk, serial, faults>>

-----------------------------------------------------------------------------
(* Failures and administrators *)

Crash ==
  /\ pc # "idle" /\ crashes < MaxCrashes /\ crashes' = crashes + 1
  /\ Call("idle") /\ work' = NoAction
  /\ UNCHANGED <<dir, disk, rec, serial, foreign, edits>>

\* Each directory comes back as it was synchronised or as it was seen.
PowerLoss ==
  /\ crashes < MaxCrashes /\ crashes' = crashes + 1
  /\ \E parent \in BOOLEAN, state \in BOOLEAN :
       LET a == IF parent THEN SyncParent(dir, disk) ELSE disk
           b == IF state THEN SyncState(dir, a) ELSE a
       IN disk' = b /\ dir' = b
  /\ Call("idle") /\ work' = NoAction
  /\ UNCHANGED <<rec, serial, foreign, edits>>

Edit ==
  /\ pc = "idle" /\ rec.phase # "none" /\ edits < MaxEdits /\ edits' = edits + 1
  /\ \E v \in Values : dir' = [dir EXCEPT !.target = Object(v)]
  /\ disk' = SyncParent(dir', disk) /\ foreign' = foreign \cup {serial} /\ serial' = serial + 1
  /\ UNCHANGED <<rec, pc, work, crashes>>

Init ==
  /\ \E t \in {None} \cup {[id |-> 0, val |-> v] : v \in Values} :
       dir = [target |-> t, cands |-> {}, backup |-> None, scraps |-> {}]
  /\ disk = dir /\ pc = "idle" /\ work = NoAction /\ serial = 1 /\ foreign = {} /\ edits = 0 /\ crashes = 0
  /\ rec = [phase |-> "none", original |-> None, want |-> None, action |-> NoAction, restore |-> NoAction]

Preparation == Plan \/ Prepare \/ WriteScrap \/ RenameBackup \/ KeepBackup \/ StageCandidate \/ Save
Publication == Execute \/ Refuse \/ Sync
Restoration == PrepareRestore \/ Restage \/ SaveRestore
Next == Preparation \/ Publication \/ Restoration \/ WriteShort \/ Crash \/ PowerLoss \/ Edit

Spec == Init /\ [][Next]_vars

\* The coordinator repeats a call until it has an outcome.
FairSpec ==
  /\ Spec
  /\ WF_vars(Preparation) /\ WF_vars(Publication) /\ WF_vars(Restage \/ SaveRestore)

-----------------------------------------------------------------------------
Touched == foreign # {}
Phases == {"none", "planned", "prepared", "published", "restoring", "restored", "conflict", "limit"}

TypeOK ==
  /\ rec.phase \in Phases /\ Usage <= MaxFiles
  /\ pc \in {"idle", "backup", "rename", "stage", "save", "restage", "savers", "sync"}
  /\ edits \in 0..MaxEdits /\ crashes \in 0..MaxCrashes

(* From the moment a change of the target is an intent, the original's      *)
(* content is durably kept, so no power loss leaves it nowhere.             *)
OriginalKept ==
  (rec.action.kind \in {"replace", "delete"} /\ rec.original # None)
    => (disk.backup # None /\ disk.backup.val = rec.original.val)

(* What an administrator put in place of the target is never replaced or    *)
(* removed by the deployment, also when its bytes are those it expects.     *)
ForeignKept ==
  (dir.target # None /\ dir.target.id \in foreign /\ edits' = edits) => dir'.target = dir.target

(* A recorded publication is durable, and a recorded restoration durably    *)
(* has the original's value again, unless an administrator came between.    *)
DoneIsDurable ==
  /\ (rec.phase = "published" /\ ~Touched) => disk.target = rec.action.desired
  /\ (rec.phase = "restored" /\ ~Touched) => SameValue(disk.target, rec.original)

(* Without an administrator's change no call ends in a conflict, however    *)
(* often the process dies or the power is lost.                             *)
NoFalseConflict == rec.phase = "conflict" => Touched

(* Every plan comes to an outcome.                                          *)
Settles == (rec.phase = "planned") ~> (rec.phase \in {"published", "restored", "conflict", "limit"})

=============================================================================
