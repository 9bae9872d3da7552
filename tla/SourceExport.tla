---------------------------- MODULE SourceExport ----------------------------
(***************************************************************************)
(* export_source_tree (source.py) and the part of cmd_build (main.py) that *)
(* calls it: the authority's files are copied into a temporary tree, which *)
(* replaces build/sources/mountin by two renames, and the tree's identity  *)
(* is recorded in the build cache if and when cmd_build gets that far.      *)
(*                                                                         *)
(* A tree is a function from the entries present in it to their contents;  *)
(* its identity, a SHA-256 over names, modes and contents, is the tree      *)
(* itself.  The user may edit the checkout while it is being copied.  A     *)
(* recursive removal takes one entry at a time.  The process may die        *)
(* between any two steps; its temporary tree carries its process id in its *)
(* name, so that nothing reads it afterwards, and is dropped from the model.*)
(***************************************************************************)
EXTENDS Naturals, FiniteSets, Functions

CONSTANTS
    Entries,    \* the files of the authority
    Contents,   \* what a file may contain
    Absent,     \* no directory of that name; no identity recorded
    MaxEdits    \* bound: edits of the checkout

ASSUME EntriesAssumption == Entries # {} /\ IsFiniteSet(Entries)
ASSUME AbsentAssumption ==
    \A S \in SUBSET Entries : Absent \notin [S -> Contents]
ASSUME MaxEditsAssumption == MaxEdits \in Nat

VARIABLES
    work,       \* the authority's files
    dest,       \* build/sources/mountin
    backup,     \* build/sources/mountin.mountin-previous
    temp,       \* build/sources/mountin.tmp.<pid> of the running process
    identity,   \* source_identity, once the running process has computed it
    changed,    \* the second result of export_source_tree
    recorded,   \* cache["sources/mountin"]["input_hash"] on disk
    pc,         \* where the build process is; "idle": there is none
    edits       \* edits of the checkout so far

disk == <<dest, backup, recorded>>
vars == <<work, dest, backup, temp, identity, changed, recorded, pc, edits>>

Snapshots == [Entries -> Contents]
Trees == UNION {[S -> Contents] : S \in SUBSET Entries}
Labels == {"idle", "recover", "copy", "publish", "cleanup", "catalogue", "build"}

EmptyTree == [e \in {} |-> e]
With(tree, e, c) == [x \in DOMAIN tree \cup {e} |-> IF x = e THEN c ELSE tree[x]]
Without(tree, e) == Restrict(tree, DOMAIN tree \ {e})
Copied(tree) == DOMAIN tree = Entries

Init ==
    /\ work \in Snapshots
    /\ dest = Absent /\ backup = Absent /\ temp = Absent
    /\ identity = Absent /\ changed = FALSE
    /\ recorded = Absent
    /\ pc = "idle"
    /\ edits = 0

(* The user saves a file of the checkout, at any time. *)
Edit ==
    /\ edits < MaxEdits
    /\ edits' = edits + 1
    /\ \E e \in Entries, c \in Contents : work' = [work EXCEPT ![e] = c]
    /\ UNCHANGED <<disk, temp, identity, changed, pc>>

(* cmd_build takes the lock and loads the cache. *)
Start ==
    /\ pc = "idle"
    /\ pc' = "recover"
    /\ identity' = Absent /\ changed' = FALSE
    /\ UNCHANGED <<work, disk, temp, edits>>

(* temporary.mkdir(), after the recovery of an interrupted replacement. *)
BeginCopy ==
    /\ temp' = EmptyTree
    /\ pc' = "copy"

(* Fault: recovery removes the backup without looking for the destination. *)
DropBackupEntryUnseen ==
    /\ pc = "recover"
    /\ backup # Absent
    /\ \E e \in DOMAIN backup : backup' = Without(backup, e)
    /\ UNCHANGED <<work, dest, temp, identity, changed, recorded, pc, edits>>

RestoreBackup ==
    /\ pc = "recover"
    /\ backup # Absent /\ dest = Absent
    /\ dest' = backup /\ backup' = Absent
    /\ BeginCopy
    /\ UNCHANGED <<work, identity, changed, recorded, edits>>

NothingToRecover ==
    /\ pc = "recover"
    /\ backup = Absent
    /\ BeginCopy
    /\ UNCHANGED <<work, disk, identity, changed, edits>>

(* shutil.rmtree(backup): its entries go one by one, then the directory. *)
RemoveBackupEntry ==
    /\ \E e \in DOMAIN backup : backup' = Without(backup, e)
    /\ UNCHANGED <<work, dest, temp, identity, changed, recorded, pc, edits>>

DropBackupEntry ==
    /\ pc = "recover"
    /\ backup # Absent /\ dest # Absent
    /\ RemoveBackupEntry

DropBackup ==
    /\ pc = "recover"
    /\ backup = EmptyTree /\ dest # Absent
    /\ backup' = Absent
    /\ BeginCopy
    /\ UNCHANGED <<work, dest, identity, changed, recorded, edits>>

(* _copy_entry: the bytes are read once, both copied and digested. *)
CopyEntry ==
    /\ pc = "copy"
    /\ \E e \in Entries \ DOMAIN temp : temp' = With(temp, e, work[e])
    /\ UNCHANGED <<work, disk, identity, changed, pc, edits>>

(* An exception while copying: the finally clause removes the temporary. *)
CopyFails ==
    /\ pc = "copy"
    /\ temp' = Absent
    /\ pc' = "idle"
    /\ UNCHANGED <<work, disk, identity, changed, edits>>

(* The identity is the recorded one and a destination directory exists. *)
MayRetain == recorded = temp /\ dest # Absent

Retain ==
    /\ pc = "copy" /\ Copied(temp)
    /\ MayRetain
    /\ identity' = temp /\ changed' = FALSE
    /\ temp' = Absent
    /\ pc' = "catalogue"
    /\ UNCHANGED <<work, disk, edits>>

(* Fault: the tree is published as soon as something has been copied. *)
MoveAsideEarly ==
    /\ pc = "copy" /\ DOMAIN temp # {}
    /\ ~MayRetain
    /\ IF dest # Absent
          THEN backup' = dest /\ dest' = Absent
          ELSE UNCHANGED <<backup, dest>>
    /\ pc' = "publish"
    /\ UNCHANGED <<work, temp, identity, changed, recorded, edits>>

MoveAside ==
    /\ pc = "copy" /\ Copied(temp)
    /\ ~MayRetain
    /\ IF dest # Absent
          THEN backup' = dest /\ dest' = Absent
          ELSE UNCHANGED <<backup, dest>>
    /\ pc' = "publish"
    /\ UNCHANGED <<work, temp, identity, changed, recorded, edits>>

(* Fault: the identity is that of the checkout, read a second time. *)
PublishTreeRehashed ==
    /\ pc = "publish"
    /\ dest' = temp /\ temp' = Absent
    /\ identity' = work /\ changed' = TRUE
    /\ pc' = "cleanup"
    /\ UNCHANGED <<work, backup, recorded, edits>>

PublishTree ==
    /\ pc = "publish"
    /\ dest' = temp /\ temp' = Absent
    /\ identity' = temp /\ changed' = TRUE
    /\ pc' = "cleanup"
    /\ UNCHANGED <<work, backup, recorded, edits>>

(* The second rename fails or is interrupted: the backup is put back. *)
PublishFails ==
    /\ pc = "publish"
    /\ IF backup # Absent /\ dest = Absent
          THEN dest' = backup /\ backup' = Absent
          ELSE UNCHANGED <<backup, dest>>
    /\ temp' = Absent
    /\ pc' = "idle"
    /\ UNCHANGED <<work, identity, changed, recorded, edits>>

CleanupEntry ==
    /\ pc = "cleanup"
    /\ backup # Absent
    /\ RemoveBackupEntry

(* Fault: the cleanup empties the backup and waits for it to be gone. *)
CleanupDoneNever ==
    /\ pc = "cleanup"
    /\ backup = Absent
    /\ pc' = "catalogue"
    /\ UNCHANGED <<work, dest, backup, temp, identity, changed, recorded, edits>>

CleanupDone ==
    /\ pc = "cleanup"
    /\ backup \in {EmptyTree, Absent}
    /\ backup' = Absent
    /\ pc' = "catalogue"
    /\ UNCHANGED <<work, dest, temp, identity, changed, recorded, edits>>

(* The exported catalogue does not load, or no target is left to build:    *)
(* cmd_build ends without saving the cache.                                 *)
RefuseTargets ==
    /\ pc = "catalogue"
    /\ pc' = "idle"
    /\ UNCHANGED <<work, disk, temp, identity, changed, edits>>

(* save_cache, then run_build works from the exported tree. *)
Record ==
    /\ pc = "catalogue"
    /\ recorded' = identity
    /\ pc' = "build"
    /\ UNCHANGED <<work, dest, backup, temp, identity, changed, edits>>

BuildEnds ==
    /\ pc = "build"
    /\ pc' = "idle"
    /\ UNCHANGED <<work, disk, temp, identity, changed, edits>>

(* The process is killed, or the host goes down. *)
Crash ==
    /\ pc # "idle"
    /\ pc' = "idle"
    /\ temp' = Absent
    /\ UNCHANGED <<work, disk, identity, changed, edits>>

Export ==
    \/ RestoreBackup \/ NothingToRecover \/ DropBackupEntry \/ DropBackup
    \/ CopyEntry \/ CopyFails \/ Retain \/ MoveAside
    \/ PublishTree \/ PublishFails \/ CleanupEntry \/ CleanupDone
    \/ RefuseTargets \/ Record \/ BuildEnds

Next == Edit \/ Start \/ Export \/ Crash

Spec == Init /\ [][Next]_vars

(* A running process keeps taking steps; nobody has to start one.          *)
FairSpec == Spec /\ WF_vars(Export)
-----------------------------------------------------------------------------
TypeOK ==
    /\ work \in Snapshots
    /\ dest \in Trees \cup {Absent}
    /\ backup \in Trees \cup {Absent}
    /\ temp \in Trees \cup {Absent}
    /\ identity \in Snapshots \cup {Absent}
    /\ changed \in BOOLEAN
    /\ recorded \in Snapshots \cup {Absent}
    /\ pc \in Labels
    /\ edits \in 0..MaxEdits

(* The tree a reader finds, or the one the next process will restore. *)
Current == IF dest # Absent THEN dest ELSE backup

(* The exported tree behaves as one that is replaced atomically: whatever   *)
(* step of export_source_tree a crash or an error falls on, the tree in     *)
(* place, or the backup the next export puts back, is a whole export.       *)
Atomic == INSTANCE AtomicTree WITH Complete <- Snapshots, None <- Absent, tree <- Current
ExportIsAtomic == Atomic!Spec

(* When the export reports a new tree (changed), cmd_build loads, records   *)
(* and builds exactly the tree whose identity it computed, and it does so   *)
(* with no backup left that a later recovery could put in its place.        *)
NewTreeIsItsIdentity ==
    pc \in {"catalogue", "build"} /\ changed => dest = identity /\ backup = Absent

(* The docstring of export_source_tree: it retains an identical existing    *)
(* tree, so a build always works from the tree whose identity it records.   *)
BuildsItsIdentity == pc = "build" => dest = identity

(* An export that starts ends, in a build or without one: the removal of    *)
(* backups and the copy make progress whatever a crash left behind.         *)
ExportEnds == pc = "recover" ~> pc = "idle"
=============================================================================
