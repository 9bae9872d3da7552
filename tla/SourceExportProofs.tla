------------------------- MODULE SourceExportProofs -------------------------
(***************************************************************************)
(* Proofs about SourceExport, for any set of files, any contents and any    *)
(* number of edits: the exported tree refines AtomicTree, and a build that   *)
(* exported a new tree works from the tree whose identity it records.       *)
(***************************************************************************)
EXTENDS SourceExport, Countdowns, FiniteSetTheorems, TLAPS

(* The tree in place is whole; the backup is whole whenever it is the only  *)
(* copy.  What is known of the process at each step follows the code: the   *)
(* temporary tree is complete and the name free when it is published, and   *)
(* the published tree is the one just digested.                             *)
DestinationWhole == dest # Absent => dest \in Snapshots
BackupWhole == dest = Absent /\ backup # Absent => backup \in Snapshots
StepFacts ==
    /\ pc = "copy" => backup = Absent /\ temp \in Trees
    /\ pc = "publish" => temp \in Snapshots /\ dest = Absent
    /\ pc = "cleanup" => dest = identity /\ dest \in Snapshots
    /\ pc = "catalogue" => identity \in Snapshots

IInv ==
    /\ TypeOK
    /\ DestinationWhole /\ BackupWhole /\ StepFacts
    /\ NewTreeIsItsIdentity

(* A tree with an entry more, or an entry fewer, is a tree. *)
LEMMA AddEntry ==
    ASSUME NEW t \in Trees, NEW e \in Entries, NEW c \in Contents
    PROVE  With(t, e, c) \in Trees
<1>1. PICK S \in SUBSET Entries : t \in [S -> Contents]
    BY DEF Trees
<1>2. With(t, e, c) \in [S \cup {e} -> Contents]
    BY <1>1 DEF With
<1> QED
    BY <1>2 DEF Trees

LEMMA DropEntry ==
    ASSUME NEW t \in Trees, NEW e
    PROVE  Without(t, e) \in Trees
<1>1. PICK S \in SUBSET Entries : t \in [S -> Contents]
    BY DEF Trees
<1>2. Without(t, e) \in [S \ {e} -> Contents]
    BY <1>1 DEF Without, Restrict
<1> QED
    BY <1>2 DEF Trees

(* A copy that has every entry is a snapshot; every snapshot is a tree; and *)
(* no tree is the mark of a missing one.                                     *)
LEMMA WholeCopy ==
    ASSUME NEW t \in Trees, Copied(t)
    PROVE  t \in Snapshots
<1>1. PICK S \in SUBSET Entries : t \in [S -> Contents]
    BY DEF Trees
<1> QED
    BY <1>1 DEF Copied, Snapshots

LEMMA SnapshotIsTree == Snapshots \subseteq Trees /\ EmptyTree \in Trees
<1>1. EmptyTree \in [{} -> Contents]
    BY DEF EmptyTree
<1> QED
    BY <1>1 DEF Snapshots, Trees

LEMMA AbsentIsNoTree == Absent \notin Trees
    BY AbsentAssumption DEF Trees

-----------------------------------------------------------------------------
LEMMA InitIInv == Init => IInv
<1> SUFFICES ASSUME Init PROVE IInv
    OBVIOUS
<1>1. edits \in 0..MaxEdits
    BY MaxEditsAssumption DEF Init
<1>2. pc \in Labels
    BY DEF Init, Labels
<1>3. TypeOK
    BY <1>1, <1>2 DEF Init, TypeOK
<1> QED
    BY <1>3 DEF Init, IInv, DestinationWhole, BackupWhole, StepFacts, NewTreeIsItsIdentity

LEMMA RemoveBackupEntryType ==
    ASSUME IInv, RemoveBackupEntry, backup # Absent
    PROVE  backup' \in Trees
    BY DropEntry DEF IInv, TypeOK, RemoveBackupEntry

(* The strengthened invariant survives every step of the process, of the    *)
(* user and of a crash.                                                      *)
LEMMA NextIInv == IInv /\ [Next]_vars => IInv'
<1> SUFFICES ASSUME IInv, [Next]_vars PROVE IInv'
    OBVIOUS
<1> USE DEF IInv, TypeOK, DestinationWhole, BackupWhole, StepFacts,
        NewTreeIsItsIdentity, Labels, disk
<1>1. CASE Edit
    <2>1. work' \in Snapshots
        BY <1>1 DEF Edit, Snapshots
    <2>2. edits' \in 0..MaxEdits
        BY <1>1, MaxEditsAssumption DEF Edit
    <2> QED
        BY <1>1, <2>1, <2>2 DEF Edit
<1>2. CASE Start
    BY <1>2 DEF Start
<1>3. CASE RestoreBackup
    BY <1>3, SnapshotIsTree DEF RestoreBackup, BeginCopy
<1>4. CASE NothingToRecover
    BY <1>4, SnapshotIsTree DEF NothingToRecover, BeginCopy
<1>5. CASE DropBackupEntry
    <2>1. backup' \in Trees
        BY <1>5, RemoveBackupEntryType DEF DropBackupEntry
    <2> QED
        BY <1>5, <2>1 DEF DropBackupEntry, RemoveBackupEntry
<1>6. CASE DropBackup
    BY <1>6, SnapshotIsTree DEF DropBackup, BeginCopy
<1>7. CASE CopyEntry
    <2>1. temp' \in Trees
        BY <1>7, AddEntry DEF CopyEntry, Snapshots
    <2> QED
        BY <1>7, <2>1 DEF CopyEntry
<1>8. CASE CopyFails
    BY <1>8 DEF CopyFails
<1>9. CASE Retain
    BY <1>9, WholeCopy DEF Retain
<1>10. CASE MoveAside
    <2>1. temp \in Snapshots
        BY <1>10, WholeCopy DEF MoveAside
    <2> QED
        BY <1>10, <2>1 DEF MoveAside
<1>11. CASE PublishTree
    BY <1>11, SnapshotIsTree DEF PublishTree
<1>12. CASE PublishFails
    BY <1>12 DEF PublishFails
<1>13. CASE CleanupEntry
    <2>1. backup' \in Trees
        BY <1>13, RemoveBackupEntryType DEF CleanupEntry
    <2> QED
        BY <1>13, <2>1, AbsentIsNoTree, SnapshotIsTree DEF CleanupEntry, RemoveBackupEntry
<1>14. CASE CleanupDone
    BY <1>14, AbsentIsNoTree, SnapshotIsTree DEF CleanupDone
<1>15. CASE RefuseTargets
    BY <1>15 DEF RefuseTargets
<1>16. CASE Record
    BY <1>16 DEF Record
<1>17. CASE BuildEnds
    BY <1>17 DEF BuildEnds
<1>18. CASE Crash
    BY <1>18 DEF Crash
<1>19. CASE UNCHANGED vars
    BY <1>19 DEF vars
<1> QED
    BY <1>1, <1>2, <1>3, <1>4, <1>5, <1>6, <1>7, <1>8, <1>9, <1>10, <1>11,
       <1>12, <1>13, <1>14, <1>15, <1>16, <1>17, <1>18, <1>19 DEF Next, Export

LEMMA InvariantHolds == Spec => []IInv
    BY InitIInv, NextIInv, PTL DEF Spec

(* The variables of the export stay of their types. *)
THEOREM TypeCorrect == Spec => []TypeOK
<1>1. IInv => TypeOK
    BY DEF IInv
<1> QED
    BY <1>1, InvariantHolds, PTL

(* cmd_build works from the tree it has just exported, with no backup left  *)
(* for a later recovery to put in its place.                                 *)
THEOREM NewTreeRecorded == Spec => []NewTreeIsItsIdentity
<1>1. IInv => NewTreeIsItsIdentity
    BY DEF IInv
<1> QED
    BY <1>1, InvariantHolds, PTL

-----------------------------------------------------------------------------
(* Only publishing changes the tree a reader finds or recovery restores,    *)
(* and it puts a whole tree in its place.                                    *)
LEMMA StepRefines == IInv /\ [Next]_vars => [Atomic!Publish]_Current
<1> SUFFICES ASSUME IInv, [Next]_vars PROVE [Atomic!Publish]_Current
    OBVIOUS
<1> USE DEF Current
<1>1. CASE PublishTree
    <2>1. Current' = temp /\ temp \in Snapshots
        BY <1>1, SnapshotIsTree, AbsentIsNoTree DEF PublishTree, IInv, StepFacts
    <2> QED
        BY <2>1 DEF Atomic!Publish
<1>2. CASE RestoreBackup
    BY <1>2 DEF RestoreBackup
<1>3. CASE DropBackupEntry
    BY <1>3 DEF DropBackupEntry, RemoveBackupEntry
<1>4. CASE DropBackup
    BY <1>4 DEF DropBackup
<1>5. CASE MoveAside
    BY <1>5 DEF MoveAside
<1>6. CASE PublishFails
    BY <1>6 DEF PublishFails
<1>7. CASE CleanupEntry \/ CleanupDone
    <2>1. dest # Absent
        BY <1>7, SnapshotIsTree, AbsentIsNoTree
        DEF CleanupEntry, CleanupDone, IInv, StepFacts
    <2> QED
        BY <1>7, <2>1 DEF CleanupEntry, CleanupDone, RemoveBackupEntry
<1>8. CASE Edit \/ Start \/ NothingToRecover \/ CopyEntry \/ CopyFails \/ Retain
           \/ RefuseTargets \/ Record \/ BuildEnds \/ Crash
    BY <1>8 DEF Edit, Start, NothingToRecover, CopyEntry, CopyFails, Retain,
        RefuseTargets, Record, BuildEnds, Crash, disk
<1>9. CASE UNCHANGED vars
    BY <1>9 DEF vars
<1> QED
    BY <1>1, <1>2, <1>3, <1>4, <1>5, <1>6, <1>7, <1>8, <1>9 DEF Next, Export

(* export_source_tree implements the atomic tree: at every moment, a crash  *)
(* included, the tree in place or the one recovery restores is a whole one. *)
THEOREM ExportRefines == Spec => ExportIsAtomic
<1>1. Init => Atomic!Init
    BY DEF Init, Current, Atomic!Init
<1> QED
    BY <1>1, StepRefines, InvariantHolds, PTL
    DEF Spec, ExportIsAtomic, Atomic!Spec
-----------------------------------------------------------------------------
(* What is left of an export: the phases to come, and in the one it is in the *)
(* files to copy or to remove.                                               *)
PhasesLeft ==
    CASE pc = "recover" -> 6 [] pc = "copy" -> 5 [] pc = "publish" -> 4
      [] pc = "cleanup" -> 3 [] pc = "catalogue" -> 2 [] pc = "build" -> 1
      [] OTHER -> 0

FilesLeft ==
    CASE pc = "copy" -> Cardinality(Entries \ DOMAIN temp)
      [] pc \in {"recover", "cleanup"} /\ backup # Absent -> Cardinality(DOMAIN backup)
      [] OTHER -> 0

ToGo == <<PhasesLeft, FilesLeft, 0, 0>>

LEMMA FilesOfTree ==
    ASSUME NEW t \in Trees
    PROVE  /\ DOMAIN t \subseteq Entries /\ IsFiniteSet(DOMAIN t)
           /\ Cardinality(DOMAIN t) \in Nat
<1>1. PICK S \in SUBSET Entries : t \in [S -> Contents]
    BY DEF Trees
<1>2. DOMAIN t \subseteq Entries
    BY <1>1
<1> QED
    BY <1>2, EntriesAssumption, FS_Subset, FS_CardinalityType

LEMMA FilesMissing ==
    ASSUME NEW S, S \subseteq Entries
    PROVE  IsFiniteSet(Entries \ S) /\ Cardinality(Entries \ S) \in Nat
<1>1. Entries \ S \subseteq Entries
    OBVIOUS
<1> QED
    BY <1>1, EntriesAssumption, FS_Subset, FS_CardinalityType

(* One file less. *)
LEMMA OneFileLess ==
    ASSUME NEW S, IsFiniteSet(S), NEW e \in S
    PROVE  Cardinality(S \ {e}) < Cardinality(S)
<1>1. Cardinality(S) \in Nat /\ Cardinality(S \ {e}) = Cardinality(S) - 1
    BY FS_CardinalityType, FS_RemoveElement
<1> QED
    BY <1>1

LEMMA FilesLeftType ==
    ASSUME IInv
    PROVE  FilesLeft \in Nat /\ PhasesLeft \in Nat
<1>1. CASE pc = "copy"
    <2>1. temp \in Trees
        BY <1>1 DEF IInv, StepFacts
    <2> QED
        BY <1>1, <2>1, FilesOfTree, FilesMissing DEF FilesLeft, PhasesLeft
<1>2. CASE pc \in {"recover", "cleanup"} /\ backup # Absent
    <2>1. backup \in Trees
        BY <1>2 DEF IInv, TypeOK
    <2> QED
        BY <1>2, <2>1, FilesOfTree DEF FilesLeft, PhasesLeft
<1>3. CASE pc # "copy" /\ ~(pc \in {"recover", "cleanup"} /\ backup # Absent)
    BY <1>3 DEF FilesLeft, PhasesLeft
<1> QED
    BY <1>1, <1>2, <1>3

(* The next phase, or an end. *)
LEMMA PhaseIsLower ==
    ASSUME PhasesLeft' < PhasesLeft
    PROVE  Lower(ToGo', ToGo)
BY DEF Lower, ToGo

LEMMA FileIsLower ==
    ASSUME PhasesLeft' = PhasesLeft, FilesLeft' < FilesLeft
    PROVE  Lower(ToGo', ToGo)
BY DEF Lower, ToGo

LEMMA RemovalIsLower ==
    ASSUME IInv, RemoveBackupEntry, backup # Absent, pc \in {"recover", "cleanup"}
    PROVE  Lower(ToGo', ToGo)
<1>1. PICK e \in DOMAIN backup : backup' = Without(backup, e)
    BY DEF RemoveBackupEntry
<1>2. pc' = pc
    BY DEF RemoveBackupEntry
<1>3. backup \in Trees
    BY DEF IInv, TypeOK
<1>4. backup' # Absent
    BY <1>1, <1>3, DropEntry, AbsentIsNoTree
<1>5. DOMAIN backup' = DOMAIN backup \ {e}
    BY <1>1 DEF Without, Restrict
<1>6. Cardinality(DOMAIN backup') < Cardinality(DOMAIN backup)
    BY <1>3, <1>5, FilesOfTree, OneFileLess
<1>7. FilesLeft = Cardinality(DOMAIN backup) /\ FilesLeft' = Cardinality(DOMAIN backup')
    BY <1>2, <1>4 DEF FilesLeft
<1> QED
    BY <1>2, <1>6, <1>7, FileIsLower DEF PhasesLeft

LEMMA CopyIsLower ==
    ASSUME IInv, CopyEntry
    PROVE  Lower(ToGo', ToGo)
<1>1. PICK e \in Entries \ DOMAIN temp : temp' = With(temp, e, work[e])
    BY DEF CopyEntry
<1>2. pc = "copy" /\ pc' = "copy"
    BY DEF CopyEntry
<1>3. temp \in Trees
    BY <1>2 DEF IInv, StepFacts
<1>4. Entries \ DOMAIN temp' = (Entries \ DOMAIN temp) \ {e}
    BY <1>1 DEF With
<1>5. Cardinality(Entries \ DOMAIN temp') < Cardinality(Entries \ DOMAIN temp)
    BY <1>3, <1>4, FilesOfTree, FilesMissing, OneFileLess
<1>6. FilesLeft = Cardinality(Entries \ DOMAIN temp)
      /\ FilesLeft' = Cardinality(Entries \ DOMAIN temp')
    BY <1>2 DEF FilesLeft
<1> QED
    BY <1>2, <1>5, <1>6, FileIsLower DEF PhasesLeft

LEMMA ExportIsLower ==
    ASSUME IInv, Export \/ Crash
    PROVE  Lower(ToGo', ToGo)
<1>1. CASE DropBackupEntry \/ CleanupEntry
    BY <1>1, RemovalIsLower DEF DropBackupEntry, CleanupEntry
<1>2. CASE CopyEntry
    BY <1>2, CopyIsLower
<1>3. CASE RestoreBackup \/ NothingToRecover \/ DropBackup
    BY <1>3, PhaseIsLower DEF RestoreBackup, NothingToRecover, DropBackup, BeginCopy, PhasesLeft
<1>4. CASE CopyFails \/ Retain \/ MoveAside
    BY <1>4, PhaseIsLower DEF CopyFails, Retain, MoveAside, PhasesLeft
<1>5. CASE PublishTree \/ PublishFails \/ CleanupDone
    BY <1>5, PhaseIsLower DEF PublishTree, PublishFails, CleanupDone, PhasesLeft
<1>6. CASE RefuseTargets \/ Record \/ BuildEnds
    BY <1>6, PhaseIsLower DEF RefuseTargets, Record, BuildEnds, PhasesLeft
<1>7. CASE Crash
    <2>1. pc \in Labels \ {"idle"} /\ pc' = "idle"
        BY <1>7 DEF Crash, IInv, TypeOK
    <2> QED
        BY <2>1, PhaseIsLower DEF Labels, PhasesLeft
<1> QED
    BY <1>1, <1>2, <1>3, <1>4, <1>5, <1>6, <1>7 DEF Export

(* An export comes to an end whatever a crash left behind: each of its steps, the   *)
(* removal of a backup file by file too, leaves less to do, and an edit of the     *)
(* checkout while it runs does not give it more.                                *)
THEOREM ExportCountsDown ==
    Spec => /\ [](ToGo \in Fours)
            /\ [](PhasesLeft = 0 <=> pc = "idle")
            /\ [][/\ Export \/ Crash => Lower(ToGo', ToGo)
                  /\ pc # "idle" /\ ~Export /\ ~Crash => ToGo' = ToGo]_vars
<1>1. IInv => ToGo \in Fours
    BY FilesLeftType DEF ToGo, Fours
<1>2. IInv => (PhasesLeft = 0 <=> pc = "idle")
    BY DEF IInv, TypeOK, Labels, PhasesLeft
<1>3. IInv /\ [Next]_vars => (Export \/ Crash => Lower(ToGo', ToGo))
    BY ExportIsLower
<1>4. IInv /\ [Next]_vars => (pc # "idle" /\ ~Export /\ ~Crash => ToGo' = ToGo)
    <2>1. CASE Edit \/ UNCHANGED vars
        <3>1. pc' = pc /\ backup' = backup /\ temp' = temp
            BY <2>1 DEF Edit, vars, disk
        <3> QED
            BY <3>1 DEF ToGo, PhasesLeft, FilesLeft
    <2>2. CASE Start
        BY <2>2 DEF Start
    <2> QED
        BY <2>1, <2>2 DEF Next
<1> QED
    BY <1>1, <1>2, <1>3, <1>4, InvariantHolds, PTL DEF Spec
=============================================================================
