-------------------------- MODULE BuildRunnerProofs --------------------------
(***************************************************************************)
(* Proofs about the output transactions of BuildRunner, for any graph of    *)
(* providers, any outputs and any number of edits and interruptions.        *)
(***************************************************************************)
EXTENDS BuildRunner, TLAPS

(* The variables the transactions work on are functions on the outputs, and *)
(* the caches are records.                                                  *)
Record(c) == c = [files |-> c.files, images |-> c.images, outputs |-> c.outputs]
Shape ==
    /\ path = [o \in Outputs |-> path[o]]
    /\ backup = [o \in Outputs |-> backup[o]]
    /\ Record(cache) /\ Record(saved)
    /\ dirty \subseteq Outputs /\ todo \subseteq dirty
    /\ backups \subseteq Outputs

LEMMA ShapeInit == Init => Shape
    BY DEF Init, Shape, Record, EmptyCache

LEMMA NextOutputInTodo == todo # {} => NextOutput \in todo
    BY DEF NextOutput

LEMMA ShapeStep == Shape /\ [Next]_vars => Shape'
<1> SUFFICES ASSUME Shape, [Next]_vars PROVE Shape'
    OBVIOUS
<1> USE DEF Shape, Record, storage, progress, transaction
<1>1. CASE Edit \/ LoseImage
    BY <1>1 DEF Edit, LoseImage
<1>2. CASE Start
    BY <1>2 DEF Start
<1>3. CASE SkipProvider \/ SkipClean
    BY <1>3 DEF SkipProvider, SkipClean
<1>4. CASE HashInputs
    BY <1>4 DEF HashInputs
<1>5. CASE KeepImage \/ StartContainer \/ ContainerSucceeds
    BY <1>5 DEF KeepImage, StartContainer, ContainerSucceeds
<1>6. CASE RebuildImage
    BY <1>6 DEF RebuildImage
<1>7. CASE RebuildImageUnrecorded \/ ImageFails \/ RolledBack \/ Complete \/ Crash
    BY <1>7 DEF RebuildImageUnrecorded, ImageFails, RolledBack, Complete, Crash,
        Leave, EmptyCache
<1>8. CASE SelectDirty
    BY <1>8 DEF SelectDirty, DirtyOutputs, Needed
<1>9. CASE BeginTransaction
    BY <1>9, NextOutputInTodo
    DEF BeginTransaction, RemoveInterrupted, RestoreInterrupted, SetAside, NothingToKeep
<1>10. CASE WriteOutput
    BY <1>10 DEF WriteOutput
<1>11. CASE ContainerFails \/ VerifyOutputs
    BY <1>11 DEF ContainerFails, VerifyOutputs
<1>12. CASE CommitOutput
    BY <1>12 DEF CommitOutput
<1>13. CASE RollbackOutput
    BY <1>13 DEF RollbackOutput
<1>14. CASE RecordOutputs
    BY <1>14 DEF RecordOutputs
<1>15. CASE UNCHANGED vars
    BY <1>15 DEF vars
<1> QED
    BY <1>1, <1>2, <1>3, <1>4, <1>5, <1>6, <1>7, <1>8, <1>9, <1>10, <1>11,
       <1>12, <1>13, <1>14, <1>15 DEF Next, Step

-----------------------------------------------------------------------------
(***************************************************************************)
(* Why no recorded file is lost.  What the transactions preserve of it is   *)
(* whole at every step (PreservedWhole), because while it is being replaced *)
(* its backup exists (BackedUp), because a replacement is whole before a     *)
(* backup is removed (ReplacementWhole), and because an output is recorded   *)
(* only when no older backup is left that would take its place               *)
(* (NoOldBackup).                                                            *)
(***************************************************************************)
Files == Outputs \ Directories
Preserves(o) == saved.outputs[o] # None => IsWhole(Preserved(o))
PreservedWhole == \A o \in Files : Preserves(o)
OneCache == pc # "idle" => cache.outputs = saved.outputs
InTransaction == {"run", "verify", "commit", "rollback"}
BackedUp ==
    \A o \in Files :
        /\ o \in dirty /\ saved.outputs[o] # None /\ pc \in {"run", "verify"} =>
               backup[o] # None
        /\ o \in todo /\ saved.outputs[o] # None /\ pc = "rollback" =>
               backup[o] # None
        /\ o \in dirty /\ backup[o] # None /\ pc \in InTransaction => o \in backups
        /\ o \in dirty \ todo /\ pc = "begin" =>
               path[o] = None /\ (backup[o] # None => o \in backups)
ReplacementWhole ==
    \A o \in dirty :
        /\ pc = "verify" => path[o] # Partial
        /\ pc = "commit" => IsWhole(path[o])
NoOldBackup ==
    \A o \in Files : o \in dirty \ todo /\ pc = "commit" => backup[o] = None
SelectedAll == pc \in {"run", "verify"} => todo = {}

KeptInv ==
    /\ Shape
    /\ PreservedWhole /\ OneCache /\ BackedUp /\ ReplacementWhole /\ NoOldBackup
    /\ SelectedAll

LEMMA KeptInvInit == Init => KeptInv
    BY ShapeInit
    DEF Init, KeptInv, PreservedWhole, Preserves, OneCache, BackedUp,
        ReplacementWhole, NoOldBackup, SelectedAll, EmptyCache, InTransaction, Files

(* A file is removed at once. *)
LEMMA FileRemoval ==
    ASSUME NEW o \in Files, NEW c, NEW r \in Removals(o, c)
    PROVE  r = None
    BY DEF Removals, Files

LEMMA KeptInvStep == KeptInv /\ [Next]_vars => KeptInv'
<1> SUFFICES ASSUME KeptInv, [Next]_vars PROVE KeptInv'
    OBVIOUS
<1>0. Shape'
    BY ShapeStep DEF KeptInv
<1> USE <1>0 DEF KeptInv, PreservedWhole, Preserves, Preserved, OneCache, BackedUp,
        ReplacementWhole, NoOldBackup, SelectedAll, InTransaction, IsWhole, Files,
        storage, progress, transaction
<1>1. CASE Edit \/ LoseImage
    BY <1>1 DEF Edit, LoseImage
<1>2. CASE Start
    BY <1>2 DEF Start
<1>3. CASE SkipProvider \/ SkipClean
    BY <1>3 DEF SkipProvider, SkipClean, NextProvider
<1>4. CASE HashInputs
    BY <1>4 DEF HashInputs, Shape, Record
<1>5. CASE KeepImage
    BY <1>5 DEF KeepImage
<1>6. CASE StartContainer
    BY <1>6 DEF StartContainer
<1>7. CASE ContainerSucceeds
    BY <1>7 DEF ContainerSucceeds
<1>8. CASE RebuildImage
    BY <1>8 DEF RebuildImage, Shape, Record
<1>9. CASE RebuildImageUnrecorded \/ ImageFails \/ RolledBack \/ Complete \/ Crash
    BY <1>9 DEF RebuildImageUnrecorded, ImageFails, RolledBack, Complete, Crash,
        Leave
<1>10. CASE SelectDirty
    BY <1>10 DEF SelectDirty
<1>11. CASE BeginTransaction
    BY <1>11, NextOutputInTodo, FileRemoval
    DEF BeginTransaction, RemoveInterrupted, RestoreInterrupted, SetAside,
        NothingToKeep, Shape
<1>12. CASE WriteOutput
    BY <1>12 DEF WriteOutput, Shape
<1>13. CASE ContainerFails
    BY <1>13 DEF ContainerFails, Shape
<1>14. CASE VerifyOutputs
    BY <1>14 DEF VerifyOutputs, Shape
<1>15. CASE CommitOutput
    BY <1>15, NextOutputInTodo, FileRemoval DEF CommitOutput, Shape
<1>16. CASE RollbackOutput
    BY <1>16, NextOutputInTodo, FileRemoval DEF RollbackOutput, Shape
<1>17. CASE RecordOutputs
    BY <1>17 DEF RecordOutputs, NextProvider, Shape, Record
<1>18. CASE UNCHANGED vars
    BY <1>18 DEF vars
<1> QED
    BY <1>1, <1>2, <1>3, <1>4, <1>5, <1>6, <1>7, <1>8, <1>9, <1>10, <1>11,
       <1>12, <1>13, <1>14, <1>15, <1>16, <1>17, <1>18 DEF Next, Step

LEMMA KeptInvHolds == Spec => []KeptInv
    BY KeptInvInit, KeptInvStep, PTL DEF Spec

(* A recorded file output is never lost to a build that fails, is killed or *)
(* interrupted: it is whole at its path, or as the backup that the next      *)
(* transaction on it restores.                                               *)
THEOREM FilesAreKept == Spec => []FilesKept
<1>1. KeptInv => FilesKept
    BY DEF KeptInv, PreservedWhole, Preserves, Preserved, FilesKept, Kept, Files, IsWhole
<1> QED
    BY <1>1, KeptInvHolds, PTL

(* Whatever a backup preserves, of a file or a directory, is put back as it  *)
(* was unless the transaction commits: no rollback and no recovery after an  *)
(* interruption replaces it by something else.                               *)
LEMMA StepReplaces ==
    Shape /\ [Next]_vars =>
        [\A o \in Outputs :
            backup[o] # None /\ Preserved(o)' # Preserved(o) => pc = "commit"]_vars
<1> SUFFICES ASSUME Shape, Next, NEW o \in Outputs,
                    backup[o] # None, pc # "commit"
             PROVE  Preserved(o)' = Preserved(o)
    OBVIOUS
<1> USE DEF Preserved, storage, progress, transaction
<1>1. CASE BeginTransaction
    BY <1>1 DEF BeginTransaction, RemoveInterrupted, RestoreInterrupted, SetAside,
        NothingToKeep, Shape
<1>2. CASE WriteOutput
    BY <1>2 DEF WriteOutput
<1>3. CASE RollbackOutput
    BY <1>3 DEF RollbackOutput, Shape
<1>4. CASE CommitOutput \/ RecordOutputs
    BY <1>4 DEF CommitOutput, RecordOutputs
<1>5. CASE Edit \/ LoseImage \/ Start \/ SkipProvider \/ SkipClean \/ HashInputs
           \/ KeepImage \/ RebuildImage \/ SelectDirty \/ StartContainer
           \/ ContainerSucceeds \/ ContainerFails \/ VerifyOutputs
    BY <1>5 DEF Edit, LoseImage, Start, SkipProvider, SkipClean, HashInputs,
        KeepImage, RebuildImage, SelectDirty, StartContainer, ContainerSucceeds,
        ContainerFails, VerifyOutputs
<1>6. CASE RebuildImageUnrecorded \/ ImageFails \/ RolledBack \/ Complete \/ Crash
    BY <1>6 DEF RebuildImageUnrecorded, ImageFails, RolledBack, Complete, Crash
<1> QED
    BY <1>1, <1>2, <1>3, <1>4, <1>5, <1>6 DEF Next, Step

THEOREM BackupsAreFaithful == Spec => ReplacedOnlyByCommit
<1>1. Shape /\ [Next]_vars => Shape'
    BY ShapeStep
<1>2. Init => Shape
    BY ShapeInit
<1> QED
    BY <1>1, <1>2, StepReplaces, PTL DEF Spec, ReplacedOnlyByCommit
-----------------------------------------------------------------------------
(***************************************************************************)
(* Why no recorded directory is lost while no build is interrupted, although *)
(* its removal is not one step.  Outside of a transaction there are no       *)
(* backups and every recorded output is whole at its path (Settled); in one   *)
(* it is whole as the backup that the transaction made of it (SetApart),      *)
(* until a replacement that is whole has been verified.                       *)
(***************************************************************************)
Settled(o) == backup[o] = None /\ (saved.outputs[o] # None => IsWhole(path[o]))
SetApart(o) ==
    /\ o \in backups <=> backup[o] # None
    /\ saved.outputs[o] # None => IsWhole(backup[o])
WithTransaction == InTransaction \cup {"begin"}

Unbroken(o) ==
    /\ pc \notin WithTransaction \/ o \notin dirty => Settled(o)
    /\ o \in todo /\ pc = "begin" => Settled(o) /\ o \notin backups
    /\ o \in dirty \ todo /\ pc = "begin" => path[o] = None /\ SetApart(o)
    /\ o \in dirty /\ pc \in {"run", "verify"} => SetApart(o)
    /\ o \in todo /\ pc = "rollback" => SetApart(o)
    /\ o \in dirty \ todo /\ pc = "rollback" => Settled(o)
    /\ o \in todo /\ pc = "commit" => (backup[o] # None => o \in backups)
    /\ o \in dirty \ todo /\ pc = "commit" => backup[o] = None

UnbrokenInv == crashes \in Nat /\ (crashes = 0 => \A o \in Outputs : Unbroken(o))

LEMMA UnbrokenInit == Init => UnbrokenInv
    BY DEF Init, UnbrokenInv, Unbroken, Settled, EmptyCache, WithTransaction, InTransaction

LEMMA UnbrokenStep == KeptInv /\ UnbrokenInv /\ [Next]_vars => UnbrokenInv'
<1> SUFFICES ASSUME KeptInv, UnbrokenInv, [Next]_vars PROVE UnbrokenInv'
    OBVIOUS
<1>0. Shape /\ Shape' /\ SelectedAll /\ ReplacementWhole
    BY ShapeStep DEF KeptInv
<1>a. crashes' \in Nat /\ (crashes' = 0 => crashes = 0 /\ ~RebuildImageUnrecorded /\ ~Crash)
    <2>1. crashes' = crashes \/ (crashes' = crashes + 1)
        BY DEF Next, Step, vars, storage, progress, transaction, Edit, LoseImage, Start,
            SkipProvider, HashInputs, KeepImage, RebuildImage, RebuildImageUnrecorded,
            ImageFails, SkipClean, SelectDirty, BeginTransaction, StartContainer, WriteOutput,
            ContainerSucceeds, ContainerFails, VerifyOutputs, CommitOutput, RollbackOutput,
            RolledBack, RecordOutputs, Complete, Crash
    <2> QED
        BY <2>1 DEF UnbrokenInv, RebuildImageUnrecorded, Crash
<1> SUFFICES ASSUME crashes' = 0, NEW o \in Outputs PROVE Unbroken(o)'
    BY <1>a DEF UnbrokenInv
<1>b. Unbroken(o)
    BY <1>a DEF UnbrokenInv
<1> USE <1>0, <1>b DEF Unbroken, Settled, SetApart, IsWhole, WithTransaction, InTransaction,
        storage, progress, transaction
<1>1. CASE Edit \/ LoseImage \/ Start \/ UNCHANGED vars
    BY <1>1 DEF Edit, LoseImage, Start, vars
<1>2. CASE SkipProvider \/ SkipClean
    BY <1>2 DEF SkipProvider, SkipClean, NextProvider
<1>3. CASE HashInputs \/ KeepImage
    BY <1>3 DEF HashInputs, KeepImage
<1>4. CASE RebuildImage
    BY <1>4 DEF RebuildImage, KeptInv, OneCache, Shape, Record
<1>5. CASE ImageFails \/ RolledBack \/ Complete
    BY <1>5 DEF ImageFails, RolledBack, Complete, Leave
<1>6. CASE SelectDirty
    BY <1>6 DEF SelectDirty
<1>7. CASE BeginTransaction
    BY <1>7, NextOutputInTodo
    DEF BeginTransaction, RemoveInterrupted, RestoreInterrupted, SetAside, NothingToKeep, Shape
<1>8. CASE StartContainer \/ ContainerSucceeds
    BY <1>8 DEF StartContainer, ContainerSucceeds, SelectedAll
<1>9. CASE WriteOutput
    BY <1>9 DEF WriteOutput, SelectedAll, Shape
<1>10. CASE ContainerFails \/ VerifyOutputs
    BY <1>10 DEF ContainerFails, VerifyOutputs
<1>11. CASE CommitOutput
    BY <1>11, NextOutputInTodo DEF CommitOutput, Shape
<1>12. CASE RollbackOutput
    BY <1>12, NextOutputInTodo DEF RollbackOutput, Shape
<1>13. CASE RecordOutputs
    BY <1>13 DEF RecordOutputs, NextProvider, ReplacementWhole, KeptInv, OneCache, Shape, Record
<1> QED
    BY <1>a, <1>1, <1>2, <1>3, <1>4, <1>5, <1>6, <1>7, <1>8, <1>9, <1>10, <1>11, <1>12, <1>13
    DEF Next, Step

LEMMA UnbrokenInvHolds == Spec => []UnbrokenInv
    BY UnbrokenInit, UnbrokenStep, KeptInvHolds, PTL DEF Spec

(* As long as no build is interrupted, no recorded output is lost, directories *)
(* included, however many builds fail: the backup of begin_output_transaction   *)
(* is whole until finish_output_transaction has a verified replacement.        *)
THEOREM OutputsAreKept == Spec => []KeptUnlessInterrupted
<1>1. KeptInv /\ UnbrokenInv => KeptUnlessInterrupted
    <2> SUFFICES ASSUME KeptInv, UnbrokenInv, crashes = 0, NEW o \in Outputs PROVE Kept(o)
        BY DEF KeptUnlessInterrupted, OutputsKept
    <2>1. Unbroken(o) /\ todo \subseteq dirty
        BY DEF UnbrokenInv, KeptInv, Shape
    <2>2. CASE pc = "commit" /\ o \in dirty
        BY <2>2 DEF KeptInv, ReplacementWhole, Kept
    <2>3. CASE ~(pc = "commit" /\ o \in dirty)
        BY <2>1, <2>3 DEF Unbroken, Settled, SetApart, WithTransaction, InTransaction, Kept
    <2> QED
        BY <2>2, <2>3
<1> QED
    BY <1>1, KeptInvHolds, UnbrokenInvHolds, PTL
=============================================================================
