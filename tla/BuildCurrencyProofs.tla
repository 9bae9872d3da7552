------------------------- MODULE BuildCurrencyProofs -------------------------
(***************************************************************************)
(* Proofs about the incremental builds of BuildRunner, for any catalogue:   *)
(* what a successful build leaves is clean, and where no two versions have    *)
(* the same size it is what a build from nothing would leave: of files always,*)
(* of directories as long as no build was interrupted.                        *)
(***************************************************************************)
EXTENDS BuildRunnerProofs, Countdowns, FiniteSetTheorems

(* The providers that the loop of run_build is through with. *)
Handled(p) == \E i \in 1..Len(Order) : Order[i] = p /\ (i < at \/ pc = "built")

Busy == {"image", "select", "begin", "run", "verify", "commit", "rollback"}
AfterImage == Busy \ {"image"}
Transacting == AfterImage \ {"select"}

(* A provider whose outputs and image have nothing left to do. *)
Done(p) ==
    Needed(p) # {} =>
        /\ inputs[p] # None
        /\ p \in Dockerfile => ImageIsCurrent(p)
        /\ \A o \in Needed(p) \cap Outputs : ~IsDirty(o, inputs[p])

ProgressInv ==
    /\ pc = "idle" => at = 1
    /\ \A a \in targets : Uses[a] \subseteq targets
    /\ \A p \in Providers : Handled(p) => Done(p)
    /\ pc \in Busy => Needed(Current) # {} /\ inputs[Current] # None
    /\ pc = "image" => Current \in Dockerfile
    /\ pc \in AfterImage /\ Current \in Dockerfile => ImageIsCurrent(Current)
    /\ pc \in Transacting =>
        /\ dirty \subseteq Needed(Current) \cap Outputs
        /\ \A o \in (Needed(Current) \cap Outputs) \ dirty : ~IsDirty(o, inputs[Current])
    /\ pc = "commit" => \A o \in dirty : path[o] # None

TypeInv == Shape /\ TypeOK /\ ProgressInv
-----------------------------------------------------------------------------
LEMMA OrderFacts ==
    /\ Len(Order) \in Nat \ {0}
    /\ \A i \in 1..Len(Order) : Order[i] \in Providers
    /\ \A i, j \in 1..Len(Order) : Order[i] = Order[j] => i = j
    /\ \A p \in Providers : \E i \in 1..Len(Order) : Order[i] = p
    BY GraphAssumption, OrderAssumption DEF Providers

LEMMA CurrentFacts ==
    ASSUME TypeOK, pc # "built"
    PROVE  Current \in Providers /\ ~Handled(Current)
    BY OrderFacts DEF TypeOK, Current, Handled

(* What an output of a handled provider requires, a handled provider makes. *)
LEMMA HandledBefore ==
    ASSUME TypeOK, NEW o \in Outputs, Handled(ProviderOf[o]), NEW r \in OutputRequires[o]
    PROVE  r \in Outputs /\ Handled(ProviderOf[r])
<1>1. r \in Outputs /\ ProviderOf[r] \in Providers
    BY GraphAssumption DEF Artefacts
<1>2. PICK j \in 1..Len(Order) : Order[j] = ProviderOf[o] /\ (j < at \/ pc = "built")
    BY DEF Handled
<1>3. PICK i \in 1..Len(Order) : Order[i] = ProviderOf[r]
    BY <1>1, OrderFacts
<1>4. i < j
    BY <1>2, <1>3, OrderAssumption
<1> QED
    BY <1>1, <1>2, <1>3, <1>4, OrderFacts DEF Handled, TypeOK

(* Whatever the current provider requires, the loop is through with. *)
LEMMA RequiredBefore ==
    ASSUME TypeOK, pc \notin {"idle", "built"}, \A a \in targets : Uses[a] \subseteq targets,
           Needed(Current) # {}
    PROVE  /\ \A a \in Requires[Current] \cup BuildRequires[Current] :
                /\ a \in Artefacts /\ Handled(ProviderOf[a]) /\ a \in Needed(ProviderOf[a])
           /\ \A o \in Needed(Current) \cap Outputs : \A r \in OutputRequires[o] :
                /\ r \in Outputs /\ Handled(ProviderOf[r]) /\ r \in Needed(ProviderOf[r])
           /\ \/ RunsOn[Current] = Current /\ Current \in Dockerfile
              \/ /\ RunsOn[Current] \in Dockerfile /\ Handled(RunsOn[Current])
                 /\ Needed(RunsOn[Current]) # {}
                 /\ \E i \in Requires[Current] \cap Images : RunsOn[Current] = ProviderOf[i]
<1>1. /\ Current = Order[at] /\ at \in 1..Len(Order) /\ Current \in Providers
      /\ targets \subseteq Artefacts
    BY CurrentFacts DEF TypeOK, Current
<1>2. ASSUME NEW a \in Artefacts, a \in targets,
             \A i \in 1..Len(Order) : ProviderOf[a] = Order[i] => i < at
      PROVE  Handled(ProviderOf[a]) /\ a \in Needed(ProviderOf[a])
    <2>1. ProviderOf[a] \in Providers
        BY GraphAssumption
    <2>2. PICK i \in 1..Len(Order) : Order[i] = ProviderOf[a]
        BY <2>1, OrderFacts
    <2> QED
        BY <1>2, <2>2 DEF Handled, Needed
<1>3. ASSUME NEW a \in Requires[Current] \cup BuildRequires[Current]
      PROVE  a \in Artefacts /\ Handled(ProviderOf[a]) /\ a \in Needed(ProviderOf[a])
    <2>1. a \in Artefacts
        BY <1>1, GraphAssumption DEF Artefacts
    <2>2. PICK b \in targets : ProviderOf[b] = Current
        BY DEF Needed
    <2>3. a \in targets
        BY <1>1, <2>2 DEF Uses
    <2>4. \A i \in 1..Len(Order) : ProviderOf[a] = Order[i] => i < at
        BY <1>1, OrderAssumption
    <2> QED
        BY <1>2, <2>1, <2>3, <2>4
<1>4. ASSUME NEW o \in Needed(Current) \cap Outputs, NEW r \in OutputRequires[o]
      PROVE  r \in Outputs /\ Handled(ProviderOf[r]) /\ r \in Needed(ProviderOf[r])
    <2>1. r \in Outputs /\ r \in Artefacts
        BY GraphAssumption DEF Artefacts
    <2>2. o \in targets /\ ProviderOf[o] = Current
        BY DEF Needed
    <2>3. r \in targets
        BY <1>1, <2>2 DEF Uses
    <2>4. \A i \in 1..Len(Order) : ProviderOf[r] = Order[i] => i < at
        BY <1>1, <2>1, <2>2, OrderAssumption
    <2> QED
        BY <1>2, <2>1, <2>3, <2>4
<1>5. \/ RunsOn[Current] = Current /\ Current \in Dockerfile
      \/ /\ RunsOn[Current] \in Dockerfile /\ Handled(RunsOn[Current])
         /\ Needed(RunsOn[Current]) # {}
         /\ \E i \in Requires[Current] \cap Images : RunsOn[Current] = ProviderOf[i]
    <2>1. CASE RunsOn[Current] = Current /\ Current \in Dockerfile
        BY <2>1
    <2>2. ASSUME NEW i \in Requires[Current] \cap Images, RunsOn[Current] = ProviderOf[i]
          PROVE  /\ RunsOn[Current] \in Dockerfile /\ Handled(RunsOn[Current])
                 /\ Needed(RunsOn[Current]) # {}
        BY <1>3, <2>2, OrderAssumption
    <2> QED
        BY <1>1, <2>1, <2>2, OrderAssumption
<1> QED
    BY <1>3, <1>4, <1>5

(* What is done stays done while a step touches only what is not handled.   *)
LEMMA DoneStays ==
    ASSUME TypeOK, NEW p \in Providers, Handled(p), Done(p), targets' = targets,
           \A q : Handled(q) => /\ inputs'[q] = inputs[q] /\ image'[q] = image[q]
                                /\ cache'.images[q] = cache.images[q],
           \A o \in Outputs : Handled(ProviderOf[o]) =>
               path'[o] = path[o] /\ cache'.outputs[o] = cache.outputs[o]
    PROVE  Done(p)'
<1>1. Needed(p)' = Needed(p)
    BY DEF Needed
<1>2. p \in Dockerfile /\ ImageIsCurrent(p) => ImageIsCurrent(p)'
    BY DEF ImageIsCurrent
<1>3. ASSUME NEW o \in Needed(p) \cap Outputs, ~IsDirty(o, inputs[p])
      PROVE  ~IsDirty(o, inputs[p])'
    <2>1. ProviderOf[o] = p
        BY DEF Needed
    <2>2. \A r \in OutputRequires[o] : path'[r] = path[r] /\ cache'.outputs[r] = cache.outputs[r]
        BY <2>1, HandledBefore
    <2>3. OutputInputs(o, inputs[p])' = OutputInputs(o, inputs[p])
        BY <2>2 DEF OutputInputs
    <2> QED
        BY <1>3, <2>1, <2>3 DEF IsDirty
<1> QED
    BY <1>1, <1>2, <1>3 DEF Done

-----------------------------------------------------------------------------
(* Closure(into, T) lies in the domain of into and is closed under it.      *)
LEMMA ClosureIsClosed ==
    ASSUME NEW into, \A y \in DOMAIN into : into[y] \subseteq DOMAIN into, NEW T
    PROVE  /\ Closure(into, T) \subseteq DOMAIN into
           /\ \A y \in Closure(into, T) : into[y] \subseteq Closure(into, T)
    BY DEF Closure

LEMMA StartedTargets ==
    ASSUME NEW T
    PROVE  /\ Closure(Uses, T) \subseteq Artefacts
           /\ \A a \in Closure(Uses, T) : Uses[a] \subseteq Closure(Uses, T)
<1>1. DOMAIN Uses = Artefacts /\ \A a \in Artefacts : Uses[a] \subseteq Artefacts
    BY GraphAssumption DEF Uses, Artefacts
<1> QED
    BY <1>1, ClosureIsClosed

(* Everything the current provider needs is there: it is done.              *)
LEMMA RequiredDone ==
    ASSUME TypeInv, pc \notin {"idle", "built"}, Needed(Current) # {}
    PROVE  /\ \A a \in (Requires[Current] \cup BuildRequires[Current]) \cap Outputs :
                path[a] \in Origins /\ cache.outputs[a] \in [input : Origins, hash : Origins]
           /\ \A a \in Requires[Current] \cap Images :
                /\ ProviderOf[a] \in Providers
                /\ inputs[ProviderOf[a]] \in Origins /\ image[ProviderOf[a]] \in Origins
           /\ \A o \in Needed(Current) \cap Outputs : \A r \in OutputRequires[o] :
                /\ r \in Outputs /\ path[r] \in Origins
                /\ cache.outputs[r] \in [input : Origins, hash : Origins]
           /\ RunsOn[Current] # Current => image[RunsOn[Current]] \in Origins
<1>0. TypeOK /\ \A a \in targets : Uses[a] \subseteq targets
    BY DEF TypeInv, ProgressInv
<1>1. ASSUME NEW o \in Outputs, Handled(ProviderOf[o]), o \in Needed(ProviderOf[o])
      PROVE  path[o] \in Origins /\ cache.outputs[o] \in [input : Origins, hash : Origins]
    <2>1. Done(ProviderOf[o])
        BY <1>1, GraphAssumption DEF TypeInv, ProgressInv, Artefacts
    <2>2. ~IsDirty(o, inputs[ProviderOf[o]])
        BY <1>1, <2>1 DEF Done
    <2> QED
        BY <2>2, <1>0 DEF IsDirty, TypeOK, Caches
<1>2. ASSUME NEW p \in Dockerfile, Handled(p), Needed(p) # {}
      PROVE  inputs[p] \in Origins /\ image[p] \in Origins
    <2>1. p \in Providers
        BY GraphAssumption
    <2>2. Done(p)
        BY <1>2, <2>1 DEF TypeInv, ProgressInv
    <2> QED
        BY <1>0, <1>2, <2>1, <2>2 DEF Done, ImageIsCurrent, TypeOK
<1>3. \A a \in Requires[Current] \cap Images :
        ProviderOf[a] \in Providers /\ ProviderOf[a] \in Dockerfile
    BY GraphAssumption, OrderAssumption DEF Artefacts
<1> QED
    BY <1>0, <1>1, <1>2, <1>3, RequiredBefore

(* What the steps compute of the inputs are hashes. *)
LEMMA HashesAreOrigins ==
    ASSUME TypeInv, pc = "hash", Needed(Current) # {}
    PROVE  FileHash(Current) \in Versions /\ PathInputs(Current) \in Origins
<1>1. Current \in Providers /\ cache.files[Current] \in Versions \cup {None}
      /\ source[Current] \in Versions
    BY CurrentFacts DEF TypeInv, TypeOK, Caches
<1>2. FileHash(Current) \in Versions
    BY <1>1, VersionAssumption DEF FileHash
<1>3. \A a \in Requires[Current] : a \in Artefacts
    BY <1>1, GraphAssumption
<1>4. \A a \in Requires[Current] : DependencyHash(a) \in Origins
    BY <1>3, RequiredDone DEF DependencyHash, Artefacts
<1>5. \A r \in BuildRequires[Current] : path[r] \in Origins
    BY <1>1, GraphAssumption, RequiredDone
<1> QED
    BY <1>1, <1>2, <1>4, <1>5 DEF PathInputs, Origins

LEMMA ImagesAreOrigins ==
    ASSUME TypeInv, pc = "image", NEW i \in ImageResults(Current)
    PROVE  i \in Origins /\ LayerKey(Current) \in Origins
<1>1. /\ Current \in Providers /\ Needed(Current) # {}
      /\ source[Current] \in Versions /\ layers[Current] \in SUBSET (Origins \X Origins)
    BY CurrentFacts DEF TypeInv, TypeOK, ProgressInv, Busy
<1>2. \A a \in Requires[Current] \cap Images : image[ProviderOf[a]] \in Origins
    BY <1>1, RequiredDone
<1>3. LayerKey(Current) \in Origins
    BY <1>1, <1>2 DEF LayerKey, Origins
<1>4. \A r \in BuildRequires[Current] : path[r] \in Origins
    BY <1>1, GraphAssumption, RequiredDone
<1>5. BuiltImage(Current) \in Origins
    BY <1>3, <1>4 DEF BuiltImage, Origins
<1> QED
    BY <1>1, <1>3, <1>5 DEF ImageResults

LEMMA ProductsAreOrigins ==
    ASSUME TypeInv, pc = "run", NEW o \in dirty
    PROVE  Product(o) \in Origins
<1>1. /\ Current \in Providers /\ Needed(Current) # {} /\ source[Current] \in Versions
      /\ o \in Needed(Current) \cap Outputs /\ ProviderOf[o] = Current
    BY CurrentFacts DEF TypeInv, TypeOK, ProgressInv, Busy, AfterImage, Transacting, Needed
<1>2. image[RunsOn[Current]] \in Origins
    <2>1. CASE RunsOn[Current] # Current
        BY <1>1, <2>1, RequiredDone
    <2>2. CASE RunsOn[Current] = Current
        <3>1. Current \in Dockerfile
            BY <1>1, <2>2, RequiredBefore DEF TypeInv, ProgressInv
        <3>2. ImageIsCurrent(Current)
            BY <3>1 DEF TypeInv, ProgressInv, Busy, AfterImage
        <3> QED
            BY <1>1, <2>2, <3>2 DEF TypeInv, TypeOK, ImageIsCurrent
    <2> QED
        BY <2>1, <2>2
<1>3. \A r \in (Requires[Current] \cap Outputs) \cup BuildRequires[Current]
                  \cup OutputRequires[o] : path[r] \in Origins
    BY <1>1, GraphAssumption, RequiredDone
<1> QED
    BY <1>1, <1>2, <1>3 DEF Product, Origins

LEMMA EntriesAreTyped ==
    ASSUME TypeInv, pc = "commit", NEW o \in dirty
    PROVE  /\ OutputEntry(o, inputs[Current]) \in [input : Origins, hash : Origins]
           /\ OutputEntry(o, inputs[Current]) # None
<1>1. /\ Current \in Providers /\ Needed(Current) # {} /\ inputs[Current] \in Origins
      /\ o \in Needed(Current) \cap Outputs /\ path[o] \in Origins
    BY CurrentFacts DEF TypeInv, TypeOK, ProgressInv, Busy, AfterImage, Transacting
<1>2. \A r \in OutputRequires[o] :
        /\ path[r] \in Origins
        /\ cache.outputs[r] \in [input : Origins, hash : Origins]
    BY <1>1, RequiredDone
<1>3. \A r \in OutputRequires[o] :
        (IF r \in Directories THEN cache.outputs[r].hash ELSE path[r]) \in Origins
    BY <1>2
<1>4. OutputInputs(o, inputs[Current]) \in Origins
    BY <1>1, <1>3 DEF OutputInputs, Origins
<1>5. OutputEntry(o, inputs[Current]) \in [input : Origins, hash : Origins]
    BY <1>1, <1>4 DEF OutputEntry
<1> QED
    BY <1>5, NoneAssumption DEF Origins
-----------------------------------------------------------------------------
LEMMA TypeInit == Init => TypeInv
<1> SUFFICES ASSUME Init PROVE TypeInv
    OBVIOUS
<1>1. EmptyCache \in Caches
    BY DEF EmptyCache, Caches
<1>2. 1 \in 1..Len(Order)
    BY OrderFacts
<1>3. TypeOK
    <2>1. /\ path \in [Outputs -> {None} \cup Origins]
          /\ backup \in [Outputs -> {None} \cup Origins]
          /\ image \in [Providers -> {None} \cup Origins]
          /\ inputs \in [Providers -> {None} \cup Origins]
          /\ layers \in [Providers -> SUBSET (Origins \X Origins)]
        BY DEF Init
    <2>2. edits \in 0..MaxEdits /\ crashes \in 0..MaxCrashes
        BY BoundAssumption DEF Init
    <2> QED
        BY <1>1, <1>2, <2>1, <2>2 DEF Init, TypeOK, Labels
<1>4. ProgressInv
    BY DEF Init, ProgressInv, Handled, Busy, AfterImage, Transacting
<1> QED
    BY <1>3, <1>4, ShapeInit DEF TypeInv

(* The loop stays within the order. *)
LEMMA NextProviderTyped ==
    ASSUME TypeOK, NextProvider
    PROVE  pc' \in Labels /\ at' \in 1..Len(Order)
    BY OrderFacts DEF TypeOK, NextProvider, Labels

LEMMA TypeStep == TypeInv /\ [Next]_vars => TypeOK'
<1> SUFFICES ASSUME TypeInv, [Next]_vars PROVE TypeOK'
    OBVIOUS
<1>0. TypeOK /\ Shape /\ dirty \subseteq Outputs /\ todo \subseteq Outputs
    BY DEF TypeInv, TypeOK
<1>a. EmptyCache \in Caches
    BY DEF EmptyCache, Caches
<1>b. Len(Order) \in Nat \ {0} /\ MaxEdits \in Nat /\ MaxCrashes \in Nat
    BY OrderFacts, BoundAssumption
<1>c. \A o, c : c \in {None} \cup Origins => Removals(o, c) \subseteq {None} \cup Origins
    BY DEF Removals, Partial, Origins
<1> USE DEF storage, progress, transaction
<1>1. CASE Edit \/ LoseImage
    BY <1>0, <1>1, <1>b DEF Edit, LoseImage, TypeOK
<1>2. CASE Start
    <2>1. targets' \in SUBSET Artefacts
        BY <1>2, StartedTargets DEF Start
    <2> QED
        BY <1>0, <1>2, <1>b, <2>1 DEF Start, TypeOK, Labels
<1>3. CASE SkipProvider \/ SkipClean
    BY <1>0, <1>3, NextProviderTyped DEF SkipProvider, SkipClean, TypeOK
<1>4. CASE HashInputs
    <2>1. /\ Current \in Providers
          /\ FileHash(Current) \in Versions /\ PathInputs(Current) \in Origins
        BY <1>0, <1>4, CurrentFacts, HashesAreOrigins DEF HashInputs
    <2>2. inputs' \in [Providers -> {None} \cup Origins]
        BY <1>0, <1>4, <2>1 DEF HashInputs, TypeOK
    <2>3. cache' \in Caches
        BY <1>0, <1>4, <2>1 DEF HashInputs, TypeOK, Caches
    <2> QED
        BY <1>0, <1>4, <2>2, <2>3 DEF HashInputs, TypeOK, Labels
<1>5. CASE KeepImage \/ StartContainer
    BY <1>0, <1>5 DEF KeepImage, StartContainer, TypeOK, Labels
<1>6. ASSUME pc = "image", BuildImage
      PROVE  /\ image' \in [Providers -> {None} \cup Origins]
             /\ layers' \in [Providers -> SUBSET (Origins \X Origins)]
             /\ image'[Current] \in Origins
    <2>1. Current \in Providers
        BY <1>0, <1>6, CurrentFacts
    <2>2. PICK i \in ImageResults(Current) :
            /\ image' = [image EXCEPT ![Current] = i]
            /\ layers' = [layers EXCEPT ![Current] = @ \cup {<<LayerKey(Current), i>>}]
        BY <1>6 DEF BuildImage
    <2>3. i \in Origins /\ LayerKey(Current) \in Origins
        BY <1>6, ImagesAreOrigins
    <2> QED
        BY <1>0, <2>1, <2>2, <2>3 DEF TypeOK
<1>7. CASE RebuildImage
    <2>1. /\ image' \in [Providers -> {None} \cup Origins]
          /\ layers' \in [Providers -> SUBSET (Origins \X Origins)]
          /\ image'[Current] \in Origins
          /\ Current \in Providers /\ inputs[Current] \in Origins
        BY <1>0, <1>6, <1>7, CurrentFacts
        DEF RebuildImage, TypeInv, ProgressInv, Busy, TypeOK
    <2>2. {e \in cache.images[Current] : e[1] # image'[Current]}
            \cup {<<image'[Current], inputs[Current]>>} \in SUBSET (Origins \X Origins)
        BY <1>0, <2>1 DEF TypeOK, Caches
    <2>3. cache' \in Caches
        BY <1>0, <1>7, <2>1, <2>2 DEF RebuildImage, TypeOK, Caches
    <2> QED
        BY <1>0, <1>7, <2>1, <2>3 DEF RebuildImage, TypeOK, Labels
<1>8. ASSUME Leave
      PROVE  /\ pc' \in Labels /\ cache' \in Caches /\ targets' \in SUBSET Artefacts
             /\ force' \in BOOLEAN /\ at' \in 1..Len(Order)
             /\ inputs' \in [Providers -> {None} \cup Origins]
             /\ dirty' \in SUBSET Outputs /\ todo' \in SUBSET Outputs
             /\ backups' \in SUBSET Outputs
    <2>1. 1 \in 1..Len(Order)
        BY <1>b
    <2> QED
        BY <1>8, <1>a, <2>1 DEF Leave, Labels
<1>9. CASE RebuildImageUnrecorded
    BY <1>0, <1>6, <1>8, <1>9, <1>b DEF RebuildImageUnrecorded, TypeOK
<1>10. CASE ImageFails \/ RolledBack \/ Complete \/ Crash
    BY <1>0, <1>8, <1>10, <1>b DEF ImageFails, RolledBack, Complete, Crash, TypeOK
<1>11. CASE SelectDirty
    BY <1>0, <1>11 DEF SelectDirty, DirtyOutputs, Needed, TypeOK, Labels
<1>12. CASE BeginTransaction
    <2> DEFINE o == NextOutput
    <2>1. o \in Outputs
        BY <1>0, <1>12, NextOutputInTodo DEF BeginTransaction
    <2>2. path[o] \in {None} \cup Origins /\ backup[o] \in {None} \cup Origins
        BY <1>0, <2>1 DEF TypeOK
    <2> HIDE DEF o
    <2>3. path' \in [Outputs -> {None} \cup Origins]
          /\ backup' \in [Outputs -> {None} \cup Origins]
          /\ todo' \in SUBSET Outputs /\ backups' \in SUBSET Outputs /\ dirty' = dirty
        <3>1. CASE RemoveInterrupted(o)
            BY <1>0, <1>c, <2>1, <2>2, <3>1 DEF RemoveInterrupted, TypeOK
        <3>2. CASE RestoreInterrupted(o)
            BY <1>0, <2>1, <2>2, <3>2 DEF RestoreInterrupted, TypeOK
        <3>3. CASE SetAside(o) \/ NothingToKeep(o)
            BY <1>0, <2>1, <2>2, <3>3 DEF SetAside, NothingToKeep, TypeOK
        <3> QED
            BY <1>12, <3>1, <3>2, <3>3 DEF BeginTransaction, o
    <2> QED
        BY <1>0, <1>12, <2>3 DEF BeginTransaction, TypeOK
<1>13. CASE WriteOutput
    <2>1. \A o \in dirty : Product(o) \in Origins
        BY <1>13, ProductsAreOrigins DEF WriteOutput
    <2>2. path' \in [Outputs -> {None} \cup Origins]
        BY <1>0, <1>13, <2>1 DEF WriteOutput, TypeOK, Partial, Origins
    <2> QED
        BY <1>0, <1>13, <2>2 DEF WriteOutput, TypeOK
<1>14. CASE ContainerSucceeds \/ ContainerFails \/ VerifyOutputs
    BY <1>0, <1>14 DEF ContainerSucceeds, ContainerFails, VerifyOutputs, TypeOK, Labels
<1>15. CASE CommitOutput
    <2> DEFINE o == NextOutput
    <2>1. o \in Outputs
        BY <1>0, <1>15, NextOutputInTodo DEF CommitOutput
    <2>2. backup[o] \in {None} \cup Origins
        BY <1>0, <2>1 DEF TypeOK
    <2>3. backup' \in [Outputs -> {None} \cup Origins] /\ todo' \in SUBSET Outputs
        BY <1>0, <1>15, <1>c, <2>1, <2>2 DEF CommitOutput, TypeOK
    <2> QED
        BY <1>0, <1>15, <2>3 DEF CommitOutput, TypeOK
<1>16. CASE RollbackOutput
    <2> DEFINE o == NextOutput
    <2>1. o \in Outputs
        BY <1>0, <1>16, NextOutputInTodo DEF RollbackOutput
    <2>2. path[o] \in {None} \cup Origins /\ backup[o] \in {None} \cup Origins
        BY <1>0, <2>1 DEF TypeOK
    <2>3. path' \in [Outputs -> {None} \cup Origins]
          /\ backup' \in [Outputs -> {None} \cup Origins] /\ todo' \in SUBSET Outputs
        BY <1>0, <1>16, <1>c, <2>1, <2>2 DEF RollbackOutput, TypeOK
    <2> QED
        BY <1>0, <1>16, <2>3 DEF RollbackOutput, TypeOK
<1>17. CASE RecordOutputs
    <2>1. \A o \in dirty : OutputEntry(o, inputs[Current]) \in [input : Origins, hash : Origins]
        BY <1>17, EntriesAreTyped DEF RecordOutputs
    <2>2. [o \in Outputs |-> IF o \in dirty THEN OutputEntry(o, inputs[Current])
                                            ELSE cache.outputs[o]]
            \in [Outputs -> [input : Origins, hash : Origins] \cup {None}]
        BY <1>0, <2>1 DEF TypeOK, Caches
    <2>3. cache' \in Caches
        BY <1>0, <1>17, <2>2 DEF RecordOutputs, TypeOK, Caches
    <2>4. pc' \in Labels /\ at' \in 1..Len(Order)
        BY <1>0, <1>17, NextProviderTyped DEF RecordOutputs
    <2> QED
        BY <1>0, <1>17, <2>3, <2>4 DEF RecordOutputs, TypeOK
<1>18. CASE UNCHANGED vars
    BY <1>0, <1>18 DEF vars, TypeOK
<1> QED
    BY <1>1, <1>2, <1>3, <1>4, <1>5, <1>7, <1>9, <1>10, <1>11, <1>12, <1>13,
       <1>14, <1>15, <1>16, <1>17, <1>18 DEF Next, Step
-----------------------------------------------------------------------------
(* A step that touches only the current provider leaves the handled done.   *)
LEMMA HandledStayDone ==
    ASSUME TypeInv, pc \notin {"idle", "built"}, targets' = targets,
           \A q \in Providers \ {Current} :
               /\ inputs'[q] = inputs[q] /\ image'[q] = image[q]
               /\ cache'.images[q] = cache.images[q],
           \A o \in Outputs : ProviderOf[o] # Current =>
               path'[o] = path[o] /\ cache'.outputs[o] = cache.outputs[o]
    PROVE  \A p \in Providers : Handled(p) => Done(p)'
<1>1. TypeOK /\ ~Handled(Current) /\ \A p \in Providers : Handled(p) => Done(p)
    BY CurrentFacts DEF TypeInv, ProgressInv
<1>2. \A q : Handled(q) => q \in Providers
    BY OrderFacts DEF Handled
<1>3. \A q : Handled(q) => /\ inputs'[q] = inputs[q] /\ image'[q] = image[q]
                           /\ cache'.images[q] = cache.images[q]
    BY <1>1, <1>2
<1>4. \A o \in Outputs : Handled(ProviderOf[o]) =>
        path'[o] = path[o] /\ cache'.outputs[o] = cache.outputs[o]
    BY <1>1
<1> QED
    BY <1>1, <1>3, <1>4, DoneStays

LEMMA HandledWithin ==
    ASSUME at' = at, pc \notin {"built"}, pc' # "built", NEW p, Handled(p)'
    PROVE  Handled(p)
    BY DEF Handled

LEMMA HandledNext ==
    ASSUME TypeOK, NextProvider, NEW p, Handled(p)'
    PROVE  (Handled(p) \/ p = Current) /\ pc' \in {"hash", "built"}
    BY OrderFacts DEF TypeOK, NextProvider, Handled, Current

(* An output of the current provider stays clean while its inputs do.       *)
LEMMA CleanStays ==
    ASSUME TypeInv, pc \notin {"idle", "built"}, Needed(Current) # {},
           NEW o \in Needed(Current) \cap Outputs, NEW base, ~IsDirty(o, base),
           path'[o] = path[o], cache'.outputs[o] = cache.outputs[o],
           \A r \in Outputs : ProviderOf[r] # Current =>
               path'[r] = path[r] /\ cache'.outputs[r] = cache.outputs[r]
    PROVE  /\ path[o] # None /\ cache.outputs[o] # None
           /\ cache.outputs[o].input = OutputInputs(o, base)
           /\ path'[o] # None /\ cache'.outputs[o] # None
           /\ cache'.outputs[o].input =
                base \cup UNION {IF r \in Directories THEN cache'.outputs[r].hash
                                                      ELSE path'[r] : r \in OutputRequires[o]}
           /\ o \notin Directories => cache'.outputs[o].hash = path'[o]
<1>1. \A r \in OutputRequires[o] : r \in Outputs /\ ProviderOf[r] # Current
    BY CurrentFacts, RequiredBefore DEF TypeInv, ProgressInv
<1>2. \A r \in OutputRequires[o] :
        path'[r] = path[r] /\ cache'.outputs[r] = cache.outputs[r]
    BY <1>1
<1> QED
    BY <1>2 DEF IsDirty, OutputInputs

(* A step within the transaction that touches dirty outputs only. *)
LEMMA TransactionStays ==
    ASSUME TypeInv, pc \in Transacting, pc' \in Transacting,
           UNCHANGED <<image, cache, targets, at, inputs, dirty>>,
           \A o \in Outputs \ dirty : path'[o] = path[o],
           pc' = "commit" => \A o \in dirty : path'[o] # None
    PROVE  ProgressInv'
<1>1. /\ pc \notin {"idle", "built"} /\ pc' \notin {"idle", "built"}
      /\ pc \in Busy /\ pc \in AfterImage
      /\ Needed(Current) # {} /\ inputs[Current] # None
      /\ dirty \subseteq Needed(Current) \cap Outputs
    BY DEF Transacting, AfterImage, Busy, TypeInv, ProgressInv
<1>2. Current' = Current /\ Needed(Current)' = Needed(Current)
    BY DEF Current, Needed
<1>3. \A o \in Outputs : ProviderOf[o] # Current =>
        path'[o] = path[o] /\ cache'.outputs[o] = cache.outputs[o]
    BY <1>1 DEF Needed
<1>4. \A p \in Providers : Handled(p)' => Done(p)'
    BY <1>1, <1>3, HandledStayDone, HandledWithin
<1>5. \A o \in (Needed(Current) \cap Outputs) \ dirty : ~IsDirty(o, inputs[Current])'
    <2> TAKE o \in (Needed(Current) \cap Outputs) \ dirty
    <2>1. ~IsDirty(o, inputs[Current])
        BY DEF TypeInv, ProgressInv
    <2>2. path'[o] = path[o]
        OBVIOUS
    <2> QED
        BY <1>1, <1>2, <1>3, <2>1, <2>2, CleanStays DEF IsDirty, OutputInputs
<1>6. Current \in Dockerfile => ImageIsCurrent(Current)'
    BY <1>1, <1>2 DEF TypeInv, ProgressInv, ImageIsCurrent
<1>7. \A a \in targets : Uses[a] \subseteq targets
    BY <1>1 DEF TypeInv, ProgressInv
<1> QED
    BY <1>1, <1>2, <1>4, <1>5, <1>6, <1>7 DEF ProgressInv, Transacting, AfterImage, Busy

(* The loop leaves a provider that is done. *)
LEMMA LeavesDone ==
    ASSUME TypeInv, pc \notin {"idle", "built"}, NextProvider,
           targets' = targets, NEW c, c = Current, Done(c)',
           \A q \in Providers : Handled(q) => Done(q)'
    PROVE  ProgressInv'
<1>1. TypeOK /\ \A a \in targets : Uses[a] \subseteq targets
    BY DEF TypeInv, ProgressInv
<1>2. pc' \in {"hash", "built"}
    BY DEF NextProvider
<1>3. ASSUME NEW p \in Providers, Handled(p)'
      PROVE  Done(p)'
    <2>1. Handled(p) \/ p = c
        BY <1>1, <1>3, HandledNext
    <2> QED
        BY <2>1
<1> QED
    BY <1>1, <1>2, <1>3 DEF ProgressInv, Busy, AfterImage, Transacting

LEMMA ProgressStep == TypeInv /\ [Next]_vars => ProgressInv'
<1> SUFFICES ASSUME TypeInv, [Next]_vars PROVE ProgressInv'
    OBVIOUS
<1>0. /\ TypeOK /\ TypeOK' /\ ProgressInv
      /\ \A a \in targets : Uses[a] \subseteq targets
    <2>1. TypeOK /\ TypeOK' /\ ProgressInv
        BY TypeStep DEF TypeInv
    <2> QED
        BY <2>1 DEF ProgressInv
<1> USE DEF storage, progress, transaction
<1>1. CASE Edit \/ LoseImage
    BY <1>0, <1>1
    DEF Edit, LoseImage, ProgressInv, Handled, Busy, AfterImage, Transacting, TypeOK
<1>2. CASE Start
    <2>1. \A a \in targets' : Uses[a] \subseteq targets'
        BY <1>2, StartedTargets DEF Start
    <2>2. pc' = "hash" /\ at' = 1
        BY <1>2 DEF Start
    <2> QED
        BY <2>1, <2>2 DEF ProgressInv, Handled, Busy, AfterImage, Transacting
<1>3. CASE RebuildImageUnrecorded \/ ImageFails \/ RolledBack \/ Complete \/ Crash
    <2>1. pc' = "idle" /\ at' = 1 /\ targets' = {}
        BY <1>3 DEF RebuildImageUnrecorded, ImageFails, RolledBack, Complete, Crash, Leave
    <2> QED
        BY <2>1 DEF ProgressInv, Handled, Busy, AfterImage, Transacting
<1>4. CASE SkipProvider
    <2> PICK c : c = Current
        OBVIOUS
    <2>1. Done(c)'
        BY <1>4 DEF SkipProvider, Done, Needed
    <2>2. \A q \in Providers : Handled(q) => Done(q)'
        BY <1>4, HandledStayDone DEF SkipProvider
    <2> QED
        BY <1>4, <2>1, <2>2, LeavesDone DEF SkipProvider
<1>5. CASE HashInputs
    <2>1. /\ Current \in Providers /\ Needed(Current) # {} /\ pc = "hash"
          /\ PathInputs(Current) # None
        BY <1>0, <1>5, CurrentFacts, HashesAreOrigins, NoneAssumption
        DEF HashInputs, Origins
    <2>2. \A q \in Providers : Handled(q) => Done(q)'
        BY <1>5, <2>1, HandledStayDone DEF HashInputs
    <2>3. \A q \in Providers : Handled(q)' => Done(q)'
        BY <1>5, <2>2, HandledWithin DEF HashInputs
    <2>4. /\ pc' = IF Current \in Dockerfile THEN "image" ELSE "select"
          /\ Current' = Current /\ Needed(Current)' = Needed(Current)
          /\ inputs'[Current] # None
        BY <1>0, <1>5, <2>1 DEF HashInputs, Current, Needed, TypeOK
    <2>5. UNCHANGED targets
        BY <1>5 DEF HashInputs
    <2> QED
        BY <1>0, <2>1, <2>3, <2>4, <2>5 DEF ProgressInv, Busy, AfterImage, Transacting
<1>6. CASE KeepImage
    <2>1. \A q \in Providers : Handled(q)' => Done(q)'
        BY <1>6, HandledStayDone, HandledWithin DEF KeepImage
    <2>2. /\ Current' = Current /\ Needed(Current)' = Needed(Current) /\ pc' = "select"
          /\ ImageIsCurrent(Current)'
        BY <1>6 DEF KeepImage, Current, Needed, ImageIsCurrent
    <2> QED
        BY <1>0, <1>6, <2>1, <2>2
        DEF KeepImage, ProgressInv, Busy, AfterImage, Transacting
<1>7. CASE RebuildImage
    <2>1. PICK i \in ImageResults(Current) :
            image' = [image EXCEPT ![Current] = i]
        BY <1>7 DEF RebuildImage, BuildImage
    <2>2. Current \in Providers /\ i \in Origins /\ i # None /\ pc = "image"
        BY <1>0, <1>7, CurrentFacts, ImagesAreOrigins, NoneAssumption
        DEF RebuildImage, Origins
    <2>3. image'[Current] = i /\ \A q \in Providers \ {Current} : image'[q] = image[q]
        BY <1>0, <2>1, <2>2 DEF TypeOK
    <2>4. /\ <<i, inputs[Current]>> \in cache'.images[Current]
          /\ \A q \in Providers \ {Current} : cache'.images[q] = cache.images[q]
          /\ cache'.outputs = cache.outputs
        BY <1>0, <1>7, <2>2, <2>3 DEF RebuildImage, TypeOK, Caches
    <2>5. \A q \in Providers : Handled(q)' => Done(q)'
        BY <1>7, <2>2, <2>3, <2>4, HandledStayDone, HandledWithin DEF RebuildImage
    <2>6. /\ Current' = Current /\ Needed(Current)' = Needed(Current) /\ pc' = "select"
          /\ ImageIsCurrent(Current)'
        BY <1>7, <2>2, <2>3, <2>4 DEF RebuildImage, Current, Needed, ImageIsCurrent
    <2> QED
        BY <1>0, <1>7, <2>5, <2>6
        DEF RebuildImage, ProgressInv, Busy, AfterImage, Transacting
<1>8. CASE SkipClean
    <2>1. \A o \in Needed(Current) \cap Outputs : ~IsDirty(o, inputs[Current])
        BY <1>8 DEF SkipClean, DirtyOutputs
    <2>2. Done(Current)
        BY <1>0, <1>8, <2>1 DEF SkipClean, Done, ProgressInv, Busy, AfterImage
    <2> PICK c : c = Current
        OBVIOUS
    <2>3. Done(c)'
        BY <1>8, <2>2
        DEF SkipClean, Done, Needed, ImageIsCurrent, IsDirty, OutputInputs
    <2>4. \A q \in Providers : Handled(q) => Done(q)'
        BY <1>8, HandledStayDone DEF SkipClean
    <2> QED
        BY <1>8, <2>3, <2>4, LeavesDone DEF SkipClean
<1>9. CASE SelectDirty
    <2>1. /\ pc = "select" /\ pc' = "begin" /\ Current' = Current
          /\ Needed(Current)' = Needed(Current) /\ dirty' = DirtyOutputs
        BY <1>9 DEF SelectDirty, Current, Needed
    <2>2. /\ dirty' \subseteq Needed(Current) \cap Outputs
          /\ \A o \in (Needed(Current) \cap Outputs) \ dirty' : ~IsDirty(o, inputs[Current])
        BY <2>1 DEF DirtyOutputs
    <2>3. \A o \in (Needed(Current) \cap Outputs) \ dirty' : ~IsDirty(o, inputs[Current])'
        BY <1>9, <2>1, <2>2 DEF SelectDirty, IsDirty, OutputInputs
    <2>4. Current \in Dockerfile => ImageIsCurrent(Current)'
        BY <1>0, <1>9, <2>1
        DEF SelectDirty, ImageIsCurrent, ProgressInv, Busy, AfterImage
    <2>5. \A q \in Providers : Handled(q)' => Done(q)'
        BY <1>9, HandledStayDone, HandledWithin DEF SelectDirty
    <2> QED
        BY <1>0, <1>9, <2>1, <2>2, <2>3, <2>4, <2>5
        DEF SelectDirty, ProgressInv, Busy, AfterImage, Transacting
<1>10. CASE BeginTransaction
    <2>1. NextOutput \in dirty
        BY <1>10, NextOutputInTodo DEF BeginTransaction, TypeInv, Shape
    <2>2. \A o \in Outputs \ dirty : path'[o] = path[o]
        BY <1>0, <1>10, <2>1
        DEF BeginTransaction, RemoveInterrupted, RestoreInterrupted, SetAside,
            NothingToKeep, TypeOK
    <2>3. dirty' = dirty
        BY <1>10 DEF BeginTransaction, RemoveInterrupted, RestoreInterrupted, SetAside,
            NothingToKeep
    <2> QED
        BY <1>10, <2>2, <2>3, TransactionStays
        DEF BeginTransaction, Transacting, AfterImage, Busy
<1>11. CASE WriteOutput
    <2>1. \A o \in Outputs \ dirty : path'[o] = path[o]
        BY <1>0, <1>11 DEF WriteOutput, TypeOK
    <2> QED
        BY <1>11, <2>1, TransactionStays DEF WriteOutput, Transacting, AfterImage, Busy
<1>12. CASE StartContainer \/ ContainerSucceeds \/ ContainerFails
    BY <1>12, TransactionStays
    DEF StartContainer, ContainerSucceeds, ContainerFails, Transacting, AfterImage, Busy
<1>13. CASE VerifyOutputs
    BY <1>13, TransactionStays DEF VerifyOutputs, Transacting, AfterImage, Busy
<1>14. CASE CommitOutput
    <2>1. pc = "commit" /\ \A o \in dirty : path[o] # None
        BY <1>0, <1>14 DEF CommitOutput, ProgressInv
    <2> QED
        BY <1>14, <2>1, TransactionStays DEF CommitOutput, Transacting, AfterImage, Busy
<1>15. CASE RollbackOutput
    <2>1. NextOutput \in dirty
        BY <1>15, NextOutputInTodo DEF RollbackOutput, TypeInv, Shape
    <2>2. \A o \in Outputs \ dirty : path'[o] = path[o]
        BY <1>0, <1>15, <2>1 DEF RollbackOutput, TypeOK
    <2> QED
        BY <1>15, <2>2, TransactionStays DEF RollbackOutput, Transacting, AfterImage, Busy
<1>16. CASE RecordOutputs
    <2> PICK c : c = Current
        OBVIOUS
    <2> PICK base : base = inputs[Current]
        OBVIOUS
    <2>1. /\ pc = "commit" /\ Needed(Current) # {} /\ base # None
          /\ dirty \subseteq Needed(Current) \cap Outputs
          /\ \A o \in dirty : path[o] # None
          /\ \A o \in (Needed(Current) \cap Outputs) \ dirty : ~IsDirty(o, base)
        BY <1>0, <1>16
        DEF RecordOutputs, ProgressInv, Busy, AfterImage, Transacting
    <2>2. /\ \A o \in dirty : cache'.outputs[o] = OutputEntry(o, base)
          /\ \A o \in Outputs \ dirty : cache'.outputs[o] = cache.outputs[o]
          /\ cache'.images = cache.images
        BY <1>0, <1>16, <2>1 DEF RecordOutputs, TypeOK, Caches
    <2>3. \A o \in Outputs : ProviderOf[o] # Current =>
            path'[o] = path[o] /\ cache'.outputs[o] = cache.outputs[o]
        BY <1>16, <2>1, <2>2 DEF RecordOutputs, Needed
    <2>4. ASSUME NEW o \in Needed(Current) \cap Outputs
          PROVE  ~IsDirty(o, base)'
        <3>1. CASE o \notin dirty
            <4>1. /\ pc \notin {"idle", "built"} /\ ~IsDirty(o, base)
                  /\ path' = path /\ cache'.outputs[o] = cache.outputs[o]
                BY <1>16, <2>1, <2>2, <3>1 DEF RecordOutputs
            <4> QED
                BY <2>1, <2>3, <4>1, CleanStays DEF IsDirty, OutputInputs
        <3>2. CASE o \in dirty
            <4>1. \A r \in OutputRequires[o] : r \in Outputs /\ ProviderOf[r] # Current
                BY <1>0, <2>1, CurrentFacts, RequiredBefore
            <4>2. OutputInputs(o, base)' = OutputInputs(o, base)
                BY <2>3, <4>1 DEF OutputInputs
            <4>3. cache'.outputs[o] = OutputEntry(o, base) /\ OutputEntry(o, base) # None
                BY <2>1, <2>2, <3>2, EntriesAreTyped
            <4>4. /\ cache'.outputs[o] # None
                  /\ cache'.outputs[o].input = OutputInputs(o, base)
                  /\ o \notin Directories => cache'.outputs[o].hash = path[o]
                BY <4>3 DEF OutputEntry
            <4>5. path'[o] = path[o] /\ path[o] # None
                BY <1>16, <2>1, <3>2 DEF RecordOutputs
            <4> QED
                BY <4>2, <4>4, <4>5 DEF IsDirty
        <3> QED
            BY <3>1, <3>2
    <2>5. c \in Dockerfile => ImageIsCurrent(c)'
        BY <1>0, <1>16, <2>1, <2>2
        DEF RecordOutputs, ImageIsCurrent, ProgressInv, Busy, AfterImage
    <2>6. Done(c)'
        BY <1>16, <2>1, <2>4, <2>5 DEF RecordOutputs, Done, Needed
    <2>7. \A q \in Providers : Handled(q) => Done(q)'
        BY <1>16, <2>1, <2>2, <2>3, HandledStayDone DEF RecordOutputs
    <2> QED
        BY <1>16, <2>1, <2>6, <2>7, LeavesDone DEF RecordOutputs
<1>17. CASE UNCHANGED vars
    BY <1>0, <1>17
    DEF vars, ProgressInv, Handled, Done, Needed, Current, ImageIsCurrent, IsDirty,
        OutputInputs
<1> QED
    BY <1>1, <1>2, <1>3, <1>4, <1>5, <1>6, <1>7, <1>8, <1>9, <1>10, <1>11, <1>12,
       <1>13, <1>14, <1>15, <1>16, <1>17 DEF Next, Step

LEMMA TypeInvHolds == Spec => []TypeInv
<1>1. TypeInv /\ [Next]_vars => TypeInv'
    BY ShapeStep, TypeStep, ProgressStep DEF TypeInv
<1> QED
    BY <1>1, TypeInit, PTL DEF Spec

(* The sets of hashes, the caches and the variables of run_build stay of the *)
(* types the code gives them: no step computes a hash of an output or image   *)
(* that is not there.                                                        *)
THEOREM BuildRunnerTypes == Spec => []TypeOK
    BY TypeInvHolds, PTL DEF TypeInv

(* A build that reports success leaves nothing for the same build to do.    *)
THEOREM NothingIsLeftDirty == Spec => []NothingLeftDirty
<1>1. TypeInv => NothingLeftDirty
    <2> SUFFICES ASSUME TypeInv, pc = "built" PROVE NothingLeftDirty
        BY DEF NothingLeftDirty
    <2>1. \A p \in Providers : Done(p)
        BY OrderFacts DEF TypeInv, ProgressInv, Handled
    <2>2. \A o \in targets \cap Outputs :
            ProviderOf[o] \in Providers /\ o \in Needed(ProviderOf[o])
        BY GraphAssumption DEF Artefacts, Needed
    <2>3. \A o \in targets \cap Outputs : ~IsDirty(o, inputs[ProviderOf[o]])
        BY <2>1, <2>2 DEF Done
    <2>4. \A p \in Dockerfile : Needed(p) # {} => ImageIsCurrent(p)
        BY <2>1, GraphAssumption DEF Done
    <2> QED
        BY <2>3, <2>4 DEF NothingLeftDirty
<1> QED
    BY <1>1, TypeInvHolds, PTL
-----------------------------------------------------------------------------
(***************************************************************************)
(* What goes into a hash, as Into has it for what goes into an image or an   *)
(* output: the input hash of a provider and the input hash of an output,     *)
(* which is the identity of a directory (hash_path_inputs, hash_output_inputs *)
(* of cache.py).  Hashed[p] are the providers whose files the input hash of p *)
(* covers, OutputHashed[o] those that the input hash of an output covers, and *)
(* AsHashed(o) those that what depends on an output covers with it.           *)
(*                                                                         *)
(* The argument for the cache is that they are no fewer than the providers    *)
(* the image and the output are made of: equal hashes then mean equal         *)
(* contents.                                                                *)
(***************************************************************************)
OfOutputs(R) == UNION {Ingredients[<<"output", r>>] : r \in R}
Direct(p) == (Requires[p] \cap Outputs) \cup BuildRequires[p]
Base == [p \in Providers |-> {ProviderOf[i] : i \in Requires[p] \cap Images}]

HashNodes == Made \cup ({"inputs"} \X Providers) \cup ({"identity"} \X Outputs)
HashOwner(n) == IF n[1] = "identity" THEN ProviderOf[n[2]] ELSE Owner(n)
HashNode(r) == IF r \in Directories THEN <<"identity", r>> ELSE <<"output", r>>
IntoHash == [n \in HashNodes |->
    IF n[1] = "inputs"
    THEN {<<"inputs", q>> : q \in Base[n[2]]}
            \cup {HashNode(r) : r \in Requires[n[2]] \cap Outputs}
            \cup {<<"output", r>> : r \in BuildRequires[n[2]]}
    ELSE IF n[1] = "identity"
    THEN {<<"inputs", ProviderOf[n[2]]>>} \cup {HashNode(r) : r \in OutputRequires[n[2]]}
    ELSE Into[n]]
Covered == [n \in HashNodes |-> {HashOwner(m) : m \in Closure(IntoHash, {n})}]

Hashed == [p \in Providers |-> Covered[<<"inputs", p>>]]
OutputHashed == [o \in Outputs |-> Covered[<<"identity", o>>]]
AsHashed(o) == IF o \in Directories THEN OutputHashed[o] ELSE Ingredients[<<"output", o>>]
OfHashes(R) == UNION {AsHashed(r) : r \in R}
LEMMA ClosureUnfold ==
    ASSUME NEW into, \A y \in DOMAIN into : into[y] \subseteq DOMAIN into,
           NEW n \in DOMAIN into
    PROVE  /\ n \in Closure(into, {n})
           /\ Closure(into, {n}) = {n} \cup UNION {Closure(into, {m}) : m \in into[n]}
<1>1. \A m \in DOMAIN into : m \in Closure(into, {m})
    BY DEF Closure
<1>2. \A m : /\ Closure(into, {m}) \subseteq DOMAIN into
             /\ \A y \in Closure(into, {m}) : into[y] \subseteq Closure(into, {m})
    BY ClosureIsClosed
<1> DEFINE S == {n} \cup UNION {Closure(into, {m}) : m \in into[n]}
<1>3. S \subseteq DOMAIN into
    BY <1>2
<1>4. \A y \in S : into[y] \subseteq S
    BY <1>1, <1>2
<1>5. Closure(into, {n}) \subseteq S
    BY <1>3, <1>4 DEF Closure
<1>6. ASSUME NEW m \in into[n]
      PROVE  Closure(into, {m}) \subseteq Closure(into, {n})
    <2>1. {m} \subseteq Closure(into, {n})
        BY <1>1, <1>2
    <2> QED
        BY <1>2, <2>1 DEF Closure
<1> QED
    BY <1>1, <1>5, <1>6

LEMMA IntoTyped ==
    /\ DOMAIN Into = Made
    /\ \A p \in Providers : <<"image", p>> \in Made
    /\ \A o \in Outputs : <<"output", o>> \in Made
    /\ \A n \in Made : Into[n] \subseteq Made
    /\ \A n \in Made :
        \/ \E p \in Providers : n = <<"image", p>>
        \/ \E o \in Outputs : n = <<"output", o>>
<1>1. /\ \A p \in Providers : <<"image", p>> \in Made
      /\ \A o \in Outputs : <<"output", o>> \in Made
      /\ \A n \in Made :
            \/ \E p \in Providers : n = <<"image", p>>
            \/ \E o \in Outputs : n = <<"output", o>>
    BY DEF Made
<1>2. DOMAIN Into = Made
    BY DEF Into
<1>3. ASSUME NEW p \in Providers PROVE Into[<<"image", p>>] \subseteq Made
    <2>1. Into[<<"image", p>>] = {<<"image", ProviderOf[i]>> : i \in Requires[p] \cap Images}
                                    \cup ({"output"} \X BuildRequires[p])
        BY <1>1 DEF Into, Owner
    <2> QED
        BY <2>1, GraphAssumption DEF Made, Artefacts
<1>4. ASSUME NEW o \in Outputs PROVE Into[<<"output", o>>] \subseteq Made
    <2> DEFINE p == ProviderOf[o]
    <2>1. p \in Providers
        BY GraphAssumption DEF Artefacts
    <2>2. Into[<<"output", o>>] =
            {<<"image", RunsOn[p]>>}
                \cup ({"output"} \X ((Requires[p] \cap Outputs) \cup BuildRequires[p]
                                        \cup OutputRequires[o]))
        BY <1>1 DEF Into, Owner
    <2> QED
        BY <2>1, <2>2, GraphAssumption DEF Made
<1> QED
    BY <1>1, <1>2, <1>3, <1>4

(* What something is made of: its provider, and what goes into it.          *)
LEMMA IngredientsUnfold ==
    ASSUME NEW n \in Made
    PROVE  Ingredients[n] = {Owner(n)} \cup UNION {Ingredients[m] : m \in Into[n]}
<1>1. Closure(Into, {n}) = {n} \cup UNION {Closure(Into, {m}) : m \in Into[n]}
    BY IntoTyped, ClosureUnfold
<1>2. \A m \in Made : Ingredients[m] = {Owner(x) : x \in Closure(Into, {m})}
    BY DEF Ingredients
<1>3. \A m \in Into[n] : m \in Made
    BY IntoTyped
<1>4. ASSUME NEW q \in Ingredients[n]
      PROVE  q = Owner(n) \/ \E m \in Into[n] : q \in Ingredients[m]
    <2>1. PICK x \in Closure(Into, {n}) : q = Owner(x)
        BY <1>2
    <2>2. x = n \/ \E m \in Into[n] : x \in Closure(Into, {m})
        BY <1>1
    <2>3. ASSUME NEW m \in Into[n], x \in Closure(Into, {m})
          PROVE  q \in Ingredients[m]
        BY <1>2, <1>3, <2>1, <2>3
    <2> QED
        BY <2>1, <2>2, <2>3
<1>5. Owner(n) \in Ingredients[n]
    BY <1>1, <1>2
<1>6. ASSUME NEW m \in Into[n], NEW q \in Ingredients[m]
      PROVE  q \in Ingredients[n]
    <2>1. PICK x \in Closure(Into, {m}) : q = Owner(x)
        BY <1>2, <1>3
    <2>2. x \in Closure(Into, {n})
        BY <1>1
    <2> QED
        BY <1>2, <2>1, <2>2
<1> QED
    BY <1>4, <1>5, <1>6

LEMMA ImageIngredients ==
    ASSUME NEW p \in Providers
    PROVE  Ingredients[<<"image", p>>] =
             {p} \cup (UNION {Ingredients[<<"image", ProviderOf[i]>>] :
                                i \in Requires[p] \cap Images})
                 \cup OfOutputs(BuildRequires[p])
<1>1. <<"image", p>> \in Made
    BY IntoTyped
<1>2. Owner(<<"image", p>>) = p
    BY DEF Owner
<1>3. Into[<<"image", p>>] = {<<"image", ProviderOf[i]>> : i \in Requires[p] \cap Images}
                                \cup {<<"output", r>> : r \in BuildRequires[p]}
    BY <1>1 DEF Into, Owner
<1>4. Ingredients[<<"image", p>>] =
        {p} \cup UNION {Ingredients[m] : m \in Into[<<"image", p>>]}
    BY <1>1, <1>2, IngredientsUnfold
<1> DEFINE I == {Ingredients[<<"image", ProviderOf[i]>>] : i \in Requires[p] \cap Images}
           J == {Ingredients[<<"output", r>>] : r \in BuildRequires[p]}
<1>5. {Ingredients[m] : m \in Into[<<"image", p>>]} = I \cup J
    BY <1>3
<1>6. OfOutputs(BuildRequires[p]) = UNION J
    BY DEF OfOutputs
<1> HIDE DEF I, J
<1>7. Ingredients[<<"image", p>>] = {p} \cup (UNION I) \cup OfOutputs(BuildRequires[p])
    BY <1>4, <1>5, <1>6
<1> QED
    BY <1>7 DEF I

LEMMA OutputIngredients ==
    ASSUME NEW o \in Outputs, NEW p, p = ProviderOf[o]
    PROVE  Ingredients[<<"output", o>>] =
             {p} \cup Ingredients[<<"image", RunsOn[p]>>] \cup OfOutputs(Direct(p))
                 \cup OfOutputs(OutputRequires[o])
<1>1. <<"output", o>> \in Made
    BY IntoTyped
<1>2. Owner(<<"output", o>>) = p
    BY DEF Owner
<1>3. Into[<<"output", o>>] =
        {<<"image", RunsOn[p]>>} \cup {<<"output", r>> : r \in Direct(p)}
            \cup {<<"output", r>> : r \in OutputRequires[o]}
    BY <1>1 DEF Into, Owner, Direct
<1>4. Ingredients[<<"output", o>>] =
        {p} \cup UNION {Ingredients[m] : m \in Into[<<"output", o>>]}
    BY <1>1, <1>2, IngredientsUnfold
<1> DEFINE I == Ingredients[<<"image", RunsOn[p]>>]
           J == {Ingredients[<<"output", r>>] : r \in Direct(p)}
           K == {Ingredients[<<"output", r>>] : r \in OutputRequires[o]}
<1>5. {Ingredients[m] : m \in Into[<<"output", o>>]} = {I} \cup J \cup K
    <2> DEFINE X == {<<"output", r>> : r \in Direct(p)}
               Y == {<<"output", r>> : r \in OutputRequires[o]}
    <2>1. {Ingredients[m] : m \in X} = J /\ {Ingredients[m] : m \in Y} = K
        OBVIOUS
    <2> HIDE DEF X, Y, J, K
    <2>2. {Ingredients[m] : m \in {<<"image", RunsOn[p]>>} \cup X \cup Y} = {I} \cup J \cup K
        BY <2>1
    <2> QED
        BY <1>3, <2>2 DEF X, Y
<1>6. OfOutputs(Direct(p)) = UNION J /\ OfOutputs(OutputRequires[o]) = UNION K
    BY DEF OfOutputs
<1> HIDE DEF I, J, K
<1>7. Ingredients[<<"output", o>>] =
        {p} \cup I \cup OfOutputs(Direct(p)) \cup OfOutputs(OutputRequires[o])
    BY <1>4, <1>5, <1>6
<1> QED
    BY <1>7 DEF I

LEMMA HashNodesTyped ==
    /\ DOMAIN IntoHash = HashNodes /\ Made \subseteq HashNodes
    /\ \A p \in Providers : <<"inputs", p>> \in HashNodes
    /\ \A o \in Outputs : <<"identity", o>> \in HashNodes /\ HashNode(o) \in HashNodes
    /\ \A n \in HashNodes :
        \/ n \in Made
        \/ \E p \in Providers : n = <<"inputs", p>>
        \/ \E o \in Outputs : n = <<"identity", o>>
<1>1. /\ \A p \in Providers : <<"inputs", p>> \in HashNodes
      /\ \A o \in Outputs : <<"identity", o>> \in HashNodes
      /\ Made \subseteq HashNodes
      /\ \A n \in HashNodes :
            \/ n \in Made
            \/ \E p \in Providers : n = <<"inputs", p>>
            \/ \E o \in Outputs : n = <<"identity", o>>
    BY DEF HashNodes
<1>2. \A o \in Outputs : HashNode(o) \in HashNodes
    BY <1>1, IntoTyped DEF HashNode
<1>3. DOMAIN IntoHash = HashNodes
    BY DEF IntoHash
<1> QED
    BY <1>1, <1>2, <1>3

LEMMA BaseTyped ==
    /\ DOMAIN Base = Providers
    /\ \A p \in Providers :
        /\ Base[p] = {ProviderOf[i] : i \in Requires[p] \cap Images}
        /\ Base[p] \subseteq Providers
    BY GraphAssumption DEF Base, Artefacts

(* What goes into each of the nodes. *)
LEMMA IntoInputs ==
    ASSUME NEW p \in Providers
    PROVE  IntoHash[<<"inputs", p>>] =
             {<<"inputs", q>> : q \in Base[p]}
                \cup {HashNode(r) : r \in Requires[p] \cap Outputs}
                \cup {<<"output", r>> : r \in BuildRequires[p]}
    BY HashNodesTyped DEF IntoHash

LEMMA IntoIdentity ==
    ASSUME NEW o \in Outputs
    PROVE  IntoHash[<<"identity", o>>] =
             {<<"inputs", ProviderOf[o]>>} \cup {HashNode(r) : r \in OutputRequires[o]}
    BY HashNodesTyped DEF IntoHash

LEMMA IntoMade ==
    ASSUME NEW n \in Made
    PROVE  IntoHash[n] = Into[n] /\ HashOwner(n) = Owner(n)
<1>1. n[1] # "inputs" /\ n[1] # "identity"
    BY IntoTyped
<1> QED
    BY <1>1, HashNodesTyped DEF IntoHash, HashOwner

LEMMA IntoHashTyped == \A n \in HashNodes : IntoHash[n] \subseteq HashNodes
<1>1. ASSUME NEW p \in Providers PROVE IntoHash[<<"inputs", p>>] \subseteq HashNodes
    <2>1. ASSUME NEW q \in Base[p] PROVE <<"inputs", q>> \in HashNodes
        BY BaseTyped, HashNodesTyped
    <2>2. ASSUME NEW r \in Requires[p] \cap Outputs PROVE HashNode(r) \in HashNodes
        BY HashNodesTyped
    <2>3. ASSUME NEW r \in BuildRequires[p] PROVE <<"output", r>> \in HashNodes
        <3>1. r \in Outputs
            BY GraphAssumption
        <3> QED
            BY <3>1, IntoTyped, HashNodesTyped
    <2> QED
        BY <2>1, <2>2, <2>3, IntoInputs
<1>2. ASSUME NEW o \in Outputs PROVE IntoHash[<<"identity", o>>] \subseteq HashNodes
    <2>1. ProviderOf[o] \in Providers /\ OutputRequires[o] \subseteq Outputs
        BY GraphAssumption DEF Artefacts
    <2>2. <<"inputs", ProviderOf[o]>> \in HashNodes
        BY <2>1, HashNodesTyped
    <2>3. ASSUME NEW r \in OutputRequires[o] PROVE HashNode(r) \in HashNodes
        BY <2>1, HashNodesTyped
    <2> QED
        BY <2>2, <2>3, IntoIdentity
<1>3. ASSUME NEW n \in Made PROVE IntoHash[n] \subseteq HashNodes
    BY IntoMade, IntoTyped, HashNodesTyped
<1> QED
    BY <1>1, <1>2, <1>3, HashNodesTyped

(* What a hash covers: its own files, and what goes into it. *)
LEMMA CoveredUnfold ==
    ASSUME NEW n \in HashNodes
    PROVE  Covered[n] = {HashOwner(n)} \cup UNION {Covered[m] : m \in IntoHash[n]}
<1>1. Closure(IntoHash, {n}) = {n} \cup UNION {Closure(IntoHash, {m}) : m \in IntoHash[n]}
    BY HashNodesTyped, IntoHashTyped, ClosureUnfold
<1>2. \A m \in HashNodes : Covered[m] = {HashOwner(x) : x \in Closure(IntoHash, {m})}
    BY DEF Covered
<1>3. \A m \in IntoHash[n] : m \in HashNodes
    BY IntoHashTyped
<1>4. ASSUME NEW q \in Covered[n]
      PROVE  q = HashOwner(n) \/ \E m \in IntoHash[n] : q \in Covered[m]
    <2>1. PICK x \in Closure(IntoHash, {n}) : q = HashOwner(x)
        BY <1>2
    <2>2. x = n \/ \E m \in IntoHash[n] : x \in Closure(IntoHash, {m})
        BY <1>1
    <2>3. ASSUME NEW m \in IntoHash[n], x \in Closure(IntoHash, {m})
          PROVE  q \in Covered[m]
        BY <1>2, <1>3, <2>1, <2>3
    <2> QED
        BY <2>1, <2>2, <2>3
<1>5. HashOwner(n) \in Covered[n]
    BY <1>1, <1>2
<1>6. ASSUME NEW m \in IntoHash[n], NEW q \in Covered[m]
      PROVE  q \in Covered[n]
    <2>1. PICK x \in Closure(IntoHash, {m}) : q = HashOwner(x)
        BY <1>2, <1>3
    <2>2. x \in Closure(IntoHash, {n})
        BY <1>1
    <2> QED
        BY <1>2, <2>1, <2>2
<1> QED
    BY <1>4, <1>5, <1>6

(* An output that is hashed as it is on disk stands for what it is made of. *)
LEMMA CoveredMade ==
    ASSUME NEW n \in Made
    PROVE  Covered[n] = Ingredients[n]
<1> DEFINE H == Closure(IntoHash, {n})
           C == Closure(Into, {n})
<1>1. /\ n \in C /\ C \subseteq Made /\ \A y \in C : Into[y] \subseteq C
      /\ n \in H /\ H \subseteq HashNodes /\ \A y \in H : IntoHash[y] \subseteq H
    BY IntoTyped, IntoHashTyped, HashNodesTyped, ClosureUnfold, ClosureIsClosed
<1>2. H \subseteq C
    <2>1. C \in SUBSET DOMAIN IntoHash /\ {n} \subseteq C
        BY <1>1, HashNodesTyped
    <2>2. \A y \in C : IntoHash[y] \subseteq C
        BY <1>1, IntoMade
    <2> HIDE DEF C
    <2> QED
        BY <2>1, <2>2 DEF Closure
<1>3. C \subseteq H
    <2>1. H \in SUBSET DOMAIN Into /\ {n} \subseteq H
        BY <1>1, <1>2, IntoTyped
    <2>2. \A y \in H : Into[y] \subseteq H
        BY <1>1, <1>2, IntoMade
    <2> HIDE DEF H
    <2> QED
        BY <2>1, <2>2 DEF Closure
<1>4. Covered[n] = {HashOwner(m) : m \in H} /\ Ingredients[n] = {Owner(m) : m \in C}
    BY HashNodesTyped DEF Covered, Ingredients
<1>5. \A m \in C : HashOwner(m) = Owner(m)
    BY <1>1, IntoMade
<1> HIDE DEF H, C
<1> QED
    BY <1>2, <1>3, <1>4, <1>5

LEMMA CoveredNode ==
    ASSUME NEW o \in Outputs
    PROVE  Covered[HashNode(o)] = AsHashed(o)
    BY CoveredMade, IntoTyped DEF HashNode, AsHashed, OutputHashed

LEMMA HashedUnfold ==
    ASSUME NEW p \in Providers
    PROVE  Hashed[p] = {p} \cup (UNION {Hashed[m] : m \in Base[p]})
                           \cup OfHashes(Requires[p] \cap Outputs) \cup OfOutputs(BuildRequires[p])
<1> DEFINE n == <<"inputs", p>>
<1>1. n \in HashNodes /\ HashOwner(n) = p /\ Hashed[p] = Covered[n]
    BY HashNodesTyped DEF HashOwner, Owner, Hashed
<1>2. Covered[n] = {p} \cup UNION {Covered[m] : m \in IntoHash[n]}
    BY <1>1, CoveredUnfold
<1>3. \A q \in Base[p] : Covered[<<"inputs", q>>] = Hashed[q]
    BY BaseTyped DEF Hashed
<1>4. \A r \in Requires[p] \cap Outputs : Covered[HashNode(r)] = AsHashed(r)
    BY CoveredNode
<1>5. \A r \in BuildRequires[p] : Covered[<<"output", r>>] = Ingredients[<<"output", r>>]
    BY GraphAssumption, IntoTyped, CoveredMade
<1> HIDE DEF n
<1>6. IntoHash[n] = {<<"inputs", q>> : q \in Base[p]}
                       \cup {HashNode(r) : r \in Requires[p] \cap Outputs}
                       \cup {<<"output", r>> : r \in BuildRequires[p]}
    BY IntoInputs DEF n
<1>7. ASSUME NEW x \in Hashed[p]
      PROVE  \/ x = p
             \/ \E q \in Base[p] : x \in Hashed[q]
             \/ \E r \in Requires[p] \cap Outputs : x \in AsHashed(r)
             \/ \E r \in BuildRequires[p] : x \in Ingredients[<<"output", r>>]
    <2>1. x = p \/ \E m \in IntoHash[n] : x \in Covered[m]
        BY <1>1, <1>2
    <2> QED
        BY <1>3, <1>4, <1>5, <1>6, <2>1
<1>8. p \in Hashed[p] /\ \A m \in IntoHash[n] : Covered[m] \subseteq Hashed[p]
    BY <1>1, <1>2
<1>9. \A q \in Base[p] : Hashed[q] \subseteq Hashed[p]
    BY <1>3, <1>6, <1>8
<1>10. \A r \in Requires[p] \cap Outputs : AsHashed(r) \subseteq Hashed[p]
    BY <1>4, <1>6, <1>8
<1>11. \A r \in BuildRequires[p] : Ingredients[<<"output", r>>] \subseteq Hashed[p]
    BY <1>5, <1>6, <1>8
<1> QED
    BY <1>7, <1>8, <1>9, <1>10, <1>11 DEF OfHashes, OfOutputs

LEMMA OutputHashedUnfold ==
    ASSUME NEW o \in Outputs
    PROVE  OutputHashed[o] = Hashed[ProviderOf[o]] \cup OfHashes(OutputRequires[o])
<1> DEFINE n == <<"identity", o>>
           p == ProviderOf[o]
<1>1. /\ n \in HashNodes /\ HashOwner(n) = p /\ OutputHashed[o] = Covered[n]
      /\ p \in Providers /\ OutputRequires[o] \subseteq Outputs
    BY HashNodesTyped, GraphAssumption DEF HashOwner, OutputHashed, Artefacts
<1>2. Covered[n] = {p} \cup UNION {Covered[m] : m \in IntoHash[n]}
    BY <1>1, CoveredUnfold
<1>3. Covered[<<"inputs", p>>] = Hashed[p] /\ p \in Hashed[p]
    BY <1>1, HashedUnfold DEF Hashed
<1>4. \A r \in OutputRequires[o] : Covered[HashNode(r)] = AsHashed(r)
    BY <1>1, CoveredNode
<1>5. IntoHash[n] = {<<"inputs", p>>} \cup {HashNode(r) : r \in OutputRequires[o]}
    BY IntoIdentity
<1> HIDE DEF n, p
<1>6. ASSUME NEW x \in OutputHashed[o]
      PROVE  x \in Hashed[p] \/ \E r \in OutputRequires[o] : x \in AsHashed(r)
    BY <1>1, <1>2, <1>3, <1>4, <1>5
<1>7. /\ Hashed[p] \subseteq OutputHashed[o]
      /\ \A r \in OutputRequires[o] : AsHashed(r) \subseteq OutputHashed[o]
    BY <1>1, <1>2, <1>3, <1>4, <1>5
<1> QED
    BY <1>6, <1>7 DEF OfHashes, p

(* Where a hash is taken of something, all that it is made of is hashed. *)
LEMMA MadeIsCovered ==
    ASSUME NEW root \in HashNodes, NEW n \in Made,
           \/ \E p \in Providers : root = <<"inputs", p>> /\ n = <<"image", p>>
           \/ \E o \in Outputs : root = <<"identity", o>> /\ n = <<"output", o>>
    PROVE  Ingredients[n] \subseteq Covered[root]
<1> DEFINE H == Closure(IntoHash, {root})
           S == {m \in Made :
                    \/ m \in H
                    \/ \E p \in Providers : m = <<"image", p>> /\ <<"inputs", p>> \in H
                    \/ \E o \in Outputs : m = <<"output", o>> /\ <<"identity", o>> \in H}
<1>1. root \in H /\ H \subseteq HashNodes /\ \A y \in H : IntoHash[y] \subseteq H
    BY HashNodesTyped, IntoHashTyped, ClosureUnfold, ClosureIsClosed
<1> HIDE DEF H
<1>2. ASSUME NEW r \in Outputs, HashNode(r) \in H
      PROVE  <<"output", r>> \in S
    BY <1>2, IntoTyped DEF HashNode
<1>3. ASSUME NEW q \in Providers, <<"inputs", q>> \in H
      PROVE  /\ <<"image", q>> \in S
             /\ \A i \in Requires[q] \cap Images : <<"image", ProviderOf[i]>> \in S
             /\ \A r \in Direct(q) : r \in Outputs /\ <<"output", r>> \in S
    <2>1. IntoHash[<<"inputs", q>>] \subseteq H
        BY <1>1, <1>3
    <2>2. ASSUME NEW i \in Requires[q] \cap Images PROVE <<"image", ProviderOf[i]>> \in S
        <3>1. ProviderOf[i] \in Base[q] /\ ProviderOf[i] \in Providers
            BY BaseTyped
        <3>2. <<"inputs", ProviderOf[i]>> \in H
            BY <2>1, <3>1, IntoInputs
        <3> QED
            BY <3>1, <3>2, IntoTyped
    <2>3. ASSUME NEW r \in Requires[q] \cap Outputs PROVE <<"output", r>> \in S
        BY <1>2, <2>1, IntoInputs, ZenonT(60)
    <2>4. ASSUME NEW r \in BuildRequires[q] PROVE r \in Outputs /\ <<"output", r>> \in S
        BY <2>1, IntoInputs, IntoTyped, GraphAssumption
    <2> QED
        BY <1>3, <2>2, <2>3, <2>4, IntoTyped DEF Direct
<1>4. ASSUME NEW m \in S PROVE Into[m] \subseteq S
    <2>1. CASE m \in H
        <3>1. Into[m] \subseteq H /\ Into[m] \subseteq Made
            BY <1>1, <2>1, IntoMade, IntoTyped
        <3> QED
            BY <3>1
    <2>2. ASSUME NEW q \in Providers, m = <<"image", q>>, <<"inputs", q>> \in H
          PROVE  Into[m] \subseteq S
        <3>1. Into[m] = {<<"image", ProviderOf[i]>> : i \in Requires[q] \cap Images}
                            \cup {<<"output", r>> : r \in BuildRequires[q]}
            BY <2>2, IntoTyped DEF Into, Owner
        <3>2. BuildRequires[q] \subseteq Direct(q)
            BY DEF Direct
        <3> HIDE DEF S
        <3> QED
            BY <1>3, <2>2, <3>1, <3>2
    <2>3. ASSUME NEW o \in Outputs, m = <<"output", o>>, <<"identity", o>> \in H
          PROVE  Into[m] \subseteq S
        <3> DEFINE p == ProviderOf[o]
        <3>1. Into[m] = {<<"image", RunsOn[p]>>} \cup {<<"output", r>> : r \in Direct(p)}
                            \cup {<<"output", r>> : r \in OutputRequires[o]}
            BY <2>3, IntoTyped DEF Into, Owner, Direct
        <3>2. /\ p \in Providers /\ OutputRequires[o] \subseteq Outputs
              /\ IntoHash[<<"identity", o>>] \subseteq H
            BY <1>1, <2>3, GraphAssumption DEF Artefacts
        <3> HIDE DEF S
        <3>3. <<"inputs", p>> \in H /\ \A r \in OutputRequires[o] : HashNode(r) \in H
            BY <3>2, IntoIdentity
        <3> HIDE DEF p
        <3>4. ASSUME NEW r \in OutputRequires[o] PROVE <<"output", r>> \in S
            BY <1>2, <3>2, <3>3
        <3>5. \A r \in Direct(p) : <<"output", r>> \in S
            BY <1>3, <3>2, <3>3
        <3>6. <<"image", RunsOn[p]>> \in S
            <4>1. CASE RunsOn[p] = p
                BY <1>3, <3>2, <3>3, <4>1
            <4>2. ASSUME NEW i \in Requires[p] \cap Images, RunsOn[p] = ProviderOf[i]
                  PROVE  <<"image", RunsOn[p]>> \in S
                BY <1>3, <3>2, <3>3, <4>2
            <4> QED
                BY <3>2, <4>1, <4>2, OrderAssumption
        <3> QED
            BY <3>1, <3>4, <3>5, <3>6
    <2> QED
        BY <2>1, <2>2, <2>3
<1>5. n \in S
    BY <1>1
<1>6. Closure(Into, {n}) \subseteq S
    <2>1. S \in SUBSET DOMAIN Into /\ {n} \subseteq S
        BY <1>5, IntoTyped
    <2> HIDE DEF S
    <2> QED
        BY <1>4, <2>1 DEF Closure
<1>7. ASSUME NEW x \in Ingredients[n] PROVE x \in Covered[root]
    <2>1. PICK m \in Closure(Into, {n}) : x = Owner(m)
        BY IntoTyped DEF Ingredients
    <2>2. m \in S
        BY <1>6
    <2>3. \E y \in H : x = HashOwner(y)
        <3>1. CASE m \in H
            BY <2>1, <2>2, <3>1, IntoMade
        <3>2. ASSUME NEW p \in Providers, m = <<"image", p>>, <<"inputs", p>> \in H
              PROVE  \E y \in H : x = HashOwner(y)
            BY <2>1, <3>2 DEF HashOwner, Owner
        <3>3. ASSUME NEW o \in Outputs, m = <<"output", o>>, <<"identity", o>> \in H
              PROVE  \E y \in H : x = HashOwner(y)
            BY <2>1, <3>3 DEF HashOwner, Owner
        <3> QED
            BY <2>2, <3>1, <3>2, <3>3
    <2> QED
        BY <2>3 DEF Covered, H
<1> QED
    BY <1>7

(* An image is made of nothing that the input hash of its provider misses.  *)
LEMMA ImageIsHashed ==
    ASSUME NEW p \in Providers
    PROVE  Ingredients[<<"image", p>>] \subseteq Hashed[p]
    BY MadeIsCovered, HashNodesTyped, IntoTyped DEF Hashed

(* Nor is an output of anything that its own input hash misses.             *)
LEMMA OutputIsHashed ==
    ASSUME NEW o \in Outputs
    PROVE  Ingredients[<<"output", o>>] \subseteq OutputHashed[o]
    BY MadeIsCovered, HashNodesTyped, IntoTyped DEF OutputHashed
-----------------------------------------------------------------------------
(***************************************************************************)
(* Why a successful build is current, where equal sizes never hide a change   *)
(* and outputs are files or no build was interrupted.  Whatever the caches    *)
(* record was made of one version of every provider's files (Recorded), and   *)
(* so is a directory whose content the caches do not know (DirectoriesFit):    *)
(* an entry whose input hash is that of the current files is of a current     *)
(* content.                                                                  *)
(***************************************************************************)
Pairs(s, D) == {<<q, s[q]>> : q \in D}
Pure(s, n) == Pairs(s, Ingredients[n])

Uninterrupted == Directories = {} \/ crashes = 0

Recorded(c) ==
    /\ \A o \in Outputs : c.outputs[o] # None =>
        \E s \in [Providers -> Versions] :
            /\ c.outputs[o].input = Pairs(s, OutputHashed[o])
            /\ c.outputs[o].hash = Pairs(s, AsHashed(o))
    /\ \A p \in Providers : \A e \in c.images[p] :
        \E s \in [Providers -> Versions] :
            e[1] = Pure(s, <<"image", p>>) /\ e[2] = Pairs(s, Hashed[p])

(* A recorded directory was made of the inputs that its record has, also when *)
(* it is set apart; while it is replaced the record is still of the old one.   *)
Fits(o) ==
    saved.outputs[o] # None =>
        \E s \in [Providers -> Versions] :
            /\ saved.outputs[o].input = Pairs(s, OutputHashed[o])
            /\ Preserved(o) = Pure(s, <<"output", o>>)
DirectoriesFit == \A o \in Directories : ~(pc = "commit" /\ o \in dirty) => Fits(o)

(* Handled providers are as their current files make them. *)
RightOutput(o) ==
    /\ path[o] = Pure(source, <<"output", o>>)
    /\ cache.outputs[o].hash = Pairs(source, AsHashed(o))
Right(p) ==
    Needed(p) # {} =>
        /\ inputs[p] = Pairs(source, Hashed[p])
        /\ p \in Dockerfile => image[p] = Pure(source, <<"image", p>>)
        /\ \A o \in Needed(p) \cap Outputs : RightOutput(o)

(* A layer stands for what was mounted only where nothing is. *)
LayersRight == \A p \in Providers : BuildRequires[p] = {} => \A l \in layers[p] : l[1] = l[2]

CurrentInv ==
    /\ Recorded(cache) /\ Recorded(saved) /\ LayersRight
    /\ \A p \in Providers : Handled(p) => Right(p)
    /\ pc \in Busy => inputs[Current] = Pairs(source, Hashed[Current])
    /\ pc \in AfterImage /\ Current \in Dockerfile =>
        image[Current] = Pure(source, <<"image", Current>>)
    /\ pc \in Transacting =>
        \A o \in (Needed(Current) \cap Outputs) \ dirty : RightOutput(o)
    /\ pc = "begin" => \A o \in dirty \ todo : path[o] = None
    /\ pc = "run" => \A o \in dirty :
            path[o] \in {None, Partial, Pure(source, <<"output", o>>)}
    /\ pc = "verify" => \A o \in dirty : path[o] \in {None, Pure(source, <<"output", o>>)}
    /\ pc = "commit" => \A o \in dirty : path[o] = Pure(source, <<"output", o>>)

CurrencyInv == Uninterrupted => CurrentInv /\ DirectoriesFit
(* What a hash covers, it determines. *)
LEMMA Determined ==
    ASSUME NEW s, NEW t, NEW D, NEW E, D \subseteq E, Pairs(s, E) = Pairs(t, E)
    PROVE  Pairs(s, D) = Pairs(t, D)
<1>1. ASSUME NEW q \in D PROVE s[q] = t[q]
    <2>1. <<q, s[q]>> \in Pairs(t, E)
        BY DEF Pairs
    <2> QED
        BY <2>1 DEF Pairs
<1> QED
    BY <1>1 DEF Pairs

LEMMA PairsUnion ==
    ASSUME NEW s, NEW D, NEW E, NEW F
    PROVE  Pairs(s, D \cup E \cup F) = Pairs(s, D) \cup Pairs(s, E) \cup Pairs(s, F)
<1>1. ASSUME NEW x \in Pairs(s, D \cup E \cup F)
      PROVE  x \in Pairs(s, D) \/ x \in Pairs(s, E) \/ x \in Pairs(s, F)
    BY DEF Pairs
<1>2. \A G \in {D, E, F} : Pairs(s, G) \subseteq Pairs(s, D \cup E \cup F)
    BY DEF Pairs
<1> QED
    BY <1>1, <1>2

LEMMA PairsOfOutputs ==
    ASSUME NEW s, NEW R
    PROVE  Pairs(s, OfOutputs(R)) = UNION {Pure(s, <<"output", r>>) : r \in R}
<1>1. ASSUME NEW x \in Pairs(s, OfOutputs(R))
      PROVE  \E r \in R : x \in Pure(s, <<"output", r>>)
    <2>1. PICK q \in OfOutputs(R) : x = <<q, s[q]>>
        BY DEF Pairs
    <2>2. PICK r \in R : q \in Ingredients[<<"output", r>>]
        BY DEF OfOutputs
    <2> QED
        BY <2>1, <2>2 DEF Pure, Pairs
<1>2. ASSUME NEW r \in R, NEW x \in Pure(s, <<"output", r>>)
      PROVE  x \in Pairs(s, OfOutputs(R))
    <2>1. PICK q \in Ingredients[<<"output", r>>] : x = <<q, s[q]>>
        BY DEF Pure, Pairs
    <2>2. q \in OfOutputs(R)
        BY DEF OfOutputs
    <2> QED
        BY <2>1, <2>2 DEF Pairs
<1> QED
    BY <1>1, <1>2

LEMMA PairsOfHashes ==
    ASSUME NEW s, NEW R
    PROVE  Pairs(s, OfHashes(R)) = UNION {Pairs(s, AsHashed(r)) : r \in R}
<1>1. ASSUME NEW x \in Pairs(s, OfHashes(R))
      PROVE  \E r \in R : x \in Pairs(s, AsHashed(r))
    <2>1. PICK q \in OfHashes(R) : x = <<q, s[q]>>
        BY DEF Pairs
    <2>2. PICK r \in R : q \in AsHashed(r)
        BY DEF OfHashes
    <2> QED
        BY <2>1, <2>2 DEF Pairs
<1>2. ASSUME NEW r \in R, NEW x \in Pairs(s, AsHashed(r))
      PROVE  x \in Pairs(s, OfHashes(R))
    <2>1. PICK q \in AsHashed(r) : x = <<q, s[q]>>
        BY DEF Pairs
    <2>2. q \in OfHashes(R)
        BY DEF OfHashes
    <2> QED
        BY <2>1, <2>2 DEF Pairs
<1> QED
    BY <1>1, <1>2

(* Everything the current provider requires is as its current files make it. *)
LEMMA RequiredRight ==
    ASSUME TypeInv, CurrentInv, pc \notin {"idle", "built"}, Needed(Current) # {}
    PROVE  /\ \A r \in Direct(Current) : r \in Outputs /\ RightOutput(r)
           /\ \A i \in Requires[Current] \cap Images :
                /\ ProviderOf[i] \in Providers
                /\ inputs[ProviderOf[i]] = Pairs(source, Hashed[ProviderOf[i]])
                /\ image[ProviderOf[i]] = Pure(source, <<"image", ProviderOf[i]>>)
           /\ \A o \in Needed(Current) \cap Outputs : \A r \in OutputRequires[o] :
                r \in Outputs /\ RightOutput(r)
           /\ RunsOn[Current] # Current =>
                image[RunsOn[Current]] = Pure(source, <<"image", RunsOn[Current]>>)
<1>0. TypeOK /\ Current \in Providers /\ \A a \in targets : Uses[a] \subseteq targets
    BY CurrentFacts DEF TypeInv, ProgressInv
<1>1. ASSUME NEW o \in Outputs, Handled(ProviderOf[o]), o \in Needed(ProviderOf[o])
      PROVE  RightOutput(o)
    <2>1. ProviderOf[o] \in Providers
        BY GraphAssumption DEF Artefacts
    <2>2. Right(ProviderOf[o])
        BY <1>1, <2>1 DEF CurrentInv
    <2> QED
        BY <1>1, <2>2 DEF Right
<1>2. ASSUME NEW p \in Dockerfile, Handled(p), Needed(p) # {}
      PROVE  /\ inputs[p] = Pairs(source, Hashed[p])
             /\ image[p] = Pure(source, <<"image", p>>)
    BY <1>2, GraphAssumption DEF CurrentInv, Right
<1>3. \A a \in Requires[Current] \cap Images :
        ProviderOf[a] \in Providers /\ ProviderOf[a] \in Dockerfile
    BY GraphAssumption, OrderAssumption DEF Artefacts
<1>4. \A r \in Direct(Current) :
        r \in Outputs /\ r \in Requires[Current] \cup BuildRequires[Current]
    BY <1>0, GraphAssumption DEF Direct
<1> QED
    BY <1>0, <1>1, <1>2, <1>3, <1>4, RequiredBefore

(* hash_path_inputs gives the hash of the current files. *)
LEMMA InputsAreHashed ==
    ASSUME SameSize = {}, TypeInv, CurrentInv, pc = "hash", Needed(Current) # {}
    PROVE  PathInputs(Current) = Pairs(source, Hashed[Current])
<1> DEFINE p == Current
           I == UNION {Pairs(source, Hashed[q]) : q \in Base[p]}
           J == UNION {Pairs(source, AsHashed(r)) : r \in Requires[p] \cap Outputs}
           K == UNION {Pure(source, <<"output", r>>) : r \in BuildRequires[p]}
<1>0. p \in Providers /\ Requires[p] \subseteq Images \cup Outputs
    BY CurrentFacts, GraphAssumption DEF TypeInv, Artefacts
<1>1. FileHash(p) = source[p]
    BY DEF FileHash
<1>2. \A i \in Requires[p] \cap Images :
        /\ ProviderOf[i] \in Base[p]
        /\ DependencyHash(i) = Pairs(source, Hashed[ProviderOf[i]])
    BY <1>0, BaseTyped, RequiredRight DEF DependencyHash
<1>3. \A r \in Requires[p] \cap Outputs : DependencyHash(r) = Pairs(source, AsHashed(r))
    BY GraphAssumption, RequiredRight DEF DependencyHash, Direct, RightOutput
<1>4. \A r \in BuildRequires[p] : path[r] = Pure(source, <<"output", r>>)
    BY RequiredRight DEF Direct, RightOutput
<1>5. UNION {DependencyHash(a) : a \in Requires[p]} = I \cup J
    <2>1. ASSUME NEW x \in UNION {DependencyHash(a) : a \in Requires[p]} PROVE x \in I \cup J
        <3>1. PICK a \in Requires[p] : x \in DependencyHash(a)
            OBVIOUS
        <3>2. a \in Images \/ a \in Outputs
            BY <1>0
        <3> QED
            BY <1>2, <1>3, <3>1, <3>2
    <2>2. ASSUME NEW x \in I PROVE x \in UNION {DependencyHash(a) : a \in Requires[p]}
        <3>1. PICK q \in Base[p] : x \in Pairs(source, Hashed[q])
            OBVIOUS
        <3>2. PICK i \in Requires[p] \cap Images : q = ProviderOf[i]
            BY <1>0, BaseTyped
        <3> QED
            BY <1>2, <3>1, <3>2
    <2>3. ASSUME NEW x \in J PROVE x \in UNION {DependencyHash(a) : a \in Requires[p]}
        BY <1>3
    <2> QED
        BY <2>1, <2>2, <2>3
<1>6. UNION {path[r] : r \in BuildRequires[p]} = K
    BY <1>4
<1>7. PathInputs(p) = {<<p, source[p]>>} \cup I \cup J \cup K
    BY <1>1, <1>5, <1>6 DEF PathInputs
<1> DEFINE D == UNION {Hashed[m] : m \in Base[p]}
           E == OfHashes(Requires[p] \cap Outputs)
           F == OfOutputs(BuildRequires[p])
<1>8. Hashed[p] = {p} \cup D \cup E \cup F
    BY <1>0, HashedUnfold
<1>9. Pairs(source, E) = J /\ Pairs(source, F) = K
    BY PairsOfOutputs, PairsOfHashes
<1>10. Pairs(source, D) = I
    BY <1>0, BaseTyped DEF Pairs
<1>11. Pairs(source, {p}) = {<<p, source[p]>>}
    BY DEF Pairs
<1> HIDE DEF I, J, K, D, E, F
<1>12. Pairs(source, {p} \cup D \cup (E \cup F)) =
            Pairs(source, {p}) \cup Pairs(source, D) \cup Pairs(source, E \cup F)
    BY PairsUnion
<1>13. Pairs(source, E \cup F \cup F) = Pairs(source, E) \cup Pairs(source, F) \cup Pairs(source, F)
    BY PairsUnion
<1>14. {p} \cup D \cup (E \cup F) = {p} \cup D \cup E \cup F /\ E \cup F \cup F = E \cup F
    OBVIOUS
<1> QED
    BY <1>7, <1>8, <1>9, <1>10, <1>11, <1>12, <1>13, <1>14

(* hash_output_inputs does too. *)
LEMMA OutputInputsAreHashed ==
    ASSUME TypeInv, CurrentInv, pc \in Busy, NEW o \in Needed(Current) \cap Outputs
    PROVE  OutputInputs(o, inputs[Current]) = Pairs(source, OutputHashed[o])
<1>1. inputs[Current] = Pairs(source, Hashed[Current]) /\ ProviderOf[o] = Current
    BY DEF CurrentInv, Needed
<1> DEFINE Of(r) == IF r \in Directories THEN cache.outputs[r].hash ELSE path[r]
<1>2. \A r \in OutputRequires[o] : Of(r) = Pairs(source, AsHashed(r))
    BY RequiredRight DEF Busy, RightOutput, AsHashed, Pure
<1>3. OutputInputs(o, inputs[Current]) =
        inputs[Current] \cup UNION {Of(r) : r \in OutputRequires[o]}
    BY DEF OutputInputs
<1> HIDE DEF Of
<1>4. UNION {Of(r) : r \in OutputRequires[o]} = Pairs(source, OfHashes(OutputRequires[o]))
    BY <1>2, PairsOfHashes
<1> DEFINE D == Hashed[Current]
           E == OfHashes(OutputRequires[o])
<1>5. OutputHashed[o] = D \cup E \cup E
    BY <1>1, OutputHashedUnfold
<1> HIDE DEF D, E
<1>6. Pairs(source, D \cup E \cup E)
        = Pairs(source, D) \cup Pairs(source, E) \cup Pairs(source, E)
    BY PairsUnion
<1> QED
    BY <1>1, <1>3, <1>4, <1>5, <1>6 DEF D, E

(* podman build makes of the current files what they make, layers or none.  *)
LEMMA BuildsRight ==
    ASSUME TypeInv, CurrentInv, pc = "image", NEW b \in ImageResults(Current)
    PROVE  /\ b = Pure(source, <<"image", Current>>)
           /\ BuildRequires[Current] = {} => LayerKey(Current) = b
<1> DEFINE p == Current
           I == UNION {Ingredients[<<"image", ProviderOf[i]>>] : i \in Requires[p] \cap Images}
           J == OfOutputs(BuildRequires[p])
<1>0. p \in Providers /\ pc \in Busy /\ Needed(Current) # {}
    BY CurrentFacts DEF TypeInv, ProgressInv, Busy
<1>1. \A i \in Requires[p] \cap Images :
        image[ProviderOf[i]] = Pure(source, <<"image", ProviderOf[i]>>)
    BY <1>0, RequiredRight
<1>2. \A r \in BuildRequires[p] : path[r] = Pure(source, <<"output", r>>)
    BY <1>0, RequiredRight DEF Direct, RightOutput
<1>3. LayerKey(p) = {<<p, source[p]>>} \cup Pairs(source, I)
    <2> DEFINE R == Requires[p] \cap Images
               Of(i) == Ingredients[<<"image", ProviderOf[i]>>]
    <2>0. UNION {image[ProviderOf[i]] : i \in R} = UNION {Pairs(source, Of(i)) : i \in R}
        BY <1>1 DEF Pure
    <2> HIDE DEF R, Of
    <2>1. UNION {Pairs(source, Of(i)) : i \in R} = Pairs(source, UNION {Of(i) : i \in R})
        BY DEF Pairs
    <2>2. UNION {image[ProviderOf[i]] : i \in R} = Pairs(source, I)
        BY <2>0, <2>1 DEF R, Of
    <2> QED
        BY <2>2 DEF LayerKey, R
<1>4. UNION {path[r] : r \in BuildRequires[p]} = Pairs(source, J)
    <2>1. UNION {Pure(source, <<"output", r>>) : r \in BuildRequires[p]} = Pairs(source, J)
        BY PairsOfOutputs
    <2> QED
        BY <1>2, <2>1
<1>5. Ingredients[<<"image", p>>] = {p} \cup I \cup J
    BY <1>0, ImageIngredients
<1>6. Pairs(source, {p}) = {<<p, source[p]>>}
    BY DEF Pairs
<1>7. BuildRequires[p] = {} => Pairs(source, J) = {}
    BY <1>4
<1> HIDE DEF I, J
<1>8. Pairs(source, {p} \cup I \cup J)
        = Pairs(source, {p}) \cup Pairs(source, I) \cup Pairs(source, J)
    BY PairsUnion
<1>9. BuiltImage(p) = Pure(source, <<"image", p>>)
    BY <1>3, <1>4, <1>5, <1>6, <1>8 DEF BuiltImage, Pure
<1>10. BuildRequires[p] = {} => LayerKey(p) = BuiltImage(p)
    BY <1>4, <1>7 DEF BuiltImage
<1>11. b = BuiltImage(p)
    <2>1. CASE BuildRequires[p] # {}
        BY <2>1 DEF ImageResults, NeedsNoCache
    <2>2. CASE BuildRequires[p] = {}
        <3>1. \A l \in layers[p] : l[1] = l[2]
            BY <1>0, <2>2 DEF CurrentInv, LayersRight
        <3> QED
            BY <1>10, <2>2, <3>1 DEF ImageResults
    <2> QED
        BY <2>1, <2>2
<1> QED
    BY <1>9, <1>10, <1>11

(* The provider's container makes of its inputs what they make. *)
LEMMA MakesRight ==
    ASSUME TypeInv, CurrentInv, pc = "run", NEW o \in dirty
    PROVE  Product(o) = Pure(source, <<"output", o>>)
<1> DEFINE p == Current
           I == Ingredients[<<"image", RunsOn[p]>>]
           J == OfOutputs(Direct(p))
           K == OfOutputs(OutputRequires[o])
<1>0. /\ p \in Providers /\ Needed(p) # {} /\ o \in Needed(p) \cap Outputs
      /\ ProviderOf[o] = p /\ o \in Outputs
    BY CurrentFacts
    DEF TypeInv, TypeOK, ProgressInv, Busy, AfterImage, Transacting, Needed
<1>1. image[RunsOn[p]] = Pairs(source, I)
    <2>1. CASE RunsOn[p] # p
        BY <1>0, <2>1, RequiredRight DEF Pure
    <2>2. CASE RunsOn[p] = p
        <3>1. p \in Dockerfile
            BY <1>0, <2>2, RequiredBefore DEF TypeInv, ProgressInv
        <3> QED
            BY <2>2, <3>1 DEF CurrentInv, AfterImage, Busy, Pure
    <2> QED
        BY <2>1, <2>2
<1>2. \A r \in Direct(p) \cup OutputRequires[o] : path[r] = Pure(source, <<"output", r>>)
    BY <1>0, RequiredRight DEF RightOutput
<1>3. UNION {path[r] : r \in Direct(p)} = Pairs(source, J)
    <2>1. UNION {Pure(source, <<"output", r>>) : r \in Direct(p)} = Pairs(source, J)
        BY PairsOfOutputs
    <2> QED
        BY <1>2, <2>1
<1>4. UNION {path[r] : r \in OutputRequires[o]} = Pairs(source, K)
    <2>1. UNION {Pure(source, <<"output", r>>) : r \in OutputRequires[o]} = Pairs(source, K)
        BY PairsOfOutputs
    <2> QED
        BY <1>2, <2>1
<1>5. Product(o) = {<<p, source[p]>>} \cup Pairs(source, I)
                       \cup UNION {path[r] : r \in Direct(p) \cup OutputRequires[o]}
    BY <1>0, <1>1 DEF Product, Direct
<1>6. UNION {path[r] : r \in Direct(p) \cup OutputRequires[o]}
        = Pairs(source, J) \cup Pairs(source, K)
    BY <1>3, <1>4
<1>7. Ingredients[<<"output", o>>] = {p} \cup I \cup J \cup K
    BY <1>0, OutputIngredients
<1>8. Pairs(source, {p}) = {<<p, source[p]>>}
    BY DEF Pairs
<1> HIDE DEF I, J, K
<1>9. Pairs(source, {p} \cup I \cup (J \cup K))
        = Pairs(source, {p}) \cup Pairs(source, I) \cup Pairs(source, J \cup K)
    BY PairsUnion
<1>10. Pairs(source, J \cup K \cup K)
        = Pairs(source, J) \cup Pairs(source, K) \cup Pairs(source, K)
    BY PairsUnion
<1>11. J \cup K \cup K = J \cup K /\ {p} \cup I \cup (J \cup K) = {p} \cup I \cup J \cup K
    OBVIOUS
<1> QED
    BY <1>5, <1>6, <1>7, <1>8, <1>9, <1>10, <1>11 DEF Pure

(* An output or image that the cache takes for current is: a file as its      *)
(* recorded content, a directory because it fits its recorded inputs.          *)
LEMMA CleanIsRight ==
    ASSUME TypeInv, OneCache, UnbrokenInv, Uninterrupted, CurrentInv, DirectoriesFit,
           pc = "select", NEW o \in Needed(Current) \cap Outputs, ~IsDirty(o, inputs[Current])
    PROVE  RightOutput(o)
<1>1. /\ cache.outputs[o] # None
      /\ cache.outputs[o].input = OutputInputs(o, inputs[Current])
      /\ o \notin Directories => cache.outputs[o].hash = path[o]
    BY DEF IsDirty
<1>2. cache.outputs[o].input = Pairs(source, OutputHashed[o])
    BY <1>1, OutputInputsAreHashed DEF Busy
<1> DEFINE D == Ingredients[<<"output", o>>]
           E == OutputHashed[o]
<1>3. D \subseteq E /\ AsHashed(o) \subseteq E /\ (o \notin Directories => AsHashed(o) = D)
    BY OutputIsHashed DEF AsHashed
<1>4. cache.outputs[o].hash = Pairs(source, AsHashed(o))
    <2>1. PICK s \in [Providers -> Versions] :
            /\ cache.outputs[o].input = Pairs(s, OutputHashed[o])
            /\ cache.outputs[o].hash = Pairs(s, AsHashed(o))
        BY <1>1 DEF CurrentInv, Recorded
    <2>2. Pairs(s, E) = Pairs(source, E)
        BY <1>2, <2>1
    <2> HIDE DEF D, E
    <2>3. Pairs(s, AsHashed(o)) = Pairs(source, AsHashed(o))
        BY <1>3, <2>2, Determined
    <2> QED
        BY <2>1, <2>3
<1>5. path[o] = Pairs(source, D)
    <2>1. CASE o \notin Directories
        BY <1>1, <1>3, <1>4, <2>1
    <2>2. CASE o \in Directories
        <3>1. saved.outputs[o] = cache.outputs[o] /\ Fits(o)
            BY <2>2 DEF OneCache, DirectoriesFit
        <3>2. backup[o] = None
            BY <2>2 DEF Uninterrupted, UnbrokenInv, Unbroken, Settled, WithTransaction,
                InTransaction
        <3>3. PICK s \in [Providers -> Versions] :
                /\ saved.outputs[o].input = Pairs(s, OutputHashed[o])
                /\ path[o] = Pure(s, <<"output", o>>)
            BY <1>1, <3>1, <3>2 DEF Fits, Preserved
        <3>4. Pairs(s, E) = Pairs(source, E) /\ path[o] = Pairs(s, D)
            BY <1>2, <3>1, <3>3 DEF Pure
        <3> HIDE DEF D, E
        <3>5. Pairs(s, D) = Pairs(source, D)
            BY <1>3, <3>4, Determined
        <3> QED
            BY <3>4, <3>5
    <2> QED
        BY <2>1, <2>2
<1> QED
    BY <1>4, <1>5 DEF RightOutput, Pure

LEMMA CurrentImageIsRight ==
    ASSUME TypeInv, CurrentInv, pc = "image", ImageIsCurrent(Current)
    PROVE  image[Current] = Pure(source, <<"image", Current>>)
<1>1. /\ Current \in Providers /\ inputs[Current] = Pairs(source, Hashed[Current])
    BY CurrentFacts DEF TypeInv, CurrentInv, Busy
<1>2. <<image[Current], inputs[Current]>> \in cache.images[Current]
    BY DEF ImageIsCurrent
<1>3. PICK s \in [Providers -> Versions] :
        image[Current] = Pure(s, <<"image", Current>>) /\ inputs[Current] = Pairs(s, Hashed[Current])
    BY <1>1, <1>2 DEF CurrentInv, Recorded
<1> DEFINE D == Ingredients[<<"image", Current>>]
           E == Hashed[Current]
<1>4. D \subseteq E /\ Pairs(s, E) = Pairs(source, E)
    BY <1>1, <1>3, ImageIsHashed
<1> HIDE DEF D, E
<1>5. Pairs(s, D) = Pairs(source, D)
    BY <1>4, Determined
<1> QED
    BY <1>3, <1>5 DEF Pure, D
-----------------------------------------------------------------------------
(* What is right stays right while only the current provider is touched.    *)
LEMMA HandledStayRight ==
    ASSUME TypeInv, CurrentInv, pc \notin {"idle", "built"},
           UNCHANGED <<targets, source>>,
           \A q \in Providers \ {Current} :
               inputs'[q] = inputs[q] /\ image'[q] = image[q],
           \A o \in Outputs : ProviderOf[o] # Current =>
               path'[o] = path[o] /\ cache'.outputs[o] = cache.outputs[o]
    PROVE  \A p \in Providers : Handled(p) => Right(p)'
<1>1. ~Handled(Current) /\ \A p \in Providers : Handled(p) => Right(p)
    BY CurrentFacts DEF TypeInv, CurrentInv
<1>2. ASSUME NEW p \in Providers, Handled(p) PROVE Right(p)'
    <2>1. Right(p) /\ p # Current
        BY <1>1, <1>2
    <2>2. Needed(p)' = Needed(p) /\ inputs'[p] = inputs[p] /\ image'[p] = image[p]
        BY <2>1 DEF Needed
    <2>3. \A o \in Needed(p) \cap Outputs :
            path'[o] = path[o] /\ cache'.outputs[o] = cache.outputs[o]
        BY <2>1 DEF Needed
    <2>4. \A o \in Needed(p) \cap Outputs : RightOutput(o) => RightOutput(o)'
        BY <2>3 DEF RightOutput
    <2> QED
        BY <2>1, <2>2, <2>4 DEF Right
<1> QED
    BY <1>2

LEMMA LeavesRight ==
    ASSUME TypeOK, NextProvider, NEW c, c = Current, Right(c)',
           \A p \in Providers : Handled(p) => Right(p)',
           Recorded(cache)', Recorded(saved)', LayersRight'
    PROVE  CurrentInv'
<1>1. pc' \in {"hash", "built"}
    BY DEF NextProvider
<1>2. ASSUME NEW p \in Providers, Handled(p)' PROVE Right(p)'
    <2>1. Handled(p) \/ p = c
        BY <1>2, HandledNext
    <2> QED
        BY <2>1
<1> QED
    BY <1>1, <1>2 DEF CurrentInv, Busy, AfterImage, Transacting

(* A provider is right when its image and all its outputs are. *)
LEMMA CurrentIsRight ==
    ASSUME CurrentInv, pc \in AfterImage, UNCHANGED <<source, targets, inputs, image>>,
           \A o \in Needed(Current) \cap Outputs : RightOutput(o)',
           NEW c, c = Current
    PROVE  Right(c)'
    BY DEF CurrentInv, Right, Needed, Pure, Pairs, AfterImage, Busy

(* A step within the transaction that touches dirty outputs only.           *)
LEMMA TransactionStaysRight ==
    ASSUME TypeInv, CurrentInv, pc \in Transacting, pc' \in Transacting,
           UNCHANGED <<source, image, layers, cache, saved, targets, at, inputs, dirty>>,
           \A o \in Outputs \ dirty : path'[o] = path[o]
    PROVE  /\ Recorded(cache)' /\ Recorded(saved)' /\ LayersRight'
           /\ \A p \in Providers : Handled(p)' => Right(p)'
           /\ inputs'[Current'] = Pairs(source, Hashed[Current])' /\ Current' = Current
           /\ Current \in Dockerfile =>
                image'[Current] = Pure(source, <<"image", Current>>)'
           /\ \A o \in (Needed(Current) \cap Outputs) \ dirty : RightOutput(o)'
           /\ Needed(Current)' = Needed(Current)
<1>1. pc \notin {"idle", "built"} /\ pc' # "built" /\ pc \in Busy /\ pc \in AfterImage
    BY DEF Transacting, AfterImage, Busy
<1>2. Current' = Current /\ Needed(Current)' = Needed(Current)
    BY DEF Current, Needed
<1>3. \A o \in Outputs : ProviderOf[o] # Current => path'[o] = path[o]
    BY DEF TypeInv, ProgressInv, Needed
<1>4. \A p \in Providers : Handled(p)' => Right(p)'
    BY <1>1, <1>3, HandledStayRight, HandledWithin
<1>5. Recorded(cache)' /\ Recorded(saved)' /\ LayersRight'
    BY DEF CurrentInv, Recorded, LayersRight, Pure, Pairs
<1>6. \A o \in (Needed(Current) \cap Outputs) \ dirty : RightOutput(o)'
    BY DEF CurrentInv, RightOutput
<1>7. /\ inputs'[Current] = Pairs(source, Hashed[Current])
      /\ Current \in Dockerfile => image'[Current] = Pure(source, <<"image", Current>>)
    BY <1>1 DEF CurrentInv
<1> QED
    BY <1>2, <1>4, <1>5, <1>6, <1>7 DEF Pure, Pairs

LEMMA CurrentInit == Init => CurrentInv
    BY DEF Init, CurrentInv, Recorded, LayersRight, EmptyCache, Handled, Busy, AfterImage,
        Transacting

(* A build that is left leaves nothing that could be wrong but what is saved. *)
LEMMA LeaveIsRight ==
    ASSUME Leave, Recorded(saved)', LayersRight'
    PROVE  CurrentInv'
    BY DEF Leave, CurrentInv, Recorded, EmptyCache, Handled, Busy, AfterImage, Transacting

LEMMA BuildsLayersRight ==
    ASSUME TypeInv, CurrentInv, pc = "image", BuildImage
    PROVE  /\ LayersRight'
           /\ image'[Current] = Pure(source, <<"image", Current>>)
           /\ \A q \in Providers \ {Current} : image'[q] = image[q]
<1>1. PICK b \in ImageResults(Current) :
        /\ image' = [image EXCEPT ![Current] = b]
        /\ layers' = [layers EXCEPT ![Current] = @ \cup {<<LayerKey(Current), b>>}]
    BY DEF BuildImage
<1>2. TypeOK /\ Current \in Providers
    BY CurrentFacts DEF TypeInv
<1>3. /\ b = Pure(source, <<"image", Current>>)
      /\ BuildRequires[Current] = {} => LayerKey(Current) = b
    BY BuildsRight
<1>4. image'[Current] = b /\ \A q \in Providers \ {Current} : image'[q] = image[q]
    BY <1>1, <1>2 DEF TypeOK
<1>5. ASSUME NEW p \in Providers, BuildRequires[p] = {}, NEW l \in layers'[p]
      PROVE  l[1] = l[2]
    <2>1. \A k \in layers[p] : k[1] = k[2]
        BY <1>5 DEF CurrentInv, LayersRight
    <2>2. p # Current => layers'[p] = layers[p]
        BY <1>1, <1>2 DEF TypeOK
    <2>3. p = Current => layers'[p] = layers[p] \cup {<<LayerKey(p), b>>}
        BY <1>1, <1>2 DEF TypeOK
    <2> QED
        BY <1>3, <1>5, <2>1, <2>2, <2>3
<1> QED
    BY <1>3, <1>4, <1>5 DEF LayersRight

LEMMA CurrentStep ==
    ASSUME SameSize = {}, TypeInv, OneCache, UnbrokenInv, Uninterrupted, CurrentInv,
           DirectoriesFit, [Next]_vars
    PROVE  CurrentInv'
<1>0. TypeOK /\ ProgressInv /\ Recorded(cache) /\ Recorded(saved) /\ LayersRight
    BY DEF TypeInv, CurrentInv
<1> USE DEF storage, progress, transaction
<1>a. ASSUME UNCHANGED <<saved, layers, cache>>
      PROVE  Recorded(cache)' /\ Recorded(saved)' /\ LayersRight'
    BY <1>0, <1>a DEF Recorded, LayersRight, Pure, Pairs
<1>1. CASE Edit \/ LoseImage
    <2>1. pc' = "idle" /\ at' = 1 /\ UNCHANGED <<cache, saved, layers>>
        BY <1>0, <1>1 DEF Edit, LoseImage, ProgressInv
    <2> QED
        BY <1>a, <2>1 DEF CurrentInv, Handled, Busy, AfterImage, Transacting
<1>2. CASE Start
    <2>1. pc' = "hash" /\ at' = 1 /\ cache' = saved /\ UNCHANGED <<saved, layers>>
        BY <1>2 DEF Start
    <2>2. Recorded(cache)' /\ Recorded(saved)' /\ LayersRight'
        BY <1>0, <2>1 DEF Recorded, LayersRight, Pure, Pairs
    <2> QED
        BY <2>1, <2>2 DEF CurrentInv, Handled, Busy, AfterImage, Transacting
<1>3. CASE RebuildImageUnrecorded
    <2>1. LayersRight'
        BY <1>3, BuildsLayersRight DEF RebuildImageUnrecorded
    <2>2. Leave /\ Recorded(saved)'
        BY <1>0, <1>3 DEF RebuildImageUnrecorded, Recorded, Pure, Pairs
    <2> QED
        BY <2>1, <2>2, LeaveIsRight
<1>4. CASE ImageFails \/ RolledBack \/ Complete \/ Crash
    <2>1. Leave /\ UNCHANGED <<saved, layers>>
        BY <1>4 DEF ImageFails, RolledBack, Complete, Crash
    <2>2. Recorded(saved)' /\ LayersRight'
        BY <1>0, <2>1 DEF Recorded, LayersRight, Pure, Pairs
    <2> QED
        BY <2>1, <2>2, LeaveIsRight
<1>6. CASE SkipProvider
    <2> PICK c : c = Current
        OBVIOUS
    <2>1. Right(c)'
        BY <1>6 DEF SkipProvider, Right, Needed
    <2>2. \A q \in Providers : Handled(q) => Right(q)'
        BY <1>6, HandledStayRight DEF SkipProvider
    <2> QED
        BY <1>0, <1>a, <1>6, <2>1, <2>2, LeavesRight DEF SkipProvider
<1>7. CASE HashInputs
    <2>1. /\ pc = "hash" /\ Needed(Current) # {} /\ Current \in Providers
          /\ PathInputs(Current) = Pairs(source, Hashed[Current])
        BY <1>0, <1>7, CurrentFacts, InputsAreHashed DEF HashInputs
    <2>2. /\ inputs'[Current] = Pairs(source, Hashed[Current])
          /\ \A q \in Providers \ {Current} : inputs'[q] = inputs[q]
        BY <1>0, <1>7, <2>1 DEF HashInputs, TypeOK
    <2>3. /\ cache'.images = cache.images /\ cache'.outputs = cache.outputs
          /\ UNCHANGED <<saved, layers>>
        BY <1>0, <1>7 DEF HashInputs, TypeOK, Caches
    <2>4. \A q \in Providers : Handled(q)' => Right(q)'
        BY <1>7, <2>1, <2>2, <2>3, HandledStayRight, HandledWithin DEF HashInputs
    <2>5. Recorded(cache)' /\ Recorded(saved)' /\ LayersRight'
        BY <1>0, <2>3 DEF Recorded, LayersRight, Pure, Pairs
    <2>6. /\ pc' = IF Current \in Dockerfile THEN "image" ELSE "select"
          /\ Current' = Current /\ source' = source
        BY <1>7 DEF HashInputs, Current
    <2> QED
        BY <2>2, <2>4, <2>5, <2>6 DEF CurrentInv, Busy, AfterImage, Transacting
<1>8. CASE KeepImage
    <2>1. image[Current] = Pure(source, <<"image", Current>>)
        BY <1>8, CurrentImageIsRight DEF KeepImage
    <2>2. \A q \in Providers : Handled(q)' => Right(q)'
        BY <1>8, HandledStayRight, HandledWithin DEF KeepImage
    <2>3. /\ Current' = Current /\ pc' = "select"
          /\ UNCHANGED <<saved, layers, cache, source, inputs, image>>
          /\ inputs[Current] = Pairs(source, Hashed[Current])
        BY <1>8 DEF KeepImage, Current, CurrentInv, Busy
    <2> QED
        BY <1>a, <2>1, <2>2, <2>3 DEF CurrentInv, Busy, AfterImage, Transacting, Pure, Pairs
<1>9. CASE RebuildImage
    <2>1. /\ LayersRight' /\ image'[Current] = Pure(source, <<"image", Current>>)
          /\ \A q \in Providers \ {Current} : image'[q] = image[q]
        BY <1>9, BuildsLayersRight DEF RebuildImage
    <2>2. /\ pc = "image" /\ Current \in Providers
          /\ inputs[Current] = Pairs(source, Hashed[Current])
        BY <1>0, <1>9, CurrentFacts DEF RebuildImage, CurrentInv, Busy
    <2>3. /\ cache'.outputs = cache.outputs
          /\ \A q \in Providers : \A e \in cache'.images[q] :
                \/ e \in cache.images[q]
                \/ q = Current /\ e = <<image'[Current], inputs[Current]>>
        BY <1>0, <1>9, <2>2 DEF RebuildImage, TypeOK, Caches
    <2>4. /\ Current' = Current /\ pc' = "select" /\ saved' = cache'
          /\ UNCHANGED <<source, inputs>>
        BY <1>9 DEF RebuildImage, Current
    <2>5. \A q \in Providers : Handled(q)' => Right(q)'
        BY <1>9, <2>1, <2>2, <2>3, HandledStayRight, HandledWithin DEF RebuildImage
    <2>6. source \in [Providers -> Versions]
        BY <1>0 DEF TypeOK
    <2>7. Recorded(cache')
        BY <1>0, <2>1, <2>2, <2>3, <2>6 DEF Recorded
    <2>8. Recorded(cache)' /\ Recorded(saved)'
        BY <2>4, <2>7 DEF Recorded, Pure, Pairs
    <2> QED
        BY <2>1, <2>2, <2>4, <2>5, <2>8
        DEF CurrentInv, Busy, AfterImage, Transacting, Pure, Pairs
<1>10. CASE SkipClean
    <2> PICK c : c = Current
        OBVIOUS
    <2>1. pc = "select" /\ \A o \in Needed(Current) \cap Outputs : ~IsDirty(o, inputs[Current])
        BY <1>10 DEF SkipClean, DirtyOutputs
    <2>2. \A o \in Needed(Current) \cap Outputs : RightOutput(o)'
        BY <1>10, <2>1, CleanIsRight DEF SkipClean, RightOutput, Pure, Pairs
    <2>3. Right(c)'
        BY <1>10, <2>1, <2>2, CurrentIsRight DEF SkipClean, AfterImage, Busy
    <2>4. \A q \in Providers : Handled(q) => Right(q)'
        BY <1>10, HandledStayRight DEF SkipClean
    <2> QED
        BY <1>0, <1>a, <1>10, <2>3, <2>4, LeavesRight DEF SkipClean
<1>11. CASE SelectDirty
    <2>1. /\ pc = "select" /\ pc' = "begin" /\ dirty' = DirtyOutputs /\ todo' = dirty'
          /\ Current' = Current /\ Needed(Current)' = Needed(Current)
          /\ UNCHANGED <<saved, layers, cache, source, inputs, image, path>>
        BY <1>11 DEF SelectDirty, Current, Needed
    <2>2. \A o \in (Needed(Current) \cap Outputs) \ dirty' : ~IsDirty(o, inputs[Current])
        BY <2>1 DEF DirtyOutputs
    <2>3. \A o \in (Needed(Current) \cap Outputs) \ dirty' : RightOutput(o)'
        BY <2>1, <2>2, CleanIsRight DEF RightOutput, Pure, Pairs
    <2>4. \A q \in Providers : Handled(q)' => Right(q)'
        BY <1>11, HandledStayRight, HandledWithin DEF SelectDirty
    <2>5. /\ inputs[Current] = Pairs(source, Hashed[Current])
          /\ Current \in Dockerfile => image[Current] = Pure(source, <<"image", Current>>)
        BY <2>1 DEF CurrentInv, Busy, AfterImage
    <2> QED
        BY <1>a, <2>1, <2>3, <2>4, <2>5
        DEF CurrentInv, Busy, AfterImage, Transacting, Pure, Pairs
<1>12. CASE BeginTransaction
    <2>1. NextOutput \in todo /\ dirty' = dirty /\ dirty \subseteq Outputs /\ todo \subseteq dirty
        BY <1>12, NextOutputInTodo
        DEF BeginTransaction, RemoveInterrupted, RestoreInterrupted, SetAside,
            NothingToKeep, TypeInv, Shape
    <2>2. \A o \in Outputs \ {NextOutput} : path'[o] = path[o]
        BY <1>0, <1>12, <2>1
        DEF BeginTransaction, RemoveInterrupted, RestoreInterrupted, SetAside,
            NothingToKeep, TypeOK
    <2>3. NextOutput \notin todo' => path'[NextOutput] = None /\ todo' = todo \ {NextOutput}
        BY <1>0, <1>12, <2>1
        DEF BeginTransaction, RemoveInterrupted, RestoreInterrupted, SetAside,
            NothingToKeep, TypeOK
    <2>4. todo' = todo \/ todo' = todo \ {NextOutput}
        BY <1>12
        DEF BeginTransaction, RemoveInterrupted, RestoreInterrupted, SetAside, NothingToKeep
    <2>5. \A o \in dirty' \ todo' : path'[o] = None
        BY <1>12, <2>1, <2>2, <2>3, <2>4 DEF BeginTransaction, CurrentInv
    <2> QED
        BY <1>12, <2>1, <2>2, <2>5, TransactionStaysRight
        DEF BeginTransaction, CurrentInv, Transacting, AfterImage, Busy
<1>13. CASE StartContainer
    <2>1. \A o \in dirty : path[o] = None
        BY <1>13 DEF StartContainer, CurrentInv
    <2> QED
        BY <1>13, <2>1, TransactionStaysRight
        DEF StartContainer, CurrentInv, Transacting, AfterImage, Busy
<1>14. CASE WriteOutput
    <2>1. PICK o \in dirty : \E x \in {Partial, Product(o)} : path' = [path EXCEPT ![o] = x]
        BY <1>14 DEF WriteOutput
    <2>2. pc = "run" /\ Product(o) = Pure(source, <<"output", o>>) /\ o \in Outputs
        BY <1>0, <1>14, MakesRight DEF WriteOutput, TypeOK
    <2>3. /\ path'[o] \in {Partial, Pure(source, <<"output", o>>)}
          /\ \A q \in Outputs \ {o} : path'[q] = path[q]
        BY <1>0, <2>1, <2>2 DEF TypeOK
    <2>4. /\ pc' = "run" /\ dirty \subseteq Outputs
          /\ UNCHANGED <<source, image, layers, cache, saved, targets, at, inputs, dirty>>
        BY <1>0, <1>14 DEF WriteOutput, TypeOK
    <2>5. \A q \in dirty' : path'[q] \in {None, Partial, Pure(source, <<"output", q>>)}
        BY <2>2, <2>3, <2>4 DEF CurrentInv
    <2> QED
        BY <2>2, <2>3, <2>4, <2>5, TransactionStaysRight
        DEF CurrentInv, Transacting, AfterImage, Busy, Pure, Pairs
<1>15. CASE ContainerSucceeds
    <2>1. \A o \in dirty : path[o] \in {None, Pure(source, <<"output", o>>)}
        BY <1>15 DEF ContainerSucceeds, CurrentInv
    <2> QED
        BY <1>15, <2>1, TransactionStaysRight
        DEF ContainerSucceeds, CurrentInv, Transacting, AfterImage, Busy, Pure, Pairs
<1>16. CASE ContainerFails
    BY <1>16, TransactionStaysRight
    DEF ContainerFails, CurrentInv, Transacting, AfterImage, Busy
<1>17. CASE VerifyOutputs
    <2>1. pc' = "commit" => \A o \in dirty : path[o] = Pure(source, <<"output", o>>)
        BY <1>17 DEF VerifyOutputs, CurrentInv
    <2>2. pc' \in {"commit", "rollback"}
        BY <1>17 DEF VerifyOutputs
    <2> QED
        BY <1>17, <2>1, <2>2, TransactionStaysRight
        DEF VerifyOutputs, CurrentInv, Transacting, AfterImage, Busy, Pure, Pairs
<1>18. CASE CommitOutput
    <2>1. \A o \in dirty : path[o] = Pure(source, <<"output", o>>)
        BY <1>18 DEF CommitOutput, CurrentInv
    <2> QED
        BY <1>18, <2>1, TransactionStaysRight
        DEF CommitOutput, CurrentInv, Transacting, AfterImage, Busy, Pure, Pairs
<1>19. CASE RollbackOutput
    <2>1. NextOutput \in dirty
        BY <1>19, NextOutputInTodo DEF RollbackOutput, TypeInv, Shape
    <2>2. \A o \in Outputs \ dirty : path'[o] = path[o]
        BY <1>0, <1>19, <2>1 DEF RollbackOutput, TypeOK
    <2> QED
        BY <1>19, <2>2, TransactionStaysRight
        DEF RollbackOutput, CurrentInv, Transacting, AfterImage, Busy
<1>20. CASE RecordOutputs
    <2> PICK c : c = Current
        OBVIOUS
    <2>1. /\ pc = "commit" /\ pc \in Transacting /\ pc \in AfterImage /\ pc \in Busy
          /\ dirty \subseteq Needed(Current) \cap Outputs
        BY <1>0, <1>20 DEF RecordOutputs, ProgressInv, Busy, AfterImage, Transacting
    <2>2. \A o \in Needed(Current) \cap Outputs : path[o] = Pure(source, <<"output", o>>)
        BY <2>1 DEF CurrentInv, RightOutput
    <2>3. /\ \A o \in dirty : cache'.outputs[o] = OutputEntry(o, inputs[Current])
          /\ \A o \in Outputs \ dirty : cache'.outputs[o] = cache.outputs[o]
          /\ cache'.images = cache.images /\ saved' = cache'
        BY <1>0, <1>20 DEF RecordOutputs, TypeOK, Caches
    <2>4. \A o \in dirty :
            /\ cache'.outputs[o].input = Pairs(source, OutputHashed[o])
            /\ cache'.outputs[o].hash = Pairs(source, AsHashed(o))
        <3> TAKE o \in dirty
        <3>1. OutputInputs(o, inputs[Current]) = Pairs(source, OutputHashed[o])
            BY <2>1, OutputInputsAreHashed
        <3>2. /\ OutputEntry(o, inputs[Current]).input = OutputInputs(o, inputs[Current])
              /\ OutputEntry(o, inputs[Current]).hash =
                    IF o \in Directories THEN OutputInputs(o, inputs[Current]) ELSE path[o]
            BY DEF OutputEntry
        <3> QED
            BY <2>1, <2>2, <2>3, <3>1, <3>2 DEF AsHashed, Pure
    <2>5. \A o \in Needed(Current) \cap Outputs : RightOutput(o)'
        <3>1. \A o \in Needed(Current) \cap Outputs :
                cache'.outputs[o].hash = Pairs(source, AsHashed(o))
            BY <2>1, <2>3, <2>4 DEF CurrentInv, RightOutput
        <3> QED
            BY <1>20, <2>2, <3>1 DEF RecordOutputs, RightOutput, Pure, Pairs
    <2>6. Right(c)' /\ \A q \in Providers : Handled(q) => Right(q)'
        <3>1. \A o \in Outputs : ProviderOf[o] # Current => cache'.outputs[o] = cache.outputs[o]
            BY <2>1, <2>3 DEF Needed
        <3>2. Right(c)'
            BY <1>20, <2>1, <2>5, CurrentIsRight DEF RecordOutputs
        <3> QED
            BY <1>20, <3>1, <3>2, HandledStayRight DEF RecordOutputs
    <2>7. source \in [Providers -> Versions]
        BY <1>0 DEF TypeOK
    <2>8. Recorded(cache')
        BY <1>0, <2>3, <2>4, <2>7 DEF Recorded
    <2>9. Recorded(cache)' /\ Recorded(saved)' /\ LayersRight'
        BY <1>0, <1>20, <2>3, <2>8 DEF RecordOutputs, Recorded, LayersRight, Pure, Pairs
    <2> QED
        BY <1>0, <1>20, <2>6, <2>9, LeavesRight DEF RecordOutputs
<1>21. CASE UNCHANGED vars
    BY <1>a, <1>21
    DEF vars, CurrentInv, Handled, Right, RightOutput, Needed, Current, Pure, Pairs
<1> QED
    BY <1>1, <1>2, <1>3, <1>4, <1>6, <1>7, <1>8, <1>9, <1>10, <1>11, <1>12, <1>13,
       <1>14, <1>15, <1>16, <1>17, <1>18, <1>19, <1>20, <1>21 DEF Next, Step

(* Nor does a step let a directory go that fits its record: what the           *)
(* transactions preserve of a recorded one is whole, and stays what it is      *)
(* until the replacement is verified.                                         *)
LEMMA FitStep ==
    ASSUME TypeInv, KeptInv, UnbrokenInv, UnbrokenInv', Uninterrupted, Uninterrupted',
           CurrentInv, DirectoriesFit, [Next]_vars
    PROVE  DirectoriesFit'
<1> SUFFICES ASSUME NEW o \in Directories, ~(pc' = "commit" /\ o \in dirty') PROVE Fits(o)'
    BY DEF DirectoriesFit
<1> USE DEF storage, progress, transaction
<1>0. /\ TypeOK /\ Shape /\ ProgressInv /\ OneCache /\ o \in Outputs
      /\ crashes = 0 /\ crashes' = 0 /\ crashes \in Nat
    BY GraphAssumption
    DEF TypeInv, KeptInv, Uninterrupted, UnbrokenInv
<1>1. Unbroken(o)
    BY <1>0 DEF UnbrokenInv
<1>2. ASSUME saved'.outputs[o] = saved.outputs[o],
             saved.outputs[o] # None => Preserved(o)' = Preserved(o),
             ~(pc = "commit" /\ o \in dirty)
      PROVE  Fits(o)'
    <2>1. Fits(o)
        BY <1>2 DEF DirectoriesFit
    <2> QED
        BY <1>2, <2>1 DEF Fits, Pure, Pairs
<1>3. CASE Edit \/ LoseImage \/ Start \/ UNCHANGED vars
    BY <1>0, <1>2, <1>3 DEF Edit, LoseImage, Start, vars, ProgressInv, Preserved
<1>4. CASE SkipProvider \/ SkipClean \/ HashInputs \/ KeepImage
    BY <1>2, <1>4 DEF SkipProvider, SkipClean, HashInputs, KeepImage, Preserved
<1>5. CASE RebuildImage
    <2>1. saved'.outputs = cache.outputs /\ cache.outputs = saved.outputs
        BY <1>0, <1>5 DEF RebuildImage, OneCache, Shape, Record
    <2> QED
        BY <1>2, <1>5, <2>1 DEF RebuildImage, Preserved
<1>6. CASE ImageFails \/ RolledBack \/ Complete
    BY <1>2, <1>6 DEF ImageFails, RolledBack, Complete, Preserved
<1>7. CASE SelectDirty \/ StartContainer \/ ContainerSucceeds \/ ContainerFails
    BY <1>2, <1>7 DEF SelectDirty, StartContainer, ContainerSucceeds, ContainerFails, Preserved
<1>8. CASE BeginTransaction
    BY <1>0, <1>1, <1>2, <1>8, NextOutputInTodo
    DEF BeginTransaction, RemoveInterrupted, RestoreInterrupted, SetAside, NothingToKeep,
        Shape, Preserved, Unbroken, Settled, IsWhole
<1>9. CASE WriteOutput
    BY <1>0, <1>1, <1>2, <1>9
    DEF WriteOutput, Shape, Preserved, Unbroken, SetApart, IsWhole
<1>10. CASE VerifyOutputs
    BY <1>2, <1>10 DEF VerifyOutputs, Preserved
<1>11. CASE CommitOutput
    <2>1. o \notin dirty /\ NextOutput \in dirty
        BY <1>0, <1>11, NextOutputInTodo DEF CommitOutput, Shape
    <2> QED
        BY <1>0, <1>2, <1>11, <2>1 DEF CommitOutput, Shape, Preserved
<1>12. CASE RollbackOutput
    BY <1>0, <1>1, <1>2, <1>12, NextOutputInTodo
    DEF RollbackOutput, Shape, Preserved, Unbroken, Settled, SetApart, IsWhole, WithTransaction,
        InTransaction
<1>13. CASE RecordOutputs
    <2>1. /\ pc = "commit" /\ todo = {} /\ pc \in Transacting /\ pc \in Busy
          /\ dirty \subseteq Needed(Current) \cap Outputs /\ UNCHANGED <<path, backup>>
        BY <1>0, <1>13
        DEF RecordOutputs, ProgressInv, Busy, AfterImage, Transacting
    <2>2. /\ o \in dirty => saved'.outputs[o] = OutputEntry(o, inputs[Current])
          /\ o \notin dirty => saved'.outputs[o] = cache.outputs[o]
          /\ cache.outputs = saved.outputs
        BY <1>0, <1>13, <2>1 DEF RecordOutputs, Shape, Record, OneCache
    <2>3. CASE o \notin dirty
        BY <1>2, <2>1, <2>2, <2>3 DEF Preserved
    <2>4. CASE o \in dirty
        <3>1. saved'.outputs[o].input = Pairs(source, OutputHashed[o])
            BY <2>1, <2>2, <2>4, OutputInputsAreHashed DEF OutputEntry
        <3>2. path[o] = Pure(source, <<"output", o>>) /\ backup[o] = None
            BY <1>0, <1>1, <2>1, <2>4 DEF CurrentInv, Unbroken
        <3>3. source \in [Providers -> Versions]
            BY <1>0 DEF TypeOK
        <3> QED
            BY <2>1, <3>1, <3>2, <3>3 DEF Fits, Preserved, Pure, Pairs
    <2> QED
        BY <2>3, <2>4
<1>14. CASE RebuildImageUnrecorded \/ Crash
    BY <1>0, <1>14 DEF RebuildImageUnrecorded, Crash
<1> QED
    BY <1>3, <1>4, <1>5, <1>6, <1>7, <1>8, <1>9, <1>10, <1>11, <1>12, <1>13, <1>14
    DEF Next, Step

LEMMA CurrencyInvHolds ==
    ASSUME SameSize = {}
    PROVE  Spec => []CurrencyInv
<1>1. Init => CurrencyInv
    <2>1. Init => \A o \in Outputs : saved.outputs[o] = None
        BY DEF Init, EmptyCache
    <2>2. Init => DirectoriesFit
        BY <2>1, GraphAssumption DEF DirectoriesFit, Fits
    <2> QED
        BY <2>2, CurrentInit DEF CurrencyInv
<1>2. KeptInv /\ UnbrokenInv /\ UnbrokenInv' /\ TypeInv /\ CurrencyInv /\ [Next]_vars
        => CurrencyInv'
    <2> SUFFICES ASSUME KeptInv, UnbrokenInv, UnbrokenInv', TypeInv, CurrencyInv, [Next]_vars,
                        Uninterrupted'
                 PROVE  CurrentInv' /\ DirectoriesFit'
        BY DEF CurrencyInv
    <2>1. crashes' = crashes \/ crashes' = crashes + 1
        BY DEF Next, Step, vars, storage, progress, transaction, Edit, LoseImage, Start,
            SkipProvider, HashInputs, KeepImage, RebuildImage, RebuildImageUnrecorded,
            ImageFails, SkipClean, SelectDirty, BeginTransaction, StartContainer, WriteOutput,
            ContainerSucceeds, ContainerFails, VerifyOutputs, CommitOutput, RollbackOutput,
            RolledBack, RecordOutputs, Complete, Crash
    <2>2. Uninterrupted
        BY <2>1 DEF Uninterrupted, UnbrokenInv
    <2>3. CurrentInv /\ DirectoriesFit /\ OneCache
        BY <2>2 DEF CurrencyInv, KeptInv
    <2> QED
        BY <2>2, <2>3, CurrentStep, FitStep
<1> QED
    BY <1>1, <1>2, KeptInvHolds, UnbrokenInvHolds, TypeInvHolds, PTL DEF Spec

LEMMA CurrentIsFresh == CurrentInv => SuccessIsCurrent
<1> SUFFICES ASSUME CurrentInv, pc = "built", NEW o \in targets \cap Outputs
             PROVE  path[o] = Fresh(o)
    BY DEF SuccessIsCurrent
<1>1. ProviderOf[o] \in Providers /\ o \in Needed(ProviderOf[o])
    BY GraphAssumption DEF Artefacts, Needed
<1>2. Right(ProviderOf[o])
    BY <1>1, OrderFacts DEF CurrentInv, Handled
<1>3. path[o] = Pure(source, <<"output", o>>)
    BY <1>1, <1>2 DEF Right, RightOutput
<1> QED
    BY <1>3 DEF Fresh, Pure, Pairs

(* Where outputs are files and a change of a file changes its size or time   *)
(* stamp, a build that reports success leaves every output it was asked for   *)
(* as a build from nothing would make it, whatever was edited, lost, failed   *)
(* or interrupted before: no hash, image or layer takes a stale one for it.   *)
THEOREM SuccessIsFresh ==
    ASSUME Directories = {}, SameSize = {}
    PROVE  Spec => []SuccessIsCurrent
<1>1. CurrencyInv => SuccessIsCurrent
    BY CurrentIsFresh DEF CurrencyInv, Uninterrupted
<1> QED
    BY <1>1, CurrencyInvHolds, PTL

(* As long as no build is interrupted the same holds of directories, which    *)
(* the cache knows by the inputs they were made of and never by what is in     *)
(* them: a failed build puts the recorded one back, and the identity that      *)
(* others hash in its place determines its content.                          *)
THEOREM SuccessIsFreshUninterrupted ==
    ASSUME SameSize = {}
    PROVE  Spec => []CurrentUnlessInterrupted
<1>1. CurrencyInv => CurrentUnlessInterrupted
    BY CurrentIsFresh DEF CurrencyInv, Uninterrupted, CurrentUnlessInterrupted
<1> QED
    BY <1>1, CurrencyInvHolds, PTL
-----------------------------------------------------------------------------
(* What a build has left to do: the providers, the steps of the current one, and  *)
(* in its loops the outputs, each with what is still to be removed of it.         *)
StagesLeft ==
    CASE pc = "hash" -> 7
      [] pc = "image" -> 6
      [] pc = "select" -> 5
      [] pc = "begin" -> 4
      [] pc = "run" -> 3
      [] pc = "verify" -> 2
      [] pc \in {"commit", "rollback"} -> 1
Looping == {"begin", "commit", "rollback"}
Removable(content) == IF content = None THEN 0 ELSE IF content = Partial THEN 1 ELSE 2
Containing(content) == {o \in dirty : path[o] = content}
Outstanding ==
    IF pc = "run" THEN Cardinality(Containing(None))
    ELSE IF pc \in Looping THEN Cardinality(todo) ELSE 0
OfNextOutput ==
    IF pc = "run" THEN Cardinality(Containing(Partial))
    ELSE IF pc \notin Looping \/ todo = {} THEN 0
    ELSE IF pc = "begin"
         THEN IF backup[NextOutput] = None THEN 0 ELSE 1 + Removable(path[NextOutput])
    ELSE IF pc = "commit" THEN Removable(backup[NextOutput]) ELSE Removable(path[NextOutput])
Countdown ==
    IF pc = "idle" THEN <<0, 0, 0, 0>>
    ELSE IF pc = "built" THEN <<1, 0, 0, 0>>
    ELSE <<Len(Order) - at + 2, StagesLeft, Outstanding, OfNextOutput>>

LEMMA OutputSets ==
    ASSUME TypeInv
    PROVE  /\ IsFiniteSet(todo) /\ Cardinality(todo) \in Nat
           /\ \A c : IsFiniteSet(Containing(c)) /\ Cardinality(Containing(c)) \in Nat
<1>1. todo \in SUBSET Outputs /\ \A c : Containing(c) \in SUBSET Outputs
    BY DEF TypeInv, TypeOK, Containing
<1>2. \A S \in SUBSET Outputs : IsFiniteSet(S) /\ Cardinality(S) \in Nat
    BY OutputsAssumption, FS_Subset, FS_CardinalityType
<1> QED
    BY <1>1, <1>2

LEMMA CountdownType ==
    ASSUME TypeInv
    PROVE  Countdown \in Fours /\ (Countdown[1] = 0 => pc = "idle")
<1>1. pc \in Labels /\ at \in 1..Len(Order) /\ Len(Order) \in Nat
    BY OrderFacts DEF TypeInv, TypeOK
<1>2. CASE pc = "idle"
    BY <1>2 DEF Countdown, Fours
<1>3. CASE pc = "built"
    BY <1>3 DEF Countdown, Fours
<1>4. CASE pc \notin {"idle", "built"}
    <2>1. StagesLeft \in Nat
        BY <1>1, <1>4 DEF StagesLeft, Labels
    <2>2. Outstanding \in Nat
        BY OutputSets DEF Outstanding
    <2>3. OfNextOutput \in Nat
        <3>1. \A c : Removable(c) \in Nat /\ 1 + Removable(c) \in Nat
            BY DEF Removable
        <3> QED
            BY <3>1, OutputSets DEF OfNextOutput
    <2>4. Len(Order) - at + 2 \in Nat /\ Len(Order) - at + 2 # 0
        BY <1>1
    <2>5. Countdown = <<Len(Order) - at + 2, StagesLeft, Outstanding, OfNextOutput>>
        BY <1>4 DEF Countdown
    <2> QED
        BY <2>1, <2>2, <2>3, <2>4, <2>5 DEF Fours
<1> QED
    BY <1>2, <1>3, <1>4

(* The ways to go down: the build ends, the next provider is taken, the next step   *)
(* of this one, or the next output of a loop.                                     *)
LEMMA BuildGoesDown ==
    ASSUME TypeInv, pc # "idle",
           \/ pc' = "idle"
           \/ pc # "built" /\ pc' = "built"
           \/ pc # "built" /\ pc' = "hash" /\ at' = at + 1
           \/ /\ pc # "built" /\ pc' \notin {"idle", "built"} /\ at' = at
              /\ \/ StagesLeft' < StagesLeft
                 \/ StagesLeft' = StagesLeft /\ Outstanding' < Outstanding
                 \/ /\ StagesLeft' = StagesLeft /\ Outstanding' = Outstanding
                    /\ OfNextOutput' < OfNextOutput
    PROVE  Lower(Countdown', Countdown)
<1>1. at \in 1..Len(Order) /\ Len(Order) \in Nat
    BY OrderFacts DEF TypeInv, TypeOK
<1> DEFINE left == Len(Order) - at + 2
<1>2. left > 1 /\ left > 0 /\ Len(Order) - (at + 1) + 2 < left
    BY <1>1
<1>3. pc # "built" => Countdown = <<left, StagesLeft, Outstanding, OfNextOutput>>
    BY DEF Countdown
<1>4. pc = "built" => Countdown = <<1, 0, 0, 0>>
    BY DEF Countdown
<1>5. pc' \notin {"idle", "built"} =>
        Countdown' = <<Len(Order) - at' + 2, StagesLeft', Outstanding', OfNextOutput'>>
    BY DEF Countdown
<1>6. /\ pc' = "idle" => Countdown' = <<0, 0, 0, 0>>
      /\ pc' = "built" => Countdown' = <<1, 0, 0, 0>>
    BY DEF Countdown
<1>7. CASE pc' = "idle"
    BY <1>2, <1>3, <1>4, <1>6, <1>7 DEF Lower
<1>8. CASE pc # "built" /\ pc' = "built"
    BY <1>2, <1>3, <1>6, <1>8 DEF Lower
<1>9. CASE pc # "built" /\ pc' = "hash" /\ at' = at + 1
    BY <1>2, <1>3, <1>5, <1>9 DEF Lower
<1>10. CASE /\ pc # "built" /\ pc' \notin {"idle", "built"} /\ at' = at
            /\ \/ StagesLeft' < StagesLeft
               \/ StagesLeft' = StagesLeft /\ Outstanding' < Outstanding
               \/ /\ StagesLeft' = StagesLeft /\ Outstanding' = Outstanding
                  /\ OfNextOutput' < OfNextOutput
    <2>1. Countdown' = <<left, StagesLeft', Outstanding', OfNextOutput'>>
        BY <1>5, <1>10
    <2> HIDE DEF left
    <2> QED
        BY <1>3, <1>10, <2>1 DEF Lower
<1> QED
    BY <1>7, <1>8, <1>9, <1>10

(* The steps between the loops. *)
LEMMA StepsGoDown ==
    ASSUME TypeInv,
           \/ SkipProvider \/ HashInputs \/ KeepImage \/ RebuildImage \/ SkipClean \/ SelectDirty
           \/ StartContainer \/ ContainerSucceeds \/ ContainerFails \/ VerifyOutputs
           \/ RecordOutputs
    PROVE  Lower(Countdown', Countdown)
<1>1. CASE HashInputs
    <2>1. pc = "hash" /\ pc' \in {"image", "select"} /\ at' = at
        BY <1>1 DEF HashInputs
    <2>2. StagesLeft' < StagesLeft
        BY <2>1 DEF StagesLeft
    <2> QED
        BY <2>1, <2>2, BuildGoesDown
<1>2. CASE KeepImage \/ RebuildImage
    <2>1. pc = "image" /\ pc' = "select" /\ at' = at
        BY <1>2 DEF KeepImage, RebuildImage, progress
    <2>2. StagesLeft' < StagesLeft
        BY <2>1 DEF StagesLeft
    <2> QED
        BY <2>1, <2>2, BuildGoesDown
<1>3. CASE SelectDirty
    <2>1. pc = "select" /\ pc' = "begin" /\ at' = at
        BY <1>3 DEF SelectDirty, progress
    <2>2. StagesLeft' < StagesLeft
        BY <2>1 DEF StagesLeft
    <2> QED
        BY <2>1, <2>2, BuildGoesDown
<1>4. CASE StartContainer
    <2>1. pc = "begin" /\ pc' = "run" /\ at' = at
        BY <1>4 DEF StartContainer, progress
    <2>2. StagesLeft' < StagesLeft
        BY <2>1 DEF StagesLeft
    <2> QED
        BY <2>1, <2>2, BuildGoesDown
<1>5. CASE ContainerSucceeds \/ ContainerFails
    <2>1. pc = "run" /\ pc' \in {"verify", "rollback"} /\ at' = at
        BY <1>5 DEF ContainerSucceeds, ContainerFails, progress
    <2>2. StagesLeft' < StagesLeft
        BY <2>1 DEF StagesLeft
    <2> QED
        BY <2>1, <2>2, BuildGoesDown
<1>6. CASE VerifyOutputs
    <2>1. pc = "verify" /\ pc' \in {"commit", "rollback"} /\ at' = at
        BY <1>6 DEF VerifyOutputs, progress
    <2>2. StagesLeft' < StagesLeft
        BY <2>1 DEF StagesLeft
    <2> QED
        BY <2>1, <2>2, BuildGoesDown
<1>7. CASE SkipProvider \/ SkipClean \/ RecordOutputs
    <2>1. pc \in {"hash", "select", "commit"} /\ NextProvider
        BY <1>7 DEF SkipProvider, SkipClean, RecordOutputs
    <2>2. pc' = "built" \/ (pc' = "hash" /\ at' = at + 1)
        BY <2>1 DEF NextProvider
    <2> QED
        BY <2>1, <2>2, BuildGoesDown
<1> QED
    BY <1>1, <1>2, <1>3, <1>4, <1>5, <1>6, <1>7

(* The build is left. *)
LEMMA LeavingGoesDown ==
    ASSUME TypeInv, pc # "idle",
           \/ RebuildImageUnrecorded \/ ImageFails \/ RolledBack \/ Complete \/ Crash
    PROVE  Lower(Countdown', Countdown)
<1>1. pc' = "idle"
    BY DEF RebuildImageUnrecorded, ImageFails, RolledBack, Complete, Crash, Leave
<1> QED
    BY <1>1, BuildGoesDown

LEMMA FewerOutputs ==
    ASSUME NEW S, IsFiniteSet(S), NEW T, T \subseteq S, T # S
    PROVE  Cardinality(T) < Cardinality(S)
<1>1. IsFiniteSet(T) /\ Cardinality(T) <= Cardinality(S) /\ Cardinality(T) # Cardinality(S)
    BY FS_Subset
<1>2. Cardinality(T) \in Nat /\ Cardinality(S) \in Nat
    BY <1>1, FS_CardinalityType
<1> QED
    BY <1>1, <1>2

LEMMA RemovalRemoves ==
    ASSUME NEW o, NEW content, content # None, NEW c \in Removals(o, content), Partial # None
    PROVE  Removable(c) < Removable(content)
BY DEF Removals, Removable

LEMMA BeginGoesDown ==
    ASSUME TypeInv, BeginTransaction
    PROVE  Lower(Countdown', Countdown)
<1> DEFINE o == NextOutput
<1>1. /\ pc = "begin" /\ pc' = pc /\ at' = at /\ todo # {} /\ o \in todo /\ o \in Outputs
      /\ RemoveInterrupted(o) \/ RestoreInterrupted(o) \/ SetAside(o) \/ NothingToKeep(o)
    BY NextOutputInTodo DEF BeginTransaction, progress, TypeInv, TypeOK
<1>2. StagesLeft' = StagesLeft
    BY <1>1 DEF StagesLeft
<1>3. Partial # None
    BY NoneAssumption DEF Partial
<1>4. Outstanding = Cardinality(todo) /\ Outstanding' = Cardinality(todo')
    BY <1>1 DEF Outstanding, Looping
<1>5. CASE SetAside(o) \/ NothingToKeep(o)
    <2>1. todo' \subseteq todo /\ todo' # todo
        BY <1>1, <1>5 DEF SetAside, NothingToKeep
    <2>2. Outstanding' < Outstanding
        BY <1>4, <2>1, OutputSets, FewerOutputs
    <2> QED
        BY <1>1, <1>2, <2>2, BuildGoesDown
<1>6. CASE RemoveInterrupted(o) \/ RestoreInterrupted(o)
    <2>1. todo' = todo /\ NextOutput' = o
        BY <1>6 DEF RemoveInterrupted, RestoreInterrupted, transaction, NextOutput
    <2>2. /\ OfNextOutput = (IF backup[o] = None THEN 0 ELSE 1 + Removable(path[o]))
          /\ OfNextOutput' = (IF backup'[o] = None THEN 0 ELSE 1 + Removable(path'[o]))
        BY <1>1, <2>1 DEF OfNextOutput, Looping, Removable
    <2>3. OfNextOutput' < OfNextOutput
        <3>1. CASE RemoveInterrupted(o)
            <4> PICK c \in Removals(o, path[o]) : path' = [path EXCEPT ![o] = c]
                BY <3>1 DEF RemoveInterrupted
            <4>1. path'[o] = c /\ backup' = backup /\ backup[o] # None /\ path[o] # None
                BY <1>1, <3>1 DEF RemoveInterrupted, TypeInv, TypeOK
            <4>2. Removable(c) < Removable(path[o]) /\ Removable(c) \in Nat /\ Removable(path[o]) \in Nat
                BY <1>3, <4>1, RemovalRemoves DEF Removable
            <4> QED
                BY <2>2, <4>1, <4>2
        <3>2. CASE RestoreInterrupted(o)
            <4>1. backup'[o] = None /\ backup[o] # None
                BY <1>1, <3>2 DEF RestoreInterrupted, TypeInv, TypeOK
            <4>2. Removable(path[o]) \in Nat
                BY DEF Removable
            <4> QED
                BY <2>2, <4>1, <4>2
        <3> QED
            BY <1>6, <3>1, <3>2
    <2> QED
        BY <1>1, <1>2, <1>4, <2>1, <2>3, BuildGoesDown
<1> QED
    BY <1>1, <1>5, <1>6

(* An output is written in at most two steps. *)
LEMMA WriteGoesDown ==
    ASSUME TypeInv, WriteOutput
    PROVE  Lower(Countdown', Countdown)
<1>1. PICK o \in dirty :
        /\ path[o] \in {None, Partial}
        /\ \E c \in {Partial, Product(o)} \ {path[o]} : path' = [path EXCEPT ![o] = c]
    BY DEF WriteOutput
<1>2. PICK c \in {Partial, Product(o)} \ {path[o]} : path' = [path EXCEPT ![o] = c]
    BY <1>1
<1>3. /\ pc = "run" /\ pc' = pc /\ at' = at /\ dirty' = dirty /\ o \in Outputs
      /\ path \in [Outputs -> {None} \cup Origins]
    BY DEF WriteOutput, progress, transaction, TypeInv, TypeOK
<1>4. StagesLeft' = StagesLeft
    BY <1>3 DEF StagesLeft
<1>5. Partial # None
    BY NoneAssumption DEF Partial
<1>6. c # None
    <2>1. Product(o) \in Origins
        BY <1>1, ProductsAreOrigins DEF WriteOutput
    <2>2. Product(o) # None
        BY <2>1, NoneAssumption DEF Origins
    <2> QED
        BY <1>2, <1>5, <2>2
<1>7. path'[o] = c /\ \A q \in Outputs : q # o => path'[q] = path[q]
    BY <1>2, <1>3
<1>8. dirty \subseteq Outputs
    BY DEF TypeInv, TypeOK
<1>9. /\ Outstanding = Cardinality(Containing(None))
      /\ Outstanding' = Cardinality(Containing(None)')
      /\ OfNextOutput = Cardinality(Containing(Partial))
      /\ OfNextOutput' = Cardinality(Containing(Partial)')
    BY <1>3 DEF Outstanding, OfNextOutput, Partial
<1>10. CASE path[o] = None
    <2>1. Containing(None)' \subseteq Containing(None) /\ Containing(None)' # Containing(None)
        BY <1>3, <1>6, <1>7, <1>8, <1>10 DEF Containing
    <2>2. Outstanding' < Outstanding
        BY <1>9, <2>1, OutputSets, FewerOutputs
    <2> QED
        BY <1>3, <1>4, <2>2, BuildGoesDown
<1>11. CASE path[o] = Partial
    <2>1. Containing(None)' = Containing(None)
        BY <1>3, <1>5, <1>6, <1>7, <1>8, <1>11 DEF Containing
    <2>2. c # Partial
        BY <1>2, <1>11
    <2>3. /\ Containing(Partial)' \subseteq Containing(Partial)
          /\ Containing(Partial)' # Containing(Partial)
        BY <1>3, <1>7, <1>8, <1>11, <2>2 DEF Containing, Partial
    <2>4. OfNextOutput' < OfNextOutput
        BY <1>9, <2>3, OutputSets, FewerOutputs
    <2> QED
        BY <1>3, <1>4, <1>9, <2>1, <2>4, BuildGoesDown
<1> QED
    BY <1>1, <1>10, <1>11

LEMMA CommitGoesDown ==
    ASSUME TypeInv, CommitOutput
    PROVE  Lower(Countdown', Countdown)
<1> DEFINE o == NextOutput
<1>1. /\ pc = "commit" /\ pc' = pc /\ at' = at /\ todo # {} /\ o \in todo /\ o \in Outputs
    BY NextOutputInTodo DEF CommitOutput, progress, TypeInv, TypeOK
<1>2. StagesLeft' = StagesLeft
    BY <1>1 DEF StagesLeft
<1>3. Partial # None
    BY NoneAssumption DEF Partial
<1>4. Outstanding = Cardinality(todo) /\ Outstanding' = Cardinality(todo')
    BY <1>1 DEF Outstanding, Looping
<1>5. CASE todo' = todo \ {o}
    <2>1. Outstanding' < Outstanding
        BY <1>1, <1>4, <1>5, OutputSets, FewerOutputs
    <2> QED
        BY <1>1, <1>2, <2>1, BuildGoesDown
<1>6. CASE /\ todo' = todo /\ backup[o] # None
           /\ \E c \in Removals(o, backup[o]) : backup' = [backup EXCEPT ![o] = c]
    <2> PICK c \in Removals(o, backup[o]) : backup' = [backup EXCEPT ![o] = c]
        BY <1>6
    <2>1. NextOutput' = o /\ backup'[o] = c
        BY <1>1, <1>6 DEF NextOutput, TypeInv, TypeOK
    <2>2. Removable(c) < Removable(backup[o])
        BY <1>3, <1>6, RemovalRemoves
    <2>3. OfNextOutput = Removable(backup[o]) /\ OfNextOutput' = Removable(c)
        BY <1>1, <1>6, <2>1 DEF OfNextOutput, Looping, Removable
    <2> QED
        BY <1>1, <1>2, <1>4, <1>6, <2>2, <2>3, BuildGoesDown
<1> QED
    BY <1>5, <1>6 DEF CommitOutput

LEMMA RollbackGoesDown ==
    ASSUME TypeInv, RollbackOutput
    PROVE  Lower(Countdown', Countdown)
<1> DEFINE o == NextOutput
<1>1. /\ pc = "rollback" /\ pc' = pc /\ at' = at /\ todo # {} /\ o \in todo /\ o \in Outputs
    BY NextOutputInTodo DEF RollbackOutput, progress, TypeInv, TypeOK
<1>2. StagesLeft' = StagesLeft
    BY <1>1 DEF StagesLeft
<1>3. Partial # None
    BY NoneAssumption DEF Partial
<1>4. Outstanding = Cardinality(todo) /\ Outstanding' = Cardinality(todo')
    BY <1>1 DEF Outstanding, Looping
<1>5. CASE todo' = todo \ {o}
    <2>1. Outstanding' < Outstanding
        BY <1>1, <1>4, <1>5, OutputSets, FewerOutputs
    <2> QED
        BY <1>1, <1>2, <2>1, BuildGoesDown
<1>6. CASE /\ todo' = todo /\ path[o] # None
           /\ \E c \in Removals(o, path[o]) : path' = [path EXCEPT ![o] = c]
    <2> PICK c \in Removals(o, path[o]) : path' = [path EXCEPT ![o] = c]
        BY <1>6
    <2>1. NextOutput' = o /\ path'[o] = c
        BY <1>1, <1>6 DEF NextOutput, TypeInv, TypeOK
    <2>2. Removable(c) < Removable(path[o])
        BY <1>3, <1>6, RemovalRemoves
    <2>3. OfNextOutput = Removable(path[o]) /\ OfNextOutput' = Removable(c)
        BY <1>1, <1>6, <2>1 DEF OfNextOutput, Looping, Removable
    <2> QED
        BY <1>1, <1>2, <1>4, <1>6, <2>2, <2>3, BuildGoesDown
<1> QED
    BY <1>5, <1>6 DEF RollbackOutput

(* Every step of a build leaves less to do, in a well-founded order: neither the      *)
(* loops over the providers and their outputs, nor the recovery of whatever           *)
(* interrupted builds left beside them, nor a container that writes, can go on for    *)
(* ever, and nothing is left only where the build has ended.                          *)
THEOREM BuildCountsDown ==
    Spec => /\ [](Countdown \in Fours /\ (Countdown[1] = 0 => pc = "idle"))
            /\ [][pc # "idle" => Lower(Countdown', Countdown)]_vars
<1>1. TypeInv => Countdown \in Fours /\ (Countdown[1] = 0 => pc = "idle")
    BY CountdownType
<1>2. TypeInv /\ [Next]_vars => [pc # "idle" => Lower(Countdown', Countdown)]_vars
    <2> SUFFICES ASSUME TypeInv, Next, pc # "idle" PROVE Lower(Countdown', Countdown)
        OBVIOUS
    <2>1. CASE \/ SkipProvider \/ HashInputs \/ KeepImage \/ RebuildImage \/ SkipClean
               \/ SelectDirty \/ StartContainer \/ ContainerSucceeds \/ ContainerFails
               \/ VerifyOutputs \/ RecordOutputs
        BY <2>1, StepsGoDown
    <2>2. CASE RebuildImageUnrecorded \/ ImageFails \/ RolledBack \/ Complete \/ Crash
        BY <2>2, LeavingGoesDown
    <2>3. CASE BeginTransaction
        BY <2>3, BeginGoesDown
    <2>4. CASE WriteOutput
        BY <2>4, WriteGoesDown
    <2>5. CASE CommitOutput
        BY <2>5, CommitGoesDown
    <2>6. CASE RollbackOutput
        BY <2>6, RollbackGoesDown
    <2>7. ~(Edit \/ LoseImage \/ Start)
        BY DEF Edit, LoseImage, Start
    <2> QED
        BY <2>1, <2>2, <2>3, <2>4, <2>5, <2>6, <2>7 DEF Next, Step
<1> QED
    BY <1>1, <1>2, TypeInvHolds, PTL DEF Spec
=============================================================================
