----------------------------- MODULE BuildRunner -----------------------------
(***************************************************************************)
(* run_build (runner.py) with the incremental cache it decides by           *)
(* (cache.py): the providers of the build graph are taken in order; each    *)
(* one's input hash is computed, its image is rebuilt if its inputs         *)
(* changed, and its dirty outputs are produced by a container inside an     *)
(* output transaction that keeps the previous outputs as backups.           *)
(*                                                                         *)
(* What an image or an output was made of is the set of <<provider,         *)
(* version>> pairs that went into it, and a hash of it is that set: MD5 is   *)
(* taken to be injective.  The empty set is a partial output, which a       *)
(* provider or a recursive removal leaves when it is stopped half-way.      *)
(* The time stamp of an output is taken to differ whenever its content      *)
(* does; the context files of providers all have the same one, which        *)
(* _copy_entry (source.py) gives them.                                      *)
(*                                                                         *)
(* One build at a time runs, under the lock of the build directory.  The    *)
(* process may be interrupted or killed between any two steps, its           *)
(* container with it, and the user then starts another build.               *)
(***************************************************************************)
EXTENDS Naturals, Sequences, FiniteSets

CONSTANTS
    Order,          \* graph["order"] over all providers: dependencies first
    Outputs,        \* file and directory outputs
    Images,         \* docker: outputs
    ProviderOf,     \* the provider of every output and image
    Requires,       \* requires of each provider
    BuildRequires,  \* its build_requires: outputs that podman build mounts
    OutputRequires, \* the further requires of each output
    RunsOn,         \* the provider in whose image a provider's container runs
    Dockerfile,     \* the providers that have a Dockerfile
    Directories,    \* the outputs that are directories
    Versions,       \* versions of a provider's context files and metadata
    SameSize,       \* the pairs of versions whose files have the same sizes
    None,           \* no such output, image or cache entry
    Goals,          \* the target lists the user may ask for
    MaxEdits,       \* bound: changes of the exported sources, images lost
    MaxCrashes      \* bound: interrupted builds

Providers == {Order[i] : i \in 1..Len(Order)}
Artefacts == Outputs \cup Images

ASSUME GraphAssumption ==
    /\ Order \in Seq(Providers) /\ Order # <<>>
    /\ Outputs \cap Images = {}
    /\ ProviderOf \in [Artefacts -> Providers]
    /\ Requires \in [Providers -> SUBSET Artefacts]
    /\ BuildRequires \in [Providers -> SUBSET Outputs]
    /\ OutputRequires \in [Outputs -> SUBSET Outputs]
    /\ RunsOn \in [Providers -> Providers]
    /\ Dockerfile \in SUBSET Providers
    /\ Directories \in SUBSET Outputs
    /\ Goals \in SUBSET SUBSET Artefacts
(* Dependencies come first in the order (catalogue.py), and a provider runs  *)
(* in its own image or in one it also requires, as every catalogue entry     *)
(* with a runs_on does.                                                      *)
ASSUME OrderAssumption ==
    /\ \A i, j \in 1..Len(Order) :
        /\ Order[i] = Order[j] => i = j
        /\ \A a \in Requires[Order[j]] \cup BuildRequires[Order[j]] :
            ProviderOf[a] = Order[i] => i < j
        /\ \A o \in Outputs : \A a \in OutputRequires[o] :
            ProviderOf[o] = Order[j] /\ ProviderOf[a] = Order[i] => i < j
    /\ \A i \in Images : ProviderOf[i] \in Dockerfile
    /\ \A p \in Providers :
        \/ RunsOn[p] = p /\ p \in Dockerfile
        \/ \E i \in Requires[p] \cap Images : RunsOn[p] = ProviderOf[i]
ASSUME OutputsAssumption == IsFiniteSet(Outputs)
ASSUME VersionAssumption == SameSize \in SUBSET (Versions \X Versions)
ASSUME NoneAssumption ==
    LET origins == SUBSET (Providers \X Versions) IN
    /\ None \notin Versions /\ \A s \in origins : s # None
    /\ \A e \in [input : origins, hash : origins] : e # None
ASSUME BoundAssumption == MaxEdits \in Nat /\ MaxCrashes \in Nat

VARIABLES
    source,     \* the version of each provider's files in the exported tree
    path,       \* the outputs in the build directory
    backup,     \* <output>.mountin-previous beside them
    image,      \* the local container store: the tagged image
    layers,     \* the layer cache: what a build gave, by what podman keys it by
    cache,      \* the build cache of the running process
    saved,      \* cache/build_cache.json
    targets,    \* the outputs the graph needs, targets and dependencies
    force,      \* --force
    pc,         \* the step of run_build; "idle": no build runs
    at,         \* position in the order
    inputs,     \* dep_hashes: input hash of each provider handled so far
    dirty,      \* dirty_outputs of the current provider
    todo,       \* those the current loop has still to handle
    backups,    \* the outputs begin_output_transaction has moved aside
    edits, crashes

storage == <<path, backup, image, layers, saved>>
progress == <<targets, force, at, inputs>>
transaction == <<dirty, todo, backups>>
vars == <<source, storage, cache, progress, pc, transaction, edits, crashes>>

Origins == SUBSET (Providers \X Versions)
Partial == {}
Caches == [files : [Providers -> Versions \cup {None}],
           images : [Providers -> SUBSET (Origins \X Origins)],
           outputs : [Outputs -> [input : Origins, hash : Origins] \cup {None}]]
EmptyCache == [files |-> [p \in Providers |-> None],
               images |-> [p \in Providers |-> {}],
               outputs |-> [o \in Outputs |-> None]]

Labels == {"idle", "hash", "image", "select", "begin", "run", "verify",
           "commit", "rollback", "built"}

Current == Order[at]
OutputsOf(p) == {o \in Outputs : ProviderOf[o] = p}
ImagesOf(p) == {i \in Images : ProviderOf[i] = p}

(* The least set around T that is closed under into, a function to sets.     *)
Closure(into, T) ==
    {x \in DOMAIN into : \A S \in SUBSET DOMAIN into :
        T \subseteq S /\ (\A y \in S : into[y] \subseteq S) => x \in S}

(* build_graph: the targets depend on what an output or image requires.     *)
Uses == [a \in Artefacts |->
    Requires[ProviderOf[a]] \cup BuildRequires[ProviderOf[a]]
        \cup (IF a \in Outputs THEN OutputRequires[a] ELSE {})]
Needed(p) == {a \in targets : ProviderOf[a] = p}

-----------------------------------------------------------------------------
(* Hashing: what cache.py knows of the inputs and outputs.                  *)

(* hash_file trusts the cached hash while time stamp and size agree.        *)
FileHash(p) ==
    IF <<cache.files[p], source[p]>> \in SameSize
    THEN cache.files[p] ELSE source[p]

(* dep_hashes[a], for something the current provider requires. *)
DependencyHash(a) ==
    IF a \in Images THEN inputs[ProviderOf[a]] ELSE cache.outputs[a].hash

(* hash_path_inputs: context files, metadata and dependencies; what         *)
(* podman build mounts is hashed as it is on disk.                           *)
PathInputs(p) ==
    {<<p, FileHash(p)>>} \cup (UNION {DependencyHash(a) : a \in Requires[p]})
        \cup (UNION {path[r] : r \in BuildRequires[p]})

(* hash_output_inputs: files are hashed as they are on disk, directories by  *)
(* the identity the cache records for them.                                  *)
OutputInputs(o, base) ==
    base \cup UNION {IF r \in Directories THEN cache.outputs[r].hash ELSE path[r] :
                        r \in OutputRequires[o]}

(* Fault: a directory that the cache knows is taken to be current. *)
IsDirtyFile(o, base) ==
    \/ path[o] = None
    \/ cache.outputs[o] = None
    \/ /\ o \notin Directories
       /\ \/ cache.outputs[o].input # OutputInputs(o, base)
          \/ cache.outputs[o].hash # path[o]

(* is_output_dirty: a directory is taken to be what the cache says it is.   *)
IsDirty(o, base) ==
    \/ path[o] = None
    \/ cache.outputs[o] = None
    \/ cache.outputs[o].input # OutputInputs(o, base)
    \/ o \notin Directories /\ cache.outputs[o].hash # path[o]

(* Fault: what is recorded is the input hash of the provider. *)
OutputEntryOfProvider(o, base) ==
    [input |-> base, hash |-> IF o \in Directories THEN base ELSE path[o]]

(* update_output_hash *)
OutputEntry(o, base) ==
    [input |-> OutputInputs(o, base),
     hash |-> IF o \in Directories THEN OutputInputs(o, base) ELSE path[o]]

(* image_is_current: the image tagged now was built from these inputs.      *)
ImageIsCurrent(p) ==
    image[p] # None /\ <<image[p], inputs[p]>> \in cache.images[p]

(* podman build: layers are looked up by the base images and the files       *)
(* copied, never by what is mounted.                                         *)
LayerKey(p) ==
    {<<p, source[p]>>} \cup UNION {image[ProviderOf[i]] : i \in Requires[p] \cap Images}
BuiltImage(p) == LayerKey(p) \cup UNION {path[r] : r \in BuildRequires[p]}

(* Fault: mounted inputs are no reason to build without the layers. *)
NeedsNoCacheForced(p) == force

(* image_needs_no_cache *)
NeedsNoCache(p) == force \/ BuildRequires[p] # {}

ImageResults(p) ==
    {BuiltImage(p)} \cup
    (IF NeedsNoCache(p) THEN {} ELSE {e[2] : e \in {l \in layers[p] : l[1] = LayerKey(p)}})

(* What a run of the provider's container makes of an output.               *)
Product(o) ==
    LET p == ProviderOf[o] IN
    {<<p, source[p]>>} \cup image[RunsOn[p]]
        \cup UNION {path[r] : r \in (Requires[p] \cap Outputs) \cup BuildRequires[p]
                                        \cup OutputRequires[o]}

(* remove_output: a file goes at once, a directory entry by entry.          *)
Removals(o, content) ==
    IF o \in Directories /\ content # Partial THEN {Partial, None} ELSE {None}
-----------------------------------------------------------------------------
Init ==
    /\ source \in [Providers -> Versions]
    /\ path = [o \in Outputs |-> None]
    /\ backup = [o \in Outputs |-> None]
    /\ image = [p \in Providers |-> None] /\ layers = [p \in Providers |-> {}]
    /\ cache = EmptyCache /\ saved = EmptyCache
    /\ targets = {} /\ force = FALSE
    /\ pc = "idle" /\ at = 1
    /\ inputs = [p \in Providers |-> None]
    /\ dirty = {} /\ todo = {} /\ backups = {}
    /\ edits = 0 /\ crashes = 0

(* run_build is left: what the process held in memory is gone. *)
Leave ==
    /\ pc' = "idle"
    /\ cache' = EmptyCache
    /\ targets' = {} /\ force' = FALSE /\ at' = 1
    /\ inputs' = [p \in Providers |-> None]
    /\ dirty' = {} /\ todo' = {} /\ backups' = {}

(* Between builds a provider's sources change, as the next export finds.    *)
Edit ==
    /\ pc = "idle"
    /\ edits < MaxEdits
    /\ edits' = edits + 1
    /\ \E p \in Providers, v \in Versions : source' = [source EXCEPT ![p] = v]
    /\ UNCHANGED <<storage, cache, progress, pc, transaction, crashes>>

(* An image disappears from the local container store (podman rmi). *)
LoseImage ==
    /\ pc = "idle"
    /\ edits < MaxEdits
    /\ edits' = edits + 1
    /\ \E p \in Providers :
        /\ image[p] # None
        /\ image' = [image EXCEPT ![p] = None]
    /\ UNCHANGED <<source, path, backup, layers, saved, cache, progress, pc,
                   transaction, crashes>>

(* build_graph and load_cache. *)
Start ==
    /\ pc = "idle"
    /\ \E T \in Goals, f \in BOOLEAN :
        targets' = Closure(Uses, T) /\ force' = f
    /\ cache' = saved
    /\ pc' = "hash" /\ at' = 1
    /\ UNCHANGED <<source, storage, inputs, transaction, edits, crashes>>

(* Fault: the loop goes one provider too far. *)
NextProviderBeyond ==
    IF at > Len(Order)
    THEN pc' = "built" /\ at' = at
    ELSE pc' = "hash" /\ at' = at + 1

(* The loop goes on with the next provider, or ends. *)
NextProvider ==
    IF at = Len(Order)
    THEN pc' = "built" /\ at' = at
    ELSE pc' = "hash" /\ at' = at + 1

SkipProvider ==
    /\ pc = "hash"
    /\ Needed(Current) = {}
    /\ NextProvider
    /\ UNCHANGED <<source, storage, cache, targets, force, inputs, transaction,
                   edits, crashes>>

HashInputs ==
    /\ pc = "hash"
    /\ Needed(Current) # {}
    /\ inputs' = [inputs EXCEPT ![Current] = PathInputs(Current)]
    /\ cache' = [cache EXCEPT !.files[Current] = FileHash(Current)]
    /\ pc' = IF Current \in Dockerfile THEN "image" ELSE "select"
    /\ UNCHANGED <<source, storage, targets, force, at, transaction, edits, crashes>>

KeepImage ==
    /\ pc = "image"
    /\ ~force /\ ImageIsCurrent(Current)
    /\ pc' = "select"
    /\ UNCHANGED <<source, storage, cache, progress, transaction, edits, crashes>>

(* build_image: the tag moves to what podman build made of the layers.       *)
BuildImage ==
    \E i \in ImageResults(Current) :
        /\ image' = [image EXCEPT ![Current] = i]
        /\ layers' = [layers EXCEPT ![Current] = @ \cup {<<LayerKey(Current), i>>}]

(* build_image, update_image_hash, save_cache *)
RebuildImage ==
    /\ pc = "image"
    /\ force \/ ~ImageIsCurrent(Current)
    /\ BuildImage
    /\ cache' = [cache EXCEPT !.images[Current] =
            {e \in @ : e[1] # image'[Current]} \cup {<<image'[Current], inputs[Current]>>}]
    /\ saved' = cache'
    /\ pc' = "select"
    /\ UNCHANGED <<source, path, backup, progress, transaction, edits, crashes>>

(* podman build tagged the image, and the process died before it was saved. *)
RebuildImageUnrecorded ==
    /\ pc = "image"
    /\ force \/ ~ImageIsCurrent(Current)
    /\ crashes < MaxCrashes
    /\ BuildImage
    /\ crashes' = crashes + 1
    /\ Leave
    /\ UNCHANGED <<source, path, backup, saved, edits>>

ImageFails ==
    /\ pc = "image"
    /\ force \/ ~ImageIsCurrent(Current)
    /\ Leave
    /\ UNCHANGED <<source, storage, edits, crashes>>

(* dirty_outputs; a provider with none is clean. *)
DirtyOutputs ==
    LET needed == Needed(Current) \cap Outputs IN
    IF force THEN needed ELSE {o \in needed : IsDirty(o, inputs[Current])}

SkipClean ==
    /\ pc = "select"
    /\ DirtyOutputs = {}
    /\ NextProvider
    /\ UNCHANGED <<source, storage, cache, targets, force, inputs, transaction,
                   edits, crashes>>

SelectDirty ==
    /\ pc = "select"
    /\ DirtyOutputs # {}
    /\ dirty' = DirtyOutputs /\ todo' = DirtyOutputs /\ backups' = {}
    /\ pc' = "begin"
    /\ UNCHANGED <<source, storage, cache, progress, edits, crashes>>

(* The loops over dirty_outputs take them in the order of the list. *)
NextOutput == CHOOSE o \in todo : TRUE

(* Fault: a backup beside an output is taken for one of a finished build. *)
RemoveBackup(o) ==
    /\ backup[o] # None /\ path[o] # None
    /\ backup' = [backup EXCEPT ![o] = None]
    /\ UNCHANGED <<path, transaction>>

(* begin_output_transaction: a backup that an interrupted build left behind *)
(* takes the place of whatever that build made of the output.               *)
RemoveInterrupted(o) ==
    /\ backup[o] # None /\ path[o] # None
    /\ \E c \in Removals(o, path[o]) : path' = [path EXCEPT ![o] = c]
    /\ UNCHANGED <<backup, transaction>>

(* Fault: the backup is copied into its place, and stays. *)
CopyInterrupted(o) ==
    /\ backup[o] # None /\ path[o] = None
    /\ path' = [path EXCEPT ![o] = backup[o]]
    /\ UNCHANGED <<backup, transaction>>

RestoreInterrupted(o) ==
    /\ backup[o] # None /\ path[o] = None
    /\ path' = [path EXCEPT ![o] = backup[o]]
    /\ backup' = [backup EXCEPT ![o] = None]
    /\ UNCHANGED transaction

SetAside(o) ==
    /\ backup[o] = None /\ path[o] # None
    /\ backup' = [backup EXCEPT ![o] = path[o]]
    /\ path' = [path EXCEPT ![o] = None]
    /\ backups' = backups \cup {o}
    /\ todo' = todo \ {o}
    /\ UNCHANGED dirty

NothingToKeep(o) ==
    /\ backup[o] = None /\ path[o] = None
    /\ todo' = todo \ {o}
    /\ UNCHANGED <<path, backup, dirty, backups>>

BeginTransaction ==
    /\ pc = "begin"
    /\ todo # {}
    /\ LET o == NextOutput IN
        RemoveInterrupted(o) \/ RestoreInterrupted(o) \/ SetAside(o) \/ NothingToKeep(o)
    /\ UNCHANGED <<source, image, layers, saved, cache, progress, pc, edits, crashes>>

StartContainer ==
    /\ pc = "begin" /\ todo = {}
    /\ pc' = "run"
    /\ UNCHANGED <<source, storage, cache, progress, transaction, edits, crashes>>

(* The provider's script writes the outputs it is asked for, not at once.   *)
WriteOutput ==
    /\ pc = "run"
    /\ \E o \in dirty :
        /\ path[o] \in {None, Partial}
        /\ \E c \in {Partial, Product(o)} \ {path[o]} : path' = [path EXCEPT ![o] = c]
    /\ UNCHANGED <<source, backup, image, layers, saved, cache, progress, pc, transaction,
                   edits, crashes>>

(* The container exits with status 0: no output it created is half-written. *)
ContainerSucceeds ==
    /\ pc = "run"
    /\ \A o \in dirty : path[o] # Partial
    /\ pc' = "verify"
    /\ UNCHANGED <<source, storage, cache, progress, transaction, edits, crashes>>

ContainerFails ==
    /\ pc = "run"
    /\ pc' = "rollback" /\ todo' = dirty
    /\ UNCHANGED <<source, storage, cache, progress, dirty, backups, edits, crashes>>

(* Fault: nobody looks whether the outputs are there. *)
VerifyNothing ==
    /\ pc = "verify"
    /\ pc' = "commit" /\ todo' = dirty
    /\ UNCHANGED <<source, storage, cache, progress, dirty, backups, edits, crashes>>

(* Outputs that were not created fail the build like the container does.    *)
VerifyOutputs ==
    /\ pc = "verify"
    /\ pc' = IF \E o \in dirty : path[o] = None THEN "rollback" ELSE "commit"
    /\ todo' = dirty
    /\ UNCHANGED <<source, storage, cache, progress, dirty, backups, edits, crashes>>

(* finish_output_transaction, success: the backups are removed.             *)
CommitOutput ==
    /\ pc = "commit"
    /\ todo # {}
    /\ LET o == NextOutput IN
        IF o \in backups /\ backup[o] # None
        THEN /\ \E c \in Removals(o, backup[o]) : backup' = [backup EXCEPT ![o] = c]
             /\ UNCHANGED todo
        ELSE todo' = todo \ {o} /\ UNCHANGED backup
    /\ UNCHANGED <<source, path, image, layers, saved, cache, progress, pc, dirty, backups,
                   edits, crashes>>

(* Fault: a failed build drops its backups like a successful one. *)
RollbackDropsBackup ==
    /\ pc = "rollback"
    /\ todo # {}
    /\ LET o == NextOutput IN
        /\ todo' = todo \ {o}
        /\ backup' = [backup EXCEPT ![o] = None]
    /\ UNCHANGED <<source, path, image, layers, saved, cache, progress, pc, dirty, backups,
                   edits, crashes>>

(* finish_output_transaction, failure: what was written goes, the backups   *)
(* come back.                                                               *)
RollbackOutput ==
    /\ pc = "rollback"
    /\ todo # {}
    /\ LET o == NextOutput IN
        \/ /\ path[o] # None
           /\ \E c \in Removals(o, path[o]) : path' = [path EXCEPT ![o] = c]
           /\ UNCHANGED <<backup, todo>>
        \/ /\ path[o] = None
           /\ todo' = todo \ {o}
           /\ IF o \in backups /\ backup[o] # None
                 THEN /\ path' = [path EXCEPT ![o] = backup[o]]
                      /\ backup' = [backup EXCEPT ![o] = None]
                 ELSE UNCHANGED <<path, backup>>
    /\ UNCHANGED <<source, image, layers, saved, cache, progress, pc, dirty, backups,
                   edits, crashes>>

RolledBack ==
    /\ pc = "rollback" /\ todo = {}
    /\ Leave
    /\ UNCHANGED <<source, storage, edits, crashes>>

(* update_output_hash for every output made, then save_cache. *)
RecordOutputs ==
    /\ pc = "commit" /\ todo = {}
    /\ cache' = [cache EXCEPT !.outputs =
            [o \in Outputs |-> IF o \in dirty THEN OutputEntry(o, inputs[Current])
                                              ELSE @[o]]]
    /\ saved' = cache'
    /\ dirty' = {} /\ backups' = {} /\ UNCHANGED todo
    /\ NextProvider
    /\ UNCHANGED <<source, path, backup, image, layers, targets, force, inputs, edits, crashes>>

(* run_build returns True. *)
Complete ==
    /\ pc = "built"
    /\ Leave
    /\ UNCHANGED <<source, storage, edits, crashes>>

(* Ctrl-C, a kill or a power failure: nothing catches it on the way out.    *)
Crash ==
    /\ pc # "idle"
    /\ crashes < MaxCrashes
    /\ crashes' = crashes + 1
    /\ Leave
    /\ UNCHANGED <<source, storage, edits>>

Step ==
    \/ SkipProvider \/ HashInputs \/ KeepImage \/ RebuildImage \/ ImageFails
    \/ SkipClean \/ SelectDirty \/ BeginTransaction \/ StartContainer
    \/ WriteOutput \/ ContainerSucceeds \/ ContainerFails \/ VerifyOutputs
    \/ CommitOutput \/ RollbackOutput \/ RolledBack \/ RecordOutputs \/ Complete

Next == Edit \/ LoseImage \/ Start \/ Step \/ RebuildImageUnrecorded \/ Crash

Spec == Init /\ [][Next]_vars

(* A build that runs goes on; every container exits in the end, and podman   *)
(* build returns.  Nobody has to start a build.                              *)
FairSpec == Spec /\ WF_vars(Step)
-----------------------------------------------------------------------------
TypeOK ==
    /\ source \in [Providers -> Versions]
    /\ path \in [Outputs -> {None} \cup Origins]
    /\ backup \in [Outputs -> {None} \cup Origins]
    /\ image \in [Providers -> {None} \cup Origins]
    /\ layers \in [Providers -> SUBSET (Origins \X Origins)]
    /\ cache \in Caches /\ saved \in Caches
    /\ targets \in SUBSET Artefacts /\ force \in BOOLEAN
    /\ pc \in Labels /\ at \in 1..Len(Order)
    /\ inputs \in [Providers -> {None} \cup Origins]
    /\ dirty \in SUBSET Outputs /\ todo \in SUBSET Outputs /\ backups \in SUBSET Outputs
    /\ edits \in 0..MaxEdits /\ crashes \in 0..MaxCrashes

(* What goes into an image or an output, however many builds away.          *)
Made == ({"image"} \X Providers) \cup ({"output"} \X Outputs)
Owner(n) == IF n[1] = "output" THEN ProviderOf[n[2]] ELSE n[2]
Into == [n \in Made |->
    LET p == Owner(n) IN
    IF n[1] = "image"
    THEN {<<"image", ProviderOf[i]>> : i \in Requires[p] \cap Images}
            \cup ({"output"} \X BuildRequires[p])
    ELSE {<<"image", RunsOn[p]>>}
            \cup ({"output"} \X ((Requires[p] \cap Outputs) \cup BuildRequires[p]
                                    \cup OutputRequires[n[2]]))]
Ingredients == [n \in Made |-> {Owner(m) : m \in Closure(Into, {n})}]

(* What an output would be if everything it is made of were built anew.     *)
Fresh(o) == {<<q, source[q]>> : q \in Ingredients[<<"output", o>>]}

(* A build that reports success leaves every output it was asked for, and   *)
(* every dependency, as a build from nothing would make it: the hashes never *)
(* take a stale, interrupted or half-written output for a current one.      *)
SuccessIsCurrent ==
    pc = "built" => \A o \in targets \cap Outputs : path[o] = Fresh(o)

(* As long as no build is interrupted, the same holds where outputs are     *)
(* directories, which the cache knows by their inputs only.                  *)
CurrentUnlessInterrupted == crashes = 0 => SuccessIsCurrent

(* "Preserve previous outputs until their replacements are verified" and     *)
(* "restore the previous valid files" (runner.py): an output the cache       *)
(* records is on disk whole, in its place or as the backup the next          *)
(* transaction restores, however the builds since then ended.                *)
IsWhole(content) == content \notin {None, Partial}
Kept(o) == saved.outputs[o] # None => IsWhole(path[o]) \/ IsWhole(backup[o])
OutputsKept == \A o \in Outputs : Kept(o)

(* The same of directories as long as only builds fail, and none is          *)
(* interrupted while it removes one.                                         *)
KeptUnlessInterrupted == crashes = 0 => OutputsKept

(* The same of the outputs that are files, which one system call removes.    *)
FilesKept == \A o \in Outputs \ Directories : Kept(o)

(* As long as an output has a backup, what is preserved changes only when    *)
(* the replacement has been verified: a failed or interrupted build and its  *)
(* recovery put back exactly what was there.                                 *)
Preserved(o) == IF backup[o] # None THEN backup[o] ELSE path[o]
ReplacedOnlyByCommit ==
    [][\A o \in Outputs :
         backup[o] # None /\ Preserved(o)' # Preserved(o) => pc = "commit"]_vars

(* A successful build has nothing left to do: the same build started again   *)
(* would find every one of its outputs and images clean.                     *)
NothingLeftDirty ==
    pc = "built" =>
        /\ \A o \in targets \cap Outputs : ~IsDirty(o, inputs[ProviderOf[o]])
        /\ \A p \in Dockerfile : Needed(p) # {} => ImageIsCurrent(p)

(* A build that starts ends, with success or without. *)
BuildEnds == pc = "hash" ~> pc = "idle"
=============================================================================
