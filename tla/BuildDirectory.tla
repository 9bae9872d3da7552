--------------------------- MODULE BuildDirectory ---------------------------
(***************************************************************************)
(* The processes that share one build directory: builds and garbage         *)
(* collections, which exclude each other with a non-blocking flock          *)
(* (lock.py), the containers the builds start, which a killed build leaves  *)
(* running, and the private caches of the providers that containers write   *)
(* to, builds empty when their inputs change (prepare_provider_cache,        *)
(* runner.py) and collections remove (gc.py).                               *)
(*                                                                         *)
(* A provider cache is a directory with a marker, the input hash it belongs *)
(* to, and a work directory that containers have mounted.  What is in the   *)
(* work directory is the set of input hashes of the runs that wrote there.  *)
(* Removing a cache takes its parts one by one, in any order; a container   *)
(* whose work directory was removed keeps writing to the removed one.       *)
(***************************************************************************)
EXTENDS Naturals

CONSTANTS
    Processes,
    Instances,  \* provider instances
    Hashes,     \* their input hashes
    None,
    MaxEdits,   \* bound: changes of the checkout
    MaxKills    \* bound: killed or interrupted processes

Cache == [marker : Hashes \cup {None}, work : {None} \cup SUBSET Hashes]

ASSUME NoneAssumption ==
    /\ None \notin Processes \cup Hashes
    /\ \A S \in SUBSET Hashes : S # None
    /\ \A c \in Cache : c # None
ASSUME BoundAssumption == MaxEdits \in Nat /\ MaxKills \in Nat

VARIABLES
    checkout,   \* the input hash of every instance of the catalogue
    exported,   \* the tree the last build exported
    lock,       \* holder of build.lock
    pc,         \* where each process is
    job,        \* the instance a process works on
    names,      \* a build's providers still to do; a collection's live names
    caches,     \* build/cache/stages
    containers, \* running containers
    edits, kills

vars == <<checkout, exported, lock, pc, job, names, caches, containers, edits, kills>>

Catalogues == [Instances -> Hashes \cup {None}]
Container == [owner : Processes \cup {None}, instance : Instances, hash : Hashes, mounted : BOOLEAN]

(* Where a process may be: outside, between two providers of a build,       *)
(* emptying and making a provider's cache, running its container; with the   *)
(* catalogue of a collection loaded, collecting, and removing caches.        *)
Labels == {"out", "build", "empty", "make", "mark", "run", "loaded", "collect", "sweep"}

Init ==
    /\ checkout \in Catalogues
    /\ exported = [i \in Instances |-> None]
    /\ lock = None
    /\ pc = [p \in Processes |-> "out"]
    /\ job = [p \in Processes |-> None]
    /\ names = [p \in Processes |-> {}]
    /\ caches = [i \in Instances |-> None]
    /\ containers = {}
    /\ edits = 0 /\ kills = 0

Goto(p, label) == pc' = [pc EXCEPT ![p] = label]

(* The user changes a provider's inputs, or adds or removes a provider.     *)
Edit ==
    /\ edits < MaxEdits
    /\ edits' = edits + 1
    /\ \E i \in Instances, h \in Hashes \cup {None} :
        checkout' = [checkout EXCEPT ![i] = h]
    /\ UNCHANGED <<exported, lock, pc, job, names, caches, containers, kills>>

-----------------------------------------------------------------------------
(* Fault: the build asks for providers that the catalogue does not have. *)
StartBuildOfAny(p) ==
    /\ pc[p] = "out"
    /\ lock = None
    /\ lock' = p
    /\ exported' = checkout
    /\ \E needed \in SUBSET Instances : names' = [names EXCEPT ![p] = needed]
    /\ Goto(p, "build")
    /\ UNCHANGED <<checkout, job, caches, containers, edits, kills>>

(* cmd_build takes the lock and exports the checkout. *)
StartBuild(p) ==
    /\ pc[p] = "out"
    /\ lock = None
    /\ lock' = p
    /\ exported' = checkout
    /\ \E needed \in SUBSET {i \in Instances : checkout[i] # None} :
        names' = [names EXCEPT ![p] = needed]
    /\ Goto(p, "build")
    /\ UNCHANGED <<checkout, job, caches, containers, edits, kills>>

(* A build waits for its container to end. *)
Waiting(p) == \E c \in containers : c.owner = p

(* Fault: a cache that is there is taken for the right one. *)
MatchesAny(i) == caches[i] # None

Matches(i) == caches[i] # None /\ caches[i].marker = exported[i]

(* prepare_provider_cache finds the cache it wants, or sets out to make it. *)
Prepare(p) ==
    /\ pc[p] = "build" /\ ~Waiting(p)
    /\ \E i \in names[p] :
        /\ job' = [job EXCEPT ![p] = i]
        /\ names' = [names EXCEPT ![p] = @ \ {i}]
        /\ Goto(p, IF Matches(i) THEN "run" ELSE "empty")
    /\ UNCHANGED <<checkout, exported, lock, caches, containers, edits, kills>>

(* remove_provider_cache: the marker, what is in the work directory, the     *)
(* work directory and in the end the directory itself.                       *)
RemovePart(i) ==
    /\ caches[i] # None
    /\ \/ /\ caches[i].marker # None
          /\ caches' = [caches EXCEPT ![i].marker = None]
          /\ UNCHANGED containers
       \/ /\ caches[i].work \notin {None, {}}
          /\ \E S \in SUBSET caches[i].work :
                S # caches[i].work /\ caches' = [caches EXCEPT ![i].work = S]
          /\ UNCHANGED containers
       \/ /\ caches[i].work = {}
          /\ caches' = [caches EXCEPT ![i].work = None]
          /\ containers' = {IF c.instance = i THEN [c EXCEPT !.mounted = FALSE] ELSE c :
                                c \in containers}
       \/ /\ caches[i].marker = None /\ caches[i].work = None
          /\ caches' = [caches EXCEPT ![i] = None]
          /\ UNCHANGED containers

EmptyCache(p) ==
    /\ pc[p] = "empty"
    /\ IF caches[job[p]] # None
          THEN RemovePart(job[p]) /\ UNCHANGED pc
          ELSE Goto(p, "make") /\ UNCHANGED <<caches, containers>>
    /\ UNCHANGED <<checkout, exported, lock, job, names, edits, kills>>

(* Fault: the lock is not given back. *)
ReleaseNothing(p) ==
    /\ Goto(p, "out")
    /\ job' = [job EXCEPT ![p] = None]
    /\ names' = [names EXCEPT ![p] = {}]
    /\ UNCHANGED lock

Release(p) ==
    /\ lock' = None
    /\ Goto(p, "out")
    /\ job' = [job EXCEPT ![p] = None]
    /\ names' = [names EXCEPT ![p] = {}]

(* Something is written into the directory while it is being removed. *)
EmptyFails(p) ==
    /\ pc[p] = "empty"
    /\ \E c \in containers : c.mounted /\ c.instance = job[p]
    /\ Release(p)
    /\ UNCHANGED <<checkout, exported, caches, containers, edits, kills>>

MakeCache(p) ==
    /\ pc[p] = "make"
    /\ caches' = [caches EXCEPT ![job[p]] = [marker |-> None, work |-> None]]
    /\ Goto(p, "mark")
    /\ UNCHANGED <<checkout, exported, lock, job, names, containers, edits, kills>>

(* The marker is written to a temporary file and renamed. *)
MarkCache(p) ==
    /\ pc[p] = "mark"
    /\ caches' = [caches EXCEPT ![job[p]].marker = exported[job[p]]]
    /\ Goto(p, "run")
    /\ UNCHANGED <<checkout, exported, lock, job, names, containers, edits, kills>>

(* work_dir.mkdir(exist_ok=True), then podman run mounts it. *)
RunContainer(p) ==
    LET i == job[p] IN
    /\ pc[p] = "run"
    /\ containers' = containers \cup
            {[owner |-> p, instance |-> i, hash |-> exported[i], mounted |-> TRUE]}
    /\ caches' = [caches EXCEPT ![i].work = IF @ = None THEN {} ELSE @]
    /\ Goto(p, "build")
    /\ UNCHANGED <<checkout, exported, lock, job, names, edits, kills>>

(* The provider's script uses /cache. *)
WriteWork ==
    /\ \E c \in containers :
        /\ c.mounted
        /\ caches' = [caches EXCEPT ![c.instance].work = @ \cup {c.hash}]
    /\ UNCHANGED <<checkout, exported, lock, pc, job, names, containers, edits, kills>>

(* The container ends; its build, if it still runs, goes on or fails.       *)
ContainerEnds ==
    /\ \E c \in containers : containers' = containers \ {c}
    /\ UNCHANGED <<checkout, exported, lock, pc, job, names, caches, edits, kills>>

(* The last provider is done, or one failed. *)
EndBuild(p) ==
    /\ pc[p] = "build" /\ ~Waiting(p)
    /\ Release(p)
    /\ UNCHANGED <<checkout, exported, caches, containers, edits, kills>>
-----------------------------------------------------------------------------
(* cmd_gc computes the live names of the catalogue main has loaded, and     *)
(* only then takes the lock.                                                *)
LoadCatalogue(p) ==
    /\ pc[p] = "out"
    /\ names' = [names EXCEPT ![p] = {i \in Instances : checkout[i] # None}]
    /\ Goto(p, "loaded")
    /\ UNCHANGED <<checkout, exported, lock, job, caches, containers, edits, kills>>

(* Fault: a collection does not ask whether the lock is taken. *)
StartCollectionUnlocked(p) ==
    /\ pc[p] = "loaded"
    /\ lock' = p /\ Goto(p, "collect")
    /\ UNCHANGED <<checkout, exported, job, names, caches, containers, edits, kills>>

StartCollection(p) ==
    /\ pc[p] = "loaded"
    /\ IF lock = None
          THEN lock' = p /\ Goto(p, "collect") /\ UNCHANGED names
          ELSE Goto(p, "out") /\ names' = [names EXCEPT ![p] = {}] /\ UNCHANGED lock
    /\ UNCHANGED <<checkout, exported, job, caches, containers, edits, kills>>

(* A running container, whoever started it, stops the collection. *)
RefuseCollection(p) ==
    /\ pc[p] = "collect"
    /\ containers # {}
    /\ Release(p)
    /\ UNCHANGED <<checkout, exported, caches, containers, edits, kills>>

(* Fault: only the collector's own containers keep it from collecting. *)
BeginSweepUnseen(p) ==
    /\ pc[p] = "collect"
    /\ \A c \in containers : c.owner # p
    /\ Goto(p, "sweep")
    /\ UNCHANGED <<checkout, exported, lock, job, names, caches, containers, edits, kills>>

BeginSweep(p) ==
    /\ pc[p] = "collect"
    /\ containers = {}
    /\ Goto(p, "sweep")
    /\ UNCHANGED <<checkout, exported, lock, job, names, caches, containers, edits, kills>>

Orphans(p) == {i \in Instances : caches[i] # None /\ i \notin names[p]}

Sweep(p) ==
    /\ pc[p] = "sweep"
    /\ \E i \in Orphans(p) : RemovePart(i)
    /\ UNCHANGED <<checkout, exported, lock, pc, job, names, edits, kills>>

EndCollection(p) ==
    /\ pc[p] = "sweep"
    /\ Orphans(p) = {}
    /\ Release(p)
    /\ UNCHANGED <<checkout, exported, caches, containers, edits, kills>>
-----------------------------------------------------------------------------
(* Ctrl-C: run_container removes its container on the way out.              *)
Interrupt(p) ==
    /\ pc[p] \notin {"out", "loaded"}
    /\ kills < MaxKills
    /\ kills' = kills + 1
    /\ containers' = {c \in containers : c.owner # p}
    /\ Release(p)
    /\ UNCHANGED <<checkout, exported, caches, edits>>

(* A kill: the kernel drops the lock, and the container goes on, orphaned.  *)
Kill(p) ==
    /\ pc[p] \notin {"out", "loaded"}
    /\ kills < MaxKills
    /\ kills' = kills + 1
    /\ containers' = {IF c.owner = p THEN [c EXCEPT !.owner = None] ELSE c :
                          c \in containers}
    /\ Release(p)
    /\ UNCHANGED <<checkout, exported, caches, edits>>

BuildStep(p) ==
    \/ Prepare(p) \/ EmptyCache(p) \/ EmptyFails(p) \/ MakeCache(p) \/ MarkCache(p)
    \/ RunContainer(p) \/ EndBuild(p)
CollectionStep(p) == RefuseCollection(p) \/ BeginSweep(p) \/ Sweep(p) \/ EndCollection(p)

Next ==
    \/ Edit \/ WriteWork \/ ContainerEnds
    \/ \E p \in Processes :
        \/ StartBuild(p) \/ BuildStep(p)
        \/ LoadCatalogue(p) \/ StartCollection(p) \/ CollectionStep(p)
        \/ Interrupt(p) \/ Kill(p)

Spec == Init /\ [][Next]_vars

(* Processes that hold the lock go on, and every container ends: providers'  *)
(* scripts terminate.  Nobody has to start a process.                        *)
FairSpec ==
    /\ Spec
    /\ WF_vars(ContainerEnds)
    /\ \A p \in Processes : WF_vars(BuildStep(p)) /\ WF_vars(CollectionStep(p))
-----------------------------------------------------------------------------
TypeOK ==
    /\ checkout \in Catalogues /\ exported \in Catalogues
    /\ lock \in Processes \cup {None}
    /\ pc \in [Processes -> Labels]
    /\ job \in [Processes -> Instances \cup {None}]
    /\ names \in [Processes -> SUBSET Instances]
    /\ caches \in [Instances -> {None} \cup Cache]
    /\ containers \subseteq Container
    /\ edits \in 0..MaxEdits /\ kills \in 0..MaxKills

(* "Make a provider's private cache match its complete input identity"       *)
(* (runner.py): whatever a marked cache holds was written by runs with the   *)
(* input hash of its marker, through every way a build or a collection can   *)
(* die and whatever an orphaned container of an older build still writes.    *)
WorkMatchesMarker ==
    \A i \in Instances :
        caches[i] # None /\ caches[i].marker # None /\ caches[i].work # None =>
            caches[i].work \subseteq {caches[i].marker}

(* A collection never removes a cache, or anything in it, while a container *)
(* runs that was started with it, be it of a build that was killed: it looks *)
(* for containers once, and the lock keeps new ones from being started.      *)
CollectionSparesRunning ==
    [][\A i \in Instances :
        (\E p \in Processes : pc[p] = "sweep") /\ caches'[i] # caches[i] =>
            \A c \in containers : c.instance # i]_vars

(* gc.py, of orphaned_provider_caches: "automatic provider caches absent     *)
(* from the current catalogue".                                              *)
CollectsOnlyOrphans ==
    [][\A i \in Instances :
        (\E p \in Processes : pc[p] = "sweep") /\ caches[i] # None /\ caches'[i] = None =>
            checkout[i] = None]_vars

(* Two processes are never inside the lock, and the one inside holds it;     *)
(* killing it frees the build directory for the next at once.                *)
Exclusive ==
    \A p \in Processes : pc[p] \notin {"out", "loaded"} <=> lock = p

(* Whoever takes the lock gives it up: a build or a collection ends, also    *)
(* when it finds what killed processes left behind.                          *)
LockIsFreed == lock # None ~> lock = None
=============================================================================
