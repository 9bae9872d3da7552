------------------------ MODULE BuildDirectoryProofs ------------------------
(***************************************************************************)
(* Proofs about BuildDirectory, for any processes, providers and hashes:    *)
(* the lock excludes, and a provider cache holds work of its marker only.   *)
(***************************************************************************)
EXTENDS BuildDirectory, TLAPS

(* What the process in the middle of preparing a cache knows of it. *)
PreparingOf(p) ==
    /\ pc[p] \in {"build", "empty", "make", "mark", "run"} =>
           \A i \in names[p] : exported[i] # None
    /\ pc[p] \in {"empty", "make", "mark", "run"} =>
           job[p] \in Instances /\ exported[job[p]] # None
    /\ pc[p] = "make" => caches[job[p]] = None
    /\ pc[p] = "mark" => caches[job[p]] # None /\ caches[job[p]].work = None
    /\ pc[p] = "run" => Matches(job[p])
Preparing == \A p \in Processes : PreparingOf(p)

(* A container has its work directory mounted only as long as it is there,  *)
(* and then the cache is of the container's inputs.                          *)
Mounts ==
    \A c \in containers : c.mounted =>
        /\ caches[c.instance] # None
        /\ caches[c.instance].work # None
        /\ caches[c.instance].marker \in {None, c.hash}

DInv == TypeOK /\ Exclusive /\ Preparing /\ Mounts /\ WorkMatchesMarker

LEMMA DInvInit == Init => DInv
<1> SUFFICES ASSUME Init PROVE DInv
    OBVIOUS
<1>1. edits \in 0..MaxEdits /\ kills \in 0..MaxKills
    BY BoundAssumption DEF Init
<1>2. TypeOK
    BY <1>1 DEF Init, TypeOK, Catalogues, Labels
<1> QED
    BY <1>2, NoneAssumption DEF Init, DInv, Exclusive, Preparing, PreparingOf, Mounts, WorkMatchesMarker

LEMMA Unmount ==
    ASSUME NEW c \in Container
    PROVE  /\ [c EXCEPT !.mounted = FALSE] \in Container
           /\ ~[c EXCEPT !.mounted = FALSE].mounted
    BY Zenon DEF Container

LEMMA Marked ==
    ASSUME NEW c \in Cache, NEW h \in Hashes \cup {None}
    PROVE  /\ [c EXCEPT !.marker = h] \in Cache
           /\ [c EXCEPT !.marker = h].marker = h
           /\ [c EXCEPT !.marker = h] # None
<1>1. [c EXCEPT !.marker = h] \in Cache /\ [c EXCEPT !.marker = h].marker = h
    BY DEF Cache
<1> QED
    BY <1>1, NoneAssumption

LEMMA Orphan ==
    ASSUME NEW c \in Container
    PROVE  LET d == [c EXCEPT !.owner = None] IN
           /\ d \in Container
           /\ d.instance = c.instance /\ d.hash = c.hash /\ d.mounted = c.mounted
    BY DEF Container

(* Removing a part of a cache keeps the mounts and the markers true. *)
LEMMA RemovePartKeeps ==
    ASSUME TypeOK, Mounts, WorkMatchesMarker, NEW i \in Instances, RemovePart(i)
    PROVE  /\ caches' \in [Instances -> {None} \cup Cache]
           /\ containers' \subseteq Container
           /\ Mounts' /\ WorkMatchesMarker'
           /\ \A j \in Instances : j # i => caches'[j] = caches[j]
<1> USE NoneAssumption DEF TypeOK, Mounts, WorkMatchesMarker, RemovePart, Cache, Container
<1>1. CASE caches[i].marker # None /\ caches' = [caches EXCEPT ![i].marker = None]
           /\ containers' = containers
    BY <1>1
<1>2. CASE /\ caches[i].work \notin {None, {}} /\ containers' = containers
           /\ \E S \in SUBSET caches[i].work : caches' = [caches EXCEPT ![i].work = S]
    BY <1>2
<1>3. CASE /\ caches[i].work = {} /\ caches' = [caches EXCEPT ![i].work = None]
           /\ containers' = {IF c.instance = i THEN [c EXCEPT !.mounted = FALSE] ELSE c :
                                 c \in containers}
    <2>1. \A c \in containers :
              /\ [c EXCEPT !.mounted = FALSE] \in Container
              /\ ~[c EXCEPT !.mounted = FALSE].mounted
        BY Unmount
    <2>2. \A d \in containers' :
              d \in Container /\ (d.mounted => d \in containers /\ d.instance # i)
        BY <1>3, <2>1
    <2>3. caches' \in [Instances -> {None} \cup Cache]
        BY <1>3
    <2> QED
        BY <1>3, <2>2, <2>3
<1>4. CASE /\ caches[i].marker = None /\ caches[i].work = None
           /\ caches' = [caches EXCEPT ![i] = None] /\ containers' = containers
    BY <1>4
<1> QED
    BY <1>1, <1>2, <1>3, <1>4

-----------------------------------------------------------------------------
(* A process that leaves the lock behind leaves nothing half-claimed.       *)
LEMMA ReleaseKeeps ==
    ASSUME DInv, NEW p \in Processes, pc[p] \notin {"out", "loaded"}, Release(p),
           containers' \subseteq Container, Mounts', WorkMatchesMarker',
           caches' = caches, checkout' = checkout, exported' = exported,
           edits' = edits, kills' \in 0..MaxKills
    PROVE  DInv'
<1> USE DEF DInv, Release, Goto
<1>1. TypeOK'
    BY DEF TypeOK, Labels, Catalogues
<1>2. Exclusive'
    BY NoneAssumption DEF TypeOK, Exclusive
<1>3. Preparing'
    BY DEF TypeOK, Preparing, PreparingOf, Matches
<1> QED
    BY <1>1, <1>2, <1>3

LEMMA DInvStep == DInv /\ [Next]_vars => DInv'
<1> SUFFICES ASSUME DInv, [Next]_vars PROVE DInv'
    OBVIOUS
<1> USE NoneAssumption, BoundAssumption DEF DInv, Goto
<1>1. CASE Edit
    <2>1. checkout' \in Catalogues
        BY <1>1 DEF Edit, TypeOK, Catalogues
    <2>2. edits' \in 0..MaxEdits
        BY <1>1 DEF Edit, TypeOK
    <2> QED
        BY <1>1, <2>1, <2>2
        DEF Edit, TypeOK, Exclusive, Preparing, PreparingOf, Matches, Mounts, WorkMatchesMarker
<1>2. CASE WriteWork
    <2> PICK c \in containers :
            c.mounted /\ caches' = [caches EXCEPT ![c.instance].work = @ \cup {c.hash}]
        BY <1>2 DEF WriteWork
    <2>0. c.instance \in Instances /\ c.hash \in Hashes
        BY DEF TypeOK, Container
    <2>1. caches[c.instance] \in Cache /\ caches[c.instance].work \in SUBSET Hashes
        BY <2>0 DEF TypeOK, Mounts, Cache
    <2>2. caches' \in [Instances -> {None} \cup Cache]
        BY <2>0, <2>1 DEF TypeOK, Cache
    <2>3. TypeOK'
        BY <1>2, <2>2 DEF WriteWork, TypeOK
    <2>4. Mounts' /\ WorkMatchesMarker'
        BY <1>2, <2>0, <2>1, <2>2 DEF WriteWork, TypeOK, Mounts, WorkMatchesMarker, Cache
    <2>5. Preparing'
        BY <1>2, <2>0, <2>1, <2>2 DEF WriteWork, TypeOK, Preparing, PreparingOf, Matches, Mounts, Cache
    <2> QED
        BY <1>2, <2>3, <2>4, <2>5 DEF WriteWork, Exclusive
<1>3. CASE ContainerEnds
    BY <1>3 DEF ContainerEnds, TypeOK, Exclusive, Preparing, PreparingOf, Matches, Mounts, WorkMatchesMarker
<1>4. ASSUME NEW p \in Processes, StartBuild(p) PROVE DInv'
    <2>1. TypeOK'
        BY <1>4 DEF StartBuild, TypeOK, Labels
    <2>2. Exclusive'
        BY <1>4 DEF StartBuild, TypeOK, Exclusive
    <2>3. Preparing'
        BY <1>4 DEF StartBuild, TypeOK, Exclusive, Preparing, PreparingOf, Matches
    <2> QED
        BY <1>4, <2>1, <2>2, <2>3 DEF StartBuild, Mounts, WorkMatchesMarker
<1>5. ASSUME NEW p \in Processes, Prepare(p) PROVE DInv'
    <2>1. TypeOK'
        BY <1>5 DEF Prepare, TypeOK, Labels
    <2>2. Exclusive'
        BY <1>5 DEF Prepare, TypeOK, Exclusive
    <2>3. Preparing'
        BY <1>5 DEF Prepare, TypeOK, Preparing, PreparingOf, Matches
    <2> QED
        BY <1>5, <2>1, <2>2, <2>3 DEF Prepare, Mounts, WorkMatchesMarker
<1>6. ASSUME NEW p \in Processes, EmptyCache(p) PROVE DInv'
    <2>1. job[p] \in Instances /\ lock = p
        BY <1>6 DEF EmptyCache, Preparing, PreparingOf, Exclusive
    <2>2. CASE caches[job[p]] # None
        <3>1. RemovePart(job[p]) /\ pc' = pc
            BY <1>6, <2>2 DEF EmptyCache
        <3>2. Mounts' /\ WorkMatchesMarker' /\ TypeOK'
            BY <1>6, <2>1, <3>1, RemovePartKeeps DEF EmptyCache, TypeOK
        <3>3. Preparing'
            BY <1>6, <2>1, <3>1 DEF EmptyCache, Preparing, PreparingOf, Exclusive
        <3> QED
            BY <1>6, <3>1, <3>2, <3>3 DEF EmptyCache, Exclusive
    <2>3. CASE caches[job[p]] = None
        BY <1>6, <2>1, <2>3
        DEF EmptyCache, TypeOK, Labels, Exclusive, Preparing, PreparingOf, Matches, Mounts,
            WorkMatchesMarker
    <2> QED
        BY <2>2, <2>3
<1>7. ASSUME NEW p \in Processes, EmptyFails(p) PROVE DInv'
    BY <1>7, ReleaseKeeps DEF EmptyFails, TypeOK, Mounts, WorkMatchesMarker
<1>8. ASSUME NEW p \in Processes, MakeCache(p) PROVE DInv'
    <2>1. job[p] \in Instances /\ lock = p /\ caches[job[p]] = None
        BY <1>8 DEF MakeCache, Preparing, PreparingOf, Exclusive
    <2>2. TypeOK'
        BY <1>8, <2>1 DEF MakeCache, TypeOK, Labels, Cache
    <2>3. Mounts' /\ WorkMatchesMarker'
        BY <1>8, <2>1 DEF MakeCache, TypeOK, Mounts, WorkMatchesMarker, Container
    <2>4. \A q \in Processes \ {p} : pc[q] \in {"out", "loaded"}
        BY <2>1 DEF Exclusive
    <2>5. Exclusive'
        BY <1>8, <2>1 DEF MakeCache, TypeOK, Exclusive
    <2>6. Preparing'
        <3> SUFFICES ASSUME NEW q \in Processes PROVE PreparingOf(q)'
            BY DEF Preparing
        <3>1. CASE q = p
            BY <1>8, <2>1, <2>2, <2>4, <3>1 DEF MakeCache, TypeOK, Preparing, PreparingOf, Matches, Cache
        <3>2. CASE q # p
            BY <1>8, <2>1, <2>2, <2>4, <3>2 DEF MakeCache, TypeOK, Preparing, PreparingOf, Matches, Cache
        <3> QED
            BY <3>1, <3>2
    <2> QED
        BY <2>2, <2>3, <2>5, <2>6
<1>9. ASSUME NEW p \in Processes, MarkCache(p) PROVE DInv'
    <2>1. /\ job[p] \in Instances /\ lock = p
          /\ caches[job[p]] # None /\ caches[job[p]].work = None
        BY <1>9 DEF MarkCache, Preparing, PreparingOf, Exclusive
    <2>2. TypeOK'
        BY <1>9, <2>1 DEF MarkCache, TypeOK, Labels, Cache, Catalogues
    <2>3. Mounts' /\ WorkMatchesMarker'
        BY <1>9, <2>1 DEF MarkCache, TypeOK, Mounts, WorkMatchesMarker, Container, Cache
    <2>4. \A q \in Processes \ {p} : pc[q] \in {"out", "loaded"}
        BY <2>1 DEF Exclusive
    <2>5. Exclusive'
        BY <1>9, <2>1 DEF MarkCache, TypeOK, Exclusive
    <2>6. Preparing'
        <3> SUFFICES ASSUME NEW q \in Processes PROVE PreparingOf(q)'
            BY DEF Preparing
        <3>1. CASE q = p
            <4>1. /\ caches[job[p]] \in Cache
                  /\ caches' = [caches EXCEPT ![job[p]].marker = exported[job[p]]]
                  /\ caches \in [Instances -> {None} \cup Cache]
                BY <1>9, <2>1 DEF MarkCache, TypeOK
            <4>2. /\ exported[job[p]] \in Hashes \cup {None}
                  /\ caches'[job[p]] = [caches[job[p]] EXCEPT !.marker = exported[job[p]]]
                BY <2>1, <4>1 DEF TypeOK, Catalogues
            <4> DEFINE c == caches[job[p]]
                       h == exported[job[p]]
                       x == [c EXCEPT !.marker = h]
            <4>3. c \in Cache /\ h \in Hashes \cup {None} /\ caches'[job[p]] = x
                BY <4>1, <4>2
            <4> HIDE DEF c, h
            <4>4. x.marker = h /\ x # None
                BY <4>3, Marked
            <4>5. caches'[job[p]].marker = h /\ caches'[job[p]] # None
                BY <4>3, <4>4
            <4>6. caches'[job[p]].marker = exported[job[p]] /\ caches'[job[p]] # None
                BY <4>5 DEF h
            <4> QED
                BY <1>9, <2>1, <3>1, <4>6 DEF MarkCache, TypeOK, Preparing, PreparingOf, Matches
        <3>2. CASE q # p
            BY <1>9, <2>1, <2>2, <2>4, <3>2 DEF MarkCache, TypeOK, Preparing, PreparingOf, Matches, Cache
        <3> QED
            BY <3>1, <3>2
    <2> QED
        BY <2>2, <2>3, <2>5, <2>6
<1>10. ASSUME NEW p \in Processes, RunContainer(p) PROVE DInv'
    <2> DEFINE i == job[p]
               run == [owner |-> p, instance |-> i, hash |-> exported[i], mounted |-> TRUE]
    <2>1. /\ i \in Instances /\ lock = p /\ exported[i] \in Hashes
          /\ caches[i] \in Cache /\ caches[i].marker = exported[i]
        BY <1>10 DEF RunContainer, Preparing, PreparingOf, Exclusive, Matches, TypeOK, Catalogues
    <2>2. run \in Container
        BY <2>1 DEF Container
    <2>3. caches' \in [Instances -> {None} \cup Cache]
        BY <1>10, <2>1 DEF RunContainer, TypeOK, Cache
    <2>4. TypeOK'
        BY <1>10, <2>2, <2>3 DEF RunContainer, TypeOK, Labels
    <2>5. Mounts' /\ WorkMatchesMarker'
        BY <1>10, <2>1 DEF RunContainer, TypeOK, Mounts, WorkMatchesMarker, Cache
    <2>6. \A q \in Processes \ {p} : pc[q] \in {"out", "loaded"}
        BY <2>1 DEF Exclusive
    <2>7. Exclusive'
        BY <1>10, <2>1 DEF RunContainer, TypeOK, Exclusive
    <2>8. Preparing'
        <3> SUFFICES ASSUME NEW q \in Processes PROVE PreparingOf(q)'
            BY DEF Preparing
        <3>1. CASE q = p
            BY <1>10, <2>1, <2>3, <2>6, <3>1 DEF RunContainer, TypeOK, Preparing, PreparingOf, Matches
        <3>2. CASE q # p
            BY <1>10, <2>1, <2>3, <2>6, <3>2 DEF RunContainer, TypeOK, Preparing, PreparingOf, Matches
        <3> QED
            BY <3>1, <3>2
    <2> QED
        BY <2>4, <2>5, <2>7, <2>8
<1>11. ASSUME NEW p \in Processes, EndBuild(p) \/ RefuseCollection(p) \/ EndCollection(p)
       PROVE  DInv'
    BY <1>11, ReleaseKeeps
    DEF EndBuild, RefuseCollection, EndCollection, TypeOK, Mounts, WorkMatchesMarker
<1>12. ASSUME NEW p \in Processes, LoadCatalogue(p) \/ StartCollection(p) PROVE DInv'
    <2>1. TypeOK'
        BY <1>12 DEF LoadCatalogue, StartCollection, TypeOK, Labels
    <2>2. Exclusive'
        BY <1>12 DEF LoadCatalogue, StartCollection, TypeOK, Exclusive
    <2>3. Preparing'
        BY <1>12 DEF LoadCatalogue, StartCollection, TypeOK, Preparing, PreparingOf, Matches
    <2> QED
        BY <1>12, <2>1, <2>2, <2>3
        DEF LoadCatalogue, StartCollection, Mounts, WorkMatchesMarker
<1>13. ASSUME NEW p \in Processes, BeginSweep(p) PROVE DInv'
    BY <1>13
    DEF BeginSweep, TypeOK, Labels, Exclusive, Preparing, PreparingOf, Matches, Mounts, WorkMatchesMarker
<1>14. ASSUME NEW p \in Processes, Sweep(p) PROVE DInv'
    <2> PICK i \in Instances : RemovePart(i)
        BY <1>14 DEF Sweep, Orphans
    <2>1. TypeOK' /\ Mounts' /\ WorkMatchesMarker'
        BY <1>14, RemovePartKeeps DEF Sweep, TypeOK
    <2>2. \A q \in Processes : pc[q] \in {"out", "loaded"} \/ q = p
        BY <1>14 DEF Sweep, Exclusive
    <2>3. Preparing'
        BY <1>14, <2>2 DEF Sweep, Preparing, PreparingOf
    <2> QED
        BY <1>14, <2>1, <2>3 DEF Sweep, Exclusive
<1>15. ASSUME NEW p \in Processes, Interrupt(p) \/ Kill(p) PROVE DInv'
    <2>1. containers' \subseteq Container
        BY <1>15, Orphan DEF Interrupt, Kill, TypeOK
    <2>2. kills' \in 0..MaxKills
        BY <1>15 DEF Interrupt, Kill, TypeOK
    <2>3. \A c \in containers' : \E d \in containers :
              /\ d.instance = c.instance /\ d.hash = c.hash
              /\ d.mounted = c.mounted
        <3>1. CASE Interrupt(p)
            BY <3>1 DEF Interrupt
        <3>2. CASE Kill(p)
            <4> SUFFICES ASSUME NEW c \in containers'
                         PROVE  \E d \in containers :
                                    /\ d.instance = c.instance /\ d.hash = c.hash
                                    /\ d.mounted = c.mounted
                OBVIOUS
            <4>1. PICK d \in containers :
                      c = IF d.owner = p THEN [d EXCEPT !.owner = None] ELSE d
                BY <3>2 DEF Kill
            <4> QED
                BY <4>1, Orphan DEF TypeOK
        <3> QED
            BY <1>15, <3>1, <3>2
    <2>4. caches' = caches
        BY <1>15 DEF Interrupt, Kill
    <2>5. Mounts' /\ WorkMatchesMarker'
        BY <2>3, <2>4 DEF Mounts, WorkMatchesMarker
    <2> QED
        BY <1>15, <2>1, <2>2, <2>5, ReleaseKeeps DEF Interrupt, Kill
<1>16. CASE UNCHANGED vars
    BY <1>16
    DEF vars, TypeOK, Exclusive, Preparing, PreparingOf, Matches, Mounts, WorkMatchesMarker
<1> QED
    BY <1>1, <1>2, <1>3, <1>4, <1>5, <1>6, <1>7, <1>8, <1>9, <1>10, <1>11, <1>12,
       <1>13, <1>14, <1>15, <1>16
    DEF Next, BuildStep, CollectionStep

LEMMA DInvHolds == Spec => []DInv
    BY DInvInit, DInvStep, PTL DEF Spec

(* The variables of the build directory stay of their types. *)
THEOREM DirectoryTypeCorrect == Spec => []TypeOK
<1>1. DInv => TypeOK
    BY DEF DInv
<1> QED
    BY <1>1, DInvHolds, PTL

(* build_directory_lock: one build or collection at a time, and a process   *)
(* that was killed holds nothing.                                            *)
THEOREM LockExcludes == Spec => []Exclusive
<1>1. DInv => Exclusive
    BY DEF DInv
<1> QED
    BY <1>1, DInvHolds, PTL

(* A provider never finds in its private cache what runs with other inputs  *)
(* have written there.                                                       *)
THEOREM CacheIsOfItsInputs == Spec => []WorkMatchesMarker
<1>1. DInv => WorkMatchesMarker
    BY DEF DInv
<1> QED
    BY <1>1, DInvHolds, PTL

(* A collection that has seen no container sees none start: it leaves the   *)
(* caches of running containers alone.                                       *)
NoneWhileSweeping == \A p \in Processes : pc[p] = "sweep" => containers = {}

LEMMA SweepAlone ==
    ASSUME DInv, NoneWhileSweeping, [Next]_vars
    PROVE  NoneWhileSweeping'
<1> USE DEF DInv, NoneWhileSweeping, Goto, Release
<1>1. CASE Edit \/ WriteWork \/ ContainerEnds \/ UNCHANGED vars
    BY <1>1 DEF Edit, WriteWork, ContainerEnds, vars
<1>2. ASSUME NEW p \in Processes, RunContainer(p) PROVE NoneWhileSweeping'
    BY <1>2 DEF RunContainer, TypeOK, Exclusive
<1>3. ASSUME NEW p \in Processes, EmptyCache(p) PROVE NoneWhileSweeping'
    BY <1>3 DEF EmptyCache, TypeOK, Exclusive
<1>4. ASSUME NEW p \in Processes, Sweep(p) PROVE NoneWhileSweeping'
    BY <1>4 DEF Sweep, RemovePart
<1>5. ASSUME NEW p \in Processes,
             \/ StartBuild(p) \/ Prepare(p) \/ EmptyFails(p) \/ MakeCache(p) \/ MarkCache(p)
             \/ EndBuild(p) \/ LoadCatalogue(p) \/ StartCollection(p)
             \/ RefuseCollection(p) \/ BeginSweep(p) \/ EndCollection(p)
       PROVE NoneWhileSweeping'
    BY <1>5 DEF StartBuild, Prepare, EmptyFails, MakeCache, MarkCache, EndBuild,
        LoadCatalogue, StartCollection, RefuseCollection, BeginSweep, EndCollection, TypeOK
<1>6. ASSUME NEW p \in Processes, Interrupt(p) \/ Kill(p) PROVE NoneWhileSweeping'
    BY <1>6 DEF Interrupt, Kill, TypeOK
<1> QED
    BY <1>1, <1>2, <1>3, <1>4, <1>5, <1>6 DEF Next, BuildStep, CollectionStep

THEOREM CollectionSpares == Spec => CollectionSparesRunning
<1>1. Init => NoneWhileSweeping
    BY DEF Init, NoneWhileSweeping
<1>2. NoneWhileSweeping =>
        [\A i \in Instances :
            (\E p \in Processes : pc[p] = "sweep") /\ caches'[i] # caches[i] =>
                \A c \in containers : c.instance # i]_vars
    BY DEF NoneWhileSweeping
<1>3. Spec => []NoneWhileSweeping
    BY <1>1, DInvHolds, SweepAlone, PTL DEF Spec
<1> QED
    BY <1>2, <1>3, PTL DEF CollectionSparesRunning
=============================================================================
