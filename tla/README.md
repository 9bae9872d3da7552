# A TLA+ model of mountin

mountin detects and mounts file systems by means of guests, libraries and test
images that it builds itself. It has two halves with logic of their own, and this
directory models both, checks them with TLC on small instances, and proves the
main results with TLAPS.

* The **build system**, Python code in `src/src/mountin/`, has most of the state
  and nearly all of the concurrency and recovery: it exports its own sources,
  resolves a catalogue of *providers* into a graph, runs a container for each
  provider whose inputs have changed, and keeps the results in a `build/`
  directory that survives interruptions.
* The **detection library**, Rust code in `src/src/mountin/lib/mountin/src/`,
  finds out what is in an image: it matches the rules of all formats, opens what
  is a container (a partition table, a disk image, a compressed stream), and looks
  at each child in the same way. Its hard part is arithmetic on offsets that come
  from the image, and images that are damaged, cut short or contain themselves.

Source paths below are relative to `src/src/mountin/`, those that end in `.rs` to
`src/src/mountin/lib/mountin/src/`.

## Inventory

| Part | State | Operations | What is hard | What makes it correct |
|---|---|---|---|---|
| source export (`source.py`) | `build/sources/mountin`, its backup, a temporary tree, the identity on record | `export_source_tree` | edits during the copy; a crash between two renames or inside a removal; a build that ends before it records the identity | the tree is replaced as a whole, and it is the one on record |
| build command (`main.py`) | none of its own | `cmd_build`, `cmd_gc`, `cmd_inventory` | what is computed before the lock is taken | order of lock, export, save, build |
| build graph (`catalogue.py`) | none on disk; index, visit, queue while it runs | `build_output_index`, `build_graph` | fixpoint over a dictionary; providers reached by several outputs; cycles | dependencies first, nothing missing, nothing superfluous |
| build cache (`cache.py`) | `build/cache/build_cache.json` | hashing, `is_output_dirty`, `update_output_hash` | trusted time stamps and sizes; directories; what is recorded and what is compared | clean means as a build from nothing would make it |
| runner (`runner.py`) | outputs, their backups, container images | `run_build`, output transaction | failures and interruptions between any two steps | previous outputs survive until verified replacements do |
| lock (`lock.py`) | a flock on `build.lock` | `build_directory_lock` | killed holders | exclusion, and the lock becomes free |
| provider caches (`provider_cache.py`, `runner.py`) | `build/cache/stages/...`, marker and work directory | prepare, remove | containers of killed builds still write | work belongs to the marker |
| garbage collection (`gc.py`) | as above, and images | `collect` | looks first, removes later | running containers and live caches are spared |
| inventory (`inventory.py`) | `build/inventory.json` | `create_inventory` | takes no lock | entries belong to one build |
| downloader (`builder/downloader`) | a file and a temporary beside it | mirrors in turn | short reads, wrong refs | destination whole or absent |
| detection (`detect.rs`, `format.rs`, `lib.rs`, `checksum.rs`) | the catalogue of the process; while it runs, what was seen on the way to an image | `mountin_load_catalogue`, `mountin_detect_tree` | recursion over images in images; threads that load at the same time | it ends, within its depth; no child is lost; the catalogue is set once |
| disk images (`container/disk`, part of it) | none; each reader has a table of where clusters are | `children`, `read_at` | reads across clusters and ends; holes, compression, order on disk; short reads of the file | what is read is what was written |
| segmented images and streams (`container/disk`, `container/arc`, `pt/ubi.rs`) | none | `children`, `read_at` | chains of sections; chunks, blocks and sectors in any order | the same |
| partition tables (`container/pt`) | none | `children` | chains of links between sectors; bounds; numbering | every partition once, where it is |
| guests, runs, serial transports (`guest`, `bin`, `builder/run`) | processes in an emulator | boot, relay, frame | ordering on a byte stream | bytes arrive once and in order |
| provider scripts, test images, packaging (`builder`, `data`, `release`) | outputs | one script each | none: sequential programs | their output |

`cmd_build` takes the lock, exports the sources, loads the catalogue from the
exported tree, saves the cache and calls `run_build`, which calls `build_graph`
and then, for each provider in order, the cache, `prepare_provider_cache`,
`podman build` and `podman run`. Builds, collections and inventories are separate
processes; they share `build/` and the container store, and nothing else.

`mountin_detect_tree` opens a file as a reader and calls `detect_tree`, which asks
`format.rs` for the rules, `get_container` for the container of each format that
matches, and that for its children; a child is a reader again, of a part of the
reader it came from or of bytes in memory. Nothing is written, and threads share
only the catalogue. The build system compiles the catalogue and the library; at run
time the two halves do not meet.

## Modules

| Module | Models | State and actions |
|---|---|---|
| `AtomicTree` | what an exported tree promises | one tree, replaced as a whole |
| `SourceExport` | `export_source_tree` and its caller | a tree is a function from entries to contents, an identity is the tree it is the hash of. `recover` is lines 157-160, `copy` 163-171, `publish` 173-180, `cleanup` 181, `catalogue` and `build` are `cmd_build` after line 255. Removals take one entry at a time |
| `BuildGraph` | `build_output_index`, `build_graph` | one action per output of a pass, per call of `visit`, per return, and per provider taken from the queue |
| `BuildRunner` | `run_build` and `cache.py` | the program counter `pc` follows the loop body: `hash`, `image`, `select`, `begin`, `run`, `verify`, `commit` or `rollback`, and then the next provider. `path`, `backup`, `image`, `layers` and `saved` survive an interruption, everything else goes (`Leave`). `build_requires` are mounted by `podman build`: they are hashed as they are on disk, and the layers podman keeps are keyed without them (`LayerKey`), so `NeedsNoCache` has to keep such a build from using them |
| `BuildDirectory` | the processes that share `build/` | per process: `build`, `empty`, `make`, `mark`, `run` for a build, `loaded`, `collect`, `sweep` for a collection; caches and containers are shared |
| `Readers` | `Reader`, `checked_table_size`, `SliceReader` | operators: what `read_at` returns of a file that is read in one piece or in several, and the steps that the readers of images share |
| `MappedImages` | qcow, qcow2, qed, vmdk (four forms), vdi, parallels, bochs, vhd, vhdx, cloop | per format `...Open`, which is `children`, and `...Read`, which is `read_at` |
| `SegmentImages` | dmg, ewf, ubi | the same, with chains as functions from positions to the positions that follow |
| `StreamImages` | atr, 2mg, cdi, nrg, apridisk, scl, dms, and compressed streams | the same |
| `ImageReading` | a reader at work | an image is opened (`OpenImage`, `OpenFails`), then one of its children is read from the start by reads of any length (`Read`) |
| `PartitionTables`, `AcornTables` | the partition tables that are lists | one operator for each `children` |
| `PartitionChains` | all partition tables; those with links link by link | `slots` is the loop over the first table, `chain` `parse_extended_chain` and `parse_xgm_chain`, `list` the blocks of an Amiga disk, `boots` the boot sectors of a Cumana disk |
| `PartitionLayouts` | what a disk with such links looks like that was written by the rules of its format | a layout says which sectors and entries have which partition, and `Written` that it is so; nothing in it is code of `src/`, and the loops of `PartitionChains` do not occur in it |
| `FormatRules` | `matches_leaf`, `matches_rule_dyn`, the checksums | operators on a file of bytes and a rule |
| `Detection` | `mountin_load_catalogue`, `mountin_detect_tree` in threads | the recursion is a stack of frames, one per image; `nodes` is the report in its order. An image is the set of formats it matches and the children it has |
| `Countdowns` | no code: numbers that say what a function has left to do | four natural numbers in the order of a dictionary (`Lower`) |
| `MC...` | instances for TLC | |
| `...Proofs` | theorems | |

Conventions. The content of an output or image in `BuildRunner` is the set of
`<<provider, version>>` pairs it was made of; the hash of something is that set,
so MD5 and SHA-256 are taken to be injective. The empty set is a partial output.
Time stamps of outputs are taken to differ whenever the content does; those of
exported files are all the same (`SOURCE_EPOCH`), so for these only the size
tells, which is the constant `SameSize`.

`BuildRunner` assumes of its constant `Order` what `BuildGraph` establishes of
`order` (`OrderIsTopological`), and its `Closure` is what `NeededIsClosure` says
of `needed`. Where `order` may lack a provider, see the last finding below.
`HashInputs` of `BuildRunner` stands for the call of `prepare_provider_cache` at
`runner.py:493` too; what that does is `Prepare` to `MarkCache` of
`BuildDirectory`.

In the readers a word stands for an entry of a table or for the content of a place
on the disk, so that "the right words" is decidable without bytes: `Data(i)` is what
the disk has at i, wherever the image keeps it. A compressed cluster is one word
that stands for all of its content; reading fewer words than that fails, more does
no harm, as zlib does it. Only in a vmdk, which does not look at how much of a grain it
read (`vmdk.rs:313`), can a part of a stream unpack to something else (`Garbled`); the theorems
hold of such files, while in the instances a grain is one word, which has no parts. `MCImageReading` is the other side: it writes the image
that a program following the format would write for a disk, and the properties
compare what is read from it with the disk. In `Detection` the container of a format is
the function `Inside`; what it returns for a partition table is `PartitionChains`,
for an image `ImageReading`. Which formats an image matches is the function `Matched`;
`MCDetection` gives the images bytes and the formats rules, and its assumption
`MatchedByRules` has TLC compute `Matched` from them by `FormatRules`.

Each of the detailed modules also holds, beside the operators they alter,
a few definitions marked "Fault": the same operator with a plausible mistake.
They are not part of a specification; with one of them in the place of the
original, the property it was made for is violated.

## What is checked

| Run | Bounds | Shows |
|---|---|---|
| `SourceExport` | 2 files, 2 contents, 3 edits, any number of crashes | the export implements `AtomicTree` (`ExportIsAtomic`); a new tree is the one on record, with no backup that could replace it (`NewTreeIsItsIdentity`); an export that starts ends (`ExportEnds`) |
| `BuildRunner` | 3 providers, 2 images, 4 file outputs, one of them mounted in an image build, 2 changes, 1 interruption | a successful build leaves what a build from nothing would make (`SuccessIsCurrent`) and nothing to do (`NothingLeftDirty`); a recorded file is never lost (`FilesKept`); what is preserved changes only in a commit (`ReplacedOnlyByCommit`) |
| `BuildRunnerDirectories` | one output is a directory, 1 change, 1 interruption | while no build is interrupted, the identity of a directory stands for its content (`CurrentUnlessInterrupted`) and failed builds give it back (`KeptUnlessInterrupted`); a build ends, also with what an interrupted removal left (`BuildEnds`) |
| `BuildDirectory` | 2 processes, 2 providers, 2 hashes, 1 edit, 2 kills | exclusion (`Exclusive`), `WorkMatchesMarker`, `CollectionSparesRunning`; the lock is given up (`LockIsFreed`) |
| `BuildGraph` | graphs of 4 outputs of 3 providers and one outside file, 2 platforms, all target sets | `IndexIsGreatest`, `NothingMissing`, `NeededIsClosure`, `OrderIsTopological`, `OnlyCyclesFail`; `build_graph` returns or raises (`Terminates`) |
| `ImageReading` | 24 formats; disks of 3 clusters of 2 or 4 words, the last not full; all layouts of hole, zero, stored and compressed clusters, upwards and downwards; files cut at 8 places or read in pieces of 2 or 3; reads of 1 to 5 words; of VHD, only images that begin with a footer | what is read is a beginning of the disk (`ReadsTheDisk`), all of it where the file is whole (`IntactIsReadWhole`), and the same in pieces of any size (`ReadsWordByWord`) |
| `PartitionChains` | 21 formats, 4 slots each; all ways to link 3 sectors from 2 extended partitions, lengths that fit and that do not; tables with more entries than their format allows or than are looked at; files cut at up to 3 places | `ChainIsForward`, `IndexesDistinct`, `FindsAll`; reading a table ends (`Ends`) |
| `Detection` | 2 threads with 2 calls, 3 catalogues of 7 formats, 7 images, depth 3 | `DepthIsBounded`, `EveryChildIsReported`, `NoCircle`, `CatalogueIsFinal`; every detection ends (`DetectionEnds`) |

Why the bounds are enough to be interesting. Three edits let the checkout move
away from, and back to, an exported state. Two files make a tree that is half
copied or half removed. Three providers, with an image at the bottom, a
provider that runs in another's image and uses an output of it, one whose image build
mounts that output, and an output with requirements of its
own beside its provider's, are one of each kind of dependency; two changes are a
change that is built and one that is not, or a change and a lost image; one
interruption falls between every two steps of a first or second build. Two kills
give an orphaned container and a second process that dies in the middle of the
cache the container writes to. Two outputs of one provider are what makes a graph
of outputs differ from the graph of providers.

Three clusters, the last of which is not full, have every pair of neighbours, a
first, an inner and a last one; with two entries to a table the third cluster is in
a second table. Reads of 1 to 5 words begin and end everywhere in a cluster of 4, and
reach over the end of the next. Tables that the code reads "as far as they go" are not
cut (`Lenient` in `MCImageReading`): there the code returns zeros in the place of data, see
below. Three links are the least that can form a circle, skip one, and lead back into the
middle. An image with two formats, one that contains itself, a partition where its disk
starts and two volumes at one offset are each a case of `seen`; the depth 3 is reached by two
of them.

Two builds of `BuildRunner` never overlap: that is `Exclusive` of
`BuildDirectory`. Symmetry is used only with model values that no definition
orders or names, and never with a liveness property.

Deadlock is checked except where the program returns: `BuildGraph`, `ImageReading`,
`PartitionChains` and `Detection`.

### Fairness

A process that has been started goes on (`WF` of its own steps): it is
sequential code that waits for nothing but the lock, which it asks for without
blocking, and its children. Containers end (`ContainerEnds`): a provider's script is taken to
terminate. Nobody has to start a build, edit a file, crash or kill, so these have
no fairness. A thread that detects goes on too (`Step` of `Detection`), and so does the
method that reads a partition table; a panic is caught, and none has to happen. Interruptions are bounded, so that a build which is started again
and again by the user is not counted as one that does not end.

### Where the code does not do what it says

Four runs end in a counterexample; each checks one property that states a
sentence of the code's own documentation.

1. `BuildRunnerSameSize`: every exported file has the same time stamp
   (`source.py:136`) and `hash_file` trusts time stamp and size (`cache.py:98`),
   so a change that keeps the size is not seen.
2. `BuildRunnerLostDirectory`: the partial backup left by an interrupted
   commit replaces the complete output (`runner.py:382`).
3. `ImageReadingDms`: the tracks of a DMS file are cylinders of 22 sectors, and are
   placed 11 sectors apart (`container/disk/dms.rs:1024`), so each is written over half of the one
   before (`docs/format/disk/dms.md:92` and the comment at `dms.rs:13`).
4. `DetectionSameOffset`: what was seen is remembered by stream, offset and format
   (`detect.rs:442`), "same bytes get deduped, different bytes don't" (`detect.rs:441`);
   but all volumes of a UBI image have the offset 0 (`pt/ubi.rs:80`), and a format
   found in the first one is passed over in the others, which are reported as data.

Six more configurations end in a counterexample too and can be run by hand
(`tlc -config <name>.cfg <module>`):

* `SourceExportStale` (`MCSourceExport`, `BuildsItsIdentity`): a tree exported by a
  build that ended before `save_cache` is retained when the checkout goes back to the
  identity on record, although the tree is another one (`source.py:169`, against the
  docstring at `source.py:151`).
* `BuildRunnerStaleDirectory` (`MCBuildRunner`, `SuccessIsCurrent`): a partial
  directory output, left by an interrupted container, is taken for the recorded one
  (`cache.py:255`).
* `BuildDirectoryOrphans` (`MCBuildDirectory`, `CollectsOnlyOrphans`): a collection
  computes the live names before it takes the lock (`main.py:311`), and removes a
  cache that the catalogue has a provider for.
* `BuildGraphCycle` (`MCBuildGraph`, `TargetsAreOrdered`): providers that require each
  other by different outputs drop out of the order silently if one of these outputs
  was visited first (`catalogue.py:572`); the same graph is an error with another
  first target.
* `ImageReadingPacked` (`MCImageReading`, `ReadsTheDisk`): a compressed cluster of
  qcow2 whose place in the file has the lowest bit set is read as zeros, because that bit is
  tested as the flag of a zero cluster before the flag of a compressed one
  (`qcow2.rs`, against `docs/format/disk/qcow2.md:69`: "Per-cluster, transparent read").
* `ImageReadingFixed` (`MCImageReading`, `IntactIsReadWhole`): a fixed VHD image is the disk
  with a footer behind it, and is refused, because the footer is looked for at offset 0 only
  (`container/disk/vhd.rs:66`). The format has it "At offset -512 (512 bytes from end) for all
  types" (`docs/format/disk/vhd.md:74`, as in the rule at line 16 by which the image is
  recognised), and the comment at `vhd.rs:57` says "or check end for fixed". The branch for fixed disks in
  `vhd.rs` is reached only by an image whose disk begins with a footer of its own. Fixed
  images of this kind alone are among the intact images of the run `ImageReading`
  (`FixedOfFooter`): for all others `IntactIsReadWhole` fails.

`FilesKept` and `ReplacedOnlyByCommit` hold where partial directories and lost backups
break `OutputsKept`: a file is removed by one system call, so no partial backup exists.

What the modelling of the readers showed besides, without a sentence in the
repository that says otherwise: tables of vhdx, vmdk4 and sesparse that are cut short, and
missing blocks of UBI, are read as zeros instead of an error; bitmap entries between the
blocks of a large vhdx are counted as blocks; of the array of tables of a dmg image
only the first is used; erase blocks of 64 KiB are taken for 128 KiB ones, and of two
copies of a block the sequence number does not decide; a table that lies across
two clusters of an image inside of an image is refused; a chain of MBR or Atari links that
leads back loses the partitions behind it; a circle of Amiga blocks repeats partitions up to
the bound of 256; of subtractions in `rdb.rs:75` and `dasd.rs` the operands are not
compared. The rules are matched in the order of a hash map, where `detect.rs:435` speaks of
priority.

## What is proved

All theorems hold for every value of the constants that satisfies the modules'
named assumptions, in `Detection` for images that contain each other or themselves in any
way, in `PartitionChains` for disks whose links hold any numbers, and in `ImageReading` for
files of any words. The assumptions say that the sentinel values (`None`,
`Absent`) are not elements of the sets they stand beside, that bounds are
natural numbers, that a checkout has finitely many files and a catalogue finitely many outputs
(`EntriesAssumption`, `CatalogueIsFinite`, `OutputsAssumption`), for `BuildRunner`, that the
order puts dependencies first (which is what `OrderIsSorted` shows of `build_graph`), and for
`PartitionChains`, that the numbers of a table have no sign and that an MBR has four
entries.

* `SourceExportProofs`. `TypeCorrect`, `NewTreeRecorded` and `ExportRefines`
  rest on one inductive invariant that says, for each value of `pc`, which of
  destination and backup is whole. The refinement maps the abstract tree to the
  destination, or to the backup while there is no destination; then only
  `PublishTree` changes it.
* `BuildRunnerProofs`. `FilesAreKept` and `BackupsAreFaithful`. The invariant
  `KeptInv` says that the backups of the current transaction are whole, that
  only the commit may remove one, and that in a commit every output not yet
  committed has been verified; without the last part the removal of a backup
  could not be shown to be harmless. It says nothing of hashes.
  `OutputsAreKept` is about directories, whose removal is not one step. `UnbrokenInv` adds to
  `KeptInv` where each output is in a build that nothing has interrupted: outside of a
  transaction in its place and with no backup (`Settled`), in one as the backup that this
  transaction made (`SetApart`). Without the half on backups a half-removed one could be taken
  for one of an interrupted build, which is what happens after an interruption
  (`BuildRunnerLostDirectory`).
* `BuildCurrencyProofs`. `BuildRunnerTypes` and `NothingIsLeftDirty` rest on
  `ProgressInv`: the providers the loop is through with are `Done`, with hashes, image
  and clean outputs, and a step of a later provider touches nothing that these depend on
  (`HandledStayDone`), because the order has what they require before them.
  `SuccessIsFresh` has two assumptions: `Directories = {}` and `SameSize = {}`; the two
  runs named below, `BuildRunnerStaleDirectory` and `BuildRunnerSameSize`, show that
  `SuccessIsCurrent` fails without either. `SuccessIsFreshUninterrupted` drops the first
  where no build was interrupted. The invariant `CurrentInv` is that
  whatever the caches record, now or in a file of an earlier build, was made of *some* one
  version of every provider's files (`Recorded`), and that providers which have been handled are of
  the current one (`Right`). A clean output is then current because its input hash covers
  every provider it is made of: `ImageIsHashed` and `OutputIsHashed` show this of the
  least closed sets (`Closure`) that the two are defined by, `Determined` that a hash fixes what it
  covers. The cache knows a directory by the hash of its inputs, and so do the providers
  that depend on it; `IntoHash` is the graph that hashes follow, `Hashed` and `OutputHashed` what
  they cover through any number of directories, and `MadeIsCovered` that this is no less
  than what goes into the content. `DirectoriesFit` ties the record of a directory to its content:
  both are of the same versions, in its place or in the backup (`UnbrokenInv`), except while a
  commit replaces it. `LayersRight` says that a layer equals its key where nothing is mounted, so that
  building from layers makes no difference there; elsewhere `image_needs_no_cache` keeps
  them out.
* `BuildDirectoryProofs`. `DInv` says what a process in the middle of
  preparing a cache knows of it (`Preparing`) and that a container has a work
  directory mounted only while the cache is of its inputs (`Mounts`): the
  removal of the work directory is what cuts an orphan off. `Exclusive` carries
  the step from one process to all. `CollectionSpares` adds that no container runs
  while a collection sweeps.
* `BuildGraphProofs`. `IndexInv`: in a pass that has changed nothing, the
  outputs looked at have their requirements, and no closed set ever loses an
  output. `VisitFindsAll` adds that whatever the calls of `visit` have still to
  look at is available.
  `NeededIsTheClosure`: what is needed is what the targets lead to, and
  whatever an output that has been visited requires is visited too or is next for one of the
  calls on the stack. `BuildGraphTypes`, `OrderIsSorted` and `CyclesOnly`: `OrderInv` says
  that `in_degree` of a provider is the number of its dependencies that the order does
  not have yet, which is counted with the library's theorems on finite sets, and that the queue
  has those at zero; when the queue is empty, the providers left over each wait for another,
  which is a circle.
* `PartitionChainsProofs`. `PartitionTypes`, `PartitionForward` and `PartitionIndexes`. `Forward` adds to
  `ChainIsForward` that the next link to be read is behind all that were read and, from the
  second on, inside of the extended partition; `Types` says which of the four kinds of chains is
  followed and that a list has a link for every child, which bounds the one by the
  other. `PartitionIndexes` rests on `Numbered`: the partitions listed so far have different
  numbers, and where the loop numbers them by a count, no number has reached it. A table
  whose list is made in one step numbers its partitions by slot, which the filters keep
  apart because they keep the order (`NthType`, `NthDiffers`: the n-th of a set of slots is the
  one with n - 1 below it, and there is one for each n up to the size of the set), or counts them.
  `Picked` in `PartitionTables` is such a filter, written with these ranks because
  nothing can be proved of `SelectSeq`, a recursive definition; `MCPartitionChains` has TLC compare
  the two (`PickedIsSelected`).
  `PartitionsAreFound` is `FindsAll` for the four formats that have links, with chains of any
  length up to the bound of the loop. Its hypothesis is that each intact disk of these formats is
  `Written`: there is a layout that says of all its sectors at once where the partitions are (which
  chain starts at which slot, that a link counts from its own sector and the next link from the
  first, and so on), without the loops. `DisksAreWritten` has TLC evaluate this for all
  disks of the run, with the layouts of `MCPartitionChains`. The invariant `SoFar` says, for each
  value of `pc`, that the children are the first partitions of the disk (`Begins`), how many, and
  that the next sector is the one the layout has next; that no partition is lost at the
  end of a chain or passed twice is the counting of `before` and `number`. `AscendsNth` turns the filters
  of ICD, RISCiX and Linux tables (`Nth`) into the lists that the layout names.
* `DetectionProofs`. `DetectionTypes`, `DetectionDepth`, `DetectionCatalogue`,
  `DetectionNoCircle` and `DetectionReportsAll`. `IInv` says of every stack that each image around another is open at the child that holds it, and
  that there are no more of them than the bound; a node at the bound is data, because an
  image there is never looked at. Lemmas about stacks (replaced, pushed, popped) carry
  this through the actions. `DetectionNoCircle` needs `TraceInv`: what a format hands to its
  children has been seen and has its own key in it (`Traced`), and every image knows all that
  those around it hand on (`Apart`). `LeaveChild` replaces what is handed on by what the
  child has seen, which is never less for the same reason. `DetectionReportsAll` needs `Tree`:
  every node in the report is complete, except one for each image that is open (`Tip`), the
  last of its depth; of its children, those that are told and those that are left are all, and the
  one that is being looked at is told as soon as anything is found in it (`before`). One lemma for
  each way in which stack and report change together carries this (`TreeMatched`,
  `TreeEntered`, `TreePassed`, `TreeLeft`), and when the last image is left no tip remains.

* `ImageReadingProofs`. `ReadingTypes`, `PiecesDoNotMatter`, `PiecesReadTheDisk` and
  `PiecesReadItWhole`. The first
  two hold for any file, with any words in it, that is read in pieces of any size itself.
  Every clustered reader cuts a read at the end of its cluster, and what a cluster is read
  from (zeros, a place in the file, words in memory, nothing, an error) depends on
  the cluster only: that is its `Source`, and there is one lemma on it for each of 14 formats
  (`QcowSource` and so on). From it `ClusterIsWordwise` gives that a read of n words
  is what reads of one word give, one after the other; slices, the segments of
  ewf and the chunks and gaps of dmg are cut elsewhere and have lemmas of their own. The readers that
  `children` makes have the types these lemmas need (`OpenMappedType`, one lemma for each
  `...Open`). `ReadingInv` carries this through a reading, to its end or its first error. `PiecesReadTheDisk`
  concludes `ReadsTheDisk`, for any lengths of reads, from what reads of
  single words give; that is its hypothesis, `WordsAreRight`, which TLC evaluates for all
  images of `MCImages` (`ImagesAreRight` in `MCImageReading`). So whether an image
  is read right does not depend on how it is read, only on its tables.
  `PiecesReadItWhole` does the same for `IntactIsReadWhole`; its hypothesis `WordsAreWhole` is
  that a complete image is not refused and has every word of its disk (`ImagesAreWhole`). Here the
  errors of dmg and ewf, which read a chunk as a whole or not at all, need `FailsAtAWord`: where a
  read of a file in one piece fails, so does one of a single word.

  `ImagesAssumption` says what a file and the numbers of a header are. Two parts of it are
  more than types. In a dmg, the chunks of the table end in ascending order, because
  `find_chunk` searches by halves (`dmg.rs:382`) and finds the right one only then; the code
  sorts them by where they start (`dmg.rs:231`), so they do unless one lies inside another. Of
  images that have no map of clusters (slices, streams, dmg, ewf, UBI), the types of the readers
  are assumed and not derived, because the chains of sections and blocks they are made from are
  recursive functions; TLC evaluates them too.

Five theorems are about coming to an end. Liveness itself cannot be proved here: it takes
fairness, and fairness is about `ENABLED`. What can be proved of every value of the constants is
the half of it that is about the code, that there is no endless sequence of steps:
`ExportCountsDown` (`SourceExportProofs`), `BuildCountsDown` (`BuildCurrencyProofs`),
`GraphCountsDown` (`BuildGraphProofs`), `ReadingCountsDown` (`PartitionChainsProofs`) and
`DetectionCountsDown` (`DetectionProofs`). Each names what is left to do and shows that every step lowers it,
as a natural number or in the order of `Countdowns`, neither of which has an endless way down.

* An export has its phases, and in each the files that are to be copied or removed; an edit of
  the checkout does not add to them.
* A build has the providers that are left, the stages of the current one, and in a stage the
  outputs that are left and what can be removed of the next one. A container that writes counts
  too: an output of it goes from missing to partial to whole.
* Of the graph, a pass over the index that changes something takes an output from the index, a
  call of `visit` adds one to those visited, and otherwise a requirement that waits in
  one of the calls, or a call, is done with; the sort takes a provider that the order does not have.
* A partition table has the slots and links that are left. The bound of the loops is what ends a chain
  whose links lead in a circle.
* A detection has, at every depth from outside, the formats and children that are left
  (`FrameLeft`); a step takes away from one depth and may only refill those inside of it (`Nearer`), of
  which there are no more than `MAX_DEPTH`. So it does not take the set of what was seen to
  end for an image that contains itself, although that set is what keeps it short.

That a process which is not at its end can take a step, so that under the fairness stated it gets
there, is what TLC checks with `ExportEnds`, `BuildEnds`, `Terminates`, `Ends` and `DetectionEnds`.
`LockIsFreed` has no such theorem: a cache that is being emptied may be written to again by an orphaned
container, so that it ends only because containers do, which is fairness and not counting.

Only model-checked: `FindsAll` of the tables without links, which are read in one step, so that a
hypothesis about how they are written would be what it concludes; `DisksAreWritten`; `WordsAreRight` and `WordsAreWhole`,
which compare an image with the program that wrote it (`MCImageReading`); all liveness
properties, as said above. Induction over recursive definitions is out of the proof system's reach too.

## What is not modelled

Logging, argument parsing, the text of files, image tags and names; the
one-time migration of image labels (`runner.py:512-515`); exceptions of
`prepare_provider_cache` inside `run_build` (they end the build like a crash
does, and `BuildDirectory` has them as `EmptyFails`); the removal of untagged
images in `collect`; power failures that lose completed renames. A container is
taken to end with its build in `BuildRunner`, and may outlive it in
`BuildDirectory`. The reading of the catalogue is taken as done.

Of the library: the decoders inside of `dms.rs` and those of zlib, bzip2, xz, zstd, lz4 and
lzma, XML and base64 in dmg, MessagePack, character sets, CRCs (right or wrong, as the image
says), encryption of Acorn tables other than as a rule; widths of integers, where the
code checks its sums or computes 32-bit fields in 64 bits (the unchecked subtractions named
above are not reached by the disks of `MCPartitionChains`); backing files, snapshots and
split images, which the code does not read either. A file is not changed while it is
read.

Not modelled at all, as the components list says of each: the inventory, the downloader,
the scripts of provider containers with the serial relay of the 9front run and the framed
stream of the Darwin guest, the format compiler, the detection tool, packaging and test
images. They are sequential and keep no state, or are external programs, except the inventory,
the downloader and the serial streams, which would be the next modules.
