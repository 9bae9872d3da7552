---------------------------- MODULE MCImageReading ----------------------------
(***************************************************************************)
(* The images to read: what a program that follows the format writes for a    *)
(* disk of three clusters, the last of which is not full, for all layouts of    *)
(* its clusters, stored upwards and downwards.  The files are whole, or cut     *)
(* short, or read in pieces of two or three words.                            *)
(***************************************************************************)
EXTENDS ImageReading, TLC

Clusters == 0..2
OnePiece == 1000
Pad == Word("pad", 0, "none")
NoWords == [w \in {} |-> Pad]
Entry(at, flag) == Word("entry", at, flag)

Bytes(n, words) ==
    [step |-> OnePiece, words |-> [i \in 1..n |-> IF i - 1 \in DOMAIN words THEN words[i - 1] ELSE Pad]]
Image(header, n, words, disks) ==
    [header |-> header, file |-> Bytes(n, words), disks |-> disks, intact |-> TRUE]

Cuts(images) ==
    {[i EXCEPT !.file.words = SubSeq(@, 1, Min({n, Len(@)})), !.intact = FALSE] :
        i \in images, n \in {0, 1, 3, 5, 8, 11, 15, 19}}
Pieces(images) ==
    {[i EXCEPT !.file.step = s, !.intact = FALSE] : i \in images, s \in {2, 3}}
-----------------------------------------------------------------------------
(* Layouts of the clusters; cluster c has the words c * unit + 1 and so on.      *)
Layouts(kinds) == [Clusters -> kinds]
DiskSize(unit) == 3 * unit - 1
Disk(layout, unit) ==
    [i \in 1..DiskSize(unit) |->
        IF layout[(i - 1) \div unit] \in {"data", "packed"} THEN Data(i) ELSE Zero]
Only0(disk) == [c \in {0} |-> disk]

Stored(layout) == {c \in Clusters : layout[c] \in {"data", "packed"}}
Rank(layout, up, c) ==
    Cardinality({d \in Stored(layout) : IF up THEN d < c ELSE d > c})

(* The words of stored clusters, cluster c at place[c]. *)
Contents(layout, place, unit) ==
    LET of(c) == IF layout[c] = "packed" THEN place[c] :> Word("packed", c * unit + 1, "none")
                 ELSE [w \in place[c]..(place[c] + unit - 1) |-> Data(c * unit + 1 + w - place[c])]
        add[d \in SUBSET Stored(layout)] ==
            IF d = {} THEN NoWords
            ELSE LET c == CHOOSE c \in d : TRUE IN of(c) @@ add[d \ {c}]
    IN  add[Stored(layout)]

Table(at, entries) == [w \in at..(at + Len(entries) - 1) |-> entries[w - at + 1]]

(* A table at the word 4, the clusters from 8 on in steps of "stride", each       *)
(* after "skip" words of its own.  number(place) is what the table has of it.     *)
OneLevel(header, kinds, unit, stride, skip, number(_), special(_)) ==
    {LET place == [c \in Clusters |-> 8 + stride * Rank(layout, up, c) + skip]
         entries == [i \in 1..3 |-> IF i - 1 \in Stored(layout)
                                    THEN Entry(number(place[i - 1]), "present")
                                    ELSE special(layout[i - 1])]
     IN  Image(header, IF Stored(layout) = {} /\ header.format # "bochs" THEN 7
                       ELSE 8 + stride * Cardinality(Stored(layout)),
               Table(4, entries) @@ Contents(layout, place, unit), Only0(Disk(layout, unit))) :
     layout \in Layouts(kinds), up \in BOOLEAN}

(* A directory at the word 4, two tables of two entries at 8 and 10, and the      *)
(* clusters from 12 on.                                                        *)
TwoLevels(header, kinds, unit, stride, skip, number(_), scale, special(_)) ==
    {LET place == [c \in Clusters |-> 12 + stride * Rank(layout, up, c) + skip]
         entry(c) == IF c \in Stored(layout)
                     THEN Entry(number(place[c] - skip),
                                IF layout[c] = "packed" THEN "packed" ELSE "3")
                     ELSE IF c = 3 THEN Entry(0, "0") ELSE special(layout[c])
         directory == [t \in 1..2 |->
                         IF \A c \in {2 * t - 2, 2 * t - 1} : entry(c) = Entry(0, "0")
                         THEN Entry(0, "0")
                         ELSE Entry((6 + 2 * t) \div scale, IF t = 1 THEN "0" ELSE "3")]
     IN  Image(header, 12 + stride * Cardinality(Stored(layout)),
               Table(4, directory) @@ Table(8, <<entry(0), entry(1), entry(2), entry(3)>>)
                    @@ Contents(layout, place, unit), Only0(Disk(layout, unit))) :
     layout \in Layouts(kinds), up \in BOOLEAN}

Hole(kind) == Entry(0, "0")
HoleOrOne(kind) == IF kind = "zero" THEN Entry(1, "0") ELSE Entry(0, "0")
Same(p) == p
Sectors(p) == p \div Sector

H(format, magic, size) == [format |-> format, magic |-> magic, size |-> size, table_at |-> 4]
With(h, more) == h @@ more

QcowImages == TwoLevels(With(H("qcow", "QFI", 11), [version |-> 1, unit |-> 4, per |-> 2]),
                        {"hole", "data", "packed"}, 4, 4, 0, Same, 1, Hole)
Qcow2Header == With(H("qcow2", "QFI", 5), [version |-> 3, unit |-> 2, entries |-> 2])
Qcow2Images == TwoLevels(Qcow2Header, {"hole", "zero", "data", "packed"}, 2, 2, 0, Same, 1, HoleOrOne)
QedImages == TwoLevels(With(H("qed", "QED", 5), [unit |-> 2, table_size |-> 1]),
                       {"hole", "zero", "data"}, 2, 2, 0, Same, 1, HoleOrOne)
SparseHeader(h) == With(h, [granularity |-> 2, per |-> 2])
Vmdk3Images == {[i EXCEPT !.header.table_at = 2] : i \in
    OneLevel(With(H("vmdk3", "COWD", 11), [granularity |-> 2, entries |-> 3]),
             {"hole", "data"}, 4, 4, 0, Sectors, Hole)}
Vmdk4Images == {[i EXCEPT !.header.table_at = 2] : i \in
    TwoLevels(SparseHeader(With(H("vmdk4", "KDMV", 11), [compressed |-> FALSE, zeroed |-> TRUE])),
              {"hole", "zero", "data"}, 4, 4, 0, Sectors, Sector, HoleOrOne)}
StreamOptimized == {[i EXCEPT !.header.table_at = 2] : i \in
    TwoLevels(SparseHeader(With(H("vmdk4", "KDMV", 11), [compressed |-> TRUE, zeroed |-> FALSE])),
              {"hole", "packed"}, 4, 2, 1, Sectors, Sector, Hole)}
SeSparseImages ==
    TwoLevels(With(H("sesparse", "cafebabe", 11), [unit |-> 4, per |-> 2]),
              {"hole", "zero", "data"}, 4, 4, 0, Same, 1,
              LAMBDA k : IF k = "zero" THEN Entry(0, "2") ELSE Entry(0, "0"))
VdiImages == OneLevel(With(H("vdi", "VDI", 11), [unit |-> 4, entries |-> 3, data_at |-> 8]),
                      {"hole", "zero", "data"}, 4, 4, 0, LAMBDA p : (p - 8) \div 4,
                      LAMBDA k : Entry(99, IF k = "zero" THEN "discarded" ELSE "unallocated"))
ParallelsImages ==
    OneLevel(With(H("parallels", "WithoutFreeSpace", 11), [version |-> 2, tracks |-> 2, entries |-> 3]),
             {"hole", "data"}, 4, 4, 0, Sectors, Hole) \cup
    OneLevel(With(H("parallels", "WithouFreSpacExt", 11), [version |-> 2, tracks |-> 2, entries |-> 3]),
             {"hole", "data"}, 4, 4, 0, LAMBDA p : p \div 4, Hole)
ShortParallels ==
    {[i EXCEPT !.header.entries = 2, !.intact = FALSE] : i \in ParallelsImages}
BochsImages ==
    OneLevel(With(H("bochs", "Bochs", 11), [growing |-> TRUE, unit |-> 4, entries |-> 4, bitmap |-> 1]),
             {"hole", "data"}, 4, 6, 2, LAMBDA p : (p - 10) \div 6,
             LAMBDA k : Entry(99, "unallocated"))
VhdImages ==
    {[i EXCEPT !.file.words[1] = VhdFooter] : i \in
     OneLevel(With(H("vhd", "conectix", 11), [type |-> "dynamic", dynamic_magic |-> TRUE, unit |-> 4,
                                             entries |-> 3]),
             {"hole", "data"}, 4, 6, 2, LAMBDA p : (p - 2) \div Sector,
             LAMBDA k : Entry(99, "unallocated"))}

(* A fixed image is the disk, with the footer behind it.                        *)
FixedImage(disk) ==
    Image(With(H("vhd", "conectix", Len(disk)), [type |-> "fixed", entries |-> 0]),
          Len(disk) + Sector, Table(0, disk) @@ Len(disk) :> VhdFooter, Only0(disk))
Numbers(from, to) == [i \in 1..(to - from + 1) |-> Data(from + i - 1)]
FixedImages == {FixedImage(Numbers(1, n)) : n \in {8, 10}}

(* One whose disk begins as its footer does. *)
FixedOfFooter == {FixedImage(<<VhdFooter>> \o Numbers(2, n)) : n \in {8, 10}}
VhdxHeader(bat) ==
    [format |-> "vhdx", magic |-> "vhdxfile", region_magic |-> TRUE,
     regions |-> <<[kind |-> "bat", at |-> 4, length |-> bat], [kind |-> "metadata", at |-> 1, length |-> 1]>>,
     items |-> <<[kind |-> "size", at |-> 11], [kind |-> "block", at |-> 4]>>]
VhdxImages ==
    {[i EXCEPT !.file.words = [w \in DOMAIN @ |->
                    IF @[w].flag = "present" THEN [@[w] EXCEPT !.flag = "fully-present"] ELSE @[w]]] :
     i \in OneLevel(VhdxHeader(3), {"hole", "zero", "data"}, 4, 4, 0, Same,
                    LAMBDA k : Entry(0, IF k = "zero" THEN "zero" ELSE "not-present"))}
CloopImages ==
    {Image([format |-> "cloop", blocks |-> 3, unit |-> 4, table_at |-> 1], 11,
           Table(1, [i \in 1..4 |-> Entry(5 + 2 * (i - 1), "none")])
             @@ [w \in {5, 7, 9} |-> Word("packed", 2 * (w - 5) + 1, "none")],
           Only0([i \in 1..12 |-> Data(i)]))}
-----------------------------------------------------------------------------
(* dmg: the chunks have the two sectors of a cluster, in the order of the array  *)
(* up or down; a hole has none.  The data fork is at 2.                         *)
DmgImages ==
    {LET place == [c \in Clusters |-> 2 + 4 * Rank(layout, up, c)]
         chunk(c) == [type |-> CASE layout[c] = "data" -> "raw" [] OTHER -> layout[c],
                      number |-> 2 * c, count |-> 2, place |-> 4 * Rank(layout, up, c),
                      length |-> IF layout[c] = "packed" THEN 1 ELSE 4]
         order == IF up THEN <<0, 1, 2>> ELSE <<2, 1, 0>>
         listed == SelectSeq(order, LAMBDA c : layout[c] # "hole")
         entries == <<[type |-> "comment", number |-> 0, count |-> 1, place |-> 0, length |-> 0]>>
                      \o [i \in DOMAIN listed |-> chunk(listed[i])]
                      \o <<[type |-> "last", number |-> 0, count |-> 0, place |-> 0, length |-> 0]>>
         size == (Max({c \in Clusters : layout[c] # "hole"}) + 1) * 4
     IN  Image([format |-> "dmg", fork |-> 2, xml_at |-> 14, xml_length |-> 1,
                plist |-> <<<<[valid |-> TRUE, start |-> 0, entries |-> entries]>>>>],
               17, Contents(layout, place, 4) @@ 15 :> Word("koly", 0, "none"),
               Only0([i \in 1..size |->
                   IF layout[(i - 1) \div 4] \in {"data", "packed"} THEN Data(i) ELSE Zero])) :
     layout \in Layouts({"hole", "zero", "data", "packed"}) \ {[c \in Clusters |-> "hole"]},
     up \in BOOLEAN}

(* ewf: the sections volume, table, sectors and done, or sectors before table;   *)
(* the last chunk has no more words than the disk.                              *)
EwfImages ==
    {LET length(c) == IF layout[c] = "packed" THEN 1 ELSE IF c = 2 THEN 3 ELSE 4
         first(c) == 1 + (IF c > 0 THEN length(0) ELSE 0) + (IF c > 1 THEN length(1) ELSE 0)
         sectors == IF table_first THEN 9 ELSE 4
         end == sectors + first(2) + length(2)
         table == IF table_first THEN 4 ELSE end
         done == IF table_first THEN end ELSE end + 5
     IN  Image([format |-> "ewf", magic |-> "EVF", unit |-> 4], done + 1,
               Table(1, <<Word("section", 4, "volume"), Word("count", 3, "none"),
                          Word("size", 11, "none")>>)
                 @@ sectors :> Word("section", end, "sectors")
                 @@ Table(table, <<Word("section", IF table_first THEN 9 ELSE done, "table"),
                                   Word("count", 3, "none")>>
                                 \o [c \in 1..3 |-> Entry(first(c - 1), layout[c - 1])])
                 @@ done :> Word("section", 0, "done")
                 @@ Contents([c \in Clusters |-> layout[c]],
                             [c \in Clusters |-> sectors + first(c)], 4),
               Only0([i \in 1..11 |-> Data(i)])) :
     layout \in Layouts({"data", "packed"}), table_first \in BOOLEAN}

(* ubi: two volumes, the second with one block; the blocks of the first in any   *)
(* order, of which one may be missing, and one block that is free.             *)
UbiImages ==
    {LET peb(p) == 8 * p
         words(p, volume, number, value) ==
            Table(peb(p), <<Word("ec", 4, "none"), Word("vid", volume, "none"),
                            Word("lnum", number, "none"), Word("size", 4, "none")>> \o [i \in 1..4 |-> Data(value + i)])
     IN  Image([format |-> "ubi"], 40,
               (IF hole THEN words(0, 0, 2, 8) ELSE words(0, 0, order[1], 4 * order[1]))
                 @@ words(1, 0, order[2], 4 * order[2])
                 @@ peb(2) :> Word("ec", 4, "none")
                 @@ words(3, 0, order[3], 4 * order[3])
                 @@ words(4, 5, 0, 20),
               0 :> [i \in 1..12 |-> IF hole /\ (i - 1) \div 4 = order[1] /\ order[1] # 2
                                     THEN Zero ELSE Data(i)]
                 @@ 5 :> [i \in 1..4 |-> Data(20 + i)]) :
     order \in {s \in [1..3 -> 0..2] : \A i, j \in 1..3 : s[i] = s[j] => i = j}, hole \in BOOLEAN}
-----------------------------------------------------------------------------
(* Slices and streams. *)
SliceImages ==
    {Image([format |-> "atr", magic |-> "0296", size |-> n], n + 1 + tail,
           Table(1, Numbers(1, n)), Only0(Numbers(1, n))) : n \in 1..5, tail \in 0..2} \cup
    {Image([format |-> "2img", magic |-> "2IMG", data_at |-> at, length |-> n], at + n + tail,
           Table(at, Numbers(1, n)), Only0(Numbers(1, n))) : at \in 1..3, n \in 1..5, tail \in 0..2}

(* cdi: two sessions, of one track and of two, with gaps before the tracks.      *)
CdiImages ==
    {LET gap == <<0, 1, 2>>
         unit(t) == CdiSectors[sizes[t]]
         end[t \in 0..3] == IF t = 0 THEN 0 ELSE end[t - 1] + (gap[t] + 1) * unit(t)
         start(t) == end[t - 1] + gap[t] * unit(t)
         track(t) == <<Word("track", gap[t], "mode1"), Word("length", 1, sizes[t])>>
         header == end[3]
     IN  Image([format |-> "cdi"], header + 11,
               [w \in 0..(header - 1) |-> Data(w + 1)]
                 @@ Table(header, <<Word("sessions", 2, "none"), Word("session", 1, "none")>> \o track(1)
                                  \o <<Word("session", 2, "none")>> \o track(2) \o track(3)
                                  \o <<Word("version", 0, version),
                                       Word("header", IF version = "3.5" THEN 11 ELSE header, "none")>>),
               [t \in 0..2 |-> Numbers(start(t + 1) + 1, start(t + 1) + unit(t + 1))]) :
     sizes \in [1..3 -> {"cooked", "raw"}], version \in {"2", "3.5"}}

(* nrg: tracks of a DAO or an ETN chunk among other chunks, one of them of a      *)
(* mode that is not known.                                                     *)
NrgImages ==
    {LET entry(from, to, mode) ==
            <<Word("start", from, mode), Word("end", IF id = "DAO" THEN to ELSE to - from, "none")>>
     IN  Image([format |-> "nrg"], 19,
               [w \in 0..7 |-> Data(w + 1)]
                 @@ Table(8, <<Word("chunk", 1, "CUES"), Pad, Word("chunk", 6, id)>>
                             \o entry(1, 4, "mode1") \o entry(5, 6, "other") \o entry(4, 8, "audio")
                             \o <<Word("chunk", 0, ending), Word("footer", 8, version)>>),
               0 :> Numbers(2, 4) @@ 1 :> Numbers(5, 8)) :
     id \in {"DAO", "ETN"}, ending \in {"END", "none"}, version \in {"NER5", "NERO"}}

(* apridisk: the four sectors of two tracks, raw or a word that is repeated, in   *)
(* any order, with a comment among them; one may be missing.                    *)
ApridiskImages ==
    {LET sector(i) == <<1000 * (i \div 2) + (i % 2) + 1>>
         record(i) == IF i = rle THEN <<Word("record", 1, "rle"), Word("chs", sector(i)[1], "sector"), Zero>>
                      ELSE <<Word("record", 2, "raw"), Word("chs", sector(i)[1], "sector"),
                             Data(2 * i + 1), Data(2 * i + 2)>>
         order == IF up THEN <<0, 1, 2, 3>> ELSE <<3, 2, 1, 0>>
         stored == SelectSeq(order, LAMBDA i : i # missing)
         words == <<Pad, Word("record", 0, "raw"), Word("chs", 0, "comment")>>
                    \o FlattenSeq([j \in DOMAIN stored |-> record(stored[j])])
     IN  Image([format |-> "apridisk", magic |-> "ACT", max_sectors |-> 4], Len(words), Table(0, words),
               Only0([w \in 1..8 |-> IF (w - 1) \div 2 \in {rle, missing} THEN Zero ELSE Data(w)])) :
     up \in BOOLEAN, rle \in 0..4, missing \in {1, 2, 5}}

(* scl: up to two files of up to three sectors.  The disk has to have a catalogue *)
(* in which the files do not overlap.                                         *)
SclImages ==
    {LET used == FoldFunctionOnSet(+, 0, size, DOMAIN size)
         start(i) == 3 + (IF i = 2 THEN size[1] ELSE 0)
     IN  Image([format |-> "scl", magic |-> "SINCLAIR"], 1 + Len(size) + used,
               Table(0, <<Word("scl", Len(size), "none")>> \o
                        [i \in DOMAIN size |-> Word("entry", size[i], "name")] \o Numbers(1, used)),
               Only0([i \in DOMAIN size |-> Word("entry", start(i), "name")]
                     \o [i \in 1..(2 - Len(size)) |-> Zero]
                     \o <<Word("system", 3 + used, "none")>> \o Numbers(1, used)
                     \o [i \in 1..(6 - used) |-> Zero])) :
     size \in UNION {[1..n -> 0..3] : n \in 1..2}}

StreamImage(h, n) ==
    Image(h, n + 2, Table(1, [i \in 1..n |-> Word("packed", 2 * i - 1, "none")])
                      @@ (n + 1) :> Word("end", 0, "none"), Only0(Numbers(1, 2 * n)))
StreamImages0 ==
    {StreamImage(h, n) : n \in 1..3,
        h \in {[format |-> "stream", unit |-> 2], [format |-> "compress", unit |-> 2, max_bits |-> 12]}}
(* dms: the cylinders of an Amiga disk, 22 sectors of two heads.                *)
DmsCylinders(stored) ==
    {Image([format |-> "dms", magic |-> "DMS!", crc |-> TRUE, encrypted |-> FALSE,
            disktype |-> "ffs", size |-> 44, length |-> 22], 3 + 2 * stored,
           Table(1, <<Word("track", 80, "banner"), Pad>>
                    \o FlattenSeq([t \in 1..stored |->
                          <<Word("track", t - 1, IF t = 1 THEN "keep" ELSE "none"),
                            Word("packed", 22 * t - 21, IF t = 1 THEN "fresh" ELSE "used")>>])),
           Only0([i \in 1..44 |-> IF i <= 22 * stored THEN Data(i) ELSE Zero]))}
TooManyBits ==
    {[StreamImage([format |-> "compress", unit |-> 2, max_bits |-> 16], 1) EXCEPT !.intact = FALSE]}
-----------------------------------------------------------------------------
(* Those that read their table as far as it goes are not cut or read in pieces.  *)
Strict ==
    QcowImages \cup Qcow2Images \cup QedImages \cup Vmdk3Images \cup VdiImages
    \cup ParallelsImages \cup BochsImages \cup VhdImages \cup FixedOfFooter
    \cup CloopImages \cup DmgImages \cup EwfImages \cup SclImages \cup StreamImages0
    \cup SliceImages \cup StreamOptimized
Lenient ==
    VhdxImages \cup Vmdk4Images \cup SeSparseImages \cup UbiImages \cup ApridiskImages
    \cup CdiImages \cup NrgImages \cup ShortParallels \cup TooManyBits \cup DmsCylinders(1)

(* ubi images that end within the headers of their last block. *)
CutUbi == {[i EXCEPT !.file.words = SubSeq(@, 1, n), !.intact = FALSE] :
              i \in UbiImages, n \in 33..36}

MCImages ==
    Strict \cup Lenient \cup Cuts(Strict) \cup Pieces(Strict) \cup CutUbi \cup Pieces(UbiImages)

(* Of each of these images every word is read right, alone. *)
ASSUME ImagesAreRight == \A i \in MCImages : WordsAreRight(i)

(* Of those that are complete every word is there. *)
ASSUME ImagesAreWhole == \A i \in MCImages : i.intact => WordsAreWhole(i)

(* Packed clusters where the last one ended, which is no multiple of a sector.   *)
UnalignedQcow2 == TwoLevels(Qcow2Header, {"hole", "packed"}, 2, 3, 0, Same, 1, HoleOrOne)

TwoCylinders == DmsCylinders(2)
=============================================================================
