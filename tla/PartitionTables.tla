--------------------------- MODULE PartitionTables ---------------------------
(***************************************************************************)
(* The partition tables of container/pt that are a list of entries at a      *)
(* place that is known.                                                     *)
(*                                                                         *)
(* A disk has a size and, in some of its sectors, tables.  Such a sector has   *)
(* the signature that the code looks for, the entries of a table, and the two  *)
(* numbers that a header has besides.  An entry has a type and two numbers,    *)
(* most often where the partition starts and how long it is.  What the code    *)
(* returns is whether it recognised the table, and the partitions: their       *)
(* index, start and length.  The limits are those of the code, in its units.    *)
(***************************************************************************)
EXTENDS Naturals, Sequences, FiniteSets

CONSTANTS
    Heads,      \* HEADS of pc98, and the tracks of a cylinder elsewhere
    PerTrack    \* SECTORS_PER_TRACK

ASSUME GeometryAssumption == Heads \in Nat \ {0} /\ PerTrack \in Nat \ {0}

Cylinder == Heads * PerTrack

Table(magic, at, n, entries) == [magic |-> magic, at |-> at, n |-> n, entries |-> entries]
Unreadable == Table("unreadable", 0, 0, <<>>)
NoTable == Table("none", 0, 0, <<>>)
SectorAt(disk, i) ==
    IF i >= disk.size THEN Unreadable
    ELSE IF i \in DOMAIN disk.tables THEN disk.tables[i] ELSE NoTable

Entry(type, start, count) == [type |-> type, start |-> start, count |-> count]
Part(index, start, length) == [index |-> index, start |-> start, length |-> length]
Found(parts) == [ok |-> TRUE, parts |-> parts]
NotFound == [ok |-> FALSE, parts |-> <<>>]

(* The k-th of a set of numbers, from below, and the elements of s at them: what  *)
(* a loop keeps of a list, in the order of the list.                           *)
Nth(set, k) == CHOOSE i \in set : Cardinality({j \in set : j <= i}) = k
Picked(s, set) == [k \in 1..Cardinality(set) |-> s[Nth(set, k)]]

(* The first entry that is given the number 0; the partitions of those kept.   *)
Slot(i) == i - 1
Parts(entries, keep(_), part(_)) ==
    LET kept == {i \in DOMAIN entries : keep(i)}
    IN  [k \in 1..Cardinality(kept) |-> part(Nth(kept, k))]

(* The usual case: slots in sectors, kept or not by their number and entry. *)
Slots(entries, keep(_)) ==
    Parts(entries, keep, LAMBDA i : Part(Slot(i), entries[i].start, entries[i].count))

AtMost(n, limit) == IF n < limit THEN n ELSE limit

Renumbered(parts) == [j \in DOMAIN parts |-> [parts[j] EXCEPT !.index = j - 1]]
-----------------------------------------------------------------------------
(* gpt: the last sector is part of a partition.  "at" is where the entries     *)
(* are and "n" how many; those that cannot be read are passed over.  What the   *)
(* header has in its own entry is the size of one.                             *)
Gpt(disk) ==
    LET header == SectorAt(disk, 1)
        table == SectorAt(disk, header.at).entries
        entries == SubSeq(table, 1, AtMost(header.n, Len(table)))
    IN  IF \/ header.magic # "EFI PART"
           \/ header.entries[1].count < 128 \/ header.n > 256
        THEN NotFound
        ELSE Found(Parts(entries,
                LAMBDA i : entries[i].type # "empty" /\ entries[i].count >= entries[i].start,
                LAMBDA i : Part(Slot(i), entries[i].start,
                                entries[i].count - entries[i].start + 1)))

(* apm: an entry in a sector of its own; the first one says how many.          *)
ApmEntries(disk) == AtMost(SectorAt(disk, 1).n, 64)

ApmMap(disk) ==
    LET n == ApmEntries(disk)
        bad == {i \in 1..n : SectorAt(disk, i).magic # "PM"}
        last == IF bad = {} THEN n ELSE (CHOOSE i \in bad : \A j \in bad : i <= j) - 1
    IN  [i \in 1..last |-> SectorAt(disk, i).entries[1]]

Apm(disk) ==
    LET map == ApmMap(disk)
        short == Len(map) < ApmEntries(disk) /\ Len(map) + 1 >= disk.size
    IN  IF SectorAt(disk, 0).magic # "ER" \/ SectorAt(disk, 1).magic # "PM" \/ short
        THEN NotFound
        ELSE Found(Renumbered(Slots(map,
                LAMBDA i : map[i].type \notin {"map", "driver", "empty"})))

(* disklabel: in the first sector or in the second.  Slot 2 is the whole disk. *)
Disklabel(disk) ==
    LET at == IF SectorAt(disk, 0).magic = "BSD" THEN 0 ELSE 1
        entries == SectorAt(disk, at).entries
    IN  IF SectorAt(disk, at).magic # "BSD" THEN NotFound
        ELSE Found(Slots(entries, LAMBDA i :
                i <= 22 /\ entries[i].type # "empty" /\ entries[i].count # 0 /\ Slot(i) # 2))

(* sun_sparc: starts are cylinders; "n" has the tracks of one. *)
SunSparc(disk) ==
    LET label == SectorAt(disk, 0)
        entries == label.entries
    IN  IF label.magic # "SUN" \/ label.n * PerTrack = 0 THEN NotFound
        ELSE Found(Parts(entries,
                LAMBDA i : entries[i].count # 0 /\ Slot(i) # 2,
                LAMBDA i : Part(Slot(i), entries[i].start * label.n * PerTrack,
                                entries[i].count)))

(* solaris_x86_vtoc: slice 2 is the raw disk; one past the image is an error.  *)
SolarisX86(disk) ==
    LET label == SectorAt(disk, 1)
        used == {i \in DOMAIN label.entries : Slot(i) # 2 /\ label.entries[i].count # 0}
    IN  IF \/ label.magic # "VTOC" \/ used = {}
           \/ \E i \in used : label.entries[i].start + label.entries[i].count > disk.size
        THEN NotFound
        ELSE Found(Slots(label.entries, LAMBDA i : i \in used))

(* sgi: the volume header and the volume are no partitions. *)
Sgi(disk) ==
    LET entries == SectorAt(disk, 0).entries IN
    IF SectorAt(disk, 0).magic # "SGI" THEN NotFound
    ELSE Found(Slots(entries, LAMBDA i :
            entries[i].count # 0 /\ entries[i].type \notin {"volhdr", "volume"}))

(* karma: two entries. *)
Karma(disk) ==
    LET entries == SectorAt(disk, 0).entries IN
    IF SectorAt(disk, 0).magic # "KARMA" THEN NotFound
    ELSE Found(Slots(entries, LAMBDA i :
            i <= 2 /\ entries[i].type = "data" /\ entries[i].count # 0))

(* ultrix *)
Ultrix(disk) ==
    LET entries == SectorAt(disk, 31).entries IN
    IF SectorAt(disk, 31).magic # "ULTRIX" THEN NotFound
    ELSE Found(Slots(entries, LAMBDA i : entries[i].count # 0))

(* sysv68: the last slice is the whole disk. *)
Sysv68(disk) ==
    LET label == SectorAt(disk, 0)
        table == SectorAt(disk, label.at)
    IN  IF label.magic # "MOTOROLA" THEN NotFound
        ELSE IF label.at = 0 \/ label.n = 0 THEN Found(<<>>)
        ELSE IF label.n > 1 /\ table = Unreadable THEN NotFound
        ELSE Found(Slots(table.entries, LAMBDA i :
                i <= label.n - 1 /\ table.entries[i].count # 0))

(* pc98: where an entry starts and ends is a cylinder in two bytes, above the     *)
(* head and above the sector.  Of the end only the cylinder counts.            *)
CylinderOf(chs) == chs \div 65536
HeadOf(chs) == (chs \div 256) % 256
SectorOf(chs) == chs % 256

Pc98(disk) ==
    LET entries == SectorAt(disk, 1).entries
        end(i) == (CylinderOf(entries[i].count) + 1) * Cylinder
        start(i) == LET chs == entries[i].start IN
                    (CylinderOf(chs) * Heads + HeadOf(chs)) * PerTrack + SectorOf(chs)
    IN  IF SectorAt(disk, 0).magic # "PC98" THEN NotFound
        ELSE Found(Parts(entries,
                LAMBDA i : entries[i].type # "empty" /\ end(i) > start(i),
                LAMBDA i : Part(Slot(i), start(i), end(i) - start(i))))

(* plan9: lines with a start and an end; any that is wrong, and one too many,    *)
(* refuses the table.                                                         *)
Plan9(disk) ==
    LET entries == SectorAt(disk, 1).entries IN
    IF \/ SectorAt(disk, 1) = Unreadable \/ entries = <<>> \/ Len(entries) > 32
       \/ \E i \in DOMAIN entries : \/ entries[i].type # "part"
                                    \/ entries[i].start >= entries[i].count
                                    \/ entries[i].count > disk.size
    THEN NotFound
    ELSE Found(Parts(entries, LAMBDA i : TRUE,
            LAMBDA i : Part(Slot(i), entries[i].start, entries[i].count - entries[i].start)))

(* dasd: a label in sector 1 or 2; "n" is the size of the disk in blocks, "at"  *)
(* the offset of a minidisk.  Blocks have the size of sectors.                *)
Dasd(disk) ==
    LET known == {"VOL1", "LNX1", "CMS1"}
        label == IF SectorAt(disk, 1).magic \in known THEN 1 ELSE 2
        header == SectorAt(disk, label)
        start == IF label = 1 THEN 2 ELSE label + 1
    IN  IF header.magic \notin known THEN NotFound
        ELSE IF header.magic = "VOL1" \/ header.n = 0 THEN Found(<<>>)
        ELSE CASE header.magic = "LNX1" ->
                    Found(<<Part(0, label + 1, header.n - (label + 1))>>)
               [] header.magic = "CMS1" /\ header.at # 0 ->
                    Found(<<Part(0, header.at, header.n - 1)>>)
               [] OTHER -> Found(<<Part(0, start, header.n - start)>>)

(* aix: an entry is a physical partition with the volume it belongs to        *)
(* ("start") and its number in it ("count", 0 where it is free); the sector    *)
(* before has the sizes of the volumes.  Only those that are contiguous.  A      *)
(* volume 0 is taken for the first one.                                        *)
Aix(disk) ==
    LET lvm == SectorAt(disk, 7)
        sizes == SectorAt(disk, lvm.at).entries
        map == SectorAt(disk, lvm.at + 1)
        volume(i) == IF map.entries[i].start = 0 THEN 1 ELSE map.entries[i].start
        of(v) == {i \in 1..AtMost(Len(map.entries), 1016) :
                     volume(i) = v /\ map.entries[i].count # 0}
        firsts(v) == {i \in of(v) : map.entries[i].count = 1}
        first(v) == CHOOSE i \in firsts(v) : \A j \in firsts(v) : j <= i
        contiguous(v) ==
            /\ firsts(v) # {} /\ Cardinality(of(v)) = sizes[v].count
            /\ \A i \in of(v) \ firsts(v) :
                  i - 1 \in of(v) /\ map.entries[i - 1].count + 1 = map.entries[i].count
    IN  IF lvm.magic # "_LVM" THEN NotFound
        ELSE IF lvm.at = 0 \/ lvm.n > 2 ^ 21 \/ Len(sizes) \notin 1..256 THEN Found(<<>>)
        ELSE Found(Parts(sizes, contiguous,
                LAMBDA v : Part(Slot(v), map.at + (first(v) - 1) * lvm.n,
                                sizes[v].count * lvm.n)))
=============================================================================
