-------------------------- MODULE MCPartitionChains --------------------------
(***************************************************************************)
(* Disks to read: for every table that is a list all sets of used slots, with *)
(* the entries that have to be left out; for the chains of mbr and atari all   *)
(* ways to link three sectors; for the other lists all orders and circles.     *)
(***************************************************************************)
EXTENDS PartitionLayouts, SequencesExt, TLC

(* What is picked of a sequence is what SelectSeq selects.                    *)
ASSUME PickedIsSelected ==
    \A n \in 0..4 : \A s \in [1..n -> 0..2] : \A kept \in SUBSET (0..2) :
        Picked(s, {i \in 1..n : s[i] \in kept}) = SelectSeq(s, LAMBDA x : x \in kept)

Size == 40
Disk(format, tables, parts) ==
    [format |-> format, size |-> Size, tables |-> tables, intact |-> TRUE, parts |-> parts]
Damaged(d) == [d EXCEPT !.intact = FALSE, !.parts = <<>>]
CutAt(n, d) == [Damaged(d) EXCEPT !.size = n]

Empty == Entry("empty", 0, 0)
Whole(type) == Entry(type, 0, Size)

(* Slot i has the two sectors at 10 + 4i, in the units of "scale". *)
Start(i) == 10 + 4 * i
Sorted(used) == SelectSeq(<<1, 2, 3, 4>>, LAMBDA i : i \in used)
Used(used, entry(_)) == [i \in 1..4 |-> IF i \in used THEN entry(i) ELSE Empty]
Plain(i) == Entry("data", Start(i), 2)
BySlot(used) == [j \in DOMAIN Sorted(used) |-> Part(Sorted(used)[j] - 1, Start(Sorted(used)[j]), 2)]
ByOrder(used) == [j \in DOMAIN Sorted(used) |-> Part(j - 1, Start(Sorted(used)[j]), 2)]
With(i, e, entries) == [entries EXCEPT ![i] = e]

GptHeader(n, size) == Table("EFI PART", 2, n, <<Entry("size", 0, size)>>)

FlatDisks(used) ==
    LET plain == Used(used, Plain)
        not3 == used \ {3}
        not4 == used \ {4}
    IN {Disk("gpt", 1 :> GptHeader(4, 128) @@
                    2 :> Table("none", 0, 0, Used(used, LAMBDA i : Entry("data", Start(i), Start(i) + 1))),
             BySlot(used)),
        Disk("disklabel", 1 :> Table("BSD", 0, 0, With(3, Whole("data"), plain)), BySlot(not3)),
        Disk("disklabel", 0 :> Table("BSD", 0, 0, With(3, Whole("data"), plain)), BySlot(not3)),
        Disk("sun_sparc", 0 :> Table("SUN", 0, 2, With(3, Whole("data"),
                    Used(used, LAMBDA i : Entry("data", Start(i) \div (2 * PerTrack), 2)))), BySlot(not3)),
        Disk("sgi", 0 :> Table("SGI", 0, 0, With(4, Whole("volume"), plain)), BySlot(not4)),
        Disk("karma", 0 :> Table("KARMA", 0, 0, SubSeq(plain, 1, 2)), BySlot(used \cap {1, 2})),
        Disk("ultrix", 31 :> Table("ULTRIX", 0, 0, plain), BySlot(used)),
        Disk("sysv68", 0 :> Table("MOTOROLA", 3, 4, <<>>) @@
                       3 :> Table("none", 0, 0, With(4, Whole("data"), plain)), BySlot(not4)),
        Disk("powertec", 0 :> Table("POWERTEC", 0, 0, plain), ByOrder(used)),
        Disk("ics", 0 :> Table("ICS", 0, 0, [j \in DOMAIN Sorted(used) |-> Plain(Sorted(used)[j])]),
             ByOrder(used)),
        Disk("ics", 0 :> Table("ICS", 0, 0, [j \in DOMAIN Sorted(used) |->
                        Entry("signed", Start(Sorted(used)[j]) - 1, 3)]) @@
                    [s \in {Start(i) - 1 : i \in used} |-> Table("LinuxPart", 0, 0, <<>>)],
             ByOrder(used)),
        Disk("apm", 0 :> Table("ER", 0, 0, <<>>) @@
                    1 :> Table("PM", 0, 5, <<Entry("map", 1, 5)>>) @@
                    [s \in 2..5 |-> Table("PM", 0, 5, <<plain[s - 1]>>)], ByOrder(used)),
        Disk("adfs", 6 :> Table("ADFS", 0, 2, <<Entry("linux", 5, 10)>>) @@
                     10 :> Table("none", 0, 0, [j \in DOMAIN Sorted(used) |->
                              Entry("native", Start(Sorted(used)[j]) - 10, 2)]),
             <<Part(0, 0, 10), Part(1, 10, 2)>> \o
                [j \in DOMAIN Sorted(used) |-> Part(j + 1, Start(Sorted(used)[j]), 2)]),
        Disk("adfs", 6 :> Table("ADFS", 0, 2, <<Entry("riscix", 5, 10)>>) @@
                     10 :> Table("RISCIX", 0, 0, With(4, Whole("All"), plain)),
             <<Part(0, 0, 10), Part(1, 10, 2)>> \o
                [j \in DOMAIN Sorted(not4) |-> Part(j + 1, Start(Sorted(not4)[j]), 2)])}
       \cup
       (IF not3 = {} THEN {} ELSE
        {Disk("solaris_x86_vtoc", 1 :> Table("VTOC", 0, 0, With(3, Whole("data"), plain)),
              BySlot(not3))})
       \cup
       (IF used = {} THEN {} ELSE
        {Disk("plan9", 1 :> Table("none", 0, 0, [j \in DOMAIN Sorted(used) |->
                            Entry("part", Start(Sorted(used)[j]), Start(Sorted(used)[j]) + 2)]),
              ByOrder(used)),
         Disk("eesox", 7 :> Table("Eesox", 0, 0, [j \in DOMAIN Sorted(used) |-> Plain(Sorted(used)[j])]),
              [j \in DOMAIN Sorted(used) |->
                  Part(j - 1, Start(Sorted(used)[j]),
                       (IF j < Len(Sorted(used)) THEN Start(Sorted(used)[j + 1]) ELSE Endless)
                         - Start(Sorted(used)[j]))])})

(* Slot i of pc98 starts on the second head of its cylinder where i is odd. *)
PcEntry(i) == Entry("data", 65536 * (2 + i) + 256 * (i % 2), 65536 * (2 + i) + 256)
MoreDisks(used) ==
    {Disk("pc98", 0 :> Table("PC98", 0, 0, <<>>) @@ 1 :> Table("none", 0, 0, Used(used, PcEntry)),
          [j \in DOMAIN Sorted(used) |->
              LET i == Sorted(used)[j] IN
              Part(i - 1, (2 + i) * Cylinder + (i % 2) * PerTrack, Cylinder - (i % 2) * PerTrack)]),
     Disk("dasd", 1 :> Table("LNX1", 0, Size, <<>>), <<Part(0, 2, Size - 2)>>),
     Disk("dasd", 2 :> Table("CMS1", 0, Size, <<>>), <<Part(0, 3, Size - 3)>>),
     Disk("dasd", 1 :> Table("CMS1", 5, 6, <<>>), <<Part(0, 5, 5)>>)}
    \cup
    (* Volume 1 has the physical partitions of "used", in their order. *)
    {LET n == Len(Sorted(used))
         number(i) == Cardinality({j \in used : j <= i})
         run == \A i \in used : \A j \in used : \A k \in i..j : k \in used
     IN  Disk("aix", 7 :> Table("_LVM", 8, 2, <<>>) @@
                     8 :> Table("none", 0, 0, <<Entry("lv", 1, n)>>) @@
                     9 :> Table("none", 12, 0, [i \in 1..4 |->
                              IF i \in used THEN Entry("pp", 1, number(i)) ELSE Entry("pp", 0, 0)]),
              IF run /\ used # {} THEN <<Part(0, 12 + 2 * (Sorted(used)[1] - 1), 2 * n)>> ELSE <<>>)}

(* Tables with as many entries as the code takes, and with more. *)
Many(n, e) == [i \in 1..n |-> e]
Limits ==
    {Disk("gpt", 1 :> GptHeader(256, 128) @@ 2 :> Table("none", 0, 0, <<Entry("data", 14, 15)>>),
          <<Part(0, 14, 2)>>)} \cup
    {Damaged(Disk("gpt", 1 :> h @@ 2 :> Table("none", 0, 0, <<Plain(1)>>), <<>>)) :
        h \in {GptHeader(257, 128), GptHeader(4, 127)}} \cup
    {Disk("plan9", 1 :> Table("none", 0, 0, Many(32, Entry("part", 10, 12))),
          [i \in 1..32 |-> Part(i - 1, 10, 2)]),
     Damaged(Disk("plan9", 1 :> Table("none", 0, 0, Many(33, Entry("part", 10, 12))), <<>>)),
     Disk("disklabel", 1 :> Table("BSD", 0, 0, Many(23, Plain(1))),
          [i \in 1..21 |-> Part(IF i < 3 THEN i - 1 ELSE i, Start(1), 2)]),
     Damaged(Disk("aix", 7 :> Table("_LVM", 8, 2, <<>>) @@
                        8 :> Table("none", 0, 0, <<Entry("lv", 1, 2)>>) @@
                        9 :> Table("none", 12, 0, <<Entry("pp", 1, 1), Entry("pp", 0, 2)>>), <<>>)),
     Damaged(Disk("aix", 7 :> Table("_LVM", 8, 2 ^ 22, <<>>) @@
                        8 :> Table("none", 0, 0, <<Entry("lv", 1, 1)>>) @@
                        9 :> Table("none", 12, 0, <<Entry("pp", 1, 1)>>), <<>>))}
-----------------------------------------------------------------------------
(* mbr and atari: two primary partitions, an extended one with links at 4, 8   *)
(* and 12, a second one with a link at 20.  next[k] is the link after link k, 0 for *)
(* none; count[k] the length of its partition.                               *)
Link(k) == 4 * k
LinkTable(format, next, count) ==
    Table(format, 0, 0, <<Entry("data", 1, count),
                          IF next = 0 THEN Empty ELSE Entry("extended", Link(next) - 4, 4),
                          Empty, Empty>>)
Chain(format, next, count, primary) ==
    [format |-> format, intact |-> FALSE, parts |-> <<>>, size |-> Size, tables |->
        0 :> Table(format, 0, Size, <<primary, Entry("extended", 4, 12), Entry("extended", 20, 4),
                                    Entry("data", 30, 2)>>) @@
        20 :> Table(format, 0, 0, <<Entry("data", 1, 3), Empty, Empty, Empty>>) @@
        [s \in {Link(k) : k \in 1..3} |-> LinkTable(format, next[s \div 4], count[s \div 4])]]

InOrder(n) == [k \in 1..3 |-> IF k < n THEN k + 1 ELSE 0]
ChainParts(format, n) ==
    LET first == IF format = "mbr" THEN 4 ELSE 1 IN
    <<Part(0, 1, 2)>> \o [k \in 1..n |-> Part(first + k - 1, Link(k) + 1, 3)]
        \o <<Part(first + n, 21, 3), Part(IF format = "mbr" THEN 3 ELSE first + n + 1, 30, 2)>>

ChainDisks(format) ==
    {Chain(format, next, count, primary) :
        next \in [1..3 -> 0..3], count \in [1..3 -> {3, 13}],
        primary \in {Entry("data", 1, 2), Entry("data", 0, 2), Entry("extended", 30, 4)}}
    \cup
    {[Chain(format, InOrder(n), [k \in 1..3 |-> 3], Entry("data", 1, 2)) EXCEPT
        !.intact = TRUE, !.parts = ChainParts(format, n)] : n \in 1..3}

IcdDisks(used) ==
    IF 1 \notin used THEN {} ELSE
    {Disk("atari", 0 :> Table("atari", 0, Size, <<Plain(5), Empty, Empty, Empty>> \o Used(used, Plain)),
          <<Part(0, Start(5), 2)>> \o
            [j \in DOMAIN Sorted(used) |-> Part(j, Start(Sorted(used)[j]), 2)])}

(* rdb: the list of the blocks 3, 4 and 5, in any order and with circles.      *)
RdbDisk(next) ==
    Disk("rdb", 2 :> Table("RDSK", 3, 0, <<>>) @@
                [b \in 3..5 |-> Table("PART", IF next[b - 2] = 0 THEN Endless ELSE next[b - 2] + 2, 0,
                                      <<Entry("data", b - 2, b - 2)>>)], <<>>)
RdbDisks ==
    {Damaged(RdbDisk(next)) : next \in [1..3 -> 0..3]} \cup
    {[RdbDisk(InOrder(n)) EXCEPT !.parts = [k \in 1..n |-> Part(k - 1, k * Cylinder, Cylinder)]] :
        n \in 1..3}

(* cumana: boot sectors at 6 and 14, and a partition of Linux or RISCiX behind. *)
CumanaDisk(type, tracks, n) ==
    Disk("cumana", 6 :> Table("ADFS", 0, 2, <<Entry("none", 4, 8)>>) @@
                   14 :> Table("ADFS", 0, tracks, <<Entry(type, n, 8)>>) @@
                   16 :> Table(IF type = "riscix" THEN "RISCIX" ELSE "none", 0, 0,
                               <<Entry("native", 4, 2)>>), <<>>)
CumanaDisks ==
    {[CumanaDisk("none", 2, 0) EXCEPT !.parts = <<Part(0, 0, 8), Part(1, 8, 8)>>],
     [CumanaDisk("linux", 2, 4) EXCEPT !.parts =
        <<Part(0, 0, 8), Part(1, 8, 8), Part(2, 16, 2), Part(3, 20, 2)>>],
     [CumanaDisk("riscix", 2, 4) EXCEPT !.parts =
        <<Part(0, 0, 8), Part(1, 8, 8), Part(2, 16, 2), Part(3, 4, 2)>>],
     Damaged(CumanaDisk("none", 1, 1)), Damaged(CumanaDisk("linux", 1, 40))}

Intact ==
    UNION {FlatDisks(used) \cup MoreDisks(used) \cup IcdDisks(used) : used \in SUBSET (1..4)}
MCDisks ==
    Intact \cup Limits \cup {CutAt(n, d) : n \in {0, 1, 7}, d \in Intact}
           \cup ChainDisks("mbr") \cup ChainDisks("atari") \cup RdbDisks \cup CumanaDisks
           \cup {CutAt(n, Chain(f, InOrder(3), [k \in 1..3 |-> 3], Entry("data", 1, 2))) :
                    n \in {0, 4, 8}, f \in {"mbr", "atari"}}
           \cup {CutAt(2, RdbDisk(InOrder(3)))}
-----------------------------------------------------------------------------
(* Where these disks have their partitions. *)
SlotLayout(d) ==
    LET entries == SectorAt(d, 0).entries
        used == {i \in 5..Len(entries) : entries[i].type # "empty"}
        chain(s) ==
            LET walk[i \in 0..Size] ==
                    LET next == SectorAt(d, i).entries[2] IN
                    IF next.type = "empty" THEN <<i>>
                    ELSE <<i>> \o walk[entries[s].start + next.start]
            IN  IF entries[s].type = "extended" THEN walk[entries[s].start] ELSE <<>>
        primary(s) == IF entries[s].type \in {"empty", "extended"} THEN 0 ELSE 1
        before[s \in 1..5] ==
            IF s = 1 THEN 0 ELSE before[s - 1] + primary(s - 1) + Len(chain(s - 1))
        number[s \in 1..5] ==
            IF d.format = "atari" THEN before[s]
            ELSE IF s = 1 THEN 4 ELSE number[s - 1] + Len(chain(s - 1))
    IN  [before |-> before, number |-> number, chain |-> [s \in 1..4 |-> chain(s)],
         tail |-> IF \E s \in 1..4 : entries[s].type = "extended" THEN <<>>
                  ELSE SetToSortSeq(used, <)]

ListLayout(d) == [chain |-> [k \in DOMAIN d.parts |-> k + 2]]
BootLayout(d) ==
    [chain |-> <<6, 14>>, start |-> <<0, 8>>, tail |-> IF Len(d.parts) = 4 THEN <<1>> ELSE <<>>]

ASSUME DisksAreWritten ==
    \A d \in {d \in MCDisks : d.intact /\ d.format \in Chained} :
        Written(d, CASE d.format \in {"mbr", "atari"} -> SlotLayout(d)
                     [] d.format = "rdb" -> ListLayout(d)
                     [] d.format = "cumana" -> BootLayout(d))
=============================================================================
