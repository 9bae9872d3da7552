--------------------------- MODULE PartitionLayouts ---------------------------
(***************************************************************************)
(* How the partition tables are written that PartitionChains reads by links:   *)
(* what it means that a disk of one of these formats has certain partitions,   *)
(* said of all sectors at once and without the loops that read them.          *)
(*                                                                         *)
(* A layout w says where a program put them, and d.parts are the partitions.   *)
(***************************************************************************)
EXTENDS PartitionChains

(* mbr and atari: what comes before each slot of the first table and before the    *)
(* end of it, how many partitions ("before") and the next number ("number"); the     *)
(* sectors of the chain of a slot ("chain"); the entries of ICD ("tail").            *)
UnusedSlot(d, w, s) ==
    /\ \/ SectorAt(d, 0).entries[s].type = "empty"
       \/ d.format = "mbr" /\ SectorAt(d, 0).entries[s].type = "protective"
    /\ w.before[s + 1] = w.before[s] /\ w.number[s + 1] = w.number[s]

PrimarySlot(d, w, s) ==
    LET e == SectorAt(d, 0).entries[s] IN
    /\ e.type \notin {"empty", "protective", "extended"} /\ Usable(e)
    /\ d.format = "atari" => e.start + e.count <= SectorAt(d, 0).n
    /\ w.before[s + 1] = w.before[s] + 1
    /\ w.number[s + 1] = IF d.format = "mbr" THEN w.number[s] ELSE w.number[s] + 1
    /\ d.parts[w.before[s] + 1] =
          Part(IF d.format = "mbr" THEN s - 1 ELSE w.number[s], e.start, e.count)

(* A link has a partition that ends inside of the extended one; the next link is   *)
(* behind it, counted from the first.                                           *)
ChainEnd(d, s) ==
    LET table == SectorAt(d, 0) IN
    IF d.format = "mbr" THEN table.entries[s].start + table.entries[s].count ELSE table.n

LinkOf(d, w, s, k) ==
    LET chain == w.chain[s]
        entries == SectorAt(d, chain[k]).entries
        start == chain[k] + entries[1].start
    IN  /\ SectorAt(d, chain[k]).magic = d.format
        /\ entries[1].type # "empty" /\ Usable(entries[1])
        /\ start + entries[1].count <= ChainEnd(d, s)
        /\ d.parts[w.before[s] + k] = Part(w.number[s] + k - 1, start, entries[1].count)
        /\ IF k < Len(chain)
           THEN /\ entries[2].type = "extended" /\ entries[2].start > 0
                /\ chain[k + 1] = SectorAt(d, 0).entries[s].start + entries[2].start
                /\ chain[k] < chain[k + 1] /\ chain[k + 1] < ChainEnd(d, s)
           ELSE entries[2].type = "empty"

ChainSlot(d, w, s) ==
    LET e == SectorAt(d, 0).entries[s] IN
    /\ e.type = "extended"
    /\ d.format = "atari" => e.start + e.count <= SectorAt(d, 0).n
    /\ Len(w.chain[s]) \in 1..MaxLinks /\ w.chain[s][1] = e.start
    /\ w.before[s + 1] = w.before[s] + Len(w.chain[s])
    /\ w.number[s + 1] = w.number[s] + Len(w.chain[s])
    /\ \A k \in 1..Len(w.chain[s]) : LinkOf(d, w, s, k)

(* t lists the numbers of a set from below. *)
Ascends(t, set) ==
    /\ t \in Seq(set) /\ set = {t[i] : i \in 1..Len(t)}
    /\ \A i, j \in 1..Len(t) : i < j => t[i] < t[j]

(* The partitions of ICD, where no slot has a chain and there are any. *)
WrittenIcd(d, w) ==
    LET entries == SectorAt(d, 0).entries
        used == {i \in DOMAIN entries : i > 4 /\ entries[i].type # "empty"}
    IN  IF \/ d.format = "mbr" \/ Len(entries) < 5
           \/ \E s \in 1..4 : entries[s].type = "extended"
        THEN w.tail = <<>>
        ELSE /\ used # {} => entries[5].type # "empty"
             /\ \A i \in used :
                   Usable(entries[i]) /\ entries[i].start + entries[i].count <= SectorAt(d, 0).n
             /\ Ascends(w.tail, used)
             /\ \A k \in 1..Len(w.tail) :
                   d.parts[w.before[5] + k] =
                      Part(w.number[5] + k - 1, entries[w.tail[k]].start, entries[w.tail[k]].count)

WrittenSlots(d, w) ==
    /\ SectorAt(d, 0).magic = d.format
    /\ w.before \in [1..5 -> Nat] /\ w.before[1] = 0
    /\ w.number \in [1..5 -> Nat] /\ w.number[1] = IF d.format = "mbr" THEN 4 ELSE 0
    /\ \A s \in 1..4 : UnusedSlot(d, w, s) \/ PrimarySlot(d, w, s) \/ ChainSlot(d, w, s)
    /\ WrittenIcd(d, w)
    /\ Len(d.parts) = w.before[5] + Len(w.tail)
-----------------------------------------------------------------------------
(* rdb: the blocks of the list, from the one that the first RDSK block names.       *)
WrittenList(d, w) ==
    LET n == Len(w.chain)
        head == IF n = 0 THEN Endless ELSE w.chain[1]
    IN  /\ n = Len(d.parts) /\ n <= MaxLinks
        /\ \E i \in 0..15 : /\ SectorAt(d, i).magic = "RDSK" /\ SectorAt(d, i).at = head
                           /\ \A j \in 0..(i - 1) : SectorAt(d, j).magic # "RDSK"
        /\ \A k \in 1..n :
              LET block == SectorAt(d, w.chain[k])
                  e == block.entries[1]
              IN  /\ w.chain[k] # Endless /\ block.magic = "PART"
                  /\ block.at = IF k < n THEN w.chain[k + 1] ELSE Endless
                  /\ d.parts[k] = Part(k - 1, e.start * Cylinder, (e.count - e.start + 1) * Cylinder)
-----------------------------------------------------------------------------
(* cumana: the boot sectors ("chain") and the starts of their partitions       *)
(* ("start"); the last one may be followed by the table of another system, of which *)
(* "tail" are the entries in use.                                               *)
WrittenTail(d, w) ==
    LET n == Len(w.chain)
        boot == SectorAt(d, w.chain[n])
        start == w.start[n] + SecondStart(boot)
        entries == SectorAt(d, start).entries
        used == {i \in DOMAIN entries : entries[i].type \notin {"empty", "All"}}
    IN  IF SecondStart(boot) = 0 THEN Len(d.parts) = n
        ELSE /\ w.tail \in Seq(Nat) /\ Len(d.parts) = n + 1 + Len(w.tail)
             /\ d.parts[n + 1] = BootSlice(n, start)
             /\ \/ /\ SecondType(boot) = "riscix" /\ SectorAt(d, start).magic = "RISCIX"
                   /\ Ascends(w.tail, used) /\ \A i \in used : Usable(entries[i])
                   /\ \A k \in 1..Len(w.tail) :
                         d.parts[n + 1 + k] =
                            Part(n + k, entries[w.tail[k]].start, entries[w.tail[k]].count)
                \/ /\ SecondType(boot) = "linux" /\ SectorAt(d, start) # Unreadable
                   /\ Len(w.tail) <= Len(entries)
                   /\ Len(w.tail) < Len(entries) =>
                         entries[Len(w.tail) + 1].type \notin {"native", "swap"}
                   /\ \A k \in 1..Len(w.tail) :
                         /\ entries[k].type \in {"native", "swap"} /\ Usable(entries[k])
                         /\ d.parts[n + 1 + k] =
                               Part(n + k, start + entries[k].start, entries[k].count)

WrittenBoots(d, w) ==
    LET n == Len(w.chain) IN
    /\ n \in 1..MaxLinks /\ w.chain[1] = 6 /\ w.start[1] = 0
    /\ \A k \in 1..n :
          LET boot == SectorAt(d, w.chain[k]) IN
          /\ IsBoot(boot)
          /\ d.parts[k] = Part(k - 1, w.start[k], boot.entries[1].count)
          /\ k < n => /\ SecondStart(boot) # 0 /\ SecondType(boot) = "none"
                      /\ w.start[k + 1] = w.start[k] + SecondStart(boot)
                      /\ w.chain[k + 1] = w.chain[k] + 2 * (SecondStart(boot) \div 2)
    /\ WrittenTail(d, w)
-----------------------------------------------------------------------------
(* A disk has its partitions where w says. *)
Written(d, w) ==
    /\ d.parts \in Seq({d.parts[i] : i \in DOMAIN d.parts})
    /\ CASE d.format \in {"mbr", "atari"} -> WrittenSlots(d, w)
         [] d.format = "rdb" -> WrittenList(d, w)
         [] d.format = "cumana" -> WrittenBoots(d, w)
=============================================================================
