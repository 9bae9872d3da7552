----------------------------- MODULE AcornTables -----------------------------
(***************************************************************************)
(* The partition tables of container/pt/acorn.  A checksum that does not      *)
(* match is a signature that is not there.                                   *)
(***************************************************************************)
EXTENDS PartitionTables

CONSTANTS Endless   \* u64::MAX in sectors

(* The disc record of a boot sector, in its only entry: the size, the type of  *)
(* the second partition and its cylinder, with "n" tracks to a cylinder.       *)
Boot(disk, at) == SectorAt(disk, at)
IsBoot(boot) == boot.magic = "ADFS" /\ boot.entries[1].count # 0
SecondStart(boot) == boot.entries[1].start * boot.n * PerTrack
SecondType(boot) == boot.entries[1].type

BootSlice(index, start) == Part(index, start, 2)
Usable(e) == e.start > 0 /\ e.count > 0

Indexed(first, entries) ==
    [i \in DOMAIN entries |-> Part(first + i - 1, entries[i].start, entries[i].count)]

(* parse_riscix: starts are those of the disk. *)
RiscixParts(first, table) ==
    LET used == {i \in DOMAIN table.entries :
                    table.entries[i].type \notin {"empty", "All"} /\ Usable(table.entries[i])}
    IN  Indexed(first, Picked(table.entries, used))

(* parse_linux: starts are those of the second partition; the list ends at the *)
(* first entry that has none of the two signatures.                          *)
LinuxParts(first, at, table) ==
    LET bad == {i \in DOMAIN table.entries : table.entries[i].type \notin {"native", "swap"}}
        listed == IF bad = {} THEN table.entries
                  ELSE SubSeq(table.entries, 1, (CHOOSE i \in bad : \A j \in bad : i <= j) - 1)
        used == Picked(listed, {i \in DOMAIN listed : Usable(listed[i])})
    IN  Indexed(first, [i \in DOMAIN used |-> [used[i] EXCEPT !.start = at + @]])

(* adfs: the first partition and, where the boot sector says, a second one.    *)
Adfs(disk) ==
    LET boot == Boot(disk, 6)
        start == SecondStart(boot)
        table == SectorAt(disk, start)
        whole == <<Part(1, start, Endless - start)>>
        second ==
            IF SecondType(boot) = "none" \/ start = 0 THEN <<>>
            ELSE CASE SecondType(boot) = "riscix" /\ table.magic = "RISCIX" ->
                        <<BootSlice(1, start)>> \o RiscixParts(2, table)
                   [] SecondType(boot) = "linux" ->
                        <<BootSlice(1, start)>> \o LinuxParts(2, start, table)
                   [] OTHER -> whole
    IN  IF ~IsBoot(boot) THEN NotFound
        ELSE IF SecondType(boot) \in {"riscix", "linux"} /\ start > 0 /\ table = Unreadable
        THEN NotFound
        ELSE Found(<<Part(0, 0, boot.entries[1].count)>> \o second)

(* eesox: a partition ends where the next one starts, the last one nowhere.    *)
Eesox(disk) ==
    LET entries == SectorAt(disk, 7).entries
        end(i) == IF i < Len(entries) THEN entries[i + 1].start ELSE Endless
    IN  IF SectorAt(disk, 7).magic # "Eesox" \/ entries = <<>> THEN NotFound
        ELSE Found(Parts(entries, LAMBDA i : end(i) > entries[i].start,
                LAMBDA i : Part(Slot(i), entries[i].start, end(i) - entries[i].start)))

(* ics: a negative size ("signed") is a partition of Linux, the marker of      *)
(* which is no part of it; a size of 0 ends the table.                        *)
Ics(disk) ==
    LET table == SectorAt(disk, 0).entries
        ends == {i \in DOMAIN table : table[i].count = 0}
        entries == IF ends = {} THEN table
                   ELSE SubSeq(table, 1, (CHOOSE i \in ends : \A j \in ends : i <= j) - 1)
        marked(e) == /\ e.type = "signed" /\ e.count > 1
                     /\ SectorAt(disk, e.start).magic = "LinuxPart"
        moved(e) == IF marked(e) THEN Entry(e.type, e.start + 1, e.count - 1) ELSE e
    IN  IF SectorAt(disk, 0).magic # "ICS" THEN NotFound
        ELSE Found(Indexed(0, [i \in DOMAIN entries |-> moved(entries[i])]))

(* powertec *)
Powertec(disk) ==
    LET entries == SectorAt(disk, 0).entries
        used == {i \in DOMAIN entries : entries[i].count > 0}
    IN  IF SectorAt(disk, 0).magic # "POWERTEC" THEN NotFound
        ELSE Found(Indexed(0, Picked(entries, used)))
=============================================================================
