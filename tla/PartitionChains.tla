--------------------------- MODULE PartitionChains ---------------------------
(***************************************************************************)
(* The children method of a partition table: those of PartitionTables and     *)
(* AcornTables at once, and step by step those that follow links from sector   *)
(* to sector (mbr, atari, rdb and the Cumana tables of Acorn).                *)
(*                                                                         *)
(* A disk also has the format it was recognised as and, where it was written   *)
(* by the rules of that format, the partitions that it has.                   *)
(***************************************************************************)
EXTENDS AcornTables

CONSTANTS
    Disks,          \* the disks to read
    MaxLinks        \* MAX_LOGICAL, MAX_XGM_CHAIN, MAX_PARTITIONS of rdb, MAX_CHAIN

ASSUME LinksAssumption == MaxLinks \in Nat \ {0}

(* The numbers of a table have no sign.  A table of mbr or of atari has its four  *)
(* entries, whatever they hold, and a boot sector of Acorn its disc record.      *)
EntrySet == [type : STRING, start : Nat, count : Nat]
Chained == {"mbr", "atari", "rdb", "cumana"}
Formats == Chained \cup
    {"gpt", "apm", "disklabel", "sun_sparc", "solaris_x86_vtoc", "sgi", "karma", "ultrix",
     "sysv68", "pc98", "plan9", "dasd", "aix", "adfs", "eesox", "ics", "powertec"}
ASSUME DisksAssumption ==
    \A d \in Disks : d.format \in Formats /\ \A i \in DOMAIN d.tables :
        /\ d.tables[i].at \in Nat /\ d.tables[i].n \in Nat
        /\ d.tables[i].entries \in Seq(EntrySet)
        /\ d.tables[i].magic \in {"mbr", "atari"} => Len(d.tables[i].entries) >= 4
        /\ d.tables[i].magic = "ADFS" => Len(d.tables[i].entries) >= 1

VARIABLES
    disk,           \* reader
    pc,             \* what the method does
    slot,           \* the entry of the first table
    at,             \* current_ebr_lba, current_sect, part_blk, the boot sector
    base,           \* extended_start, extension_sect, first_sector
    limit,          \* extended_start + extended_size, hd_siz
    index,          \* logical_index, partition_index, slot
    links,          \* the sectors of the chain that were read
    extended,       \* has_xgm
    children

vars == <<disk, pc, slot, at, base, limit, index, links, extended, children>>

FirstLogicalOfThree == 3
FirstLogical == 4   \* FIRST_LOGICAL_INDEX

(* The loops over a chain are bounded. *)
MoreByOne == Len(links) <= MaxLinks
More == Len(links) < MaxLinks

Flat(d) ==
    CASE d.format = "gpt" -> Gpt(d)
      [] d.format = "apm" -> Apm(d)
      [] d.format = "disklabel" -> Disklabel(d)
      [] d.format = "sun_sparc" -> SunSparc(d)
      [] d.format = "solaris_x86_vtoc" -> SolarisX86(d)
      [] d.format = "sgi" -> Sgi(d)
      [] d.format = "karma" -> Karma(d)
      [] d.format = "ultrix" -> Ultrix(d)
      [] d.format = "sysv68" -> Sysv68(d)
      [] d.format = "pc98" -> Pc98(d)
      [] d.format = "plan9" -> Plan9(d)
      [] d.format = "dasd" -> Dasd(d)
      [] d.format = "aix" -> Aix(d)
      [] d.format = "adfs" -> Adfs(d)
      [] d.format = "eesox" -> Eesox(d)
      [] d.format = "ics" -> Ics(d)
      [] d.format = "powertec" -> Powertec(d)

Read(i) == SectorAt(disk, i)
First == Read(0).entries[slot]

Init ==
    /\ disk \in Disks
    /\ pc = "open" /\ slot = 1 /\ at = 0 /\ base = 0 /\ limit = 0 /\ index = 0
    /\ links = <<>> /\ extended = FALSE /\ children = <<>>

Finish(result) ==
    /\ pc' = result
    /\ UNCHANGED <<disk, slot, at, base, limit, index, links, extended>>

Walking == <<disk, pc, at, base, limit, links, extended>>
-----------------------------------------------------------------------------
(* The tables without links. *)
OpenFlat ==
    /\ pc = "open" /\ disk.format \notin Chained
    /\ children' = Flat(disk).parts
    /\ Finish(IF Flat(disk).ok THEN "done" ELSE "error")
-----------------------------------------------------------------------------
(* mbr, atari: the slots of the first table. *)
OpenSlots ==
    /\ pc = "open" /\ disk.format \in {"mbr", "atari"}
    /\ Read(0).magic = disk.format
    /\ pc' = "slots" /\ slot' = 1
    /\ limit' = Read(0).n
    /\ index' = IF disk.format = "mbr" THEN FirstLogical ELSE 0
    /\ UNCHANGED <<disk, at, base, links, extended, children>>

OpenFails ==
    /\ pc = "open" /\ disk.format \in {"mbr", "atari"}
    /\ Read(0).magic # disk.format
    /\ Finish("error") /\ UNCHANGED children

(* is_valid_partition *)
IsValid(e) == e.type # "empty" /\ e.start + e.count <= Read(0).n

(* What a slot of the first table is to the two formats. *)
IsLink(e) ==
    IF disk.format = "mbr" THEN e.type = "extended" ELSE e.type = "extended" /\ IsValid(e)
IsPrimary(e) ==
    IF disk.format = "mbr"
    THEN e.type \notin {"empty", "protective", "extended"}
    ELSE e.type # "extended" /\ IsValid(e)

AddPrimary ==
    /\ pc = "slots" /\ slot <= 4 /\ IsPrimary(First)
    /\ children' = IF Usable(First)
                   THEN Append(children, Part(IF disk.format = "mbr" THEN slot - 1 ELSE index,
                                              First.start, First.count))
                   ELSE children
    /\ index' = IF disk.format = "mbr" THEN index ELSE index + 1
    /\ slot' = slot + 1
    /\ UNCHANGED Walking

SkipSlotForever ==
    /\ pc = "slots" /\ slot <= 4 /\ ~IsPrimary(First) /\ ~IsLink(First)
    /\ UNCHANGED <<Walking, slot, index, children>>

SkipSlot ==
    /\ pc = "slots" /\ slot <= 4 /\ ~IsPrimary(First) /\ ~IsLink(First)
    /\ slot' = slot + 1
    /\ UNCHANGED <<Walking, index, children>>

EnterChain ==
    /\ pc = "slots" /\ slot <= 4 /\ IsLink(First)
    /\ pc' = "chain" /\ at' = First.start /\ base' = First.start /\ links' = <<>>
    /\ limit' = IF disk.format = "mbr" THEN First.start + First.count ELSE limit
    /\ extended' = TRUE
    /\ UNCHANGED <<disk, slot, index, children>>

LeaveChain == pc' = "slots" /\ slot' = slot + 1 /\ at' = at

(* The two entries of a link, and where the next link is. *)
Logical(table) == table.entries[1]
NextLink(table) == table.entries[2]
FitsStrictly(table) ==
    /\ Logical(table).type # "empty" /\ Usable(Logical(table))
    /\ at + Logical(table).start + Logical(table).count < limit
Fits(table) ==
    /\ Logical(table).type # "empty" /\ Usable(Logical(table))
    /\ at + Logical(table).start + Logical(table).count <= limit
FollowsBack(table) ==
    /\ IF disk.format = "mbr" THEN NextLink(table).type # "empty"
       ELSE NextLink(table).type = "extended"
    /\ NextLink(table).start # 0
    /\ base + NextLink(table).start < limit
Follows(table) ==
    /\ IF disk.format = "mbr" THEN NextLink(table).type # "empty"
       ELSE NextLink(table).type = "extended"
    /\ NextLink(table).start # 0
    /\ at < base + NextLink(table).start /\ base + NextLink(table).start < limit

(* parse_extended_chain, parse_xgm_chain: a partition counts from the link it   *)
(* is in, the next link from the first one.                                   *)
FollowChain ==
    /\ pc = "chain" /\ More /\ Read(at).magic = disk.format
    /\ links' = Append(links, at)
    /\ LET table == Read(at) IN
       /\ children' = IF Fits(table)
                      THEN Append(children, Part(index, at + Logical(table).start,
                                                 Logical(table).count))
                      ELSE children
       /\ index' = IF Fits(table) THEN index + 1 ELSE index
       /\ IF Follows(table)
          THEN at' = base + NextLink(table).start /\ UNCHANGED <<pc, slot>>
          ELSE LeaveChain
    /\ UNCHANGED <<disk, base, limit, extended>>

(* An unreadable link ends the chain of mbr, and the whole method for atari.   *)
EndChain ==
    /\ pc = "chain"
    /\ ~More \/ (disk.format = "mbr" /\ Read(at).magic # disk.format)
    /\ LeaveChain
    /\ UNCHANGED <<disk, base, limit, index, links, extended, children>>

ChainFails ==
    /\ pc = "chain" /\ disk.format = "atari"
    /\ More /\ Read(at).magic # disk.format
    /\ Finish("error") /\ UNCHANGED children

(* parse_icd_partitions: a table of its own, unless there was a chain.         *)
IcdEntries == SubSeq(Read(0).entries, 5, Len(Read(0).entries))
Icd ==
    LET valid == Picked(IcdEntries, {i \in DOMAIN IcdEntries : IsValid(IcdEntries[i])})
        used == {i \in DOMAIN valid : Usable(valid[i])}
    IN  IF disk.format = "mbr" \/ extended \/ IcdEntries = <<>> \/ IcdEntries[1].type = "empty"
        THEN <<>> ELSE Picked(Indexed(index, valid), used)

EndSlots ==
    /\ pc = "slots" /\ slot > 4
    /\ children' = children \o Icd
    /\ Finish("done")
-----------------------------------------------------------------------------
(* rdb: a list of blocks; Endless is NO_BLOCK. *)
RdbBlocks == {i \in 0..15 : Read(i).magic = "RDSK"}

OpenRdb ==
    /\ pc = "open" /\ disk.format = "rdb" /\ RdbBlocks # {}
    /\ pc' = "list"
    /\ at' = Read(CHOOSE i \in RdbBlocks : \A j \in RdbBlocks : i <= j).at
    /\ UNCHANGED <<disk, slot, base, limit, index, links, extended, children>>

OpenRdbFails ==
    /\ pc = "open" /\ disk.format = "rdb" /\ RdbBlocks = {}
    /\ Finish("error") /\ UNCHANGED children

RdbPart(table) ==
    Part(Len(children), table.entries[1].start * Cylinder,
         (table.entries[1].count - table.entries[1].start + 1) * Cylinder)

FollowList ==
    /\ pc = "list" /\ at # Endless /\ Len(children) < MaxLinks /\ Read(at).magic = "PART"
    /\ children' = Append(children, RdbPart(Read(at)))
    /\ links' = Append(links, at)
    /\ at' = Read(at).at
    /\ UNCHANGED <<disk, pc, slot, base, limit, index, extended>>

EndList ==
    /\ pc = "list"
    /\ at = Endless \/ Len(children) = MaxLinks \/ Read(at).magic # "PART"
    /\ Finish("done") /\ UNCHANGED children
-----------------------------------------------------------------------------
(* cumana: the boot sector of a partition says where the next one starts; the  *)
(* sectors of the code are halved to blocks on the way.                        *)
OpenCumana ==
    /\ pc = "open" /\ disk.format = "cumana"
    /\ pc' = "boots" /\ at' = 6
    /\ UNCHANGED <<disk, slot, base, limit, index, links, extended, children>>

FollowBoots ==
    /\ pc = "boots" /\ More /\ IsBoot(Read(at))
    /\ links' = Append(links, at)
    /\ LET boot == Read(at)
           found == Append(children, Part(index, base, boot.entries[1].count))
           start == base + SecondStart(boot)
           table == Read(start)
       IN  /\ base' = start
           /\ at' = at + 2 * (SecondStart(boot) \div 2)
           /\ CASE SecondStart(boot) = 0 -> pc' = "done" /\ children' = found
                [] SecondStart(boot) # 0 /\ SecondType(boot) = "none" ->
                      pc' = "boots" /\ children' = found
                [] SecondStart(boot) # 0 /\ SecondType(boot) \in {"riscix", "linux"} ->
                      IF table = Unreadable
                      THEN pc' = "error" /\ children' = found
                      ELSE /\ pc' = "done"
                           /\ children' = Append(found, BootSlice(index + 1, start)) \o
                                (IF SecondType(boot) = "linux" THEN LinuxParts(index + 2, start, table)
                                 ELSE IF table.magic = "RISCIX" THEN RiscixParts(index + 2, table)
                                 ELSE <<>>)
                [] OTHER -> pc' = "done" /\ children' = found
    /\ index' = index + 1
    /\ UNCHANGED <<disk, slot, limit, extended>>

EndBoots ==
    /\ pc = "boots" /\ (~More \/ ~IsBoot(Read(at)))
    /\ Finish("done") /\ UNCHANGED children
-----------------------------------------------------------------------------
Next ==
    \/ OpenFlat \/ OpenSlots \/ OpenFails \/ AddPrimary \/ SkipSlot
    \/ EnterChain \/ FollowChain \/ EndChain \/ ChainFails \/ EndSlots
    \/ OpenRdb \/ OpenRdbFails \/ FollowList \/ EndList
    \/ OpenCumana \/ FollowBoots \/ EndBoots

Spec == Init /\ [][Next]_vars /\ WF_vars(Next)
-----------------------------------------------------------------------------
TypeOK ==
    /\ pc \in {"open", "slots", "chain", "list", "boots", "done", "error"}
    /\ slot \in 1..5 /\ extended \in BOOLEAN
    /\ at \in Nat /\ base \in Nat /\ limit \in Nat /\ index \in Nat
    /\ links \in Seq(Nat) /\ Len(links) <= MaxLinks

(* The links of a chain are followed forward and inside of the extended       *)
(* partition, whatever they hold: no sector is read as a link twice.          *)
ChainIsForward ==
    disk.format \in {"mbr", "atari"} =>
        /\ \A i, j \in DOMAIN links : i < j => links[i] < links[j]
        /\ \A i \in DOMAIN links : i > 1 => base < links[i] /\ links[i] < limit

(* Children are told apart by their index: primary partitions are numbered by  *)
(* their slot, logical ones of all chains together from 4, those of the other  *)
(* tables by what is kept or by the slot.  Also in tables that are damaged.    *)
IndexesDistinct ==
    \A i, j \in DOMAIN children : children[i].index = children[j].index => i = j

(* In a table that follows the rules of its format, every partition is found   *)
(* once, where it is and as long as it is, and nothing else: neither the        *)
(* entries that stand for the whole disk nor those of links and headers.       *)
FindsAll ==
    /\ disk.intact => pc # "error"
    /\ disk.intact /\ pc = "done" => children = disk.parts

(* Reading a table ends, also where the links of it form a circle. *)
Ends == <>(pc \in {"done", "error"})
=============================================================================
