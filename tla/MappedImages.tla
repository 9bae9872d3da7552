---------------------------- MODULE MappedImages ----------------------------
(***************************************************************************)
(* The disk images that find a cluster of the virtual disk by a table, or by *)
(* a directory of tables.  For each format, Open is what new makes of a      *)
(* header and a file, a reader or Refused; Read is read_at of that reader.   *)
(*                                                                         *)
(* The fields of a header are those the code uses.  An entry of a table is a *)
(* word: "at" is the number in it, in the units of the format, and "flag"    *)
(* the state bits the code looks at.                                        *)
(***************************************************************************)
EXTENDS Readers, SequencesExt

CONSTANTS Units     \* cluster sizes that the formats allow

ASSUME UnitsAssumption == Units \subseteq Nat \ {0}

Refused == [format |-> "none"]
Magic(file, h, magic) == ReadFrom(file, 0, 1) # <<>> /\ h.magic = magic

(* The two-level lookup: Failure, <<Zero>> where the directory has no table,  *)
(* or the entry.  "at" of a directory entry is scaled to words.               *)
SecondLevel(file, r, at, scale) ==
    LET first == at \div (r.unit * r.per)
        second == (at \div r.unit) % r.per
    IN  IF first >= Len(r.table) \/ r.table[first + 1].at = 0 THEN <<Zero>>
        ELSE ReadWhole(file, r.table[first + 1].at * scale + second, 1)
-----------------------------------------------------------------------------
(* qcow *)
QcowOpen(file, h) ==
    LET l1 == ReadWhole(file, h.table_at, CeilDiv(h.size, h.unit * h.per)) IN
    IF Magic(file, h, "QFI") /\ h.version = 1 /\ h.unit \in Units /\ l1 # Failure
    THEN [format |-> "qcow", size |-> h.size, unit |-> h.unit, per |-> h.per, table |-> l1]
    ELSE Refused

QcowRead(file, r, at, n) ==
    LET k == Clip(r, at, n)
        e == SecondLevel(file, r, at, 1)
    IN  IF e = Failure THEN Failure
        ELSE IF e[1].at = 0 THEN Zeros(k)
        ELSE IF e[1].flag = "packed"
        THEN Cut(Unpack(ReadFrom(file, e[1].at, PackedWords), r.unit), Within(r, at), k)
        ELSE ReadFrom(file, e[1].at + Within(r, at), k)

(* qcow2: as many entries in a table as fit in a cluster. *)
Qcow2Open(file, h) ==
    LET l1 == ReadWhole(file, h.table_at, h.entries) IN
    IF Magic(file, h, "QFI") /\ h.version >= 2 /\ h.unit \in Units /\ l1 # Failure
    THEN [format |-> "qcow2", size |-> h.size, unit |-> h.unit, per |-> h.unit, table |-> l1]
    ELSE Refused

(* Bit 0 of an entry is QCOW_OFLAG_ZERO, also of one that is compressed; the  *)
(* mask clears the bits below a sector.                                      *)
Qcow2Read(file, r, at, n) ==
    LET k == Clip(r, at, n)
        e == SecondLevel(file, r, at, 1)
    IN  IF e = Failure THEN Failure
        ELSE IF e[1].at % Sector = 1 \/ e[1].at < Sector THEN Zeros(k)
        ELSE IF e[1].flag = "packed"
        THEN Cut(Unpack(ReadFrom(file, e[1].at, PackedWords), r.unit), Within(r, at), k)
        ELSE ReadFrom(file, (e[1].at \div Sector) * Sector + Within(r, at), k)

(* qed: both tables have table_size clusters of entries; an entry of 1 is a   *)
(* cluster of zeros.                                                         *)
QedOpen(file, h) ==
    LET l1 == ReadTable(file, h.table_at, h.table_size * h.unit) IN
    IF /\ Magic(file, h, "QED") /\ h.unit \in Units
       /\ h.table_size \in {1, 2, 4, 8, 16}
       /\ l1 # Failure
    THEN [format |-> "qed", size |-> h.size, unit |-> h.unit,
          per |-> h.table_size * h.unit, table |-> l1]
    ELSE Refused

QedRead(file, r, at, n) ==
    LET k == Clip(r, at, n)
        e == SecondLevel(file, r, at, 1)
    IN  IF e = Failure THEN Failure
        ELSE IF e[1].at <= 1 THEN Zeros(k)
        ELSE ReadFrom(file, e[1].at + Within(r, at), k)
-----------------------------------------------------------------------------
(* vmdk: parse_vmdk3 *)
Vmdk3Open(file, h) ==
    LET l1 == ReadTable(file, h.table_at * Sector, h.entries) IN
    IF Magic(file, h, "COWD") /\ h.granularity # 0 /\ l1 # Failure
    THEN [format |-> "vmdk3", size |-> h.size, unit |-> h.granularity * Sector, table |-> l1]
    ELSE Refused

(* The entry of a single table, <<Zero>> past its end. *)
FirstLevel(r, at) ==
    IF at \div r.unit >= Len(r.table) THEN Zero ELSE r.table[(at \div r.unit) + 1]

Vmdk3Read(file, r, at, n) ==
    LET k == Clip(r, at, n)
        e == FirstLevel(r, at)
    IN  IF e.at = 0 THEN Zeros(k) ELSE ReadFrom(file, e.at * Sector + Within(r, at), k)

(* parse_vmdk4: a directory that ends early is cut, not refused. *)
Vmdk4Open(file, h) ==
    LET unit == h.granularity * Sector
        entries == CeilDiv(h.size, h.per * unit)
    IN  IF ~Magic(file, h, "KDMV") \/ unit = 0 \/ h.per = 0 THEN Refused
        ELSE IF ~TableFits(file, h.table_at * Sector, entries) THEN Refused
        ELSE [format |-> IF h.compressed THEN "vmdk4-compressed" ELSE "vmdk4",
              size |-> h.size, unit |-> unit, per |-> h.per, zeroed |-> h.zeroed,
              table |-> ReadFrom(file, h.table_at * Sector, entries)]

Vmdk4Read(file, r, at, n) ==
    LET k == Clip(r, at, n)
        e == SecondLevel(file, r, at, Sector)
    IN  IF e = Failure THEN Failure
        ELSE IF e[1].at = 0 \/ (r.zeroed /\ e[1].at = 1) THEN Zeros(k)
        ELSE ReadFrom(file, e[1].at * Sector + Within(r, at), k)

(* read_compressed_grain: a marker precedes the compressed words.  How many of   *)
(* them are read is not looked at, and those that are not are zeros, which       *)
(* inflate may take for data, as it has no checksum: the "flag" of the first word *)
(* says so.  Zeros alone are no stream.                                        *)
Garbled == Word("garbled", 0, "none")

CompressedGrain(file, r, at) ==
    LET stream == ReadFrom(file, at + 1, PackedWords) IN
    IF ReadWhole(file, at, 1) = Failure THEN Failure
    ELSE IF stream # <<>> /\ Len(stream) < PackedWords /\ stream[1].flag = "inflates"
    THEN [i \in 1..r.unit |-> Garbled]
    ELSE Unpack(stream, r.unit)

Vmdk4CompressedRead(file, r, at, n) ==
    LET k == Clip(r, at, n)
        e == SecondLevel(file, r, at, Sector)
    IN  IF e = Failure THEN Failure
        ELSE IF e[1].at = 0 THEN Zeros(k)
        ELSE Cut(CompressedGrain(file, r, e[1].at * Sector), Within(r, at), k)

(* parse_sesparse: sizes and addresses are bytes. *)
SeSparseOpen(file, h) ==
    LET entries == CeilDiv(h.size, h.per * h.unit) IN
    IF ~Magic(file, h, "cafebabe") \/ h.per * h.unit = 0 THEN Refused
    ELSE IF ~TableFits(file, h.table_at, entries) THEN Refused
    ELSE [format |-> "sesparse", size |-> h.size, unit |-> h.unit, per |-> h.per,
          table |-> ReadFrom(file, h.table_at, entries)]

(* The top nibble of a directory entry is 0 or 3 and of a grain 3 where there *)
(* is something.                                                             *)
SeSparseRead(file, r, at, n) ==
    LET k == Clip(r, at, n)
        first == at \div (r.unit * r.per)
        e == IF first < Len(r.table) /\ r.table[first + 1].flag \notin {"0", "3"}
             THEN <<Zero>> ELSE SecondLevel(file, r, at, 1)
    IN  IF e = Failure THEN Failure
        ELSE IF e[1].flag # "3" THEN Zeros(k)
        ELSE ReadFrom(file, e[1].at + Within(r, at), k)
-----------------------------------------------------------------------------
(* vdi: an entry is the number of a block after data_at. *)
VdiOpen(file, h) ==
    LET map == ReadWhole(file, h.table_at, h.entries) IN
    IF Magic(file, h, "VDI") /\ h.unit # 0 /\ map # Failure
    THEN [format |-> "vdi", size |-> h.size, unit |-> h.unit, base |-> h.data_at, table |-> map]
    ELSE Refused

VdiRead(file, r, at, n) ==
    LET k == Clip(r, at, n)
        e == FirstLevel(r, at)
    IN  IF e = Zero \/ e.flag \in {"unallocated", "discarded"} THEN Zeros(k)
        ELSE ReadFrom(file, r.base + e.at * r.unit + Within(r, at), k)

(* parallels: past its table it returns nothing. *)
ParallelsOpen(file, h) ==
    LET bat == ReadTable(file, h.table_at, h.entries) IN
    IF /\ \/ Magic(file, h, "WithoutFreeSpace")
          \/ Magic(file, h, "WithouFreSpacExt")
       /\ h.version = 2 /\ h.tracks # 0 /\ bat # Failure
    THEN [format |-> "parallels", size |-> h.size, unit |-> h.tracks * Sector, table |-> bat,
          extended |-> h.magic = "WithouFreSpacExt"]
    ELSE Refused

ParallelsRead(file, r, at, n) ==
    LET k == Clip(r, at, n)
        e == FirstLevel(r, at)
        scale == IF r.extended THEN r.unit ELSE Sector
    IN  IF at \div r.unit >= Len(r.table) THEN <<>>
        ELSE IF e.at = 0 THEN Zeros(k)
        ELSE ReadFrom(file, e.at * scale + Within(r, at), k)

(* bochs: every extent follows its bitmap. *)
MaxCatalog == 1024 * 1024

BochsOpen(file, h) ==
    LET catalog == ReadWhole(file, h.table_at, h.entries) IN
    IF Magic(file, h, "Bochs") /\ h.growing /\ h.unit \in Units
       /\ h.entries <= MaxCatalog /\ catalog # Failure
    THEN [format |-> "bochs", size |-> h.size, unit |-> h.unit,
          bitmap |-> CeilDiv(h.bitmap, Sector) * Sector,
          base |-> h.table_at + h.entries, table |-> catalog]
    ELSE Refused

BochsRead(file, r, at, n) ==
    LET k == Clip(r, at, n)
        e == FirstLevel(r, at)
    IN  IF e = Zero \/ e.flag = "unallocated" THEN Zeros(k)
        ELSE ReadFrom(file, r.base + e.at * (r.bitmap + r.unit) + r.bitmap + Within(r, at), k)

(* vhd: the footer is read from the first sector, whatever the type is.  A fixed *)
(* disk is the file itself; a block follows its bitmap.                        *)
VhdFooter == Word("conectix", 0, "none")

VhdOpen(file, h) ==
    LET bat == ReadWhole(file, h.table_at, h.entries)
        footer == ReadWhole(file, 0, Sector)
    IN
    IF footer = Failure \/ footer[1] # VhdFooter THEN Refused
    ELSE IF h.type = "fixed" THEN [format |-> "vhd-fixed", size |-> h.size]
    ELSE IF /\ h.type \in {"dynamic", "differencing"} /\ h.dynamic_magic
            /\ h.unit # 0 /\ bat # Failure
    THEN [format |-> "vhd", size |-> h.size, unit |-> h.unit, table |-> bat,
          bitmap |-> CeilDiv(CeilDiv(h.unit \div Sector, 8), Sector) * Sector]
    ELSE Refused

VhdFixedRead(file, r, at, n) == ReadFrom(file, at, Min({n, r.size - at}))

VhdRead(file, r, at, n) ==
    LET k == Clip(r, at, n)
        e == FirstLevel(r, at)
    IN  IF e = Zero \/ e.flag = "unallocated" THEN Zeros(k)
        ELSE ReadFrom(file, e.at * Sector + r.bitmap + Within(r, at), k)

(* vhdx: of the regions and metadata items of a kind the last one counts.     *)
LastOf(kind, entries) ==
    LET known == {i \in DOMAIN entries : entries[i].kind = kind}
    IN  IF known = {} THEN [kind |-> kind, at |-> 0, length |-> 0] ELSE entries[Max(known)]

VhdxMetadata(h) ==
    [size |-> LastOf("size", h.items).at, unit |-> LastOf("block", h.items).at]

VhdxOpen(file, h) ==
    LET bat == LastOf("bat", h.regions)
        metadata == LastOf("metadata", h.regions)
        disk == VhdxMetadata(h)
    IN  IF /\ Magic(file, h, "vhdxfile") /\ h.region_magic
           /\ bat.at # 0 /\ metadata.at # 0 /\ disk.size # 0 /\ disk.unit # 0
        THEN [format |-> "vhdx", size |-> disk.size, unit |-> disk.unit,
              table |-> ReadFrom(file, bat.at, bat.length)]
        ELSE Refused

VhdxRead(file, r, at, n) ==
    LET k == Clip(r, at, n)
        e == FirstLevel(r, at)
    IN  IF e.flag # "fully-present" THEN Zeros(k)
        ELSE ReadFrom(file, e.at + Within(r, at), k)
-----------------------------------------------------------------------------
(* cloop: block i is compressed between the offsets i and i + 1.             *)
CloopOpen(file, h) ==
    LET offsets == ReadTable(file, h.table_at, h.blocks + 1)
        count == Len(offsets)
    IN  IF /\ ReadFrom(file, 0, 1) # <<>> /\ h.unit \in Units
           /\ offsets # Failure
           /\ offsets[1].at >= h.table_at + count
           /\ \A i \in 1..(count - 1) : offsets[i].at <= offsets[i + 1].at
           /\ offsets[count].at <= Len(file.words)
        THEN [format |-> "cloop", size |-> h.blocks * h.unit, unit |-> h.unit,
              table |-> offsets]
        ELSE Refused

(* zlib_bound, in words *)
ZlibBound(unit) == unit + PackedWords

CloopRead(file, r, at, n) ==
    LET b == (at \div r.unit) + 1
        packed == r.table[b + 1].at - r.table[b].at
        stream == ReadWhole(file, r.table[b].at, packed)
    IN  IF packed > ZlibBound(r.unit) \/ stream = Failure THEN Failure
        ELSE Cut(Unpack(stream, r.unit), Within(r, at), Clip(r, at, n))
=============================================================================
