---------------------------- MODULE SegmentImages ----------------------------
(***************************************************************************)
(* The containers that are read in pieces of their own lengths: dmg, ewf and *)
(* ubi; and the children that containers have.                              *)
(*                                                                         *)
(* Open is the children method, a sequence of children or NoChildren where   *)
(* the code returns an error.                                               *)
(***************************************************************************)
EXTENDS Readers, SequencesExt

CONSTANTS
    MaxSize,        \* MAX_SIZE of what is read into memory
    Far             \* where find_koly starts to look for the end of a file

Nowhere == Far + 1  \* u64::MAX, the offset of a child that is no part of its parent
Child(index, offset, reader) == [index |-> index, offset |-> offset, reader |-> reader]
NoChildren == <<Child(0, 0, [format |-> "error"])>>

Slice(start, length) == [format |-> "slice", start |-> start, length |-> length]
BytesReader(words) == [format |-> "bytes", words |-> words]
Unpacked(words) ==
    IF words = Failure THEN NoChildren ELSE <<Child(0, Nowhere, BytesReader(words))>>

BytesRead(r, at, n) == SubSeq(r.words, at + 1, Min({at + n, Len(r.words)}))

(* read_all: read_at until it returns nothing. *)
ReadAll(file) == IF Len(file.words) > MaxSize THEN Failure ELSE file.words

IsA(file, at, kind) ==
    LET s == ReadFrom(file, at, 1) IN s # <<>> /\ s[1].kind = kind

(* The positions from the first by next, which is a position, Stop or Broken. *)
Stop == Far + 2
Broken == Far + 3
Walk(first, next(_)) ==
    LET walk[at \in 0..Broken] ==
            IF at = Stop THEN <<>> ELSE IF at = Broken THEN <<Broken>>
            ELSE <<at>> \o walk[next(at)]
    IN  walk[first]
Complete(walk) == walk = <<>> \/ Last(walk) # Broken
-----------------------------------------------------------------------------
(* dmg *)

(* find_koly: where nothing can be read, by halves and then by steps. *)
FindKoly(file) ==
    LET there(at) == ReadFrom(file, at, 1) # <<>>
        halve[low, high \in 0..Far] ==
            LET mid == low + (high - low) \div 2 IN
            IF high - low <= Sector THEN low
            ELSE IF there(mid) THEN halve[mid, high] ELSE halve[low, mid]
        step[at \in 0..(Far + 1)] == IF there(at) THEN step[at + 1] ELSE at
    IN  step[halve[0, Far]]

(* parse_mish_block; the numbers become those of the disk and of the file.    *)
Mish(table, fork) ==
    LET last == SelectInSeq(table.entries, LAMBDA e : e.type = "last")
        listed == IF last = 0 THEN table.entries ELSE SubSeq(table.entries, 1, last - 1)
        chunks == SelectSeq(listed, LAMBDA e : e.type \notin {"comment", "udig"} /\ e.count > 0)
    IN  [i \in DOMAIN chunks |->
            [chunks[i] EXCEPT !.number = table.start + @, !.place = fork + @]]

(* parse_plist_blkx: of the tables that a blkx array lists, the first one;     *)
(* one that cannot be decoded is left out.                                   *)
BlkxChunks(plist, fork) ==
    LET firsts == [i \in DOMAIN plist |-> plist[i][1]]
        valid == SelectSeq(firsts, LAMBDA t : t.valid)
        chunks == FlattenSeq([i \in DOMAIN valid |-> Mish(valid[i], fork)])
    IN  SortSeq(chunks, LAMBDA c, d : c.number < d.number)

Mebi == 2048 * Sector       \* words in a mebibyte
MaxPlist == 100 * Mebi
MaxChunk == 64 * Mebi       \* MAX_CHUNK_SIZE

DmgOpen(file, h) ==
    LET size == FindKoly(file)
        chunks == BlkxChunks(h.plist, h.fork)
    IN  IF \/ ReadFrom(file, 0, 1) = <<>>
           \/ size < Sector
           \/ ReadWhole(file, size - Sector, Sector) = Failure
           \/ ~IsA(file, size - Sector, "koly")
           \/ h.xml_length \notin 1..MaxPlist
           \/ ReadWhole(file, h.xml_at, h.xml_length) = Failure
           \/ chunks = <<>>
        THEN NoChildren
        ELSE <<Child(0, 0, [format |-> "dmg", chunks |-> chunks,
                            size |-> Max({(c.number + c.count) * Sector : c \in ToSet(chunks)})])>>

(* decompress_chunk: all of it, whatever part is read. *)
DecompressChunk(file, c) ==
    IF c.type # "packed" \/ c.count * Sector > MaxChunk \/ c.length > MaxChunk + Mebi
    THEN Failure
    ELSE Unpack(ReadWhole(file, c.place, c.length), c.count * Sector)

(* find_chunk: the first chunk that ends after a sector.  The code searches by *)
(* halves, which finds the same where the ends ascend.                       *)
Ending(r, sector) ==
    {i \in DOMAIN r.chunks : r.chunks[i].number + r.chunks[i].count > sector}
ChunkOf(r, sector) == IF Ending(r, sector) = {} THEN 0 ELSE Min(Ending(r, sector))

DmgRead(file, r, at, n) ==
    LET sector == at \div Sector
        i == ChunkOf(r, sector)
        c == r.chunks[i]
        from == at - c.number * Sector
        k == Min({n, c.count * Sector - from, r.size - at})
    IN  IF i = 0 \/ c.number > sector THEN Zeros(Min({n, Sector - (at % Sector), r.size - at}))
        ELSE CASE c.type = "zero" -> Zeros(k)
               [] c.type = "raw" -> ReadWhole(file, c.place + from, k)
               [] OTHER -> Cut(DecompressChunk(file, c), from, k)
-----------------------------------------------------------------------------
(* ewf: the sections form a chain; a descriptor has the next one in "at".      *)

(* parse_sections: where to go after the section at a position. *)
NextSection(file, at) ==
    LET d == ReadWhole(file, at, 1) IN
    IF d = Failure THEN Broken
    ELSE IF d[1].flag = "done" \/ d[1].at \in {0, at} THEN Stop
    ELSE IF d[1].at < at \/ d[1].at > Len(file.words) - 1 THEN Broken
    ELSE d[1].at

(* A section "table": the number of its entries, then the entries. *)
SectionTable(file, at) ==
    LET count == ReadWhole(file, at + 1, 1) IN
    IF count = Failure THEN Failure ELSE ReadTable(file, at + 2, count[1].at)

EwfOpen(file, h) ==
    LET chain == Walk(1, LAMBDA at : NextSection(file, at))
        of(types) == SelectSeq(chain, LAMBDA at : file.words[at + 1].flag \in types)
        volumes == [i \in DOMAIN of({"volume", "data"}) |->
                        ReadWhole(file, of({"volume", "data"})[i] + 1, 2)]
        sectors == of({"sectors"})
        tables == [i \in DOMAIN of({"table"}) |-> SectionTable(file, of({"table"})[i])]
        first == SelectInSeq(tables, LAMBDA t : t # <<>>)
    IN  IF \/ h.magic # "EVF" \/ ReadFrom(file, 0, 1) = <<>>
           \/ ~Complete(chain)
           \/ volumes = <<>> \/ sectors = <<>> \/ first = 0
        THEN NoChildren
        ELSE IF \/ Failure \in ToSet(volumes)
                \/ tables[first] = Failure
                \/ h.unit = 0
                \/ Last(volumes)[1].at # Len(tables[first])
        THEN NoChildren
        ELSE <<Child(0, 0, [format |-> "ewf", table |-> tables[first], unit |-> h.unit,
                            size |-> Last(volumes)[2].at, base |-> Last(sectors),
                            end |-> file.words[Last(sectors) + 1].at])>>

(* read_chunk: a chunk ends where the next one begins.  A raw chunk that is   *)
(* shorter than what is read of it makes the slice panic.                    *)
EwfRead(file, r, at, n) ==
    LET c == (at \div r.unit) + 1
        k == Clip(r, at, n)
        start == r.base + r.table[c].at
        end == IF c < Len(r.table) THEN r.base + r.table[c + 1].at ELSE r.end
        raw == ReadWhole(file, start, end - start)
    IN  IF \/ c > Len(r.table)
           \/ end < start \/ end - start > r.unit + PackedWords
           \/ raw = Failure
        THEN Failure
        ELSE IF r.table[c].flag = "packed" THEN Cut(Unpack(raw, r.unit), Within(r, at), k)
        ELSE IF Len(raw) < Within(r, at) + k THEN Failure
        ELSE Cut(raw, Within(r, at), k)
-----------------------------------------------------------------------------
(* ubi: a physical block starts with a header (EC) that has the offset of its *)
(* data, and a header (VID) with the volume, the number of the block and the   *)
(* size of its data.                                                         *)
PebSizes == <<8, 16, 32, 4, 64>>    \* 128, 256, 512, 64 and 1024 KiB, in words
InternalVolumes == 100              \* UBI_INTERNAL_VOL_START

(* detect_peb_size: the first size at which there is another header. *)
PebSize(file) ==
    LET likely == SelectSeq(PebSizes, LAMBDA p : IsA(file, p, "ec"))
    IN  IF likely = <<>> THEN PebSizes[1] ELSE likely[1]

(* scan_pebs: the blocks in use; of two for one place the later one counts.    *)
PebsInUse(file, peb) ==
    {p \in 0..(Len(file.words) \div peb) :
        IsA(file, p * peb, "ec") /\ IsA(file, p * peb + 1, "vid")}

UbiVolume(file, peb, pebs, volume, leb) ==
    LET mine == {p \in pebs : file.words[p * peb + 2].at = volume}
        number(p) == file.words[p * peb + 3].at
    IN  [format |-> "ubi", unit |-> leb,
         size |-> (Max({number(p) : p \in mine}) + 1) * leb,
         blocks |-> [b \in {number(p) : p \in mine} |->
                        LET last == Max({p \in mine : number(p) = b})
                        IN  last * peb + file.words[last * peb + 1].at]]

UbiOpen(file, h) ==
    LET peb == PebSize(file)
        pebs == PebsInUse(file, peb)
        leb == peb - file.words[1].at
        volumes == SetToSortSeq({file.words[p * peb + 2].at : p \in pebs}
                                    \cap 0..(InternalVolumes - 1), <)
    IN  IF \/ ~IsA(file, 0, "ec") \/ pebs = {}
           \/ \E p \in pebs : \E field \in {2, 3} : ReadWhole(file, p * peb + field, 1) = Failure
        THEN NoChildren
        ELSE [i \in DOMAIN volumes |->
                 Child(volumes[i], 0, UbiVolume(file, peb, pebs, volumes[i], leb))]

UbiRead(file, r, at, n) ==
    LET k == Clip(r, at, n)
        b == at \div r.unit
    IN  IF b \in DOMAIN r.blocks THEN ReadFrom(file, r.blocks[b] + Within(r, at), k)
        ELSE Zeros(k)
=============================================================================
