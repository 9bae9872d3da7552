---------------------------- MODULE StreamImages ----------------------------
(***************************************************************************)
(* The containers that hold slices of the file (atr, twoimg, cdi, nrg) and   *)
(* those that are unpacked into memory (apridisk, scl, dms and the streams   *)
(* of arc/).  A header, a record or an entry is a word or two of the file.    *)
(***************************************************************************)
EXTENDS SegmentImages

(* atr, twoimg *)
AtrOpen(file, h) ==
    IF ReadFrom(file, 0, 1) = <<>> \/ h.magic # "0296" \/ h.size = 0
       \/ 1 + h.size > Len(file.words)
    THEN NoChildren
    ELSE <<Child(0, 1, Slice(1, h.size))>>

TwoImgOpen(file, h) ==
    IF ReadFrom(file, 0, 1) = <<>> \/ h.magic # "2IMG" \/ h.length = 0
       \/ h.data_at >= Len(file.words) \/ h.data_at + h.length > Len(file.words)
    THEN NoChildren
    ELSE <<Child(0, h.data_at, Slice(h.data_at, h.length))>>

Tracks(tracks) ==
    [i \in DOMAIN tracks |->
        Child(i - 1, tracks[i].start, Slice(tracks[i].start, tracks[i].length))]
-----------------------------------------------------------------------------
(* cdi: the footer is two words, the version and where the header is.  A       *)
(* session word has the number of its tracks, a track two words: the pregap   *)
(* with the mode, the length with the size of a sector.                      *)
CdiSectors == [cooked |-> Sector, xa |-> Sector + 1, raw |-> Sector + 2]

(* parse_track: the track and what it takes of the file, or <<>>. *)
CdiTrack(file, pos, data) ==
    LET t == ReadWhole(file, pos, 2) IN
    IF t = Failure \/ t[1].kind # "track" \/ t[1].flag \notin {"audio", "mode1", "mode2"}
       \/ t[2].flag \notin DOMAIN CdiSectors
    THEN <<>>
    ELSE LET sector == CdiSectors[t[2].flag] IN
         <<[start |-> data + t[1].at * sector, length |-> t[2].at * sector,
            end |-> data + (t[1].at + t[2].at) * sector]>>

(* parse_cdi: of each session its tracks; the data of a track follows that of *)
(* the one before, also of an earlier session.                               *)
CdiTracks(file, header) ==
    LET sessions == ReadWhole(file, header, 1)
        end(tracks) == IF tracks = <<>> THEN 0 ELSE Last(tracks).end
        session[s \in 0..Far] ==
            IF s = 0 THEN [ok |-> TRUE, pos |-> header + 1, tracks |-> <<>>]
            ELSE LET before == session[s - 1]
                     count == ReadWhole(file, before.pos, 1)
                     track[t \in 0..Far] ==
                         IF t = 0 THEN [ok |-> count # Failure, pos |-> before.pos + 1,
                                        tracks |-> before.tracks]
                         ELSE LET so_far == track[t - 1]
                                  next == CdiTrack(file, so_far.pos, end(so_far.tracks))
                              IN  IF so_far.ok /\ next # <<>>
                                  THEN [ok |-> TRUE, pos |-> so_far.pos + 2,
                                        tracks |-> so_far.tracks \o next]
                                  ELSE [so_far EXCEPT !.ok = FALSE]
                 IN  IF before.ok /\ count # Failure THEN track[count[1].at]
                     ELSE [before EXCEPT !.ok = FALSE]
    IN  IF sessions = Failure THEN [ok |-> FALSE] ELSE session[sessions[1].at]

CdiOpen(file, h) ==
    LET size == Len(file.words)
        version == file.words[size - 1]
        header == file.words[size].at
        parsed == CdiTracks(file, IF version.flag = "3.5" THEN size - header ELSE header)
    IN  IF size < 2 \/ header = 0 \/ version.flag \notin {"2", "3", "3.5"} \/ ~parsed.ok
        THEN NoChildren
        ELSE Tracks(parsed.tracks)
-----------------------------------------------------------------------------
(* nrg: the last word names the version and has the place of the first chunk.  *)
(* A chunk has the length of what it holds: entries of two words, for DAO the *)
(* start and the end of a track, for ETN its start and its length.           *)
NrgModes == {"mode1", "mode2", "audio"}     \* TrackMode::from_code

(* parse_dao_chunk, parse_etn_chunk: the track of an entry, or none. *)
NrgTrack(id, entry) ==
    IF entry[1].flag \notin NrgModes THEN <<>>
    ELSE <<[start |-> entry[1].at,
            length |-> IF id = "DAO" THEN Max({entry[2].at - entry[1].at, 0})
                       ELSE entry[2].at]>>

(* parse_chunks: up to END! or where no chunk fits. *)
NrgNext(file, at) ==
    IF at + 1 > Len(file.words) \/ file.words[at + 1].flag = "END" THEN Stop
    ELSE IF \/ file.words[at + 1].flag \in {"DAO", "ETN"}
               /\ ReadWhole(file, at + 1, file.words[at + 1].at) = Failure
         THEN Broken ELSE at + 1 + file.words[at + 1].at

NrgOpen(file, h) ==
    LET size == Len(file.words)
        chunks == Walk(file.words[size].at, LAMBDA at : NrgNext(file, at))
        of(at) == [i \in 1..(file.words[at + 1].at \div 2) |->
                      NrgTrack(file.words[at + 1].flag,
                               SubSeq(file.words, at + 2 * i, at + 2 * i + 1))]
        held == SelectSeq(chunks, LAMBDA at :
                    at < size /\ file.words[at + 1].flag \in {"DAO", "ETN"})
    IN  IF size < 1 \/ file.words[size].flag \notin {"NER5", "NERO"} \/ ~Complete(chunks)
        THEN NoChildren
        ELSE Tracks(FlattenSeq(FlattenSeq([i \in DOMAIN held |-> of(held[i])])))
-----------------------------------------------------------------------------
(* apridisk: a record is a word with the length of its data and its mode, a   *)
(* word with its place (track, head and two digits of a sector) and its type,   *)
(* and its data.                                                             *)
TrackOf(record) == record.place \div 1000
HeadOf(record) == (record.place \div 100) % 10
SectorOf(record) == record.place % 100
MaxTrack == 159
MaxHead == 1
MaxSector == 64

Records(data) ==
    LET from[at \in 0..(Far + Far)] ==
            IF at + 2 > Len(data) THEN <<>>
            ELSE <<[length |-> data[at + 1].at, mode |-> data[at + 1].flag,
                    place |-> data[at + 2].at, type |-> data[at + 2].flag,
                    complete |-> at + 2 + data[at + 1].at <= Len(data),
                    data |-> SubSeq(data, at + 3, Min({at + 2 + data[at + 1].at, Len(data)}))]>>
                 \o from[at + 2 + data[at + 1].at]
    IN  from[1]

(* reconstruct: a sector is stored as it is, or as a word that is repeated.    *)
Reconstruct(data, sectors) ==
    LET records == Records(data)
        of == SelectSeq(records, LAMBDA s : s.type = "sector")
        kept == ToSet(of)
        heads == Max({HeadOf(s) : s \in kept}) + 1
        per == Max({SectorOf(s) : s \in kept})
        tracks == Max({TrackOf(s) : s \in kept}) + 1
        lba(s) == (TrackOf(s) * heads + HeadOf(s)) * per + SectorOf(s) - 1
        words(s) == IF s.mode = "raw" THEN SubSeq(s.data, 1, Sector)
                    ELSE [i \in 1..Sector |-> s.data[1]]
        of_lba(l) == SelectLastInSeq(of, LAMBDA s : lba(s) = l)
    IN  IF \/ \E s \in ToSet(records) : ~s.complete
           \/ kept = {}
           \/ Len(of) > sectors
           \/ \E s \in kept : \/ SectorOf(s) \notin 1..MaxSector
                              \/ TrackOf(s) > MaxTrack \/ HeadOf(s) > MaxHead
                              \/ s.mode \notin {"raw", "rle"}
                              \/ s.mode = "raw" /\ Len(s.data) < Sector
                              \/ s.mode = "rle" /\ s.data = <<>>
           \/ tracks * heads * per > sectors
        THEN Failure
        ELSE [i \in 1..(tracks * heads * per * Sector) |->
                 LET last == of_lba((i - 1) \div Sector) IN
                 IF last = 0 THEN Zero ELSE words(of[last])[((i - 1) % Sector) + 1]]

ApridiskOpen(file, h) ==
    IF ReadAll(file) = Failure \/ file.words = <<>> \/ h.magic # "ACT" THEN NoChildren
    ELSE Unpacked(Reconstruct(ReadAll(file), h.max_sectors))
-----------------------------------------------------------------------------
(* scl: the entries of the catalogue, then their sectors; a sector and an      *)
(* entry are a word.  In the TRD disk the catalogue and the word of the system *)
(* sector take the first track.                                              *)
TrdFiles == 2
TrdTrack == TrdFiles + 1
TrdSectors == 3 * TrdTrack

ReconstructTrd(data) ==
    LET count == data[1].at
        sectors(i) == data[i + 1].at
        before(i) == FoldFunctionOnSet(+, 0, [j \in 1..count |-> sectors(j)], 1..(i - 1))
        used == before(count + 1)
        first(i) == TrdTrack + before(i)
    IN  IF count > TrdFiles \/ Len(data) < 1 + count THEN Failure
        ELSE IF \/ 1 + count + used > Len(data)
                \/ TrdTrack + used > TrdSectors
        THEN Failure
        ELSE [i \in 1..TrdSectors |->
                 IF i <= count THEN Word("entry", first(i), data[i + 1].flag)
                 ELSE IF i = TrdTrack THEN Word("system", TrdTrack + used, "none")
                 ELSE IF i \in (TrdTrack + 1)..(TrdTrack + used)
                      THEN data[1 + count + i - TrdTrack]
                 ELSE Zero]

SclOpen(file, h) ==
    IF ReadAll(file) = Failure \/ file.words = <<>> \/ h.magic # "SINCLAIR" THEN NoChildren
    ELSE Unpacked(ReconstructTrd(ReadAll(file)))
-----------------------------------------------------------------------------
(* dms: a track is a word with its number and its flags, then its packed       *)
(* data, a word.  The windows of the decompressors go on from track to track  *)
(* until one without the flag "keep": a packed word has in "flag" whether it   *)
(* was made with windows that were fresh or used.                             *)
TrackSectors == 11

(* unpack_track, with the state of the decompressors. *)
UnpackTrack(packed, fresh, n) ==
    IF packed.kind = "raw" \/ (packed.kind = "packed" /\ packed.flag = fresh)
    THEN [i \in 1..n |-> Data(packed.at + i - 1)]
    ELSE Failure

(* decompress_dms: what is no track of the disk is passed over, and a track   *)
(* with number n is put at the n-th eleven sectors of it.                    *)
DecompressDms(data, size, length) ==
    LET from[at \in 0..Far, fresh \in {"fresh", "used"}] ==
            IF at + 1 > Len(data) \/ data[at + 1].kind # "track" THEN <<>>
            ELSE IF at + 2 > Len(data) THEN <<Failure>>
            ELSE IF data[at + 1].flag = "banner" THEN from[at + 2, fresh]
            ELSE <<UnpackTrack(data[at + 2], fresh, length)>>
                 \o from[at + 2, IF data[at + 1].flag = "keep" THEN "used" ELSE "fresh"]
        unpacked == from[1, "fresh"]
        tracks == SelectSeq(data, LAMBDA w : w.kind = "track" /\ w.flag # "banner")
        place(i) == tracks[i].at * TrackSectors
        of(w) == SelectLastInSeq([i \in DOMAIN unpacked |-> place(i)],
                                 LAMBDA p : p < w /\ w <= p + length /\ p + length <= size)
    IN  IF Failure \in ToSet(unpacked) THEN Failure
        ELSE [w \in 1..size |->
                 IF of(w) = 0 THEN Zero ELSE unpacked[of(w)][w - place(of(w))]]

DmsOpen(file, h) ==
    IF ReadAll(file) = Failure \/ file.words = <<>> \/ h.magic # "DMS!" \/ ~h.crc
       \/ h.encrypted \/ h.disktype = "FMS"
    THEN NoChildren
    ELSE Unpacked(DecompressDms(ReadAll(file), h.size, h.length))
-----------------------------------------------------------------------------
(* gzip, bzip2, lz4, lzma, xz, zstd and compress: after the magic a word of   *)
(* the stream stands for "unit" words, and the last one for its end.          *)
Decompress(stream, unit) ==
    LET packed == SubSeq(stream, 2, Len(stream) - 1) IN
    IF Len(stream) < 2 \/ Last(stream).kind # "end" THEN Failure
    ELSE IF Len(packed) * unit > MaxSize THEN Failure
    ELSE FlattenSeq([i \in DOMAIN packed |-> [j \in 1..unit |-> Data(packed[i].at + j - 1)]])

StreamOpen(file, h) ==
    IF ReadAll(file) = Failure THEN NoChildren
    ELSE Unpacked(Decompress(ReadAll(file), h.unit))

(* compress: the code sizes that the decoder has. *)
CompressOpen(file, h) ==
    IF h.max_bits \notin 9..12 THEN NoChildren ELSE StreamOpen(file, h)
=============================================================================
