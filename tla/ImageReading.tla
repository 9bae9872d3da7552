----------------------------- MODULE ImageReading -----------------------------
(***************************************************************************)
(* What happens to an image once its format is known: the container is        *)
(* opened, one of its children is read from the start to the end in pieces of  *)
(* any size, as read_all and the callers of the library do.                   *)
(*                                                                         *)
(* An image has a file and the fields of its header, which the code reads, and *)
(* what it was made from, which is only looked at by the properties: the       *)
(* disks of its children and whether the file is complete and in one piece.    *)
(***************************************************************************)
EXTENDS MappedImages, StreamImages

CONSTANTS
    Images,         \* the images to read
    MaxRead         \* bound of the words asked for in a read

VARIABLES
    image,          \* the file and its format
    pc,             \* what is done with it
    child,          \* the child that is read
    data            \* what was read so far

vars == <<image, pc, child, data>>

Mapped == {"qcow", "qcow2", "qed", "vmdk3", "vmdk4", "sesparse", "vdi", "parallels",
           "bochs", "vhd", "vhdx", "cloop"}

OpenMapped(file, h) ==
    CASE h.format = "qcow" -> QcowOpen(file, h)
      [] h.format = "qcow2" -> Qcow2Open(file, h)
      [] h.format = "qed" -> QedOpen(file, h)
      [] h.format = "vmdk3" -> Vmdk3Open(file, h)
      [] h.format = "vmdk4" -> Vmdk4Open(file, h)
      [] h.format = "sesparse" -> SeSparseOpen(file, h)
      [] h.format = "vdi" -> VdiOpen(file, h)
      [] h.format = "parallels" -> ParallelsOpen(file, h)
      [] h.format = "bochs" -> BochsOpen(file, h)
      [] h.format = "vhd" -> VhdOpen(file, h)
      [] h.format = "vhdx" -> VhdxOpen(file, h)
      [] h.format = "cloop" -> CloopOpen(file, h)

(* children: a disk image has one, which starts where the image does. *)
Open(file, h) ==
    IF h.format \in Mapped
    THEN IF OpenMapped(file, h) = Refused THEN NoChildren
         ELSE <<Child(0, 0, OpenMapped(file, h))>>
    ELSE CASE h.format = "dmg" -> DmgOpen(file, h)
           [] h.format = "ewf" -> EwfOpen(file, h)
           [] h.format = "ubi" -> UbiOpen(file, h)
           [] h.format = "atr" -> AtrOpen(file, h)
           [] h.format = "2img" -> TwoImgOpen(file, h)
           [] h.format = "cdi" -> CdiOpen(file, h)
           [] h.format = "nrg" -> NrgOpen(file, h)
           [] h.format = "apridisk" -> ApridiskOpen(file, h)
           [] h.format = "scl" -> SclOpen(file, h)
           [] h.format = "dms" -> DmsOpen(file, h)
           [] h.format = "compress" -> CompressOpen(file, h)
           [] h.format = "stream" -> StreamOpen(file, h)

Size(r) ==
    CASE r.format = "slice" -> r.length
      [] r.format = "bytes" -> Len(r.words)
      [] OTHER -> r.size

(* read_at of the reader of a child: nothing from its size on. *)
ReadAt(file, r, at, n) ==
    IF at >= Size(r) THEN <<>>
    ELSE CASE r.format = "slice" -> ReadSlice(file, r.start, r.length, at, n)
           [] r.format = "bytes" -> BytesRead(r, at, n)
           [] r.format = "qcow" -> QcowRead(file, r, at, n)
           [] r.format = "qcow2" -> Qcow2Read(file, r, at, n)
           [] r.format = "qed" -> QedRead(file, r, at, n)
           [] r.format = "vmdk3" -> Vmdk3Read(file, r, at, n)
           [] r.format = "vmdk4" -> Vmdk4Read(file, r, at, n)
           [] r.format = "vmdk4-compressed" -> Vmdk4CompressedRead(file, r, at, n)
           [] r.format = "sesparse" -> SeSparseRead(file, r, at, n)
           [] r.format = "vdi" -> VdiRead(file, r, at, n)
           [] r.format = "parallels" -> ParallelsRead(file, r, at, n)
           [] r.format = "bochs" -> BochsRead(file, r, at, n)
           [] r.format = "vhd-fixed" -> VhdFixedRead(file, r, at, n)
           [] r.format = "vhd" -> VhdRead(file, r, at, n)
           [] r.format = "vhdx" -> VhdxRead(file, r, at, n)
           [] r.format = "cloop" -> CloopRead(file, r, at, n)
           [] r.format = "dmg" -> DmgRead(file, r, at, n)
           [] r.format = "ewf" -> EwfRead(file, r, at, n)
           [] r.format = "ubi" -> UbiRead(file, r, at, n)

Nothing == Child(0, 0, [format |-> "none"])
-----------------------------------------------------------------------------
(* What files, headers and readers are. *)
WordSeq(s) == s \in Seq(ToSet(s)) /\ \A i \in DOMAIN s : s[i].kind # "failure"
TableType(t) == WordSeq(t) /\ \A i \in DOMAIN t : t[i].at \in Nat
FileType(file) == TableType(file.words) /\ file.step \in Nat \ {0}
ClusterType(r) == r.size \in Nat /\ r.unit \in Nat \ {0}

(* The numbers of a header, which the code reads as unsigned integers; it makes *)
(* the "per" of qcow a power of two.                                         *)
HeaderType(h) ==
    /\ h.format \notin {"cloop", "vhdx"} => h.size \in Nat /\ h.table_at \in Nat
    /\ h.format \in {"qcow2", "vmdk3", "vdi", "parallels", "bochs", "vhd"} => h.entries \in Nat
    /\ h.format = "qcow" => h.per \in Nat \ {0}
    /\ h.format \in {"vmdk4", "sesparse"} => h.per \in Nat
    /\ h.format \in {"vmdk3", "vmdk4"} => h.granularity \in Nat
    /\ h.format \in {"sesparse", "vdi"} => h.unit \in Nat
    /\ h.format = "vhd" /\ h.type # "fixed" => h.unit \in Nat
    /\ h.format = "vdi" => h.data_at \in Nat
    /\ h.format = "parallels" => h.tracks \in Nat
    /\ h.format = "bochs" => h.bitmap \in Nat
    /\ h.format = "cloop" => h.blocks \in Nat /\ h.table_at \in Nat
    /\ h.format = "vhdx" =>
          /\ TableType(h.regions) /\ \A i \in DOMAIN h.regions : h.regions[i].length \in Nat
          /\ TableType(h.items)

DmgType(r) ==
    /\ r.size \in Nat /\ r.chunks \in Seq(ToSet(r.chunks))
    /\ \A i \in DOMAIN r.chunks :
          r.chunks[i].number \in Nat /\ r.chunks[i].count \in Nat /\ r.chunks[i].place \in Nat
    /\ \A i, j \in DOMAIN r.chunks : i < j =>
          r.chunks[i].number + r.chunks[i].count <= r.chunks[j].number + r.chunks[j].count
EwfType(r) == ClusterType(r) /\ TableType(r.table) /\ r.base \in Nat /\ r.end \in Nat
UbiType(r) == ClusterType(r) /\ \A b \in DOMAIN r.blocks : r.blocks[b] \in Nat

(* The readers of the containers that have no map of clusters. *)
SegmentType(r) ==
    \/ r.format = "slice" /\ r.start \in Nat /\ r.length \in Nat
    \/ r.format = "bytes" /\ WordSeq(r.words)
    \/ r.format = "dmg" /\ DmgType(r)
    \/ r.format = "ewf" /\ EwfType(r)
    \/ r.format = "ubi" /\ UbiType(r)

ImageType(i) ==
    /\ FileType(i.file)
    /\ IF i.header.format \in Mapped THEN HeaderType(i.header)
       ELSE \/ Open(i.file, i.header) = NoChildren
            \/ \A c \in ToSet(Open(i.file, i.header)) : SegmentType(c.reader)

ASSUME ImagesAssumption == MaxRead \in Nat /\ \A i \in Images : ImageType(i)
-----------------------------------------------------------------------------
Init == image \in Images /\ pc = "open" /\ child = Nothing /\ data = <<>>

OpenImage ==
    /\ pc = "open"
    /\ LET children == Open(image.file, image.header) IN
       /\ children # NoChildren
       /\ pc' = IF children = <<>> THEN "end" ELSE "read"
       /\ child' \in (IF children = <<>> THEN {Nothing} ELSE ToSet(children))
    /\ UNCHANGED <<image, data>>

OpenFails ==
    /\ pc = "open" /\ Open(image.file, image.header) = NoChildren
    /\ pc' = "refused"
    /\ UNCHANGED <<image, child, data>>

(* As Read, with a short read taken for the end. *)
ReadToShort ==
    /\ pc = "read"
    /\ \E n \in 1..MaxRead :
          LET s == ReadAt(image.file, child.reader, Len(data), n) IN
          /\ pc' = IF s = Failure THEN "failed" ELSE IF Len(s) < n THEN "end" ELSE "read"
          /\ data' = IF s = Failure THEN data ELSE data \o s
    /\ UNCHANGED <<image, child>>

(* read_all, with a buffer of any size *)
Read ==
    /\ pc = "read"
    /\ \E n \in 1..MaxRead :
          LET s == ReadAt(image.file, child.reader, Len(data), n) IN
          /\ pc' = IF s = Failure THEN "failed" ELSE IF s = <<>> THEN "end" ELSE "read"
          /\ data' = IF s = Failure THEN data ELSE data \o s
    /\ UNCHANGED <<image, child>>

Next == OpenImage \/ OpenFails \/ Read
Spec == Init /\ [][Next]_vars
-----------------------------------------------------------------------------
TypeOK ==
    /\ pc \in {"open", "read", "end", "refused", "failed"}
    /\ pc \in {"read", "end", "failed"} /\ child # Nothing => Len(data) <= Size(child.reader)

(* The disk that a child was made from; words that were never written are      *)
(* zeros.                                                                    *)
Written == image.disks[child.index]

(* However large the pieces were, each word is the one that a read of this word   *)
(* alone gives; reading ends only where such a read finds nothing, and fails only *)
(* where it fails.  A dmg and an ewf give all that is asked for or an error, and  *)
(* fail where a shorter read may not.                                         *)
ReadsWordByWord ==
    child # Nothing =>
        /\ \A i \in 1..Len(data) : ReadAt(image.file, child.reader, i - 1, 1) = <<data[i]>>
        /\ pc = "end" => ReadAt(image.file, child.reader, Len(data), 1) = <<>>
        /\ pc = "failed" /\ child.reader.format \notin {"dmg", "ewf"}
              => ReadAt(image.file, child.reader, Len(data), 1) = Failure

(* What is read is what was written, word for word and from the start, in       *)
(* every layout of the image: holes, clusters stored in any order, packed, and  *)
(* also where the file was cut short or is itself read in pieces.              *)
ReadsTheDisk ==
    child # Nothing =>
        /\ child.index \in DOMAIN image.disks
        /\ Len(data) <= Len(Written) /\ data = SubSeq(Written, 1, Len(data))

(* The same of reads of one word: what ReadsTheDisk comes down to. *)
WordsAreRight(i) ==
    LET children == Open(i.file, i.header) IN
    children # NoChildren =>
        \A c \in ToSet(children) :
            /\ c.index \in DOMAIN i.disks /\ WordSeq(i.disks[c.index])
            /\ \A at \in 0..(Size(c.reader) - 1) :
                  LET s == ReadAt(i.file, c.reader, at, 1) IN
                  \/ s \in {<<>>, Failure}
                  \/ at < Len(i.disks[c.index]) /\ s = <<i.disks[c.index][at + 1]>>

(* The same of an image of which nothing is missing: its file is in one piece and   *)
(* each word of a disk is read, alone.  IntactIsReadWhole comes down to this.      *)
WordsAreWhole(i) ==
    LET children == Open(i.file, i.header) IN
    /\ children # NoChildren /\ Len(i.file.words) < i.file.step
    /\ \A c \in ToSet(children) :
          /\ c.index \in DOMAIN i.disks /\ WordSeq(i.disks[c.index])
          /\ Len(i.disks[c.index]) = Size(c.reader)
          /\ \A at \in 0..(Size(c.reader) - 1) :
                ReadAt(i.file, c.reader, at, 1) = <<i.disks[c.index][at + 1]>>

(* An image that is complete and in one piece is not refused, no read of it     *)
(* fails, and reading ends at the size of the disk and not before.             *)
IntactIsReadWhole ==
    image.intact => /\ pc \notin {"refused", "failed"}
                    /\ pc = "end" /\ child # Nothing => data = Written
=============================================================================
