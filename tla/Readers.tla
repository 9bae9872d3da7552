------------------------------- MODULE Readers -------------------------------
(***************************************************************************)
(* The Reader trait (detect.rs) and what the container readers share        *)
(* (container/mod.rs, container/slice.rs).                                  *)
(*                                                                         *)
(* A file is a sequence of words and the step at which whatever holds it     *)
(* splits a read: a plain file never does, a disk image does at every        *)
(* cluster.  A word stands for as many bytes as a table entry has, and for   *)
(* what they mean: an entry of a table, or the content at a place of the     *)
(* disk that the image holds.  Offsets count words from 0, as read_at does.  *)
(***************************************************************************)
EXTENDS Naturals, Sequences, FiniteSetsExt

CONSTANTS
    Sector,         \* words in the 512 bytes of a sector
    PackedWords,    \* words a compressed cluster takes
    MaxTable        \* MAX_TABLE_SIZE

ASSUME ReaderAssumption ==
    Sector \in Nat \ {0} /\ PackedWords \in Nat \ {0} /\ MaxTable \in Nat

Word(kind, at, flag) == [kind |-> kind, at |-> at, flag |-> flag]
Data(at) == Word("data", at, "none")
Zero == Word("zero", 0, "none")
Zeros(n) == [i \in 1..n |-> Zero]

(* An io::Error, in the place of what a read returns. *)
Failure == <<Word("failure", 0, "none")>>

(* Reader::read_at: fewer words than asked for at the end, and at a step.    *)
ReadFrom(file, at, n) ==
    LET end == Len(file.words)
        m == IF at >= end THEN 0 ELSE Min({n, end - at, file.step - (at % file.step)})
    IN  SubSeq(file.words, at + 1, at + m)

(* The form nearly every table and header is read in: all of it or an error. *)
ReadWhole(file, at, n) ==
    LET s == ReadFrom(file, at, n) IN IF Len(s) = n THEN s ELSE Failure

(* checked_table_size.  Numbers here are unbounded: a sum that overflows 64   *)
(* bits in the code, which it checks, is past the end of any file.            *)
TableFits(file, at, n) == n <= MaxTable /\ at + n <= Len(file.words)

ReadTable(file, at, n) ==
    IF TableFits(file, at, n) THEN ReadWhole(file, at, n) ELSE Failure

(* As ReadSlice, over the end of the slice. *)
ReadOn(file, start, length, at, n) ==
    IF at >= length THEN <<>> ELSE ReadFrom(file, start + at, n)

(* SliceReader::read_at *)
ReadSlice(file, start, length, at, n) ==
    IF at >= length THEN <<>> ELSE ReadFrom(file, start + at, Min({n, length - at}))

(* A compressed cluster, read into memory and decompressed (flate2): the      *)
(* stream knows its end, so words that follow it do no harm, missing ones do. *)
Unpack(stream, unit) ==
    IF /\ Len(stream) >= PackedWords
       /\ \A i \in 1..PackedWords : stream[i].kind = "packed" /\ stream[i].at = stream[1].at
    THEN [i \in 1..unit |-> Data(stream[1].at + i - 1)]
    ELSE Failure

CeilDiv(a, b) == (a + b - 1) \div b

Within(r, at) == at % r.unit

(* As Clip, without the end of the disk. *)
ClipToCluster(r, at, n) == Min({n, r.unit - Within(r, at)})

(* As Clip, without the end of the cluster. *)
ClipToDisk(r, at, n) == Min({n, r.size - at})

(* How much of n words at an offset lies in its cluster and on the disk.      *)
Clip(r, at, n) == Min({n, r.unit - Within(r, at), r.size - at})

(* A part of an unpacked cluster. *)
Cut(cluster, from, n) ==
    IF cluster = Failure THEN Failure ELSE SubSeq(cluster, from + 1, from + n)
=============================================================================
