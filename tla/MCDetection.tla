----------------------------- MODULE MCDetection -----------------------------
(***************************************************************************)
(* Detection in images of a few bytes, with rules of every type.  One image is *)
(* a compressed file that contains itself, one a disk whose partition starts   *)
(* where the disk does, one has two volumes at the same offset.                *)
(***************************************************************************)
EXTENDS Detection, FormatRules

MCFormats == {"arc/gzip", "pt/mbr", "pt/gpt", "pt/ubi", "fs/ext", "fs/adfs", "fs/tar"}
MCContainers == {"arc/gzip", "pt/mbr", "pt/gpt", "pt/ubi"}
MCTransforms == {"arc/gzip"}
MCImages == {"quine", "disk", "circle", "volumes", "first", "second", "text"}

(* Bytes have 6 bits.  The sums of the four algorithms are right in "first",      *)
(* "second", "text" and "volumes".                                            *)
Bytes ==
    [i \in MCImages |->
        CASE i = "quine" -> <<31, 39, 8, 0>>
          [] i = "disk" -> <<1, 3, 21, 42, 5, 6, 9, 0>>
          [] i = "circle" -> <<0, 47, 19, 0, 0, 0, 21, 42>>
          [] i = "volumes" -> <<21, 2, 30, 0, 0, 0, 10, 1>>
          [] i = "first" -> <<1, 47, 19, 5, 7, 16>>
          [] i = "second" -> <<2, 47, 19, 5, 7, 58>>
          [] i = "text" -> <<17, 19, 16, 1, 18, 1>>]
File(i) == [step |-> Len(Bytes[i]) + 1, words |-> Bytes[i]]

Rule ==
    [f \in MCFormats |->
        CASE f = "arc/gzip" ->
                AllOf(<<Leaf(0, "string", <<31, 39>>), [Leaf(2, "byte", 8) EXCEPT !.op = "<="]>>)
          [] f = "pt/mbr" ->
                AnyOf(<<[Leaf(2, "le16", 2709) EXCEPT !.then = <<Leaf(0, "u8", 1)>>],
                        Leaf(-2, "be16", 1386)>>)
          [] f = "pt/gpt" -> AllOf(<<Leaf(4, "string", <<5, 6, 9>>)>>)
          [] f = "pt/ubi" ->
                AllOf(<<Leaf(0, "be32", 5515136),
                        [Leaf(6, "u8", 2) EXCEPT !.op = "&", !.mask = 3]>>)
          [] f = "fs/ext" -> AllOf(<<Leaf(1, "be16", 3027), [Leaf(0, "u8", 0) EXCEPT !.op = "!="]>>)
          [] f = "fs/adfs" ->
                AnyOf(<<[Leaf(0, "checksum", Absent) EXCEPT !.length = 6],
                        [Leaf(0, "checksum", Absent) EXCEPT !.algorithm = "powertec"],
                        [Leaf(0, "checksum", Absent) EXCEPT !.algorithm = "atari_boot"],
                        [Leaf(0, "checksum", Absent) EXCEPT !.algorithm = "ics", !.length = 8]>>)
          [] f = "fs/tar" ->
                AllOf(<<[Leaf(0, "ascii", {<<17, 19, 16, 1, 18>>}) EXCEPT !.length = 5],
                        [Leaf(0, "xor", Absent) EXCEPT
                            !.length = 2, !.key = <<1>>,
                            !.then = <<Leaf(0, "string", <<16, 18>>)>>]>>)]

MCMatched ==
    [i \in MCImages |->
        CASE i = "quine" -> {"arc/gzip"}
          [] i = "disk" -> {"pt/mbr", "pt/gpt"}
          [] i = "circle" -> {"pt/mbr"}
          [] i = "volumes" -> {"pt/ubi", "fs/adfs"}
          [] i \in {"first", "second"} -> {"fs/ext", "fs/adfs"}
          [] i = "text" -> {"fs/adfs", "fs/tar"}]

(* The images match the formats that their rules say. *)
ASSUME MatchedByRules ==
    \A i \in MCImages : MCMatched[i] = {f \in MCFormats : Matches(File(i), Rule[f])}

Child(index, offset, image) == [index |-> index, offset |-> offset, image |-> image]
Nowhere == 99       \* u64::MAX, the offset of what is no part of its parent
MCInside ==
    [i \in MCImages |-> [f \in MCContainers |->
        CASE i = "quine" /\ f = "arc/gzip" -> <<Child(0, Nowhere, "quine")>>
          [] i = "disk" /\ f = "pt/mbr" -> <<Child(0, 1, "first"), Child(1, 2, "quine"),
                                             Child(4, 1, "first")>>
          [] i = "disk" /\ f = "pt/gpt" -> <<Child(0, 1, "first"), Child(1, 3, "text")>>
          [] i = "circle" /\ f = "pt/mbr" -> <<Child(0, 0, "circle"), Child(1, 4, "second")>>
          [] i = "volumes" /\ f = "pt/ubi" -> <<Child(0, 0, "first"), Child(1, 0, "second")>>
          [] OTHER -> Error]]

MCCatalogues == {{"arc/gzip", "pt/mbr", "pt/gpt"}, {"pt/ubi", "fs/ext", "pt/mbr"}, {"fs/adfs", "fs/tar"}}
UbiCatalogue == {{"pt/ubi", "fs/ext"}}
=============================================================================
