--------------------------- MODULE MCSourceExport ---------------------------
(* SourceExport on a checkout of two files, each with two possible contents. *)
EXTENDS SourceExport

CONSTANTS e1, e2, c1, c2

MCEntries == {e1, e2}
MCContents == {c1, c2}
=============================================================================
