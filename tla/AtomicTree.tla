----------------------------- MODULE AtomicTree -----------------------------
(***************************************************************************)
(* What an exported source tree promises to the processes that read it: at *)
(* every moment there is at most one tree, it is complete, and it changes   *)
(* only by being replaced as a whole.  SourceExport implements it with      *)
(* renames, a backup directory and a recovery step.                         *)
(***************************************************************************)
CONSTANTS
    Complete,   \* the trees an export may publish
    None        \* no tree has been published

VARIABLE
    tree        \* the tree a reader finds, or will find after recovery

Init == tree = None

(* One export: the whole tree is replaced by another whole tree. *)
Publish == tree' \in Complete

Spec == Init /\ [][Publish]_tree
=============================================================================
