-------------------------- MODULE MCBuildDirectory --------------------------
(* BuildDirectory with two processes, two providers and two input hashes. *)
EXTENDS BuildDirectory, TLC

CONSTANTS p1, p2, i1, i2, h1, h2

MCProcesses == {p1, p2}
MCInstances == {i1, i2}
MCHashes == {h1, h2}
OneInstance == {i1}

MCSymmetry ==
    Permutations(MCProcesses) \cup Permutations(MCInstances) \cup Permutations(MCHashes)
=============================================================================
