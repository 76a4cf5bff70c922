-------------------------- MODULE MCWorktreeMerge --------------------------
(***************************************************************************)
(* Instances of WorktreeMerge for TLC.                                     *)
(***************************************************************************)
EXTENDS WorktreeMerge, TLC

CONSTANTS w1, c1, c2, m1, m2

Interchangeable == Permutations(Merges)
=============================================================================
