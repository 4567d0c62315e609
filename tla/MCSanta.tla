------------------------------- MODULE MCSanta -------------------------------
(***************************************************************************)
(* Santa with the symmetry of its elves and of its reindeer, for TLC.       *)
(***************************************************************************)
EXTENDS Santa, TLC

Symmetry == Permutations(Elves) \cup Permutations(Reindeer)
=============================================================================
