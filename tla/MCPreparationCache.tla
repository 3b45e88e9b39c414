--------------------------- MODULE MCPreparationCache ---------------------------
(* Model-checking instances of PreparationCache.  Threads and heap identities   *)
(* are interchangeable: no definition distinguishes them.                       *)
EXTENDS PreparationCache, TLC

Symmetry == Permutations(Threads) \cup Permutations(Slots)
================================================================================
