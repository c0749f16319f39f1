--------------------------- MODULE MC_SyncEngine ---------------------------
(* Instances of SyncEngine for model checking.                             *)
EXTENDS SyncEngine, TLC

Symmetry == Permutations(Objects)
=============================================================================
