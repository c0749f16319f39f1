--------------------------- MODULE MC_DeltaTable ---------------------------
(* Instances of DeltaTable for model checking.                             *)
EXTENDS DeltaTable, TLC

Symmetry == Permutations(Files) \cup Permutations(Writers)
=============================================================================
