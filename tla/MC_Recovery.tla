---------------------------- MODULE MC_Recovery ----------------------------
(* Instances of Recovery for model checking.                               *)
EXTENDS Recovery, TLC

Symmetry == Permutations(Objects)
=============================================================================
