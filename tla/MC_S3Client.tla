---------------------------- MODULE MC_S3Client ----------------------------
(* Instances of S3Client, and of the breaker in it, for model checking.    *)
EXTENDS S3Client, TLC

Symmetry == Permutations(Callers)
=============================================================================
