------------------------------ MODULE MCEngine ------------------------------
(* Engine on a few threads, for TLC. *)
EXTENDS Engine, TLC

Symmetry == Permutations(Threads)
=============================================================================
