----------------------------- MODULE MCServing -----------------------------
(* Serving on a few threads, for TLC. *)
EXTENDS Serving, TLC

Symmetry == Permutations(Threads) \cup Permutations(RuleIndexes)
=============================================================================
