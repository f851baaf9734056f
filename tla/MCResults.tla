----------------------------- MODULE MCResults -----------------------------
(* One worker, three rulesets: see MCResults.cfg. *)
EXTENDS Results, TLC

\* The rulesets are interchangeable.
Symmetry == Permutations(Rulesets)
=============================================================================
