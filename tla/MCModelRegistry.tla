--------------------------- MODULE MCModelRegistry ---------------------------
(* Instances of ModelRegistry for TLC. *)
EXTENDS ModelRegistry, TLC

Symmetry == Permutations(Models) \cup Permutations(Callers) \cup Permutations(Runners)
=============================================================================
