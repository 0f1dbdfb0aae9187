--------------------------- MODULE MCCertification ---------------------------
(* Instances of Certification for TLC. *)
EXTENDS Certification, TLC

Symmetry == Permutations(Pipelines)
=============================================================================
