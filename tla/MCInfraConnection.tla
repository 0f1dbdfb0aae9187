------------------------- MODULE MCInfraConnection -------------------------
(* Instances of InfraConnection for TLC. *)
EXTENDS InfraConnection, TLC

Symmetric == Permutations(Conns) \cup Permutations(Infras)
=============================================================================
