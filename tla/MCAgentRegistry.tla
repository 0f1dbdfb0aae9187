--------------------------- MODULE MCAgentRegistry ---------------------------
(* Instances of AgentRegistry for TLC. *)
EXTENDS AgentRegistry, TLC

Symmetric == Permutations(Calls) \cup Permutations(Ids)
=============================================================================
