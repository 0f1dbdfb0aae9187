---------------------------- MODULE MCRunRecord ----------------------------
(* Instances of RunRecord for TLC. *)
EXTENDS RunRecord, TLC

Symmetry == Permutations(ServerRuns) \cup Permutations(ClusterRuns) \cup Permutations(Starters)
            \cup Permutations(Handlers) \cup Permutations(Closers)
=============================================================================
