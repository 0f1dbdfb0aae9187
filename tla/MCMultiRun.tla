----------------------------- MODULE MCMultiRun -----------------------------
(* Instances of MultiRun for TLC. *)
EXTENDS MultiRun, TLC

Symmetry == Permutations(Runs) \cup Permutations(Handlers) \cup Permutations(Users)

\* A bound of run batch_ops: something is deleted only while multi-run is on and no
\* stop has failed.
DeletedAlone ==
    (~exp.enabled \/ faults > 0) => ~exp.removed /\ \A r \in Runs : ~run[r].removed
=============================================================================
