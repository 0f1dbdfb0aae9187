--------------------- MODULE MCSubscriberEvents ---------------------
EXTENDS SubscriberEvents, TLC

Symmetric == Permutations(Workflows) \cup Permutations(Faults)
=============================================================================
