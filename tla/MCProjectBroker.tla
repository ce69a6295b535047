--------------------------- MODULE MCProjectBroker ---------------------------
EXTENDS ProjectBroker, TLC

\* The bodies choose among Projects and Locks, and treat everything else alike.
BrokerSymmetry == Permutations(Callers) \cup Permutations(Roots) \cup Permutations(Hashes)
=============================================================================
