--------------------------- MODULE MCNodeDiscovery ---------------------------
EXTENDS NodeDiscovery

\* Goroutines are interchangeable; nodes are not, their IDs are ordered.
Symmetry == Permutations(Calls)
=============================================================================
