------------------------- MODULE MCKeyShareStorage -------------------------
EXTENDS KeyShareStorage, TLC

\* Calls are interchangeable, and so are plaintexts.
Symmetry == Permutations(Calls) \cup Permutations(Values)
=============================================================================
