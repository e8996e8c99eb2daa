-------------------------- MODULE MCSessionManager --------------------------
(* Instances of SessionManager for TLC.                                     *)
EXTENDS SessionManager, TLC

CONSTANTS n1, n2

\* Discovery returns one list here; joins make longer ones and other orders.
MCNodeLists == {<<n1>>}

Symmetry == Permutations(Clients)
=============================================================================
