---------------------------- MODULE MCAuthService ----------------------------
(* Requests and usernames are interchangeable.                             *)
EXTENDS AuthService

Symmetry == Permutations(Requests) \cup Permutations(Names)

=============================================================================
