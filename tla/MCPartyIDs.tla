------------------------------ MODULE MCPartyIDs ------------------------------
(* A key generation of all nodes, and signings of the same group, of one   *)
(* that agrees with it on the indexes, and of one that does not.           *)
EXTENDS PartyIDs

Groups == << <<1, 2, 3>>, <<3, 1, 2>>, <<2, 1>>, <<3, 2>> >>

=============================================================================
