---------------------------- MODULE KeyAgreement ----------------------------
(***************************************************************************)
(* What a distributed key generation promises: there is at most one key.   *)
(* Each node stores data of that key once and for good, and the key is     *)
(* published once, when some node has stored its data.                     *)
(***************************************************************************)
CONSTANTS
    Nodes,     \* the participants
    Keys,      \* keys that may come out
    None       \* no key yet

VARIABLES
    stored,    \* stored[n]: key whose data node n has on disk
    published  \* public key of the Active key

vars == <<stored, published>>

Init ==
    /\ stored = [n \in Nodes |-> None]
    /\ published = None

Store(n, k) ==
    /\ stored[n] = None
    /\ \A m \in Nodes : stored[m] \in {None, k}
    /\ stored' = [stored EXCEPT ![n] = k]
    /\ UNCHANGED published

Publish(n) ==
    /\ published = None
    /\ stored[n] # None
    /\ published' = stored[n]
    /\ UNCHANGED stored

Next == \E n \in Nodes : Publish(n) \/ \E k \in Keys : Store(n, k)

Spec == Init /\ [][Next]_vars
=============================================================================
