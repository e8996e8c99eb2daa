------------------------------- MODULE PartyIDs -------------------------------
(***************************************************************************)
(* The PartyID objects of a node's tssPartyManager.  There is one for each *)
(* node ever seen; all key generations and signings of the node share it.  *)
(* A run sorts the objects of its group, and sorting writes each object's  *)
(* Index, which tss-lib reads for as long as the run lasts.                *)
(*                                                                         *)
(* Nodes are numbers in the order of their keys (hashes of their IDs).     *)
(***************************************************************************)
EXTENDS Integers, FiniteSets, Sequences, SequencesExt

CONSTANTS
    Nodes,
    Runs,
    nodeIDs  \* nodeIDs[r]: the nodes of run r, in the order of the request

ASSUME PartyAssumption ==
    /\ Nodes \subseteq Nat
    /\ DOMAIN nodeIDs = Runs
    /\ \A r \in Runs : nodeIDs[r] \in Seq(Nodes) /\ IsInjective(nodeIDs[r])

\* tss.NewPartyID.
Unset == -1

VARIABLES
    known,   \* nodes with an entry in nodeIDToPartyID
    Index,   \* Index[n] of the object of node n
    run,     \* run[r]: state, and how many of its objects SortPartyIDs has written
    met      \* history: the runs under way at some time since run r was set up

vars == <<known, Index, run, met>>

Init ==
    /\ known = {}
    /\ Index = [n \in Nodes |-> Unset]
    /\ run = [r \in Runs |-> [state |-> "new", sorted |-> 0]]
    /\ met = [r \in Runs |-> {}]

Group(r) == Range(nodeIDs[r])

\* The position of n among the keys of r's group.
Rank(r, n) == Cardinality({m \in Group(r) : m < n})

\* The runs between setupPartyIDs and their end.
UnderWay == {r \in Runs : run[r].state # "new"}

\* setupPartyIDs: new objects for unseen nodes only.
setupPartyIDs(r) ==
    /\ run[r].state = "new"
    /\ known' = known \cup Group(r)
    /\ run' = [run EXCEPT ![r].state = "sorting"]
    /\ met' = [s \in Runs |-> CASE s = r -> UnderWay
                              [] s \in UnderWay -> met[s] \cup {r}
                              [] OTHER -> met[s]]
    /\ UNCHANGED Index

\* Fault: the objects are numbered in the order of the request.
AssignUnsorted(r) ==
    /\ run[r].state = "sorting" /\ run[r].sorted < Len(nodeIDs[r])
    /\ Index' = [Index EXCEPT ![nodeIDs[r][run[r].sorted + 1]] = run[r].sorted]
    /\ run' = [run EXCEPT ![r].sorted = @ + 1]
    /\ UNCHANGED <<known, met>>

\* getPartyIDs: tss.SortPartyIDs writes one Index after the other, under a lock
\* that readers share.
getPartyIDs(r) ==
    /\ run[r].state = "sorting" /\ run[r].sorted < Len(nodeIDs[r])
    /\ \E n \in Group(r) \cap known :
         /\ Rank(r, n) = run[r].sorted
         /\ Index' = [Index EXCEPT ![n] = Rank(r, n)]
    /\ run' = [run EXCEPT ![r].sorted = @ + 1]
    /\ UNCHANGED <<known, met>>

\* NewParameters and NewLocalParty keep pointers to the objects.
StartParty(r) ==
    /\ run[r].state = "sorting" /\ run[r].sorted = Len(nodeIDs[r])
    /\ run' = [run EXCEPT ![r].state = "running"]
    /\ UNCHANGED <<known, Index, met>>

\* The run ends; the objects stay in the map for the next one.
EndParty(r) ==
    /\ run[r].state = "running"
    /\ run' = [run EXCEPT ![r] = [state |-> "new", sorted |-> 0]]
    /\ UNCHANGED <<known, Index, met>>

Next ==
    \E r \in Runs : setupPartyIDs(r) \/ getPartyIDs(r) \/ StartParty(r) \/ EndParty(r)

Spec == Init /\ [][Next]_vars

-----------------------------------------------------------------------------
(* Properties                                                              *)

\* Two runs give the parties they have in common the same indexes.
Agree(q, r) == \A n \in Group(q) \cap Group(r) : Rank(q, n) = Rank(r, n)

RightIndexes(r) == \A n \in Group(r) : Index[n] = Rank(r, n)

\* While a run lasts, each of its parties has the Index of its place in the run's
\* group (getPartyIDs), unless a run that numbers a party of it otherwise was under
\* way at the same time: what runs left behind before its setupPartyIDs does no harm,
\* and neither does an overlapping run that agrees, however the writes interleave.
IndexesHold ==
    \A r \in Runs :
        run[r].state = "running" /\ (\A s \in met[r] : Agree(r, s)) => RightIndexes(r)

\* The same whatever runs overlap: getPartyIDs sorts the shared objects again under
\* the runs that use them.
IndexesNeverMove == \A r \in Runs : run[r].state = "running" => RightIndexes(r)

=============================================================================
