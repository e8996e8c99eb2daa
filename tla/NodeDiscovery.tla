---------------------------- MODULE NodeDiscovery ----------------------------
(***************************************************************************)
(* How the coordinator finds participants: the nodes table, the services   *)
(* that pass their health check in Consul, Discovery.DiscoverNodes over    *)
(* both, and its three users: CreateDKGSession, ThresholdSign and the gRPC *)
(* client's getOrCreateConnection with its map of connections.             *)
(*                                                                         *)
(* All nodes here are participants, and active: nothing calls              *)
(* UpdateNodeStatus or UpdateHeartbeat.                                    *)
(***************************************************************************)
EXTENDS Naturals, Sequences, SequencesExt

CONSTANTS
    Ids,          \* node IDs, as numbers: they are sorted
    Calls,        \* goroutines of the coordinator
    Jobs,         \* what they do: "dkg", "sign", "connect"
    Targets,      \* nodes they want connections to
    TotalNodes,   \* size of the group asked for
    Threshold,    \* number of signers asked for
    LookupLimit,  \* what getOrCreateConnection asks DiscoverNodes for
    ConsulFails   \* may Consul fail to answer?

ASSUME SizesAssumption ==
    /\ Ids \subseteq Nat \ {0} /\ IsFiniteSet(Ids)
    /\ Targets \subseteq Ids
    /\ Threshold \in Nat \ {0, 1} /\ TotalNodes \in Nat /\ Threshold <= TotalNodes
    /\ LookupLimit \in Nat \ {0}
    /\ ConsulFails \in BOOLEAN
    /\ Jobs \subseteq {"dkg", "sign", "connect"}

Lists == BoundedSeq(Ids, Cardinality(Ids))

VARIABLES
    rows,     \* nodes table, newest registration first
    healthy,  \* services that pass their check in Consul
    call,     \* what each goroutine is doing
    group,    \* participants of the DKG session, << >> before
    signers,  \* participants of the last signing session
    clients,  \* nodes in the client's map of connections
    opened    \* opened[n]: connections to n that were opened and not closed

vars == <<rows, healthy, call, group, signers, clients, opened>>

Idle == [job |-> "none", to |-> 0, limit |-> 0, db |-> << >>, result |-> << >>, state |-> "idle"]

Init ==
    /\ rows = << >> /\ healthy = {}
    /\ call = [c \in Calls |-> Idle]
    /\ group = << >> /\ signers = << >>
    /\ clients = {}
    /\ opened = [n \in Ids |-> 0]

-----------------------------------------------------------------------------
(* The nodes                                                               *)

\* Fault: a node can be stored twice.
RegisterAgain(n) ==
    /\ Len(rows) <= Cardinality(Ids)
    /\ rows' = <<n>> \o rows
    /\ UNCHANGED <<healthy, call, group, signers, clients, opened>>

\* The HTTP handler stores a node under an ID nobody has.
RegisterParticipant(n) ==
    /\ ~ Contains(rows, n)
    /\ rows' = <<n>> \o rows
    /\ UNCHANGED <<healthy, call, group, signers, clients, opened>>

\* A participant starts and registers itself, or its check fails, or it stops.
RegisterNode(n) ==
    /\ n \notin healthy
    /\ healthy' = healthy \cup {n}
    /\ UNCHANGED <<rows, call, group, signers, clients, opened>>

DeregisterNode(n) ==
    /\ n \in healthy
    /\ healthy' = healthy \ {n}
    /\ UNCHANGED <<rows, call, group, signers, clients, opened>>

-----------------------------------------------------------------------------
(* DiscoverNodes                                                           *)

Begin(c, job, limit) ==
    /\ call[c] = Idle
    /\ call' = [call EXCEPT ![c] = [Idle EXCEPT !.job = job, !.limit = limit, !.state = "list"]]
    /\ UNCHANGED <<rows, healthy, group, signers, clients, opened>>

Found(c, nodes) ==
    call' = [call EXCEPT ![c].result = nodes, ![c].db = << >>, ![c].state = "found"]

\* Enough rows are the answer; otherwise Consul is asked.
ListNodes(c) ==
    LET db == SubSeq(rows, 1, IF Len(rows) < call[c].limit THEN Len(rows) ELSE call[c].limit) IN
    /\ call[c].state = "list"
    /\ IF Len(db) >= call[c].limit
       THEN Found(c, db)
       ELSE call' = [call EXCEPT ![c].db = db, ![c].state = "consul"]
    /\ UNCHANGED <<rows, healthy, group, signers, clients, opened>>

\* Fault: the two lists are joined without looking for duplicates.
MergeAll(db, services) == {db \o s : s \in SetToSeqs(services)}

\* Both lists go through a map, which drops duplicates and the order.
Merge(db, services) == SetToSeqs(Range(db) \cup services)

\* DiscoverParticipants answers with an error when Consul does, and when there are
\* fewer services than asked for, and DiscoverNodes then settles for the rows;
\* otherwise with that many services.  The merged list is not cut to the limit.
DiscoverParticipants(c) ==
    /\ call[c].state = "consul"
    /\ \/ /\ Cardinality(healthy) < call[c].limit \/ ConsulFails
          /\ Found(c, call[c].db)
       \/ \E services \in SUBSET healthy :
             /\ Cardinality(services) = call[c].limit
             /\ \E nodes \in Merge(call[c].db, services) : Found(c, nodes)
    /\ UNCHANGED <<rows, healthy, group, signers, clients, opened>>

-----------------------------------------------------------------------------
(* Its users                                                               *)

Finish(c) == call' = [call EXCEPT ![c] = Idle]

\* The list in the order of the IDs.
Sorted(nodes) ==
    {s \in {[i \in DOMAIN nodes |-> nodes[p[i]]] : p \in Injection(DOMAIN nodes, DOMAIN nodes)} :
       \A i, j \in DOMAIN nodes : i < j => s[i] <= s[j]}

\* All nodes found take part, if they are enough, in the order of their IDs.  A
\* second session for the key is refused (CreateKeyGenSession).
CreateDKGSession(c) ==
    /\ call[c].job = "dkg" /\ call[c].state = "found"
    /\ IF group # << >> \/ Len(call[c].result) < TotalNodes THEN UNCHANGED group
                ELSE group' \in Sorted(call[c].result)
    /\ Finish(c)
    /\ UNCHANGED <<rows, healthy, signers, clients, opened>>

\* The first ones of the nodes found sign.
ThresholdSign(c) ==
    /\ call[c].job = "sign" /\ call[c].state = "found"
    /\ signers' = IF Len(call[c].result) < Threshold THEN signers
                  ELSE SubSeq(call[c].result, 1, Threshold)
    /\ Finish(c)
    /\ UNCHANGED <<rows, healthy, group, clients, opened>>

\* The first look at the map finds nothing; GetNode does, or DiscoverNodes is asked.
GetOrCreateConnection(c, n) ==
    /\ call[c] = Idle
    /\ n \notin clients
    /\ call' = [call EXCEPT ![c] = [Idle EXCEPT
                   !.job = "connect", !.to = n, !.limit = LookupLimit,
                   !.state = IF Contains(rows, n) THEN "dial" ELSE "list"]]
    /\ UNCHANGED <<rows, healthy, group, signers, clients, opened>>

LookUp(c) ==
    /\ call[c].job = "connect" /\ call[c].state = "found"
    /\ call' = [call EXCEPT ![c].result = << >>,
                            ![c].state = IF Contains(call[c].result, call[c].to) THEN "dial"
                                                                                 ELSE "unknown"]
    /\ UNCHANGED <<rows, healthy, group, signers, clients, opened>>

\* The caller gets an error.
NotFound(c) ==
    /\ call[c].state = "unknown"
    /\ Finish(c)
    /\ UNCHANGED <<rows, healthy, group, signers, clients, opened>>

\* Fault: the map is not looked at again under the lock.
DialUnchecked(c) ==
    /\ call[c].state = "dial"
    /\ clients' = clients \cup {call[c].to}
    /\ opened' = [opened EXCEPT ![call[c].to] = @ + 1]
    /\ Finish(c)
    /\ UNCHANGED <<rows, healthy, group, signers>>

\* Under the lock: a second look at the map, and a new connection.
Dial(c) ==
    /\ call[c].state = "dial"
    /\ IF call[c].to \in clients
       THEN UNCHANGED <<clients, opened>>
       ELSE /\ clients' = clients \cup {call[c].to}
            /\ opened' = [opened EXCEPT ![call[c].to] = @ + 1]
    /\ Finish(c)
    /\ UNCHANGED <<rows, healthy, group, signers>>

-----------------------------------------------------------------------------
Next ==
    \/ \E n \in Ids : RegisterParticipant(n) \/ RegisterNode(n) \/ DeregisterNode(n)
    \/ \E c \in Calls :
          \/ "dkg" \in Jobs /\ group = << >> /\ Begin(c, "dkg", TotalNodes)
          \/ "sign" \in Jobs /\ group # << >> /\ Begin(c, "sign", Threshold)
          \/ ListNodes(c)
          \/ DiscoverParticipants(c)
          \/ CreateDKGSession(c)
          \/ ThresholdSign(c)
          \/ "connect" \in Jobs /\ \E n \in Targets : GetOrCreateConnection(c, n)
          \/ LookUp(c)
          \/ NotFound(c)
          \/ Dial(c)

Spec == Init /\ [][Next]_vars

-----------------------------------------------------------------------------
(* Properties                                                              *)

TypeOK ==
    /\ rows \in Lists
    /\ healthy \subseteq Ids
    /\ call \in [Calls -> [job : {"none", "dkg", "sign", "connect"}, to : Ids \cup {0},
                           limit : {0, TotalNodes, Threshold, LookupLimit},
                           db : Lists, result : Lists,
                           state : {"idle", "list", "consul", "found", "dial", "unknown"}]]
    /\ group \in Lists /\ signers \in Lists
    /\ clients \subseteq Ids
    /\ opened \in [Ids -> Nat]

\* The lists of participants that sessions get name no node twice, although a node
\* can be in the table and in Consul: SessionManager and KeyGeneration start from this.
DistinctParticipants == IsInjective(group) /\ IsInjective(signers)

\* Every open connection is the one in the map, so that Close reaches it: two
\* goroutines that look for the same node do not both keep one.
NoStrayConnection ==
    \A n \in Ids : opened[n] = IF n \in clients THEN 1 ELSE 0

\* gg18.go:386-388: a DKG has as many participants as were asked for.
GroupHasTotalNodes == group # << >> => Len(group) = TotalNodes

\* docs/mpc-detailed-design.md:649-660: each signer gets its share of the key from its
\* storage, so it has been in the group.
SignersHoldShares == Range(signers) \subseteq Range(group)

\* client.go:94-98: too few nodes are no reason not to find one of them.  A node that
\* Consul lists when it is asked, and answers, is found.
HealthyNodeIsFound ==
    [][\A c \in Calls : DiscoverParticipants(c) /\ call[c].to \in healthy
                           => Contains(call'[c].result, call[c].to)]_vars
=============================================================================
