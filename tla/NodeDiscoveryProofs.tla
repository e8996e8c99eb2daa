------------------------- MODULE NodeDiscoveryProofs -------------------------
(***************************************************************************)
(* What holds of discovery and of the client's connections for any number  *)
(* of nodes and goroutines.                                                *)
(***************************************************************************)
EXTENDS NodeDiscovery, FiniteSetTheorems, TLAPS

\* Lists that name no node twice.
Distinct == {s \in Seq(Ids) : IsInjective(s)}

CallRecord ==
    [job : {"none", "dkg", "sign", "connect"}, to : Ids \cup {0},
     limit : {0, TotalNodes, Threshold, LookupLimit},
     db : Distinct, result : Distinct,
     state : {"idle", "list", "consul", "found", "dial", "unknown"}]

\* The table, and every list a goroutine has in its hands, names no node twice.
ListsDistinct ==
    /\ rows \in Distinct /\ healthy \subseteq Ids
    /\ call \in [Calls -> CallRecord]
    /\ group \in Distinct /\ signers \in Distinct

\* The empty list, a prefix and a list with one node more.
LEMMA EmptyDistinct == << >> \in Distinct
  BY DEF Distinct, IsInjective

LEMMA PrefixDistinct ==
    ASSUME NEW s \in Distinct, NEW n \in Nat, n <= Len(s)
    PROVE  SubSeq(s, 1, n) \in Distinct
<1>1. s \in Seq(Ids) /\ IsInjective(s)
  BY DEF Distinct
<1> DEFINE t == SubSeq(s, 1, n)
<1>2. t \in Seq(Ids) /\ DOMAIN t = 1..n
  BY <1>1
<1>3. \A i \in 1..n : t[i] = s[i] /\ i \in DOMAIN s
  BY <1>1
<1> HIDE DEF t
<1>4. IsInjective(t)
  BY <1>1, <1>2, <1>3 DEF IsInjective
<1> QED
  BY <1>2, <1>4 DEF Distinct, t

LEMMA PrependDistinct ==
    ASSUME NEW s \in Distinct, NEW n \in Ids, ~ Contains(s, n)
    PROVE  <<n>> \o s \in Distinct
<1>1. s \in Seq(Ids) /\ IsInjective(s) /\ \A i \in 1..Len(s) : s[i] # n
  BY DEF Distinct, Contains
<1> DEFINE t == <<n>> \o s
<1>2. t \in Seq(Ids) /\ DOMAIN t = 1..(Len(s) + 1)
  BY <1>1
<1>3. t[1] = n /\ \A i \in 2..(Len(s) + 1) : t[i] = s[i - 1] /\ i - 1 \in DOMAIN s
  BY <1>1
<1> HIDE DEF t
<1>4. ASSUME NEW i \in DOMAIN t, NEW j \in DOMAIN t, t[i] = t[j]
      PROVE  i = j
  <2>1. CASE i = 1 /\ j = 1
    BY <2>1
  <2>2. CASE i = 1 /\ j # 1
    BY <1>1, <1>2, <1>3, <1>4, <2>2
  <2>3. CASE i # 1 /\ j = 1
    BY <1>1, <1>2, <1>3, <1>4, <2>3
  <2>4. CASE i # 1 /\ j # 1
    BY <1>1, <1>2, <1>3, <1>4, <2>4 DEF IsInjective
  <2> QED
    BY <2>1, <2>2, <2>3, <2>4
<1>5. IsInjective(t)
  BY <1>4 DEF IsInjective
<1> QED
  BY <1>2, <1>5 DEF Distinct, t

\* A list that went through the map: DiscoverNodes drops duplicates.
LEMMA MergeDistinct ==
    ASSUME NEW db \in Distinct, NEW services \in SUBSET Ids, NEW nodes \in Merge(db, services)
    PROVE  nodes \in Distinct
<1> DEFINE S == Range(db) \cup services
<1>1. S \subseteq Ids
  BY DEF Distinct, Range
<1>2. Cardinality(S) \in Nat
  BY <1>1, SizesAssumption, FS_Subset, FS_CardinalityType
<1> HIDE DEF S
<1>3. nodes \in [1..Cardinality(S) -> S]
      /\ \A i, j \in 1..Cardinality(S) : i # j => nodes[i] # nodes[j]
  BY DEF Merge, SetToSeqs, S
<1>4. nodes \in Seq(Ids)
  BY <1>1, <1>2, <1>3
<1> QED
  BY <1>3, <1>4 DEF Distinct, IsInjective

LEMMA SortedDistinct ==
    ASSUME NEW s \in Distinct, NEW t \in Sorted(s)
    PROVE  t \in Distinct
<1>1. s \in Seq(Ids) /\ IsInjective(s) /\ DOMAIN s = 1..Len(s) /\ Len(s) \in Nat
  BY DEF Distinct
<1>2. PICK p \in Injection(DOMAIN s, DOMAIN s) : t = [i \in DOMAIN s |-> s[p[i]]]
  BY DEF Sorted
<1>3. p \in [DOMAIN s -> DOMAIN s] /\ \A i, j \in DOMAIN s : p[i] = p[j] => i = j
  BY <1>2 DEF Injection, IsInjective
<1>4. t \in [1..Len(s) -> Ids]
  BY <1>1, <1>2, <1>3
<1>5. t \in Seq(Ids)
  BY <1>1, <1>4
<1>6. ASSUME NEW i \in DOMAIN t, NEW j \in DOMAIN t, t[i] = t[j] PROVE i = j
  BY <1>1, <1>2, <1>3, <1>6 DEF IsInjective
<1> QED
  BY <1>5, <1>6 DEF Distinct, IsInjective

-----------------------------------------------------------------------------
(* One step per action                                                     *)

LEMMA IdleRecord == Idle \in CallRecord
  BY EmptyDistinct DEF Idle, CallRecord

LEMMA NodesStep ==
    ASSUME ListsDistinct, NEW n \in Ids,
           RegisterParticipant(n) \/ RegisterNode(n) \/ DeregisterNode(n)
    PROVE  ListsDistinct'
<1>1. CASE RegisterParticipant(n)
  BY <1>1, PrependDistinct DEF RegisterParticipant, ListsDistinct
<1>2. CASE RegisterNode(n) \/ DeregisterNode(n)
  BY <1>2 DEF RegisterNode, DeregisterNode, ListsDistinct
<1> QED
  BY <1>1, <1>2

LEMMA BeginStep ==
    ASSUME ListsDistinct, NEW c \in Calls, NEW job \in {"dkg", "sign"},
           NEW limit \in {TotalNodes, Threshold}, Begin(c, job, limit)
    PROVE  ListsDistinct'
<1> DEFINE r == [Idle EXCEPT !.job = job, !.limit = limit, !.state = "list"]
<1>1. r \in CallRecord
  BY EmptyDistinct DEF Idle, CallRecord
<1>2. call' = [call EXCEPT ![c] = r]
  BY DEF Begin
<1> HIDE DEF r
<1>3. call' \in [Calls -> CallRecord]
  BY <1>1, <1>2 DEF ListsDistinct
<1> QED
  BY <1>3 DEF Begin, ListsDistinct

LEMMA FoundRecord ==
    ASSUME ListsDistinct, NEW c \in Calls, NEW nodes \in Distinct, Found(c, nodes)
    PROVE  call' \in [Calls -> CallRecord]
<1> DEFINE r == [call[c] EXCEPT !.result = nodes, !.db = << >>, !.state = "found"]
<1>1. call \in [Calls -> CallRecord]
  BY DEF ListsDistinct
<1>2. r \in CallRecord
  BY <1>1, EmptyDistinct DEF CallRecord
<1>3. call' = [call EXCEPT ![c] = r]
  BY <1>1 DEF Found
<1> HIDE DEF r
<1> QED
  BY <1>1, <1>2, <1>3

\* What the database answers.
LEMMA ListedDistinct ==
    ASSUME ListsDistinct, NEW c \in Calls
    PROVE  SubSeq(rows, 1, IF Len(rows) < call[c].limit THEN Len(rows) ELSE call[c].limit)
              \in Distinct
<1> DEFINE n  == IF Len(rows) < call[c].limit THEN Len(rows) ELSE call[c].limit
<1>1. rows \in Seq(Ids) /\ call[c].limit \in Nat
  <2>1. call[c].limit \in {0, TotalNodes, Threshold, LookupLimit}
    BY DEF ListsDistinct, CallRecord
  <2>2. rows \in Seq(Ids)
    BY DEF ListsDistinct, Distinct
  <2> QED
    BY <2>1, <2>2, SizesAssumption
<1>2. n \in Nat /\ n <= Len(rows)
  BY <1>1
<1> QED
  BY <1>2, PrefixDistinct DEF ListsDistinct

LEMMA ListNodesStep ==
    ASSUME ListsDistinct, NEW c \in Calls, ListNodes(c)
    PROVE  ListsDistinct'
<1>1. PICK db \in Distinct :
         Found(c, db) \/ call' = [call EXCEPT ![c].db = db, ![c].state = "consul"]
  BY ListedDistinct DEF ListNodes
<1>2. CASE Found(c, db)
  BY <1>1, <1>2, FoundRecord DEF ListNodes, ListsDistinct
<1>3. CASE call' = [call EXCEPT ![c].db = db, ![c].state = "consul"]
  <2> DEFINE r == [call[c] EXCEPT !.db = db, !.state = "consul"]
  <2>1. call[c] \in CallRecord
    BY DEF ListsDistinct
  <2>2. r \in CallRecord
    BY <1>1, <2>1 DEF CallRecord
  <2>3. call' = [call EXCEPT ![c] = r]
    BY <1>3, <2>1 DEF ListsDistinct
  <2> HIDE DEF r
  <2>4. call' \in [Calls -> CallRecord]
    BY <2>2, <2>3 DEF ListsDistinct
  <2> QED
    BY <2>4 DEF ListNodes, ListsDistinct
<1> QED
  BY <1>1, <1>2, <1>3

LEMMA DiscoverParticipantsStep ==
    ASSUME ListsDistinct, NEW c \in Calls, DiscoverParticipants(c)
    PROVE  ListsDistinct'
<1>1. call[c].db \in Distinct /\ healthy \subseteq Ids
  BY DEF ListsDistinct, CallRecord
<1>2. PICK nodes \in Distinct : Found(c, nodes)
  BY <1>1, MergeDistinct DEF DiscoverParticipants
<1> QED
  BY <1>2, FoundRecord DEF DiscoverParticipants, ListsDistinct

LEMMA FinishRecord ==
    ASSUME ListsDistinct, NEW c \in Calls, Finish(c)
    PROVE  call' \in [Calls -> CallRecord]
  BY IdleRecord DEF Finish, ListsDistinct

LEMMA CreateDKGSessionStep ==
    ASSUME ListsDistinct, NEW c \in Calls, CreateDKGSession(c)
    PROVE  ListsDistinct'
<1>1. call[c].result \in Distinct
  BY DEF ListsDistinct, CallRecord
<1>2. group' \in Distinct
  BY <1>1, SortedDistinct DEF CreateDKGSession, ListsDistinct
<1> QED
  BY <1>2, FinishRecord DEF CreateDKGSession, ListsDistinct

LEMMA ThresholdSignStep ==
    ASSUME ListsDistinct, NEW c \in Calls, ThresholdSign(c)
    PROVE  ListsDistinct'
<1>1. call[c].result \in Distinct /\ Len(call[c].result) \in Nat
  BY DEF ListsDistinct, CallRecord, Distinct
<1>2. signers' \in Distinct
  BY <1>1, PrefixDistinct, SizesAssumption DEF ThresholdSign, ListsDistinct
<1> QED
  BY <1>2, FinishRecord DEF ThresholdSign, ListsDistinct

LEMMA ConnectStep ==
    ASSUME ListsDistinct, NEW c \in Calls,
           \/ \E n \in Targets : GetOrCreateConnection(c, n)
           \/ LookUp(c) \/ NotFound(c) \/ Dial(c)
    PROVE  ListsDistinct'
<1>1. ASSUME NEW n \in Targets, GetOrCreateConnection(c, n) PROVE ListsDistinct'
  <2> DEFINE r == [Idle EXCEPT !.job = "connect", !.to = n, !.limit = LookupLimit,
                               !.state = IF Contains(rows, n) THEN "dial" ELSE "list"]
  <2>1. n \in Ids
    BY SizesAssumption
  <2>2. r \in CallRecord
    BY <2>1, EmptyDistinct DEF Idle, CallRecord
  <2>3. call' = [call EXCEPT ![c] = r]
    BY <1>1 DEF GetOrCreateConnection
  <2> HIDE DEF r
  <2>4. call' \in [Calls -> CallRecord]
    BY <2>2, <2>3 DEF ListsDistinct
  <2> QED
    BY <1>1, <2>4 DEF GetOrCreateConnection, ListsDistinct
<1>2. CASE LookUp(c)
  <2> DEFINE st == IF Contains(call[c].result, call[c].to) THEN "dial" ELSE "unknown"
             r  == [call[c] EXCEPT !.result = << >>, !.state = st]
  <2>1. call[c] \in CallRecord /\ st \in {"dial", "unknown"}
    BY DEF ListsDistinct
  <2>2. call' = [call EXCEPT ![c] = r]
    BY <1>2, <2>1 DEF LookUp, ListsDistinct
  <2> HIDE DEF st
  <2>3. r \in CallRecord
    BY <2>1, EmptyDistinct DEF CallRecord
  <2> HIDE DEF r
  <2>4. call' \in [Calls -> CallRecord]
    BY <2>2, <2>3 DEF ListsDistinct
  <2> QED
    BY <1>2, <2>4 DEF LookUp, ListsDistinct
<1>3. CASE NotFound(c) \/ Dial(c)
  BY <1>3, FinishRecord DEF NotFound, Dial, ListsDistinct
<1> QED
  BY <1>1, <1>2, <1>3

LEMMA NextKeeps == ListsDistinct /\ [Next]_vars => ListsDistinct'
<1> SUFFICES ASSUME ListsDistinct, [Next]_vars PROVE ListsDistinct'
  OBVIOUS
<1>1. CASE UNCHANGED vars
  BY <1>1 DEF vars, ListsDistinct
<1>2. ASSUME NEW c \in Calls, Begin(c, "dkg", TotalNodes) \/ Begin(c, "sign", Threshold)
      PROVE  ListsDistinct'
  BY <1>2, BeginStep, SizesAssumption
<1> QED
  BY <1>1, <1>2, NodesStep, ListNodesStep, DiscoverParticipantsStep, CreateDKGSessionStep,
     ThresholdSignStep, ConnectStep DEF Next

\* Whatever rows and services a goroutine sees, and in whatever order they change
\* between its reads, no group of a DKG and no list of signers names a node twice.
THEOREM ParticipantsAreDistinct == Spec => []DistinctParticipants
<1>1. Init => ListsDistinct
  BY EmptyDistinct, IdleRecord DEF Init, ListsDistinct
<1>2. ListsDistinct => DistinctParticipants
  BY DEF ListsDistinct, Distinct, DistinctParticipants
<1> QED
  BY <1>1, <1>2, NextKeeps, PTL DEF Spec

-----------------------------------------------------------------------------
(* Types                                                                   *)

\* A list without duplicates is no longer than there are nodes.
LEMMA DistinctIsBounded ==
    ASSUME NEW s \in Distinct
    PROVE  s \in Lists
<1>1. s \in Seq(Ids) /\ IsInjective(s)
  BY DEF Distinct
<1>2. Len(s) \in Nat /\ s \in [1..Len(s) -> Ids] /\ DOMAIN s = 1..Len(s)
  BY <1>1
<1>3. s \in Injection(1..Len(s), Ids)
  BY <1>1, <1>2 DEF Injection, IsInjective
<1>4. Cardinality(1..Len(s)) <= Cardinality(Ids)
  BY <1>3, SizesAssumption, FS_Injection
<1>5. Cardinality(1..Len(s)) = Len(s)
  BY <1>2, FS_Interval
<1>6. Cardinality(Ids) \in Nat
  BY SizesAssumption, FS_CardinalityType
<1>7. Len(s) \in 0..Cardinality(Ids)
  BY <1>2, <1>4, <1>5, <1>6
<1> QED
  BY <1>2, <1>7 DEF Lists, BoundedSeq, SeqOf

\* A goroutine that looks for a node looks for one there can be.
DialsSomebody ==
    /\ clients \subseteq Ids
    /\ opened \in [Ids -> Nat]
    /\ \A c \in Calls : call[c].job = "connect" \/ call[c].state = "dial" => call[c].to \in Ids

LEMMA NextKeepsDials ==
    ASSUME ListsDistinct, DialsSomebody, [Next]_vars
    PROVE  DialsSomebody'
<1> USE DEF DialsSomebody
<1>0. call \in [Calls -> CallRecord]
  BY DEF ListsDistinct
<1>1. ASSUME NEW c \in Calls, NEW r \in CallRecord, call' = [call EXCEPT ![c] = r],
             r.job = "connect" \/ r.state = "dial" => r.to \in Ids,
             UNCHANGED <<clients, opened>>
      PROVE  DialsSomebody'
  BY <1>0, <1>1
<1>2. ASSUME NEW c \in Calls, NEW r \in CallRecord, call' = [call EXCEPT ![c] = r],
             r.job = call[c].job, r.to = call[c].to, r.state # "dial",
             UNCHANGED <<clients, opened>>
      PROVE  DialsSomebody'
  BY <1>0, <1>2
<1>3. ASSUME UNCHANGED <<call, clients, opened>> PROVE DialsSomebody'
  BY <1>3
<1>4. ASSUME NEW n \in Ids, RegisterParticipant(n) \/ RegisterNode(n) \/ DeregisterNode(n)
      PROVE  DialsSomebody'
  BY <1>3, <1>4 DEF RegisterParticipant, RegisterNode, DeregisterNode
<1>5. ASSUME NEW c \in Calls, NEW job \in {"dkg", "sign"},
             NEW limit \in {TotalNodes, Threshold}, Begin(c, job, limit)
      PROVE  DialsSomebody'
  <2> DEFINE r == [Idle EXCEPT !.job = job, !.limit = limit, !.state = "list"]
  <2>1. r \in CallRecord /\ r.job # "connect" /\ r.state # "dial"
    BY EmptyDistinct DEF Idle, CallRecord
  <2>2. call' = [call EXCEPT ![c] = r] /\ UNCHANGED <<clients, opened>>
    BY <1>5 DEF Begin
  <2> HIDE DEF r
  <2> QED
    BY <2>1, <2>2, <1>1
<1>6. ASSUME NEW c \in Calls, NEW nodes \in Distinct, Found(c, nodes), UNCHANGED <<clients, opened>>
      PROVE  DialsSomebody'
  <2> DEFINE r == [call[c] EXCEPT !.result = nodes, !.db = << >>, !.state = "found"]
  <2>1. r \in CallRecord /\ r.job = call[c].job /\ r.to = call[c].to /\ r.state # "dial"
    BY <1>0, EmptyDistinct DEF CallRecord
  <2>2. call' = [call EXCEPT ![c] = r]
    BY <1>0, <1>6 DEF Found
  <2> HIDE DEF r
  <2> QED
    BY <2>1, <2>2, <1>2, <1>6
<1>7. ASSUME NEW c \in Calls, ListNodes(c) PROVE DialsSomebody'
  <2>1. PICK db \in Distinct :
           Found(c, db) \/ call' = [call EXCEPT ![c].db = db, ![c].state = "consul"]
    BY <1>7, ListedDistinct DEF ListNodes
  <2>2. UNCHANGED <<clients, opened>>
    BY <1>7 DEF ListNodes
  <2>3. CASE call' = [call EXCEPT ![c].db = db, ![c].state = "consul"]
    <3> DEFINE r == [call[c] EXCEPT !.db = db, !.state = "consul"]
    <3>1. r \in CallRecord /\ r.job = call[c].job /\ r.to = call[c].to /\ r.state # "dial"
      BY <1>0 DEF CallRecord
    <3>2. call' = [call EXCEPT ![c] = r]
      BY <1>0, <2>3
    <3> HIDE DEF r
    <3> QED
      BY <3>1, <3>2, <2>2, <1>2
  <2> QED
    BY <2>1, <2>2, <2>3, <1>6
<1>8. ASSUME NEW c \in Calls, DiscoverParticipants(c) PROVE DialsSomebody'
  <2>1. call[c].db \in Distinct /\ healthy \subseteq Ids
    BY <1>0 DEF ListsDistinct, CallRecord
  <2>2. PICK nodes \in Distinct : Found(c, nodes)
    BY <1>8, <2>1, MergeDistinct DEF DiscoverParticipants
  <2> QED
    BY <1>8, <2>2, <1>6 DEF DiscoverParticipants
<1>9. ASSUME NEW c \in Calls, CreateDKGSession(c) \/ ThresholdSign(c) \/ NotFound(c)
      PROVE  DialsSomebody'
  <2>1. call' = [call EXCEPT ![c] = Idle] /\ UNCHANGED <<clients, opened>>
    BY <1>9 DEF CreateDKGSession, ThresholdSign, NotFound, Finish
  <2> QED
    BY <2>1, <1>1, IdleRecord DEF Idle
<1>10. ASSUME NEW c \in Calls, NEW n \in Targets, GetOrCreateConnection(c, n)
       PROVE  DialsSomebody'
  <2> DEFINE r == [Idle EXCEPT !.job = "connect", !.to = n, !.limit = LookupLimit,
                               !.state = IF Contains(rows, n) THEN "dial" ELSE "list"]
  <2>1. n \in Ids
    BY SizesAssumption
  <2>2. r \in CallRecord /\ r.to \in Ids
    BY <2>1, EmptyDistinct DEF Idle, CallRecord
  <2>3. call' = [call EXCEPT ![c] = r] /\ UNCHANGED <<clients, opened>>
    BY <1>10 DEF GetOrCreateConnection
  <2> HIDE DEF r
  <2> QED
    BY <2>2, <2>3, <1>1
<1>11. ASSUME NEW c \in Calls, LookUp(c) PROVE DialsSomebody'
  <2> DEFINE st == IF Contains(call[c].result, call[c].to) THEN "dial" ELSE "unknown"
             r  == [call[c] EXCEPT !.result = << >>, !.state = st]
  <2>1. st \in {"dial", "unknown"} /\ call[c].to \in Ids
    BY <1>11 DEF LookUp
  <2>2. call' = [call EXCEPT ![c] = r] /\ UNCHANGED <<clients, opened>>
    BY <1>0, <1>11 DEF LookUp
  <2> HIDE DEF st
  <2>3. r \in CallRecord /\ r.to \in Ids
    BY <1>0, <2>1, EmptyDistinct DEF CallRecord
  <2> HIDE DEF r
  <2> QED
    BY <2>2, <2>3, <1>1
<1>12. ASSUME NEW c \in Calls, Dial(c) PROVE DialsSomebody'
  <2>1. call' = [call EXCEPT ![c] = Idle] /\ call[c].to \in Ids
    BY <1>12 DEF Dial, Finish
  <2>2. clients' \subseteq Ids /\ opened' \in [Ids -> Nat]
    BY <1>12, <2>1 DEF Dial
  <2>3. \A d \in Calls : call'[d] = call[d] \/ call'[d] = Idle
    BY <1>0, <2>1
  <2> QED
    BY <2>2, <2>3 DEF Idle
<1>13. CASE UNCHANGED vars
  BY <1>13, <1>3 DEF vars
<1> QED
  BY <1>4, <1>5, <1>7, <1>8, <1>9, <1>10, <1>11, <1>12, <1>13 DEF Next

\* Every list a goroutine of the coordinator can hold is a list of existing nodes, no
\* longer than there are nodes, and only existing nodes are dialled.
THEOREM TypeCorrect == Spec => []TypeOK
<1>1. Init => ListsDistinct /\ DialsSomebody
  BY EmptyDistinct, IdleRecord DEF Init, ListsDistinct, DialsSomebody, Idle
<1>2. ASSUME ListsDistinct, DialsSomebody PROVE TypeOK
  <2>1. rows \in Lists /\ group \in Lists /\ signers \in Lists
    BY <1>2, DistinctIsBounded DEF ListsDistinct
  <2>2. Distinct \subseteq Lists
    BY DistinctIsBounded
  <2>3. ASSUME NEW c \in Calls
        PROVE  call[c] \in [job : {"none", "dkg", "sign", "connect"}, to : Ids \cup {0},
                             limit : {0, TotalNodes, Threshold, LookupLimit},
                             db : Lists, result : Lists,
                             state : {"idle", "list", "consul", "found", "dial", "unknown"}]
    BY <1>2, <2>2 DEF ListsDistinct, CallRecord
  <2> QED
    BY <1>2, <2>1, <2>3 DEF ListsDistinct, DialsSomebody, TypeOK
<1> QED
  BY <1>1, <1>2, NextKeeps, NextKeepsDials, PTL DEF Spec

-----------------------------------------------------------------------------
(* Connections                                                             *)

Counted == opened \in [Ids -> Nat] /\ NoStrayConnection

\* However many goroutines look for a node at once, one connection to it is opened,
\* and it is the one in the client's map.
THEOREM OneConnectionPerNode == Spec => []NoStrayConnection
<1>1. Init => Counted
  BY DEF Init, Counted, NoStrayConnection
<1>2. Counted /\ [Next]_vars => Counted'
  <2> SUFFICES ASSUME Counted, [Next]_vars PROVE Counted'
    OBVIOUS
  <2>1. ASSUME NEW c \in Calls, Dial(c) PROVE Counted'
    BY <2>1 DEF Dial, Counted, NoStrayConnection
  <2>2. CASE UNCHANGED <<clients, opened>>
    BY <2>2 DEF Counted, NoStrayConnection
  <2>3. ASSUME NEW n \in Ids, RegisterParticipant(n) \/ RegisterNode(n) \/ DeregisterNode(n)
        PROVE  UNCHANGED <<clients, opened>>
    BY <2>3 DEF RegisterParticipant, RegisterNode, DeregisterNode
  <2>4. ASSUME NEW c \in Calls,
               \/ Begin(c, "dkg", TotalNodes) \/ Begin(c, "sign", Threshold)
               \/ ListNodes(c) \/ DiscoverParticipants(c) \/ CreateDKGSession(c)
               \/ ThresholdSign(c) \/ LookUp(c) \/ NotFound(c)
               \/ \E n \in Targets : GetOrCreateConnection(c, n)
        PROVE  UNCHANGED <<clients, opened>>
    BY <2>4 DEF Begin, ListNodes, DiscoverParticipants, CreateDKGSession, ThresholdSign, LookUp,
       NotFound, GetOrCreateConnection
  <2>5. CASE UNCHANGED vars
    BY <2>2, <2>5 DEF vars
  <2> QED
    BY <2>1, <2>2, <2>3, <2>4, <2>5 DEF Next
<1>3. Counted => NoStrayConnection
  BY DEF Counted
<1> QED
  BY <1>1, <1>2, <1>3, PTL DEF Spec

=============================================================================
