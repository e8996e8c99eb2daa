-------------------------- MODULE SigningPartsProofs --------------------------
(***************************************************************************)
(* Three smaller parts of signing, for any number of parties and messages  *)
(* and any size of scalars: the indexes of the parties on a node (module   *)
(* PartyIDs), the response of a batch (BatchSign) and what becomes of the  *)
(* bytes of a signature (SignatureEncoding).                               *)
(***************************************************************************)
EXTENDS PartyIDs, BatchSign, SignatureEncoding, FiniteSetTheorems, SequenceTheorems, TLAPS

-----------------------------------------------------------------------------
(* Sets of numbers in their order                                          *)

\* How many elements of S come before n.
Place(S, n) == Cardinality({m \in S : m < n})

\* Places number a set from 0 on, in the order of its elements.
LEMMA Places ==
    ASSUME NEW S \in SUBSET Nat, IsFiniteSet(S)
    PROVE  /\ \A n \in S : Place(S, n) \in Nat /\ Place(S, n) < Cardinality(S)
           /\ \A m, n \in S : m < n => Place(S, m) < Place(S, n)
<1> DEFINE Below(n) == {m \in S : m < n}
<1>1. ASSUME NEW n \in S
      PROVE  /\ Place(S, n) = Cardinality(Below(n)) /\ IsFiniteSet(Below(n))
             /\ Place(S, n) \in Nat /\ Place(S, n) < Cardinality(S)
  <2>1. Below(n) \in SUBSET S /\ n \notin Below(n)
    OBVIOUS
  <2>2. Below(n) # S
    BY <2>1
  <2> HIDE DEF Below
  <2>3. IsFiniteSet(Below(n)) /\ Cardinality(Below(n)) \in Nat
        /\ Cardinality(Below(n)) < Cardinality(S)
    BY <2>1, <2>2, FS_Subset, FS_CardinalityType
  <2> QED
    BY <2>3 DEF Place, Below
<1>2. ASSUME NEW m \in S, NEW n \in S, m < n
      PROVE  Place(S, m) < Place(S, n)
  <2>1. Below(m) \in SUBSET Below(n) /\ Below(m) # Below(n)
    <3>1. \A x \in S : x \in Nat
      OBVIOUS
    <3>2. m \in Below(n) /\ m \notin Below(m)
      BY <1>2, <3>1
    <3>3. \A x \in Below(m) : x \in Below(n)
      BY <1>2, <3>1
    <3> HIDE DEF Below
    <3> QED
      BY <3>2, <3>3
  <2> HIDE DEF Below
  <2>2. /\ Cardinality(Below(m)) <= Cardinality(Below(n))
        /\ Cardinality(Below(m)) # Cardinality(Below(n))
    BY <2>1, <1>1, FS_Subset
  <2> QED
    BY <2>2, <1>1
<1> QED
  BY <1>1, <1>2

\* A finite set of numbers can be listed in increasing order.
LEMMA Listed ==
    ASSUME NEW S \in SUBSET Nat, IsFiniteSet(S)
    PROVE  \E s \in SetToSeqs(S) : \A i, j \in DOMAIN s : i < j => s[i] < s[j]
<1> DEFINE c == Cardinality(S)
           D == 1 .. c
           f == [n \in S |-> Place(S, n) + 1]
           s == [k \in D |-> CHOOSE n \in S : f[n] = k]
<1>1. c \in Nat /\ IsFiniteSet(D) /\ Cardinality(D) = c
  BY FS_CardinalityType, FS_Interval
<1>2. \A n \in S : Place(S, n) \in Nat /\ f[n] = Place(S, n) + 1 /\ f[n] \in D
  BY <1>1, Places
<1>3. \A m, n \in S : m < n => f[m] < f[n]
  BY <1>2, Places
<1>4. \A m, n \in S : f[m] = f[n] => m = n
  <2> SUFFICES ASSUME NEW m \in S, NEW n \in S, f[m] = f[n] PROVE m = n
    OBVIOUS
  <2>1. m < n \/ n < m \/ m = n
    OBVIOUS
  <2>2. f[m] \in Nat /\ f[n] \in Nat
    BY <1>2
  <2> HIDE DEF f
  <2> QED
    BY <2>1, <2>2, <1>3
<1>5. f \in [S -> D]
  BY <1>2
<1> HIDE DEF f
<1>6. f \in Injection(S, D)
  BY <1>4, <1>5 DEF Injection, IsInjective
<1>7. f \in Surjection(S, D)
  BY <1>1, <1>6, FS_Injection DEF c
<1> HIDE DEF c
<1>8. \A k \in D : s[k] \in S /\ f[s[k]] = k
  <2> SUFFICES ASSUME NEW k \in D PROVE s[k] \in S /\ f[s[k]] = k
    OBVIOUS
  <2>1. \E n \in S : f[n] = k
    BY <1>7 DEF Surjection
  <2> QED
    BY <2>1
<1>9. s \in SetToSeqs(S)
  <2>1. s \in [D -> S]
    BY <1>8
  <2>2. \A i, j \in D : i # j => s[i] # s[j]
    BY <1>8
  <2> HIDE DEF s
  <2> QED
    BY <2>1, <2>2 DEF SetToSeqs, c
<1>10. ASSUME NEW i \in D, NEW j \in D, i < j PROVE s[i] < s[j]
  <2>1. s[i] \in S /\ s[j] \in S /\ f[s[i]] = i /\ f[s[j]] = j
    BY <1>8
  <2> HIDE DEF s
  <2>2. s[i] \in Nat /\ s[j] \in Nat /\ i \in Nat /\ j \in Nat
    <3>1. \A x \in S : x \in Nat
      OBVIOUS
    <3>2. i \in Nat /\ j \in Nat
      BY <1>1
    <3>3. s[i] \in Nat /\ s[j] \in Nat
      BY <2>1, <3>1
    <3> QED
      BY <3>2, <3>3
  <2>3. s[i] < s[j] \/ s[j] < s[i] \/ s[i] = s[j]
    BY <2>2
  <2> QED
    BY <2>1, <2>2, <2>3, <1>3, <1>10
<1>11. DOMAIN s = D
  OBVIOUS
<1> HIDE DEF s
<1> QED
  BY <1>9, <1>10, <1>11

-----------------------------------------------------------------------------
(* The indexes of the parties                                              *)

Types ==
    /\ known \subseteq Nodes
    /\ Index \in [Nodes -> Int]
    /\ run \in [Runs -> [state : {"new", "sorting", "running"}, sorted : Nat]]
    /\ met \in [Runs -> SUBSET Runs]

\* Two runs under way have met, from whichever side one looks.
HaveMet == \A r, s \in UnderWay : r # s => s \in met[r]

\* What a run has sorted so far is in place if all the runs it met agree with it; a
\* running one has sorted all, and one not under way nothing.
SortedInPlace ==
    \A r \in Runs :
        /\ run[r].state = "running" => run[r].sorted = Len(nodeIDs[r])
        /\ run[r].state = "new" => run[r].sorted = 0
        /\ (\A s \in met[r] : Agree(r, s)) =>
              \A n \in Group(r) : Rank(r, n) < run[r].sorted => Index[n] = Rank(r, n)

IInv == Types /\ HaveMet /\ SortedInPlace

\* Ranks number the group from 0 on, without repetition.
LEMMA Ranks ==
    ASSUME NEW r \in Runs
    PROVE  /\ Group(r) \subseteq Nodes /\ Group(r) \subseteq Nat
           /\ \A n \in Group(r) : Rank(r, n) \in Nat /\ Rank(r, n) < Len(nodeIDs[r])
           /\ \A m, n \in Group(r) : Rank(r, m) = Rank(r, n) => m = n
<1>1. nodeIDs[r] \in Seq(Nodes) /\ Nodes \subseteq Nat
  BY PartyAssumption
<1>2. /\ Len(nodeIDs[r]) \in Nat /\ DOMAIN nodeIDs[r] = 1 .. Len(nodeIDs[r])
      /\ Group(r) \subseteq Nodes /\ Group(r) \in SUBSET Nat
  <2>1. /\ Len(nodeIDs[r]) \in Nat /\ DOMAIN nodeIDs[r] = 1 .. Len(nodeIDs[r])
        /\ \A i \in DOMAIN nodeIDs[r] : nodeIDs[r][i] \in Nodes
    BY <1>1
  <2> QED
    BY <2>1, <1>1 DEF Group, Range
<1>3. nodeIDs[r] \in Surjection(1 .. Len(nodeIDs[r]), Group(r))
  BY <1>1, <1>2 DEF Surjection, Group, Range
<1>4. /\ IsFiniteSet(1 .. Len(nodeIDs[r]))
      /\ Cardinality(1 .. Len(nodeIDs[r])) = Len(nodeIDs[r])
  BY <1>2, FS_Interval
<1>5. /\ IsFiniteSet(Group(r)) /\ Cardinality(Group(r)) <= Len(nodeIDs[r])
      /\ Cardinality(Group(r)) \in Nat
  BY <1>3, <1>4, FS_Surjection, FS_CardinalityType
<1>6. ASSUME NEW n \in Group(r)
      PROVE  Rank(r, n) = Place(Group(r), n) /\ Rank(r, n) \in Nat /\ Rank(r, n) < Len(nodeIDs[r])
  <2>1. Rank(r, n) = Place(Group(r), n)
    BY DEF Rank, Place
  <2>2. Place(Group(r), n) \in Nat /\ Place(Group(r), n) < Cardinality(Group(r))
    BY <1>2, <1>5, Places
  <2> QED
    BY <1>2, <1>5, <2>1, <2>2
<1>7. ASSUME NEW m \in Group(r), NEW n \in Group(r), Rank(r, m) = Rank(r, n)
      PROVE  m = n
  <2>1. m < n \/ n < m \/ m = n
    BY <1>2
  <2>2. m < n => Rank(r, m) < Rank(r, n)
    BY <1>2, <1>5, <1>6, Places
  <2>3. n < m => Rank(r, n) < Rank(r, m)
    BY <1>2, <1>5, <1>6, Places
  <2> QED
    BY <2>1, <2>2, <2>3, <1>6, <1>7
<1> QED
  BY <1>2, <1>6, <1>7

LEMMA InitHolds == Init => IInv
<1> SUFFICES ASSUME Init PROVE IInv
  OBVIOUS
<1> QED
  BY Ranks DEF Init, Unset, IInv, Types, HaveMet, UnderWay, SortedInPlace

\* A run that is set up meets the runs under way, and has nothing sorted yet.
LEMMA SetupKeeps ==
    ASSUME IInv, NEW q \in Runs, setupPartyIDs(q)
    PROVE  IInv'
<1>1. /\ run[q].state = "new" /\ known' = known \cup Group(q) /\ Index' = Index
      /\ run' = [run EXCEPT ![q].state = "sorting"]
  BY DEF setupPartyIDs
<1>2. UnderWay \subseteq Runs /\ q \notin UnderWay /\ UnderWay' = UnderWay \cup {q}
  BY <1>1 DEF IInv, Types, UnderWay
<1>3. /\ met' \in [Runs -> SUBSET Runs] /\ met'[q] = UnderWay
      /\ \A s \in Runs : s # q => met[s] \subseteq met'[s] /\ (s \in UnderWay => q \in met'[s])
  <2>1. \A s \in Runs : met[s] \in SUBSET Runs
    BY DEF IInv, Types
  <2> QED
    BY <1>2, <2>1 DEF setupPartyIDs
<1>4. Types'
  BY <1>1, <1>3, Ranks DEF IInv, Types
<1>5. HaveMet'
  <2> SUFFICES ASSUME NEW r \in UnderWay \cup {q}, NEW s \in UnderWay \cup {q}, r # s
               PROVE  s \in met'[r]
    BY <1>2 DEF HaveMet
  <2> QED
    BY <1>2, <1>3 DEF IInv, HaveMet
<1>6. SortedInPlace'
  <2> SUFFICES ASSUME NEW r \in Runs
               PROVE  /\ run'[r].state = "running" => run'[r].sorted = Len(nodeIDs[r])
                      /\ run'[r].state = "new" => run'[r].sorted = 0
                      /\ (\A s \in met'[r] : Agree(r, s)) =>
                            \A n \in Group(r) :
                               Rank(r, n) < run'[r].sorted => Index'[n] = Rank(r, n)
    BY DEF SortedInPlace
  <2>1. CASE r = q
    <3>1. run'[r].sorted = 0 /\ run'[r].state = "sorting"
      BY <2>1, <1>1 DEF IInv, Types, SortedInPlace
    <3> QED
      BY <3>1, Ranks
  <2>2. CASE r # q
    <3>1. run'[r] = run[r] /\ met[r] \subseteq met'[r]
      BY <2>2, <1>1, <1>3 DEF IInv, Types
    <3> QED
      BY <3>1, <1>1 DEF IInv, SortedInPlace
  <2> QED
    BY <2>1, <2>2
<1> QED
  BY <1>4, <1>5, <1>6 DEF IInv

\* A write of one run leaves in place what the others have sorted: they met it.
LEMMA SortKeeps ==
    ASSUME IInv, NEW q \in Runs, getPartyIDs(q)
    PROVE  IInv'
<1>1. PICK n \in Group(q) \cap known :
         Rank(q, n) = run[q].sorted /\ Index' = [Index EXCEPT ![n] = Rank(q, n)]
  BY DEF getPartyIDs
<1>2. /\ run' = [run EXCEPT ![q].sorted = @ + 1] /\ UNCHANGED <<known, met>>
      /\ run[q].state = "sorting"
  BY DEF getPartyIDs
<1>3. Types'
  BY <1>1, <1>2, Ranks DEF IInv, Types
<1>4. q \in UnderWay /\ UnderWay' = UnderWay
  BY <1>2 DEF IInv, Types, UnderWay
<1>5. HaveMet'
  BY <1>2, <1>4 DEF IInv, HaveMet
<1>6. ASSUME NEW r \in Runs, \A s \in met[r] : Agree(r, s),
             NEW m \in Group(r), Rank(r, m) < run'[r].sorted
      PROVE  Index'[m] = Rank(r, m)
  <2>0. m \in Nodes /\ n \in Nodes /\ Rank(r, m) \in Nat
    BY Ranks
  <2>1. CASE r = q /\ m = n
    BY <2>0, <2>1, <1>1 DEF IInv, Types
  <2>2. CASE r = q /\ m # n
    <3>1. Rank(q, m) # Rank(q, n)
      BY <2>2, Ranks
    <3>2. run[q].sorted \in Nat /\ run'[q].sorted = run[q].sorted + 1
      BY <1>2 DEF IInv, Types
    <3>3. Rank(r, m) < run[r].sorted
      <4>1. Rank(q, m) \in Nat /\ Rank(q, m) # run[q].sorted /\ Rank(q, m) < run[q].sorted + 1
        BY <3>1, <3>2, <2>0, <2>2, <1>1, <1>6
      <4> QED
        BY <4>1, <3>2, <2>2
    <3> QED
      BY <3>3, <2>0, <2>2, <1>1, <1>6 DEF IInv, Types, SortedInPlace
  <2>3. CASE r # q
    <3>1. run'[r] = run[r]
      BY <2>3, <1>2 DEF IInv, Types
    <3>2. Index[m] = Rank(r, m)
      BY <3>1, <1>6 DEF IInv, SortedInPlace
    <3>3. r \in UnderWay
      BY <3>1, <2>0, <1>6 DEF IInv, Types, SortedInPlace, UnderWay
    <3>4. Agree(r, q)
      BY <3>3, <2>3, <1>4, <1>6 DEF IInv, HaveMet
    <3>5. m = n => Rank(q, n) = Rank(r, m)
      BY <3>4 DEF Agree
    <3> QED
      BY <3>2, <3>5, <2>0, <1>1 DEF IInv, Types
  <2> QED
    BY <2>1, <2>2, <2>3
<1>7. \A r \in Runs : /\ run'[r].state = "running" => run'[r].sorted = Len(nodeIDs[r])
                      /\ run'[r].state = "new" => run'[r].sorted = 0
  BY <1>2 DEF IInv, Types, SortedInPlace
<1> QED
  BY <1>2, <1>3, <1>5, <1>6, <1>7 DEF IInv, SortedInPlace

LEMMA NextKeeps ==
    ASSUME IInv, [Next]_vars
    PROVE  IInv'
<1>1. ASSUME NEW q \in Runs, StartParty(q) PROVE IInv'
  <2>1. UnderWay' = UnderWay /\ Types'
    BY <1>1 DEF StartParty, IInv, Types, UnderWay
  <2> QED
    BY <1>1, <2>1 DEF StartParty, IInv, Types, HaveMet, SortedInPlace
<1>2. ASSUME NEW q \in Runs, EndParty(q) PROVE IInv'
  <2>1. UnderWay' \subseteq UnderWay /\ Types'
    BY <1>2 DEF EndParty, IInv, Types, UnderWay
  <2>2. SortedInPlace'
    BY <1>2, Ranks DEF EndParty, IInv, Types, SortedInPlace
  <2> QED
    BY <1>2, <2>1, <2>2 DEF EndParty, IInv, HaveMet
<1>3. ASSUME UNCHANGED vars PROVE IInv'
  BY <1>3 DEF vars, IInv, Types, HaveMet, UnderWay, SortedInPlace
<1> QED
  BY <1>1, <1>2, <1>3, SetupKeeps, SortKeeps DEF Next

\* The indexes that tss-lib reads are right for as long as a run lasts, whatever the
\* groups of the node's runs are, unless it overlaps one that numbers its parties
\* otherwise.
THEOREM OverlapsAloneMoveIndexes ==
    Spec => []IndexesHold
<1>1. IInv => IndexesHold
  BY Ranks DEF IInv, SortedInPlace, IndexesHold, RightIndexes
<1> QED
  BY <1>1, InitHolds, NextKeeps, PTL DEF Spec

-----------------------------------------------------------------------------
(* The response of a batch                                                 *)

BatchTypes ==
    /\ handler \in {"starting", "waiting", "returned"}
    /\ spawned \in Nat
    /\ goroutine \in [Messages -> {"new", "signing", "signed", "failed", "done"}]
    /\ session \in [Messages -> {"none", "pending", "completed", "failed"}]
    /\ results \subseteq Messages /\ errors \subseteq Messages

\* Goroutines that have not been started have done nothing.
NotSpawned ==
    /\ handler = "starting" => spawned < Total
    /\ \A i \in Messages : i > spawned => goroutine[i] = "new"

\* A message has an entry, and one only, when its goroutine is done, and a signature
\* when its session was completed.
OneEntry ==
    /\ \A i \in Messages : goroutine[i] = "done" <=> i \in results \cup errors
    /\ results \cap errors = {}
    /\ \A i \in Messages : goroutine[i] = "signed" \/ i \in results => session[i] = "completed"

\* The response is the state of the slices after all goroutines are done.
Answered ==
    handler = "returned" =>
        response = Collected /\ \A i \in Messages : goroutine[i] = "done"

BatchInv == BatchTypes /\ NotSpawned /\ OneEntry /\ Answered

\* A step of one goroutine, or of the session behind it.
LEMMA GoroutineStep ==
    ASSUME BatchInv, NEW i \in Messages,
           Steps(i) \/ SessionEnds(i) \/ ContextExpires(i)
    PROVE  BatchInv'
<1>0. UNCHANGED <<handler, spawned, response>>
  BY DEF Steps, ThresholdSign, PollReturns, ExpiredCallFails,
     Record, SessionEnds, ContextExpires
<1>1. CASE Record(i)
  <2>1. /\ goroutine[i] \in {"signed", "failed"} /\ session' = session
        /\ goroutine' = [goroutine EXCEPT ![i] = "done"]
        /\ \/ goroutine[i] = "signed" /\ results' = results \cup {i} /\ errors' = errors
           \/ goroutine[i] = "failed" /\ errors' = errors \cup {i} /\ results' = results
    BY <1>1 DEF Record
  <2>2. i \notin results /\ i \notin errors /\ ~ (i > spawned) /\ handler # "returned"
    BY <2>1 DEF BatchInv, OneEntry, NotSpawned, Answered
  <2>3. BatchTypes'
    BY <1>0, <2>1 DEF BatchInv, BatchTypes, Messages
  <2>4. NotSpawned'
    BY <1>0, <2>1, <2>2 DEF BatchInv, BatchTypes, NotSpawned, Messages
  <2>5. OneEntry'
    BY <2>1, <2>2 DEF BatchInv, BatchTypes, OneEntry, Messages
  <2> QED
    BY <1>0, <2>2, <2>3, <2>4, <2>5 DEF BatchInv, Answered
<1>2. ASSUME ~ Record(i)
      PROVE  BatchInv'
  <2>1. /\ UNCHANGED <<results, errors>>
        /\ \/ goroutine' = goroutine
           \/ /\ goroutine[i] = "signing"
              /\ goroutine' = [goroutine EXCEPT ![i] = "failed"]
           \/ /\ goroutine[i] = "signing" /\ session[i] = "completed"
              /\ goroutine' = [goroutine EXCEPT ![i] = "signed"]
        /\ \/ session' = session
           \/ session[i] \in {"none", "pending"} /\ \E s \in {"pending", "completed", "failed"} :
                 session' = [session EXCEPT ![i] = s]
        /\ goroutine' = goroutine \/ session' = session
    BY <1>2 DEF Steps, ThresholdSign, PollReturns, ExpiredCallFails,
       SessionEnds, ContextExpires
  <2>2. BatchTypes'
    BY <1>0, <2>1 DEF BatchInv, BatchTypes, Messages
  <2>3. NotSpawned'
    BY <1>0, <2>1 DEF BatchInv, BatchTypes, NotSpawned, Messages
  <2>4. OneEntry'
    <3>1. CASE goroutine' = goroutine
      BY <2>1, <3>1 DEF BatchInv, BatchTypes, OneEntry, Messages
    <3>2. CASE session' = session
      BY <2>1, <3>2 DEF BatchInv, BatchTypes, OneEntry, Messages
    <3> QED
      BY <2>1, <3>1, <3>2
  <2>5. Answered'
    <3>1. handler = "returned" => goroutine' = goroutine
      BY <2>1 DEF BatchInv, Answered
    <3> QED
      BY <1>0, <2>1, <3>1 DEF BatchInv, Answered, Collected, Messages
  <2> QED
    BY <2>2, <2>3, <2>4, <2>5 DEF BatchInv
<1> QED
  BY <1>1, <1>2

LEMMA BatchStep ==
    ASSUME BatchInv, [BatchNext]_BatchVars
    PROVE  BatchInv'
<1>1. CASE Spawn
  <2>1. /\ handler = "starting" /\ handler' \in {"starting", "waiting"}
        /\ handler' = "starting" => spawned + 1 # Total
        /\ spawned' = spawned + 1 /\ goroutine' = [goroutine EXCEPT ![spawned + 1] = "signing"]
        /\ UNCHANGED <<session, results, errors>>
    BY <1>1 DEF Spawn
  <2>2. Total \in Nat /\ spawned \in Nat /\ spawned < Total
    BY <2>1, TotalAssumption DEF BatchInv, BatchTypes, NotSpawned
  <2>3. spawned + 1 \in Messages /\ spawned + 1 > spawned
    BY <2>2 DEF Messages
  <2>4. goroutine[spawned + 1] = "new"
    BY <2>3 DEF BatchInv, NotSpawned
  <2>5. ASSUME NEW i \in Messages
        PROVE  goroutine'[i] = IF i = spawned + 1 THEN "signing" ELSE goroutine[i]
    BY <2>1 DEF BatchInv, BatchTypes
  <2>6. BatchTypes'
    BY <2>1, <2>2 DEF BatchInv, BatchTypes, Messages
  <2>7. NotSpawned'
    <3>1. ASSUME NEW i \in Messages, i > spawned + 1 PROVE goroutine'[i] = "new"
      <4>1. i > spawned /\ i # spawned + 1
        BY <2>2, <3>1 DEF Messages
      <4> QED
        BY <2>5, <4>1 DEF BatchInv, NotSpawned
    <3>2. handler' = "starting" => spawned' < Total
      BY <2>1, <2>2
    <3> QED
      BY <2>1, <3>1, <3>2 DEF NotSpawned, Messages
  <2>8. OneEntry'
    <3>1. spawned + 1 \notin results \cup errors
      BY <2>3, <2>4 DEF BatchInv, OneEntry
    <3> QED
      BY <2>1, <2>5, <3>1 DEF BatchInv, OneEntry, Messages
  <2> QED
    BY <2>1, <2>6, <2>7, <2>8 DEF BatchInv, Answered
<1>2. CASE Return
  BY <1>2 DEF Return, BatchInv, BatchTypes, NotSpawned, OneEntry, Answered, Collected,
     Messages
<1>3. CASE UNCHANGED BatchVars
  BY <1>3 DEF BatchVars, BatchInv, BatchTypes, NotSpawned, OneEntry, Answered, Collected,
     Messages
<1> QED
  BY <1>1, <1>2, <1>3, GoroutineStep DEF BatchNext

\* What the caller of BatchSign reads: an outcome for each message of the request, and
\* the signatures of completed sessions in the order of the request, for any
\* number of messages, in whatever order sessions, deadlines and goroutines end.
THEOREM BatchAccountsForAll ==
    BatchSpec => []ResponseIsComplete
<1>1. BatchInit => BatchInv
  BY TotalAssumption DEF BatchInit, BatchInv, BatchTypes, NotSpawned, OneEntry, Answered
<1>2. BatchInv => ResponseIsComplete
  <2> SUFFICES ASSUME BatchInv, handler = "returned"
               PROVE  /\ response.Success + response.Failed = Total
                      /\ Len(response.Signatures) = response.Success
                      /\ \A k \in DOMAIN response.Signatures :
                            /\ session[response.Signatures[k]] = "completed"
                            /\ \A j \in 1 .. k - 1 : response.Signatures[j] < response.Signatures[k]
    BY DEF ResponseIsComplete
  <2> DEFINE s == InOrder(results)
             c == Cardinality(results)
  <2>1. response.Signatures = s /\ response.Success = c /\ response.Failed = Cardinality(errors)
    BY DEF BatchInv, Answered, Collected
  <2>2. results \cup errors = 1 .. Total /\ results \cap errors = {} /\ Total \in Nat
    BY TotalAssumption DEF BatchInv, BatchTypes, Answered, OneEntry, Messages
  <2>3. IsFiniteSet(results) /\ IsFiniteSet(errors) /\ Cardinality(results \cup errors) = Total
    <3>1. IsFiniteSet(1 .. Total) /\ Cardinality(1 .. Total) = Total
      <4>1. 1 \in Int /\ Total \in Int /\ ~ (1 > Total)
        BY <2>2, TotalAssumption
      <4>2. Total - 1 + 1 = Total
        BY <2>2
      <4> QED
        BY <4>1, <4>2, FS_Interval
    <3>2. results \in SUBSET (1 .. Total) /\ errors \in SUBSET (1 .. Total)
      BY <2>2
    <3> QED
      BY <2>2, <3>1, <3>2, FS_Subset
  <2>4. c \in Nat /\ Cardinality(errors) \in Nat /\ c + Cardinality(errors) = Total
    <3>1. c \in Nat /\ Cardinality(errors) \in Nat
      BY <2>3, FS_CardinalityType
    <3>2. Cardinality(results \cap errors) = 0
      BY <2>2, FS_EmptySet
    <3>3. Total = c + Cardinality(errors) - 0
      BY <2>3, <3>2, FS_Union
    <3> HIDE DEF c
    <3> QED
      BY <3>1, <3>3
  <2>5. results \in SUBSET Nat
    BY <2>2
  <2>6. s \in SetToSeqs(results) /\ \A i, j \in DOMAIN s : i < j => s[i] < s[j]
    BY <2>3, <2>5, Listed DEF InOrder
  <2> HIDE DEF s, c
  <2>7. s \in [1 .. c -> results]
    BY <2>6 DEF SetToSeqs, c
  <2>8. DOMAIN s = 1 .. c /\ Len(s) = c /\ \A k \in 1 .. c : s[k] \in results
    BY <2>4, <2>7
  <2>9. ASSUME NEW k \in 1 .. c, NEW j \in 1 .. k - 1 PROVE s[j] < s[k]
    <3>1. j \in 1 .. c /\ j < k
      BY <2>4
    <3> QED
      BY <3>1, <2>6, <2>8
  <2>10. ASSUME NEW k \in 1 .. c PROVE session[s[k]] = "completed"
    BY <2>8 DEF BatchInv, BatchTypes, OneEntry
  <2> QED
    BY <2>1, <2>4, <2>8, <2>9, <2>10
<1>3. BatchInv /\ [BatchNext]_BatchVars => BatchInv'
  BY BatchStep
<1> QED
  BY <1>1, <1>2, <1>3, PTL DEF BatchSpec

-----------------------------------------------------------------------------
(* The bytes of a signature                                                *)

\* Bytes are numbers, and zero is not a negative one.
LEMMA EncodingConstants ==
    /\ Size \in Nat /\ Size >= 1 /\ Bytes \subseteq Nat /\ 0 \in Bytes
    /\ ~ Negative(0)
<1>1. Base \in Nat /\ Base > 2 /\ Size \in Nat /\ Size # 0
  BY EncodingAssumption
<1>2. Base \div 2 >= 1
  BY <1>1
<1> QED
  BY <1>1, <1>2 DEF Bytes, Negative

\* What \o put together, SubSeq takes apart.
LEMMA TakenApart ==
    ASSUME NEW a \in Seq(Nat), NEW b \in Seq(Nat)
    PROVE  /\ Len(a \o b) = Len(a) + Len(b)
           /\ SubSeq(a \o b, 1, Len(a)) = a
           /\ SubSeq(a \o b, Len(a) + 1, Len(a) + Len(b)) = b
<1> DEFINE c == a \o b
           l == Len(a)
           k == Len(b)
<1>1. /\ c \in Seq(Nat) /\ Len(c) = l + k /\ l \in Nat /\ k \in Nat
      /\ \A i \in 1 .. l + k : c[i] = IF i <= l THEN a[i] ELSE b[i - l]
  BY ConcatProperties, LenProperties
<1> HIDE DEF c, l, k
<1>2. \A i \in 1 .. l + k : c[i] \in Nat
  BY <1>1, ElementOfSeq
<1>3. SubSeq(c, 1, l) = a
  <2>1. \A i \in 1 .. l : c[i] \in Nat /\ c[i] = a[i]
    BY <1>1, <1>2
  <2>2. 1 \in Int /\ l \in Int
    BY <1>1
  <2>3. /\ SubSeq(c, 1, l) \in Seq(Nat)
        /\ Len(SubSeq(c, 1, l)) = IF 1 <= l THEN l - 1 + 1 ELSE 0
        /\ \A i \in 1 .. l - 1 + 1 : SubSeq(c, 1, l)[i] = c[1 + i - 1]
    BY <2>1, <2>2, SubSeqProperties
  <2> DEFINE u == SubSeq(c, 1, l)
  <2> HIDE DEF u
  <2>4. u \in Seq(Nat) /\ Len(u) = l /\ \A i \in 1 .. l : u[i] = a[i]
    BY <1>1, <2>1, <2>3 DEF u
  <2> QED
    BY <2>4, SeqEqual DEF u, l
<1>4. SubSeq(c, l + 1, l + k) = b
  <2>1. \A i \in l + 1 .. l + k : c[i] \in Nat
    BY <1>1, <1>2
  <2>2. l + 1 \in Int /\ l + k \in Int
    BY <1>1
  <2>3. /\ SubSeq(c, l + 1, l + k) \in Seq(Nat)
        /\ Len(SubSeq(c, l + 1, l + k)) = IF l + 1 <= l + k THEN (l + k) - (l + 1) + 1 ELSE 0
        /\ \A i \in 1 .. (l + k) - (l + 1) + 1 : SubSeq(c, l + 1, l + k)[i] = c[(l + 1) + i - 1]
    BY <2>1, <2>2, SubSeqProperties
  <2> DEFINE u == SubSeq(c, l + 1, l + k)
  <2> HIDE DEF u
  <2>4. u \in Seq(Nat) /\ Len(u) = k
    BY <1>1, <2>3 DEF u
  <2>5. ASSUME NEW i \in 1 .. k PROVE u[i] = b[i]
    <3>1. i \in 1 .. (l + k) - (l + 1) + 1 /\ (l + 1) + i - 1 = l + i
      BY <1>1
    <3>2. u[i] = c[l + i]
      BY <2>3, <3>1 DEF u
    <3>3. l + i \in 1 .. l + k /\ ~ (l + i <= l) /\ (l + i) - l = i
      BY <1>1
    <3> QED
      BY <1>1, <3>2, <3>3
  <2> QED
    BY <2>4, <2>5, SeqEqual DEF u, k
<1> QED
  BY <1>1, <1>3, <1>4 DEF c, l, k

\* A FROST signature is read as it was made.
LEMMA FrostRead ==
    ASSUME NEW r \in [1 .. Size -> Bytes], NEW s \in [1 .. Size -> Bytes]
    PROVE  LET x == convertFROSTSignature(r, s) IN
           Len(x) = 2 * Size /\ SubSeq(x, 1, Size) = r /\ SubSeq(x, Size + 1, 2 * Size) = s
<1>1. Size \in Nat /\ r \in Seq(Nat) /\ s \in Seq(Nat) /\ Len(r) = Size /\ Len(s) = Size
  <2>1. Size \in Nat /\ Bytes \subseteq Nat
    BY EncodingConstants
  <2>2. r \in [1 .. Size -> Nat] /\ s \in [1 .. Size -> Nat]
    BY <2>1
  <2> QED
    BY <2>1, <2>2
<1>2. Len(r \o s) = 2 * Size /\ Size + Size = 2 * Size
  <2>1. Len(r \o s) = Len(r) + Len(s)
    BY <1>1, TakenApart
  <2> QED
    BY <1>1, <2>1
<1> QED
  BY <1>1, <1>2, TakenApart DEF convertFROSTSignature

\* The bytes of a DER signature whose integers have the same length.
LEMMA DERBytes ==
    ASSUME NEW r \in Seq(Nat), NEW s \in Seq(Nat),
           Len(r) = Size, Len(s) = Size
    PROVE  LET der == buildDERSignature(r, s) IN
           /\ Len(der) = 2 * Size + 6
           /\ der[1] = 48 /\ der[2] = 2 * Size + 4 /\ der[3] = 2 /\ der[4] = Size
           /\ der[5 + Size] = 2 /\ der[6 + Size] = Size
           /\ SubSeq(der, 5, 4 + Size) = r /\ SubSeq(der, 7 + Size, 2 * Size + 6) = s
<1> DEFINE h == <<48, Size + Size + 4, 2, Size>>
           t == <<2, Size>>
           a == h \o r
           b == a \o t
           der == b \o s
<1>0. Size \in Nat /\ Size >= 1
  BY EncodingConstants
<1>1. /\ h \in Seq(Nat) /\ Len(h) = 4
      /\ h[1] = 48 /\ h[2] = Size + Size + 4 /\ h[3] = 2 /\ h[4] = Size
  BY <1>0
<1>2. t \in Seq(Nat) /\ Len(t) = 2 /\ t[1] = 2 /\ t[2] = Size
  BY <1>0
<1>3. buildDERSignature(r, s) = der
  BY DEF buildDERSignature, Sequence, Integer
<1> HIDE DEF h, t
<1>4. /\ a \in Seq(Nat) /\ Len(a) = 4 + Size
      /\ \A i \in 1 .. 4 + Size : a[i] = IF i <= 4 THEN h[i] ELSE r[i - 4]
  <2>1. /\ a \in Seq(Nat) /\ Len(a) = Len(h) + Len(r)
        /\ \A i \in 1 .. Len(h) + Len(r) : a[i] = IF i <= Len(h) THEN h[i] ELSE r[i - Len(h)]
    <3>1. h \in Seq(Nat)
      BY <1>1
    <3> QED
      BY <3>1, ConcatProperties
  <2>2. Len(h) = 4 /\ Len(h) + Len(r) = 4 + Size
    BY <1>1
  <2> HIDE DEF a
  <2> QED
    BY <2>1, <2>2
<1> HIDE DEF a
<1>5. /\ b \in Seq(Nat) /\ Len(b) = 6 + Size
      /\ \A i \in 1 .. 6 + Size : b[i] = IF i <= 4 + Size THEN a[i] ELSE t[i - (4 + Size)]
  <2>1. /\ b \in Seq(Nat) /\ Len(b) = Len(a) + Len(t)
        /\ \A i \in 1 .. Len(a) + Len(t) : b[i] = IF i <= Len(a) THEN a[i] ELSE t[i - Len(a)]
    BY <1>2, <1>4, ConcatProperties
  <2>2. Len(a) + Len(t) = 6 + Size
    BY <1>0, <1>2, <1>4
  <2> QED
    BY <2>1, <2>2, <1>4
<1>6. b[5 + Size] = 2 /\ b[6 + Size] = Size
  <2>1. 5 + Size \in 1 .. 6 + Size /\ ~ (5 + Size <= 4 + Size) /\ (5 + Size) - (4 + Size) = 1
    BY <1>0
  <2>2. 6 + Size \in 1 .. 6 + Size /\ ~ (6 + Size <= 4 + Size) /\ (6 + Size) - (4 + Size) = 2
    BY <1>0
  <2> QED
    BY <2>1, <2>2, <1>2, <1>5
<1>7. b[1] = 48 /\ b[2] = 2 * Size + 4 /\ b[3] = 2 /\ b[4] = Size
  <2>1. \A i \in 1 .. 4 : i \in 1 .. 4 + Size /\ i \in 1 .. 6 + Size /\ i <= 4 /\ i <= 4 + Size
    BY <1>0
  <2>2. \A i \in 1 .. 4 : b[i] = h[i]
    BY <2>1, <1>4, <1>5
  <2>3. Size + Size + 4 = 2 * Size + 4
    BY <1>0
  <2> HIDE DEF b
  <2>4. 1 \in 1 .. 4 /\ 2 \in 1 .. 4 /\ 3 \in 1 .. 4 /\ 4 \in 1 .. 4
    OBVIOUS
  <2> QED
    BY <2>2, <2>3, <2>4, <1>1
<1> HIDE DEF b
<1>8. /\ der \in Seq(Nat) /\ Len(der) = 2 * Size + 6
      /\ \A i \in 1 .. 2 * Size + 6 : der[i] = IF i <= 6 + Size THEN b[i] ELSE s[i - (6 + Size)]
  <2>1. /\ der \in Seq(Nat) /\ Len(der) = Len(b) + Len(s)
        /\ \A i \in 1 .. Len(b) + Len(s) : der[i] = IF i <= Len(b) THEN b[i] ELSE s[i - Len(b)]
    BY <1>5, ConcatProperties
  <2>2. Len(b) + Len(s) = 2 * Size + 6
    BY <1>0, <1>5
  <2> QED
    BY <2>1, <2>2, <1>5
<1>9. \A i \in 1 .. 6 + Size : der[i] = b[i]
  <2>1. \A i \in 1 .. 6 + Size : i \in 1 .. 2 * Size + 6 /\ i <= 6 + Size
    BY <1>0
  <2> QED
    BY <2>1, <1>8
<1>10. SubSeq(der, 7 + Size, 2 * Size + 6) = s
  <2>1. SubSeq(b \o s, Len(b) + 1, Len(b) + Len(s)) = s
    BY <1>5, TakenApart
  <2>2. Len(b) + 1 = 7 + Size /\ Len(b) + Len(s) = 2 * Size + 6
    BY <1>0, <1>5
  <2> QED
    BY <2>1, <2>2
<1>11. SubSeq(der, 5, 4 + Size) = r
  <2>1. ASSUME NEW i \in 5 .. 4 + Size PROVE der[i] = r[i - 4] /\ i - 4 \in 1 .. Size
    <3>1. /\ i \in 1 .. 6 + Size /\ i <= 4 + Size /\ i \in 1 .. 4 + Size /\ ~ (i <= 4)
          /\ i - 4 \in 1 .. Size
      BY <1>0
    <3> QED
      BY <3>1, <1>4, <1>5, <1>9
  <2>2. \A i \in 5 .. 4 + Size : der[i] \in Nat
    BY <2>1, ElementOfSeq
  <2>3. 5 \in Int /\ 4 + Size \in Int
    BY <1>0
  <2> HIDE DEF der
  <2> DEFINE u == SubSeq(der, 5, 4 + Size)
  <2>4. /\ u \in Seq(Nat) /\ Len(u) = IF 5 <= 4 + Size THEN (4 + Size) - 5 + 1 ELSE 0
        /\ \A i \in 1 .. (4 + Size) - 5 + 1 : u[i] = der[5 + i - 1]
    BY <2>2, <2>3, SubSeqProperties
  <2> HIDE DEF u
  <2>5. Len(u) = Size
    BY <1>0, <2>4
  <2>6. ASSUME NEW i \in 1 .. Size PROVE u[i] = r[i]
    <3>1. /\ i \in 1 .. (4 + Size) - 5 + 1 /\ 5 + i - 1 = i + 4
          /\ i + 4 \in 5 .. 4 + Size /\ (i + 4) - 4 = i
      BY <1>0
    <3> QED
      BY <2>1, <2>4, <3>1
  <2>7. u = r
    BY <2>4, <2>5, <2>6, SeqEqual
  <2> QED
    BY <2>7 DEF u
<1>12. /\ der[1] = 48 /\ der[2] = 2 * Size + 4 /\ der[3] = 2 /\ der[4] = Size
       /\ der[5 + Size] = 2 /\ der[6 + Size] = Size
  <2>1. {1, 2, 3, 4, 5 + Size, 6 + Size} \subseteq 1 .. 6 + Size
    BY <1>0
  <2> HIDE DEF der
  <2> QED
    BY <2>1, <1>6, <1>7, <1>9
<1> QED
  BY <1>3, <1>8, <1>10, <1>11, <1>12

\* Of two such integers the signature is well formed, so that it is refused only if one
\* of them is not canonical.
LEMMA DERRead ==
    ASSUME NEW r \in Seq(Nat), NEW s \in Seq(Nat),
           Len(r) = Size, Len(s) = Size
    PROVE  ParseDERSignature(buildDERSignature(r, s)) =
              IF Canonical(r) /\ Canonical(s)
              THEN <<Trimmed(r), Trimmed(s)>> ELSE Refused
<1> DEFINE der == buildDERSignature(r, s)
<1>0. Size \in Nat /\ Size >= 1
  BY EncodingConstants
<1>1. /\ Len(der) = 2 * Size + 6
      /\ der[1] = 48 /\ der[2] = 2 * Size + 4 /\ der[3] = 2 /\ der[4] = Size
      /\ der[5 + Size] = 2 /\ der[6 + Size] = Size
      /\ SubSeq(der, 5, 4 + Size) = r /\ SubSeq(der, 7 + Size, 2 * Size + 6) = s
  BY DERBytes
<1>2. /\ 2 * Size + 6 >= 8 /\ 2 * Size + 4 = (2 * Size + 6) - 2 /\ 6 + Size < 2 * Size + 6
  BY <1>0
<1> HIDE DEF der
<1>3. /\ Len(der) >= 8 /\ der[1] = Sequence /\ der[2] = Len(der) - 2
      /\ der[3] = Integer /\ 6 + der[4] < Len(der)
      /\ der[5 + der[4]] = Integer
      /\ SubSeq(der, 5, 4 + der[4]) = r /\ SubSeq(der, 7 + der[4], Len(der)) = s
      /\ der[6 + der[4]] = Len(s)
  BY <1>1, <1>2 DEF Sequence, Integer
<1> QED
  BY <1>3 DEF ParseDERSignature, der

\* A scalar in the fixed length: zeros in front of its bytes.
LEMMA Padded ==
    ASSUME NEW r \in Scalars
    PROVE  LET x == padScalarBytes(r)
               k == Size - Len(r) IN
           /\ r \in Seq(Nat) /\ Len(r) \in 1 .. Size /\ r[1] # 0
           /\ x \in Seq(Nat) /\ Len(x) = Size
           /\ \A i \in 1 .. k : x[i] = 0
           /\ \A i \in 1 .. Len(r) : x[k + i] = r[i]
<1> DEFINE x == padScalarBytes(r)
           l == Len(r)
           k == Size - l
<1>0. Size \in Nat /\ Size >= 1 /\ Bytes \subseteq Nat
  BY EncodingConstants
<1>1. r \in Seq(Nat) /\ l \in 1 .. Size /\ r[1] # 0
  <2>1. PICK n \in 1 .. Size : r \in [1 .. n -> Bytes]
    BY DEF Scalars
  <2>2. r[1] # 0
    BY DEF Scalars
  <2>3. n \in Nat /\ r \in [1 .. n -> Nat]
    <3>1. n \in Nat
      BY <1>0
    <3>2. \A i \in 1 .. n : r[i] \in Nat
      BY <1>0, <2>1
    <3> QED
      BY <2>1, <3>1, <3>2
  <2>4. r \in Seq(Nat) /\ Len(r) = n
    BY <2>3
  <2> QED
    BY <2>1, <2>2, <2>4
<1>2. CASE l >= Size
  <2>1. l = Size /\ k = 0 /\ l - Size + 1 = 1
    BY <1>0, <1>1, <1>2
  <2>2. x = r
    <3>1. x = SubSeq(r, 1, Len(r))
      BY <1>2, <2>1 DEF padScalarBytes
    <3> QED
      BY <3>1, <1>1, SubSeqFull
  <2> HIDE DEF x, k
  <2>3. \A i \in 1 .. l : k + i = i
    BY <1>0, <2>1
  <2> QED
    BY <1>1, <2>1, <2>2, <2>3 DEF x, k
<1>3. CASE ~ (l >= Size)
  <2> DEFINE z == [i \in 1 .. k |-> 0]
  <2>1. k \in Nat /\ k + l = Size
    BY <1>0, <1>1, <1>3
  <2>2. x = z \o r
    BY <1>3 DEF padScalarBytes
  <2> HIDE DEF x, k, l
  <2>3. z \in Seq(Nat) /\ Len(z) = k /\ \A i \in 1 .. k : z[i] = 0
    BY <2>1
  <2> HIDE DEF z
  <2>4. /\ z \o r \in Seq(Nat) /\ Len(z \o r) = Len(z) + Len(r)
        /\ \A i \in 1 .. Len(z) + Len(r) : (z \o r)[i] = IF i <= Len(z) THEN z[i] ELSE r[i - Len(z)]
    BY <1>1, <2>3, ConcatProperties
  <2>5. /\ x \in Seq(Nat) /\ Len(x) = Size
        /\ \A i \in 1 .. Size : x[i] = IF i <= k THEN z[i] ELSE r[i - k]
    BY <2>1, <2>2, <2>3, <2>4 DEF l
  <2>6. ASSUME NEW i \in 1 .. k PROVE x[i] = 0
    <3>1. i \in 1 .. Size /\ i <= k
      BY <1>1, <2>1
    <3> QED
      BY <2>3, <2>5, <3>1
  <2>7. ASSUME NEW i \in 1 .. l PROVE x[k + i] = r[i]
    <3>1. k + i \in 1 .. Size /\ ~ (k + i <= k) /\ (k + i) - k = i
      BY <1>1, <2>1
    <3> QED
      BY <2>5, <3>1
  <2> QED
    BY <1>1, <2>5, <2>6, <2>7 DEF x, k, l
<1> QED
  BY <1>2, <1>3

\* Reading a padded scalar gives the scalar back.
LEMMA TrimmedPadded ==
    ASSUME NEW r \in Scalars
    PROVE  Trimmed(padScalarBytes(r)) = r
<1> DEFINE x == padScalarBytes(r)
           l == Len(r)
           k == Size - l
           digits == {i \in 1 .. Len(x) : x[i] # 0}
           first == CHOOSE i \in digits : \A j \in digits : i <= j
<1>0. Size \in Nat /\ Size >= 1
  BY EncodingConstants
<1>1. /\ r \in Seq(Nat) /\ l \in 1 .. Size /\ r[1] # 0 /\ x \in Seq(Nat) /\ Len(x) = Size
      /\ \A i \in 1 .. k : x[i] = 0
      /\ \A i \in 1 .. l : x[k + i] = r[i]
  BY Padded
<1>2. k \in Nat /\ k + l = Size /\ l \in Nat
  BY <1>0, <1>1
<1> HIDE DEF x, k, l
<1>3. k + 1 \in digits
  <2>1. k + 1 \in 1 .. Size /\ 1 \in 1 .. l
    BY <1>1, <1>2
  <2> QED
    BY <1>1, <2>1
<1>4. \A j \in digits : k + 1 <= j
  <2> SUFFICES ASSUME NEW j \in digits, ~ (k + 1 <= j) PROVE FALSE
    OBVIOUS
  <2>1. j \in 1 .. k /\ x[j] # 0
    BY <1>0, <1>1, <1>2
  <2> QED
    BY <1>1, <2>1
<1>5. first = k + 1
  <2>1. first \in digits /\ \A j \in digits : first <= j
    BY <1>3, <1>4
  <2>2. first \in Nat
    BY <1>0, <1>1, <2>1
  <2> HIDE DEF first, digits
  <2> QED
    BY <1>2, <1>3, <1>4, <2>1, <2>2
<1>6. Trimmed(x) = SubSeq(x, k + 1, Size)
  <2>1. Trimmed(x) = SubSeq(x, first, Len(x))
    BY <1>3 DEF Trimmed
  <2> HIDE DEF first
  <2> QED
    BY <1>1, <1>5, <2>1
<1> HIDE DEF first, digits
<1>7. SubSeq(x, k + 1, Size) = r
  <2>1. \A i \in k + 1 .. Size : x[i] \in Nat
    <3> SUFFICES ASSUME NEW i \in k + 1 .. Size PROVE x[i] \in Nat
      OBVIOUS
    <3>1. i \in 1 .. Len(x)
      BY <1>0, <1>1, <1>2
    <3> QED
      BY <1>1, <3>1, ElementOfSeq
  <2>2. k + 1 \in Int /\ Size \in Int
    BY <1>0, <1>2
  <2> DEFINE u == SubSeq(x, k + 1, Size)
  <2>3. /\ u \in Seq(Nat) /\ Len(u) = IF k + 1 <= Size THEN Size - (k + 1) + 1 ELSE 0
        /\ \A i \in 1 .. Size - (k + 1) + 1 : u[i] = x[(k + 1) + i - 1]
    BY <2>1, <2>2, SubSeqProperties
  <2> HIDE DEF u
  <2>4. Len(u) = l /\ Size - (k + 1) + 1 = l
    BY <1>0, <1>1, <1>2, <2>3
  <2>5. ASSUME NEW i \in 1 .. l PROVE u[i] = r[i]
    <3>1. (k + 1) + i - 1 = k + i
      BY <1>2
    <3> QED
      BY <1>1, <2>3, <2>4, <3>1
  <2>6. u = r
    BY <1>1, <2>3, <2>4, <2>5, SeqEqual DEF l
  <2> QED
    BY <2>6 DEF u
<1> QED
  BY <1>6, <1>7 DEF x

\* The fixed length is canonical for the scalars that FitsFixedLength names.
LEMMA CanonicalPadded ==
    ASSUME NEW r \in Scalars
    PROVE  Canonical(padScalarBytes(r)) <=> FitsFixedLength(r)
<1> DEFINE x == padScalarBytes(r)
           l == Len(r)
           k == Size - l
<1>0. Size \in Nat /\ Size >= 1 /\ ~ Negative(0)
  BY EncodingConstants
<1>1. /\ r \in Seq(Nat) /\ l \in 1 .. Size /\ r[1] # 0 /\ x \in Seq(Nat) /\ Len(x) = Size
      /\ \A i \in 1 .. k : x[i] = 0
      /\ \A i \in 1 .. l : x[k + i] = r[i]
  BY Padded
<1>2. x # << >> /\ Trimmed(x) # << >>
  <2>1. Trimmed(x) = r
    BY TrimmedPadded
  <2> HIDE DEF x
  <2>2. Len(x) # 0 /\ Len(r) # 0
    BY <1>0, <1>1
  <2> QED
    BY <2>1, <2>2
<1>3. k \in Nat /\ k + l = Size /\ l \in Nat /\ l >= 1
  BY <1>0, <1>1
<1> HIDE DEF x, k, l
<1>4. Canonical(x) <=>
         ~ Negative(x[1]) /\ (Size > 1 /\ x[1] = 0 => Negative(x[2]))
  BY <1>1, <1>2 DEF Canonical
<1>5. FitsFixedLength(r) <=>
         \/ l = Size /\ ~ Negative(r[1])
         \/ l = Size - 1 /\ Negative(r[1])
  BY DEF FitsFixedLength, l
<1>6. CASE k = 0
  <2>1. 1 \in 1 .. l /\ k + 1 = 1 /\ l = Size /\ l # Size - 1
    BY <1>0, <1>3, <1>6
  <2>2. x[1] = r[1]
    BY <1>1, <2>1
  <2> QED
    BY <1>1, <1>4, <1>5, <2>1, <2>2 DEF x
<1>7. CASE k = 1
  <2>1. /\ 1 \in 1 .. l /\ 1 \in 1 .. k /\ k + 1 = 2 /\ l # Size /\ l = Size - 1 /\ Size > 1
    BY <1>0, <1>3, <1>7
  <2>2. x[1] = 0 /\ x[2] = r[1]
    BY <1>1, <2>1
  <2> QED
    BY <1>0, <1>4, <1>5, <2>1, <2>2 DEF x
<1>8. CASE k > 1
  <2>1. 1 \in 1 .. k /\ 2 \in 1 .. k /\ l # Size /\ l # Size - 1 /\ Size > 1
    BY <1>0, <1>3, <1>8
  <2>2. x[1] = 0 /\ x[2] = 0
    BY <1>1, <2>1
  <2> QED
    BY <1>0, <1>4, <1>5, <2>1, <2>2 DEF x
<1> QED
  BY <1>3, <1>6, <1>7, <1>8

\* tss-lib's numbers, as the engine hands them to the conversion.
Numbers == IF engine = "frost" THEN [1 .. Size -> Bytes] ELSE Scalars

\* The bytes are those of the pair from ThresholdSign on, and what VerifySignature read is
\* what they say.
EncodingInv ==
    /\ phase # "signing" =>
          \E r, s \in Numbers :
             /\ pair = <<r, s>>
             /\ signature = IF engine = "frost" THEN convertFROSTSignature(r, s)
                            ELSE convertTSSSignature(r, s)
    /\ phase = "answered" =>
          parsed = IF engine = "frost"
                   THEN IF Len(signature) = 2 * Size
                        THEN <<SubSeq(signature, 1, Size), SubSeq(signature, Size + 1, 2 * Size)>>
                        ELSE Refused
                   ELSE ParseDERSignature(signature)

LEMMA EncodingKeeps ==
    ASSUME EncodingInv, [EncodingNext]_EncodingVars
    PROVE  EncodingInv'
<1>1. CASE EngineSigns
  BY <1>1 DEF EngineSigns, EncodingInv, Numbers
<1>2. CASE CompleteSession
  BY <1>2 DEF CompleteSession, EncodingInv, Numbers
<1>3. CASE VerifySignature
  BY <1>3 DEF VerifySignature, EncodingInv, Numbers
<1>4. CASE UNCHANGED EncodingVars
  BY <1>4 DEF EncodingVars, EncodingInv, Numbers
<1> QED
  BY <1>1, <1>2, <1>3, <1>4 DEF EncodingNext

\* What comes back of a signature: the pair, or nothing.
LEMMA ReadBack ==
    ASSUME EncodingInv, phase = "answered"
    PROVE  \E r, s \in Numbers :
              /\ pair = <<r, s>>
              /\ parsed = IF \/ engine = "frost"
                             \/ FitsFixedLength(r) /\ FitsFixedLength(s)
                          THEN <<r, s>> ELSE << >>
<1>1. PICK r \in Numbers, s \in Numbers :
         /\ pair = <<r, s>>
         /\ signature = IF engine = "frost" THEN convertFROSTSignature(r, s)
                        ELSE convertTSSSignature(r, s)
  BY DEF EncodingInv
<1>2. CASE engine = "frost"
  <2>1. r \in [1 .. Size -> Bytes] /\ s \in [1 .. Size -> Bytes]
    BY <1>2 DEF Numbers
  <2>2. signature = convertFROSTSignature(r, s)
    BY <1>1, <1>2
  <2>3. /\ Len(signature) = 2 * Size /\ SubSeq(signature, 1, Size) = r
        /\ SubSeq(signature, Size + 1, 2 * Size) = s
    BY <2>1, <2>2, FrostRead
  <2>4. parsed = <<r, s>>
    BY <1>2, <2>3 DEF EncodingInv
  <2> QED
    BY <1>1, <1>2, <2>4
<1>3. CASE engine # "frost"
  <2>1. r \in Scalars /\ s \in Scalars
    BY <1>3 DEF Numbers
  <2> DEFINE x == padScalarBytes(r)
             y == padScalarBytes(s)
  <2>2. x \in Seq(Nat) /\ y \in Seq(Nat) /\ Len(x) = Size /\ Len(y) = Size
    BY <2>1, Padded
  <2>3. /\ Trimmed(x) = r /\ Trimmed(y) = s
        /\ Canonical(x) <=> FitsFixedLength(r)
        /\ Canonical(y) <=> FitsFixedLength(s)
    BY <2>1, TrimmedPadded, CanonicalPadded
  <2>4. signature = buildDERSignature(x, y)
    BY <1>1, <1>3 DEF convertTSSSignature
  <2> HIDE DEF x, y
  <2>5. parsed = IF Canonical(x) /\ Canonical(y)
                 THEN <<Trimmed(x), Trimmed(y)>> ELSE Refused
    <3>1. parsed = ParseDERSignature(signature)
      BY <1>3 DEF EncodingInv
    <3> QED
      BY <2>2, <2>4, <3>1, DERRead
  <2>6. parsed = IF FitsFixedLength(r) /\ FitsFixedLength(s)
                 THEN <<r, s>> ELSE << >>
    BY <2>3, <2>5 DEF Refused
  <2> QED
    BY <1>1, <1>3, <2>6
<1> QED
  BY <1>2, <1>3

LEMMA EncodingInvariant == EncodingSpec => []EncodingInv
<1>1. EncodingInit => EncodingInv
  BY DEF EncodingInit, EncodingInv
<1>2. EncodingInv /\ [EncodingNext]_EncodingVars => EncodingInv'
  BY EncodingKeeps
<1> QED
  BY <1>1, <1>2, PTL DEF EncodingSpec

\* No bytes that convertTSSSignature or convertFROSTSignature make are read as another
\* pair of numbers, whatever the size of a scalar.
THEOREM SignaturesAreNotMisread ==
    EncodingSpec => []NeverMisread
<1>1. EncodingInv => NeverMisread
  BY ReadBack DEF NeverMisread, Refused
<1> QED
  BY <1>1, EncodingInvariant, PTL

\* buildDERSignature writes no sign byte and keeps the zeros padScalarBytes puts in
\* front, so that an ECDSA signature is accepted exactly when neither number
\* needs the one or has too many of the other.
THEOREM ExactlyTheseAreAccepted ==
    EncodingSpec => []AcceptedExactly
<1>1. EncodingInv => AcceptedExactly
  <2> SUFFICES ASSUME EncodingInv, phase = "answered"
               PROVE  parsed = pair <=>
                         engine = "frost" \/ \A i \in 1 .. 2 : FitsFixedLength(pair[i])
    BY DEF AcceptedExactly
  <2>1. PICK r \in Numbers, s \in Numbers :
           /\ pair = <<r, s>>
           /\ parsed = IF \/ engine = "frost"
                          \/ FitsFixedLength(r) /\ FitsFixedLength(s)
                       THEN <<r, s>> ELSE << >>
    BY ReadBack
  <2>2. pair[1] = r /\ pair[2] = s /\ pair # << >>
    BY <2>1
  <2>3. (\A i \in 1 .. 2 : FitsFixedLength(pair[i])) <=>
           FitsFixedLength(pair[1]) /\ FitsFixedLength(pair[2])
    <3>1. 1 .. 2 = {1, 2}
      OBVIOUS
    <3> QED
      BY <3>1
  <2> QED
    BY <2>1, <2>2, <2>3
<1> QED
  BY <1>1, EncodingInvariant, PTL

===============================================================================
