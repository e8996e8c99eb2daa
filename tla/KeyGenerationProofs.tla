------------------------ MODULE KeyGenerationProofs ------------------------
(***************************************************************************)
(* Proofs about KeyGeneration for every group of participants, number of   *)
(* rounds and set of faults.                                               *)
(***************************************************************************)
EXTENDS KeyGeneration, FiniteSetTheorems, TLAPS

\* A node that waits for a call is routing the message the call carries.
CallHasItem == \A n \in Nodes : call[n] # NoCall => item[n] \in Items

\* A run that may take messages from its queue has a party.
RunHasParty == \A n \in Nodes : run[n] \in {"registered", "running"} => n \in active

IInv == TypeOK /\ CallHasItem /\ RunHasParty

\* The initial state is well-typed.
LEMMA InitIInv == Init => IInv
<1> SUFFICES ASSUME Init PROVE IInv
  OBVIOUS
<1>1. 1 \in Incarnations
  BY ConstantsAssumption DEF Incarnations
<1>2. NoKeyData \in Transcripts
  BY DEF NoKeyData, Transcripts
<1>3. TypeOK
  BY <1>1, <1>2, ConstantsAssumption DEF Init, TypeOK, Run
<1>4. CallHasItem /\ RunHasParty
  BY DEF Init, CallHasItem, RunHasParty
<1> QED
  BY <1>3, <1>4 DEF IInv

\* Starting a run, or not starting it again, touches no run in progress.
LEMMA LaunchKeeps ==
    ASSUME TypeOK, NEW n \in Nodes, Launch(n)
    PROVE  /\ once' \subseteq Nodes
           /\ run' \in [Nodes -> Run]
           /\ \A m \in Nodes : run'[m] # "starting" => run'[m] = run[m]
<1>1. CASE n \in once
  BY <1>1 DEF Launch, TypeOK
<1>2. CASE n \notin once
  BY <1>2 DEF Launch, TypeOK, Run
<1> QED
  BY <1>1, <1>2

\* The coordinator's steps and the leader's launch.
LEMMA StartingKeeps ==
    ASSUME IInv, CreateDKGSession \/ StartDKG \/ StartDKGFails
    PROVE  IInv'
<1>1. CASE CreateDKGSession
  BY <1>1 DEF IInv, TypeOK, CallHasItem, RunHasParty, CreateDKGSession, party
<1>2. CASE StartDKG
  <2>1. /\ once' \subseteq Nodes
        /\ run' \in [Nodes -> Run]
        /\ \A m \in Nodes : run'[m] # "starting" => run'[m] = run[m]
    BY <1>2, LaunchKeeps, ConstantsAssumption DEF StartDKG, IInv
  <2> QED
    BY <1>2, <2>1 DEF IInv, TypeOK, CallHasItem, RunHasParty, StartDKG, party
<1>3. CASE StartDKGFails
  BY <1>3 DEF IInv, TypeOK, CallHasItem, RunHasParty, StartDKGFails, party
<1> QED
  BY <1>1, <1>2, <1>3

\* The two locked sections of executeKeygen.
LEMMA RegistrationKeeps ==
    ASSUME IInv, NEW n \in Nodes, RegisterParty(n) \/ CreateQueue(n)
    PROVE  IInv'
<1>1. CASE RegisterParty(n)
  BY <1>1 DEF IInv, TypeOK, CallHasItem, RunHasParty, RegisterParty, party, Run
<1>2. CASE CreateQueue(n)
  BY <1>2 DEF IInv, TypeOK, CallHasItem, RunHasParty, CreateQueue, party, Run
<1> QED
  BY <1>1, <1>2

\* Entering a round puts one item on outCh.
LEMMA EnterRoundKeeps ==
    ASSUME TypeOK, NEW n \in Nodes, NEW r \in 1..Rounds, EnterRound(n, r)
    PROVE  round' \in [Nodes -> 0..(Rounds + 1)] /\ out' \in [Nodes -> Seq(Items)]
<1>1. r \in 0..(Rounds + 1)
  BY ConstantsAssumption
<1>2. [round |-> r, to |-> Others(n)] \in Items
  BY DEF Items, Others
<1>3. out[n] \in Seq(Items)
  BY DEF TypeOK
<1>4. Append(out[n], [round |-> r, to |-> Others(n)]) \in Seq(Items)
  BY <1>2, <1>3
<1> QED
  BY <1>1, <1>4 DEF EnterRound, TypeOK

\* The party starts, or goes on to the next round or to its end.
LEMMA PartyKeeps ==
    ASSUME IInv, NEW n \in Nodes, PartyStart(n) \/ PartyAdvance(n)
    PROVE  IInv'
<1>1. TypeOK /\ Rounds \in Nat \ {0}
  BY ConstantsAssumption DEF IInv
<1>2. CASE PartyStart(n)
  <2>1. 1 \in 1..Rounds
    BY <1>1
  <2>2. round' \in [Nodes -> 0..(Rounds + 1)] /\ out' \in [Nodes -> Seq(Items)]
    BY <1>1, <1>2, <2>1, EnterRoundKeeps DEF PartyStart
  <2> QED
    BY <1>2, <2>2 DEF IInv, TypeOK, CallHasItem, RunHasParty, PartyStart
<1>3. CASE PartyAdvance(n)
  <2>1. round[n] \in 1..Rounds
    BY <1>3 DEF PartyAdvance, CanProceed
  <2>2. round' \in [Nodes -> 0..(Rounds + 1)] /\ out' \in [Nodes -> Seq(Items)]
    <3>1. CASE round[n] < Rounds
      <4>1. round[n] + 1 \in 1..Rounds
        BY <1>1, <2>1, <3>1
      <4> QED
        BY <1>1, <1>3, <3>1, <4>1, EnterRoundKeeps DEF PartyAdvance
    <3>2. CASE ~ (round[n] < Rounds)
      <4>1. round' = [round EXCEPT ![n] = Rounds + 1] /\ UNCHANGED out
        BY <1>3, <3>2 DEF PartyAdvance
      <4>2. Rounds + 1 \in 0..(Rounds + 1)
        BY <1>1
      <4> QED
        BY <1>1, <4>1, <4>2 DEF TypeOK
    <3> QED
      BY <3>1, <3>2
  <2>3. script' \in [Nodes -> Transcripts]
    <3> DEFINE t == [m \in Nodes |-> IF m = n THEN inc[n] ELSE seen[n][m][1]]
    <3>1. \A m \in Nodes : inc[n] \in Incarnations /\ seen[n][m][1] \in Incarnations \cup {0}
      BY <1>1 DEF TypeOK
    <3>2. t \in Transcripts
      BY <3>1 DEF Transcripts
    <3>3. script' = IF round[n] > 1 THEN script ELSE [script EXCEPT ![n] = t]
      BY <1>3 DEF PartyAdvance
    <3> HIDE DEF t
    <3> QED
      BY <1>1, <3>2, <3>3 DEF TypeOK
  <2> QED
    BY <1>3, <2>2, <2>3 DEF IInv, TypeOK, CallHasItem, RunHasParty, PartyAdvance
<1> QED
  BY <1>2, <1>3

\* A message goes from the queue to the party.
LEMMA ProcessMessageKeeps ==
    ASSUME IInv, NEW n \in Nodes, NEW m \in Messages, ProcessMessage(n, m)
    PROVE  IInv'
<1>1. m.from \in Nodes /\ m.round \in 1..Rounds /\ m.inc \in Incarnations \cup {0}
  BY DEF Messages
<1>2. seen' \in [Nodes -> [Nodes -> [1..Rounds -> Incarnations \cup {0}]]]
  BY <1>1 DEF ProcessMessage, IInv, TypeOK
<1>3. queue' \in [Nodes -> SUBSET Messages]
  BY DEF ProcessMessage, IInv, TypeOK
<1> QED
  BY <1>2, <1>3 DEF ProcessMessage, IInv, TypeOK, CallHasItem, RunHasParty

\* The loop takes an item from outCh: all of it, or one target's part.
LEMMA ReceiveOutKeeps ==
    ASSUME IInv, NEW n \in Nodes, ReceiveOut(n)
    PROVE  IInv'
<1> DEFINE h == Head(out[n])
<1>1. TypeOK /\ out[n] \in Seq(Items) /\ out[n] # << >>
  BY DEF ReceiveOut, IInv, TypeOK
<1>2. h \in Items /\ Tail(out[n]) \in Seq(Items) /\ 1 \in 1..Len(out[n]) /\ out[n][1] = h
  BY <1>1
<1>3. item' \in [Nodes -> Items \cup {Idle}] /\ item'[n] \in Items /\ out' \in [Nodes -> Seq(Items)]
      /\ \A m \in Nodes \ {n} : item'[m] = item[m]
  <2>1. CASE h.round \in UnicastRounds
    <3>1. PICK t \in h.to :
             /\ item' = [item EXCEPT ![n] = [h EXCEPT !.to = {t}]]
             /\ out' = [out EXCEPT ![n] = IF h.to = {t} THEN Tail(@)
                                          ELSE [@ EXCEPT ![1].to = h.to \ {t}]]
      BY <2>1 DEF ReceiveOut
    <3>2. [h EXCEPT !.to = {t}] \in Items /\ [h EXCEPT !.to = h.to \ {t}] \in Items
      BY <1>2 DEF Items
    <3>3. [out[n] EXCEPT ![1].to = h.to \ {t}] = [out[n] EXCEPT ![1] = [h EXCEPT !.to = h.to \ {t}]]
      BY <1>2
    <3>4. [out[n] EXCEPT ![1] = [h EXCEPT !.to = h.to \ {t}]] \in Seq(Items)
      BY <1>1, <1>2, <3>2
    <3> HIDE DEF h
    <3> QED
      BY <1>1, <1>2, <3>1, <3>2, <3>3, <3>4 DEF TypeOK
  <2>2. CASE h.round \notin UnicastRounds
    <3>1. item' = [item EXCEPT ![n] = h] /\ out' = [out EXCEPT ![n] = Tail(@)]
      BY <2>2 DEF ReceiveOut
    <3> HIDE DEF h
    <3> QED
      BY <1>1, <1>2, <3>1 DEF TypeOK
  <2> QED
    BY <2>1, <2>2
<1> HIDE DEF h
<1> QED
  BY <1>3 DEF ReceiveOut, IInv, TypeOK, CallHasItem, RunHasParty

\* The loop calls the next target of the item.
LEMMA SendKeygenMessageKeeps ==
    ASSUME IInv, NEW n \in Nodes, NEW t \in Nodes, SendKeygenMessage(n, t)
    PROVE  IInv'
<1>1. item[n] \in Items
  BY DEF SendKeygenMessage, IInv, TypeOK, Idle
<1>2. [to |-> t, state |-> "sent"] \in Calls
  BY DEF Calls
<1> QED
  BY <1>1, <1>2 DEF SendKeygenMessage, IInv, TypeOK, CallHasItem, RunHasParty, party

\* A call has returned, and the item loses its target or the run ends.
LEMMA SendReturnsKeeps ==
    ASSUME IInv, NEW n \in Nodes, SendReturns(n)
    PROVE  IInv'
<1>1. call[n] # NoCall
  BY DEF SendReturns, NoCall
<1>2. item[n] \in Items
  BY <1>1 DEF IInv, CallHasItem
<1>3. [round |-> item[n].round, to |-> item[n].to \ {call[n].to}] \in Items
  BY <1>2 DEF Items
<1>4. /\ item' \in [Nodes -> Items \cup {Idle}]
      /\ run' \in [Nodes -> Run]
      /\ \A m \in Nodes : run'[m] # "ended" => run'[m] = run[m]
      /\ \A m \in Nodes \ {n} : item'[m] = item[m]
  <2>1. CASE call[n].state = "rejected" /\ item[n].round \in UnicastRounds
    BY <2>1 DEF SendReturns, IInv, TypeOK, Run
  <2>2. CASE ~ (call[n].state = "rejected" /\ item[n].round \in UnicastRounds)
    <3> DEFINE rest == [round |-> item[n].round, to |-> item[n].to \ {call[n].to}]
    <3>1. /\ item' = [item EXCEPT ![n] = IF @.to = {call[n].to} THEN Idle ELSE rest]
          /\ UNCHANGED run
      BY <2>2 DEF SendReturns
    <3> HIDE DEF rest
    <3>2. rest \in Items
      BY <1>3 DEF rest
    <3> QED
      BY <3>1, <3>2 DEF IInv, TypeOK
  <2> QED
    BY <2>1, <2>2
<1>5. call' \in [Nodes -> Calls \cup {NoCall}] /\ call' = [call EXCEPT ![n] = NoCall]
  BY DEF SendReturns, IInv, TypeOK
<1> QED
  BY <1>4, <1>5 DEF SendReturns, IInv, TypeOK, CallHasItem, RunHasParty, party

\* The other three cases of the select statement.
LEMMA SelectKeeps ==
    ASSUME IInv, NEW n \in Nodes, ReceiveEnd(n) \/ KeygenTimeout(n) \/ ReceiveErr(n)
    PROVE  IInv'
<1>1. CASE ReceiveEnd(n)
  BY <1>1 DEF ReceiveEnd, IInv, TypeOK, CallHasItem, RunHasParty, party, Run
<1>2. CASE KeygenTimeout(n)
  BY <1>2 DEF KeygenTimeout, IInv, TypeOK, CallHasItem, RunHasParty, party, Run
<1>3. CASE ReceiveErr(n)
  BY <1>3 DEF ReceiveErr, IInv, TypeOK, CallHasItem, RunHasParty, party, Run
<1> QED
  BY <1>1, <1>2, <1>3

\* A call of sender n changes its state on the way to the receiver and back.
LEMMA CallKeeps ==
    ASSUME TypeOK, CallHasItem, NEW n \in Nodes, call[n].state # "none",
           NEW state \in {"waiting", "accepted", "rejected"},
           call' = [call EXCEPT ![n].state = state], UNCHANGED item
    PROVE  call' \in [Nodes -> Calls \cup {NoCall}] /\ CallHasItem'
<1>1. call[n] \in Calls
  BY DEF TypeOK, NoCall
<1>2. [call[n] EXCEPT !.state = state] \in Calls
  BY <1>1 DEF Calls
<1>3. call[n] # NoCall
  BY DEF NoCall
<1> QED
  BY <1>2, <1>3 DEF TypeOK, CallHasItem

\* The receiver launches its own run.
LEMMA HandleProtocolMessageKeeps ==
    ASSUME IInv, NEW n \in Nodes, HandleProtocolMessage(n)
    PROVE  IInv'
<1>1. call[n].state # "none" /\ TypeOK /\ CallHasItem
  BY DEF HandleProtocolMessage, IInv
<1>2. call' \in [Nodes -> Calls \cup {NoCall}] /\ CallHasItem'
  BY <1>1, CallKeeps DEF HandleProtocolMessage
<1>3. call[n].to \in Nodes
  BY ConstantsAssumption DEF IInv, TypeOK, Calls, NoCall
<1>4. /\ once' \subseteq Nodes
      /\ run' \in [Nodes -> Run]
      /\ \A m \in Nodes : run'[m] # "starting" => run'[m] = run[m]
  BY <1>1, <1>3, LaunchKeeps DEF HandleProtocolMessage
<1> QED
  BY <1>2, <1>4 DEF HandleProtocolMessage, IInv, TypeOK, RunHasParty, party

\* The receiver enqueues the message.
LEMMA ProcessIncomingKeeps ==
    ASSUME IInv, NEW n \in Nodes, ProcessIncomingKeygenMessage(n)
    PROVE  IInv'
<1> DEFINE t == call[n].to
           m == [from |-> n, round |-> item[n].round, inc |-> inc[n]]
<1>1. call[n].state # "none" /\ call[n] # NoCall /\ TypeOK /\ CallHasItem
  BY DEF ProcessIncomingKeygenMessage, IInv, NoCall
<1>2. call' \in [Nodes -> Calls \cup {NoCall}] /\ CallHasItem'
  BY <1>1, CallKeeps DEF ProcessIncomingKeygenMessage
<1>3. item[n].round \in 1..Rounds
  BY <1>1 DEF CallHasItem, Items
<1>4. m \in Messages
  BY <1>1, <1>3 DEF Messages, TypeOK
<1>5. queue' = [queue EXCEPT ![t] = @ \cup {m}]
  BY DEF ProcessIncomingKeygenMessage
<1> HIDE DEF m, t
<1>6. queue' \in [Nodes -> SUBSET Messages]
  BY <1>1, <1>4, <1>5 DEF TypeOK
<1> QED
  BY <1>2, <1>6 DEF ProcessIncomingKeygenMessage, IInv, TypeOK, RunHasParty, party

\* A call that is refused or lost.
LEMMA CallEndsKeeps ==
    ASSUME IInv, NEW n \in Nodes, QueueWaitTimesOut(n) \/ CallFails(n)
    PROVE  IInv'
<1>1. call[n].state # "none" /\ TypeOK /\ CallHasItem
  BY DEF QueueWaitTimesOut, CallFails, IInv
<1>2. call' \in [Nodes -> Calls \cup {NoCall}] /\ CallHasItem'
  BY <1>1, CallKeeps DEF QueueWaitTimesOut, CallFails
<1> QED
  BY <1>2 DEF QueueWaitTimesOut, CallFails, IInv, TypeOK, RunHasParty, party

\* Storing the key data and reporting the public key.
LEMMA SavingKeeps ==
    ASSUME IInv, NEW n \in Nodes, StoreKeyData(n) \/ CompleteKeygenSession(n)
    PROVE  IInv'
<1>1. CASE StoreKeyData(n)
  <2>1. /\ disk' \in [Nodes -> Transcripts]
        /\ run' \in [Nodes -> Run]
        /\ \A m \in Nodes : run'[m] \notin {"stored", "ended"} => run'[m] = run[m]
    BY <1>1 DEF StoreKeyData, IInv, TypeOK, Run
  <2> QED
    BY <1>1, <2>1 DEF StoreKeyData, IInv, TypeOK, CallHasItem, RunHasParty, party
<1>2. CASE CompleteKeygenSession(n)
  <2>1. session' \in {"none", "pending", "completed"} /\ key' \in Transcripts
    BY <1>2 DEF CompleteKeygenSession, IInv, TypeOK
  <2> QED
    BY <1>2, <2>1 DEF CompleteKeygenSession, IInv, TypeOK, CallHasItem, RunHasParty, party, Run
<1> QED
  BY <1>1, <1>2

\* The restarts of one node are among the restarts of all.
LEMMA RestartBound ==
    ASSUME TypeOK, NEW n \in Nodes, Restarts < MaxRestarts
    PROVE  inc[n] + 1 \in Incarnations
<1> DEFINE S == {p \in Nodes \X Incarnations : p[2] < inc[p[1]]}
           k == inc[n] - 1
           f == [i \in 1..k |-> <<n, i>>]
<1>1. inc[n] \in 1..(MaxRestarts + 1) /\ MaxRestarts \in Nat /\ Incarnations = 1..(MaxRestarts + 1)
  BY ConstantsAssumption DEF TypeOK, Incarnations
<1>2. IsFiniteSet(S)
  <2>1. IsFiniteSet(Incarnations)
    BY <1>1, FS_Interval
  <2>2. IsFiniteSet(Nodes \X Incarnations)
    BY <2>1, ConstantsAssumption, FS_Product
  <2> QED
    BY <2>2, FS_Subset
<1>3. f \in Injection(1..k, S)
  <2>1. \A i \in 1..k : <<n, i>> \in S
    BY <1>1
  <2>2. f \in [1..k -> S]
    BY <2>1
  <2>3. \A i, j \in 1..k : f[i] = f[j] => i = j
    OBVIOUS
  <2> QED
    BY <2>2, <2>3 DEF Injection, IsInjective
<1>4. Cardinality(1..k) <= Cardinality(S)
  BY <1>2, <1>3, FS_Injection
<1>5. Cardinality(1..k) = k
  <2>1. k \in Int /\ 1 \in Int /\ k >= 0
    BY <1>1
  <2>2. Cardinality(1..k) = IF 1 > k THEN 0 ELSE k - 1 + 1
    BY ONLY <2>1, FS_Interval
  <2> HIDE DEF k
  <2> QED
    BY <2>1, <2>2
<1>6. Cardinality(S) < MaxRestarts /\ Cardinality(S) \in Nat
  BY <1>2, FS_CardinalityType DEF Restarts
<1> QED
  BY <1>1, <1>4, <1>5, <1>6

\* A process that comes back has lost all but its files.
LEMMA RestartKeeps ==
    ASSUME IInv, NEW n \in Nodes, Restart(n)
    PROVE  IInv'
<1>1. TypeOK /\ inc[n] + 1 \in Incarnations
  BY RestartBound DEF IInv, Restart
<1>2. NoKeyData \in Transcripts /\ 0 \in 0..(Rounds + 1)
  BY ConstantsAssumption DEF NoKeyData, Transcripts
<1>3. [to |-> n, state |-> "rejected"] \in Calls
  BY DEF Calls
<1>4. /\ call' \in [Nodes -> Calls \cup {NoCall}]
      /\ call'[n] = NoCall
      /\ \A m \in Nodes \ {n} : call'[m] # call[m] => call[m] # NoCall
  BY <1>1, <1>3 DEF Restart, TypeOK, NoCall
<1>5. item' \in [Nodes -> Items \cup {Idle}] /\ \A m \in Nodes \ {n} : item'[m] = item[m]
  BY <1>1 DEF Restart, TypeOK
<1>6. CallHasItem'
  BY <1>4, <1>5 DEF IInv, CallHasItem
<1>7. RunHasParty'
  BY <1>1 DEF IInv, RunHasParty, Restart, TypeOK
<1>8. /\ inc' \in [Nodes -> Incarnations]
      /\ run' \in [Nodes -> Run]
      /\ queue' \in [Nodes -> SUBSET Messages]
      /\ round' \in [Nodes -> 0..(Rounds + 1)]
      /\ script' \in [Nodes -> Transcripts]
  BY <1>1, <1>2 DEF Restart, TypeOK, Run
<1>9. seen' \in [Nodes -> [Nodes -> [1..Rounds -> Incarnations \cup {0}]]]
  <2>1. [m \in Nodes |-> [r \in 1..Rounds |-> 0]] \in [Nodes -> [1..Rounds -> Incarnations \cup {0}]]
    OBVIOUS
  <2> QED
    BY <1>1, <2>1 DEF Restart, TypeOK
<1>10. out' \in [Nodes -> Seq(Items)]
  <2>1. << >> \in Seq(Items)
    OBVIOUS
  <2> QED
    BY <1>1, <2>1 DEF Restart, TypeOK
<1> QED
  BY <1>1, <1>4, <1>5, <1>6, <1>7, <1>8, <1>9, <1>10 DEF IInv, TypeOK, Restart

\* Every step of the specification keeps the invariant.
LEMMA NextKeeps == IInv /\ [Next]_vars => IInv'
<1> SUFFICES ASSUME IInv, [Next]_vars PROVE IInv'
  OBVIOUS
<1>1. CASE CreateDKGSession \/ StartDKG \/ StartDKGFails
  BY <1>1, StartingKeeps
<1>2. ASSUME NEW n \in Nodes, NodeStep(n) PROVE IInv'
  BY <1>2, RegistrationKeeps, PartyKeeps, ProcessMessageKeeps, ReceiveOutKeeps,
     SendKeygenMessageKeeps, SendReturnsKeeps, SelectKeeps, HandleProtocolMessageKeeps,
     ProcessIncomingKeeps, SavingKeeps DEF NodeStep
<1>3. ASSUME NEW n \in Nodes, Fault(n) PROVE IInv'
  BY <1>3, SelectKeeps, CallEndsKeeps, RestartKeeps DEF Fault
<1>4. CASE UNCHANGED vars
  BY <1>4 DEF vars, party, IInv, TypeOK, CallHasItem, RunHasParty
<1> QED
  BY <1>1, <1>2, <1>3, <1>4 DEF Next

\* The inductive invariant holds in every state, with any faults and restarts.
THEOREM Invariance == Spec => []IInv
<1> QED
  BY InitIInv, NextKeeps, PTL DEF Spec

\* Every variable keeps its type, for any number of participants and rounds.
THEOREM TypeCorrect == Spec => []TypeOK
<1>1. IInv => TypeOK
  BY DEF IInv
<1> QED
  BY <1>1, Invariance, PTL

\* What the message loop of executeKeygen takes from its queue finds its party,
\* although party and queue are registered under the lock one after the other.
THEOREM MessagesFindTheirParty == Spec => []LoopFindsParty
<1>1. IInv => LoopFindsParty
  BY DEF IInv, RunHasParty, LoopFindsParty
<1> QED
  BY <1>1, Invariance, PTL

-----------------------------------------------------------------------------
(* What a restart changes                                                  *)

\* The round-one message of m's present life may still get into n's queue.
MayGet(m, n) ==
    \/ round[m] = 0
    \/ \E i \in DOMAIN out[m] : out[m][i].round = 1 /\ n \in out[m][i].to
    \/ /\ item[m].round = 1 /\ n \in item[m].to
       /\ call[m].to = n => call[m].state \in {"none", "sent", "waiting"}

\* n's present life has got a round-one message of m.
Got(n, m) == seen[n][m][1] # 0 \/ \E x \in queue[n] : x.from = m /\ x.round = 1

\* There is a trace of life i of m that is later than its first round.
Past(m, i) ==
    \/ inc[m] = i /\ round[m] >= 2
    \/ \E n \in Nodes :
          \/ disk[n][m] = i
          \/ \E x \in queue[n] : x.from = m /\ x.round >= 2 /\ x.inc = i
          \/ \E r \in 2..Rounds : seen[n][m][r] = i

\* Only one process has restarted.
OneRestarted == \A m, n \in Nodes : m = n \/ inc[m] = 1 \/ inc[n] = 1

\* outCh has the round-one message at its head or not at all, and what is being
\* routed of it is no longer there.
Routed(m) ==
    /\ round[m] = 0 => out[m] = << >> /\ item[m] = Idle
    /\ item[m].round <= round[m]
    /\ call[m] # NoCall => call[m].to \in item[m].to
    /\ \A i \in DOMAIN out[m] :
          /\ out[m][i].round <= round[m]
          /\ out[m][i].round = 1 =>
                i = 1 /\ (item[m].round = 1 => item[m].to \cap out[m][i].to = {})

Routing == OneRestarted /\ \A m \in Nodes : Routed(m)

\* A first life's round-one message is sent once.
GotOnce == \A m, n \in Nodes : m # n /\ inc[m] = 1 /\ Got(n, m) => ~ MayGet(m, n)

\* A first life that got past round one has used up the others' round-one messages:
\* its node's second life does not get them.
Spent ==
    Rounds >= 2 =>
        \A m, n \in Nodes : m # n /\ inc[m] = 1 /\ Past(n, 1) =>
            ~ MayGet(m, n) /\ (inc[n] # 1 => ~ Got(n, m))

\* Of a node's lives at most one gets past round one.
OneLife ==
    \A m \in Nodes : \A i, j \in Incarnations :
        /\ Past(m, i) => i <= inc[m]
        /\ Past(m, i) /\ Past(m, j) => i = j

\* A party that has ended has the last message of each life it committed to.
Committed(n) ==
    /\ round[n] >= 2 => script[n][n] = inc[n] /\ \A m \in Nodes : script[n][m] # 0
    /\ round[n] = Rounds + 1 /\ Rounds >= 2 =>
          \A m \in Others(n) : seen[n][m][Rounds] = script[n][m]

\* What is stored, or about to be, is a whole key.
Saved(n) ==
    /\ run[n] \in {"saving", "stored"} => round[n] = Rounds + 1
    /\ run[n] = "stored" => disk[n] = script[n]
    /\ disk[n] # NoKeyData => \A m \in Nodes : disk[n][m] # 0

\* A node has the key data of the key in the database.
Published ==
    /\ key # NoKeyData => \E n \in Nodes : disk[n] = key
    /\ session # "completed" => key = NoKeyData

Lives ==
    /\ GotOnce /\ Spent /\ OneLife
    /\ \A n \in Nodes : Committed(n) /\ Saved(n)
    /\ Published

\* With one restart, the first round must not be the last, and there has to be a peer:
\* ValidateKeyGenRequest asks for a threshold of two, and tss-lib's keygen has three rounds.
OneRestartIsSafe == MaxRestarts = 0 \/ (MaxRestarts = 1 /\ Rounds >= 2 /\ Nodes # {Leader})

-----------------------------------------------------------------------------
(* Routing                                                                 *)

\* With one restart to spend, a process that restarts is the first to do so.
LEMMA FirstRestart ==
    ASSUME IInv, MaxRestarts <= 1, NEW n \in Nodes, Restart(n)
    PROVE  MaxRestarts = 1 /\ \A m \in Nodes : inc[m] = 1
<1> DEFINE S == {p \in Nodes \X Incarnations : p[2] < inc[p[1]]}
<1>1. MaxRestarts \in Nat /\ 1 \in Incarnations /\ inc \in [Nodes -> Incarnations]
  BY ConstantsAssumption DEF Incarnations, IInv, TypeOK
<1>2. IsFiniteSet(Incarnations)
  <2>1. Incarnations = 1..(MaxRestarts + 1) /\ 1 \in Int /\ MaxRestarts + 1 \in Int
    BY <1>1 DEF Incarnations
  <2> QED
    BY <2>1, FS_Interval
<1>3. IsFiniteSet(S) /\ Cardinality(S) \in Nat
  BY <1>2, ConstantsAssumption, FS_Product, FS_Subset, FS_CardinalityType
<1>4. Cardinality(S) < MaxRestarts
  BY DEF Restart, Restarts
<1>5. MaxRestarts = 1 /\ Cardinality(S) = 0
  BY <1>1, <1>3, <1>4
<1>6. S = {}
  BY <1>3, <1>5, FS_EmptySet
<1>7. ASSUME NEW m \in Nodes PROVE inc[m] = 1
  <2>1. <<m, 1>> \in Nodes \X Incarnations /\ <<m, 1>> \notin S
    BY <1>1, <1>6
  <2>2. ~ (1 < inc[m])
    BY <2>1
  <2> QED
    BY <1>1, <2>2 DEF Incarnations
<1> QED
  BY <1>5, <1>7

\* Most steps only take possibilities away.
SendsNoMore == \A m, n \in Nodes : MayGet(m, n)' => MayGet(m, n)

\* A step that routes nothing new.
LEMMA RoutedFrame ==
    ASSUME NEW m \in Nodes, Routed(m),
           round'[m] = round[m], out'[m] = out[m], item'[m] = item[m],
           call'[m] = NoCall \/ (call[m] # NoCall /\ call'[m].to = call[m].to)
    PROVE  Routed(m)'
  BY DEF Routed

\* Nor does it make a message possible.
LEMMA MayGetFrame ==
    ASSUME NEW m \in Nodes, NEW n \in Nodes, MayGet(m, n)',
           round'[m] = round[m], out'[m] = out[m], item'[m] = item[m], call'[m] = call[m]
    PROVE  MayGet(m, n)
  BY DEF MayGet

\* The party enters a round.
LEMMA PartyRouted ==
    ASSUME IInv, Routing, NEW n \in Nodes, PartyStart(n) \/ PartyAdvance(n)
    PROVE  SendsNoMore /\ \A m \in Nodes : Routed(m)'
<1>1. UNCHANGED <<item, call>> /\ \A m \in Nodes \ {n} : round'[m] = round[m] /\ out'[m] = out[m]
  BY DEF PartyStart, PartyAdvance, EnterRound, IInv, TypeOK
<1>2. round[n] \in Nat /\ Rounds \in Nat /\ Rounds >= 1 /\ Routed(n)
  BY ConstantsAssumption DEF IInv, TypeOK, Routing
<1>3. out[n] \in Seq(Items) /\ item[n] \in Items \cup {Idle}
  BY DEF IInv, TypeOK
<1>4. item[n].round \in Nat /\ \A i \in DOMAIN out[n] : out[n][i].round \in 1..Rounds
  <2>1. \A i \in DOMAIN out[n] : out[n][i] \in Items
    BY <1>3
  <2> QED
    BY <1>3, <2>1 DEF Items, Idle
<1>5. ASSUME NEW r \in 1..Rounds, r = round[n] + 1, EnterRound(n, r)
      PROVE  Routed(n)' /\ \A t \in Nodes : MayGet(n, t)' => MayGet(n, t)
  <2> DEFINE e == [round |-> r, to |-> Others(n)]
  <2>1. round'[n] = r /\ out'[n] = Append(out[n], e)
    BY <1>5 DEF EnterRound, IInv, TypeOK
  <2>2. e \in Items
    BY DEF Items, Others
  <2>3. /\ DOMAIN out'[n] = 1..(Len(out[n]) + 1) /\ Len(out[n]) \in Nat
        /\ out'[n][Len(out[n]) + 1] = e
        /\ \A i \in 1..Len(out[n]) : out'[n][i] = out[n][i] /\ i \in DOMAIN out[n]
    BY <1>3, <2>1, <2>2
  <2>4. e.round = r
    OBVIOUS
  <2>5. r = 1 => Len(out[n]) = 0 /\ item[n].round = 0
    <3> SUFFICES ASSUME r = 1 PROVE Len(out[n]) = 0 /\ item[n].round = 0
      OBVIOUS
    <3>1. round[n] = 0
      BY <1>2, <1>5
    <3> QED
      BY <1>2, <3>1 DEF Routed, Idle
  <2> HIDE DEF e
  <2>6. ASSUME NEW i \in DOMAIN out'[n]
        PROVE  /\ out'[n][i].round <= r
               /\ out'[n][i].round = 1 =>
                     i = 1 /\ (item[n].round = 1 => item[n].to \cap out'[n][i].to = {})
    <3>1. CASE i = Len(out[n]) + 1
      BY <2>3, <2>4, <2>5, <3>1
    <3>2. CASE i \in 1..Len(out[n])
      BY <1>2, <1>4, <1>5, <2>3, <3>2 DEF Routed
    <3> QED
      BY <2>3, <3>1, <3>2
  <2>7. Routed(n)'
    BY <1>1, <1>2, <1>4, <1>5, <2>1, <2>6 DEF Routed
  <2>8. ASSUME NEW t \in Nodes, MayGet(n, t)' PROVE MayGet(n, t)
    <3>1. CASE r = 1
      BY <1>2, <1>5, <3>1 DEF MayGet
    <3>2. CASE r # 1
      <4>1. ASSUME NEW i \in DOMAIN out'[n], out'[n][i].round = 1
            PROVE  i \in DOMAIN out[n] /\ out[n][i] = out'[n][i]
        <5>1. i # Len(out[n]) + 1
          BY <2>3, <2>4, <3>2, <4>1
        <5>2. i \in 1..Len(out[n])
          BY <2>3, <5>1
        <5> QED
          BY <2>3, <5>2
      <4> QED
        BY <1>1, <1>5, <2>1, <2>8, <4>1 DEF MayGet
    <3> QED
      BY <3>1, <3>2
  <2> QED
    BY <2>7, <2>8
<1>6. ASSUME Routed(n)', \A t \in Nodes : MayGet(n, t)' => MayGet(n, t)
      PROVE  SendsNoMore /\ \A m \in Nodes : Routed(m)'
  <2>1. ASSUME NEW m \in Nodes PROVE Routed(m)'
    BY <1>1, <1>6, RoutedFrame DEF Routing
  <2>2. ASSUME NEW m \in Nodes, NEW t \in Nodes, MayGet(m, t)' PROVE MayGet(m, t)
    BY <1>1, <1>6, <2>2, MayGetFrame
  <2> QED
    BY <2>1, <2>2 DEF SendsNoMore
<1>7. CASE PartyStart(n)
  <2>1. round[n] = 0 /\ EnterRound(n, 1)
    BY <1>7 DEF PartyStart
  <2> QED
    BY <1>2, <1>5, <1>6, <2>1
<1>8. CASE PartyAdvance(n)
  <2>1. round[n] \in 1..Rounds
    BY <1>8 DEF PartyAdvance, CanProceed
  <2>2. CASE round[n] < Rounds
    <3>1. EnterRound(n, round[n] + 1) /\ round[n] + 1 \in 1..Rounds
      BY <1>2, <1>8, <2>1, <2>2 DEF PartyAdvance
    <3> QED
      BY <1>5, <1>6, <3>1
  <2>3. CASE ~ (round[n] < Rounds)
    <3>1. round'[n] = Rounds + 1 /\ out' = out /\ round[n] = Rounds
      BY <1>2, <1>8, <2>1, <2>3 DEF PartyAdvance, IInv, TypeOK
    <3>2. Routed(n)'
      BY <1>1, <1>2, <1>4, <3>1 DEF Routed
    <3>3. ASSUME NEW t \in Nodes, MayGet(n, t)' PROVE MayGet(n, t)
      BY <1>1, <1>2, <3>1, <3>3 DEF MayGet
    <3> QED
      BY <1>6, <3>2, <3>3
  <2> QED
    BY <2>2, <2>3
<1> QED
  BY <1>7, <1>8

\* An item with other targets.
LEMMA ItemFor ==
    ASSUME NEW x \in Items, NEW S
    PROVE  [x EXCEPT !.to = S] = [round |-> x.round, to |-> S]
  BY DEF Items

\* The loop takes the head of outCh, or one target's part of it.
LEMMA ReceiveOutRouted ==
    ASSUME IInv, Routing, NEW n \in Nodes, ReceiveOut(n)
    PROVE  SendsNoMore /\ \A m \in Nodes : Routed(m)'
<1> DEFINE h == Head(out[n])
           o == out[n]
<1>1. o \in Seq(Items) /\ o # << >> /\ item[n] = Idle /\ Routed(n) /\ round[n] \in Nat
  BY DEF ReceiveOut, AtSelect, IInv, TypeOK, Routing
<1>2. /\ h \in Items /\ Len(o) \in Nat /\ Len(o) >= 1 /\ DOMAIN o = 1..Len(o) /\ o[1] = h
      /\ Tail(o) \in Seq(Items) /\ DOMAIN Tail(o) = 1..(Len(o) - 1)
      /\ \A i \in 1..(Len(o) - 1) : Tail(o)[i] = o[i + 1]
  BY <1>1
<1>3. /\ UNCHANGED <<round, call>>
      /\ \A m \in Nodes \ {n} : item'[m] = item[m] /\ out'[m] = out[m]
  BY DEF ReceiveOut, IInv, TypeOK
<1>4. call[n] = NoCall /\ h.round <= round[n] /\ round[n] # 0
  <2>1. call[n] = NoCall
    BY <1>1 DEF Routed, Idle
  <2>2. h.round <= round[n] /\ h.round \in Nat /\ h.round >= 1
    BY <1>1, <1>2, ConstantsAssumption DEF Routed, Items
  <2> QED
    BY <1>1, <2>1, <2>2
<1>5. \A i \in 1..Len(o) : o[i].round <= round[n] /\ (o[i].round = 1 => i = 1)
  BY <1>1, <1>2 DEF Routed
<1>6. \/ item'[n] = h /\ out'[n] = Tail(o)
      \/ \E t \in h.to :
            /\ item'[n] = [round |-> h.round, to |-> {t}]
            /\ \/ out'[n] = Tail(o)
               \/ out'[n] = [o EXCEPT ![1] = [round |-> h.round, to |-> h.to \ {t}]]
  <2>1. CASE h.round \in UnicastRounds
    <3>1. PICK t \in h.to :
             /\ item' = [item EXCEPT ![n] = [h EXCEPT !.to = {t}]]
             /\ out' = [out EXCEPT ![n] = IF h.to = {t} THEN Tail(@)
                                          ELSE [@ EXCEPT ![1].to = h.to \ {t}]]
      BY <2>1 DEF ReceiveOut
    <3>2. /\ [h EXCEPT !.to = {t}] = [round |-> h.round, to |-> {t}]
          /\ [h EXCEPT !.to = h.to \ {t}] = [round |-> h.round, to |-> h.to \ {t}]
      BY <1>2, ItemFor
    <3>3. [o EXCEPT ![1].to = h.to \ {t}] = [o EXCEPT ![1] = [h EXCEPT !.to = h.to \ {t}]]
      BY <1>2
    <3>4. /\ item'[n] = [h EXCEPT !.to = {t}]
          /\ out'[n] = IF h.to = {t} THEN Tail(o) ELSE [o EXCEPT ![1].to = h.to \ {t}]
      BY <3>1 DEF IInv, TypeOK
    <3> QED
      BY <3>2, <3>3, <3>4
  <2>2. CASE h.round \notin UnicastRounds
    <3>1. item' = [item EXCEPT ![n] = h] /\ out' = [out EXCEPT ![n] = Tail(@)]
      BY <2>2 DEF ReceiveOut
    <3> QED
      BY <3>1 DEF IInv, TypeOK
  <2> QED
    BY <2>1, <2>2
<1> HIDE DEF h, o
<1>7. item'[n].round = h.round /\ item'[n].to \subseteq h.to
  <2>1. CASE item'[n] = h
    BY <2>1
  <2>2. ASSUME NEW t \in h.to, item'[n] = [round |-> h.round, to |-> {t}]
        PROVE  item'[n].round = h.round /\ item'[n].to \subseteq h.to
    BY <2>2
  <2> QED
    BY <1>6, <2>1, <2>2
<1>8. CASE out'[n] = Tail(o)
  <2>1. ASSUME NEW i \in DOMAIN out'[n]
        PROVE  /\ i + 1 \in 1..Len(o) /\ out'[n][i] = o[i + 1]
               /\ out'[n][i].round <= round[n] /\ out'[n][i].round # 1
    <3>1. i \in 1..(Len(o) - 1)
      BY <1>2, <1>8, <2>1
    <3>2. i + 1 \in 1..Len(o) /\ i + 1 # 1
      BY <1>2, <3>1
    <3> QED
      BY <1>2, <1>5, <1>8, <3>1, <3>2
  <2>2. Routed(n)'
    BY <1>3, <1>4, <1>7, <2>1 DEF Routed
  <2>3. ASSUME NEW t \in Nodes, MayGet(n, t)' PROVE MayGet(n, t)
    <3>1. item'[n].round = 1 /\ t \in item'[n].to
      BY <1>3, <1>4, <2>1, <2>3 DEF MayGet
    <3>2. h.round = 1 /\ t \in h.to
      BY <1>7, <3>1
    <3> QED
      BY <1>2, <3>2 DEF MayGet, o
  <2> QED
    BY <1>3, <2>2, <2>3, RoutedFrame, MayGetFrame DEF SendsNoMore, Routing
<1>9. ASSUME NEW t \in h.to,
             item'[n] = [round |-> h.round, to |-> {t}],
             out'[n] = [o EXCEPT ![1] = [round |-> h.round, to |-> h.to \ {t}]]
      PROVE  SendsNoMore /\ \A m \in Nodes : Routed(m)'
  <2>1. /\ DOMAIN out'[n] = 1..Len(o) /\ 1 \in 1..Len(o)
        /\ out'[n][1].round = h.round /\ out'[n][1].to = h.to \ {t}
        /\ \A i \in 1..Len(o) : i # 1 => out'[n][i] = o[i]
    <3>1. DOMAIN out'[n] = 1..Len(o) /\ 1 \in 1..Len(o)
      BY <1>2, <1>9
    <3>2. out'[n][1] = [round |-> h.round, to |-> h.to \ {t}]
      BY <1>2, <1>9, <3>1
    <3> QED
      BY <1>2, <1>9, <3>1, <3>2
  <2>2. Routed(n)'
    <3>1. ASSUME NEW i \in DOMAIN out'[n]
          PROVE  /\ out'[n][i].round <= round[n]
                 /\ out'[n][i].round = 1 => i = 1 /\ item'[n].to \cap out'[n][i].to = {}
      <4>1. CASE i = 1
        BY <1>4, <1>9, <2>1, <4>1
      <4>2. CASE i # 1
        BY <1>5, <2>1, <4>2
      <4> QED
        BY <4>1, <4>2
    <3> QED
      BY <1>3, <1>4, <1>7, <3>1 DEF Routed
  <2>3. ASSUME NEW u \in Nodes, MayGet(n, u)' PROVE MayGet(n, u)
    <3>1. \/ \E i \in DOMAIN out'[n] : out'[n][i].round = 1 /\ u \in out'[n][i].to
          \/ item'[n].round = 1 /\ u \in item'[n].to
      BY <1>3, <1>4, <2>3 DEF MayGet
    <3>2. h.round = 1 /\ u \in h.to
      <4>1. CASE item'[n].round = 1 /\ u \in item'[n].to
        BY <1>7, <4>1
      <4>2. ASSUME NEW i \in DOMAIN out'[n], out'[n][i].round = 1, u \in out'[n][i].to
            PROVE  h.round = 1 /\ u \in h.to
        <5>1. i = 1
          BY <1>5, <2>1, <4>2
        <5> QED
          BY <2>1, <4>2, <5>1
      <4> QED
        BY <3>1, <4>1, <4>2
    <3> QED
      BY <1>2, <3>2 DEF MayGet, o
  <2> QED
    BY <1>3, <2>2, <2>3, RoutedFrame, MayGetFrame DEF SendsNoMore, Routing
<1> QED
  BY <1>6, <1>8, <1>9

\* The loop begins a call for a target of the item, or its call returns.
LEMMA CallRouted ==
    ASSUME IInv, Routing, NEW n \in Nodes,
           SendReturns(n) \/ \E t \in Nodes : SendKeygenMessage(n, t)
    PROVE  SendsNoMore /\ \A m \in Nodes : Routed(m)'
<1>1. /\ UNCHANGED <<round, out>> /\ Routed(n) /\ round[n] \in Nat
      /\ \A m \in Nodes \ {n} : item'[m] = item[m] /\ call'[m] = call[m]
  BY DEF SendReturns, SendKeygenMessage, party, IInv, TypeOK, Routing
<1>2. ASSUME Routed(n)', \A t \in Nodes : MayGet(n, t)' => MayGet(n, t)
      PROVE  SendsNoMore /\ \A m \in Nodes : Routed(m)'
  <2>1. ASSUME NEW m \in Nodes PROVE Routed(m)'
    BY <1>1, <1>2, RoutedFrame DEF Routing
  <2>2. ASSUME NEW m \in Nodes, NEW t \in Nodes, MayGet(m, t)' PROVE MayGet(m, t)
    BY <1>1, <1>2, <2>2, MayGetFrame
  <2> QED
    BY <2>1, <2>2 DEF SendsNoMore
<1>3. ASSUME NEW t \in Nodes, SendKeygenMessage(n, t)
      PROVE  SendsNoMore /\ \A m \in Nodes : Routed(m)'
  <2>1. /\ call[n] = NoCall /\ t \in item[n].to /\ UNCHANGED item
        /\ call'[n] = [to |-> t, state |-> "sent"]
    BY <1>3 DEF SendKeygenMessage, IInv, TypeOK
  <2>2. Routed(n)'
    BY <1>1, <2>1 DEF Routed
  <2>3. \A u \in Nodes : MayGet(n, u)' => MayGet(n, u)
    BY <1>1, <2>1 DEF MayGet, NoCall
  <2> QED
    BY <1>2, <2>2, <2>3
<1>4. CASE SendReturns(n)
  <2>1. call'[n] = NoCall /\ call[n] # NoCall /\ call[n].to \in item[n].to /\ item[n] \in Items
    BY <1>1, <1>4 DEF SendReturns, NoCall, IInv, TypeOK, CallHasItem, Routed
  <2>2. \/ item'[n] = Idle
        \/ item'[n] = [round |-> item[n].round, to |-> item[n].to \ {call[n].to}]
    BY <1>4 DEF SendReturns, IInv, TypeOK
  <2>3. /\ item'[n].round \in {0, item[n].round} /\ item'[n].to \subseteq item[n].to \ {call[n].to}
        /\ round[n] = 0 => item'[n] = Idle
    <3>1. round[n] # 0
      BY <1>1, <2>1, ConstantsAssumption DEF Routed, Idle, Items
    <3>2. CASE item'[n] = Idle
      BY <3>1, <3>2 DEF Idle
    <3>3. CASE item'[n] = [round |-> item[n].round, to |-> item[n].to \ {call[n].to}]
      BY <3>1, <3>3
    <3> QED
      BY <2>2, <3>2, <3>3
  <2>4. item[n].round \in Nat
    BY <2>1 DEF Items
  <2>5. Routed(n)'
    <3>1. item'[n].round <= round[n] /\ (item'[n].round = 1 => item[n].round = 1)
      BY <1>1, <2>3, <2>4 DEF Routed
    <3> QED
      BY <1>1, <2>1, <2>3, <3>1 DEF Routed
  <2>6. ASSUME NEW u \in Nodes, MayGet(n, u)' PROVE MayGet(n, u)
    <3>1. CASE item'[n].round = 1 /\ u \in item'[n].to
      BY <2>3, <3>1 DEF MayGet
    <3> QED
      BY <1>1, <2>6, <3>1 DEF MayGet
  <2> QED
    BY <1>2, <2>5, <2>6
<1> QED
  BY <1>3, <1>4

\* The other steps route nothing; those of a call in flight only change its state.
LEMMA OthersRouted ==
    ASSUME IInv, Routing,
           \/ CreateDKGSession \/ StartDKG \/ StartDKGFails
           \/ \E n \in Nodes :
                 \/ RegisterParty(n) \/ CreateQueue(n) \/ (\E x \in Messages : ProcessMessage(n, x))
                 \/ ReceiveEnd(n) \/ KeygenTimeout(n) \/ ReceiveErr(n)
                 \/ StoreKeyData(n) \/ CompleteKeygenSession(n)
                 \/ HandleProtocolMessage(n) \/ ProcessIncomingKeygenMessage(n)
                 \/ QueueWaitTimesOut(n) \/ CallFails(n)
           \/ UNCHANGED vars
    PROVE  SendsNoMore /\ \A m \in Nodes : Routed(m)'
<1>1. ASSUME UNCHANGED <<round, out, item, call>>
      PROVE  SendsNoMore /\ \A m \in Nodes : Routed(m)'
  <2>1. \A m \in Nodes : Routed(m)'
    BY <1>1 DEF Routing, Routed
  <2>2. SendsNoMore
    BY <1>1 DEF SendsNoMore, MayGet
  <2> QED
    BY <2>1, <2>2
<1>2. CASE \/ CreateDKGSession \/ StartDKG \/ StartDKGFails
           \/ \E n \in Nodes :
                 \/ RegisterParty(n) \/ CreateQueue(n) \/ (\E x \in Messages : ProcessMessage(n, x))
                 \/ ReceiveEnd(n) \/ KeygenTimeout(n) \/ ReceiveErr(n)
                 \/ StoreKeyData(n) \/ CompleteKeygenSession(n)
           \/ UNCHANGED vars
  BY <1>1, <1>2 DEF CreateDKGSession, StartDKG, StartDKGFails, RegisterParty, CreateQueue,
     ProcessMessage, ReceiveEnd, KeygenTimeout, ReceiveErr, StoreKeyData, CompleteKeygenSession,
     vars, party
<1>3. ASSUME NEW n \in Nodes, UNCHANGED <<round, out, item>>,
             NEW s \in {"waiting", "accepted", "rejected"},
             call' = [call EXCEPT ![n].state = s], call[n].state # "none",
             call[n].state \in {"sent", "waiting"} \/ s = "rejected"
      PROVE  SendsNoMore /\ \A m \in Nodes : Routed(m)'
  <2>1. call \in [Nodes -> Calls \cup {NoCall}] /\ call[n] # NoCall /\ call[n] \in Calls
    BY <1>3 DEF IInv, TypeOK, NoCall
  <2>2. call'[n].to = call[n].to /\ call'[n].state = s /\ \A m \in Nodes \ {n} : call'[m] = call[m]
    BY <1>3, <2>1 DEF Calls
  <2>3. ASSUME NEW m \in Nodes PROVE Routed(m)'
    BY <1>3, <2>1, <2>2 DEF Routing, Routed
  <2>4. ASSUME NEW m \in Nodes, NEW t \in Nodes, MayGet(m, t)' PROVE MayGet(m, t)
    BY <1>3, <2>2, <2>4 DEF MayGet
  <2> QED
    BY <2>3, <2>4 DEF SendsNoMore
<1>4. ASSUME NEW n \in Nodes,
             \/ HandleProtocolMessage(n) \/ ProcessIncomingKeygenMessage(n)
             \/ QueueWaitTimesOut(n) \/ CallFails(n)
      PROVE  SendsNoMore /\ \A m \in Nodes : Routed(m)'
  <2>1. UNCHANGED <<round, out, item>>
    BY <1>4 DEF HandleProtocolMessage, ProcessIncomingKeygenMessage, QueueWaitTimesOut, CallFails,
       party
  <2>2. \E s \in {"waiting", "accepted", "rejected"} :
           /\ call' = [call EXCEPT ![n].state = s] /\ call[n].state # "none"
           /\ call[n].state \in {"sent", "waiting"} \/ s = "rejected"
    BY <1>4 DEF HandleProtocolMessage, ProcessIncomingKeygenMessage, QueueWaitTimesOut, CallFails
  <2> QED
    BY <1>3, <2>1, <2>2
<1> QED
  BY <1>2, <1>4

\* A process that restarts has nothing to send until its party starts again.
LEMMA RestartRouted ==
    ASSUME IInv, Routing, NEW n \in Nodes, Restart(n)
    PROVE  /\ \A m \in Nodes : Routed(m)'
           /\ \A m \in Nodes \ {n}, t \in Nodes : MayGet(m, t)' => MayGet(m, t)
<1>1. /\ round'[n] = 0 /\ out'[n] = << >> /\ item'[n] = Idle /\ call'[n] = NoCall
      /\ \A m \in Nodes \ {n} :
            /\ round'[m] = round[m] /\ out'[m] = out[m] /\ item'[m] = item[m]
            /\ \/ call'[m] = call[m]
               \/ /\ call[m] = [to |-> n, state |-> "waiting"]
                  /\ call'[m] = [to |-> n, state |-> "rejected"]
  BY DEF Restart, IInv, TypeOK
<1>2. Routed(n)'
  BY <1>1 DEF Routed, Idle
<1>3. ASSUME NEW m \in Nodes \ {n} PROVE Routed(m)'
  <2>1. call'[m] = NoCall \/ (call[m] # NoCall /\ call'[m].to = call[m].to)
    BY <1>1 DEF NoCall
  <2> QED
    BY <1>1, <2>1, RoutedFrame DEF Routing
<1>4. ASSUME NEW m \in Nodes \ {n}, NEW t \in Nodes, MayGet(m, t)' PROVE MayGet(m, t)
  BY <1>1, <1>4 DEF MayGet
<1> QED
  BY <1>2, <1>3, <1>4

\* Every step keeps the order of what is sent, and only a restart lets a node send again.
LEMMA RoutingKeeps ==
    ASSUME MaxRestarts <= 1, IInv, Routing, [Next]_vars
    PROVE  /\ Routing'
           /\ SendsNoMore \/ \E n \in Nodes : Restart(n)
<1> DEFINE Goal == Routing' /\ (SendsNoMore \/ \E n \in Nodes : Restart(n))
<1>1. ASSUME UNCHANGED inc, SendsNoMore, \A m \in Nodes : Routed(m)' PROVE Goal
  BY <1>1 DEF Routing, OneRestarted
<1>2. CASE CreateDKGSession \/ StartDKG \/ StartDKGFails \/ UNCHANGED vars
  BY <1>1, <1>2, OthersRouted DEF CreateDKGSession, StartDKG, StartDKGFails, vars
<1>3. ASSUME NEW n \in Nodes, Restart(n) PROVE Goal
  <2>1. \A m \in Nodes : inc[m] = 1
    BY <1>3, FirstRestart
  <2>2. \A m \in Nodes \ {n} : inc'[m] = 1
    BY <1>3, <2>1 DEF Restart, IInv, TypeOK
  <2>3. OneRestarted'
    BY <2>2 DEF OneRestarted
  <2> QED
    BY <1>3, <2>3, RestartRouted DEF Routing
<1>4. ASSUME NEW n \in Nodes, NodeStep(n) \/ Fault(n), ~ Restart(n) PROVE Goal
  <2>1. UNCHANGED inc
    BY <1>4 DEF NodeStep, Fault, RegisterParty, CreateQueue, PartyStart, PartyAdvance,
       ProcessMessage, ReceiveOut, SendKeygenMessage, SendReturns, ReceiveEnd,
       HandleProtocolMessage, ProcessIncomingKeygenMessage, StoreKeyData, CompleteKeygenSession,
       KeygenTimeout, ReceiveErr, QueueWaitTimesOut, CallFails
  <2>2. SendsNoMore /\ \A m \in Nodes : Routed(m)'
    BY <1>4, PartyRouted, ReceiveOutRouted, CallRouted, OthersRouted DEF NodeStep, Fault
  <2> QED
    BY <1>1, <2>1, <2>2
<1> QED
  BY <1>2, <1>3, <1>4 DEF Next

-----------------------------------------------------------------------------
(* Lives and keys                                                          *)

\* At the beginning nobody has lived past round one.
LEMMA LivesStart == Init => Routing /\ Lives
<1> SUFFICES ASSUME Init PROVE Routing /\ Lives
  OBVIOUS
<1>1. Rounds \in Nat /\ Rounds >= 1 /\ 0 \notin Incarnations
  BY ConstantsAssumption DEF Incarnations
<1>2. Routing
  BY DEF Init, Routing, OneRestarted, Routed, Idle
<1>3. \A m, n \in Nodes : ~ Got(n, m)
  BY <1>1 DEF Init, Got
<1>4. ASSUME NEW m \in Nodes, NEW i \in Incarnations PROVE ~ Past(m, i)
  <2>1. round[m] = 0 /\ \A n \in Nodes : disk[n][m] = 0 /\ queue[n] = {}
    BY DEF Init, NoKeyData
  <2>2. \A n \in Nodes, r \in 2..Rounds : seen[n][m][r] = 0
    BY <1>1 DEF Init
  <2> QED
    BY <1>1, <2>1, <2>2 DEF Past
<1>5. 1 \in Incarnations
  BY ConstantsAssumption DEF Incarnations
<1>6. GotOnce /\ Spent /\ OneLife
  BY <1>3, <1>4, <1>5 DEF GotOnce, Spent, OneLife
<1>7. \A n \in Nodes : Committed(n) /\ Saved(n)
  BY <1>1 DEF Init, Committed, Saved
<1>8. Published
  BY DEF Init, Published
<1> QED
  BY <1>2, <1>6, <1>7, <1>8 DEF Lives

\* A step after which there is nothing to be seen of a party that was not there before.
LEMMA NoNewTrace ==
    ASSUME GotOnce, Spent, OneLife, UNCHANGED inc, SendsNoMore,
           \A m, n \in Nodes : Got(n, m)' => Got(n, m),
           \A m \in Nodes, i \in Incarnations : Past(m, i)' => Past(m, i)
    PROVE  GotOnce' /\ Spent' /\ OneLife'
<1>1. 1 \in Incarnations
  BY ConstantsAssumption DEF Incarnations
<1>2. GotOnce'
  BY DEF GotOnce, SendsNoMore
<1>3. Spent'
  BY <1>1 DEF Spent, SendsNoMore
<1>4. OneLife'
  BY DEF OneLife
<1> QED
  BY <1>2, <1>3, <1>4

\* What most steps have in common: they store nothing and hear nothing, and take no
\* party past its first round.
Quiet ==
    /\ UNCHANGED <<inc, seen, script, disk, key>>
    /\ session' = session \/ session = "none"
    /\ \A n \in Nodes :
          /\ queue'[n] \subseteq queue[n]
          /\ round'[n] = round[n] \/ (round[n] = 0 /\ round'[n] = 1)
          /\ \/ run'[n] = run[n] \/ run'[n] \notin {"saving", "stored"}
             \/ run'[n] = "saving" /\ round[n] = Rounds + 1

\* Such a step leaves lives and keys alone.
LEMMA QuietKeeps ==
    ASSUME IInv, Lives, Quiet, SendsNoMore
    PROVE  Lives'
<1>1. /\ UNCHANGED <<inc, seen, script, disk, key>>
      /\ \A n \in Nodes : queue'[n] \subseteq queue[n]
      /\ \A n \in Nodes : round'[n] = round[n] \/ (round[n] = 0 /\ round'[n] = 1)
  BY DEF Quiet
<1>2. \A m, n \in Nodes : Got(n, m)' => Got(n, m)
  BY <1>1 DEF Got
<1>3. ASSUME NEW m \in Nodes, NEW i \in Incarnations, Past(m, i)' PROVE Past(m, i)
  <2>1. round'[m] >= 2 => round[m] >= 2
    BY <1>1
  <2> QED
    BY <1>1, <1>3, <2>1 DEF Past
<1>4. GotOnce' /\ Spent' /\ OneLife'
  BY <1>1, <1>2, <1>3, NoNewTrace DEF Lives
<1>5. Rounds \in Nat /\ Rounds >= 1 /\ \A n \in Nodes : Committed(n) /\ Saved(n)
  BY ConstantsAssumption DEF Lives
<1>6. ASSUME NEW n \in Nodes PROVE Committed(n)' /\ Saved(n)'
  <2>1. Committed(n)'
    BY <1>1, <1>5 DEF Committed
  <2>2. Saved(n)'
    <3>1. round[n] = Rounds + 1 => round'[n] = Rounds + 1
      BY <1>1, <1>5
    <3> QED
      BY <1>1, <1>5, <3>1 DEF Quiet, Saved
  <2> QED
    BY <2>1, <2>2
<1>7. Published'
  BY DEF Lives, Quiet, Published
<1> QED
  BY <1>4, <1>6, <1>7 DEF Lives

\* The coordinator's steps, and a launch.
LEMMA StartingIsQuiet ==
    ASSUME IInv,
           \/ CreateDKGSession \/ StartDKG \/ StartDKGFails \/ UNCHANGED vars
           \/ \E n \in Nodes : HandleProtocolMessage(n)
    PROVE  Quiet
<1>1. ASSUME NEW t \in Nodes, Launch(t),
             UNCHANGED <<inc, seen, script, disk, key, session, queue, round>>
      PROVE  Quiet
  <2>1. \A n \in Nodes : run'[n] = run[n] \/ run'[n] = "starting"
    BY <1>1 DEF Launch, IInv, TypeOK
  <2> QED
    BY <1>1, <2>1 DEF Quiet
<1>2. CASE CreateDKGSession \/ StartDKGFails \/ UNCHANGED vars
  BY <1>2 DEF CreateDKGSession, StartDKGFails, vars, party, Quiet
<1>3. CASE StartDKG
  BY <1>1, <1>3, ConstantsAssumption DEF StartDKG, party
<1>4. ASSUME NEW n \in Nodes, HandleProtocolMessage(n) PROVE Quiet
  <2>1. call[n].to \in Nodes
    BY ConstantsAssumption DEF IInv, TypeOK, Calls, NoCall
  <2> QED
    BY <1>1, <1>4, <2>1 DEF HandleProtocolMessage, party
<1> QED
  BY <1>2, <1>3, <1>4

\* The steps of the select loop and of its calls.
LEMMA RunningIsQuiet ==
    ASSUME IInv, NEW n \in Nodes,
           \/ RegisterParty(n) \/ CreateQueue(n) \/ PartyStart(n)
           \/ ReceiveOut(n) \/ \E t \in Nodes : SendKeygenMessage(n, t)
           \/ SendReturns(n) \/ ReceiveEnd(n)
           \/ KeygenTimeout(n) \/ ReceiveErr(n) \/ QueueWaitTimesOut(n) \/ CallFails(n)
    PROVE  Quiet
<1>1. CASE RegisterParty(n) \/ CreateQueue(n)
  BY <1>1 DEF RegisterParty, CreateQueue, party, IInv, TypeOK, Quiet
<1>2. CASE PartyStart(n)
  BY <1>2 DEF PartyStart, EnterRound, IInv, TypeOK, Quiet
<1>3. CASE ReceiveOut(n)
  BY <1>3 DEF ReceiveOut, Quiet
<1>4. CASE SendReturns(n)
  <2>1. \A m \in Nodes : run'[m] = run[m] \/ run'[m] = "ended"
    BY <1>4 DEF SendReturns, IInv, TypeOK
  <2> QED
    BY <1>4, <2>1 DEF SendReturns, party, Quiet
<1>5. CASE ReceiveEnd(n) \/ KeygenTimeout(n) \/ ReceiveErr(n)
  BY <1>5 DEF ReceiveEnd, KeygenTimeout, ReceiveErr, party, IInv, TypeOK, Quiet
<1>6. CASE (\E t \in Nodes : SendKeygenMessage(n, t)) \/ QueueWaitTimesOut(n) \/ CallFails(n)
  BY <1>6 DEF SendKeygenMessage, QueueWaitTimesOut, CallFails, party, Quiet
<1> QED
  BY <1>1, <1>2, <1>3, <1>4, <1>5, <1>6

\* What a party hears was in its queue before, and cannot differ from what it has
\* heard of a life past round one.
LEMMA ProcessMessageLives ==
    ASSUME IInv, Lives, SendsNoMore, NEW n \in Nodes, NEW x \in Messages, ProcessMessage(n, x)
    PROVE  Lives'
<1>1. x.from \in Nodes /\ x.round \in 1..Rounds /\ x.inc \in Incarnations /\ x \in queue[n]
  BY DEF Messages, ProcessMessage
<1>2. /\ UNCHANGED <<inc, script, disk, key, session, round, run>>
      /\ \A k \in Nodes : queue'[k] \subseteq queue[k]
      /\ \A k \in Nodes \ {n} : seen'[k] = seen[k]
      /\ \A m \in Nodes, r \in 1..Rounds :
            \/ seen'[n][m][r] = seen[n][m][r]
            \/ m = x.from /\ r = x.round /\ seen'[n][m][r] = x.inc
  <2>1. UNCHANGED <<inc, script, disk, key, session, round, run>>
    BY DEF ProcessMessage
  <2>2. \A k \in Nodes : queue'[k] \subseteq queue[k]
    BY DEF ProcessMessage, IInv, TypeOK
  <2>3. seen \in [Nodes -> [Nodes -> [1..Rounds -> Incarnations \cup {0}]]]
    BY DEF IInv, TypeOK
  <2>4. CASE n \in active
    <3>1. seen' = [seen EXCEPT ![n][x.from][x.round] = x.inc]
      BY <2>4 DEF ProcessMessage
    <3> QED
      BY <1>1, <2>1, <2>2, <2>3, <3>1
  <2>5. CASE n \notin active
    BY <2>1, <2>2, <2>5 DEF ProcessMessage
  <2> QED
    BY <2>4, <2>5
<1>3. Rounds \in Nat /\ Rounds >= 1 /\ 1 \in 1..Rounds /\ \A r \in 2..Rounds : r \in 1..Rounds
  BY ConstantsAssumption
<1>4. ASSUME NEW m \in Nodes, NEW k \in Nodes, Got(k, m)' PROVE Got(k, m)
  <2>1. CASE k # n
    BY <1>2, <1>4, <2>1 DEF Got
  <2>2. CASE k = n
    BY <1>1, <1>2, <1>3, <1>4, <2>2 DEF Got
  <2> QED
    BY <2>1, <2>2
<1>5. ASSUME NEW m \in Nodes, NEW i \in Incarnations, Past(m, i)' PROVE Past(m, i)
  <2>1. CASE inc'[m] = i /\ round'[m] >= 2
    BY <1>2, <2>1 DEF Past
  <2>2. ASSUME NEW k \in Nodes,
               disk'[k][m] = i \/ \E y \in queue'[k] : y.from = m /\ y.round >= 2 /\ y.inc = i
        PROVE  Past(m, i)
    BY <1>2, <2>2 DEF Past
  <2>3. ASSUME NEW k \in Nodes, NEW r \in 2..Rounds, seen'[k][m][r] = i
        PROVE  Past(m, i)
    <3>1. CASE seen[k][m][r] = i
      BY <3>1 DEF Past
    <3>2. CASE seen[k][m][r] # i
      <4>1. k = n /\ m = x.from /\ r = x.round /\ i = x.inc
        BY <1>2, <1>3, <2>3, <3>2
      <4> QED
        BY <1>1, <4>1 DEF Past
    <3> QED
      BY <3>1, <3>2
  <2> QED
    BY <1>5, <2>1, <2>2, <2>3 DEF Past
<1>6. GotOnce' /\ Spent' /\ OneLife'
  BY <1>2, <1>4, <1>5, NoNewTrace DEF Lives
<1>7. ASSUME NEW k \in Nodes PROVE Committed(k)' /\ Saved(k)'
  <2>1. Committed(k) /\ Saved(k)
    BY DEF Lives
  <2>2. Saved(k)'
    BY <1>2, <2>1 DEF Saved
  <2>3. ASSUME round[k] = Rounds + 1, Rounds >= 2, NEW m \in Others(k)
        PROVE  seen'[k][m][Rounds] = script[k][m]
    <3>1. m \in Nodes /\ Rounds \in 2..Rounds
      BY <1>3, <2>3 DEF Others
    <3>2. seen[k][m][Rounds] = script[k][m] /\ script[k][m] # 0
      BY <1>3, <2>1, <2>3, <3>1 DEF Committed
    <3>3. script[k][m] \in Incarnations /\ Past(m, script[k][m])
      <4>1. script[k][m] \in Incarnations
        BY <3>1, <3>2 DEF IInv, TypeOK, Transcripts
      <4> QED
        BY <3>1, <3>2, <4>1 DEF Past
    <3>4. CASE seen'[k][m][Rounds] # seen[k][m][Rounds]
      <4>1. k = n /\ m = x.from /\ Rounds = x.round /\ seen'[k][m][Rounds] = x.inc
        BY <1>2, <1>3, <3>1, <3>4
      <4>2. Past(m, x.inc)
        BY <1>1, <2>3, <4>1 DEF Past
      <4> QED
        BY <1>1, <3>1, <3>3, <4>1, <4>2 DEF Lives, OneLife
    <3> QED
      BY <3>2, <3>4
  <2>4. Committed(k)'
    BY <1>2, <2>1, <2>3 DEF Committed
  <2> QED
    BY <2>2, <2>4
<1>8. Published'
  BY <1>2 DEF Lives, Published
<1> QED
  BY <1>6, <1>7, <1>8 DEF Lives

\* A message that gets into a queue may not get there again.
LEMMA ProcessIncomingLives ==
    ASSUME IInv, Routing, Lives, SendsNoMore, NEW n \in Nodes, ProcessIncomingKeygenMessage(n)
    PROVE  Lives'
<1>0. PICK t \in Nodes : t = call[n].to
  <2>1. call[n] \in Calls \cup {NoCall} /\ Leader \in Nodes
    BY ConstantsAssumption DEF IInv, TypeOK
  <2>2. call[n].to \in Nodes
    BY <2>1 DEF Calls, NoCall
  <2> QED
    BY <2>2
<1> DEFINE r == item[n].round
           y == [from |-> n, round |-> r, inc |-> inc[n]]
<1>1. /\ UNCHANGED <<inc, seen, script, disk, key, session, round, run, out, item>>
      /\ queue' = [queue EXCEPT ![t] = @ \cup {y}]
      /\ call[n].state = "waiting" /\ call' = [call EXCEPT ![n].state = "accepted"]
  BY <1>0 DEF ProcessIncomingKeygenMessage, party
<1>2. Routed(n) /\ call[n] # NoCall /\ call[n] \in Calls /\ item[n] \in Items
  BY <1>1 DEF IInv, TypeOK, CallHasItem, NoCall, Calls, Routing
<1>3. t \in item[n].to /\ r \in Nat /\ r >= 1 /\ r <= round[n] /\ round[n] \in Nat
  <2>1. t \in item[n].to /\ r <= round[n]
    BY <1>0, <1>2 DEF Routed
  <2>2. r \in 1..Rounds /\ round[n] \in 0..(Rounds + 1) /\ Rounds \in Nat
    BY <1>2, ConstantsAssumption DEF Items, IInv, TypeOK
  <2> QED
    BY <2>1, <2>2
<1>4. y.from = n /\ y.round = r /\ y.inc = inc[n]
  OBVIOUS
<1>5. call'[n].to = t /\ call'[n].state = "accepted"
  BY <1>0, <1>1, <1>2 DEF IInv, TypeOK, Calls
<1> HIDE DEF y
<1>6. \A k \in Nodes : \A x \in queue'[k] : x \in queue[k] \/ (k = t /\ x = y)
  BY <1>1, <1>2 DEF IInv, TypeOK
<1>7. ASSUME NEW m \in Nodes, NEW k \in Nodes, Got(k, m)'
      PROVE  Got(k, m) \/ (k = t /\ m = n /\ r = 1)
  BY <1>1, <1>4, <1>6, <1>7 DEF Got
<1>8. ASSUME NEW m \in Nodes, NEW i \in Incarnations, Past(m, i)' PROVE Past(m, i)
  <2>1. CASE inc'[m] = i /\ round'[m] >= 2
    BY <1>1, <2>1 DEF Past
  <2>2. ASSUME NEW k \in Nodes, disk'[k][m] = i \/ \E q \in 2..Rounds : seen'[k][m][q] = i
        PROVE  Past(m, i)
    BY <1>1, <2>2 DEF Past
  <2>3. ASSUME NEW k \in Nodes, NEW x \in queue'[k], x.from = m, x.round >= 2, x.inc = i
        PROVE  Past(m, i)
    <3>1. CASE x \in queue[k]
      BY <2>3, <3>1 DEF Past
    <3>2. CASE x = y
      <4>1. m = n /\ i = inc[n] /\ round[n] >= 2
        BY <1>3, <1>4, <2>3, <3>2
      <4> QED
        BY <4>1 DEF Past
    <3> QED
      BY <1>6, <2>3, <3>1, <3>2
  <2> QED
    BY <1>8, <2>1, <2>2, <2>3 DEF Past
<1>9. r = 1 => MayGet(n, t) /\ ~ MayGet(n, t)'
  <2> SUFFICES ASSUME r = 1 PROVE MayGet(n, t) /\ ~ MayGet(n, t)'
    OBVIOUS
  <2>1. MayGet(n, t)
    BY <1>1, <1>3 DEF MayGet
  <2>2. \A i \in DOMAIN out[n] : out[n][i].round = 1 => t \notin out[n][i].to
    BY <1>2, <1>3 DEF Routed
  <2>3. round[n] # 0
    BY <1>3
  <2> QED
    BY <1>1, <1>5, <2>1, <2>2, <2>3 DEF MayGet
<1> HIDE DEF r
<1>10. 1 \in Incarnations /\ GotOnce /\ Spent /\ OneLife
  BY ConstantsAssumption DEF Incarnations, Lives
<1>11. GotOnce'
  <2> SUFFICES ASSUME NEW m \in Nodes, NEW k \in Nodes, m # k, inc[m] = 1, Got(k, m)'
               PROVE  ~ MayGet(m, k)'
    BY <1>1 DEF GotOnce
  <2>1. CASE Got(k, m)
    BY <1>10, <2>1 DEF GotOnce, SendsNoMore
  <2>2. CASE k = t /\ m = n /\ r = 1
    BY <1>9, <2>2
  <2> QED
    BY <1>7, <2>1, <2>2
<1>12. Spent'
  <2> SUFFICES ASSUME Rounds >= 2, NEW m \in Nodes, NEW k \in Nodes, m # k, inc[m] = 1, Past(k, 1)'
               PROVE  ~ MayGet(m, k)' /\ (inc[k] # 1 => ~ Got(k, m)')
    BY <1>1 DEF Spent
  <2>1. ~ MayGet(m, k) /\ (inc[k] # 1 => ~ Got(k, m))
    BY <1>8, <1>10 DEF Spent
  <2> QED
    BY <1>7, <1>9, <2>1 DEF SendsNoMore
<1>13. OneLife'
  BY <1>1, <1>8, <1>10 DEF OneLife
<1>14. ASSUME NEW k \in Nodes PROVE Committed(k)' /\ Saved(k)'
  BY <1>1 DEF Lives, Committed, Saved
<1>15. Published'
  BY <1>1 DEF Lives, Published
<1> QED
  BY <1>11, <1>12, <1>13, <1>14, <1>15 DEF Lives

\* A party that leaves its first round has used the first message of everyone, so
\* that no later life of its node can.
LEMMA PartyAdvanceLives ==
    ASSUME OneRestartIsSafe, IInv, Routing, Lives, SendsNoMore, NEW n \in Nodes, PartyAdvance(n)
    PROVE  Lives'
<1>1. /\ UNCHANGED <<inc, seen, queue, disk, key, session, run>> /\ run[n] = "running"
      /\ \A k \in Nodes \ {n} : round'[k] = round[k] /\ script'[k] = script[k]
  BY DEF PartyAdvance, EnterRound, IInv, TypeOK
<1>2. Rounds \in Nat /\ Rounds >= 1 /\ round[n] \in 1..Rounds /\ round'[n] = round[n] + 1
  <2>1. Rounds \in Nat /\ Rounds >= 1 /\ round[n] \in 1..Rounds
    BY ConstantsAssumption DEF PartyAdvance, CanProceed
  <2>2. round'[n] = round[n] + 1
    <3>1. CASE round[n] < Rounds
      BY <3>1 DEF PartyAdvance, EnterRound, IInv, TypeOK
    <3>2. CASE ~ (round[n] < Rounds)
      BY <2>1, <3>2 DEF PartyAdvance, IInv, TypeOK
    <3> QED
      BY <3>1, <3>2
  <2> QED
    BY <2>1, <2>2
<1>3. \A m \in Others(n) :
         /\ seen[n][m][round[n]] # 0
         /\ round[n] > 1 => seen[n][m][round[n]] = script[n][m]
  BY DEF PartyAdvance, CanProceed
<1>4. \A m, k \in Nodes : Got(k, m)' => Got(k, m)
  BY <1>1 DEF Got
<1>5. ASSUME NEW m \in Nodes, NEW i \in Incarnations, Past(m, i)'
      PROVE  Past(m, i) \/ (m = n /\ i = inc[n] /\ round[n] = 1)
  <2>1. CASE inc'[m] = i /\ round'[m] >= 2
    BY <1>1, <1>2, <2>1 DEF Past
  <2>2. CASE ~ (inc'[m] = i /\ round'[m] >= 2)
    BY <1>1, <1>5, <2>2 DEF Past
  <2> QED
    BY <2>1, <2>2
<1>6. GotOnce /\ Spent /\ OneLife /\ 1 \in Incarnations /\ inc[n] \in Incarnations
  BY ConstantsAssumption DEF Incarnations, Lives, IInv, TypeOK
<1>7. round[n] = 1 => \A m \in Others(n) : m \in Nodes /\ m # n /\ Got(n, m)
  BY <1>3 DEF Others, Got
<1>8. GotOnce'
  BY <1>1, <1>4, <1>6 DEF GotOnce, SendsNoMore
<1>9. Spent'
  <2> SUFFICES ASSUME Rounds >= 2, NEW m \in Nodes, NEW k \in Nodes, m # k, inc[m] = 1, Past(k, 1)'
               PROVE  ~ MayGet(m, k)' /\ (inc[k] # 1 => ~ Got(k, m)')
    BY <1>1 DEF Spent
  <2>1. CASE Past(k, 1)
    BY <1>4, <1>6, <2>1 DEF Spent, SendsNoMore
  <2>2. CASE k = n /\ inc[n] = 1 /\ round[n] = 1
    <3>1. Got(n, m)
      BY <1>7, <2>2 DEF Others
    <3> QED
      BY <1>6, <2>2, <3>1 DEF GotOnce, SendsNoMore
  <2> QED
    BY <1>5, <1>6, <2>1, <2>2
<1>10. ASSUME round[n] = 1, NEW j \in Incarnations, Past(n, j)
       PROVE  j = inc[n]
  <2>1. j <= inc[n]
    BY <1>6, <1>10 DEF OneLife
  <2>2. CASE MaxRestarts = 0
    BY <1>6, <2>2 DEF Incarnations
  <2>3. CASE MaxRestarts = 1 /\ Rounds >= 2 /\ Nodes # {Leader}
    <3>1. j \in {1, 2} /\ inc[n] \in {1, 2}
      BY <1>6, <2>3 DEF Incarnations
    <3>2. CASE j = 1 /\ inc[n] = 2
      <4>1. PICK m \in Nodes : m # n
        BY <2>3, ConstantsAssumption
      <4>2. inc[m] = 1 /\ Got(n, m)
        BY <1>7, <1>10, <3>2, <4>1 DEF Routing, OneRestarted, Others
      <4> QED
        BY <1>6, <1>10, <2>3, <3>2, <4>1, <4>2 DEF Spent
    <3> QED
      BY <2>1, <3>1, <3>2
  <2> QED
    BY <2>2, <2>3 DEF OneRestartIsSafe
<1>11. OneLife'
  <2>1. ASSUME NEW m \in Nodes, NEW i \in Incarnations, Past(m, i)' PROVE i <= inc[m]
    BY <1>5, <1>6, <2>1 DEF OneLife, Incarnations
  <2>2. ASSUME NEW m \in Nodes, NEW i \in Incarnations, NEW j \in Incarnations,
               Past(m, i)', Past(m, j)'
        PROVE  i = j
    <3>1. CASE Past(m, i) /\ Past(m, j)
      BY <1>6, <3>1 DEF OneLife
    <3>2. CASE m = n /\ round[n] = 1
      BY <1>5, <1>10, <2>2, <3>2
    <3> QED
      BY <1>5, <2>2, <3>1, <3>2
  <2> QED
    BY <1>1, <2>1, <2>2 DEF OneLife
<1>12. Committed(n)'
  <2>1. Committed(n) /\ n \in Nodes /\ inc[n] # 0 /\ 1 \in 1..Rounds
    BY <1>2, <1>6 DEF Lives, Incarnations
  <2>2. CASE round[n] = 1
    <3> DEFINE heard == [m \in Nodes |-> IF m = n THEN inc[n] ELSE seen[n][m][1]]
    <3>1. script' = [script EXCEPT ![n] = heard]
      BY <2>2 DEF PartyAdvance
    <3>2. script'[n] = heard
      BY <3>1 DEF IInv, TypeOK
    <3>3. heard[n] = inc[n] /\ \A m \in Nodes : heard[m] # 0
      BY <1>3, <2>1, <2>2 DEF Others
    <3> HIDE DEF heard
    <3> QED
      BY <1>1, <1>2, <2>2, <3>2, <3>3 DEF Committed
  <2>3. CASE round[n] > 1
    <3>1. script' = script
      BY <2>3 DEF PartyAdvance
    <3>2. round'[n] = Rounds + 1 => round[n] = Rounds
      BY <1>2
    <3> QED
      BY <1>1, <1>2, <1>3, <2>1, <2>3, <3>1, <3>2 DEF Committed
  <2> QED
    BY <1>2, <2>2, <2>3
<1>13. ASSUME NEW k \in Nodes PROVE Committed(k)' /\ Saved(k)'
  <2>1. CASE k = n
    BY <1>1, <1>12, <2>1 DEF Lives, Saved
  <2>2. CASE k # n
    BY <1>1, <2>2 DEF Lives, Committed, Saved
  <2> QED
    BY <2>1, <2>2
<1>14. Published'
  BY <1>1 DEF Lives, Published
<1> QED
  BY <1>8, <1>9, <1>11, <1>13, <1>14 DEF Lives

\* The one life that a restart leaves behind.
LEMMA RestartLives ==
    ASSUME OneRestartIsSafe, IInv, Routing, Lives, NEW n \in Nodes, Restart(n)
    PROVE  Lives'
<1>1. MaxRestarts \in Nat /\ MaxRestarts <= 1
  BY DEF OneRestartIsSafe
<1>2. \A m \in Nodes : inc[m] = 1
  BY <1>1, FirstRestart
<1>3. /\ UNCHANGED <<disk, key, session>>
      /\ inc'[n] = 2 /\ queue'[n] = {} /\ round'[n] = 0 /\ run'[n] = "none"
      /\ \A m \in Nodes, r \in 1..Rounds : seen'[n][m][r] = 0
      /\ \A k \in Nodes \ {n} :
            /\ inc'[k] = 1 /\ queue'[k] = queue[k] /\ seen'[k] = seen[k]
            /\ round'[k] = round[k] /\ script'[k] = script[k] /\ run'[k] = run[k]
  BY <1>2 DEF Restart, IInv, TypeOK
<1>4. /\ Rounds \in Nat /\ Rounds >= 1 /\ 1 \in 1..Rounds /\ \A r \in 2..Rounds : r \in 1..Rounds
      /\ 1 \in Incarnations /\ 0 \notin Incarnations
  BY ConstantsAssumption DEF Incarnations
<1>5. \A m \in Nodes \ {n}, k \in Nodes : MayGet(m, k)' => MayGet(m, k)
  BY RestartRouted
<1>6. ASSUME NEW m \in Nodes, NEW k \in Nodes, Got(k, m)' PROVE k # n /\ Got(k, m)
  <2>1. k # n
    BY <1>3, <1>4, <1>6 DEF Got
  <2> QED
    BY <1>3, <1>6, <2>1 DEF Got
<1>7. ASSUME NEW m \in Nodes, NEW i \in Incarnations, Past(m, i)' PROVE Past(m, i)
  <2>1. CASE inc'[m] = i /\ round'[m] >= 2
    BY <1>2, <1>3, <2>1 DEF Past
  <2>2. ASSUME NEW k \in Nodes, disk'[k][m] = i PROVE Past(m, i)
    BY <1>3, <2>2 DEF Past
  <2>3. ASSUME NEW k \in Nodes, NEW x \in queue'[k], x.from = m, x.round >= 2, x.inc = i
        PROVE  Past(m, i)
    BY <1>3, <2>3 DEF Past
  <2>4. ASSUME NEW k \in Nodes, NEW r \in 2..Rounds, seen'[k][m][r] = i PROVE Past(m, i)
    BY <1>3, <1>4, <2>4 DEF Past
  <2> QED
    BY <1>7, <2>1, <2>2, <2>3, <2>4 DEF Past
<1>8. GotOnce'
  <2> SUFFICES ASSUME NEW m \in Nodes, NEW k \in Nodes, m # k, inc'[m] = 1, Got(k, m)'
               PROVE  ~ MayGet(m, k)'
    BY DEF GotOnce
  <2>1. m # n
    BY <1>3
  <2> QED
    BY <1>2, <1>5, <1>6, <2>1 DEF Lives, GotOnce
<1>9. Spent'
  <2> SUFFICES ASSUME Rounds >= 2, NEW m \in Nodes, NEW k \in Nodes, m # k, inc'[m] = 1, Past(k, 1)'
               PROVE  ~ MayGet(m, k)' /\ (inc'[k] # 1 => ~ Got(k, m)')
    BY DEF Spent
  <2>1. m # n
    BY <1>3
  <2>2. ~ MayGet(m, k)
    BY <1>2, <1>4, <1>7 DEF Lives, Spent
  <2>3. inc'[k] # 1 => k = n
    BY <1>3
  <2> QED
    BY <1>5, <1>6, <2>1, <2>2, <2>3
<1>10. OneLife'
  <2>1. \A m \in Nodes : inc'[m] >= inc[m]
    BY <1>2, <1>3
  <2>2. ASSUME NEW m \in Nodes, NEW i \in Incarnations, Past(m, i)' PROVE i <= inc'[m]
    <3>1. i <= inc[m] /\ i \in Nat
      BY <1>7, <2>2 DEF Lives, OneLife, Incarnations
    <3> QED
      BY <1>2, <1>3, <2>1, <3>1
  <2>3. ASSUME NEW m \in Nodes, NEW i \in Incarnations, NEW j \in Incarnations,
               Past(m, i)', Past(m, j)'
        PROVE  i = j
    BY <1>7, <2>3 DEF Lives, OneLife
  <2> QED
    BY <2>2, <2>3 DEF OneLife
<1>11. ASSUME NEW k \in Nodes PROVE Committed(k)' /\ Saved(k)'
  <2>1. Committed(k) /\ Saved(k)
    BY DEF Lives
  <2>2. CASE k = n
    BY <1>3, <1>4, <2>1, <2>2 DEF Committed, Saved
  <2>3. CASE k # n
    <3>1. inc'[k] = inc[k]
      BY <1>2, <1>3, <2>3
    <3> QED
      BY <1>3, <2>1, <2>3, <3>1 DEF Committed, Saved
  <2> QED
    BY <2>2, <2>3
<1>12. Published'
  BY <1>3 DEF Lives, Published
<1> QED
  BY <1>8, <1>9, <1>10, <1>11, <1>12 DEF Lives

\* What GenerateKeyShare is about to store is a whole key, of lives past round one.
LEMMA WholeKey ==
    ASSUME OneRestartIsSafe, IInv, Lives, NEW n \in Nodes, round[n] = Rounds + 1
    PROVE  /\ script[n] \in Transcripts /\ script[n] # NoKeyData
           /\ \A m \in Nodes : /\ script[n][m] \in Incarnations
                               /\ Rounds >= 2 => Past(m, script[n][m])
<1>1. Rounds \in Nat /\ Rounds >= 1 /\ round[n] >= 2 /\ Committed(n)
  BY ConstantsAssumption DEF Lives
<1>2. script[n] \in Transcripts /\ \A m \in Nodes : script[n][m] # 0
  BY <1>1 DEF IInv, TypeOK, Committed
<1>3. \A m \in Nodes : script[n][m] \in Incarnations
  BY <1>2 DEF Transcripts
<1>4. script[n] # NoKeyData
  BY <1>2 DEF NoKeyData
<1>5. ASSUME NEW m \in Nodes, Rounds >= 2 PROVE Past(m, script[n][m])
  <2>1. CASE m = n
    BY <1>1, <2>1 DEF Committed, Past
  <2>2. CASE m # n
    <3>1. seen[n][m][Rounds] = script[n][m] /\ Rounds \in 2..Rounds
      BY <1>1, <1>5, <2>2 DEF Committed, Others
    <3> QED
      BY <3>1 DEF Past
  <2> QED
    BY <2>1, <2>2
<1> QED
  BY <1>2, <1>3, <1>4, <1>5

\* Any such key is the one on disk.
LEMMA SameKey ==
    ASSUME OneRestartIsSafe, IInv, Lives, NEW k \in Nodes, disk[k] # NoKeyData,
           NEW s \in Transcripts,
           \A m \in Nodes : s[m] \in Incarnations /\ (Rounds >= 2 => Past(m, s[m]))
    PROVE  disk[k] = s
<1>1. disk[k] \in Transcripts /\ \A m \in Nodes : disk[k][m] # 0
  BY DEF IInv, TypeOK, Lives, Saved
<1>2. ASSUME NEW m \in Nodes PROVE disk[k][m] = s[m]
  <2>1. disk[k][m] \in Incarnations /\ s[m] \in Incarnations
    BY <1>1 DEF Transcripts
  <2>2. CASE MaxRestarts = 0
    BY <2>1, <2>2 DEF Incarnations
  <2>3. CASE Rounds >= 2
    <3>1. Past(m, disk[k][m]) /\ Past(m, s[m])
      BY <2>3 DEF Past
    <3> QED
      BY <2>1, <3>1 DEF Lives, OneLife
  <2> QED
    BY <2>2, <2>3 DEF OneRestartIsSafe
<1> QED
  BY <1>1, <1>2 DEF Transcripts

\* Key data on disk agrees.
LEMMA OneKeyOnDisk ==
    ASSUME OneRestartIsSafe, IInv, Lives, NEW n \in Nodes, NEW k \in Nodes,
           disk[n] # NoKeyData, disk[k] # NoKeyData
    PROVE  disk[n] = disk[k]
<1>1. disk[n] \in Transcripts /\ \A m \in Nodes : disk[n][m] # 0
  BY DEF IInv, TypeOK, Lives, Saved
<1>2. \A m \in Nodes : disk[n][m] \in Incarnations /\ Past(m, disk[n][m])
  BY <1>1 DEF Transcripts, Past
<1> QED
  BY <1>1, <1>2, SameKey

\* Whoever stores, stores the key that others have stored.
LEMMA StoreKeyDataLives ==
    ASSUME OneRestartIsSafe, IInv, Lives, SendsNoMore, NEW n \in Nodes, StoreKeyData(n)
    PROVE  /\ Lives'
           /\ \A k \in Nodes : disk[k] # NoKeyData => disk'[k] = disk[k]
           /\ Promise!Next \/ UNCHANGED <<disk, key>>
<1>1. /\ run[n] = "saving" /\ UNCHANGED <<inc, seen, queue, script, round, key, session>>
      /\ \A k \in Nodes \ {n} : run'[k] = run[k] /\ disk'[k] = disk[k]
      /\ \/ /\ disk' = [disk EXCEPT ![n] = script[n]] /\ disk'[n] = script[n]
            /\ run'[n] = "stored"
         \/ disk' = disk /\ run'[n] = "ended"
  BY DEF StoreKeyData, party, IInv, TypeOK
<1>2. round[n] = Rounds + 1
  BY <1>1 DEF Lives, Saved
<1>3. /\ script[n] \in Transcripts /\ script[n] # NoKeyData
      /\ \A m \in Nodes : /\ script[n][m] \in Incarnations
                          /\ Rounds >= 2 => Past(m, script[n][m])
  BY <1>2, WholeKey
<1>4. \A k \in Nodes : disk[k] # NoKeyData => disk[k] = script[n]
  BY <1>3, SameKey
<1>5. \A k \in Nodes : disk[k] # NoKeyData => disk'[k] = disk[k]
  BY <1>1, <1>4
<1>6. \A m, k \in Nodes : Got(k, m)' => Got(k, m)
  BY <1>1 DEF Got
<1>7. GotOnce' /\ Spent' /\ OneLife'
  <2>1. CASE Rounds >= 2
    <3>1. ASSUME NEW m \in Nodes, NEW i \in Incarnations, Past(m, i)' PROVE Past(m, i)
      <4>1. ASSUME NEW k \in Nodes, disk'[k][m] = i PROVE Past(m, i)
        <5>1. CASE disk'[k] = disk[k]
          BY <4>1, <5>1 DEF Past
        <5>2. CASE disk'[k] # disk[k]
          BY <1>1, <1>3, <2>1, <4>1, <5>2
        <5> QED
          BY <5>1, <5>2
      <4> QED
        BY <1>1, <3>1, <4>1 DEF Past
    <3> QED
      BY <1>1, <1>6, <3>1, NoNewTrace DEF Lives
  <2>2. CASE MaxRestarts = 0 /\ ~ (Rounds >= 2)
    <3>1. GotOnce'
      BY <1>1, <1>6 DEF Lives, GotOnce, SendsNoMore
    <3>2. Spent'
      BY <2>2 DEF Spent
    <3>3. Incarnations = {1} /\ \A m \in Nodes : inc'[m] = 1
      BY <1>1, <2>2 DEF Incarnations, IInv, TypeOK
    <3>4. OneLife'
      BY <3>3 DEF OneLife
    <3> QED
      BY <3>1, <3>2, <3>4
  <2> QED
    BY <2>1, <2>2 DEF OneRestartIsSafe
<1>8. ASSUME NEW k \in Nodes PROVE Committed(k)' /\ Saved(k)'
  <2>1. Committed(k) /\ Saved(k) /\ Committed(k)'
    BY <1>1 DEF Lives, Committed
  <2>2. CASE k # n
    BY <1>1, <2>1, <2>2 DEF Saved
  <2>3. CASE k = n /\ disk' = disk
    BY <1>1, <2>1, <2>3 DEF Saved
  <2>4. CASE k = n /\ disk'[n] = script[n] /\ run'[n] = "stored"
    <3>1. \A m \in Nodes : script[n][m] # 0
      BY <1>3 DEF Incarnations
    <3> QED
      BY <1>1, <1>2, <2>1, <2>4, <3>1 DEF Saved
  <2> QED
    BY <1>1, <2>1, <2>2, <2>3, <2>4
<1>9. Published'
  BY <1>1, <1>5 DEF Lives, Published
<1>10. Promise!Next \/ UNCHANGED <<disk, key>>
  <2>1. CASE disk' = [disk EXCEPT ![n] = script[n]] /\ disk[n] = NoKeyData
    <3>1. Promise!Store(n, script[n])
      BY <1>1, <1>4, <2>1 DEF Promise!Store
    <3> QED
      BY <1>3, <3>1 DEF Promise!Next
  <2>2. CASE disk' = [disk EXCEPT ![n] = script[n]] /\ disk[n] # NoKeyData
    <3>1. disk' = disk
      BY <1>4, <2>2 DEF IInv, TypeOK
    <3> QED
      BY <1>1, <3>1
  <2> QED
    BY <1>1, <2>1, <2>2
<1> QED
  BY <1>5, <1>7, <1>8, <1>9, <1>10 DEF Lives

\* The key that is published is on the disk of the node that publishes it.
LEMMA CompleteKeygenSessionLives ==
    ASSUME OneRestartIsSafe, IInv, Lives, SendsNoMore, NEW n \in Nodes, CompleteKeygenSession(n)
    PROVE  Lives' /\ disk' = disk /\ (Promise!Next \/ UNCHANGED <<disk, key>>)
<1>1. /\ run[n] = "stored" /\ UNCHANGED <<inc, seen, queue, script, round, disk>>
      /\ run'[n] = "ended" /\ \A k \in Nodes \ {n} : run'[k] = run[k]
      /\ \/ UNCHANGED <<session, key>>
         \/ session = "pending" /\ session' = "completed" /\ key' = script[n]
  BY DEF CompleteKeygenSession, party, IInv, TypeOK
<1>2. round[n] = Rounds + 1 /\ disk[n] = script[n]
  BY <1>1 DEF Lives, Saved
<1>3. script[n] # NoKeyData
  BY <1>2, WholeKey
<1>4. \A m, k \in Nodes : Got(k, m)' => Got(k, m)
  BY <1>1 DEF Got
<1>5. \A m \in Nodes, i \in Incarnations : Past(m, i)' => Past(m, i)
  BY <1>1 DEF Past
<1>6. GotOnce' /\ Spent' /\ OneLife'
  BY <1>1, <1>4, <1>5, NoNewTrace DEF Lives
<1>7. ASSUME NEW k \in Nodes PROVE Committed(k)' /\ Saved(k)'
  BY <1>1 DEF Lives, Committed, Saved
<1>8. Published'
  BY <1>1, <1>2 DEF Lives, Published
<1>9. Promise!Next \/ UNCHANGED <<disk, key>>
  <2>1. CASE session = "pending" /\ key' = script[n]
    <3>1. Promise!Publish(n)
      BY <1>1, <1>2, <1>3, <2>1 DEF Promise!Publish, Lives, Published
    <3> QED
      BY <3>1 DEF Promise!Next
  <2> QED
    BY <1>1, <2>1
<1> QED
  BY <1>1, <1>6, <1>7, <1>8, <1>9 DEF Lives

\* Every step keeps the lives apart, leaves stored key data alone, and is one of
\* KeyAgreement or none.
LEMMA LivesKeep ==
    ASSUME OneRestartIsSafe, IInv, Routing, Lives, [Next]_vars
    PROVE  /\ Routing' /\ Lives'
           /\ \A n \in Nodes : disk[n] # NoKeyData => disk'[n] = disk[n]
           /\ Promise!Next \/ UNCHANGED <<disk, key>>
<1> DEFINE Goal == /\ Lives'
                   /\ \A n \in Nodes : disk[n] # NoKeyData => disk'[n] = disk[n]
                   /\ Promise!Next \/ UNCHANGED <<disk, key>>
<1>1. Routing' /\ (SendsNoMore \/ \E n \in Nodes : Restart(n))
  BY RoutingKeeps, ConstantsAssumption DEF OneRestartIsSafe
<1>2. ASSUME NEW n \in Nodes, Restart(n) PROVE Goal
  BY <1>2, RestartLives DEF Restart
<1>3. ASSUME Quiet, SendsNoMore PROVE Goal
  BY <1>3, QuietKeeps DEF Quiet
<1>4. CASE CreateDKGSession \/ StartDKG \/ StartDKGFails \/ UNCHANGED vars
  BY <1>1, <1>2, <1>3, <1>4, StartingIsQuiet
<1>5. ASSUME NEW n \in Nodes, NodeStep(n), SendsNoMore PROVE Goal
  <2>1. CASE \/ RegisterParty(n) \/ CreateQueue(n) \/ PartyStart(n) \/ ReceiveOut(n)
             \/ \E t \in Nodes : SendKeygenMessage(n, t)
             \/ SendReturns(n) \/ ReceiveEnd(n) \/ HandleProtocolMessage(n)
    BY <1>3, <1>5, <2>1, StartingIsQuiet, RunningIsQuiet
  <2>2. CASE PartyAdvance(n)
    BY <1>5, <2>2, PartyAdvanceLives DEF PartyAdvance
  <2>3. ASSUME NEW x \in Messages, ProcessMessage(n, x) PROVE Goal
    BY <1>5, <2>3, ProcessMessageLives DEF ProcessMessage
  <2>4. CASE ProcessIncomingKeygenMessage(n)
    BY <1>5, <2>4, ProcessIncomingLives DEF ProcessIncomingKeygenMessage
  <2>5. CASE StoreKeyData(n)
    BY <1>5, <2>5, StoreKeyDataLives
  <2>6. CASE CompleteKeygenSession(n)
    BY <1>5, <2>6, CompleteKeygenSessionLives
  <2> QED
    BY <1>5, <2>1, <2>2, <2>3, <2>4, <2>5, <2>6 DEF NodeStep
<1>6. ASSUME NEW n \in Nodes, Fault(n) PROVE Goal
  BY <1>1, <1>2, <1>3, <1>6, RunningIsQuiet DEF Fault
<1> QED
  BY <1>1, <1>2, <1>4, <1>5, <1>6 DEF Next

-----------------------------------------------------------------------------
(* Theorems                                                                *)

\* Of all lives of a node's process, one at most gets past the first round.
THEOREM LivesInvariance ==
    ASSUME OneRestartIsSafe
    PROVE  Spec => [](Routing /\ Lives)
<1>1. IInv /\ (Routing /\ Lives) /\ [Next]_vars => (Routing /\ Lives)'
  BY LivesKeep
<1> QED
  BY <1>1, LivesStart, Invariance, PTL DEF Spec

\* Although a process that restarts has a fresh sync.Once and starts the DKG again on
\* the next message (server.go:685), every key data file stays as it was first
\* written, whatever calls, stores, deadlines or parties fail.
THEOREM KeyDataIsWrittenOnce ==
    ASSUME OneRestartIsSafe
    PROVE  Spec => KeyDataIsFinal
<1>1. IInv /\ (Routing /\ Lives) /\ [Next]_vars
         => [\A n \in Nodes : disk[n] # NoKeyData => disk'[n] = disk[n]]_vars
  BY LivesKeep
<1> QED
  BY <1>1, Invariance, LivesInvariance, PTL DEF Spec, KeyDataIsFinal

\* The public key of an Active key belongs to key data some node has stored, before and
\* after a restart, as GenerateKeyShare stores before it reports.
THEOREM ActiveKeysAreStored ==
    ASSUME OneRestartIsSafe
    PROVE  Spec => []ActiveKeyIsOnDisk
<1>1. Routing /\ Lives => ActiveKeyIsOnDisk
  BY DEF Lives, Published, ActiveKeyIsOnDisk
<1> QED
  BY <1>1, LivesInvariance, PTL

\* All key data belongs to one public key, for any number of participants and rounds,
\* whoever restarts and whatever calls, stores, deadlines and parties fail.
THEOREM KeyDataAgrees ==
    ASSUME OneRestartIsSafe
    PROVE  Spec => []Agreement
<1>1. IInv /\ (Routing /\ Lives) => Agreement
  <2> SUFFICES ASSUME IInv, Lives, NEW n \in Nodes, NEW m \in Nodes, disk[n] # NoKeyData
               PROVE  /\ disk[m] # NoKeyData => disk[n] = disk[m]
                      /\ key # NoKeyData => disk[n] = key
    BY DEF Agreement
  <2>1. disk[m] # NoKeyData => disk[n] = disk[m]
    BY OneKeyOnDisk
  <2>2. ASSUME key # NoKeyData PROVE disk[n] = key
    <3>1. PICK k \in Nodes : disk[k] = key
      BY <2>2 DEF Lives, Published
    <3> QED
      BY <2>2, <3>1, OneKeyOnDisk
  <2> QED
    BY <2>1, <2>2
<1> QED
  BY <1>1, Invariance, LivesInvariance, PTL

\* executeKeygen, StoreKeyData and CompleteKeygenSession implement KeyAgreement, with no
\* restart or one.
THEOREM KeygenIsAgreement ==
    ASSUME OneRestartIsSafe
    PROVE  Spec => IsKeyAgreement
<1>1. Init => Promise!Init
  BY DEF Init, Promise!Init
<1>2. IInv /\ (Routing /\ Lives) /\ [Next]_vars => [Promise!Next]_(Promise!vars)
  <2> SUFFICES ASSUME IInv, Routing, Lives, [Next]_vars
               PROVE  Promise!Next \/ UNCHANGED Promise!vars
    OBVIOUS
  <2> QED
    BY LivesKeep DEF Promise!vars
<1> QED
  BY <1>1, <1>2, Invariance, LivesInvariance, PTL DEF Spec, IsKeyAgreement, Promise!Spec
=============================================================================
