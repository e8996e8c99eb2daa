---------------------------- MODULE SigningProofs ----------------------------
(***************************************************************************)
(* Type correctness of a signing, that no handler is left with a closed    *)
(* channel, and that no queue overflows, for any number of nodes, signers, *)
(* rounds and restarts, any engine and any faults.                         *)
(***************************************************************************)
EXTENDS Signing, FiniteSetTheorems, TLAPS

Msg(m, r) == [from |-> m, round |-> r]

\* The messages that have reached n: a handler has one, or the queue, or the party.
At(n) == found[n] \cup queue[n] \cup stored[n]

\* The last message the party of m has made.
Last(m) == IF round[m] > Rounds THEN Rounds ELSE round[m]

\* Party m has still to make its r-th message for n, or it is in outCh, or the select
\* loop is about to send it or waits for n to take it.
Unsent(m, n, r) ==
    \/ r > round[m]
    \/ \E i \in DOMAIN out[m] :
          out[m][i].round = r /\ (r \in BroadcastRounds \/ n \in out[m][i].to)
    \/ /\ item[m].round = r /\ n \in item[m].to
       /\ call[m].to = n => call[m].state \in {"none", "sent"}

-----------------------------------------------------------------------------
(* The inductive invariant                                                 *)

\* A run has a queue, handlers and a party from CreateQueue on.
CleanBefore ==
    \A n \in Nodes : run[n] \in {"none", "starting", "registered"} =>
        /\ n \notin open
        /\ found[n] = {} /\ queue[n] = {} /\ stored[n] = {}
        /\ round[n] = 0 /\ out[n] = << >> /\ item[n] = Idle /\ call[n] = NoCall

\* A node that StartSign has not reached has not said anything.  Since StartSign
\* reaches a node once, a node that stopped after that stays silent.
SilentBefore ==
    /\ start \subseteq Signers /\ (svc = "idle" => start = {})
    /\ \A m \in Nodes : svc = "idle" \/ m \in start \/ m \notin Signers =>
          /\ run[m] = "none"
          /\ \A n \in Nodes : \A x \in At(n) : x.from # m

\* outCh holds the latest messages in the order of their rounds.
OutInOrder ==
    \A m \in Nodes : \A i \in DOMAIN out[m] :
        /\ out[m][i].round + Len(out[m]) = Last(m) + i
        /\ m \notin out[m][i].to

\* What is being routed is older than what is in outCh, or another target's part of it.
RoutedFirst ==
    \A m \in Nodes :
        /\ item[m] # Idle => run[m] = "running" /\ item[m].round <= Last(m)
        /\ m \notin item[m].to
        /\ call[m] # NoCall => call[m].to \in item[m].to
        /\ \A i \in DOMAIN out[m] :
              \/ item[m].round < out[m][i].round
              \/ /\ item[m].round = out[m][i].round /\ item[m].round \notin BroadcastRounds
                 /\ item[m].to \cap out[m][i].to = {}

\* No message arrives before it is sent, or twice.
SentOnce ==
    /\ \A m, n \in Nodes, r \in 1..Rounds :
          run[m] # "none" /\ Unsent(m, n, r) => Msg(m, r) \notin At(n)
    /\ \A n \in Nodes :
          found[n] \cap queue[n] = {} /\ found[n] \cap stored[n] = {} /\ queue[n] \cap stored[n] = {}

\* A party past its first round has what everybody sent before its own last message.
HeardAll ==
    \A n \in Nodes, m \in Signers, r \in 1..Rounds :
        m # n /\ First < round[n] /\ r < round[n] => Msg(m, r) \in stored[n]

\* Past the first round, nobody is more than one message ahead of its receiver.
OneAhead ==
    \A n \in Nodes : \A x \in At(n) :
        /\ x.from \in Signers /\ x.from # n
        /\ x.round <= First \/ x.round <= round[n] + 1

\* Handlers of a running node have its queue.
HandlersHaveQueue ==
    \A n \in Nodes : run[n] = "running" /\ found[n] # {} => n \in open

IInv ==
    /\ TypeOK /\ CleanBefore /\ SilentBefore /\ OutInOrder /\ RoutedFirst
    /\ SentOnce /\ HeardAll /\ OneAhead /\ HandlersHaveQueue /\ NoSendOnClosed

-----------------------------------------------------------------------------
(* Type correctness                                                        *)

\* What the constants give.
LEMMA Constants ==
    /\ Signers \subseteq Nodes /\ Leader \in Nodes /\ Leader \in Signers
    /\ Kept \subseteq Nodes /\ Notified \subseteq Signers
    /\ Rounds \in Nat /\ Rounds >= 1
    /\ First \in Nat /\ First >= 1 /\ First <= Rounds
    /\ Items \cap {Idle} = {} /\ NoCall \notin Calls
<1>1. Rounds \in Nat /\ Rounds >= 1 /\ First \in Nat /\ First >= 1 /\ First <= Rounds
  BY ConstantsAssumption
<1>2. Idle \notin Items
  BY <1>1 DEF Idle, Items
<1>3. NoCall \notin Calls
  BY DEF NoCall, Calls
<1> QED
  BY <1>1, <1>2, <1>3, ConstantsAssumption

LEMMA ServiceTypes ==
    ASSUME TypeOK,
           \/ ThresholdSign \/ StartSignReturns \/ StartSignFails \/ Poll
           \/ PollFails \/ PollDeadline
    PROVE  TypeOK'
<1>1. UNCHANGED <<proc, queue, found, party, item, call, restarts>>
  BY DEF ThresholdSign, StartSignReturns, StartSignFails, Poll, PollFails, PollDeadline
<1>2. /\ svc' \in {"calling", "polling", "signed", "unverified", "failed"}
      /\ status' \in {"none", "pending", "completed", "failed"}
      /\ signature' \in BOOLEAN /\ start' \subseteq Nodes
  BY Constants DEF ThresholdSign, StartSignReturns, StartSignFails, Poll, PollFails, PollDeadline,
     GiveUp, TypeOK
<1> QED
  BY <1>1, <1>2 DEF TypeOK, proc, party

LEMMA StartTypes ==
    ASSUME TypeOK, NEW n \in Nodes,
           \/ StartSign(n) \/ RegisterParty(n) \/ NoKeyData(n) \/ CreateQueue(n)
           \/ SigningTimeout(n) \/ CompleteSession(n) \/ FailSession(n)
    PROVE  TypeOK'
<1>1. UNCHANGED <<queue, found, party, item, call, restarts, svc>>
  BY DEF StartSign, RegisterParty, NoKeyData, CreateQueue, SigningTimeout, CompleteSession,
     FailSession, session
<1>2. /\ status' \in {"none", "pending", "completed", "failed"}
      /\ signature' \in BOOLEAN /\ start' \subseteq Nodes
  BY DEF StartSign, RegisterParty, NoKeyData, CreateQueue, SigningTimeout, CompleteSession,
     FailSession, session, TypeOK
<1>3. /\ once' \subseteq Nodes /\ active' \subseteq Nodes /\ open' \subseteq Nodes
      /\ record' \subseteq Nodes
  BY DEF StartSign, RegisterParty, NoKeyData, CreateQueue, SigningTimeout, CompleteSession,
     FailSession, TypeOK
<1>4. peers' \in [Nodes -> SUBSET Nodes]
  <2>1. peers' = peers \/ peers' = [peers EXCEPT ![n] = peers[n] \cup Signers]
    BY DEF StartSign, RegisterParty, NoKeyData, CreateQueue, SigningTimeout, CompleteSession,
       FailSession
  <2>2. peers[n] \cup Signers \in SUBSET Nodes
    BY Constants DEF TypeOK
  <2> QED
    BY <2>1, <2>2 DEF TypeOK
<1>5. run' \in [Nodes -> Run]
  <2>1. run' = run \/ \E step \in Run : Goto(n, step)
    BY DEF StartSign, RegisterParty, NoKeyData, CreateQueue, SigningTimeout, CompleteSession,
       FailSession, Run
  <2> QED
    BY <2>1 DEF Goto, TypeOK
<1> QED
  BY <1>1, <1>2, <1>3, <1>4, <1>5 DEF TypeOK, party

LEMMA EnterRoundTypes ==
    ASSUME TypeOK, NEW n \in Nodes, NEW r \in 1..Rounds, EnterRound(n, r)
    PROVE  round' \in [Nodes -> 0..(Rounds + 1)] /\ out' \in [Nodes -> Seq(Items)]
<1> DEFINE new == Message(n, r)
<1>1. new \in Items
  BY Constants DEF Items, Message
<1>2. out' = [out EXCEPT ![n] = Append(out[n], new)] /\ out[n] \in Seq(Items)
  BY DEF EnterRound, TypeOK
<1> HIDE DEF new
<1>3. Append(out[n], new) \in Seq(Items)
  BY <1>1, <1>2
<1>4. out' \in [Nodes -> Seq(Items)]
  BY <1>2, <1>3 DEF TypeOK
<1>5. round' \in [Nodes -> 0..(Rounds + 1)]
  BY Constants DEF EnterRound, TypeOK
<1> QED
  BY <1>4, <1>5

LEMMA FirstRoundTypes ==
    ASSUME TypeOK, NEW n \in Nodes, FirstRound(n)
    PROVE  round' \in [Nodes -> 0..(Rounds + 1)] /\ out' \in [Nodes -> Seq(Items)]
<1> DEFINE s == [r \in 1..First |-> Message(n, r)]
<1>1. \A r \in 1..First : Message(n, r) \in Items
  BY Constants DEF Items, Message
<1>2. s \in Seq(Items)
  BY <1>1, Constants
<1>3. out' = [out EXCEPT ![n] = s] /\ round' = [round EXCEPT ![n] = First]
  BY DEF FirstRound
<1> HIDE DEF s
<1> QED
  BY <1>2, <1>3, Constants DEF TypeOK

LEMMA PartyTypes ==
    ASSUME TypeOK, NEW n \in Nodes, PartyStart(n) \/ PartyAdvance(n)
    PROVE  TypeOK'
<1>1. UNCHANGED <<session, proc, queue, found, stored, item, call, restarts>>
  BY DEF PartyStart, PartyAdvance
<1>2. round' \in [Nodes -> 0..(Rounds + 1)] /\ out' \in [Nodes -> Seq(Items)]
  <2>1. CASE PartyStart(n)
    BY <2>1, FirstRoundTypes DEF PartyStart
  <2>2. CASE PartyAdvance(n) /\ round[n] < Rounds
    <3>1. EnterRound(n, round[n] + 1) /\ round[n] + 1 \in 1..Rounds
      BY <2>2, Constants DEF PartyAdvance, CanProceed
    <3> QED
      BY <3>1, EnterRoundTypes
  <2>3. CASE PartyAdvance(n) /\ ~ (round[n] < Rounds)
    <3>1. round' = [round EXCEPT ![n] = Rounds + 1] /\ out' = out
      BY <2>3 DEF PartyAdvance
    <3>2. Rounds + 1 \in 0..(Rounds + 1)
      BY Constants
    <3> QED
      BY <3>1, <3>2 DEF TypeOK
  <2> QED
    BY <2>1, <2>2, <2>3
<1> QED
  BY <1>1, <1>2 DEF TypeOK, session, proc

LEMMA ProcessMessageTypes ==
    ASSUME TypeOK, NEW n \in Nodes, NEW m \in Messages, ProcessMessage(n, m)
    PROVE  TypeOK'
<1>1. queue' \in [Nodes -> SUBSET Messages] /\ stored' \in [Nodes -> SUBSET Messages]
  BY DEF ProcessMessage, TypeOK
<1> QED
  BY <1>1 DEF ProcessMessage, TypeOK, session, proc

\* The two ways in which the select loop takes something out of outCh.
LEMMA ReceiveOutSteps ==
    ASSUME TypeOK, NEW n \in Nodes, ReceiveOut(n)
    PROVE  LET h == Head(out[n]) IN
           /\ run[n] = "running" /\ item[n] = Idle
           /\ h = out[n][1] /\ h \in Items /\ Len(out[n]) \in Nat \ {0}
           /\ \/ /\ h.round \in BroadcastRounds
                 /\ \/ item' = [item EXCEPT ![n] = Idle]
                    \/ item' = [item EXCEPT ![n] = [round |-> h.round, to |-> BroadcastTargets(n)]]
                 /\ out' = [out EXCEPT ![n] = Tail(out[n])]
              \/ /\ h.round \notin BroadcastRounds
                 /\ \E t \in h.to :
                       /\ item' = [item EXCEPT ![n] = [round |-> h.round, to |-> {t}]]
                       /\ \/ out' = [out EXCEPT ![n] = Tail(out[n])]
                          \/ out' = [out EXCEPT ![n] =
                                       [out[n] EXCEPT ![1] = [round |-> h.round, to |-> h.to \ {t}]]]
<1> DEFINE h == Head(out[n])
<1>1. run[n] = "running" /\ item[n] = Idle /\ out[n] # << >>
  BY DEF ReceiveOut, AtSelect
<1>2. out[n] \in Seq(Items)
  BY DEF TypeOK
<1>3. h = out[n][1] /\ h \in Items /\ Len(out[n]) \in Nat \ {0}
  BY <1>1, <1>2
<1>4. CASE h.round \in BroadcastRounds
  BY <1>1, <1>3, <1>4 DEF ReceiveOut
<1>5. CASE h.round \notin BroadcastRounds
  <2>1. PICK t \in h.to :
           /\ item' = [item EXCEPT ![n] = [round |-> h.round, to |-> {t}]]
           /\ out' = [out EXCEPT ![n] = IF h.to = {t} THEN Tail(out[n])
                        ELSE [out[n] EXCEPT ![1] = [round |-> h.round, to |-> h.to \ {t}]]]
    BY <1>5 DEF ReceiveOut
  <2> QED
    BY <1>1, <1>3, <1>5, <2>1
<1> QED
  BY <1>4, <1>5

LEMMA ReceiveOutTypes ==
    ASSUME TypeOK, NEW n \in Nodes, ReceiveOut(n)
    PROVE  TypeOK'
<1> DEFINE h == Head(out[n])
<1>1. /\ h \in Items /\ Len(out[n]) \in Nat \ {0}
      /\ \E S \in SUBSET Nodes : item' = [item EXCEPT ![n] = Idle]
                                 \/ item' = [item EXCEPT ![n] = [round |-> h.round, to |-> S]]
      /\ \/ out' = [out EXCEPT ![n] = Tail(out[n])]
         \/ \E S \in SUBSET Nodes :
               out' = [out EXCEPT ![n] = [out[n] EXCEPT ![1] = [round |-> h.round, to |-> S]]]
  <2>1. BroadcastTargets(n) \in SUBSET Nodes
    BY DEF BroadcastTargets, TypeOK
  <2>2. h \in Items => \A t \in h.to : {t} \in SUBSET Nodes /\ h.to \ {t} \in SUBSET Nodes
    BY DEF Items
  <2> HIDE DEF h
  <2> QED
    BY <2>1, <2>2, ReceiveOutSteps DEF h
<1> HIDE DEF h
<1>2. item' \in [Nodes -> Items \cup {Idle}]
  <2>1. PICK i \in Items \cup {Idle} : item' = [item EXCEPT ![n] = i]
    BY <1>1 DEF Items
  <2> QED
    BY <2>1 DEF TypeOK
<1>3. out[n] \in Seq(Items)
  BY DEF TypeOK
<1>4. out' \in [Nodes -> Seq(Items)]
  <2>1. Tail(out[n]) \in Seq(Items)
    BY <1>1, <1>3
  <2>2. ASSUME NEW S \in SUBSET Nodes
        PROVE  [out[n] EXCEPT ![1] = [round |-> h.round, to |-> S]] \in Seq(Items)
    <3> DEFINE i == [round |-> h.round, to |-> S]
    <3>1. i \in Items
      BY <1>1 DEF Items
    <3> HIDE DEF i
    <3> QED
      BY <1>1, <1>3, <3>1 DEF i
  <2>3. PICK s \in Seq(Items) : out' = [out EXCEPT ![n] = s]
    BY <1>1, <2>1, <2>2
  <2> QED
    BY <2>3 DEF TypeOK
<1> QED
  BY <1>2, <1>4 DEF ReceiveOut, TypeOK, session, proc

\* A call in flight goes to the state that its sender sees next.
LEMMA CallTypes ==
    ASSUME TypeOK, NEW n \in Nodes, call[n] # NoCall,
           NEW state \in {"sent", "found", "answered", "full", "broken"},
           call' = [call EXCEPT ![n].state = state]
    PROVE  /\ call' = [call EXCEPT ![n] = [to |-> call[n].to, state |-> state]]
           /\ call' \in [Nodes -> Calls \cup {NoCall}]
<1> DEFINE new == [to |-> call[n].to, state |-> state]
<1>1. call[n] \in Calls /\ call \in [Nodes -> Calls \cup {NoCall}]
  BY DEF TypeOK
<1>2. new \in Calls /\ [call[n] EXCEPT !.state = state] = new
  BY <1>1 DEF Calls
<1>3. call' = [call EXCEPT ![n] = new]
  BY <1>1, <1>2
<1> HIDE DEF new
<1>4. call' \in [Nodes -> Calls \cup {NoCall}]
  BY <1>1, <1>2, <1>3
<1> QED
  BY <1>3, <1>4 DEF new

LEMMA SendTypes ==
    ASSUME TypeOK, NEW n \in Nodes, NEW t \in Nodes, SendSigningMessage(n, t)
    PROVE  TypeOK'
<1> DEFINE new == [to |-> t, state |-> "sent"]
<1>1. new \in Calls
  BY DEF Calls
<1>2. call' = [call EXCEPT ![n] = new]
  BY DEF SendSigningMessage
<1> HIDE DEF new
<1>3. call' \in [Nodes -> Calls \cup {NoCall}]
  BY <1>1, <1>2 DEF TypeOK
<1> QED
  BY <1>3 DEF SendSigningMessage, TypeOK, session, proc, party

\* What the sender does with an answer.
LEMMA SendReturnsSteps ==
    ASSUME TypeOK, NEW n \in Nodes, SendReturns(n)
    PROVE  /\ call[n] # NoCall /\ call' = [call EXCEPT ![n] = NoCall]
           /\ \/ /\ run' = [run EXCEPT ![n] = "failing"] /\ item' = [item EXCEPT ![n] = Idle]
              \/ /\ run' = run
                 /\ \/ item' = [item EXCEPT ![n] = Idle]
                    \/ item' = [item EXCEPT ![n] =
                          [round |-> item[n].round, to |-> item[n].to \ {call[n].to}]]
           /\ UNCHANGED <<session, once, record, peers, active, open, queue, found, party, restarts>>
<1>1. call[n] # NoCall
  BY DEF SendReturns, NoCall
<1>2. CASE call[n].state = "broken"
  BY <1>1, <1>2 DEF SendReturns, Goto
<1>3. CASE call[n].state # "broken"
  <2>1. /\ run' = run
        /\ item' = [item EXCEPT ![n] = IF item[n].to = {call[n].to} THEN Idle
                     ELSE [round |-> item[n].round, to |-> item[n].to \ {call[n].to}]]
    BY <1>3 DEF SendReturns
  <2> QED
    BY <1>1, <2>1 DEF SendReturns
<1> QED
  BY <1>2, <1>3

LEMMA SendReturnsTypes ==
    ASSUME TypeOK, NEW n \in Nodes, SendReturns(n)
    PROVE  TypeOK'
<1>1. call' \in [Nodes -> Calls \cup {NoCall}]
  BY SendReturnsSteps DEF TypeOK
<1>2. run' \in [Nodes -> Run]
  BY SendReturnsSteps DEF TypeOK, Run
<1>3. item' \in [Nodes -> Items \cup {Idle}]
  <2>1. CASE item' = [item EXCEPT ![n] = Idle]
    BY <2>1 DEF TypeOK
  <2>2. CASE item' = [item EXCEPT ![n] =
                       [round |-> item[n].round, to |-> item[n].to \ {call[n].to}]]
    <3> DEFINE new == [round |-> item[n].round, to |-> item[n].to \ {call[n].to}]
    <3>1. new \in Items \cup {Idle}
      <4>1. CASE item[n] \in Items
        BY <4>1 DEF Items
      <4>2. CASE item[n] = Idle
        BY <4>2 DEF Idle
      <4> QED
        BY <4>1, <4>2 DEF TypeOK
    <3> HIDE DEF new
    <3>2. item' = [item EXCEPT ![n] = new]
      BY <2>2 DEF new
    <3> QED
      BY <3>1, <3>2 DEF TypeOK
  <2> QED
    BY <2>1, <2>2, SendReturnsSteps
<1>4. UNCHANGED <<session, once, record, peers, active, open, queue, found, party, restarts>>
  BY SendReturnsSteps
<1> QED
  BY <1>1, <1>2, <1>3, <1>4 DEF TypeOK, session, party

LEMMA EndTypes ==
    ASSUME TypeOK, NEW n \in Nodes, ReceiveEnd(n) \/ ReceiveErr(n)
    PROVE  TypeOK'
<1>1. run' \in [Nodes -> Run]
  <2>1. Goto(n, "signed") \/ Goto(n, "failing")
    BY DEF ReceiveEnd, ReceiveErr
  <2> QED
    BY <2>1 DEF Goto, Run, TypeOK
<1>2. active' \subseteq Nodes /\ open' \subseteq Nodes /\ queue' \in [Nodes -> SUBSET Messages]
  BY DEF ReceiveEnd, ReceiveErr, Cleanup, TypeOK
<1>3. UNCHANGED <<session, once, record, peers, found, party, item, call, restarts>>
  BY DEF ReceiveEnd, ReceiveErr
<1> QED
  BY <1>1, <1>2, <1>3 DEF TypeOK, session, party

\* A message that is sent is a message.
LEMMA WireType ==
    ASSUME TypeOK, NEW n \in Nodes, item[n] # Idle
    PROVE  Wire(n) \in Messages
<1>1. item[n] \in Items
  BY DEF TypeOK
<1> QED
  BY <1>1 DEF Wire, Items, Messages

LEMMA DeliveryTypes ==
    ASSUME TypeOK, RoutedFirst, NEW n \in Nodes,
           FindQueue(n) \/ QueueWaitTimesOut(n) \/ CallFails(n)
    PROVE  TypeOK'
<1>1. call[n] # NoCall
  BY DEF FindQueue, QueueWaitTimesOut, CallFails, NoCall
<1>2. call[n].to \in item[n].to /\ item[n] # Idle
  BY <1>1 DEF RoutedFirst, Idle
<1>3. PICK state \in {"sent", "found", "answered", "full", "broken"} :
         call' = [call EXCEPT ![n].state = state]
  BY DEF FindQueue, QueueWaitTimesOut, CallFails
<1>4. call' \in [Nodes -> Calls \cup {NoCall}]
  BY <1>1, <1>3, CallTypes
<1>5. found' \in [Nodes -> SUBSET Messages]
  <2>1. CASE FindQueue(n)
    <3>1. found' = [found EXCEPT ![call[n].to] = found[call[n].to] \cup {Wire(n)}]
      BY <2>1 DEF FindQueue
    <3> QED
      BY <3>1, <1>2, WireType DEF TypeOK
  <2>2. CASE found' = found
    BY <2>2 DEF TypeOK
  <2> QED
    BY <2>1, <2>2 DEF QueueWaitTimesOut, CallFails
<1>6. UNCHANGED <<session, proc, queue, party, item, restarts>>
  BY DEF FindQueue, QueueWaitTimesOut, CallFails
<1> QED
  BY <1>4, <1>5, <1>6 DEF TypeOK, session, proc, party

LEMMA StopTypes ==
    ASSUME TypeOK, NEW n \in Nodes, Stop(n), UNCHANGED session, restarts' \in Nat
    PROVE  TypeOK'
<1>1. /\ once' \subseteq Nodes /\ active' \subseteq Nodes /\ open' \subseteq Nodes
      /\ record' \subseteq Nodes /\ peers' \in [Nodes -> SUBSET Nodes]
  BY DEF Stop, TypeOK
<1>2. run' \in [Nodes -> Run]
  BY DEF Stop, Goto, Run, TypeOK
<1>3. /\ queue' \in [Nodes -> SUBSET Messages] /\ found' \in [Nodes -> SUBSET Messages]
      /\ stored' \in [Nodes -> SUBSET Messages]
  BY DEF Stop, TypeOK
<1>4. round' \in [Nodes -> 0..(Rounds + 1)]
  BY Constants DEF Stop, TypeOK
<1>5. out' \in [Nodes -> Seq(Items)]
  <2>1. << >> \in Seq(Items)
    OBVIOUS
  <2> QED
    BY <2>1 DEF Stop, TypeOK
<1>6. item' \in [Nodes -> Items \cup {Idle}]
  BY DEF Stop, TypeOK
<1>7. call' \in [Nodes -> Calls \cup {NoCall}]
  <2>1. [to |-> n, state |-> "broken"] \in Calls
    BY DEF Calls
  <2>2. ASSUME NEW m \in Nodes
        PROVE  (IF m = n THEN NoCall
                ELSE IF call[m] = [to |-> n, state |-> "found"]
                     THEN [to |-> n, state |-> "broken"] ELSE call[m]) \in Calls \cup {NoCall}
    BY <2>1 DEF TypeOK
  <2> QED
    BY <2>2 DEF Stop
<1> QED
  BY <1>1, <1>2, <1>3, <1>4, <1>5, <1>6, <1>7 DEF TypeOK, session

\* What a handler does with a queue that is still open.
LEMMA EnqueueSteps ==
    ASSUME TypeOK, NEW t \in Nodes, NEW m \in Messages, Enqueue(t, m), t \in open
    PROVE  /\ m \in found[t] /\ m.from \in Nodes
           /\ found' = [found EXCEPT ![t] = found[t] \ {m}]
           /\ queue' = queue \/ queue' = [queue EXCEPT ![t] = queue[t] \cup {m}]
           /\ \/ call' = call
              \/ /\ call[m.from] = [to |-> t, state |-> "found"]
                 /\ \/ QueueFull(t) /\ call' = [call EXCEPT ![m.from] = [to |-> t, state |-> "full"]]
                    \/ call' = [call EXCEPT ![m.from] = [to |-> t, state |-> "answered"]]
           /\ UNCHANGED <<session, proc, party, item, restarts>>
<1>1. m.from \in Nodes
  BY DEF Messages
<1>2. CASE call[m.from] = [to |-> t, state |-> "found"]
  <2>1. call[m.from] # NoCall
    BY <1>2 DEF NoCall
  <2>2. \/ QueueFull(t) /\ call' = [call EXCEPT ![m.from].state = "full"]
        \/ call' = [call EXCEPT ![m.from].state = "answered"]
    BY <1>2 DEF Enqueue
  <2>3. call[m.from].to = t
    BY <1>2
  <2> QED
    BY <1>1, <1>2, <2>1, <2>2, <2>3, CallTypes DEF Enqueue
<1>3. CASE call[m.from] # [to |-> t, state |-> "found"]
  BY <1>1, <1>3 DEF Enqueue
<1> QED
  BY <1>2, <1>3

LEMMA EnqueueTypes ==
    ASSUME TypeOK, NEW t \in Nodes, NEW m \in Messages, Enqueue(t, m)
    PROVE  TypeOK'
<1>1. CASE t \notin open
  <2>1. Stop(t) /\ UNCHANGED session /\ restarts' = restarts
    BY <1>1 DEF Enqueue
  <2> QED
    BY <2>1, StopTypes DEF TypeOK
<1>2. CASE t \in open
  <2>1. found' \in [Nodes -> SUBSET Messages] /\ queue' \in [Nodes -> SUBSET Messages]
    <3>1. /\ found' = [found EXCEPT ![t] = found[t] \ {m}]
          /\ queue' = queue \/ queue' = [queue EXCEPT ![t] = queue[t] \cup {m}]
      BY <1>2, EnqueueSteps
    <3>2. found[t] \ {m} \in SUBSET Messages /\ queue[t] \cup {m} \in SUBSET Messages
      BY DEF TypeOK
    <3> QED
      BY <3>1, <3>2 DEF TypeOK
  <2>2. call' \in [Nodes -> Calls \cup {NoCall}]
    <3>1. [to |-> t, state |-> "full"] \in Calls /\ [to |-> t, state |-> "answered"] \in Calls
      BY DEF Calls
    <3>2. call' = call \/ \E c \in Calls : call' = [call EXCEPT ![m.from] = c]
      BY <1>2, <3>1, EnqueueSteps
    <3> QED
      BY <3>2 DEF TypeOK
  <2>3. UNCHANGED <<session, proc, party, item, restarts>>
    BY <1>2, EnqueueSteps
  <2> QED
    BY <2>1, <2>2, <2>3 DEF TypeOK, session, proc, party
<1> QED
  BY <1>1, <1>2

-----------------------------------------------------------------------------
(* Messages: frame conditions                                              *)

\* A message is the record of its sender and its round.
LEMMA MessageIsMsg ==
    ASSUME NEW x \in Messages
    PROVE  x = Msg(x.from, x.round) /\ x.from \in Nodes /\ x.round \in 1..Rounds
  BY DEF Messages, Msg

LEMMA AtType ==
    ASSUME TypeOK, NEW n \in Nodes
    PROVE  At(n) \subseteq Messages
  BY DEF TypeOK, At

\* A step that leaves m's channels alone does not add to what m has to send.
LEMMA SameToSend ==
    ASSUME NEW m \in Nodes, UNCHANGED <<out[m], round[m], item[m]>>,
           call'[m] = call[m] \/ (call'[m].to = call[m].to /\ call[m].state = "sent")
    PROVE  /\ Last(m)' = Last(m)
           /\ \A n \in Nodes, r \in 1..Rounds : Unsent(m, n, r)' => Unsent(m, n, r)
  BY DEF Last, Unsent

\* Fewer messages to send, and none that arrive.
LEMMA SentOnceKept ==
    ASSUME SentOnce,
           \A m, n \in Nodes, r \in 1..Rounds :
              run'[m] # "none" /\ Unsent(m, n, r)' => run[m] # "none" /\ Unsent(m, n, r),
           \A n \in Nodes : At(n)' \subseteq At(n)
    PROVE  \A m, n \in Nodes, r \in 1..Rounds :
              run'[m] # "none" /\ Unsent(m, n, r)' => Msg(m, r)' \notin At(n)'
  BY DEF SentOnce, Msg

-----------------------------------------------------------------------------
(* The invariant, step by step                                             *)

LEMMA InitHolds == Init => IInv
<1> SUFFICES ASSUME Init PROVE IInv
  OBVIOUS
<1>1. TypeOK
  <2>1. << >> \in Seq(Items)
    OBVIOUS
  <2>2. /\ peers \in [Nodes -> SUBSET Nodes] /\ run \in [Nodes -> Run]
        /\ round \in [Nodes -> 0..(Rounds + 1)]
    BY Constants DEF Init, Run
  <2>3. /\ queue \in [Nodes -> SUBSET Messages] /\ found \in [Nodes -> SUBSET Messages]
        /\ stored \in [Nodes -> SUBSET Messages]
    BY DEF Init
  <2>4. /\ out \in [Nodes -> Seq(Items)] /\ item \in [Nodes -> Items \cup {Idle}]
        /\ call \in [Nodes -> Calls \cup {NoCall}]
    BY <2>1 DEF Init
  <2>5. /\ svc = "idle" /\ status = "none" /\ signature \in BOOLEAN /\ start \subseteq Nodes
        /\ once \subseteq Nodes /\ active \subseteq Nodes /\ open \subseteq Nodes
        /\ record \subseteq Nodes /\ restarts \in Nat
    BY Constants DEF Init
  <2> QED
    BY <2>2, <2>3, <2>4, <2>5 DEF TypeOK
<1>2. CleanBefore /\ SilentBefore /\ HandlersHaveQueue /\ NoSendOnClosed
  BY DEF Init, CleanBefore, SilentBefore, HandlersHaveQueue, NoSendOnClosed, At
<1>3. OutInOrder /\ RoutedFirst
  BY DEF Init, OutInOrder, RoutedFirst, Idle
<1>4. SentOnce /\ HeardAll /\ OneAhead
  BY Constants DEF Init, SentOnce, HeardAll, OneAhead, At
<1> QED
  BY <1>1, <1>2, <1>3, <1>4 DEF IInv

\* Steps of the service and calls on their way.
LEMMA SessionKeeps ==
    ASSUME IInv, TypeOK',
           UNCHANGED <<run, open, queue, found, stored, round, out, item, call>>,
           svc' = svc \/ svc' # "idle",
           start' \subseteq start \/ (svc = "idle" /\ svc' # "idle" /\ start' = Notified)
    PROVE  IInv'
<1>1. \A n \in Nodes : At(n)' = At(n)
  BY DEF At
<1>2. SilentBefore'
  BY <1>1, Constants DEF IInv, SilentBefore
<1>3. SentOnce'
  BY DEF IInv, SentOnce, Unsent, At, Msg
<1>4. OutInOrder' /\ RoutedFirst'
  BY DEF IInv, OutInOrder, RoutedFirst, Last
<1>5. CleanBefore' /\ HeardAll' /\ OneAhead' /\ HandlersHaveQueue' /\ NoSendOnClosed'
  BY DEF IInv, CleanBefore, HeardAll, OneAhead, HandlersHaveQueue, NoSendOnClosed, At, Msg
<1> QED
  BY <1>2, <1>3, <1>4, <1>5 DEF IInv

LEMMA ServiceKeeps ==
    ASSUME IInv,
           \/ ThresholdSign \/ StartSignReturns \/ StartSignFails \/ Poll
           \/ PollFails \/ PollDeadline
    PROVE  IInv'
<1>1. TypeOK'
  BY ServiceTypes DEF IInv
<1>2. UNCHANGED <<run, open, queue, found, stored, round, out, item, call>>
  BY DEF ThresholdSign, StartSignReturns, StartSignFails, Poll, PollFails, PollDeadline, proc, party
<1>3. svc' # "idle" /\ (start' \subseteq start \/ (svc = "idle" /\ start' = Notified))
  BY DEF ThresholdSign, StartSignReturns, StartSignFails, Poll, PollFails, PollDeadline, GiveUp
<1> QED
  BY <1>1, <1>2, <1>3, SessionKeeps

\* Steps that move the goroutine and leave messages where they are.
LEMMA RunKeeps ==
    ASSUME IInv, TypeOK', NEW n \in Nodes, NEW step \in Run,
           run' = [run EXCEPT ![n] = step], step # "none",
           open \subseteq open', open' \subseteq open \cup {n},
           UNCHANGED <<queue, found, stored, round, out, item, call, svc>>,
           start' \subseteq start, n \notin start', svc # "idle", n \in Signers,
           run[n] = "none" => n \in start,
           item[n] # Idle => step = "running",
           step \in {"starting", "registered"} => run[n] \in {"none", "starting"} /\ open' = open,
           step = "running" => run[n] = "registered"
    PROVE  IInv'
<1>1. /\ run \in [Nodes -> Run] /\ run'[n] = step
      /\ \A m \in Nodes : m # n => run'[m] = run[m]
  BY DEF IInv, TypeOK
<1>2. \A m \in Nodes : At(m)' = At(m)
  BY DEF At
<1>3. CleanBefore'
  BY <1>1 DEF IInv, CleanBefore
<1>4. SilentBefore'
  BY <1>1, <1>2 DEF IInv, SilentBefore
<1>5. OutInOrder'
  BY DEF IInv, OutInOrder, Last
<1>6. RoutedFirst'
  BY <1>1 DEF IInv, RoutedFirst, Last
<1>7. SentOnce'
  <2>1. ASSUME NEW m \in Nodes, NEW k \in Nodes, NEW r \in 1..Rounds,
               run'[m] # "none", Unsent(m, k, r)'
        PROVE  Msg(m, r)' \notin At(k)'
    <3>1. Unsent(m, k, r)
      BY <2>1, SameToSend
    <3>2. CASE run[m] # "none"
      BY <3>1, <3>2, <1>2 DEF IInv, SentOnce, Msg
    <3>3. CASE run[m] = "none"
      <4>1. m \in start
        BY <3>3, <2>1, <1>1
      <4> QED
        BY <4>1, <1>2 DEF IInv, SilentBefore, Msg
    <3> QED
      BY <3>2, <3>3
  <2> QED
    BY <2>1 DEF IInv, SentOnce
<1>8. HeardAll' /\ OneAhead'
  BY <1>2 DEF IInv, HeardAll, OneAhead, Msg
<1>9. HandlersHaveQueue' /\ NoSendOnClosed'
  BY <1>1 DEF IInv, CleanBefore, HandlersHaveQueue, NoSendOnClosed
<1> QED
  BY <1>3, <1>4, <1>5, <1>6, <1>7, <1>8, <1>9 DEF IInv

LEMMA GoroutineKeeps ==
    ASSUME IInv, NEW n \in Nodes,
           \/ StartSign(n) \/ RegisterParty(n) \/ NoKeyData(n) \/ CreateQueue(n)
           \/ SigningTimeout(n) \/ CompleteSession(n) \/ FailSession(n)
    PROVE  IInv'
<1>1. TypeOK'
  BY StartTypes DEF IInv
<1>2. UNCHANGED <<queue, found, stored, round, out, item, call, svc>>
  BY DEF StartSign, RegisterParty, NoKeyData, CreateQueue, SigningTimeout, CompleteSession,
     FailSession, session, party
<1>3. CASE StartSign(n) /\ n \notin once
  <2>1. run' = [run EXCEPT ![n] = "starting"] /\ start' = start \ {n} /\ open' = open /\ n \in start
    BY <1>3 DEF StartSign, Goto
  <2>2. n \in Signers /\ run[n] = "none" /\ item[n] = Idle /\ svc # "idle"
    BY <2>1 DEF IInv, SilentBefore, CleanBefore
  <2> QED
    BY <1>1, <1>2, <2>1, <2>2, RunKeeps DEF Run
<1>4. CASE StartSign(n) /\ n \in once
  <2>1. run' = run /\ open' = open /\ start' \subseteq start
    BY <1>4 DEF StartSign
  <2> QED
    BY <1>1, <1>2, <2>1, SessionKeeps
<1>5. ASSUME ~ StartSign(n)
      PROVE  IInv'
  <2>1. /\ start' = start
        /\ run[n] \in {"starting", "registered", "running", "signed", "failing"}
    BY <1>5 DEF RegisterParty, NoKeyData, CreateQueue, SigningTimeout, CompleteSession,
       FailSession, session, AtSelect
  <2>2. n \in Signers /\ n \notin start /\ svc # "idle"
    BY <2>1 DEF IInv, SilentBefore
  <2>3. PICK step \in Run :
           /\ run' = [run EXCEPT ![n] = step] /\ step # "none" /\ item[n] = Idle
           /\ step \in {"starting", "registered"} => run[n] = "starting" /\ open' = open
           /\ step = "running" => run[n] = "registered"
    <3>1. item[n] = Idle
      BY <1>5 DEF RegisterParty, NoKeyData, CreateQueue, SigningTimeout, CompleteSession,
         FailSession, AtSelect, IInv, RoutedFirst
    <3>2. CASE RegisterParty(n)
      BY <3>1, <3>2 DEF RegisterParty, Goto, Run
    <3>3. CASE CreateQueue(n)
      BY <3>1, <3>3 DEF CreateQueue, Goto, Run
    <3>4. CASE NoKeyData(n) \/ SigningTimeout(n) \/ CompleteSession(n) \/ FailSession(n)
      BY <3>1, <3>4 DEF NoKeyData, SigningTimeout, CompleteSession, FailSession, Goto, Run
    <3> QED
      BY <1>5, <3>2, <3>3, <3>4
  <2>4. open \subseteq open' /\ open' \subseteq open \cup {n}
    BY <1>5 DEF RegisterParty, NoKeyData, CreateQueue, SigningTimeout, CompleteSession, FailSession
  <2> QED
    BY <1>1, <1>2, <2>1, <2>2, <2>3, <2>4, RunKeeps
<1> QED
  BY <1>3, <1>4, <1>5

LEMMA AddOne ==
    ASSUME NEW a \in Nat, NEW b \in Nat, NEW c \in Nat, NEW d \in Nat, a + b = c + d
    PROVE  a + (b + 1) = (c + 1) + d
  OBVIOUS

\* Positions in outCh when one message more is behind them.
LEMMA OrderShift ==
    ASSUME NEW s \in Seq(Items), NEW i \in DOMAIN s, NEW last \in Nat,
           s[i].round + Len(s) = last + i
    PROVE  s[i].round + (Len(s) + 1) = (last + 1) + i
<1>1. s[i] \in Items /\ Len(s) \in Nat /\ i \in Nat
  OBVIOUS
<1>2. s[i].round \in Nat
  <2>1. s[i].round \in 1..Rounds
    BY <1>1 DEF Items
  <2>2. Rounds \in Nat
    BY Constants
  <2> QED
    BY <2>1, <2>2
<1> QED
  BY <1>1, <1>2, AddOne

\* The party of n goes on to its r-th message: what comes of it but for the order in
\* outCh.
LEMMA MoveKeeps ==
    ASSUME IInv, TypeOK', NEW n \in Nodes, NEW r \in 1..(Rounds + 1),
           run[n] = "running", round[n] < r,
           UNCHANGED <<svc, start, run, open, queue, found, stored, item, call>>,
           round' = [round EXCEPT ![n] = r],
           \A m \in Nodes : m # n => out'[m] = out[m],
           \A m \in Signers, q \in 1..Rounds :
              m # n /\ First < r /\ q < r => Msg(m, q) \in stored[n],
           OutInOrder', RoutedFirst',
           \A k \in Nodes, q \in 1..Rounds : Unsent(n, k, q)' => Unsent(n, k, q)
    PROVE  IInv'
<1>0. Rounds \in Nat /\ round[n] \in Nat /\ r \in Nat
  BY Constants DEF IInv, TypeOK
<1>1. /\ round'[n] = r /\ \A m \in Nodes : m # n => round'[m] = round[m] /\ out'[m] = out[m]
      /\ \A m \in Nodes : At(m)' = At(m)
  BY DEF IInv, TypeOK, At
<1>2. SentOnce'
  <2>1. \A m, k \in Nodes, q \in 1..Rounds : Unsent(m, k, q)' => Unsent(m, k, q)
    BY <1>1, SameToSend
  <2> QED
    BY <2>1, <1>1, SentOnceKept DEF IInv, SentOnce
<1>3. HeardAll'
  <2> SUFFICES ASSUME NEW k \in Nodes, NEW m \in Signers, NEW q \in 1..Rounds,
                      m # k, First < round'[k], q < round'[k]
               PROVE  Msg(m, q)' \in stored'[k]
    BY DEF HeardAll
  <2>1. CASE k # n
    BY <2>1, <1>1 DEF IInv, HeardAll, Msg
  <2>2. CASE k = n
    BY <2>2, <1>1 DEF Msg
  <2> QED
    BY <2>1, <2>2
<1>4. OneAhead'
  <2> SUFFICES ASSUME NEW k \in Nodes, NEW x \in At(k)
               PROVE  /\ x.from \in Signers /\ x.from # k
                      /\ x.round <= First \/ x.round <= round'[k] + 1
    BY <1>1 DEF OneAhead
  <2>1. /\ x.from \in Signers /\ x.from # k
        /\ x.round <= First \/ x.round <= round[k] + 1
    BY DEF IInv, OneAhead
  <2>2. x.round \in Nat
    BY AtType, MessageIsMsg DEF IInv
  <2> QED
    BY <2>1, <2>2, <1>0, <1>1
<1>5. CleanBefore' /\ SilentBefore'
  BY <1>1 DEF IInv, CleanBefore, SilentBefore
<1>6. HandlersHaveQueue' /\ NoSendOnClosed'
  BY <1>0, <1>1 DEF IInv, HandlersHaveQueue, NoSendOnClosed
<1> QED
  BY <1>2, <1>3, <1>4, <1>5, <1>6 DEF IInv

\* The party of n starts, with the messages of its first round.
LEMMA FirstRoundKeeps ==
    ASSUME IInv, TypeOK', NEW n \in Nodes, run[n] = "running", round[n] = 0,
           UNCHANGED <<svc, start, run, open, queue, found, stored, item, call>>,
           FirstRound(n)
    PROVE  IInv'
<1>1. First \in Nat /\ Rounds \in Nat /\ First >= 1 /\ First <= Rounds
  BY Constants
<1>2. /\ round'[n] = First /\ round' = [round EXCEPT ![n] = First]
      /\ \A m \in Nodes : m # n => round'[m] = round[m] /\ out'[m] = out[m]
  BY DEF FirstRound, IInv, TypeOK
<1>3. /\ DOMAIN out'[n] = 1..First /\ Len(out'[n]) = First
      /\ \A i \in 1..First : out'[n][i].round = i /\ n \notin out'[n][i].to
  <2>1. out'[n] = [i \in 1..First |-> Message(n, i)]
    BY DEF FirstRound, IInv, TypeOK
  <2> QED
    BY <2>1, <1>1 DEF Message
<1>4. Last(n)' = First /\ Last(n) = 0 /\ \A m \in Nodes : m # n => Last(m)' = Last(m)
  BY <1>1, <1>2 DEF Last
<1>5. item[n] = Idle
  <2>1. item[n] \in Items \cup {Idle} /\ (item[n] # Idle => item[n].round <= 0)
    BY <1>4 DEF IInv, TypeOK, RoutedFirst
  <2> QED
    BY <2>1, <1>1 DEF Items
<1>6. OutInOrder'
  <2>1. ASSUME NEW m \in Nodes, m # n, NEW i \in DOMAIN out'[m]
        PROVE  out'[m][i].round + Len(out'[m]) = Last(m)' + i /\ m \notin out'[m][i].to
    BY <1>2, <1>4, <2>1 DEF IInv, OutInOrder
  <2>2. ASSUME NEW i \in DOMAIN out'[n]
        PROVE  out'[n][i].round + Len(out'[n]) = Last(n)' + i /\ n \notin out'[n][i].to
    BY <1>1, <1>3, <1>4
  <2> QED
    BY <2>1, <2>2 DEF OutInOrder
<1>7. RoutedFirst'
  <2>1. \A i \in DOMAIN out'[n] : Idle.round < out'[n][i].round
    BY <1>1, <1>3 DEF Idle
  <2> QED
    BY <2>1, <1>2, <1>4, <1>5 DEF IInv, RoutedFirst
<1>8. \A k \in Nodes, q \in 1..Rounds : Unsent(n, k, q)
  BY <1>1 DEF Unsent
<1>9. First \in 1..(Rounds + 1) /\ round[n] < First /\ ~ (First < First)
  BY <1>1
<1> QED
  BY <1>2, <1>6, <1>7, <1>8, <1>9, MoveKeeps

\* The party of n is done with a message and makes the next one, or the signature.
LEMMA RoundKeeps ==
    ASSUME IInv, TypeOK', NEW n \in Nodes, NEW r \in 1..(Rounds + 1),
           run[n] = "running", r = round[n] + 1,
           UNCHANGED <<svc, start, run, open, queue, found, stored, item, call>>,
           round' = [round EXCEPT ![n] = r],
           \A m \in Signers, q \in 1..Rounds : m # n /\ q < r => Msg(m, q) \in stored[n],
           IF r <= Rounds
           THEN out' = [out EXCEPT ![n] = Append(out[n], Message(n, r))]
           ELSE out' = out
    PROVE  IInv'
<1> DEFINE new == Message(n, r)
<1>0. Rounds \in Nat /\ round[n] \in Nat /\ r \in Nat
  BY Constants DEF IInv, TypeOK
<1>1. /\ round'[n] = r /\ \A m \in Nodes : m # n => round'[m] = round[m] /\ out'[m] = out[m]
      /\ \A m \in Nodes : At(m)' = At(m)
  BY DEF IInv, TypeOK, At
<1>2. /\ out[n] \in Seq(Items) /\ Len(out[n]) \in Nat /\ DOMAIN out[n] = 1..Len(out[n])
      /\ Last(n) = round[n] /\ item[n].round <= Last(n) /\ item[n].round \in Nat
  <2>1. out[n] \in Seq(Items) /\ item[n] \in Items \cup {Idle}
    BY DEF IInv, TypeOK
  <2>2. item[n].round \in Nat /\ (item[n] = Idle => item[n].round = 0)
    BY <2>1 DEF Items, Idle
  <2>3. Last(n) = round[n]
    BY <1>0 DEF Last
  <2> QED
    BY <1>0, <2>1, <2>2, <2>3 DEF IInv, RoutedFirst
<1> DEFINE Ordered ==
             /\ OutInOrder' /\ RoutedFirst'
             /\ \A k \in Nodes, q \in 1..Rounds : Unsent(n, k, q)' => Unsent(n, k, q)
<1>3. ASSUME r <= Rounds PROVE Ordered
  <2>1. out'[n] = Append(out[n], new)
    BY <1>3 DEF IInv, TypeOK
  <2> HIDE DEF new
  <2>2. /\ Len(out'[n]) = Len(out[n]) + 1 /\ DOMAIN out'[n] = 1..(Len(out[n]) + 1)
        /\ out'[n][Len(out[n]) + 1] = new
        /\ \A i \in 1..Len(out[n]) : out'[n][i] = out[n][i]
    BY <1>2, <2>1
  <2>3. Last(n)' = r
    BY <1>0, <1>1, <1>3 DEF Last
  <2>4. new.round = r /\ new.to = Signers \ {n}
    BY DEF new, Message
  <2>5. \A i \in DOMAIN out'[n] : i \in DOMAIN out[n] \/ i = Len(out[n]) + 1
    BY <1>2, <2>2
  <2>6. OutInOrder'
    <3>1. ASSUME NEW m \in Nodes, m # n, NEW i \in DOMAIN out'[m]
          PROVE  out'[m][i].round + Len(out'[m]) = Last(m)' + i /\ m \notin out'[m][i].to
      BY <1>1, <3>1 DEF IInv, OutInOrder, Last
    <3>2. ASSUME NEW i \in DOMAIN out[n]
          PROVE  out'[n][i].round + Len(out'[n]) = Last(n)' + i /\ n \notin out'[n][i].to
      <4>1. out[n][i].round + Len(out[n]) = Last(n) + i /\ n \notin out[n][i].to
        BY DEF IInv, OutInOrder
      <4>2. out'[n][i] = out[n][i]
        BY <1>2, <2>2
      <4>3. out[n][i].round + (Len(out[n]) + 1) = r + i
        <5>1. out[n][i].round + Len(out[n]) = round[n] + i
          BY <4>1, <1>2
        <5> QED
          BY <5>1, <1>0, <1>2, OrderShift
      <4> QED
        BY <4>1, <4>2, <4>3, <2>2, <2>3
    <3>3. out'[n][Len(out[n]) + 1].round + Len(out'[n]) = Last(n)' + (Len(out[n]) + 1)
          /\ n \notin out'[n][Len(out[n]) + 1].to
      BY <1>0, <1>2, <2>2, <2>3, <2>4
    <3> QED
      BY <3>1, <3>2, <3>3, <2>5 DEF OutInOrder
  <2>7. RoutedFirst'
    <3>1. ASSUME NEW i \in DOMAIN out'[n]
          PROVE  \/ item[n].round < out'[n][i].round
                 \/ /\ item[n].round = out'[n][i].round /\ item[n].round \notin BroadcastRounds
                    /\ item[n].to \cap out'[n][i].to = {}
      <4>1. CASE i \in DOMAIN out[n]
        BY <4>1, <1>2, <2>2 DEF IInv, RoutedFirst
      <4>2. CASE i = Len(out[n]) + 1
        BY <4>2, <1>0, <1>2, <2>2, <2>4
      <4> QED
        BY <4>1, <4>2, <2>5
    <3>2. item[n].round <= Last(n)'
      BY <1>0, <1>2, <2>3
    <3> QED
      BY <3>1, <3>2, <1>1 DEF IInv, RoutedFirst, Last
  <2>8. ASSUME NEW k \in Nodes, NEW q \in 1..Rounds, Unsent(n, k, q)'
        PROVE  Unsent(n, k, q)
    <3>1. CASE q > round'[n]
      BY <3>1, <1>0, <1>1 DEF Unsent
    <3>2. ASSUME NEW i \in DOMAIN out'[n], out'[n][i].round = q,
                 q \in BroadcastRounds \/ k \in out'[n][i].to
          PROVE  Unsent(n, k, q)
      <4>1. CASE i \in DOMAIN out[n]
        BY <4>1, <3>2, <1>2, <2>2 DEF Unsent
      <4>2. CASE i = Len(out[n]) + 1
        BY <4>2, <3>2, <1>0, <2>2, <2>4 DEF Unsent
      <4> QED
        BY <4>1, <4>2, <2>5
    <3> QED
      BY <3>1, <3>2, <2>8 DEF Unsent
  <2> QED
    BY <2>6, <2>7, <2>8
<1>4. ASSUME ~ (r <= Rounds) PROVE Ordered
  <2>1. out' = out /\ Last(n)' = Last(n) /\ \A m \in Nodes : m # n => Last(m)' = Last(m)
    BY <1>0, <1>1, <1>2, <1>4 DEF Last
  <2>2. OutInOrder' /\ RoutedFirst'
    BY <2>1 DEF IInv, OutInOrder, RoutedFirst
  <2>3. ASSUME NEW k \in Nodes, NEW q \in 1..Rounds, Unsent(n, k, q)'
        PROVE  Unsent(n, k, q)
    BY <2>3, <2>1, <1>0, <1>1, <1>4 DEF Unsent
  <2> QED
    BY <2>2, <2>3
<1>5. round[n] < r /\ \A m \in Nodes : m # n => out'[m] = out[m]
  BY <1>0, <1>1
<1> QED
  BY <1>3, <1>4, <1>5, MoveKeeps

LEMMA PartyKeeps ==
    ASSUME IInv, NEW n \in Nodes, PartyStart(n) \/ PartyAdvance(n)
    PROVE  IInv'
<1>1. TypeOK'
  BY PartyTypes DEF IInv
<1>2. /\ UNCHANGED <<svc, start, run, open, queue, found, stored, item, call>>
      /\ run[n] = "running" /\ Rounds \in Nat /\ round[n] \in Nat /\ Rounds >= 1
  BY Constants DEF PartyStart, PartyAdvance, session, proc, IInv, TypeOK
<1>3. CASE PartyStart(n)
  BY <1>1, <1>2, <1>3, FirstRoundKeeps DEF PartyStart
<1>4. CASE PartyAdvance(n)
  <2> DEFINE r == round[n] + 1
  <2>1. /\ round[n] \in 1..Rounds
        /\ \A m \in Signers \ {n}, q \in 1..round[n] : Msg(m, q) \in stored[n]
    BY <1>4 DEF PartyAdvance, CanProceed, Msg
  <2>2. r \in 1..(Rounds + 1) /\ r = round[n] + 1
    BY <1>2, <2>1
  <2>3. ASSUME NEW m \in Signers, NEW q \in 1..Rounds, m # n, q < r
        PROVE  Msg(m, q) \in stored[n]
    <3>1. q \in 1..round[n]
      BY <1>2, <2>2, <2>3
    <3> QED
      BY <2>1, <2>3, <3>1
  <2>4. CASE round[n] < Rounds
    <3>1. /\ round' = [round EXCEPT ![n] = r] /\ r <= Rounds
          /\ out' = [out EXCEPT ![n] = Append(out[n], Message(n, r))]
      BY <1>2, <1>4, <2>4 DEF PartyAdvance, EnterRound
    <3> HIDE DEF r
    <3> QED
      BY <1>1, <1>2, <2>2, <2>3, <3>1, RoundKeeps DEF r
  <2>5. CASE ~ (round[n] < Rounds)
    <3>1. /\ round' = [round EXCEPT ![n] = r] /\ ~ (r <= Rounds) /\ out' = out
      BY <1>2, <1>4, <2>1, <2>5 DEF PartyAdvance
    <3> HIDE DEF r
    <3> QED
      BY <1>1, <1>2, <2>2, <2>3, <3>1, RoundKeeps DEF r
  <2> QED
    BY <2>4, <2>5
<1> QED
  BY <1>3, <1>4

LEMMA ProcessMessageKeeps ==
    ASSUME IInv, NEW n \in Nodes, NEW m \in Messages, ProcessMessage(n, m)
    PROVE  IInv'
<1>1. TypeOK'
  BY ProcessMessageTypes DEF IInv
<1>2. /\ UNCHANGED <<svc, start, run, open, found, round, out, item, call>>
      /\ n \in open /\ m \in queue[n]
      /\ queue' = [queue EXCEPT ![n] = queue[n] \ {m}]
      /\ stored' = stored \/ stored' = [stored EXCEPT ![n] = stored[n] \cup {m}]
  BY DEF ProcessMessage, session, proc
<1>3. \A k \in Nodes : /\ queue'[k] = queue[k] \/ (k = n /\ queue'[k] = queue[k] \ {m})
                       /\ stored'[k] = stored[k] \/ (k = n /\ stored'[k] = stored[k] \cup {m}
                                                           /\ queue'[k] = queue[k] \ {m})
  BY <1>2 DEF IInv, TypeOK
<1>4. \A k \in Nodes : At(k)' \subseteq At(k) /\ stored[k] \subseteq stored'[k]
  BY <1>2, <1>3 DEF At
<1>5. SentOnce'
  <2>1. \A k \in Nodes :
           /\ found'[k] \cap queue'[k] = {} /\ found'[k] \cap stored'[k] = {}
           /\ queue'[k] \cap stored'[k] = {}
    BY <1>2, <1>3 DEF IInv, SentOnce
  <2>2. \A p, k \in Nodes, r \in 1..Rounds : Unsent(p, k, r)' => Unsent(p, k, r)
    BY <1>2, SameToSend
  <2> QED
    BY <1>2, <1>4, <2>1, <2>2, SentOnceKept DEF IInv, SentOnce
<1>6. CleanBefore'
  BY <1>2, <1>3 DEF IInv, CleanBefore
<1>7. SilentBefore' /\ OneAhead'
  BY <1>2, <1>4 DEF IInv, SilentBefore, OneAhead
<1>8. HeardAll'
  BY <1>2, <1>4 DEF IInv, HeardAll, Msg
<1>9. OutInOrder' /\ RoutedFirst' /\ HandlersHaveQueue' /\ NoSendOnClosed'
  BY <1>2 DEF IInv, OutInOrder, RoutedFirst, Last, HandlersHaveQueue, NoSendOnClosed
<1> QED
  BY <1>1, <1>5, <1>6, <1>7, <1>8, <1>9 DEF IInv

\* Steps of a call that bring no message.
LEMMA CallKeeps ==
    ASSUME IInv, TypeOK', NEW n \in Nodes, NEW c,
           UNCHANGED <<svc, start, run, open, queue, found, stored, round, out, item>>,
           call' = [call EXCEPT ![n] = c], item[n] # Idle, c.to \in item[n].to,
           call[n] = NoCall \/ (c.to = call[n].to /\ call[n].state = "sent")
                \/ (c.to = call[n].to /\ c.state \notin {"none", "sent"})
    PROVE  IInv'
<1>1. /\ call'[n] = c /\ \A m \in Nodes : m # n => call'[m] = call[m]
      /\ run[n] = "running" /\ \A m \in Nodes : At(m)' = At(m)
  BY DEF IInv, TypeOK, RoutedFirst, At
<1>2. SentOnce'
  <2>1. \A k \in Nodes, r \in 1..Rounds : Unsent(n, k, r)' => Unsent(n, k, r)
    BY <1>1 DEF Unsent, NoCall
  <2>2. \A m \in Nodes, k \in Nodes, r \in 1..Rounds : Unsent(m, k, r)' => Unsent(m, k, r)
    BY <1>1, <2>1, SameToSend
  <2> QED
    BY <1>1, <2>2, SentOnceKept DEF IInv, SentOnce
<1>3. CleanBefore' /\ RoutedFirst'
  BY <1>1 DEF IInv, CleanBefore, RoutedFirst, Last
<1>4. SilentBefore' /\ OneAhead'
  BY <1>1 DEF IInv, SilentBefore, OneAhead
<1>5. OutInOrder' /\ HeardAll' /\ HandlersHaveQueue' /\ NoSendOnClosed'
  BY DEF IInv, OutInOrder, Last, HeardAll, Msg, HandlersHaveQueue, NoSendOnClosed
<1> QED
  BY <1>2, <1>3, <1>4, <1>5 DEF IInv

LEMMA SendKeeps ==
    ASSUME IInv, NEW n \in Nodes, NEW t \in Nodes, SendSigningMessage(n, t)
    PROVE  IInv'
<1>1. TypeOK'
  BY SendTypes DEF IInv
<1>2. /\ UNCHANGED <<svc, start, run, open, queue, found, stored, round, out, item>>
      /\ call[n] = NoCall /\ t \in item[n].to
      /\ call' = [call EXCEPT ![n] = [to |-> t, state |-> "sent"]]
  BY DEF SendSigningMessage, session, proc, party
<1>3. item[n] # Idle
  BY <1>2 DEF Idle
<1> QED
  BY <1>1, <1>2, <1>3, CallKeeps

LEMMA CallEndsKeeps ==
    ASSUME IInv, NEW n \in Nodes, QueueWaitTimesOut(n) \/ CallFails(n)
    PROVE  IInv'
<1>1. TypeOK'
  BY DeliveryTypes DEF IInv
<1>2. call[n] # NoCall
  BY DEF QueueWaitTimesOut, CallFails, NoCall
<1>3. call[n].to \in item[n].to /\ item[n] # Idle
  BY <1>2 DEF IInv, RoutedFirst, Idle
<1>4. PICK state \in {"answered", "broken"} : call' = [call EXCEPT ![n].state = state]
  BY DEF QueueWaitTimesOut, CallFails
<1>5. call' = [call EXCEPT ![n] = [to |-> call[n].to, state |-> state]]
  BY <1>2, <1>4, CallTypes DEF IInv
<1>6. UNCHANGED <<svc, start, run, open, queue, found, stored, round, out, item>>
  BY DEF QueueWaitTimesOut, CallFails, session, proc, party
<1> QED
  BY <1>1, <1>3, <1>5, <1>6, CallKeeps

\* i is at the head of outCh, or one target's part of what is, and s the rest of it.
Split(n, i, s) ==
    /\ i = Idle \/ i.round <= Last(n)
    /\ n \notin i.to
    /\ \A j \in DOMAIN s :
          /\ s[j].round + Len(s) = Last(n) + j /\ n \notin s[j].to
          /\ \E k \in DOMAIN out[n] : s[j].round = out[n][k].round /\ s[j].to \subseteq out[n][k].to
          /\ \/ i.round < s[j].round
             \/ /\ i.round = s[j].round /\ i.round \notin BroadcastRounds
                /\ i.to \cap s[j].to = {}
    /\ \A t \in i.to : \E k \in DOMAIN out[n] :
          i.round = out[n][k].round /\ (i.round \in BroadcastRounds \/ t \in out[n][k].to)

\* The select loop takes a message, or a target's part of one, from outCh.
LEMMA RouteKeeps ==
    ASSUME IInv, TypeOK', NEW n \in Nodes, NEW i, NEW s,
           UNCHANGED <<svc, start, run, open, queue, found, stored, round, call>>,
           run[n] = "running", item[n] = Idle,
           item' = [item EXCEPT ![n] = i], out' = [out EXCEPT ![n] = s],
           Split(n, i, s)
    PROVE  IInv'
<1>1. /\ item'[n] = i /\ out'[n] = s
      /\ \A m \in Nodes : m # n => item'[m] = item[m] /\ out'[m] = out[m]
      /\ call[n] = NoCall
      /\ \A m \in Nodes : At(m)' = At(m) /\ Last(m)' = Last(m)
  BY DEF IInv, TypeOK, RoutedFirst, Idle, At, Last
<1>2. SentOnce'
  <2>1. \A k \in Nodes, r \in 1..Rounds : Unsent(n, k, r)' => Unsent(n, k, r)
    <3> SUFFICES ASSUME NEW k \in Nodes, NEW r \in 1..Rounds, Unsent(n, k, r)'
                 PROVE  Unsent(n, k, r)
      OBVIOUS
    <3>1. CASE r > round'[n]
      BY <3>1 DEF Unsent
    <3>2. ASSUME NEW j \in DOMAIN s, s[j].round = r, r \in BroadcastRounds \/ k \in s[j].to
          PROVE  Unsent(n, k, r)
      <4>1. PICK q \in DOMAIN out[n] : s[j].round = out[n][q].round /\ s[j].to \subseteq out[n][q].to
        BY DEF Split
      <4> QED
        BY <4>1, <3>2 DEF Unsent
    <3>3. CASE i.round = r /\ k \in i.to
      BY <3>3 DEF Unsent, Split
    <3> QED
      BY <1>1, <3>1, <3>2, <3>3 DEF Unsent
  <2>2. \A m \in Nodes, k \in Nodes, r \in 1..Rounds : Unsent(m, k, r)' => Unsent(m, k, r)
    BY <1>1, <2>1, SameToSend
  <2> QED
    BY <1>1, <2>2, SentOnceKept DEF IInv, SentOnce
<1>3. OutInOrder'
  <2> SUFFICES ASSUME NEW m \in Nodes, NEW j \in DOMAIN out'[m]
               PROVE  out'[m][j].round + Len(out'[m]) = Last(m) + j /\ m \notin out'[m][j].to
    BY <1>1 DEF OutInOrder
  <2>1. CASE m = n
    BY <1>1, <2>1 DEF Split
  <2>2. CASE m # n
    BY <1>1, <2>2 DEF IInv, OutInOrder
  <2> QED
    BY <2>1, <2>2
<1>4. RoutedFirst'
  <2> SUFFICES ASSUME NEW m \in Nodes
               PROVE  /\ item'[m] # Idle => run[m] = "running" /\ item'[m].round <= Last(m)
                      /\ m \notin item'[m].to
                      /\ call[m] # NoCall => call[m].to \in item'[m].to
                      /\ \A j \in DOMAIN out'[m] :
                            \/ item'[m].round < out'[m][j].round
                            \/ /\ item'[m].round = out'[m][j].round
                               /\ item'[m].round \notin BroadcastRounds
                               /\ item'[m].to \cap out'[m][j].to = {}
    BY <1>1 DEF RoutedFirst, Idle, NoCall
  <2>1. CASE m = n
    BY <1>1, <2>1 DEF Split
  <2>2. CASE m # n
    BY <1>1, <2>2 DEF IInv, RoutedFirst
  <2> QED
    BY <2>1, <2>2
<1>5. CleanBefore'
  BY <1>1 DEF IInv, CleanBefore
<1>6. SilentBefore' /\ OneAhead'
  BY <1>1 DEF IInv, SilentBefore, OneAhead
<1>7. HeardAll' /\ HandlersHaveQueue' /\ NoSendOnClosed'
  BY DEF IInv, HeardAll, Msg, HandlersHaveQueue, NoSendOnClosed
<1> QED
  BY <1>2, <1>3, <1>4, <1>5, <1>6, <1>7 DEF IInv

\* Positions in outCh, whose rounds grow by one from its head on.
LEMMA OutPositions ==
    ASSUME IInv, NEW n \in Nodes, NEW j \in DOMAIN out[n], NEW k \in DOMAIN out[n], j < k
    PROVE  out[n][j].round < out[n][k].round
<1>1. out[n] \in Seq(Items) /\ Rounds \in Nat
  BY Constants DEF IInv, TypeOK
<1>2. out[n][j] \in Items /\ out[n][k] \in Items /\ Len(out[n]) \in Nat /\ j \in Nat /\ k \in Nat
  BY <1>1
<1>3. out[n][j].round \in Nat /\ out[n][k].round \in Nat
  BY <1>1, <1>2 DEF Items
<1>4. out[n][j].round + Len(out[n]) = Last(n) + j /\ out[n][k].round + Len(out[n]) = Last(n) + k
  BY DEF IInv, OutInOrder
<1>5. Last(n) \in Nat
  BY <1>1 DEF Last, IInv, TypeOK
<1>6. ASSUME NEW a \in Nat, NEW b \in Nat, NEW l \in Nat, NEW c \in Nat, NEW p \in Nat,
             NEW q \in Nat, p < q, a + l = c + p, b + l = c + q
      PROVE  a < b
  BY <1>6
<1> QED
  BY <1>2, <1>3, <1>4, <1>5, <1>6

\* outCh without its head.
LEMMA TailOfOut ==
    ASSUME IInv, NEW n \in Nodes, Len(out[n]) # 0, NEW j \in DOMAIN Tail(out[n])
    PROVE  LET s == Tail(out[n]) IN
           /\ s[j].round + Len(s) = Last(n) + j /\ n \notin s[j].to
           /\ \E k \in DOMAIN out[n] : s[j] = out[n][k]
           /\ out[n][1].round < s[j].round /\ 0 < s[j].round
<1> DEFINE s == Tail(out[n])
<1>1. out[n] \in Seq(Items) /\ Rounds \in Nat
  BY Constants DEF IInv, TypeOK
<1>2. /\ Len(out[n]) \in Nat \ {0} /\ Len(s) = Len(out[n]) - 1 /\ j \in Nat
      /\ 1 \in DOMAIN out[n] /\ j + 1 \in DOMAIN out[n] /\ s[j] = out[n][j + 1] /\ 1 < j + 1
  BY <1>1
<1>3. out[n][j + 1] \in Items
  BY <1>1, <1>2
<1>4. out[n][j + 1].round \in Nat /\ 0 < out[n][j + 1].round
  BY <1>1, <1>3 DEF Items
<1>5. out[n][j + 1].round + Len(out[n]) = Last(n) + (j + 1) /\ n \notin out[n][j + 1].to
  BY <1>2 DEF IInv, OutInOrder
<1>6. Last(n) \in Nat
  BY <1>1 DEF Last, IInv, TypeOK
<1>7. out[n][j + 1].round + (Len(out[n]) - 1) = Last(n) + j
  <2> DEFINE a == out[n][j + 1].round
             l == Len(out[n])
             c == Last(n)
  <2>1. a \in Nat /\ l \in Nat \ {0} /\ c \in Nat /\ j \in Nat /\ a + l = c + (j + 1)
    BY <1>2, <1>4, <1>5, <1>6
  <2> HIDE DEF a, l, c
  <2>2. a + (l - 1) = c + j
    BY <2>1
  <2> QED
    BY <2>2 DEF a, l, c
<1>8. out[n][1].round < out[n][j + 1].round
  BY <1>2, OutPositions
<1> HIDE DEF s
<1>9. /\ s[j].round + Len(s) = Last(n) + j /\ n \notin s[j].to
      /\ \E k \in DOMAIN out[n] : s[j] = out[n][k]
      /\ out[n][1].round < s[j].round /\ 0 < s[j].round
  BY <1>2, <1>4, <1>5, <1>7, <1>8
<1> QED
  BY <1>9 DEF s

LEMMA ReceiveOutKeeps ==
    ASSUME IInv, NEW n \in Nodes, ReceiveOut(n)
    PROVE  IInv'
<1> DEFINE h == out[n][1]
<1>1. TypeOK'
  BY ReceiveOutTypes DEF IInv
<1>2. UNCHANGED <<svc, start, run, open, queue, found, stored, round, call>>
  BY DEF ReceiveOut, session, proc
<1>3. /\ run[n] = "running" /\ item[n] = Idle
      /\ h \in Items /\ Len(out[n]) \in Nat \ {0}
      /\ \/ /\ h.round \in BroadcastRounds
            /\ \/ item' = [item EXCEPT ![n] = Idle]
               \/ item' = [item EXCEPT ![n] = [round |-> h.round, to |-> BroadcastTargets(n)]]
            /\ out' = [out EXCEPT ![n] = Tail(out[n])]
         \/ /\ h.round \notin BroadcastRounds
            /\ \E t \in h.to :
                  /\ item' = [item EXCEPT ![n] = [round |-> h.round, to |-> {t}]]
                  /\ \/ out' = [out EXCEPT ![n] = Tail(out[n])]
                     \/ out' = [out EXCEPT ![n] =
                                  [out[n] EXCEPT ![1] = [round |-> h.round, to |-> h.to \ {t}]]]
  BY ReceiveOutSteps DEF IInv
<1>4. /\ out[n] \in Seq(Items) /\ 1 \in DOMAIN out[n] /\ DOMAIN out[n] = 1..Len(out[n])
      /\ Rounds \in Nat /\ h.round \in Nat /\ n \notin h.to
  <2>1. out[n] \in Seq(Items) /\ Rounds \in Nat
    BY Constants DEF IInv, TypeOK
  <2>2. 1 \in DOMAIN out[n] /\ DOMAIN out[n] = 1..Len(out[n])
    BY <1>3, <2>1
  <2>3. n \notin h.to
    BY <2>2 DEF IInv, OutInOrder
  <2>4. h.round \in Nat
    BY <1>3, <2>1 DEF Items
  <2> QED
    BY <2>1, <2>2, <2>3, <2>4
<1>5. h.round <= Last(n)
  <2>1. h.round + Len(out[n]) = Last(n) + 1
    BY <1>4 DEF IInv, OutInOrder
  <2>2. Last(n) \in Nat
    BY <1>4 DEF Last, IInv, TypeOK
  <2>3. ASSUME NEW a \in Nat, NEW l \in Nat \ {0}, NEW c \in Nat, a + l = c + 1 PROVE a <= c
    BY <2>3
  <2> QED
    BY <1>3, <1>4, <2>1, <2>2, <2>3
<1>6. Idle.round = 0 /\ Idle.to = {}
  BY DEF Idle
<1>7. n \notin BroadcastTargets(n)
  BY DEF BroadcastTargets
<1> HIDE DEF h
<1>8. ASSUME NEW i, item' = [item EXCEPT ![n] = i], out' = [out EXCEPT ![n] = Tail(out[n])],
             i = Idle \/ i.round = h.round, n \notin i.to,
             i.to = {} \/ i.round \in BroadcastRounds \/ i.to \subseteq h.to
      PROVE  IInv'
  <2> DEFINE s == Tail(out[n])
  <2>1. ASSUME NEW j \in DOMAIN s
        PROVE  /\ s[j].round + Len(s) = Last(n) + j /\ n \notin s[j].to
               /\ \E k \in DOMAIN out[n] : s[j].round = out[n][k].round /\ s[j].to \subseteq out[n][k].to
               /\ i.round < s[j].round
    <3>1. /\ s[j].round + Len(s) = Last(n) + j /\ n \notin s[j].to
          /\ \E k \in DOMAIN out[n] : s[j] = out[n][k]
          /\ h.round < s[j].round /\ 0 < s[j].round
      BY <1>3, TailOfOut DEF h
    <3> QED
      BY <3>1, <1>6, <1>8
  <2>2. \A t \in i.to : \E k \in DOMAIN out[n] :
           i.round = out[n][k].round /\ (i.round \in BroadcastRounds \/ t \in out[n][k].to)
    BY <1>4, <1>6, <1>8 DEF h
  <2>3. i = Idle \/ i.round <= Last(n)
    BY <1>5, <1>8
  <2> HIDE DEF s
  <2>4. out' = [out EXCEPT ![n] = s]
    BY <1>8 DEF s
  <2>5. run[n] = "running" /\ item[n] = Idle
    BY <1>3
  <2>6. item' = [item EXCEPT ![n] = i] /\ n \notin i.to
    BY <1>8
  <2>7. Split(n, i, s)
    BY <2>1, <2>2, <2>3, <2>6 DEF Split
  <2> QED
    BY <1>1, <1>2, <2>4, <2>5, <2>6, <2>7, RouteKeeps
<1>9. ASSUME NEW t \in h.to, h.round \notin BroadcastRounds,
             item' = [item EXCEPT ![n] = [round |-> h.round, to |-> {t}]],
             out' = [out EXCEPT ![n] = [out[n] EXCEPT ![1] = [round |-> h.round, to |-> h.to \ {t}]]]
      PROVE  IInv'
  <2> DEFINE new == [round |-> h.round, to |-> h.to \ {t}]
             i == [round |-> h.round, to |-> {t}]
             s == [out[n] EXCEPT ![1] = new]
  <2>1. new.round = h.round /\ new.to = h.to \ {t} /\ i.round = h.round /\ i.to = {t}
    OBVIOUS
  <2>2. new \in Items
    BY <1>3 DEF Items
  <2> HIDE DEF new, i
  <2>3. /\ s \in Seq(Items) /\ Len(s) = Len(out[n]) /\ DOMAIN s = DOMAIN out[n] /\ s[1] = new
        /\ \A j \in DOMAIN s : j # 1 => s[j] = out[n][j]
    BY <1>3, <1>4, <2>2
  <2> HIDE DEF s
  <2>4. ASSUME NEW j \in DOMAIN s
        PROVE  /\ s[j].round + Len(s) = Last(n) + j /\ n \notin s[j].to
               /\ \E k \in DOMAIN out[n] : s[j].round = out[n][k].round /\ s[j].to \subseteq out[n][k].to
               /\ \/ i.round < s[j].round
                  \/ /\ i.round = s[j].round /\ i.round \notin BroadcastRounds
                     /\ i.to \cap s[j].to = {}
    <3>1. out[n][j].round + Len(out[n]) = Last(n) + j /\ n \notin out[n][j].to
      BY <2>3 DEF IInv, OutInOrder
    <3>2. CASE j = 1
      BY <1>4, <1>9, <2>1, <2>3, <3>1, <3>2 DEF h
    <3>3. CASE j # 1
      <4>1. 1 < j
        BY <1>3, <1>4, <2>3, <3>3
      <4>2. h.round < out[n][j].round
        BY <1>4, <2>3, <4>1, OutPositions DEF h
      <4> QED
        BY <2>1, <2>3, <3>1, <3>3, <4>2
    <3> QED
      BY <3>2, <3>3
  <2>5. \A k \in i.to : \E q \in DOMAIN out[n] :
           i.round = out[n][q].round /\ (i.round \in BroadcastRounds \/ k \in out[n][q].to)
    BY <1>4, <2>1 DEF h
  <2>6. i.round <= Last(n) /\ n \notin i.to
    BY <1>4, <1>5, <2>1
  <2>7. item' = [item EXCEPT ![n] = i] /\ out' = [out EXCEPT ![n] = s]
    BY <1>9 DEF i, s, new
  <2>8. run[n] = "running" /\ item[n] = Idle
    BY <1>3
  <2>9. Split(n, i, s)
    BY <2>4, <2>5, <2>6 DEF Split
  <2> QED
    BY <1>1, <1>2, <2>7, <2>8, <2>9, RouteKeeps
<1>10. CASE item' = [item EXCEPT ![n] = Idle] /\ out' = [out EXCEPT ![n] = Tail(out[n])]
  BY <1>6, <1>8, <1>10
<1>11. CASE /\ h.round \in BroadcastRounds /\ out' = [out EXCEPT ![n] = Tail(out[n])]
            /\ item' = [item EXCEPT ![n] = [round |-> h.round, to |-> BroadcastTargets(n)]]
  <2> DEFINE i == [round |-> h.round, to |-> BroadcastTargets(n)]
  <2>1. i.round = h.round /\ n \notin i.to
    BY <1>7
  <2> HIDE DEF i
  <2>2. item' = [item EXCEPT ![n] = i]
    BY <1>11 DEF i
  <2> QED
    BY <1>8, <1>11, <2>1, <2>2
<1>12. ASSUME NEW t \in h.to, out' = [out EXCEPT ![n] = Tail(out[n])],
              item' = [item EXCEPT ![n] = [round |-> h.round, to |-> {t}]]
       PROVE  IInv'
  <2> DEFINE i == [round |-> h.round, to |-> {t}]
  <2>1. i.round = h.round /\ n \notin i.to /\ i.to \subseteq h.to
    BY <1>4
  <2> HIDE DEF i
  <2>2. item' = [item EXCEPT ![n] = i]
    BY <1>12 DEF i
  <2> QED
    BY <1>8, <1>12, <2>1, <2>2
<1> QED
  BY <1>3, <1>9, <1>10, <1>11, <1>12

LEMMA SendReturnsKeeps ==
    ASSUME IInv, NEW n \in Nodes, SendReturns(n)
    PROVE  IInv'
<1>1. TypeOK'
  BY SendReturnsTypes DEF IInv
<1>2. /\ UNCHANGED <<svc, start, open, queue, found, stored, round, out>>
      /\ call[n] # NoCall /\ call' = [call EXCEPT ![n] = NoCall]
      /\ run' = run \/ (run' = [run EXCEPT ![n] = "failing"] /\ item' = [item EXCEPT ![n] = Idle])
  BY SendReturnsSteps DEF session, party, IInv
<1>3. PICK i : /\ item' = [item EXCEPT ![n] = i] /\ i.to \subseteq item[n].to \ {call[n].to}
               /\ i = Idle \/ i.round = item[n].round
  <2>1. CASE item' = [item EXCEPT ![n] = Idle]
    BY <2>1 DEF Idle
  <2>2. CASE item' = [item EXCEPT ![n] =
                        [round |-> item[n].round, to |-> item[n].to \ {call[n].to}]]
    <3> DEFINE rest == [round |-> item[n].round, to |-> item[n].to \ {call[n].to}]
    <3>1. rest.round = item[n].round /\ rest.to = item[n].to \ {call[n].to}
      OBVIOUS
    <3>2. item' = [item EXCEPT ![n] = rest]
      BY <2>2
    <3> HIDE DEF rest
    <3> QED
      BY <3>1, <3>2
  <2> QED
    BY <2>1, <2>2, SendReturnsSteps DEF IInv
<1>4. run[n] = "running" /\ item[n].round <= Last(n) /\ n \notin item[n].to
  BY <1>2 DEF IInv, RoutedFirst, Idle
<1>5. /\ item'[n] = i /\ call'[n] = NoCall /\ run'[n] \in {"running", "failing"}
      /\ run'[n] # "running" => i = Idle
      /\ \A m \in Nodes : m # n => item'[m] = item[m] /\ call'[m] = call[m] /\ run'[m] = run[m]
  <2>1. item \in [Nodes -> Items \cup {Idle}] /\ call \in [Nodes -> Calls \cup {NoCall}]
        /\ run \in [Nodes -> Run]
    BY DEF IInv, TypeOK
  <2>2. item'[n] = i /\ call'[n] = NoCall
        /\ \A m \in Nodes : m # n => item'[m] = item[m] /\ call'[m] = call[m]
    BY <1>2, <1>3, <2>1
  <2>3. run'[n] \in {"running", "failing"} /\ \A m \in Nodes : m # n => run'[m] = run[m]
    BY <1>2, <1>4, <2>1
  <2>4. run'[n] # "running" => item'[n] = Idle
    BY <1>2, <1>4, <2>1
  <2> QED
    BY <2>2, <2>3, <2>4
<1>6. \A m \in Nodes : At(m)' = At(m) /\ Last(m)' = Last(m)
  BY <1>2 DEF At, Last
<1>7. SentOnce'
  <2>1. \A k \in Nodes, r \in 1..Rounds : Unsent(n, k, r)' => Unsent(n, k, r)
    BY <1>2, <1>3, <1>5 DEF Unsent, Idle
  <2>2. \A m \in Nodes, k \in Nodes, r \in 1..Rounds : Unsent(m, k, r)' => Unsent(m, k, r)
    BY <1>2, <1>5, <2>1, SameToSend
  <2>3. \A m \in Nodes : run'[m] # "none" => run[m] # "none"
    BY <1>4, <1>5
  <2> QED
    BY <1>2, <1>6, <2>2, <2>3, SentOnceKept DEF IInv, SentOnce
<1>8. RoutedFirst'
  <2>1. ASSUME NEW j \in DOMAIN out[n]
        PROVE  \/ i.round < out[n][j].round
               \/ /\ i.round = out[n][j].round /\ i.round \notin BroadcastRounds
                  /\ i.to \cap out[n][j].to = {}
    <3>1. CASE i = Idle
      <4>1. out[n] \in Seq(Items) /\ Rounds \in Nat
        BY Constants DEF IInv, TypeOK
      <4>2. out[n][j] \in Items
        BY <4>1
      <4> QED
        BY <3>1, <4>1, <4>2 DEF Idle, Items
    <3>2. CASE i.round = item[n].round
      BY <3>2, <1>3 DEF IInv, RoutedFirst
    <3> QED
      BY <3>1, <3>2, <1>3
  <2>2. i # Idle => i.round <= Last(n)
    BY <1>3, <1>4
  <2>3. n \notin i.to
    BY <1>3, <1>4
  <2>4. ASSUME NEW m \in Nodes
        PROVE  /\ item'[m] # Idle => run'[m] = "running" /\ item'[m].round <= Last(m)
               /\ m \notin item'[m].to
               /\ call'[m] # NoCall => call'[m].to \in item'[m].to
               /\ \A j \in DOMAIN out[m] :
                     \/ item'[m].round < out[m][j].round
                     \/ /\ item'[m].round = out[m][j].round
                        /\ item'[m].round \notin BroadcastRounds
                        /\ item'[m].to \cap out[m][j].to = {}
    <3>1. CASE m = n
      BY <1>5, <2>1, <2>2, <2>3, <3>1
    <3>2. CASE m # n
      BY <1>5, <3>2 DEF IInv, RoutedFirst
    <3> QED
      BY <3>1, <3>2
  <2> QED
    BY <1>2, <1>6, <2>4 DEF RoutedFirst, Idle, NoCall
<1>9. CleanBefore'
  BY <1>2, <1>5 DEF IInv, CleanBefore
<1>10. SilentBefore'
  BY <1>2, <1>4, <1>5, <1>6 DEF IInv, SilentBefore
<1>11. OutInOrder' /\ OneAhead'
  BY <1>2, <1>6 DEF IInv, OutInOrder, OneAhead
<1>12. HeardAll' /\ HandlersHaveQueue' /\ NoSendOnClosed'
  BY <1>2, <1>4, <1>5 DEF IInv, HeardAll, Msg, HandlersHaveQueue, NoSendOnClosed
<1> QED
  BY <1>1, <1>7, <1>8, <1>9, <1>10, <1>11, <1>12 DEF IInv

\* The select loop ends: with the signature, when all messages have been used, or
\* before the party started.
LEMMA EndKeeps ==
    ASSUME IInv, NEW n \in Nodes, ReceiveEnd(n) \/ ReceiveErr(n)
    PROVE  IInv'
<1>1. TypeOK'
  BY EndTypes DEF IInv
<1>2. /\ UNCHANGED <<svc, start, found, stored, round, out, item, call>>
      /\ run[n] = "running" /\ item[n] = Idle /\ open' = open \ {n}
      /\ queue' = [queue EXCEPT ![n] = {}]
      /\ round[n] = Rounds + 1 \/ round[n] = 0
  BY DEF ReceiveEnd, ReceiveErr, Cleanup, AtSelect, session, party
<1>3. run'[n] \in {"signed", "failing"} /\ \A m \in Nodes : m # n => run'[m] = run[m]
  <2>1. Goto(n, "signed") \/ Goto(n, "failing")
    BY DEF ReceiveEnd, ReceiveErr
  <2> QED
    BY <2>1 DEF Goto, IInv, TypeOK
<1>4. \A m \in Nodes : queue'[m] \subseteq queue[m]
  BY <1>2 DEF IInv, TypeOK
<1>5. \A m \in Nodes : At(m)' \subseteq At(m) /\ Last(m)' = Last(m)
  BY <1>2, <1>4 DEF At, Last
<1>6. SentOnce'
  <2>1. \A m \in Nodes, k \in Nodes, r \in 1..Rounds : Unsent(m, k, r)' => Unsent(m, k, r)
    BY <1>2, SameToSend
  <2>2. \A m \in Nodes : run'[m] # "none" => run[m] # "none"
    BY <1>2, <1>3
  <2>3. \A m \in Nodes :
           /\ found'[m] \cap queue'[m] = {} /\ found'[m] \cap stored'[m] = {}
           /\ queue'[m] \cap stored'[m] = {}
    BY <1>2, <1>4 DEF IInv, SentOnce
  <2> QED
    BY <1>5, <2>1, <2>2, <2>3, SentOnceKept DEF IInv, SentOnce
<1>7. found[n] = {} \/ round[n] = 0
  <2> SUFFICES ASSUME NEW x \in found[n], round[n] = Rounds + 1
               PROVE  FALSE
    BY <1>2
  <2>1. x \in Messages /\ x \in At(n)
    BY DEF IInv, TypeOK, At
  <2>2. x.from \in Signers /\ x.from # n
    BY <2>1 DEF IInv, OneAhead
  <2>3. x = Msg(x.from, x.round) /\ x.round \in 1..Rounds
    BY <2>1, MessageIsMsg
  <2>4. x.round < round[n] /\ First < round[n]
    BY <2>3, Constants
  <2>5. x \in stored[n]
    BY <2>2, <2>3, <2>4 DEF IInv, HeardAll
  <2> QED
    BY <2>5 DEF IInv, SentOnce
<1>8. CleanBefore'
  BY <1>2, <1>3, <1>4 DEF IInv, CleanBefore
<1>9. SilentBefore'
  BY <1>2, <1>3, <1>5 DEF IInv, SilentBefore
<1>10. OutInOrder' /\ RoutedFirst'
  BY <1>2, <1>3, <1>5 DEF IInv, OutInOrder, RoutedFirst, Idle
<1>11. HeardAll' /\ OneAhead'
  BY <1>2, <1>5 DEF IInv, HeardAll, Msg, OneAhead
<1>12. HandlersHaveQueue' /\ NoSendOnClosed'
  BY <1>2, <1>3, <1>7 DEF IInv, HandlersHaveQueue, NoSendOnClosed
<1> QED
  BY <1>1, <1>6, <1>8, <1>9, <1>10, <1>11, <1>12 DEF IInv

\* What a handler finds the queue for: a message that the receiver does not have, of
\* the first round or at most one ahead of the receiver's own last one.
LEMMA OnItsWay ==
    ASSUME IInv, NEW n \in Nodes, NEW t, t = call[n].to, call[n].state = "sent", t \in open
    PROVE  /\ t \in Nodes /\ t # n /\ n \in Signers /\ t \in Signers
           /\ run[n] = "running" /\ run[t] \notin {"none", "starting", "registered"}
           /\ svc # "idle" /\ n \notin start
           /\ item[n].round \in 1..Rounds
           /\ item[n].round <= First \/ item[n].round <= round[t] + 1
           /\ Wire(n) = Msg(n, item[n].round) /\ Wire(n) \notin At(t)
           /\ t \in item[n].to /\ item[n].round <= round[n]
<1> DEFINE r == item[n].round
<1>1. t \in Nodes /\ t \in item[n].to /\ item[n] # Idle
  <2>1. call[n] # NoCall
    BY DEF NoCall
  <2> QED
    BY <2>1 DEF IInv, RoutedFirst, Idle, TypeOK
<1>2. t # n /\ run[n] = "running" /\ r <= Last(n)
  BY <1>1 DEF IInv, RoutedFirst
<1>3. Rounds \in Nat /\ r \in 1..Rounds /\ round[n] \in Nat /\ round[t] \in Nat
  <2>1. item[n] \in Items /\ round \in [Nodes -> 0..(Rounds + 1)]
    BY <1>1 DEF IInv, TypeOK
  <2> QED
    BY <1>1, <2>1, Constants DEF Items
<1>4. r <= round[n]
  BY <1>2, <1>3 DEF Last
<1>5. run[t] \notin {"none", "starting", "registered"}
  BY <1>1 DEF IInv, CleanBefore
<1>6. n \in Signers /\ t \in Signers /\ svc # "idle" /\ n \notin start
  BY <1>1, <1>2, <1>5 DEF IInv, SilentBefore
<1>7. Wire(n) = Msg(n, r)
  BY DEF Wire, Msg
<1>8. Msg(n, r) \notin At(t)
  <2>1. Unsent(n, t, r)
    BY <1>1 DEF Unsent
  <2> QED
    BY <1>1, <1>2, <1>3, <2>1 DEF IInv, SentOnce
<1>9. r <= First \/ r <= round[t] + 1
  <2>1. CASE r <= First
    BY <2>1
  <2>2. CASE ~ (r <= First)
    <3>1. r - 1 \in 1..Rounds /\ r - 1 < round[n] /\ First < round[n]
      BY <1>3, <1>4, <2>2, Constants
    <3>2. Msg(t, r - 1) \in At(n)
      BY <1>2, <1>6, <3>1 DEF IInv, HeardAll, At
    <3>3. ~ Unsent(t, n, r - 1)
      BY <1>1, <1>5, <3>1, <3>2 DEF IInv, SentOnce
    <3>4. ~ (r - 1 > round[t])
      BY <3>3 DEF Unsent
    <3> QED
      BY <1>3, <3>4
  <2> QED
    BY <2>1, <2>2
<1> QED
  BY <1>1, <1>2, <1>3, <1>4, <1>5, <1>6, <1>7, <1>8, <1>9

LEMMA FindQueueKeeps ==
    ASSUME IInv, NEW n \in Nodes, FindQueue(n)
    PROVE  IInv'
<1>1. TypeOK'
  BY DeliveryTypes DEF IInv
<1>0. PICK t \in Nodes, r \in 1..Rounds : t = call[n].to /\ r = item[n].round
  BY OnItsWay DEF FindQueue
<1>2. /\ call[n].state = "sent" /\ t \in open
      /\ found' = [found EXCEPT ![t] = found[t] \cup {Wire(n)}]
      /\ call' = [call EXCEPT ![n].state = "found"]
      /\ UNCHANGED <<svc, start, run, open, queue, stored, round, out, item>>
  BY <1>0 DEF FindQueue, session, proc, party
<1>3. /\ t \in Nodes /\ t # n /\ n \in Signers /\ t \in Signers
      /\ run[n] = "running" /\ run[t] \notin {"none", "starting", "registered"}
      /\ svc # "idle" /\ n \notin start
      /\ r \in 1..Rounds /\ (r <= First \/ r <= round[t] + 1)
      /\ Wire(n) = Msg(n, r) /\ Wire(n) \notin At(t)
      /\ t \in item[n].to /\ r <= round[n]
  BY <1>0, <1>2, OnItsWay
<1>4. call'[n].to = t /\ call'[n].state = "found" /\ \A m \in Nodes : m # n => call'[m] = call[m]
  <2>1. call[n] # NoCall
    BY <1>2 DEF NoCall
  <2>2. call' = [call EXCEPT ![n] = [to |-> call[n].to, state |-> "found"]]
    BY <1>2, <2>1, CallTypes DEF IInv
  <2> QED
    BY <1>0, <2>2 DEF IInv, TypeOK
<1>5. found'[t] = found[t] \cup {Msg(n, r)} /\ \A k \in Nodes : k # t => found'[k] = found[k]
  BY <1>2, <1>3 DEF IInv, TypeOK
<1>6. /\ At(t)' = At(t) \cup {Msg(n, r)} /\ \A k \in Nodes : k # t => At(k)' = At(k)
      /\ \A k \in Nodes : Last(k)' = Last(k)
  BY <1>2, <1>5 DEF At, Last
<1>7. Msg(n, r).from = n /\ Msg(n, r).round = r
  BY DEF Msg
<1>8. \A m, k \in Nodes, q \in 1..Rounds : Unsent(m, k, q)' => Unsent(m, k, q)
  BY <1>0, <1>2, <1>4, SameToSend
<1>9. ~ Unsent(n, t, r)'
  <2>1. ~ (r > round[n])
    BY <1>3, Constants DEF IInv, TypeOK
  <2>2. \A i \in DOMAIN out[n] :
           ~ (out[n][i].round = r /\ (r \in BroadcastRounds \/ t \in out[n][i].to))
    <3> SUFFICES ASSUME NEW i \in DOMAIN out[n], out[n][i].round = r,
                        r \in BroadcastRounds \/ t \in out[n][i].to
                 PROVE  FALSE
      OBVIOUS
    <3>1. ~ (r < r)
      BY <1>3, Constants
    <3> QED
      BY <1>0, <1>3, <3>1 DEF IInv, RoutedFirst
  <2> QED
    BY <1>0, <1>2, <1>4, <2>1, <2>2 DEF Unsent
<1>10. SentOnce'
  <2>1. ASSUME NEW m \in Nodes, NEW k \in Nodes, NEW q \in 1..Rounds,
               run'[m] # "none", Unsent(m, k, q)'
        PROVE  Msg(m, q)' \notin At(k)'
    <3>1. Msg(m, q) \notin At(k) /\ Msg(m, q)' = Msg(m, q)
      BY <1>2, <1>8, <2>1 DEF IInv, SentOnce, Msg
    <3>2. CASE k # t
      BY <1>6, <3>1, <3>2
    <3>3. CASE k = t
      <4>1. ~ (m = n /\ q = r)
        BY <1>9, <2>1, <3>3
      <4>2. Msg(m, q) # Msg(n, r)
        BY <4>1 DEF Msg
      <4> QED
        BY <1>6, <3>1, <3>3, <4>2
    <3> QED
      BY <3>2, <3>3
  <2>2. ASSUME NEW k \in Nodes
        PROVE  /\ found'[k] \cap queue'[k] = {} /\ found'[k] \cap stored'[k] = {}
               /\ queue'[k] \cap stored'[k] = {}
    BY <1>2, <1>3, <1>5 DEF IInv, SentOnce, At
  <2> QED
    BY <2>1, <2>2 DEF SentOnce
<1>11. CleanBefore'
  BY <1>2, <1>3, <1>4, <1>5 DEF IInv, CleanBefore
<1>12. SilentBefore'
  BY <1>2, <1>3, <1>6, <1>7 DEF IInv, SilentBefore
<1>13. OutInOrder'
  BY <1>2, <1>6 DEF IInv, OutInOrder
<1>14. RoutedFirst'
  <2>1. ASSUME NEW m \in Nodes PROVE call'[m] # NoCall => call'[m].to \in item'[m].to
    BY <1>0, <1>2, <1>3, <1>4 DEF IInv, RoutedFirst
  <2> QED
    BY <1>2, <1>6, <2>1 DEF IInv, RoutedFirst, Idle, NoCall
<1>15. HeardAll'
  BY <1>2 DEF IInv, HeardAll, Msg
<1>16. OneAhead'
  <2> SUFFICES ASSUME NEW k \in Nodes, NEW x \in At(k)'
               PROVE  /\ x.from \in Signers /\ x.from # k
                      /\ x.round <= First \/ x.round <= round[k] + 1
    BY <1>2 DEF OneAhead
  <2>1. CASE x \in At(k)
    BY <2>1 DEF IInv, OneAhead
  <2>2. CASE k = t /\ x = Msg(n, r)
    BY <1>3, <1>7, <2>2
  <2> QED
    BY <1>6, <2>1, <2>2
<1>17. HandlersHaveQueue' /\ NoSendOnClosed'
  BY <1>2, <1>5 DEF IInv, HandlersHaveQueue, NoSendOnClosed
<1> QED
  BY <1>1, <1>10, <1>11, <1>12, <1>13, <1>14, <1>15, <1>16, <1>17 DEF IInv

\* The end of a call changes what its sender has to do, not what there is to send.
LEMMA SameWhenHandled ==
    ASSUME NEW m \in Nodes, UNCHANGED <<out[m], round[m], item[m]>>,
           \/ call'[m] = call[m]
           \/ call'[m].to = call[m].to /\ call'[m].state \notin {"none", "sent"}
    PROVE  /\ Last(m)' = Last(m)
           /\ \A n \in Nodes, r \in 1..Rounds : Unsent(m, n, r)' => Unsent(m, n, r)
  BY DEF Last, Unsent

LEMMA EnqueueKeeps ==
    ASSUME IInv, NEW t \in Nodes, NEW m \in Messages, Enqueue(t, m), t \in open
    PROVE  IInv'
<1>1. TypeOK'
  BY EnqueueTypes DEF IInv
<1>2. /\ m \in found[t] /\ m.from \in Nodes
      /\ found' = [found EXCEPT ![t] = found[t] \ {m}]
      /\ queue' = queue \/ queue' = [queue EXCEPT ![t] = queue[t] \cup {m}]
      /\ UNCHANGED <<svc, start, run, open, stored, round, out, item>>
  BY EnqueueSteps DEF IInv, session, proc, party
<1>3. ASSUME NEW p \in Nodes
      PROVE  \/ call'[p] = call[p]
             \/ /\ call'[p].to = call[p].to /\ call'[p].state \notin {"none", "sent"}
                /\ call[p] # NoCall
  <2>1. \/ call' = call
        \/ /\ call[m.from].to = t /\ call[m.from] # NoCall
           /\ \E s \in {"full", "answered"} : call' = [call EXCEPT ![m.from] = [to |-> t, state |-> s]]
    <3>1. \/ call' = call
          \/ /\ call[m.from] = [to |-> t, state |-> "found"]
             /\ \/ call' = [call EXCEPT ![m.from] = [to |-> t, state |-> "full"]]
                \/ call' = [call EXCEPT ![m.from] = [to |-> t, state |-> "answered"]]
      BY EnqueueSteps DEF IInv
    <3>2. CASE call' = call
      BY <3>2
    <3>3. CASE call[m.from] = [to |-> t, state |-> "found"]
      <4>1. call[m.from].to = t /\ call[m.from] # NoCall
        BY <3>3 DEF NoCall
      <4> QED
        BY <3>1, <4>1
    <3> QED
      BY <3>1, <3>2, <3>3
  <2> QED
    BY <1>2, <2>1 DEF IInv, TypeOK
<1>4. /\ found'[t] = found[t] \ {m} /\ queue'[t] \subseteq queue[t] \cup {m}
      /\ \A k \in Nodes : k # t => found'[k] = found[k] /\ queue'[k] = queue[k]
  BY <1>2 DEF IInv, TypeOK
<1>5. \A k \in Nodes : At(k)' \subseteq At(k) /\ found'[k] \subseteq found[k]
  BY <1>2, <1>4 DEF At
<1>6. \A p \in Nodes :
         Last(p)' = Last(p) /\ \A k \in Nodes, q \in 1..Rounds : Unsent(p, k, q)' => Unsent(p, k, q)
  BY <1>2, <1>3, SameWhenHandled
<1>7. SentOnce'
  <2>1. ASSUME NEW k \in Nodes
        PROVE  /\ found'[k] \cap queue'[k] = {} /\ found'[k] \cap stored'[k] = {}
               /\ queue'[k] \cap stored'[k] = {}
    BY <1>2, <1>4 DEF IInv, SentOnce
  <2> QED
    BY <1>2, <1>5, <1>6, <2>1, SentOnceKept DEF IInv, SentOnce
<1>8. CleanBefore'
  <2> SUFFICES ASSUME NEW k \in Nodes, run[k] \in {"none", "starting", "registered"}
               PROVE  k # t /\ call'[k] = NoCall
    BY <1>2, <1>4 DEF IInv, CleanBefore, NoCall, Idle
  <2> QED
    BY <1>3 DEF IInv, CleanBefore
<1>9. SilentBefore' /\ OneAhead'
  BY <1>2, <1>5 DEF IInv, SilentBefore, OneAhead
<1>10. OutInOrder'
  BY <1>2, <1>6 DEF IInv, OutInOrder
<1>11. RoutedFirst'
  <2>1. ASSUME NEW p \in Nodes PROVE call'[p] # NoCall => call'[p].to \in item[p].to
    BY <1>3 DEF IInv, RoutedFirst
  <2> QED
    BY <1>2, <1>6, <2>1 DEF IInv, RoutedFirst, Idle, NoCall
<1>12. HeardAll' /\ HandlersHaveQueue' /\ NoSendOnClosed'
  BY <1>2, <1>5 DEF IInv, HeardAll, Msg, HandlersHaveQueue, NoSendOnClosed
<1> QED
  BY <1>1, <1>7, <1>8, <1>9, <1>10, <1>11, <1>12 DEF IInv

\* A process that stops takes all of its state with it, and StartSign does not reach
\* it again.
LEMMA StopKeeps ==
    ASSUME IInv, NEW n \in Nodes, Stop(n), UNCHANGED session, restarts' \in Nat
    PROVE  IInv'
<1>1. TypeOK'
  BY StopTypes DEF IInv
<1>2. /\ run'[n] = "none" /\ open' = open \ {n} /\ UNCHANGED <<svc, start>>
      /\ found'[n] = {} /\ queue'[n] = {} /\ stored'[n] = {}
      /\ round'[n] = 0 /\ out'[n] = << >> /\ item'[n] = Idle /\ call'[n] = NoCall
  <2>1. open' = open \ {n} /\ UNCHANGED <<svc, start>> /\ call'[n] = NoCall
    BY DEF Stop, session
  <2>2. run'[n] = "none" /\ round'[n] = 0 /\ out'[n] = << >> /\ item'[n] = Idle
    BY DEF Stop, Goto, IInv, TypeOK
  <2>3. found'[n] = {} /\ queue'[n] = {} /\ stored'[n] = {}
    BY DEF Stop, IInv, TypeOK
  <2> QED
    BY <2>1, <2>2, <2>3
<1>3. ASSUME NEW m \in Nodes, m # n
      PROVE  /\ run'[m] = run[m] /\ found'[m] = found[m] /\ queue'[m] = queue[m]
             /\ stored'[m] = stored[m] /\ round'[m] = round[m] /\ out'[m] = out[m]
             /\ item'[m] = item[m]
  BY <1>3 DEF Stop, Goto, IInv, TypeOK
<1>4. ASSUME NEW m \in Nodes, m # n
      PROVE  \/ call'[m] = call[m]
             \/ /\ call'[m].to = call[m].to /\ call'[m].state \notin {"none", "sent"}
                /\ call[m] # NoCall
  <2>1. \/ call'[m] = call[m]
        \/ /\ call[m] = [to |-> n, state |-> "found"]
           /\ call'[m] = [to |-> n, state |-> "broken"]
    BY <1>4 DEF Stop
  <2> QED
    BY <2>1 DEF NoCall
<1>5. At(n)' = {} /\ \A m \in Nodes : m # n => At(m)' = At(m) /\ Last(m)' = Last(m)
  BY <1>2, <1>3 DEF At, Last
<1>6. SentOnce'
  <2>1. ASSUME NEW m \in Nodes, run'[m] # "none"
        PROVE  /\ run[m] # "none"
               /\ \A k \in Nodes, q \in 1..Rounds : Unsent(m, k, q)' => Unsent(m, k, q)
    <3>1. m # n
      BY <1>2, <2>1
    <3> QED
      BY <1>3, <1>4, <2>1, <3>1, SameWhenHandled
  <2>2. ASSUME NEW k \in Nodes
        PROVE  /\ found'[k] \cap queue'[k] = {} /\ found'[k] \cap stored'[k] = {}
               /\ queue'[k] \cap stored'[k] = {}
    BY <1>2, <1>3 DEF IInv, SentOnce
  <2>3. \A k \in Nodes : At(k)' \subseteq At(k)
    BY <1>5
  <2> QED
    BY <2>1, <2>2, <2>3, SentOnceKept DEF IInv, SentOnce
<1>7. CleanBefore'
  <2>1. ASSUME NEW m \in Nodes, m # n, run[m] \in {"none", "starting", "registered"}
        PROVE  call'[m] = NoCall
    BY <1>4, <2>1 DEF IInv, CleanBefore
  <2> QED
    BY <1>2, <1>3, <2>1 DEF IInv, CleanBefore, Idle, NoCall
<1>8. SilentBefore'
  BY <1>2, <1>3, <1>5 DEF IInv, SilentBefore
<1>9. OutInOrder'
  BY <1>2, <1>3, <1>5 DEF IInv, OutInOrder
<1>10. RoutedFirst'
  <2>1. ASSUME NEW m \in Nodes PROVE call'[m] # NoCall => call'[m].to \in item'[m].to
    BY <1>2, <1>3, <1>4 DEF IInv, RoutedFirst
  <2>2. n \notin Idle.to
    BY DEF Idle
  <2>3. ASSUME NEW m \in Nodes
        PROVE  /\ item'[m] # Idle => run'[m] = "running" /\ item'[m].round <= Last(m)'
               /\ m \notin item'[m].to
               /\ \A i \in DOMAIN out'[m] :
                     \/ item'[m].round < out'[m][i].round
                     \/ /\ item'[m].round = out'[m][i].round
                        /\ item'[m].round \notin BroadcastRounds
                        /\ item'[m].to \cap out'[m][i].to = {}
    <3>1. CASE m = n
      BY <1>2, <2>2, <3>1
    <3>2. CASE m # n
      BY <1>3, <1>5, <3>2 DEF IInv, RoutedFirst
    <3> QED
      BY <3>1, <3>2
  <2> QED
    BY <2>1, <2>3 DEF RoutedFirst, Idle, NoCall
<1>11. HeardAll'
  <2> SUFFICES ASSUME NEW k \in Nodes, NEW m \in Signers, NEW r \in 1..Rounds,
                      m # k, First < round'[k], r < round'[k]
               PROVE  Msg(m, r)' \in stored'[k]
    BY DEF HeardAll
  <2>1. k # n
    BY <1>2, Constants
  <2> QED
    BY <1>3, <2>1 DEF IInv, HeardAll, Msg
<1>12. OneAhead'
  BY <1>3, <1>5 DEF IInv, OneAhead
<1>13. HandlersHaveQueue' /\ NoSendOnClosed'
  BY <1>2, <1>3 DEF IInv, HandlersHaveQueue, NoSendOnClosed
<1> QED
  BY <1>1, <1>6, <1>7, <1>8, <1>9, <1>10, <1>11, <1>12, <1>13 DEF IInv

LEMMA NextKeeps ==
    ASSUME IInv, [Next]_vars
    PROVE  IInv'
<1>1. CASE UNCHANGED vars
  <2>1. /\ UNCHANGED <<svc, start, run, open, queue, found, stored, round, out, item, call>>
        /\ TypeOK'
    BY <1>1 DEF vars, session, proc, party, IInv, TypeOK
  <2> QED
    BY <2>1, SessionKeeps
<1>2. CASE ThresholdSign \/ ServiceStep \/ PollFails \/ PollDeadline
  BY <1>2, ServiceKeeps DEF ServiceStep
<1>3. ASSUME NEW n \in Nodes, NodeStep(n)
      PROVE  IInv'
  <2>1. CASE \/ StartSign(n) \/ RegisterParty(n) \/ NoKeyData(n) \/ CreateQueue(n)
             \/ CompleteSession(n) \/ FailSession(n)
    BY <2>1, GoroutineKeeps
  <2>2. CASE PartyStart(n) \/ PartyAdvance(n)
    BY <2>2, PartyKeeps
  <2>3. CASE \E m \in Messages : ProcessMessage(n, m)
    BY <2>3, ProcessMessageKeeps
  <2>4. CASE ReceiveOut(n)
    BY <2>4, ReceiveOutKeeps
  <2>5. CASE \E t \in Nodes : SendSigningMessage(n, t)
    BY <2>5, SendKeeps
  <2>6. CASE SendReturns(n)
    BY <2>6, SendReturnsKeeps
  <2>7. CASE ReceiveEnd(n)
    BY <2>7, EndKeeps
  <2>8. CASE FindQueue(n)
    BY <2>8, FindQueueKeeps
  <2>9. ASSUME NEW m \in Messages, Enqueue(n, m)
        PROVE  IInv'
    <3>1. CASE n \in open
      BY <2>9, <3>1, EnqueueKeeps
    <3>2. CASE n \notin open
      <4>1. Stop(n) /\ UNCHANGED session /\ restarts' \in Nat
        BY <2>9, <3>2 DEF Enqueue, IInv, TypeOK
      <4> QED
        BY <4>1, StopKeeps
    <3> QED
      BY <3>1, <3>2
  <2> QED
    BY <1>3, <2>1, <2>2, <2>3, <2>4, <2>5, <2>6, <2>7, <2>8, <2>9 DEF NodeStep
<1>4. ASSUME NEW n \in Nodes, SigningTimeout(n)
      PROVE  IInv'
  BY <1>4, GoroutineKeeps
<1>5. ASSUME NEW n \in Nodes, QueueWaitTimesOut(n) \/ CallFails(n)
      PROVE  IInv'
  BY <1>5, CallEndsKeeps
<1>6. ASSUME NEW n \in Nodes, ReceiveErr(n)
      PROVE  IInv'
  BY <1>6, EndKeeps
<1>7. ASSUME NEW n \in Nodes, Restart(n)
      PROVE  IInv'
  <2>1. Stop(n) /\ UNCHANGED session /\ restarts' \in Nat
    BY <1>7 DEF Restart, IInv, TypeOK
  <2> QED
    BY <2>1, StopKeeps
<1> QED
  BY <1>1, <1>2, <1>3, <1>4, <1>5, <1>6, <1>7 DEF Next

LEMMA Invariant == Spec => []IInv
<1> QED
  BY InitHolds, NextKeeps, PTL DEF Spec

-----------------------------------------------------------------------------
(* Room in the queues                                                      *)

\* The messages with numbers in R of a set of senders.
MsgsOf(S, R) == {Msg(p, q) : p \in S, q \in R}

LEMMA MsgsSize ==
    ASSUME NEW S, IsFiniteSet(S), NEW R, IsFiniteSet(R)
    PROVE  /\ IsFiniteSet(MsgsOf(S, R))
           /\ Cardinality(MsgsOf(S, R)) <= Cardinality(S) * Cardinality(R)
<1> DEFINE f == [x \in S \X R |-> Msg(x[1], x[2])]
<1>1. f \in Surjection(S \X R, MsgsOf(S, R))
  <2>1. f \in [S \X R -> MsgsOf(S, R)]
    <3>1. ASSUME NEW x \in S \X R PROVE Msg(x[1], x[2]) \in MsgsOf(S, R)
      <4>1. x[1] \in S /\ x[2] \in R
        OBVIOUS
      <4> QED
        BY <4>1 DEF MsgsOf
    <3> QED
      BY <3>1
  <2>2. ASSUME NEW y \in MsgsOf(S, R) PROVE \E x \in S \X R : f[x] = y
    <3>1. PICK p \in S, q \in R : y = Msg(p, q)
      BY DEF MsgsOf
    <3>2. <<p, q>> \in S \X R /\ f[<<p, q>>] = Msg(p, q)
      OBVIOUS
    <3> QED
      BY <3>1, <3>2
  <2> QED
    BY <2>1, <2>2 DEF Surjection
<1>2. IsFiniteSet(S \X R) /\ Cardinality(S \X R) = Cardinality(S) * Cardinality(R)
  BY FS_Product
<1> HIDE DEF f
<1> QED
  BY <1>1, <1>2, FS_Surjection

\* What can wait for a party that has made its a-th message: all of the first round and
\* one more, then the messages up to its own last one and one more.
Ahead(a) == IF a <= First THEN 1..(First + 1) ELSE a..(a + 1)

LEMMA AheadSize ==
    ASSUME NEW a \in Nat
    PROVE  IsFiniteSet(Ahead(a)) /\ Cardinality(Ahead(a)) <= First + 1
<1>1. First \in Nat /\ First >= 1
  BY Constants
<1>2. CASE a <= First
  <2>1. IsFiniteSet(1..(First + 1)) /\ Cardinality(1..(First + 1)) = First + 1
    BY <1>1, FS_Interval
  <2> QED
    BY <1>1, <1>2, <2>1 DEF Ahead
<1>3. CASE ~ (a <= First)
  <2>1. IsFiniteSet(a..(a + 1)) /\ Cardinality(a..(a + 1)) = 2
    BY FS_Interval
  <2> QED
    BY <1>1, <1>3, <2>1 DEF Ahead
<1> QED
  BY <1>2, <1>3

LEMMA TimesLess ==
    ASSUME NEW a \in Nat, NEW b \in Nat, NEW c \in Nat, b <= c
    PROVE  a * b <= c * a
  BY SMT

\* A handler that holds a message finds room for it: the queue and the handlers hold at
\* most the first round's messages and one more of every other signer.
LEMMA RoomLeft ==
    ASSUME IInv, NEW t \in Nodes, NEW m \in found[t],
           QueueSize >= (First + 1) * (Cardinality(Signers) - 1)
    PROVE  ~ QueueFull(t)
<1> DEFINE S == Signers \ {t}
           R == Ahead(round[t])
           W == MsgsOf(S, R)
           c == Cardinality(Signers)
<1>1. t \in Signers
  BY DEF IInv, CleanBefore, SilentBefore
<1>2. c \in Nat /\ IsFiniteSet(S) /\ Cardinality(S) = c - 1 /\ Cardinality(S) \in Nat
  <2>1. IsFiniteSet(Signers)
    BY ConstantsAssumption, FS_Subset
  <2> QED
    BY <1>1, <2>1, FS_RemoveElement, FS_CardinalityType
<1>3. ASSUME NEW x \in found[t] \cup queue[t]
      PROVE  x \in W
  <2>1. x \in Messages /\ x \in At(t) /\ x \notin stored[t]
    BY DEF IInv, TypeOK, SentOnce, At
  <2>2. x = Msg(x.from, x.round) /\ x.round \in 1..Rounds
    BY <2>1, MessageIsMsg
  <2>3. x.from \in S /\ (x.round <= First \/ x.round <= round[t] + 1)
    BY <2>1 DEF IInv, OneAhead
  <2>4. First < round[t] => ~ (x.round < round[t])
    BY <2>1, <2>2, <2>3 DEF IInv, HeardAll
  <2>5. round[t] \in Nat /\ Rounds \in Nat /\ First \in Nat
    BY Constants DEF IInv, TypeOK
  <2>6. x.round \in R
    BY <2>2, <2>3, <2>4, <2>5 DEF Ahead
  <2> QED
    BY <2>2, <2>3, <2>6 DEF MsgsOf
<1> HIDE DEF c, S, R
<1>4. /\ IsFiniteSet(R) /\ Cardinality(R) <= First + 1 /\ Cardinality(R) \in Nat
      /\ First \in Nat
  <2>1. round[t] \in Nat /\ First \in Nat
    BY Constants DEF IInv, TypeOK
  <2> QED
    BY <2>1, AheadSize, FS_CardinalityType DEF R
<1>5. IsFiniteSet(W) /\ Cardinality(W) <= (First + 1) * (c - 1) /\ Cardinality(W) \in Nat
  <2>1. IsFiniteSet(W) /\ Cardinality(W) <= Cardinality(S) * Cardinality(R)
    BY <1>2, <1>4, MsgsSize
  <2>2. Cardinality(S) * Cardinality(R) <= (First + 1) * Cardinality(S)
    BY <1>2, <1>4, TimesLess
  <2>3. /\ Cardinality(W) \in Nat /\ Cardinality(S) * Cardinality(R) \in Nat
        /\ (First + 1) * Cardinality(S) \in Nat
    BY <1>2, <1>4, <2>1, FS_CardinalityType
  <2>4. (First + 1) * Cardinality(S) = (First + 1) * (c - 1)
    BY <1>2
  <2> HIDE DEF W
  <2> QED
    BY <2>1, <2>2, <2>3, <2>4
<1>6. queue[t] \cup {m} \in SUBSET W /\ m \notin queue[t]
  BY <1>3 DEF IInv, SentOnce
<1> HIDE DEF W
<1>7. IsFiniteSet(queue[t]) /\ Cardinality(queue[t]) + 1 <= Cardinality(W)
  <2>1. IsFiniteSet(queue[t])
    BY <1>5, <1>6, FS_Subset
  <2>2. Cardinality(queue[t] \cup {m}) = Cardinality(queue[t]) + 1
    BY <1>6, <2>1, FS_AddElement
  <2> QED
    BY <1>5, <1>6, <2>1, <2>2, FS_Subset
<1>8. Cardinality(queue[t]) \in Nat
  BY <1>7, FS_CardinalityType
<1> DEFINE room == (First + 1) * (c - 1)
<1>9. QueueSize \in Nat /\ QueueSize >= room /\ room \in Int
  BY <1>2, <1>4, ConstantsAssumption DEF c
<1>10. Cardinality(queue[t]) < QueueSize
  <2>1. Cardinality(W) <= room /\ Cardinality(W) \in Nat
    BY <1>5
  <2> HIDE DEF room
  <2> QED
    BY <1>7, <1>8, <1>9, <2>1
<1> QED
  BY <1>8, <1>9, <1>10 DEF QueueFull

\* Only a handler that finds no room tells the sender so.
LEMMA NobodyTurnedAway ==
    ASSUME IInv, NeverFull, [Next]_vars, QueueSize >= (First + 1) * (Cardinality(Signers) - 1)
    PROVE  NeverFull'
<1>0. call \in [Nodes -> Calls \cup {NoCall}] /\ TypeOK
  BY DEF IInv, TypeOK
<1>1. CASE call' = call
  BY <1>1 DEF NeverFull
<1>2. ASSUME NEW n \in Nodes, NEW to,
             NEW state \in {"none", "sent", "found", "answered", "broken"},
             call' = [call EXCEPT ![n] = [to |-> to, state |-> state]]
      PROVE  NeverFull'
  <2> DEFINE c == [to |-> to, state |-> state]
  <2>1. c.state # "full"
    OBVIOUS
  <2>2. call' = [call EXCEPT ![n] = c]
    BY <1>2
  <2> HIDE DEF c
  <2> QED
    BY <1>0, <2>1, <2>2 DEF NeverFull
<1>3. ASSUME NEW n \in Nodes, NEW t \in Nodes, SendSigningMessage(n, t)
      PROVE  NeverFull'
  BY <1>2, <1>3 DEF SendSigningMessage
<1>4. ASSUME NEW n \in Nodes, SendReturns(n)
      PROVE  NeverFull'
  BY <1>0, <1>2, <1>4, SendReturnsSteps DEF NoCall
<1>5. ASSUME NEW n \in Nodes, FindQueue(n) \/ QueueWaitTimesOut(n) \/ CallFails(n)
      PROVE  NeverFull'
  <2>1. call[n] # NoCall
    BY <1>5 DEF FindQueue, QueueWaitTimesOut, CallFails, NoCall
  <2>2. PICK state \in {"found", "answered", "broken"} : call' = [call EXCEPT ![n].state = state]
    BY <1>5 DEF FindQueue, QueueWaitTimesOut, CallFails
  <2>3. call' = [call EXCEPT ![n] = [to |-> call[n].to, state |-> state]]
    BY <1>0, <2>1, <2>2, CallTypes
  <2> QED
    BY <1>2, <2>3
<1>6. ASSUME NEW n \in Nodes, Stop(n)
      PROVE  NeverFull'
  <2> SUFFICES ASSUME NEW m \in Nodes PROVE call'[m].state # "full"
    BY DEF NeverFull
  <2>1. \/ call'[m] = NoCall \/ call'[m] = call[m]
        \/ call'[m] = [to |-> n, state |-> "broken"]
    BY <1>6 DEF Stop
  <2> QED
    BY <2>1 DEF NoCall, NeverFull
<1>7. ASSUME NEW t \in Nodes, NEW m \in Messages, Enqueue(t, m)
      PROVE  NeverFull'
  <2>1. CASE t \notin open
    BY <1>6, <1>7, <2>1 DEF Enqueue
  <2>2. CASE t \in open
    <3>1. m \in found[t] /\ m.from \in Nodes
      BY <1>0, <1>7, <2>2, EnqueueSteps
    <3>2. ~ QueueFull(t)
      BY <3>1, RoomLeft
    <3>3. call' = call \/ call' = [call EXCEPT ![m.from] = [to |-> t, state |-> "answered"]]
      BY <1>0, <1>7, <2>2, <3>2, EnqueueSteps
    <3> QED
      BY <1>1, <1>2, <3>1, <3>3
  <2> QED
    BY <2>1, <2>2
<1>8. CASE UNCHANGED vars
  BY <1>1, <1>8 DEF vars
<1>9. CASE ThresholdSign \/ ServiceStep \/ PollFails \/ PollDeadline
  BY <1>1, <1>9 DEF ThresholdSign, ServiceStep, StartSignReturns, StartSignFails, Poll, PollFails,
     PollDeadline
<1>10. ASSUME NEW n \in Nodes,
              \/ StartSign(n) \/ RegisterParty(n) \/ NoKeyData(n) \/ CreateQueue(n)
              \/ PartyStart(n) \/ PartyAdvance(n) \/ (\E m \in Messages : ProcessMessage(n, m))
              \/ ReceiveOut(n) \/ ReceiveEnd(n) \/ ReceiveErr(n) \/ SigningTimeout(n)
              \/ CompleteSession(n) \/ FailSession(n)
       PROVE  NeverFull'
  BY <1>1, <1>10 DEF StartSign, RegisterParty, NoKeyData, CreateQueue, PartyStart, PartyAdvance,
     ProcessMessage, ReceiveOut, ReceiveEnd, ReceiveErr, SigningTimeout, CompleteSession, FailSession
<1>11. ASSUME NEW n \in Nodes, NodeStep(n)
       PROVE  NeverFull'
  BY <1>3, <1>4, <1>5, <1>7, <1>10, <1>11 DEF NodeStep
<1>12. ASSUME NEW n \in Nodes, Restart(n)
       PROVE  NeverFull'
  BY <1>6, <1>12 DEF Restart
<1> QED
  BY <1>5, <1>8, <1>9, <1>10, <1>11, <1>12 DEF Next

-----------------------------------------------------------------------------
(* Theorems                                                                *)

\* executeSigning, its select loop, the handlers of ProcessIncomingSigningMessage and the
\* services around them stay within the types of the model: in particular what is routed
\* to a target is a message of a round of the protocol, and a call has a target.
THEOREM TypeCorrect == Spec => []TypeOK
<1>1. IInv => TypeOK
  BY DEF IInv
<1> QED
  BY <1>1, Invariant, PTL

\* close(incoming messages) in executeSigning never meets a handler that got the channel
\* before and is yet to send on it (tss_adapter.go:1164-1264), but for a party that could
\* not start: a party that signed has used the messages of all signers.
THEOREM ClosesUnused == Spec => []NoSendOnClosed
<1>1. IInv => NoSendOnClosed
  BY DEF IInv
<1> QED
  BY <1>1, Invariant, PTL

\* The default branch in ProcessIncomingSigningMessage, "message queue full", is never
\* taken with room for the first round's messages of every other signer and one more of
\* each.  That is three in ECDSA signing, so that the 100 slots of the code are enough
\* for 34 signers.
THEOREM RoomForAll ==
    ASSUME QueueSize >= (First + 1) * (Cardinality(Signers) - 1)
    PROVE  Spec => []NeverFull
<1>1. Init => NeverFull
  BY DEF Init, NeverFull, NoCall
<1>2. IInv /\ NeverFull /\ [Next]_vars => NeverFull'
  BY NobodyTurnedAway
<1> QED
  BY <1>1, <1>2, Invariant, PTL DEF Spec

=============================================================================
