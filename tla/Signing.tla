------------------------------- MODULE Signing -------------------------------
(***************************************************************************)
(* One threshold signature: ThresholdSign of the signing service, the      *)
(* StartSign handler of the participants, executeSigning of the party      *)
(* manager with its queue and select loop, and the delivery of its         *)
(* messages through SendSigningMessage and ProcessIncomingSigningMessage.  *)
(*                                                                         *)
(* The tss-lib party is external.  Its protocol is a sequence of messages  *)
(* to every other signer, and the model numbers these, not the library's   *)
(* rounds: the first round of ECDSA signing sends two, one to each peer    *)
(* and a broadcast, the later ones one each.  The party sends the messages *)
(* of its first round, then waits before each further one for what every   *)
(* other signer sent up to there, and has the signature after the last. It *)
(* accepts a broadcast whether or not it is marked as one, which allows    *)
(* more than the library does.                                             *)
(*                                                                         *)
(* Each update of the session is one step here; SessionManager has the     *)
(* steps inside it.                                                        *)
(***************************************************************************)
EXTENDS Naturals, Sequences, FiniteSets

CONSTANTS
    Nodes,           \* the nodes that hold shares of the key
    Signers,         \* the ones ThresholdSign selected
    Leader,          \* the first of them
    Notified,        \* signers StartSign is called on; the service calls {Leader}
    Degree,          \* threshold the DKG gave to tss-lib: more shares than that are needed
    Engine,          \* the participants' protocol engine
    Kept,            \* nodes whose process still is the one that ran the DKG
    Down,            \* nodes that do not answer
    Rounds,          \* messages of the library's protocol, in the order they are sent
    First,           \* how many of them are sent before the party waits for any
    BroadcastRounds, \* the ones that have no target
    QueueSize,       \* capacity of a message queue
    Faults,          \* which faults may happen
    MaxRestarts      \* how often nodes may stop and come back, all nodes together

ASSUME ConstantsAssumption ==
    /\ IsFiniteSet(Nodes)
    /\ Signers \subseteq Nodes
    /\ Leader \in Signers /\ Signers # {Leader}
    /\ Notified \subseteq Signers
    /\ Leader \in Notified
    /\ Degree \in Nat
    /\ Engine \in {"gg18", "gg20", "frost"}
    /\ Kept \subseteq Nodes
    /\ Down \subseteq Nodes
    /\ Rounds \in Nat \ {0}
    /\ First \in 1..Rounds
    /\ BroadcastRounds \subseteq 1..Rounds
    /\ QueueSize \in Nat
    /\ Faults \subseteq {"rpc", "timeout", "store", "party"}
    /\ MaxRestarts \in Nat

Messages == [from : Nodes, round : 1..Rounds]

\* An item of outCh, or what is left of it while it is routed.
Items == [round : 1..Rounds, to : SUBSET Nodes]
Idle  == [round |-> 0, to |-> {}]

\* A SubmitSignatureShare call, from the view of its sender: the handler holds
\* the queue ("found"), has answered, found no room, or the call broke.
Calls  == [to : Nodes, state : {"sent", "found", "answered", "full", "broken"}]
NoCall == [to |-> Leader, state |-> "none"]

Run == {"none", "starting", "registered", "running", "signed", "failing", "ended"}

VARIABLES
    svc,       \* the ThresholdSign call of the signing service
    status,    \* status of the signing session
    signature, \* is there a signature in it?
    start,     \* nodes a StartSign call is on its way to
    once,      \* nodes whose signStartOnce for this session has been used
    record,    \* nodes with the key's data in memory (keyRecords)
    peers,     \* nodes in the party manager's partyIDToNodeID
    run,       \* where each node's StartSign goroutine is
    active,    \* nodes with an activeSigning entry
    open,      \* nodes with an incomingSigningMessages entry
    queue,     \* messages in that channel; senders' order is not kept
    found,     \* messages whose handler holds a reference to the channel
    stored,    \* messages the party stored
    round,     \* the last message the party produced; Rounds + 1 when endCh is ready
    out,       \* outCh
    item,      \* the outCh item being routed
    call,      \* the RPC the select loop waits for
    restarts   \* number of restarts so far

session == <<svc, status, signature, start>>
party   == <<stored, round, out>>
proc    == <<once, record, peers, run, active, open>>
vars    == <<session, proc, queue, found, party, item, call, restarts>>

Init ==
    /\ svc = "idle" /\ status = "none" /\ signature = FALSE /\ start = {}
    /\ once = {} /\ active = {} /\ open = {}
    /\ record = Kept
    /\ peers = [n \in Nodes |-> IF n \in Kept THEN Nodes ELSE {}]
    /\ run = [n \in Nodes |-> "none"]
    /\ queue = [n \in Nodes |-> {}]
    /\ found = [n \in Nodes |-> {}]
    /\ stored = [n \in Nodes |-> {}]
    /\ round = [n \in Nodes |-> 0]
    /\ out = [n \in Nodes |-> << >>]
    /\ item = [n \in Nodes |-> Idle]
    /\ call = [n \in Nodes |-> NoCall]
    /\ restarts = 0

Goto(n, step) == run' = [run EXCEPT ![n] = step]

-----------------------------------------------------------------------------
(* The signing service                                                     *)

\* CreateSession, the participants chosen, and the StartSign call on its way.
ThresholdSign ==
    /\ svc = "idle"
    /\ svc' = "calling" /\ status' = "pending"
    /\ start' = Notified
    /\ UNCHANGED <<signature, proc, queue, found, party, item, call, restarts>>

\* StartSign answered within its thirty seconds.
StartSignReturns ==
    /\ svc = "calling"
    /\ Leader \notin start
    /\ svc' = "polling"
    /\ UNCHANGED <<status, signature, start, proc, queue, found, party, item, call, restarts>>

\* The service writes its own object back as failed, an error in which it
\* ignores, and returns an error.
GiveUp ==
    /\ svc' = "failed"
    /\ \/ status' = "failed" /\ signature' = FALSE
       \/ "store" \in Faults /\ UNCHANGED <<status, signature>>

\* It did not: request or answer is lost or late.
StartSignFails ==
    /\ "rpc" \in Faults
    /\ svc = "calling"
    /\ GiveUp
    /\ start' \in {start, start \ {Leader}}
    /\ UNCHANGED <<proc, queue, found, party, item, call, restarts>>

\* Polling sees the end.  The signature still has to verify.
Poll ==
    /\ svc = "polling"
    /\ \/ /\ status = "completed" /\ signature
          /\ svc' \in {"signed", "unverified"}
       \/ /\ status = "failed"
          /\ svc' = "failed"
    /\ UNCHANGED <<status, signature, start, proc, queue, found, party, item, call, restarts>>

\* The session cannot be read.
PollFails ==
    /\ "store" \in Faults
    /\ svc = "polling"
    /\ svc' = "failed"
    /\ UNCHANGED <<status, signature, start, proc, queue, found, party, item, call, restarts>>

\* Fault: the service polls for as long as it takes.
PollDeadlineMissing == FALSE /\ UNCHANGED vars

\* Five minutes passed since StartSign; what others wrote after the last poll is
\* overwritten by the service's own object.
PollDeadline ==
    /\ "timeout" \in Faults
    /\ svc = "polling"
    /\ GiveUp
    /\ UNCHANGED <<start, proc, queue, found, party, item, call, restarts>>

-----------------------------------------------------------------------------
(* StartSign and the beginning of executeSigning on a participant          *)

StartSign(n) ==
    /\ n \in start
    /\ start' = start \ {n}
    /\ IF n \in once THEN UNCHANGED <<once, run>>
                     ELSE once' = once \cup {n} /\ Goto(n, "starting")
    /\ UNCHANGED <<svc, status, signature, record, peers, active, open, queue, found, party, item,
                   call, restarts>>

\* GG18 and FROST load the key's data from disk when it is not in memory, GG20
\* only looks in memory.
KeyAtHand(n) == n \in record \/ Engine # "gg20"

\* engine.ThresholdSign gets the key's data, knows the signers as peers from then
\* on, and executeSigning registers the party under the lock.
RegisterParty(n) ==
    /\ run[n] = "starting"
    /\ KeyAtHand(n)
    /\ Goto(n, "registered")
    /\ record' = record \cup {n}
    /\ peers' = [peers EXCEPT ![n] = @ \cup Signers]
    /\ active' = active \cup {n}
    /\ UNCHANGED <<session, once, open, queue, found, party, item, call, restarts>>

\* The key's data is not there or cannot be read.
NoKeyData(n) ==
    /\ run[n] = "starting"
    /\ ~ KeyAtHand(n) \/ (n \notin record /\ "store" \in Faults)
    /\ Goto(n, "failing")
    /\ UNCHANGED <<session, once, record, peers, active, open, queue, found, party, item, call,
                   restarts>>

\* The queue is created under the lock taken again; executeEdDSASigning has none.
CreateQueue(n) ==
    /\ run[n] = "registered"
    /\ Goto(n, "running")
    /\ open' = IF Engine = "frost" THEN open ELSE open \cup {n}
    /\ UNCHANGED <<session, once, record, peers, active, queue, found, party, item, call, restarts>>

-----------------------------------------------------------------------------
(* The tss-lib party                                                       *)

\* The r-th message, for each of the other signers.
Message(n, r) == [round |-> r, to |-> Signers \ {n}]

\* outCh has room for one item per signer, what the library's first round sends.
FirstRound(n) ==
    /\ round' = [round EXCEPT ![n] = First]
    /\ out' = [out EXCEPT ![n] = [r \in 1..First |-> Message(n, r)]]

EnterRound(n, r) ==
    /\ round' = [round EXCEPT ![n] = r]
    /\ out' = [out EXCEPT ![n] = Append(@, Message(n, r))]

PartyStart(n) ==
    /\ run[n] = "running"
    /\ round[n] = 0
    /\ FirstRound(n)
    /\ UNCHANGED <<session, proc, queue, found, stored, item, call, restarts>>

\* The signature only verifies when there are more signers than the degree of the
\* polynomial that the DKG shared the key with.
CanProceed(n) ==
    /\ round[n] \in 1..Rounds
    /\ \A m \in Signers \ {n}, r \in 1..round[n] : [from |-> m, round |-> r] \in stored[n]
    /\ round[n] = Rounds => Cardinality(Signers) > Degree

PartyAdvance(n) ==
    /\ run[n] = "running"
    /\ CanProceed(n)
    /\ IF round[n] < Rounds
       THEN EnterRound(n, round[n] + 1)
       ELSE round' = [round EXCEPT ![n] = Rounds + 1] /\ UNCHANGED out
    /\ UNCHANGED <<session, proc, queue, found, stored, item, call, restarts>>

\* The message loop hands a message of the queue to the party.  It may go on
\* after the select loop gave up, until it sees the queue closed or the context
\* cancelled.
ProcessMessage(n, m) ==
    /\ n \in open
    /\ m \in queue[n]
    /\ queue' = [queue EXCEPT ![n] = @ \ {m}]
    /\ stored' = IF n \in active THEN [stored EXCEPT ![n] = @ \cup {m}] ELSE stored
    /\ UNCHANGED <<session, proc, found, round, out, item, call, restarts>>

-----------------------------------------------------------------------------
(* The select loop of executeSigning                                       *)

AtSelect(n) == run[n] = "running" /\ item[n] = Idle

\* A broadcast goes to every node the party manager has ever heard of, whether
\* it signs or not; in executeEdDSASigning to nobody.
BroadcastTargets(n) == IF Engine = "frost" THEN {} ELSE peers[n] \ {n}

\* case msg := <-outCh.  A broadcast is routed to all its targets before the loop
\* selects again, a message with a target by itself.
ReceiveOut(n) ==
    /\ AtSelect(n)
    /\ out[n] # << >>
    /\ LET h == Head(out[n]) IN
       \/ /\ h.round \in BroadcastRounds
          /\ item' = [item EXCEPT ![n] = IF BroadcastTargets(n) = {} THEN Idle
                                         ELSE [round |-> h.round, to |-> BroadcastTargets(n)]]
          /\ out' = [out EXCEPT ![n] = Tail(@)]
       \/ /\ h.round \notin BroadcastRounds
          /\ \E t \in h.to :
                /\ item' = [item EXCEPT ![n] = [round |-> h.round, to |-> {t}]]
                /\ out' = [out EXCEPT ![n] = IF h.to = {t} THEN Tail(@)
                              ELSE [@ EXCEPT ![1] = [round |-> h.round, to |-> h.to \ {t}]]]
    /\ UNCHANGED <<session, proc, queue, found, stored, round, call, restarts>>

SendSigningMessage(n, t) ==
    /\ call[n] = NoCall
    /\ t \in item[n].to
    /\ call' = [call EXCEPT ![n] = [to |-> t, state |-> "sent"]]
    /\ UNCHANGED <<session, proc, queue, found, party, item, restarts>>

\* An answer is an answer, whether it says Accepted or not.  A broken call ends
\* the run; the party and its queue stay registered.
SendReturns(n) ==
    /\ call[n].state \in {"answered", "full", "broken"}
    /\ call' = [call EXCEPT ![n] = NoCall]
    /\ IF call[n].state = "broken"
       THEN Goto(n, "failing") /\ item' = [item EXCEPT ![n] = Idle]
       ELSE /\ item' = [item EXCEPT ![n] = IF @.to = {call[n].to} THEN Idle
                                           ELSE [round |-> @.round, to |-> @.to \ {call[n].to}]]
            /\ UNCHANGED run
    /\ UNCHANGED <<session, once, record, peers, active, open, queue, found, party, restarts>>

\* The entry and the queue go; a queue is closed as it goes.
Cleanup(n) ==
    /\ active' = active \ {n}
    /\ open' = open \ {n}
    /\ queue' = [queue EXCEPT ![n] = {}]

\* case sigData := <-endCh
ReceiveEnd(n) ==
    /\ AtSelect(n)
    /\ round[n] = Rounds + 1
    /\ Goto(n, "signed")
    /\ Cleanup(n)
    /\ UNCHANGED <<session, once, record, peers, found, party, item, call, restarts>>

\* Fault: the entries of a run that timed out are removed.
SigningTimeoutCleansUp(n) ==
    /\ "timeout" \in Faults
    /\ AtSelect(n)
    /\ Goto(n, "failing")
    /\ Cleanup(n)
    /\ UNCHANGED <<session, once, record, peers, found, party, item, call, restarts>>

\* Fault: there is no timer.
SigningTimeoutMissing(n) == FALSE /\ UNCHANGED vars

\* case <-ctx.Done() and case <-timeout.C: nothing is cleaned up.
SigningTimeout(n) ==
    /\ "timeout" \in Faults
    /\ AtSelect(n)
    /\ Goto(n, "failing")
    /\ UNCHANGED <<session, once, record, peers, active, open, queue, found, party, item, call,
                   restarts>>

\* case err := <-errCh: the party could not start.
ReceiveErr(n) ==
    /\ "party" \in Faults
    /\ AtSelect(n)
    /\ round[n] = 0
    /\ Goto(n, "failing")
    /\ Cleanup(n)
    /\ UNCHANGED <<session, once, record, peers, found, party, item, call, restarts>>

-----------------------------------------------------------------------------
(* The receiving side: SubmitSignatureShare -> handleProtocolMessage ->    *)
(* ProcessIncomingSigningMessage                                           *)

\* Fault: the message is filed under the round number of the request.
WireRequestRound(n) == [from |-> n, round |-> 0]

\* The round is inside the wire bytes: every request says round 0, which also means
\* that none is marked as a broadcast.
Wire(n) == [from |-> n, round |-> item[n].round]

\* The handler looks the channel up under the lock, waiting until it is there.
FindQueue(n) ==
    LET t == call[n].to IN
    /\ call[n].state = "sent"
    /\ t \in open \ Down
    /\ found' = [found EXCEPT ![t] = @ \cup {Wire(n)}]
    /\ call' = [call EXCEPT ![n].state = "found"]
    /\ UNCHANGED <<session, proc, queue, party, item, restarts>>

Opening(t) == t \in start \/ run[t] \in {"starting", "registered"}

\* Ten seconds passed without a queue: the answer is Accepted = false.  They are
\* enough for a node about to create its queue unless a timer fires early.
QueueWaitTimesOut(n) ==
    /\ call[n].state = "sent"
    /\ call[n].to \notin open \cup Down
    /\ "timeout" \in Faults \/ ~ Opening(call[n].to)
    /\ call' = [call EXCEPT ![n].state = "answered"]
    /\ UNCHANGED <<session, proc, queue, found, party, item, restarts>>

\* Fault: the channel has room for one message less.
QueueFullEarly(t) == Cardinality(queue[t]) + 1 >= QueueSize

QueueFull(t) == Cardinality(queue[t]) >= QueueSize

\* What is left of a node whose process stopped; calls it was handling break off.
Stop(n) ==
    /\ once' = once \ {n} /\ active' = active \ {n} /\ open' = open \ {n}
    /\ record' = record \ {n}
    /\ peers' = [peers EXCEPT ![n] = {}]
    /\ Goto(n, "none")
    /\ queue' = [queue EXCEPT ![n] = {}]
    /\ found' = [found EXCEPT ![n] = {}]
    /\ stored' = [stored EXCEPT ![n] = {}]
    /\ round' = [round EXCEPT ![n] = 0]
    /\ out' = [out EXCEPT ![n] = << >>]
    /\ item' = [item EXCEPT ![n] = Idle]
    /\ call' = [m \in Nodes |->
                  IF m = n THEN NoCall
                  ELSE IF call[m] = [to |-> n, state |-> "found"]
                       THEN [to |-> n, state |-> "broken"] ELSE call[m]]

\* The handler uses the channel after the unlock: it sends without blocking, or
\* finds it full; were it closed by now, the send would panic and stop the process.
Enqueue(t, m) ==
    /\ m \in found[t]
    /\ IF t \notin open
       THEN Stop(t)
       ELSE /\ found' = [found EXCEPT ![t] = @ \ {m}]
            /\ queue' = IF QueueFull(t) THEN queue ELSE [queue EXCEPT ![t] = @ \cup {m}]
            /\ call' = IF call[m.from] = [to |-> t, state |-> "found"]
                       THEN [call EXCEPT ![m.from].state = IF QueueFull(t) THEN "full"
                                                                           ELSE "answered"]
                       ELSE call
            /\ UNCHANGED <<proc, party, item>>
    /\ UNCHANGED <<session, restarts>>

\* The request, or the answer to it, is lost; a handler that has begun goes on.
CallFails(n) ==
    /\ call[n].state \in {"sent", "found"}
    /\ "rpc" \in Faults \/ call[n].to \in Down
    /\ call' = [call EXCEPT ![n].state = "broken"]
    /\ UNCHANGED <<session, proc, queue, found, party, item, restarts>>

-----------------------------------------------------------------------------
(* The end of the StartSign goroutine                                      *)

\* CompleteSession does not look at the status it replaces.
CompleteSession(n) ==
    /\ run[n] = "signed"
    /\ Goto(n, "ended")
    /\ \/ status' = "completed" /\ signature' = TRUE
       \/ "store" \in Faults /\ UNCHANGED <<status, signature>>
    /\ UNCHANGED <<svc, start, once, record, peers, active, open, queue, found, party, item, call,
                   restarts>>

FailSession(n) ==
    /\ run[n] = "failing"
    /\ Goto(n, "ended")
    /\ \/ status' = "failed"
       \/ "store" \in Faults /\ UNCHANGED status
    /\ UNCHANGED <<svc, signature, start, once, record, peers, active, open, queue, found, party,
                   item, call, restarts>>

Restart(n) ==
    /\ restarts < MaxRestarts
    /\ restarts' = restarts + 1
    /\ Stop(n)
    /\ UNCHANGED session

-----------------------------------------------------------------------------
NodeStep(n) ==
    \/ StartSign(n)
    \/ RegisterParty(n)
    \/ NoKeyData(n)
    \/ CreateQueue(n)
    \/ PartyStart(n)
    \/ PartyAdvance(n)
    \/ \E m \in Messages : ProcessMessage(n, m)
    \/ ReceiveOut(n)
    \/ \E t \in Nodes : SendSigningMessage(n, t)
    \/ SendReturns(n)
    \/ ReceiveEnd(n)
    \/ FindQueue(n)
    \/ \E m \in Messages : Enqueue(n, m)
    \/ CompleteSession(n)
    \/ FailSession(n)

ServiceStep == StartSignReturns \/ StartSignFails \/ Poll

Next ==
    \/ ThresholdSign
    \/ ServiceStep
    \/ PollFails
    \/ PollDeadline
    \/ \E n \in Nodes :
          \/ NodeStep(n)
          \/ SigningTimeout(n)
          \/ QueueWaitTimesOut(n)
          \/ ReceiveErr(n)
          \/ CallFails(n)
          \/ Restart(n)

Spec == Init /\ [][Next]_vars

\* Goroutines that can go on do, timers fire, and a call to a node that is down
\* breaks (keepalive).
FairSpec ==
    /\ Spec
    /\ WF_vars(ThresholdSign)
    /\ WF_vars(ServiceStep)
    /\ WF_vars(PollDeadline)
    /\ \A n \in Nodes :
          /\ WF_vars(NodeStep(n))
          /\ WF_vars(SigningTimeout(n))
          /\ WF_vars(QueueWaitTimesOut(n))
          /\ WF_vars(CallFails(n) /\ call[n].to \in Down)

-----------------------------------------------------------------------------
(* Properties                                                              *)

TypeOK ==
    /\ svc \in {"idle", "calling", "polling", "signed", "unverified", "failed"}
    /\ status \in {"none", "pending", "completed", "failed"}
    /\ signature \in BOOLEAN
    /\ start \subseteq Nodes
    /\ once \subseteq Nodes /\ active \subseteq Nodes /\ open \subseteq Nodes
    /\ record \subseteq Nodes
    /\ peers \in [Nodes -> SUBSET Nodes]
    /\ run \in [Nodes -> Run]
    /\ queue \in [Nodes -> SUBSET Messages]
    /\ found \in [Nodes -> SUBSET Messages]
    /\ stored \in [Nodes -> SUBSET Messages]
    /\ round \in [Nodes -> 0..(Rounds + 1)]
    /\ out \in [Nodes -> Seq(Items)]
    /\ item \in [Nodes -> Items \cup {Idle}]
    /\ call \in [Nodes -> Calls \cup {NoCall}]
    /\ restarts \in Nat

\* tss_adapter.go:1164-1264 uses the channel outside the lock that guards close and
\* delete, and a send on a closed channel stops the whole process.  Only a party
\* that could not even start closes its queue under a handler: one that signed has
\* every signer's last message, and a run that times out leaves its queue open.
NoSendOnClosed ==
    \A n \in Nodes : found[n] # {} => n \in open \/ round[n] = 0

\* No message is turned away for lack of room, which its sender would not notice:
\* a signer that is past its first round is never more than one message ahead of
\* another, so that room for the first round's messages of every other signer and
\* one more of each is enough.
NeverFull ==
    \A n \in Nodes : call[n].state # "full"

\* Every StartSign goroutine ends, whatever its peers do: a run that waits for
\* messages ends by its timer, and no call it makes blocks for good.
RunsEnd ==
    \A n \in Nodes : run[n] = "starting" ~> run[n] \in {"ended", "none"}

\* The HTTP caller gets an answer.
CallerIsAnswered == svc = "calling" ~> svc \in {"signed", "unverified", "failed"}

\* docs/mpc-detailed-design.md:672-679: the signers' parties end with the signature,
\* the session becomes completed and the signature is returned.
SigningSucceeds == <>(status = "completed" /\ signature)
=============================================================================
