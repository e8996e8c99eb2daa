---------------------------- MODULE KeyGeneration ----------------------------
(***************************************************************************)
(* One distributed key generation: the coordinator's StartDKG call to the  *)
(* leader, the participants' gRPC handlers with their once-per-session     *)
(* start, executeKeygen of the party manager with its message queue and    *)
(* its select loop, the key data file and CompleteKeygenSession.           *)
(*                                                                         *)
(* The tss-lib party inside a node is external: it sends one message per   *)
(* round to every other party, goes on when it has the round's message of  *)
(* all of them, and ends after the last round.  The library checks later   *)
(* messages against the first round's commitments, so a party that mixes   *)
(* messages of two incarnations of a peer does not advance.  The public    *)
(* key a party ends with is represented by the incarnations whose          *)
(* first-round messages it is made of.                                     *)
(***************************************************************************)
EXTENDS Naturals, Sequences, FiniteSets

CONSTANTS
    Nodes,          \* the participants of the DKG session
    Leader,         \* the first of them, which gets StartDKG
    Rounds,         \* number of message rounds of the library's protocol
    UnicastRounds,  \* rounds whose messages have a target; the others broadcast
    Faults,         \* which faults may happen
    MaxRestarts     \* how often nodes may stop and come back, all nodes together

ASSUME ConstantsAssumption ==
    /\ IsFiniteSet(Nodes) /\ Leader \in Nodes
    /\ Rounds \in Nat \ {0}
    /\ UnicastRounds \subseteq 1..Rounds
    /\ Faults \subseteq {"rpc", "timeout", "store", "party"}
    /\ MaxRestarts \in Nat

Incarnations == 1..(MaxRestarts + 1)
Messages     == [from : Nodes, round : 1..Rounds, inc : Incarnations]

\* A public key, as the round-one messages it was computed from; 0 for none yet.
Transcripts  == [Nodes -> Incarnations \cup {0}]
NoKeyData    == [n \in Nodes |-> 0]

\* An item of outCh, or what is left of it while it is routed.
Items == [round : 1..Rounds, to : SUBSET Nodes]
Idle  == [to |-> {}, round |-> 0]

\* A SubmitSignatureShare call, from the view of its sender.
Calls  == [to : Nodes, state : {"sent", "waiting", "accepted", "rejected"}]
NoCall == [to |-> Leader, state |-> "none"]

Run == {"none", "starting", "registered", "running", "saving", "stored", "ended"}

VARIABLES
    start,    \* the StartDKG call: "none", "sent", "done" or "lost"
    session,  \* status of the DKG session in the shared database
    key,      \* public key in the shared database, NoKeyData while Pending
    inc,      \* incarnation of each node's process
    once,     \* nodes whose dkgStartOnce for this session has been used
    run,      \* where each node's GenerateKeyShare goroutine is
    active,   \* nodes with an activeKeygen entry
    open,     \* nodes with an incomingKeygenMessages entry
    queue,    \* messages waiting in that channel
    seen,     \* what the party stored: seen[n][from][round] is an incarnation or 0
    round,    \* round the party is in; Rounds + 1 when endCh is ready
    script,   \* transcript the party committed to after round one
    out,      \* outCh
    item,     \* the outCh item being routed
    call,     \* the RPC the select loop waits for
    disk      \* key data file of each node

party == <<seen, round, script, out>>
vars  == <<start, session, key, inc, once, run, active, open, queue, party, item, call, disk>>

Init ==
    /\ start = "none" /\ session = "none" /\ key = NoKeyData
    /\ inc = [n \in Nodes |-> 1]
    /\ once = {} /\ active = {} /\ open = {}
    /\ run = [n \in Nodes |-> "none"]
    /\ queue = [n \in Nodes |-> {}]
    /\ seen = [n \in Nodes |-> [m \in Nodes |-> [r \in 1..Rounds |-> 0]]]
    /\ round = [n \in Nodes |-> 0]
    /\ script = [n \in Nodes |-> NoKeyData]
    /\ out = [n \in Nodes |-> << >>]
    /\ item = [n \in Nodes |-> Idle]
    /\ call = [n \in Nodes |-> NoCall]
    /\ disk = [n \in Nodes |-> NoKeyData]

-----------------------------------------------------------------------------
(* Starting                                                                *)

\* The coordinator stores the session, then calls the leader in a goroutine.
CreateDKGSession ==
    /\ session = "none"
    /\ session' = "pending"
    /\ start' = "sent"
    /\ UNCHANGED <<key, inc, once, run, active, open, queue, party, item, call, disk>>

\* The call fails; the coordinator logs it and leaves it at that.
StartDKGFails ==
    /\ "rpc" \in Faults
    /\ start = "sent"
    /\ start' = "lost"
    /\ UNCHANGED <<session, key, inc, once, run, active, open, queue, party, item, call, disk>>

\* sync.Once per session: the first of StartDKG and auto-start wins.
Launch(n) ==
    IF n \in once
    THEN UNCHANGED <<once, run>>
    ELSE once' = once \cup {n} /\ run' = [run EXCEPT ![n] = "starting"]

StartDKG ==
    /\ start = "sent"
    /\ start' = "done"
    /\ Launch(Leader)
    /\ UNCHANGED <<session, key, inc, active, open, queue, party, item, call, disk>>

\* Fault: the queue is there before the party.
RegisterQueueFirst(n) ==
    /\ run[n] = "starting"
    /\ run' = [run EXCEPT ![n] = "registered"]
    /\ open' = open \cup {n}
    /\ UNCHANGED <<start, session, key, inc, once, active, queue, party, item, call, disk>>

\* executeKeygen, unless there is a party already, registers one under the lock
RegisterParty(n) ==
    /\ run[n] = "starting"
    /\ n \notin active
    /\ run' = [run EXCEPT ![n] = "registered"]
    /\ active' = active \cup {n}
    /\ UNCHANGED <<start, session, key, inc, once, open, queue, party, item, call, disk>>

\* and creates the queue under the lock taken again, then spawns the party's goroutine
\* and the message loop.
CreateQueue(n) ==
    /\ run[n] = "registered"
    /\ run' = [run EXCEPT ![n] = "running"]
    /\ open' = open \cup {n}
    /\ UNCHANGED <<start, session, key, inc, once, active, queue, party, item, call, disk>>

-----------------------------------------------------------------------------
(* The tss-lib party                                                       *)

Others(n) == Nodes \ {n}

\* The party enters round r and puts the round's messages on outCh.
EnterRound(n, r) ==
    /\ round' = [round EXCEPT ![n] = r]
    /\ out' = [out EXCEPT ![n] = Append(@, [round |-> r, to |-> Others(n)])]

PartyStart(n) ==
    /\ run[n] = "running"
    /\ round[n] = 0
    /\ EnterRound(n, 1)
    /\ UNCHANGED <<start, session, key, inc, once, run, active, open, queue, seen, script,
                   item, call, disk>>

\* Every message of the round is there and belongs to the same incarnation as
\* the sender's commitment.
CanProceed(n) ==
    LET r == round[n] IN
    /\ r \in 1..Rounds
    /\ \A m \in Others(n) :
          /\ seen[n][m][r] # 0
          /\ r > 1 => seen[n][m][r] = script[n][m]

PartyAdvance(n) ==
    /\ run[n] = "running"
    /\ CanProceed(n)
    /\ script' = IF round[n] > 1 THEN script
                 ELSE [script EXCEPT ![n] = [m \in Nodes |-> IF m = n THEN inc[n]
                                                                      ELSE seen[n][m][1]]]
    /\ IF round[n] < Rounds
       THEN EnterRound(n, round[n] + 1)
       ELSE round' = [round EXCEPT ![n] = Rounds + 1] /\ UNCHANGED out
    /\ UNCHANGED <<start, session, key, inc, once, run, active, open, queue, seen,
                   item, call, disk>>

\* The message loop takes a message from the channel and hands it to the party
\* it finds in activeKeygen, which stores it; without a party it is gone.
ProcessMessage(n, m) ==
    /\ run[n] = "running"
    /\ m \in queue[n]
    /\ queue' = [queue EXCEPT ![n] = @ \ {m}]
    /\ seen' = IF n \in active THEN [seen EXCEPT ![n][m.from][m.round] = m.inc] ELSE seen
    /\ UNCHANGED <<start, session, key, inc, once, run, active, open, round, script, out,
                   item, call, disk>>

-----------------------------------------------------------------------------
(* The select loop of executeKeygen                                        *)

AtSelect(n) == run[n] = "running" /\ item[n] = Idle

\* case msg := <-outCh.  A broadcast is routed to all other nodes before the
\* loop selects again, a message with a target by itself.
ReceiveOut(n) ==
    /\ AtSelect(n)
    /\ out[n] # << >>
    /\ LET h == Head(out[n]) IN
       IF h.round \in UnicastRounds
       THEN \E t \in h.to :
               /\ item' = [item EXCEPT ![n] = [h EXCEPT !.to = {t}]]
               /\ out' = [out EXCEPT ![n] = IF h.to = {t} THEN Tail(@)
                                            ELSE [@ EXCEPT ![1].to = h.to \ {t}]]
       ELSE /\ item' = [item EXCEPT ![n] = h]
            /\ out' = [out EXCEPT ![n] = Tail(@)]
    /\ UNCHANGED <<start, session, key, inc, once, run, active, open, queue, seen, round, script,
                   call, disk>>

\* messageRouter -> SendKeygenMessage: a blocking call without a deadline.
SendKeygenMessage(n, t) ==
    /\ call[n] = NoCall
    /\ t \in item[n].to
    /\ call' = [call EXCEPT ![n] = [to |-> t, state |-> "sent"]]
    /\ UNCHANGED <<start, session, key, inc, once, run, active, open, queue, party, item, disk>>

\* The call returned.  An error ends the run if the message had a target (the
\* party and the queue stay registered) and is only logged for a broadcast.
SendReturns(n) ==
    /\ call[n].state \in {"accepted", "rejected"}
    /\ call' = [call EXCEPT ![n] = NoCall]
    /\ IF call[n].state = "rejected" /\ item[n].round \in UnicastRounds
       THEN /\ run' = [run EXCEPT ![n] = "ended"]
            /\ item' = [item EXCEPT ![n] = Idle]
       ELSE /\ item' = [item EXCEPT ![n] = IF @.to = {call[n].to} THEN Idle
                                           ELSE [round |-> @.round, to |-> @.to \ {call[n].to}]]
            /\ UNCHANGED run
    /\ UNCHANGED <<start, session, key, inc, once, active, open, queue, party, disk>>

\* case saveData := <-endCh: ready at the same time as outCh may be, and then
\* the choice is Go's.
ReceiveEnd(n) ==
    /\ AtSelect(n)
    /\ round[n] = Rounds + 1
    /\ run' = [run EXCEPT ![n] = "saving"]
    /\ active' = active \ {n}
    /\ open' = open \ {n}
    /\ queue' = [queue EXCEPT ![n] = {}]
    /\ UNCHANGED <<start, session, key, inc, once, party, item, call, disk>>

\* case <-ctx.Done() and case <-timeout.C: nothing is cleaned up.
KeygenTimeout(n) ==
    /\ "timeout" \in Faults
    /\ AtSelect(n)
    /\ run' = [run EXCEPT ![n] = "ended"]
    /\ UNCHANGED <<start, session, key, inc, once, active, open, queue, party, item, call, disk>>

\* case err := <-errCh: the party could not start, as the library found its
\* parameters too slowly.  The party and its queue go, the sync.Once stays used.
ReceiveErr(n) ==
    /\ "party" \in Faults
    /\ AtSelect(n)
    /\ round[n] = 0
    /\ run' = [run EXCEPT ![n] = "ended"]
    /\ active' = active \ {n}
    /\ open' = open \ {n}
    /\ queue' = [queue EXCEPT ![n] = {}]
    /\ UNCHANGED <<start, session, key, inc, once, party, item, call, disk>>

-----------------------------------------------------------------------------
(* The receiving side: SubmitSignatureShare -> handleProtocolMessage       *)

\* Fault: a message does not start the DKG (as in the signing branch).
HandleProtocolMessageOnly(n) ==
    /\ call[n].state = "sent"
    /\ call' = [call EXCEPT ![n].state = "waiting"]
    /\ UNCHANGED <<start, session, key, inc, once, run, active, open, queue, party, item, disk>>

\* Fault: instead of a sync.Once, the handler asks whether a DKG is running now.
HandleProtocolMessageIfIdle(n) ==
    LET t == call[n].to IN
    /\ call[n].state = "sent"
    /\ call' = [call EXCEPT ![n].state = "waiting"]
    /\ IF run[t] \in {"none", "ended"}
       THEN /\ once' = once \cup {t}
            /\ run' = [run EXCEPT ![t] = "starting"]
            /\ inc' = [inc EXCEPT ![t] = IF run[t] = "ended" THEN @ + 1 ELSE @]
            /\ seen' = [seen EXCEPT ![t] = [m \in Nodes |-> [r \in 1..Rounds |-> 0]]]
            /\ round' = [round EXCEPT ![t] = 0]
            /\ script' = [script EXCEPT ![t] = NoKeyData]
            /\ out' = [out EXCEPT ![t] = << >>]
       ELSE UNCHANGED <<once, run, inc, party>>
    /\ UNCHANGED <<start, session, key, active, open, queue, item, disk>>

\* The first message of the session starts the DKG on this node.
HandleProtocolMessage(n) ==
    /\ call[n].state = "sent"
    /\ Launch(call[n].to)
    /\ call' = [call EXCEPT ![n].state = "waiting"]
    /\ UNCHANGED <<start, session, key, inc, active, open, queue, party, item, disk>>

\* Fault: the request's round field is taken for the protocol's; it is 0 or -1.
ProcessIncomingWireRound(n) ==
    LET t == call[n].to IN
    /\ call[n].state = "waiting"
    /\ t \in open
    /\ queue' = [queue EXCEPT ![t] = @ \cup {[from |-> n, round |-> 0, inc |-> inc[n]]}]
    /\ call' = [call EXCEPT ![n].state = "accepted"]
    /\ UNCHANGED <<start, session, key, inc, once, run, active, open, party, item, disk>>

\* ProcessIncomingKeygenMessage waits until the queue exists.
ProcessIncomingKeygenMessage(n) ==
    LET t == call[n].to IN
    /\ call[n].state = "waiting"
    /\ t \in open
    /\ queue' = [queue EXCEPT ![t] = @ \cup {[from |-> n, round |-> item[n].round, inc |-> inc[n]]}]
    /\ call' = [call EXCEPT ![n].state = "accepted"]
    /\ UNCHANGED <<start, session, key, inc, once, run, active, open, party, item, disk>>

\* It gives up after five seconds.
QueueWaitTimesOut(n) ==
    /\ "timeout" \in Faults
    /\ call[n].state = "waiting"
    /\ call[n].to \notin open
    /\ call' = [call EXCEPT ![n].state = "rejected"]
    /\ UNCHANGED <<start, session, key, inc, once, run, active, open, queue, party, item, disk>>

\* The request or its answer is lost on the way.
CallFails(n) ==
    /\ "rpc" \in Faults
    /\ call[n].state \in {"sent", "waiting", "accepted"}
    /\ call' = [call EXCEPT ![n].state = "rejected"]
    /\ UNCHANGED <<start, session, key, inc, once, run, active, open, queue, party, item, disk>>

-----------------------------------------------------------------------------
(* After the protocol                                                      *)

\* Fault: the session is completed before the key data is on disk.
StoreKeyDataLate(n) ==
    /\ run[n] = "saving"
    /\ run' = [run EXCEPT ![n] = "stored"]
    /\ UNCHANGED <<start, session, key, inc, once, active, open, queue, party, item, call, disk>>

\* GenerateKeyShare stores the party's save data; an error ends the run.
StoreKeyData(n) ==
    /\ run[n] = "saving"
    /\ \/ /\ disk' = [disk EXCEPT ![n] = script[n]]
          /\ run' = [run EXCEPT ![n] = "stored"]
       \/ /\ "store" \in Faults
          /\ UNCHANGED disk
          /\ run' = [run EXCEPT ![n] = "ended"]
    /\ UNCHANGED <<start, session, key, inc, once, active, open, queue, party, item, call>>

\* The first node to come writes the public key and makes the key Active; the
\* others find the session completed.  A failure is only logged.  SessionManager
\* has the steps of this operation.
CompleteKeygenSession(n) ==
    /\ run[n] = "stored"
    /\ run' = [run EXCEPT ![n] = "ended"]
    /\ \/ session = "pending" /\ session' = "completed" /\ key' = script[n]
       \/ session # "pending" /\ UNCHANGED <<session, key>>
       \/ "store" \in Faults /\ UNCHANGED <<session, key>>
    /\ UNCHANGED <<start, inc, once, active, open, queue, party, item, call, disk>>

Restarts == Cardinality({p \in Nodes \X Incarnations : p[2] < inc[p[1]]})

\* The process of a node stops and comes back; only the file system survives.
\* Calls it was handling break off.
Restart(n) ==
    /\ Restarts < MaxRestarts
    /\ inc' = [inc EXCEPT ![n] = @ + 1]
    /\ once' = once \ {n} /\ active' = active \ {n} /\ open' = open \ {n}
    /\ run' = [run EXCEPT ![n] = "none"]
    /\ queue' = [queue EXCEPT ![n] = {}]
    /\ seen' = [seen EXCEPT ![n] = [m \in Nodes |-> [r \in 1..Rounds |-> 0]]]
    /\ round' = [round EXCEPT ![n] = 0]
    /\ script' = [script EXCEPT ![n] = NoKeyData]
    /\ out' = [out EXCEPT ![n] = << >>]
    /\ item' = [item EXCEPT ![n] = Idle]
    /\ call' = [m \in Nodes |->
                  CASE m = n -> NoCall
                    [] m # n /\ call[m] = [to |-> n, state |-> "waiting"] ->
                          [to |-> n, state |-> "rejected"]
                    [] OTHER -> call[m]]
    /\ UNCHANGED <<start, session, key, disk>>

-----------------------------------------------------------------------------
\* What runs by itself once begun.
NodeStep(n) ==
    \/ RegisterParty(n)
    \/ CreateQueue(n)
    \/ PartyStart(n)
    \/ PartyAdvance(n)
    \/ \E m \in Messages : ProcessMessage(n, m)
    \/ ReceiveOut(n)
    \/ \E t \in Nodes : SendKeygenMessage(n, t)
    \/ SendReturns(n)
    \/ ReceiveEnd(n)
    \/ HandleProtocolMessage(n)
    \/ ProcessIncomingKeygenMessage(n)
    \/ StoreKeyData(n)
    \/ CompleteKeygenSession(n)

Fault(n) == KeygenTimeout(n) \/ ReceiveErr(n) \/ QueueWaitTimesOut(n) \/ CallFails(n) \/ Restart(n)

Next ==
    \/ CreateDKGSession
    \/ StartDKG
    \/ StartDKGFails
    \/ \E n \in Nodes : NodeStep(n) \/ Fault(n)

Spec == Init /\ [][Next]_vars

\* Every goroutine that can go on does, and the coordinator's call arrives
\* unless it is lost.
FairSpec ==
    /\ Spec
    /\ WF_vars(CreateDKGSession)
    /\ WF_vars(StartDKG \/ StartDKGFails)
    /\ \A n \in Nodes : WF_vars(NodeStep(n))

-----------------------------------------------------------------------------
(* Properties                                                              *)

TypeOK ==
    /\ start \in {"none", "sent", "done", "lost"}
    /\ session \in {"none", "pending", "completed"}
    /\ key \in Transcripts
    /\ inc \in [Nodes -> Incarnations]
    /\ once \subseteq Nodes /\ active \subseteq Nodes /\ open \subseteq Nodes
    /\ run \in [Nodes -> Run]
    /\ queue \in [Nodes -> SUBSET Messages]
    /\ seen \in [Nodes -> [Nodes -> [1..Rounds -> Incarnations \cup {0}]]]
    /\ round \in [Nodes -> 0..(Rounds + 1)]
    /\ script \in [Nodes -> Transcripts]
    /\ out \in [Nodes -> Seq(Items)]
    /\ item \in [Nodes -> Items \cup {Idle}]
    /\ call \in [Nodes -> Calls \cup {NoCall}]
    /\ disk \in [Nodes -> Transcripts]

\* The key is Active only with a public key whose key data some node has on
\* disk, and still has after any restart: GenerateKeyShare stores the data
\* before CompleteKeygenSession is called.
ActiveKeyIsOnDisk ==
    key # NoKeyData => \E n \in Nodes : disk[n] = key

\* All key data on the nodes' disks belongs to one and the same public key, the
\* one in the database: a node that restarts in the middle, with a fresh
\* sync.Once and a fresh party, never lets two halves of the group finish with
\* different keys.
Agreement ==
    \A n, m \in Nodes :
        /\ disk[n] # NoKeyData /\ disk[m] # NoKeyData => disk[n] = disk[m]
        /\ disk[n] # NoKeyData /\ key # NoKeyData => disk[n] = key

\* grpc/server.go:267: sync.Once makes the DKG of a session start only once.  A
\* DKG that ends a second time would replace the key data of the first.
KeyDataIsFinal ==
    [][\A n \in Nodes : disk[n] # NoKeyData => disk'[n] = disk[n]]_vars

Promise == INSTANCE KeyAgreement
    WITH Keys <- Transcripts \ {NoKeyData}, None <- NoKeyData, stored <- disk, published <- key

\* The whole of executeKeygen, GenerateKeyShare and CompleteKeygenSession does what
\* KeyAgreement says and nothing else, whatever fails and whoever restarts on the way.
IsKeyAgreement == Promise!Spec

\* tss_adapter.go:294 counts on it: whatever the message loop takes from the
\* queue of a run in progress finds its party, so no message is lost between
\* the two locked sections of executeKeygen.
LoopFindsParty ==
    \A n \in Nodes : run[n] \in {"registered", "running"} /\ queue[n] # {} => n \in active

\* With no fault, every DKG session ends with an Active key.
KeyBecomesActive == <>(key # NoKeyData)

\* docs/mpc-detailed-design.md:873-875: every participant stores its share.
EveryNodeStores == <>(\A n \in Nodes : disk[n] # NoKeyData)

\* coordinator/service.go:258-259: a DKG whose StartDKG call failed is started by
\* the protocol messages.
StartsWithoutStartDKG == start = "lost" ~> once # {}
=============================================================================
