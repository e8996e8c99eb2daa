------------------------ MODULE ServerLifecycleProofs ------------------------
(***************************************************************************)
(* What holds of a server process for any number of calls and requests.    *)
(***************************************************************************)
EXTENDS ServerLifecycle, TLAPS

\* No call runs in a gRPC server that does not serve yet or any more.
RpcsAreServed ==
    grpc \notin {"serving", "draining", "cut"} => \A c \in Rpcs : call[c] # "running"

\* Start spawns the server once, it drains while Stop waits for it, Echo is closed
\* after it and the database last.
StopsInOrder ==
    /\ starter \in {"register", "spawn"} => grpc = "none"
    /\ grpc = "draining" => main \in {"stop", "exited"}
    /\ main \in {"close", "end"} => http = "closed"
    /\ db = "closed" => main \in {"end", "exited"}

\* A shutdown whose signal found a gRPC server stops that server, and past Stop's
\* first look it is stopped.
FoundStarted ==
    ~ early =>
        /\ main \notin {"running", "exited"} =>
              grpc \in {"created", "serving", "draining", "stopped"}
        /\ main \in {"listener", "echo", "close", "end"} => grpc = "stopped"

IInv == TypeOK /\ RpcsAreServed /\ StopsInOrder /\ FoundStarted

LEMMA TypeStep == TypeOK /\ [Next]_vars => TypeOK'
<1> SUFFICES ASSUME TypeOK, [Next]_vars PROVE TypeOK'
  OBVIOUS
<1> USE DEF TypeOK
<1>1. ASSUME Signal \/ DeregisterNode \/ StopGrpc PROVE TypeOK'
  BY <1>1 DEF Signal, DeregisterNode, StopGrpc
<1>2. ASSUME CloseListener \/ ShutdownEcho \/ CloseDB PROVE TypeOK'
  BY <1>2 DEF CloseListener, ShutdownEcho, CloseDB
<1>3. ASSUME Start PROVE TypeOK'
  BY <1>3 DEF Start, RegisterNode, SpawnGrpc, StartEcho, StartGrpc
<1>4. ASSUME Outage \/ Silence \/ Reap PROVE TypeOK'
  BY <1>4 DEF Outage, Silence, Reap
<1>5. ASSUME NEW c \in Rpcs \cup Requests, CallBegins(c) \/ CallEnds(c) PROVE TypeOK'
  BY <1>5 DEF CallBegins, CallEnds
<1>6. ASSUME UNCHANGED vars PROVE TypeOK'
  BY <1>6 DEF vars
<1> QED
  BY <1>1, <1>2, <1>3, <1>4, <1>5, <1>6 DEF Next, Main

LEMMA InitHolds == Init => IInv
  BY DEF Init, IInv, TypeOK, RpcsAreServed, StopsInOrder, FoundStarted

\* One step per group of actions.
LEMMA OrderStep ==
    ASSUME IInv, [Next]_vars
    PROVE  RpcsAreServed' /\ StopsInOrder' /\ FoundStarted'
<1> DEFINE Kept == RpcsAreServed' /\ StopsInOrder' /\ FoundStarted'
<1> USE DEF IInv, TypeOK, RpcsAreServed, StopsInOrder, FoundStarted
<1>1. ASSUME Signal \/ DeregisterNode PROVE Kept
  BY <1>1 DEF Signal, DeregisterNode
<1>2. ASSUME StopGrpc PROVE Kept
  BY <1>2 DEF StopGrpc
<1>3. ASSUME CloseListener PROVE Kept
  BY <1>3 DEF CloseListener
<1>4. ASSUME ShutdownEcho \/ CloseDB PROVE Kept
  BY <1>4 DEF ShutdownEcho, CloseDB
<1>5. ASSUME RegisterNode \/ SpawnGrpc \/ StartEcho PROVE Kept
  BY <1>5 DEF RegisterNode, SpawnGrpc, StartEcho, Up
<1>6. ASSUME StartGrpc PROVE Kept
  BY <1>6 DEF StartGrpc, Up
<1>7. ASSUME Outage \/ Silence \/ Reap \/ UNCHANGED vars PROVE Kept
  BY <1>7 DEF Outage, Silence, Reap, vars
<1>8. ASSUME NEW c \in Rpcs \cup Requests, CallBegins(c) \/ CallEnds(c) PROVE Kept
  BY <1>8 DEF CallBegins, CallEnds
<1> QED
  BY <1>1, <1>2, <1>3, <1>4, <1>5, <1>6, <1>7, <1>8 DEF Next, Main, Start

LEMMA IInvStep == IInv /\ [Next]_vars => IInv'
  BY TypeStep, OrderStep DEF IInv

\* Whenever Start, Stop and the calls run, a gRPC call is handled on a closed
\* database only if the signal came before Start had created the gRPC server.
THEOREM OnlyEarlySignals == Spec => []OnlyEarlySignalMissesCalls
<1>1. IInv => OnlyEarlySignalMissesCalls
  BY DEF IInv, TypeOK, RpcsAreServed, StopsInOrder, FoundStarted,
         OnlyEarlySignalMissesCalls, Up
<1> QED
  BY <1>1, IInvStep, InitHolds, PTL DEF Spec

\* Whenever the signal comes, no HTTP request begins on a closed database.
THEOREM RequestsHaveADatabase == Spec => RequestsFindOpenDB
<1> DEFINE Found == \A c \in Requests : call[c] = "idle" /\ call'[c] = "running" => db = "open"
<1>1. IInv /\ [Next]_vars => [Found]_vars
  <2> SUFFICES ASSUME IInv, Next PROVE Found
    BY DEF vars
  <2> USE DEF IInv, TypeOK, StopsInOrder
  <2>1. ASSUME NEW c \in Rpcs \cup Requests, CallBegins(c) PROVE Found
    <3> SUFFICES ASSUME NEW d \in Requests, call[d] = "idle", call'[d] = "running"
                 PROVE  db = "open"
      OBVIOUS
    <3>1. c = d /\ c \notin Rpcs
      BY <2>1, LifecycleAssumption DEF CallBegins
    <3> QED
      BY <2>1, <3>1 DEF CallBegins, Up
  <2>2. ASSUME NEW c \in Rpcs \cup Requests, CallEnds(c) PROVE Found
    BY <2>2 DEF CallEnds
  <2>3. ASSUME Main \/ Start \/ Outage \/ Silence \/ Reap PROVE call' = call
    BY <2>3 DEF Main, Signal, DeregisterNode, StopGrpc, CloseListener, ShutdownEcho, CloseDB,
                Start, RegisterNode, SpawnGrpc, StartEcho, StartGrpc, Outage, Silence, Reap
  <2> QED
    BY <2>1, <2>2, <2>3 DEF Next
<1> QED
  BY <1>1, IInvStep, InitHolds, PTL DEF Spec, RequestsFindOpenDB

=============================================================================
