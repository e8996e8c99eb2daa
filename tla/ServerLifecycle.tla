--------------------------- MODULE ServerLifecycle ---------------------------
(***************************************************************************)
(* One run of the server process: the main goroutine that waits for a      *)
(* signal and shuts down, the goroutine of Server.Start, the gRPC and HTTP *)
(* servers with their calls, the database handle and the node's entry in   *)
(* Consul.                                                                 *)
(***************************************************************************)
EXTENDS Naturals

CONSTANTS
    Rpcs, Requests,  \* gRPC calls and HTTP requests
    EarlySignal,     \* can a signal come before the server is up?
    Faults           \* of "consul", "silence", "listen", "outage"

ASSUME LifecycleAssumption ==
    /\ Rpcs \cap Requests = {} /\ EarlySignal \in BOOLEAN
    /\ Faults \subseteq {"consul", "silence", "listen", "outage"}

VARIABLES
    main,        \* where the main goroutine is
    starter,     \* where Server.Start is
    grpc,        \* the gRPC server: s.listener is set from "listening" on,
                 \* s.grpcServer from "created" on; "cut" off from its listener
    http,        \* the echo server
    db,          \* "open", "closed"
    registered,  \* does Consul list the node?
    reachable,   \* does Consul's TCP check reach the gRPC port's host?
    answers,     \* does Consul answer?
    call,        \* state of each call and request
    early        \* history: the signal came before there was a gRPC server

vars == <<main, starter, grpc, http, db, registered, reachable, answers, call, early>>

Init ==
    /\ main = "running" /\ starter = "register"
    /\ grpc = "none" /\ http = "none" /\ db = "open"
    /\ registered = FALSE /\ reachable = TRUE /\ answers = TRUE /\ early = FALSE
    /\ call = [c \in Rpcs \cup Requests |-> "idle"]

Up == main # "exited"

-----------------------------------------------------------------------------
(* Server.Start                                                            *)

\* An error of Consul is logged and not tried again.  The call has no deadline: it
\* returns when Consul answers.
RegisterNode ==
    /\ Up /\ answers /\ starter = "register" /\ starter' = "spawn"
    /\ registered' \in {TRUE} \cup IF "consul" \in Faults THEN {registered} ELSE {}
    /\ UNCHANGED <<main, grpc, http, db, reachable, answers, call, early>>

SpawnGrpc ==
    /\ Up /\ starter = "spawn" /\ starter' = "echo"
    /\ grpc' = "starting"
    /\ UNCHANGED <<main, http, db, registered, reachable, answers, call, early>>

\* Echo.Start: log.Fatal if it cannot listen; ErrServerClosed after a shutdown.
StartEcho ==
    /\ Up /\ starter = "echo" /\ starter' = "done"
    /\ \/ /\ http = "none" /\ http' = "serving" /\ UNCHANGED main
       \/ /\ http = "none" /\ "listen" \in Faults
          /\ http' = "closed" /\ main' = "exited"
       \/ /\ http = "closed" /\ UNCHANGED <<main, http>>
    /\ UNCHANGED <<grpc, db, registered, reachable, answers, call, early>>

\* GRPCServer.Start in its goroutine: listen, create the server, serve.
StartGrpc ==
    /\ Up
    /\ \/ /\ grpc = "starting"
          /\ grpc' \in {"listening"} \cup IF "listen" \in Faults THEN {"stopped"} ELSE {}
       \/ grpc = "listening" /\ grpc' = "created"
       \/ grpc = "created" /\ grpc' = "serving"
    /\ UNCHANGED <<main, starter, http, db, registered, reachable, answers, call, early>>

-----------------------------------------------------------------------------
(* The signal, and Server.Shutdown                                         *)

Signal ==
    /\ main = "running" /\ main' = "deregister"
    /\ EarlySignal \/ (starter = "done" /\ grpc \in {"serving", "stopped"})
    /\ early' = (grpc \notin {"created", "serving", "stopped"})
    /\ UNCHANGED <<starter, grpc, http, db, registered, reachable, answers, call>>

\* An entry that is not there is no error; any other error is kept for later.  The
\* shutdown's context is not handed on, so that this call has no deadline either.
DeregisterNode ==
    /\ answers /\ main = "deregister" /\ main' = "stop"
    /\ registered' \in {FALSE} \cup IF "consul" \in Faults THEN {registered} ELSE {}
    /\ UNCHANGED <<starter, grpc, http, db, reachable, answers, call, early>>

\* Fault: the calls are not waited for.
StopAtOnce ==
    /\ main = "stop" /\ main' = "listener"
    /\ grpc' = IF grpc \in {"created", "serving"} THEN "stopped" ELSE grpc
    /\ UNCHANGED <<starter, http, db, registered, reachable, answers, call, early>>

\* GRPCServer.Stop: GracefulStop if there is a server, which also closes its
\* listener; Start is not held up by either look.
StopGrpc ==
    /\ main = "stop"
    /\ \/ /\ grpc \in {"none", "starting", "listening", "stopped"} /\ main' = "listener"
          /\ UNCHANGED grpc
       \/ /\ grpc \in {"created", "serving"} /\ grpc' = "draining"
          /\ UNCHANGED main
       \/ /\ grpc = "draining" /\ \A c \in Rpcs : call[c] # "running"
          /\ grpc' = "stopped" /\ main' = "listener"
    /\ UNCHANGED <<starter, http, db, registered, reachable, answers, call, early>>

\* Then the listener is closed if there is one.  Serve fails on a closed listener;
\* a server that serves by now keeps the connections it has accepted.
CloseListener ==
    /\ main = "listener" /\ main' = "echo"
    /\ grpc' = IF grpc \in {"listening", "created"} THEN "stopped"
               ELSE IF grpc = "serving" THEN "cut" ELSE grpc
    /\ UNCHANGED <<starter, http, db, registered, reachable, answers, call, early>>

\* Fault: nobody shuts the HTTP server down.
EchoLeftOpen ==
    /\ main = "echo" /\ main' = "close"
    /\ UNCHANGED <<starter, grpc, http, db, registered, reachable, answers, call, early>>

\* Fault: no deadline.
ShutdownEchoForever ==
    /\ main = "echo"
    /\ \/ http # "closed" /\ http' = "closed" /\ UNCHANGED main
       \/ /\ http = "closed" /\ \A c \in Requests : call[c] # "running"
          /\ main' = "close" /\ UNCHANGED http
    /\ UNCHANGED <<starter, grpc, db, registered, reachable, answers, call, early>>

\* Echo.Shutdown: no new requests; back when the last is done or ctx ends.
ShutdownEcho ==
    /\ main = "echo"
    /\ \/ http # "closed" /\ http' = "closed" /\ UNCHANGED main
       \/ http = "closed" /\ main' = "close" /\ UNCHANGED http
    /\ UNCHANGED <<starter, grpc, db, registered, reachable, answers, call, early>>

\* The handle is closed, WithServer returns and the process ends.
CloseDB ==
    /\ \/ main = "close" /\ main' = "end" /\ db' = "closed"
       \/ main = "end" /\ main' = "exited" /\ UNCHANGED db
    /\ UNCHANGED <<starter, grpc, http, registered, reachable, answers, call, early>>

-----------------------------------------------------------------------------
(* Calls, and Consul                                                       *)

CallBegins(c) ==
    /\ Up /\ call[c] = "idle"
    /\ IF c \in Rpcs THEN grpc \in {"serving", "cut"} ELSE http = "serving"
    /\ call' = [call EXCEPT ![c] = "running"]
    /\ UNCHANGED <<main, starter, grpc, http, db, registered, reachable, answers, early>>

CallEnds(c) ==
    /\ call[c] = "running"
    /\ call' = [call EXCEPT ![c] = "done"]
    /\ UNCHANGED <<main, starter, grpc, http, db, registered, reachable, answers, early>>

\* The network between Consul and the node fails, and comes back.
Outage ==
    /\ "outage" \in Faults /\ reachable' = ~ reachable
    /\ UNCHANGED <<main, starter, grpc, http, db, registered, answers, call, early>>

\* Consul takes connections and answers nothing, and recovers.
Silence ==
    /\ "silence" \in Faults /\ answers' = ~ answers
    /\ UNCHANGED <<main, starter, grpc, http, db, registered, reachable, call, early>>

\* Fault: the registration has no DeregisterCriticalServiceAfter.
ReapNever == FALSE /\ UNCHANGED vars

\* DeregisterCriticalServiceAfter: the check has failed for a minute, longer than
\* a start takes.
Reap ==
    /\ registered /\ answers
    /\ ~ Up \/ ~ reachable \/ grpc \in {"draining", "cut", "stopped"}
    /\ registered' = FALSE
    /\ UNCHANGED <<main, starter, grpc, http, db, reachable, answers, call, early>>

-----------------------------------------------------------------------------
Main == Signal \/ DeregisterNode \/ StopGrpc \/ CloseListener \/ ShutdownEcho \/ CloseDB
Start == RegisterNode \/ SpawnGrpc \/ StartEcho \/ StartGrpc

Next ==
    \/ Main \/ Start \/ Outage \/ Silence \/ Reap
    \/ \E c \in Rpcs \cup Requests : CallBegins(c) \/ CallEnds(c)

\* Goroutines run; gRPC handlers end, each has a timeout; Consul's timer fires
\* if the check fails for good.  Nothing says that a signal comes, that Consul
\* answers, that an HTTP request ends (its client may be slow) or that a call is made.
Spec ==
    /\ Init /\ [][Next]_vars
    /\ WF_vars(DeregisterNode) /\ WF_vars(StopGrpc) /\ WF_vars(CloseListener)
    /\ WF_vars(ShutdownEcho) /\ WF_vars(CloseDB) /\ WF_vars(Start) /\ WF_vars(Reap)
    /\ \A c \in Rpcs : WF_vars(CallEnds(c))

-----------------------------------------------------------------------------
(* Properties                                                              *)

TypeOK ==
    /\ main \in {"running", "deregister", "stop", "listener", "echo", "close", "end", "exited"}
    /\ starter \in {"register", "spawn", "echo", "done"}
    /\ grpc \in {"none", "starting", "listening", "created", "serving", "draining", "cut",
                "stopped"}
    /\ http \in {"none", "serving", "closed"}
    /\ db \in {"open", "closed"}
    /\ registered \in BOOLEAN /\ reachable \in BOOLEAN /\ answers \in BOOLEAN /\ early \in BOOLEAN
    /\ call \in [Rpcs \cup Requests -> {"idle", "running", "done"}]

\* Shutdown stops the gRPC server and waits for its calls before it closes the
\* database.  A call is handled on a closed one only if the signal came before
\* Start had created the server: Stop may then look for it too soon.
OnlyEarlySignalMissesCalls ==
    Up /\ db = "closed" /\ (\E c \in Rpcs : call[c] = "running") => early

\* Whenever the signal comes, an HTTP request that begins finds the database open:
\* Echo is shut down first, and a Start that is late does not bring it up again.
RequestsFindOpenDB ==
    [][\A c \in Requests : call[c] = "idle" /\ call'[c] = "running" => db = "open"]_vars

\* The comment says that the gRPC server runs "until it is explicitly stopped in
\* Shutdown": past that step it does not serve.
StoppedInShutdown == main \in {"echo", "close", "end"} => grpc \notin {"serving", "cut"}

\* If Consul answers in the end, a shutdown that has begun ends, whatever calls and
\* requests are under way.  Without an answer DeregisterNode does not return.
ShutdownEnds == <>[]answers => (main # "running" ~> main = "exited")

\* If Consul works in the end, it forgets a node that is gone, however the process
\* ended.
GoneFromConsul == <>[]answers => (main = "exited" ~> ~ registered)

\* The deployment guide: all nodes are "automatically deregistered on close".
DeregisteredOnClose == main = "exited" => ~ registered

\* The deployment guide: all nodes are "automatically registered on start"; a
\* node that serves and can be reached is listed, or will be.
ServingMeansListed ==
    (main = "running" /\ grpc = "serving" /\ reachable)
        ~> (registered \/ main # "running" \/ ~ reachable)

=============================================================================
