------------------------------ MODULE BatchSign ------------------------------
(***************************************************************************)
(* signing.Service.BatchSign: one goroutine per message, each with a       *)
(* context of its own that lasts 30 seconds, and a response put together   *)
(* when all have ended.  The signing itself (module Signing) is a session  *)
(* that the participants complete or fail, or leave as it is.              *)
(***************************************************************************)
EXTENDS Naturals, Sequences, SequencesExt

CONSTANT Total   \* number of messages

ASSUME TotalAssumption == Total \in Nat \ {0}

Messages == 1 .. Total

VARIABLES
    handler,    \* "starting", "waiting", "returned"
    spawned,    \* messages whose goroutine has been started
    goroutine,  \* per message: "new", "signing", "signed", "failed", "done"
    context,    \* per message: "live", "expired"
    session,    \* per message: "none", "pending", "completed", "failed"
    results, errors,  \* messages with an entry in the slices
    response    \* [Signatures, Success, Failed]

BatchVars == <<handler, spawned, goroutine, context, session, results, errors, response>>

NoResponse == [Signatures |-> << >>, Success |-> 0, Failed |-> 0]

BatchInit ==
    /\ handler = "starting" /\ spawned = 0
    /\ goroutine = [i \in Messages |-> "new"]
    /\ context = [i \in Messages |-> "live"]
    /\ session = [i \in Messages |-> "none"]
    /\ results = {} /\ errors = {}
    /\ response = NoResponse

\* The loop: wg.Add and go.
Spawn ==
    /\ handler = "starting"
    /\ spawned' = spawned + 1
    /\ goroutine' = [goroutine EXCEPT ![spawned'] = "signing"]
    /\ handler' = IF spawned' = Total THEN "waiting" ELSE "starting"
    /\ UNCHANGED <<context, session, results, errors, response>>

\* ThresholdSign creates its session, unless discovery or the database fails it.
ThresholdSign(i) ==
    /\ goroutine[i] = "signing" /\ session[i] = "none"
    /\ \/ session' = [session EXCEPT ![i] = "pending"] /\ UNCHANGED goroutine
       \/ goroutine' = [goroutine EXCEPT ![i] = "failed"] /\ UNCHANGED session
    /\ UNCHANGED <<handler, spawned, context, results, errors, response>>

\* The participants end the session, also after nobody waits for it any more.
SessionEnds(i) ==
    /\ session[i] = "pending"
    /\ session' \in {[session EXCEPT ![i] = "completed"], [session EXCEPT ![i] = "failed"]}
    /\ UNCHANGED <<handler, spawned, goroutine, context, results, errors, response>>

\* Polling sees the end of the session; a signature may not verify.
PollReturns(i) ==
    /\ goroutine[i] = "signing" /\ context[i] = "live"
    /\ \/ /\ session[i] = "completed"
          /\ goroutine' \in {[goroutine EXCEPT ![i] = "signed"], [goroutine EXCEPT ![i] = "failed"]}
       \/ /\ session[i] = "failed"
          /\ goroutine' = [goroutine EXCEPT ![i] = "failed"]
    /\ UNCHANGED <<handler, spawned, context, session, results, errors, response>>

\* Fault: no deadline.
ContextNeverExpires(i) == FALSE /\ UNCHANGED BatchVars

ContextExpires(i) ==
    /\ goroutine[i] # "new" /\ context[i] = "live"
    /\ context' = [context EXCEPT ![i] = "expired"]
    /\ UNCHANGED <<handler, spawned, goroutine, session, results, errors, response>>

\* With an expired context every store and call fails: StartSign, which then cannot
\* mark the session as failed either, or the next poll.
ExpiredCallFails(i) ==
    /\ goroutine[i] = "signing" /\ context[i] = "expired"
    /\ goroutine' = [goroutine EXCEPT ![i] = "failed"]
    /\ UNCHANGED <<handler, spawned, context, session, results, errors, response>>

\* The outcome is stored under mu, and the deferred wg.Done follows.
Record(i) ==
    /\ goroutine[i] \in {"signed", "failed"}
    /\ goroutine' = [goroutine EXCEPT ![i] = "done"]
    /\ IF goroutine[i] = "signed"
       THEN results' = results \cup {i} /\ UNCHANGED errors
       ELSE errors' = errors \cup {i} /\ UNCHANGED results
    /\ UNCHANGED <<handler, spawned, context, session, response>>

\* The loop over results, in the order of the request, leaves out what is not there.
InOrder(S) == CHOOSE s \in SetToSeqs(S) : \A i, j \in DOMAIN s : i < j => s[i] < s[j]

\* A message with neither entry counts as nothing.
Collected ==
    [Signatures |-> InOrder(results),
     Success |-> Cardinality(results), Failed |-> Cardinality(errors)]

\* Fault: wg.Add is called by the goroutine, so that Wait may find nothing to wait for.
ReturnEarly ==
    /\ handler = "waiting" /\ handler' = "returned"
    /\ \A i \in Messages : goroutine[i] \in {"done", "signing"}
    /\ response' = Collected
    /\ UNCHANGED <<spawned, goroutine, context, session, results, errors>>

\* wg.Wait, and the response.
Return ==
    /\ handler = "waiting" /\ handler' = "returned"
    /\ \A i \in Messages : goroutine[i] = "done"
    /\ response' = Collected
    /\ UNCHANGED <<spawned, goroutine, context, session, results, errors>>

-----------------------------------------------------------------------------
Steps(i) == ThresholdSign(i) \/ PollReturns(i) \/ ExpiredCallFails(i) \/ Record(i)

BatchNext ==
    \/ Spawn \/ Return
    \/ \E i \in Messages : Steps(i) \/ SessionEnds(i) \/ ContextExpires(i)

\* Goroutines run and timers fire; the participants owe nothing.
BatchSpec ==
    /\ BatchInit /\ [][BatchNext]_BatchVars
    /\ WF_BatchVars(Spawn) /\ WF_BatchVars(Return)
    /\ \A i \in Messages : WF_BatchVars(Steps(i)) /\ WF_BatchVars(ContextExpires(i))

-----------------------------------------------------------------------------
(* Properties                                                              *)

\* The response accounts for every message once, and its signatures are those of
\* completed sessions, in the order of the request whatever order they ended in.
ResponseIsComplete ==
    handler = "returned" =>
        /\ response.Success + response.Failed = Total
        /\ Len(response.Signatures) = response.Success
        /\ \A k \in DOMAIN response.Signatures :
              /\ session[response.Signatures[k]] = "completed"
              /\ \A j \in 1 .. k - 1 : response.Signatures[j] < response.Signatures[k]

\* The caller gets a response although the participants may leave every session as
\* it is: each goroutine ends with its context.
BatchEnds == <>(handler = "returned")

=============================================================================
