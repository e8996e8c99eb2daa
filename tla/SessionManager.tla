--------------------------- MODULE SessionManager ---------------------------
(***************************************************************************)
(* The session manager of the MPC wallet (internal/mpc/session) over its   *)
(* two stores: the signing_sessions and keys tables of PostgreSQL and the  *)
(* Redis session cache, together with the key-service operations that      *)
(* write the same keys rows.                                               *)
(*                                                                         *)
(* Every operation of the code is a read-modify-write of a whole row with  *)
(* no lock, transaction or version check, and a session update is two      *)
(* writes: first PostgreSQL, then Redis.  A Client is one call in flight,  *)
(* on any node that shares the stores; it executes one operation, and its  *)
(* steps interleave freely with those of the others.  A call that the code *)
(* refuses (an early return) changes nothing and is a stuttering step.     *)
(***************************************************************************)
EXTENDS Naturals, Sequences

CONSTANTS
    Keys,          \* key IDs; the DKG session of key k has session ID k
    SignSessions,  \* IDs of signing sessions
    Clients,       \* calls in flight
    Nodes,         \* participant node IDs
    NodeLists,     \* participant lists node discovery may return
    PublicKeys,    \* public keys a DKG may report
    Signatures,    \* signatures a signing session may report
    PgFaults,      \* may a PostgreSQL statement, or the caller, fail?
    RedisFaults    \* may a Redis command fail?

Sessions == Keys \cup SignSessions
Results  == PublicKeys \cup Signatures

ASSUME ConstantsAssumption ==
    /\ Keys \cap SignSessions = {}
    /\ "" \notin Results
    /\ "pending" \notin PublicKeys
    \* node_id is a primary key and discovery removes duplicates
    /\ NodeLists \subseteq {ns \in Seq(Nodes) :
                              \A i, j \in 1..Len(ns) : ns[i] = ns[j] => i = j}
    /\ PgFaults \in BOOLEAN
    /\ RedisFaults \in BOOLEAN

Status == {"pending", "active", "completed", "failed", "cancelled", "timeout"}

\* A row of signing_sessions: the columns that some decision reads.
Row   == [status : Status, nodes : Seq(Nodes), sig : Results \cup {""}]
NoRow == [status |-> "none", nodes |-> << >>, sig |-> ""]

\* A row of keys; del says whether deletion_date is set.
KeyRow == [status : {"Pending", "Active", "Deleted"},
           pub    : PublicKeys \cup {"pending"},
           del    : BOOLEAN]
NoKey  == [status |-> "none", pub |-> "pending", del |-> FALSE]

Steps == {"idle", "createSession", "cacheNew", "cleanup", "selectNodes", "polling",
          "writePG", "writeRedis", "readKey", "writeKey", "done"}

VARIABLES
    pg,      \* signing_sessions: session ID -> row
    redis,   \* the cache: session ID -> row
    keys,    \* keys: key ID -> row
    late,    \* session ID -> five minutes have passed since created_at
    notified, \* keys whose participants were asked to run the DKG
    pc,      \* where each call is
    obj,     \* the Session object a call holds: its ID, its row, what follows
    kobj,    \* the KeyMetadata object a call holds
    written  \* history: every row ever stored in PostgreSQL, per session

vars == <<pg, redis, keys, late, notified, pc, obj, kobj, written>>

NewRow(ns) == [status |-> "pending", nodes |-> ns, sig |-> ""]

Init ==
    /\ pg      = [s \in Sessions |-> NoRow]
    /\ redis   = [s \in Sessions |-> NoRow]
    /\ keys    = [k \in Keys |-> NoKey]
    /\ late    = [s \in Sessions |-> FALSE]
    /\ notified = {}
    /\ pc      = [c \in Clients |-> "idle"]
    /\ obj     = [c \in Clients |-> [id |-> "", row |-> NoRow, then |-> "done"]]
    /\ kobj    = [c \in Clients |-> NoKey]
    /\ written = [s \in Sessions |-> {}]

Goto(c, step) == pc' = [pc EXCEPT ![c] = step]

\* INSERT ... ON CONFLICT and UPDATE both replace the whole row.
StorePG(s, row) ==
    /\ pg' = [pg EXCEPT ![s] = row]
    /\ written' = [written EXCEPT ![s] = @ \cup {row}]

-----------------------------------------------------------------------------
(* Creating keys and sessions                                              *)

\* Fault: the response's status is stored instead of Pending.
CreatePlaceholderKeyInactive(c, k) ==
    /\ pc[c] = "idle"
    /\ keys[k] = NoKey
    /\ keys' = [keys EXCEPT ![k] = [status |-> "Inactive", pub |-> "pending", del |-> FALSE]]
    /\ obj'  = [obj EXCEPT ![c] = [id |-> k, row |-> NoRow, then |-> "done"]]
    /\ Goto(c, "createSession")
    /\ UNCHANGED <<pg, redis, late, notified, kobj, written>>

\* The create-key handler stores the placeholder key first (the sessions
\* table references it), then creates the DKG session.  When the read-back
\* fails the handler gives up and the placeholder stays.
CreatePlaceholderKey(c, k) ==
    /\ pc[c] = "idle"
    /\ keys[k] = NoKey
    /\ keys' = [keys EXCEPT ![k] = [status |-> "Pending", pub |-> "pending", del |-> FALSE]]
    /\ obj'  = [obj EXCEPT ![c] = [id |-> k, row |-> NoRow, then |-> "done"]]
    /\ \/ Goto(c, "createSession")
       \/ PgFaults /\ Goto(c, "done")
    /\ UNCHANGED <<pg, redis, late, notified, kobj, written>>

\* CreateKeyGenSession with the sorted list of discovered participants.
CreateKeyGenSession(c, ns) ==
    /\ pc[c] = "createSession"
    /\ StorePG(obj[c].id, NewRow(ns))
    /\ obj' = [obj EXCEPT ![c] = [id |-> obj[c].id, row |-> NewRow(ns), then |-> "done"]]
    /\ Goto(c, "cacheNew")
    /\ UNCHANGED <<redis, keys, late, notified, kobj>>

\* Too few participants, the database refused the row three times, or the row
\* is there but could not be read back: the handler deletes the placeholder.
CreateKeyGenSessionFails(c, ns) ==
    /\ pc[c] = "createSession"
    /\ \/ UNCHANGED <<pg, written>>
       \/ PgFaults /\ StorePG(obj[c].id, NewRow(ns))
    /\ Goto(c, "cleanup")
    /\ UNCHANGED <<redis, keys, late, notified, obj, kobj>>

\* For the create-session handler (then = "done"), or for the signing service,
\* which keeps the Session object it gets here until the signature is there.
CreateSession(c, s, then) ==
    /\ pc[c] = "idle"
    /\ pg[s] = NoRow
    /\ StorePG(s, NewRow(<< >>))
    /\ obj' = [obj EXCEPT ![c] = [id |-> s, row |-> NewRow(<< >>), then |-> then]]
    /\ Goto(c, "cacheNew")
    /\ UNCHANGED <<redis, keys, late, notified, kobj>>

\* SaveSession in Redis with the configured timeout.  A failure is an error of
\* CreateSession and a warning of CreateKeyGenSession; the row stays either way.
\* CreateDKGSession then has the participants of a DKG session notified.
CacheNewSession(c) ==
    /\ pc[c] = "cacheNew"
    /\ \/ /\ redis' = [redis EXCEPT ![obj[c].id] = obj[c].row]
          /\ Goto(c, obj[c].then)
       \/ RedisFaults /\ UNCHANGED redis /\ Goto(c, "done")
    /\ notified' = notified \cup ({obj[c].id} \cap Keys)
    /\ UNCHANGED <<pg, keys, late, obj, kobj, written>>

-----------------------------------------------------------------------------
(* Reading a session and preparing its new row                             *)

\* GetSession asks Redis and falls back to PostgreSQL on any error.  The miss
\* may be older than the fallback read, so either row may be the answer.
GetSession(s) == {pg[s], redis[s]} \ {NoRow}

\* The call has read the session and will UpdateSession with this row.
Update(c, s, row, then) ==
    /\ obj' = [obj EXCEPT ![c] = [id |-> s, row |-> row, then |-> then]]
    /\ Goto(c, "writePG")
    /\ UNCHANGED <<pg, redis, keys, late, notified, kobj, written>>

Joined(row, n) == \E i \in 1..Len(row.nodes) : row.nodes[i] = n

\* Fault: the status check is missing.
JoinAnyStatus(c, s, n) ==
    /\ pc[c] = "idle"
    /\ \E row \in GetSession(s) :
        /\ ~ Joined(row, n)
        /\ Update(c, s, [row EXCEPT !.nodes = Append(@, n), !.status = "active"], "done")

\* Fault: the already-joined check is missing.
JoinAgain(c, s, n) ==
    /\ pc[c] = "idle"
    /\ \E row \in GetSession(s) :
        /\ row.status \in {"pending", "active"}
        /\ Update(c, s, [row EXCEPT !.nodes = Append(@, n), !.status = "active"], "done")

JoinSession(c, s, n) ==
    /\ pc[c] = "idle"
    /\ \E row \in GetSession(s) :
        /\ row.status \in {"pending", "active"}
        /\ ~ Joined(row, n)
        /\ Update(c, s, [row EXCEPT !.nodes = Append(@, n), !.status = "active"], "done")

CompleteSession(c, s, sig) ==
    /\ pc[c] = "idle"
    /\ \E row \in GetSession(s) :
        Update(c, s, [row EXCEPT !.status = "completed", !.sig = sig], "done")

\* Called by a participant whose DKG has finished.
CompleteKeygenSession(c, k, pub) ==
    /\ pc[c] = "idle"
    /\ k \in notified
    /\ \E row \in GetSession(k) :
        /\ row.status \in {"pending", "active"}
        /\ Update(c, k, [row EXCEPT !.status = "completed", !.sig = pub], "readKey")

CancelSession(c, s) ==
    /\ pc[c] = "idle"
    /\ \E row \in GetSession(s) :
        Update(c, s, [row EXCEPT !.status = "cancelled"], "done")

CheckTimeout(c, s) ==
    /\ pc[c] = "idle"
    /\ late[s]
    /\ \E row \in GetSession(s) :
        Update(c, s, [row EXCEPT !.status = "timeout"], "done")

\* The StartSign goroutine marks the session of a failed protocol run.
FailSession(c, s) ==
    /\ pc[c] = "idle"
    /\ \E row \in GetSession(s) :
        Update(c, s, [row EXCEPT !.status = "failed"], "done")

-----------------------------------------------------------------------------
(* ThresholdSign of the signing service, holding its own Session object    *)

\* It writes the nodes it chose into the object CreateSession returned, and is
\* done afterwards when the message to sign turns out not to decode.
SelectNodes(c, ns, then) ==
    /\ pc[c] = "selectNodes"
    /\ Update(c, obj[c].id, [obj[c].row EXCEPT !.nodes = ns], then)

\* StartSign was refused, or five minutes of polling passed: the object goes
\* back as failed, without reading what others wrote in the meantime.
SigningGivesUp(c) ==
    /\ pc[c] = "polling"
    /\ Update(c, obj[c].id, [obj[c].row EXCEPT !.status = "failed"], "done")

\* Fewer nodes than the threshold, the session could not be read, or polling
\* saw its end.
SigningReturns(c) ==
    /\ \/ pc[c] = "selectNodes"
       \/ pc[c] = "polling" /\ PgFaults
       \/ /\ pc[c] = "polling"
          /\ \E row \in GetSession(obj[c].id) : row.status \in {"completed", "failed"}
    /\ Goto(c, "done")
    /\ UNCHANGED <<pg, redis, keys, late, notified, obj, kobj, written>>

-----------------------------------------------------------------------------
(* UpdateSession: PostgreSQL, then Redis while the session's TTL lasts     *)

\* Fault: an error of PostgreSQL is only logged.
UpdatePGIgnoringError(c) ==
    /\ pc[c] = "writePG"
    /\ \/ StorePG(obj[c].id, obj[c].row)
       \/ PgFaults /\ UNCHANGED <<pg, written>>
    /\ Goto(c, "writeRedis")
    /\ UNCHANGED <<redis, keys, late, notified, obj, kobj>>

UpdatePG(c) ==
    /\ pc[c] = "writePG"
    /\ StorePG(obj[c].id, obj[c].row)
    /\ Goto(c, "writeRedis")
    /\ UNCHANGED <<redis, keys, late, notified, obj, kobj>>

UpdateRedis(c) ==
    /\ pc[c] = "writeRedis"
    /\ redis' = IF late[obj[c].id] THEN redis
                ELSE [redis EXCEPT ![obj[c].id] = obj[c].row]
    /\ Goto(c, obj[c].then)
    /\ UNCHANGED <<pg, keys, late, notified, obj, kobj, written>>

\* An error of the cache is an error of the whole operation, also of
\* CompleteKeygenSession, which then never reaches the key.
UpdateRedisFails(c) ==
    /\ RedisFaults
    /\ pc[c] = "writeRedis"
    /\ ~ late[obj[c].id]
    /\ Goto(c, "done")
    /\ UNCHANGED <<pg, redis, keys, late, notified, obj, kobj, written>>

-----------------------------------------------------------------------------
(* Read-modify-write of key rows                                           *)

\* Second half of CompleteKeygenSession: whatever status the key has is
\* replaced by Active.
ReadKeyToActivate(c) ==
    /\ pc[c] = "readKey"
    /\ keys[obj[c].id] # NoKey
    /\ kobj' = [kobj EXCEPT ![c] = [keys[obj[c].id] EXCEPT !.status = "Active",
                                                           !.pub = obj[c].row.sig]]
    /\ Goto(c, "writeKey")
    /\ UNCHANGED <<pg, redis, keys, late, notified, obj, written>>

\* DeleteKey of the HTTP handler, or the create-key handler's cleanup.
DeleteKey(c, k) ==
    /\ pc[c] = "idle" \/ (pc[c] = "cleanup" /\ obj[c].id = k)
    /\ keys[k] # NoKey
    /\ obj'  = [obj EXCEPT ![c].id = k]
    /\ kobj' = [kobj EXCEPT ![c] = [keys[k] EXCEPT !.status = "Deleted", !.del = TRUE]]
    /\ Goto(c, "writeKey")
    /\ UNCHANGED <<pg, redis, keys, late, notified, written>>

\* Fault: the placeholder public key is taken for a real one.
GenerateAddressOfPlaceholder(c, k) ==
    /\ pc[c] = "idle"
    /\ keys[k] # NoKey
    /\ obj'  = [obj EXCEPT ![c].id = k]
    /\ kobj' = [kobj EXCEPT ![c] = keys[k]]
    /\ Goto(c, "writeKey")
    /\ UNCHANGED <<pg, redis, keys, late, notified, written>>

\* GenerateAddress decodes the public key (the placeholder does not decode),
\* derives an address and writes the row it read back with the address in it.
GenerateAddress(c, k) ==
    /\ pc[c] = "idle"
    /\ keys[k] # NoKey
    /\ keys[k].pub # "pending"
    /\ obj'  = [obj EXCEPT ![c].id = k]
    /\ kobj' = [kobj EXCEPT ![c] = keys[k]]
    /\ Goto(c, "writeKey")
    /\ UNCHANGED <<pg, redis, keys, late, notified, written>>

UpdateKeyMetadata(c) ==
    /\ pc[c] = "writeKey"
    /\ keys' = [keys EXCEPT ![obj[c].id] = kobj[c]]
    /\ Goto(c, "done")
    /\ UNCHANGED <<pg, redis, late, notified, obj, kobj, written>>

\* A PostgreSQL statement fails, or the process running the call stops.
StoreFails(c) ==
    /\ PgFaults
    /\ pc[c] \in {"writePG", "readKey", "writeKey", "cleanup"}
    /\ Goto(c, "done")
    /\ UNCHANGED <<pg, redis, keys, late, notified, obj, kobj, written>>

-----------------------------------------------------------------------------
(* Time and the cache                                                      *)

FiveMinutesPass(s) ==
    /\ ~ late[s]
    /\ pg[s] # NoRow
    /\ late' = [late EXCEPT ![s] = TRUE]
    /\ UNCHANGED <<pg, redis, keys, notified, pc, obj, kobj, written>>

DropCached(s) ==
    /\ redis[s] # NoRow
    /\ redis' = [redis EXCEPT ![s] = NoRow]
    /\ UNCHANGED <<pg, keys, late, notified, pc, obj, kobj, written>>

\* Fault: entries are stored without a TTL.
RedisKeeps(s) == late[s] /\ redis[s] # NoRow /\ UNCHANGED vars

\* Every entry carries a TTL.
RedisExpire(s) == late[s] /\ DropCached(s)

\* Redis may also lose an entry early: eviction, restart.
RedisEvict(s) == ~ late[s] /\ DropCached(s)

-----------------------------------------------------------------------------
CallStep(c) ==
    \/ \E k \in Keys : CreatePlaceholderKey(c, k)
    \/ \E s \in SignSessions, then \in {"done", "selectNodes"} : CreateSession(c, s, then)
    \/ \E s \in Sessions, n \in Nodes : JoinSession(c, s, n)
    \/ \E s \in SignSessions, sig \in Signatures : CompleteSession(c, s, sig)
    \/ \E k \in Keys, pub \in PublicKeys : CompleteKeygenSession(c, k, pub)
    \/ \E s \in Sessions : CancelSession(c, s)
    \/ \E s \in Sessions : CheckTimeout(c, s)
    \/ \E s \in SignSessions : FailSession(c, s)
    \/ \E k \in Keys : DeleteKey(c, k)
    \/ \E k \in Keys : GenerateAddress(c, k)

\* The steps of a call that has begun; code that runs takes its next step.
Continue(c) ==
    \/ \E ns \in NodeLists : CreateKeyGenSession(c, ns)
    \/ \E ns \in NodeLists : CreateKeyGenSessionFails(c, ns)
    \/ CacheNewSession(c)
    \/ \E ns \in NodeLists, then \in {"polling", "done"} : SelectNodes(c, ns, then)
    \/ SigningGivesUp(c)
    \/ SigningReturns(c)
    \/ UpdatePG(c)
    \/ UpdateRedis(c)
    \/ UpdateRedisFails(c)
    \/ ReadKeyToActivate(c)
    \/ UpdateKeyMetadata(c)
    \/ StoreFails(c)

Next ==
    \/ \E c \in Clients : CallStep(c) \/ Continue(c)
    \/ \E s \in Sessions : FiveMinutesPass(s) \/ RedisExpire(s) \/ RedisEvict(s)

Spec == Init /\ [][Next]_vars

\* The clock advances, Redis expires what is due, and calls run to their end.
Fairness ==
    /\ \A s \in Sessions : WF_vars(FiveMinutesPass(s)) /\ WF_vars(RedisExpire(s))
    /\ \A c \in Clients : WF_vars(Continue(c))

FairSpec == Spec /\ Fairness

-----------------------------------------------------------------------------
(* Properties                                                              *)

TypeOK ==
    /\ pg \in [Sessions -> Row \cup {NoRow}]
    /\ redis \in [Sessions -> Row \cup {NoRow}]
    /\ keys \in [Keys -> KeyRow \cup {NoKey}]
    /\ late \in [Sessions -> BOOLEAN]
    /\ notified \subseteq Keys
    /\ pc \in [Clients -> Steps]
    /\ obj \in [Clients -> [id : Sessions \cup {""}, row : Row \cup {NoRow},
                            then : {"done", "selectNodes", "polling", "readKey"}]]
    /\ kobj \in [Clients -> KeyRow \cup {NoKey}]
    /\ written \in [Sessions -> SUBSET Row]

\* What a reader finds in the cache was stored in PostgreSQL before: the cache
\* may be stale, it is never ahead of the database, whatever calls overlap,
\* fail half-way or find the TTL gone (UpdateSession's order of writes).
CacheFollowsDatabase ==
    \A s \in Sessions : redis[s] \in written[s] \cup {NoRow}

\* A stored session is completed only with a result, and a result is never
\* attached to a session that still runs: no interleaving of whole-row
\* overwrites tears status and signature apart (CompleteSession and
\* CompleteKeygenSession against Join, Cancel, CheckTimeout and the failures).
ResultOnlyWhenFinished ==
    \A s \in Sessions : \A row \in {pg[s], redis[s]} :
        /\ row.status = "completed" => row.sig # ""
        /\ row.sig # "" => row.status \notin {"pending", "active"}

\* No stored participant list names a node twice (JoinSession's check is on
\* the row it read, its write may land any time later).
NoDuplicateParticipants ==
    \A s \in Sessions : \A row \in {pg[s], redis[s]} :
        \A i, j \in 1..Len(row.nodes) : row.nodes[i] = row.nodes[j] => i = j

\* A key row carries a public key, and is Active, only after a DKG session row
\* that was completed with this very public key reached PostgreSQL
\* (CompleteKeygenSession writes the session before the key; deletion and
\* address generation write back rows they read).
PublicKeyWasReported ==
    \A k \in Keys :
        /\ keys[k].status = "Active" => keys[k].pub # "pending"
        /\ keys[k].pub # "pending" =>
              \E row \in written[k] : row.status = "completed" /\ row.sig = keys[k].pub

\* A key that left Pending never returns to it: the one operation that writes
\* a status back unchanged, GenerateAddress, stops at the placeholder's public
\* key before it can hold a Pending row.
KeyLeavesPendingForGood ==
    [][\A k \in Keys :
          keys[k].status \in {"Active", "Deleted"} => keys'[k].status \in {"Active", "Deleted"}]_vars

\* Once the calls in flight have ended, what the cache holds is what the
\* database holds: TTLs end every disagreement that racing UpdateSession calls
\* leave behind.
CacheConverges ==
    <>[](\A s \in Sessions : redis[s] \in {pg[s], NoRow})

\* docs/mpc-detailed-design.md:799 draws Deleted as final (Deleted --> [*]).
DeletedKeyStaysDeleted ==
    [][\A k \in Keys : keys[k].status = "Deleted" => keys'[k].status = "Deleted"]_vars

\* docs/mpc-detailed-design.md:1275: CompleteKeygenSession completes the DKG
\* session and sets the key Active.  With no call in flight, no completed DKG
\* session may be left with its key still Pending.
CompletedKeygenActivatesKey ==
    (\A c \in Clients : pc[c] \in {"idle", "done"}) =>
        \A k \in Keys : pg[k].status = "completed" => keys[k].status # "Pending"
=============================================================================
