----------------------- MODULE SessionManagerProofs -----------------------
(***************************************************************************)
(* Proofs that SessionManager keeps its safety properties for every set of *)
(* keys, sessions, calls, nodes and results, with and without faults.      *)
(*                                                                         *)
(* None of the properties is inductive: what a store will hold is decided  *)
(* when a call prepares its row, several steps before it writes it.  The   *)
(* strengthening says of every call what the object it carries is good     *)
(* for at the point it has reached.                                        *)
(***************************************************************************)
EXTENDS SessionManager, TLAPS

\* What ResultOnlyWhenFinished and NoDuplicateParticipants ask of one row.
Finished(row) ==
    /\ row.status = "completed" => row.sig # ""
    /\ row.sig # "" => row.status \notin {"pending", "active"}

Distinct(row) ==
    \A i, j \in 1..Len(row.nodes) : row.nodes[i] = row.nodes[j] => i = j

Sound(row) == row \in Row /\ Finished(row) /\ Distinct(row)

\* One of the rows is a completed session that reported pub.
Reported(rows, pub) ==
    \E row \in rows : row.status = "completed" /\ row.sig = pub

\* What is known of a row of keys, stored or about to be, when the database has
\* seen these rows of the key's DKG session.
KeyBacked(rows, key) ==
    /\ key.status = "Active" => key.pub # "pending"
    /\ key.pub # "pending" => Reported(rows, key.pub)
    /\ key.pub # "pending" => key.status \in {"Active", "Deleted"}

Stored ==
    /\ \A s \in Sessions : pg[s] \in written[s] \cup {NoRow}
    /\ \A s \in Sessions : redis[s] \in written[s] \cup {NoRow}
    /\ \A s \in Sessions : \A row \in written[s] : Sound(row)

KeysBacked == \A k \in Keys : KeyBacked(written[k], keys[k])

\* What call c may rely on when it takes its next step.
ObjectReady(c) ==
    /\ pc[c] \in {"createSession", "cleanup", "writeKey", "readKey"} => obj[c].id \in Keys
    /\ pc[c] \in {"cacheNew", "writePG", "writeRedis", "selectNodes", "polling", "readKey"} =>
          obj[c].id \in Sessions /\ Sound(obj[c].row)
    /\ pc[c] \in {"cacheNew", "writeRedis", "readKey"} => obj[c].row \in written[obj[c].id]
    /\ pc[c] = "cacheNew" => obj[c].then # "readKey"
    /\ (pc[c] = "readKey" \/ (pc[c] \in {"writePG", "writeRedis"} /\ obj[c].then = "readKey")) =>
          obj[c].id \in Keys /\ obj[c].row.status = "completed" /\ obj[c].row.sig \in PublicKeys
    /\ pc[c] = "writeKey" =>
          /\ kobj[c].status \in {"Active", "Deleted"}
          /\ KeyBacked(written[obj[c].id], kobj[c])

CallsReady == \A c \in Clients : ObjectReady(c)

IInv == TypeOK /\ Stored /\ KeysBacked /\ CallsReady

-----------------------------------------------------------------------------
(* Rows                                                                    *)

\* A row that a create operation stores is sound, whatever nodes discovery found.
LEMMA NewRowSound ==
    ASSUME NEW ns, ns = << >> \/ ns \in NodeLists
    PROVE  Sound(NewRow(ns))
<1>1. ns \in Seq(Nodes) /\ \A i, j \in 1..Len(ns) : ns[i] = ns[j] => i = j
  <2>1. CASE ns = << >>
    <3>1. << >> \in Seq(Nodes) /\ Len(<< >>) = 0
      OBVIOUS
    <3> QED
      BY <2>1, <3>1
  <2>2. CASE ns \in NodeLists
    BY <2>2, ConstantsAssumption
  <2> QED
    BY <2>1, <2>2
<1> QED
  BY <1>1 DEF Sound, Row, Status, Finished, Distinct, NewRow, Results

\* Whatever GetSession answers is a sound row.
LEMMA ReadsSound ==
    ASSUME Stored, NEW s \in Sessions, NEW row \in GetSession(s)
    PROVE  Sound(row)
BY DEF Stored, GetSession

\* JoinSession prepares a sound row.
LEMMA JoinedSound ==
    ASSUME NEW row, Sound(row), NEW n \in Nodes, ~ Joined(row, n),
           row.status \in {"pending", "active"}
    PROVE  Sound([row EXCEPT !.nodes = Append(@, n), !.status = "active"])
<1> DEFINE new == [row EXCEPT !.nodes = Append(@, n), !.status = "active"]
<1>1. row \in Row /\ row.nodes \in Seq(Nodes)
  BY DEF Sound, Row
<1>a. Append(row.nodes, n) \in Seq(Nodes)
  BY <1>1
<1>2. new \in Row /\ new.nodes = Append(row.nodes, n) /\ new.status = "active" /\ new.sig = row.sig
  BY <1>1, <1>a DEF Row, Status
<1> HIDE DEF new
<1>3. Finished(new)
  BY <1>2 DEF Sound, Finished
<1>4. Distinct(new)
  <2> SUFFICES ASSUME NEW i \in 1..Len(new.nodes), NEW j \in 1..Len(new.nodes),
                      new.nodes[i] = new.nodes[j]
               PROVE  i = j
    BY DEF Distinct
  <2>1. /\ Len(new.nodes) = Len(row.nodes) + 1 /\ Len(row.nodes) \in Nat
        /\ new.nodes[Len(row.nodes) + 1] = n
        /\ \A m \in 1..Len(row.nodes) : new.nodes[m] = row.nodes[m]
    <3> DEFINE old == row.nodes
    <3>1. new.nodes = Append(old, n) /\ old \in Seq(Nodes)
      BY <1>1, <1>2
    <3> HIDE DEF old
    <3>2. /\ Len(Append(old, n)) = Len(old) + 1 /\ Len(old) \in Nat
          /\ Append(old, n)[Len(old) + 1] = n
          /\ \A m \in 1..Len(old) : Append(old, n)[m] = old[m]
      BY <3>1
    <3> QED
      BY <3>1, <3>2 DEF old
  <2>2. \A m \in 1..Len(row.nodes) : row.nodes[m] # n
    BY DEF Joined
  <2>3. \A a, b \in 1..Len(row.nodes) : row.nodes[a] = row.nodes[b] => a = b
    BY DEF Sound, Distinct
  <2>4. \A k \in 1..Len(new.nodes) : k \in 1..Len(row.nodes) \/ k = Len(row.nodes) + 1
    BY <2>1
  <2>5. CASE i \in 1..Len(row.nodes) /\ j \in 1..Len(row.nodes)
    BY <2>1, <2>3, <2>5
  <2>6. CASE i \in 1..Len(row.nodes) /\ j = Len(row.nodes) + 1
    BY <2>1, <2>2, <2>6
  <2>7. CASE i = Len(row.nodes) + 1 /\ j \in 1..Len(row.nodes)
    BY <2>1, <2>2, <2>7
  <2> QED
    BY <2>4, <2>5, <2>6, <2>7
<1> QED
  BY <1>2, <1>3, <1>4 DEF Sound, new

\* So do the operations that end a session without a result.
LEMMA EndedSound ==
    ASSUME NEW row, Sound(row), NEW status \in {"cancelled", "timeout", "failed"}
    PROVE  Sound([row EXCEPT !.status = status])
BY DEF Sound, Row, Status, Finished, Distinct

\* And the two that complete one.
LEMMA CompletedSound ==
    ASSUME NEW row, Sound(row), NEW result \in Results
    PROVE  Sound([row EXCEPT !.status = "completed", !.sig = result])
BY ConstantsAssumption DEF Sound, Row, Status, Finished, Distinct, Results

\* ThresholdSign replaces the participants of the row it holds.
LEMMA SelectedSound ==
    ASSUME NEW row, Sound(row), NEW ns \in NodeLists
    PROVE  Sound([row EXCEPT !.nodes = ns])
<1>1. ns \in Seq(Nodes) /\ \A i, j \in 1..Len(ns) : ns[i] = ns[j] => i = j
  BY ConstantsAssumption
<1> QED
  BY <1>1 DEF Sound, Row, Status, Finished, Distinct

-----------------------------------------------------------------------------
(* Steps                                                                   *)

\* The invariant holds before the first call.
LEMMA InitIInv == Init => IInv
<1> SUFFICES ASSUME Init PROVE IInv
  OBVIOUS
<1>1. TypeOK
  BY DEF Init, TypeOK, Steps, NoRow, NoKey
<1>2. Stored
  BY DEF Init, Stored
<1>3. KeysBacked
  BY DEF Init, KeysBacked, KeyBacked, NoKey
<1>4. CallsReady
  BY DEF Init, CallsReady, ObjectReady
<1> QED
  BY <1>1, <1>2, <1>3, <1>4 DEF IInv

\* A key stays backed while PostgreSQL sees more rows.
LEMMA MoreRows ==
    ASSUME NEW rows, NEW more, rows \subseteq more, NEW key, KeyBacked(rows, key)
    PROVE  KeyBacked(more, key)
BY DEF KeyBacked, Reported

\* A step of call c disturbs no other call, as rows seen are never forgotten.
LEMMA OtherCalls ==
    ASSUME IInv, NEW c \in Clients, ObjectReady(c)',
           \A d \in Clients \ {c} :
               pc'[d] = pc[d] /\ obj'[d] = obj[d] /\ kobj'[d] = kobj[d],
           \A s \in Sessions : written[s] \subseteq written'[s]
    PROVE  CallsReady'
<1> SUFFICES ASSUME NEW d \in Clients, d # c
             PROVE  ObjectReady(d)'
  BY DEF CallsReady
<1>1. ObjectReady(d) /\ obj[d].id \in Sessions \cup {""}
  BY DEF IInv, CallsReady, TypeOK
<1>2. pc'[d] = pc[d] /\ obj'[d] = obj[d] /\ kobj'[d] = kobj[d]
  OBVIOUS
<1>3. pc[d] \in {"cacheNew", "writeRedis", "readKey"} => obj[d].row \in written'[obj[d].id]
  BY <1>1 DEF ObjectReady
<1>4. pc[d] = "writeKey" => KeyBacked(written'[obj[d].id], kobj[d])
  <2> SUFFICES ASSUME pc[d] = "writeKey" PROVE KeyBacked(written'[obj[d].id], kobj[d])
    OBVIOUS
  <2>1. obj[d].id \in Sessions /\ KeyBacked(written[obj[d].id], kobj[d])
    BY <1>1 DEF ObjectReady, Sessions
  <2>2. written[obj[d].id] \subseteq written'[obj[d].id]
    BY <2>1
  <2> QED
    BY <2>1, <2>2, MoreRows
<1> QED
  BY <1>1, <1>2, <1>3, <1>4 DEF ObjectReady

\* Every operation that prepares a sound row for UpdateSession keeps the
\* invariant; one that goes on to the key must have completed its DKG session.
LEMMA UpdateKeeps ==
    ASSUME IInv, NEW c \in Clients, NEW s \in Sessions, NEW row, Sound(row),
           NEW then \in {"done", "polling", "readKey"},
           then = "readKey" =>
               s \in Keys /\ row.status = "completed" /\ row.sig \in PublicKeys,
           Update(c, s, row, then)
    PROVE  IInv'
<1> DEFINE o == [id |-> s, row |-> row, then |-> then]
<1>1. pc' = [pc EXCEPT ![c] = "writePG"] /\ obj' = [obj EXCEPT ![c] = o]
  BY DEF Update, Goto
<1>2. UNCHANGED <<pg, redis, keys, late, notified, kobj, written>>
  BY DEF Update
<1>3. o \in [id : Sessions \cup {""}, row : Row \cup {NoRow},
             then : {"done", "selectNodes", "polling", "readKey"}]
  BY DEF Sound
<1>4. pc'[c] = "writePG" /\ obj'[c] = o
  BY <1>1 DEF IInv, TypeOK
<1>5. TypeOK'
  <2> HIDE DEF o
  <2>1. pc' \in [Clients -> Steps]
    BY <1>1 DEF IInv, TypeOK, Steps
  <2>2. obj' \in [Clients -> [id : Sessions \cup {""}, row : Row \cup {NoRow},
                              then : {"done", "selectNodes", "polling", "readKey"}]]
    BY <1>1, <1>3 DEF IInv, TypeOK
  <2> QED
    BY <1>2, <2>1, <2>2 DEF IInv, TypeOK
<1>6. Stored' /\ KeysBacked'
  BY <1>2 DEF IInv, Stored, KeysBacked
<1>7. ObjectReady(c)'
  BY <1>4 DEF ObjectReady
<1>8. CallsReady'
  BY <1>1, <1>2, <1>7, OtherCalls DEF IInv, TypeOK
<1> QED
  BY <1>5, <1>6, <1>8 DEF IInv

\* A row stored in PostgreSQL must be sound; it is then among the rows seen.
LEMMA StorePGKeeps ==
    ASSUME IInv, NEW s \in Sessions, NEW row, Sound(row), StorePG(s, row),
           UNCHANGED <<redis, keys>>
    PROVE  /\ pg' \in [Sessions -> Row \cup {NoRow}]
           /\ written' \in [Sessions -> SUBSET Row]
           /\ row \in written'[s]
           /\ \A t \in Sessions : written[t] \subseteq written'[t]
           /\ Stored'
           /\ KeysBacked'
<1>1. pg' = [pg EXCEPT ![s] = row] /\ written' = [written EXCEPT ![s] = @ \cup {row}]
  BY DEF StorePG
<1>2. row \in Row
  BY DEF Sound
<1>3. pg' \in [Sessions -> Row \cup {NoRow}] /\ written' \in [Sessions -> SUBSET Row]
  BY <1>1, <1>2 DEF IInv, TypeOK
<1>4. row \in written'[s] /\ \A t \in Sessions : written[t] \subseteq written'[t]
  BY <1>1 DEF IInv, TypeOK
<1>5. \A t \in Sessions : pg'[t] \in written'[t] \cup {NoRow}
  BY <1>1, <1>4 DEF IInv, TypeOK, Stored
<1>6. \A t \in Sessions : redis'[t] \in written'[t] \cup {NoRow}
  BY <1>4 DEF IInv, Stored
<1>7. \A t \in Sessions : \A r \in written'[t] : Sound(r)
  BY <1>1 DEF IInv, TypeOK, Stored
<1>8. KeysBacked'
  BY <1>4, MoreRows DEF IInv, KeysBacked, Sessions
<1> QED
  BY <1>3, <1>4, <1>5, <1>6, <1>7, <1>8 DEF Stored

\* Replacing what is cached for a session by a row the database has seen, or by
\* nothing, keeps the stores in order.
LEMMA CacheKeeps ==
    ASSUME IInv, NEW s \in Sessions, NEW row \in written[s] \cup {NoRow},
           redis' = [redis EXCEPT ![s] = row], UNCHANGED <<pg, keys, written>>
    PROVE  /\ redis' \in [Sessions -> Row \cup {NoRow}]
           /\ Stored'
           /\ KeysBacked'
<1>1. row \in Row \cup {NoRow}
  BY DEF IInv, TypeOK
<1>2. redis' \in [Sessions -> Row \cup {NoRow}]
  BY <1>1 DEF IInv, TypeOK
<1>3. Stored'
  BY DEF IInv, TypeOK, Stored
<1>4. KeysBacked'
  BY DEF IInv, KeysBacked
<1> QED
  BY <1>2, <1>3, <1>4

-----------------------------------------------------------------------------
(* Every step keeps the invariant                                          *)

\* The placeholder key carries no public key, so nothing has to back it.
LEMMA CreatePlaceholderKeyKeeps ==
    ASSUME IInv, NEW c \in Clients, NEW k \in Keys, CreatePlaceholderKey(c, k)
    PROVE  IInv'
<1> DEFINE key == [status |-> "Pending", pub |-> "pending", del |-> FALSE]
           o   == [id |-> k, row |-> NoRow, then |-> "done"]
<1>1. /\ keys' = [keys EXCEPT ![k] = key]
      /\ obj' = [obj EXCEPT ![c] = o]
      /\ \E step \in {"createSession", "done"} : pc' = [pc EXCEPT ![c] = step]
      /\ UNCHANGED <<pg, redis, late, notified, kobj, written>>
  BY DEF CreatePlaceholderKey, Goto
<1>2. key \in KeyRow /\ \A rows : KeyBacked(rows, key)
  BY DEF KeyRow, KeyBacked
<1>3. o \in [id : Sessions \cup {""}, row : Row \cup {NoRow},
             then : {"done", "selectNodes", "polling", "readKey"}]
  BY DEF Sessions
<1>4. pc'[c] \in {"createSession", "done"} /\ obj'[c] = o
  BY <1>1 DEF IInv, TypeOK
<1>5. ObjectReady(c)'
  BY <1>4 DEF ObjectReady
<1> HIDE DEF key, o
<1>6. TypeOK'
  <2>1. pc' \in [Clients -> Steps]
    BY <1>1 DEF IInv, TypeOK, Steps
  <2>2. keys' \in [Keys -> KeyRow \cup {NoKey}]
    BY <1>1, <1>2 DEF IInv, TypeOK
  <2>3. obj' \in [Clients -> [id : Sessions \cup {""}, row : Row \cup {NoRow},
                              then : {"done", "selectNodes", "polling", "readKey"}]]
    BY <1>1, <1>3 DEF IInv, TypeOK
  <2> QED
    BY <1>1, <2>1, <2>2, <2>3 DEF IInv, TypeOK
<1>7. Stored' /\ KeysBacked'
  BY <1>1, <1>2 DEF IInv, TypeOK, Stored, KeysBacked
<1>8. CallsReady'
  BY <1>1, <1>5, OtherCalls DEF IInv, TypeOK
<1> QED
  BY <1>6, <1>7, <1>8 DEF IInv

\* CreateSession and CreateKeyGenSession: the new row goes to PostgreSQL and
\* stays with the call that will cache it.
LEMMA NewSessionKeeps ==
    ASSUME IInv, NEW c \in Clients, NEW s \in Sessions,
           NEW ns, ns = << >> \/ ns \in NodeLists,
           NEW then \in {"done", "selectNodes"},
           StorePG(s, NewRow(ns)),
           obj' = [obj EXCEPT ![c] = [id |-> s, row |-> NewRow(ns), then |-> then]],
           Goto(c, "cacheNew"),
           UNCHANGED <<redis, keys, late, notified, kobj>>
    PROVE  IInv'
<1> DEFINE o == [id |-> s, row |-> NewRow(ns), then |-> then]
<1>1. Sound(NewRow(ns)) /\ NewRow(ns) \in Row
  BY NewRowSound DEF Sound
<1>2. /\ pg' \in [Sessions -> Row \cup {NoRow}]
      /\ written' \in [Sessions -> SUBSET Row]
      /\ NewRow(ns) \in written'[s]
      /\ \A t \in Sessions : written[t] \subseteq written'[t]
      /\ Stored'
      /\ KeysBacked'
  BY <1>1, StorePGKeeps
<1>3. pc' = [pc EXCEPT ![c] = "cacheNew"]
  BY DEF Goto
<1>4. pc'[c] = "cacheNew" /\ obj'[c] = o
  BY <1>3 DEF IInv, TypeOK
<1>5. ObjectReady(c)'
  BY <1>1, <1>2, <1>4 DEF ObjectReady
<1>6. TypeOK'
  <2>1. pc' \in [Clients -> Steps]
    BY <1>3 DEF IInv, TypeOK, Steps
  <2>2. o \in [id : Sessions \cup {""}, row : Row \cup {NoRow},
               then : {"done", "selectNodes", "polling", "readKey"}]
    BY <1>1
  <2> HIDE DEF o
  <2>3. obj' \in [Clients -> [id : Sessions \cup {""}, row : Row \cup {NoRow},
                              then : {"done", "selectNodes", "polling", "readKey"}]]
    BY <2>2 DEF IInv, TypeOK, o
  <2> QED
    BY <1>2, <2>1, <2>3 DEF IInv, TypeOK
<1>7. CallsReady'
  BY <1>2, <1>3, <1>5, OtherCalls DEF IInv, TypeOK
<1> QED
  BY <1>2, <1>6, <1>7 DEF IInv

\* A new DKG session, with the participants discovery returned.
LEMMA CreateKeyGenSessionKeeps ==
    ASSUME IInv, NEW c \in Clients, NEW ns \in NodeLists, CreateKeyGenSession(c, ns)
    PROVE  IInv'
<1>1. obj[c].id \in Sessions
  BY DEF IInv, CallsReady, ObjectReady, CreateKeyGenSession, Sessions
<1> QED
  BY <1>1, NewSessionKeeps DEF CreateKeyGenSession

\* A new signing session, without participants.
LEMMA CreateSessionKeeps ==
    ASSUME IInv, NEW c \in Clients, NEW s \in SignSessions,
           NEW then \in {"done", "selectNodes"}, CreateSession(c, s, then)
    PROVE  IInv'
<1>1. s \in Sessions
  BY DEF Sessions
<1> QED
  BY <1>1, NewSessionKeeps DEF CreateSession

\* The row of a session that could not be created may be in PostgreSQL all the
\* same; the call goes on to delete the placeholder key.
LEMMA CreateKeyGenSessionFailsKeeps ==
    ASSUME IInv, NEW c \in Clients, NEW ns \in NodeLists, CreateKeyGenSessionFails(c, ns)
    PROVE  IInv'
<1>1. obj[c].id \in Keys /\ obj[c].id \in Sessions
  BY DEF IInv, CallsReady, ObjectReady, CreateKeyGenSessionFails, Sessions
<1>2. /\ pg' \in [Sessions -> Row \cup {NoRow}]
      /\ written' \in [Sessions -> SUBSET Row]
      /\ \A t \in Sessions : written[t] \subseteq written'[t]
      /\ Stored'
      /\ KeysBacked'
  <2>1. CASE UNCHANGED <<pg, written>>
    BY <2>1 DEF IInv, TypeOK, Stored, KeysBacked, CreateKeyGenSessionFails
  <2>2. CASE StorePG(obj[c].id, NewRow(ns))
    BY <1>1, <2>2, NewRowSound, StorePGKeeps DEF CreateKeyGenSessionFails
  <2> QED
    BY <2>1, <2>2 DEF CreateKeyGenSessionFails
<1>3. /\ pc' = [pc EXCEPT ![c] = "cleanup"]
      /\ UNCHANGED <<redis, keys, late, notified, obj, kobj>>
  BY DEF CreateKeyGenSessionFails, Goto
<1>4. TypeOK'
  BY <1>2, <1>3 DEF IInv, TypeOK, Steps
<1>5. ObjectReady(c)'
  BY <1>1, <1>3 DEF IInv, TypeOK, ObjectReady
<1>6. CallsReady'
  BY <1>2, <1>3, <1>5, OtherCalls DEF IInv, TypeOK
<1> QED
  BY <1>2, <1>4, <1>6 DEF IInv

\* A call may end anywhere.
LEMMA EndingKeeps ==
    ASSUME IInv, NEW c \in Clients, Goto(c, "done"),
           UNCHANGED <<pg, redis, keys, late, notified, obj, kobj, written>>
    PROVE  IInv'
<1>1. pc' = [pc EXCEPT ![c] = "done"]
  BY DEF Goto
<1>2. TypeOK'
  BY <1>1 DEF IInv, TypeOK, Steps
<1>3. ObjectReady(c)'
  BY <1>1 DEF IInv, TypeOK, ObjectReady
<1>4. CallsReady'
  BY <1>1, <1>3, OtherCalls DEF IInv, TypeOK
<1>5. Stored' /\ KeysBacked'
  BY DEF IInv, Stored, KeysBacked
<1> QED
  BY <1>2, <1>4, <1>5 DEF IInv

\* What a create operation caches is the row it stored just before.
LEMMA CacheNewSessionKeeps ==
    ASSUME IInv, NEW c \in Clients, CacheNewSession(c)
    PROVE  IInv'
<1>1. /\ obj[c].id \in Sessions
      /\ Sound(obj[c].row)
      /\ obj[c].row \in written[obj[c].id]
      /\ obj[c].then \in {"done", "selectNodes", "polling"}
  BY DEF IInv, TypeOK, CallsReady, ObjectReady, CacheNewSession
<1>2. /\ redis' \in [Sessions -> Row \cup {NoRow}]
      /\ Stored'
      /\ KeysBacked'
  <2>1. CASE redis' = [redis EXCEPT ![obj[c].id] = obj[c].row]
    BY <1>1, <2>1, CacheKeeps DEF CacheNewSession
  <2>2. CASE UNCHANGED redis
    BY <2>2 DEF IInv, TypeOK, Stored, KeysBacked, CacheNewSession
  <2> QED
    BY <2>1, <2>2 DEF CacheNewSession
<1>3. PICK step \in {"done", "selectNodes", "polling"} : pc' = [pc EXCEPT ![c] = step]
  BY <1>1 DEF CacheNewSession, Goto
<1>4. UNCHANGED <<pg, keys, late, obj, kobj, written>> /\ notified' \subseteq Keys
  BY DEF IInv, TypeOK, CacheNewSession
<1>5. TypeOK'
  BY <1>2, <1>3, <1>4 DEF IInv, TypeOK, Steps
<1>6. ObjectReady(c)'
  BY <1>1, <1>3, <1>4 DEF IInv, TypeOK, ObjectReady
<1>7. CallsReady'
  BY <1>3, <1>4, <1>6, OtherCalls DEF IInv, TypeOK
<1> QED
  BY <1>2, <1>5, <1>7 DEF IInv

\* The first write of UpdateSession stores the row the call prepared.
LEMMA UpdatePGKeeps ==
    ASSUME IInv, NEW c \in Clients, UpdatePG(c)
    PROVE  IInv'
<1>1. ObjectReady(c) /\ obj[c].id \in Sessions /\ Sound(obj[c].row)
  BY DEF IInv, CallsReady, ObjectReady, UpdatePG
<1>2. /\ pg' \in [Sessions -> Row \cup {NoRow}]
      /\ written' \in [Sessions -> SUBSET Row]
      /\ obj[c].row \in written'[obj[c].id]
      /\ \A t \in Sessions : written[t] \subseteq written'[t]
      /\ Stored'
      /\ KeysBacked'
  BY <1>1, StorePGKeeps DEF UpdatePG
<1>3. /\ pc[c] = "writePG"
      /\ pc' = [pc EXCEPT ![c] = "writeRedis"]
      /\ UNCHANGED <<redis, keys, late, notified, obj, kobj>>
  BY DEF UpdatePG, Goto
<1>4. TypeOK'
  BY <1>2, <1>3 DEF IInv, TypeOK, Steps
<1>5. ObjectReady(c)'
  BY <1>1, <1>2, <1>3 DEF IInv, TypeOK, ObjectReady
<1>6. CallsReady'
  BY <1>2, <1>3, <1>5, OtherCalls DEF IInv, TypeOK
<1> QED
  BY <1>2, <1>4, <1>6 DEF IInv

\* The second write caches a row PostgreSQL has seen, or nothing.
LEMMA UpdateRedisKeeps ==
    ASSUME IInv, NEW c \in Clients, UpdateRedis(c)
    PROVE  IInv'
<1>1. /\ ObjectReady(c)
      /\ obj[c].id \in Sessions
      /\ obj[c].row \in written[obj[c].id]
      /\ obj[c].then \in {"done", "selectNodes", "polling", "readKey"}
  BY DEF IInv, TypeOK, CallsReady, ObjectReady, UpdateRedis
<1>2. /\ redis' \in [Sessions -> Row \cup {NoRow}]
      /\ Stored'
      /\ KeysBacked'
  <2>1. CASE redis' = [redis EXCEPT ![obj[c].id] = obj[c].row]
    BY <1>1, <2>1, CacheKeeps DEF UpdateRedis
  <2>2. CASE UNCHANGED redis
    BY <2>2 DEF IInv, TypeOK, Stored, KeysBacked, UpdateRedis
  <2> QED
    BY <2>1, <2>2 DEF UpdateRedis
<1>3. /\ pc[c] = "writeRedis"
      /\ pc' = [pc EXCEPT ![c] = obj[c].then]
      /\ UNCHANGED <<pg, keys, late, notified, obj, kobj, written>>
  BY DEF UpdateRedis, Goto
<1>4. TypeOK'
  <2>1. pc' \in [Clients -> Steps]
    BY <1>1, <1>3 DEF IInv, TypeOK, Steps
  <2> QED
    BY <1>2, <1>3, <2>1 DEF IInv, TypeOK
<1>5. ObjectReady(c)'
  BY <1>1, <1>3 DEF IInv, TypeOK, ObjectReady
<1>6. CallsReady'
  BY <1>3, <1>5, OtherCalls DEF IInv, TypeOK
<1> QED
  BY <1>2, <1>4, <1>6 DEF IInv

\* A call that has read a key row and prepared one that is backed.
LEMMA PreparedKeyKeeps ==
    ASSUME IInv, NEW c \in Clients, NEW k \in Keys, NEW key \in KeyRow,
           key.status \in {"Active", "Deleted"}, KeyBacked(written[k], key),
           obj' \in [Clients -> [id : Sessions \cup {""}, row : Row \cup {NoRow},
                                 then : {"done", "selectNodes", "polling", "readKey"}]],
           obj'[c].id = k, \A d \in Clients \ {c} : obj'[d] = obj[d],
           kobj' = [kobj EXCEPT ![c] = key], Goto(c, "writeKey"),
           UNCHANGED <<pg, redis, keys, late, notified, written>>
    PROVE  IInv'
<1>1. pc' = [pc EXCEPT ![c] = "writeKey"]
  BY DEF Goto
<1>2. TypeOK'
  BY <1>1 DEF IInv, TypeOK, Steps
<1>3. ObjectReady(c)'
  BY <1>1 DEF IInv, TypeOK, ObjectReady
<1>4. CallsReady'
  BY <1>1, <1>3, OtherCalls DEF IInv, TypeOK
<1>5. Stored' /\ KeysBacked'
  BY DEF IInv, Stored, KeysBacked
<1> QED
  BY <1>2, <1>4, <1>5 DEF IInv

\* DeleteKey and GenerateAddress remember which key they work on.
LEMMA ObjectOfKey ==
    ASSUME IInv, NEW c \in Clients, NEW k \in Keys, obj' = [obj EXCEPT ![c].id = k]
    PROVE  /\ obj' \in [Clients -> [id : Sessions \cup {""}, row : Row \cup {NoRow},
                                   then : {"done", "selectNodes", "polling", "readKey"}]]
           /\ obj'[c].id = k
           /\ \A d \in Clients \ {c} : obj'[d] = obj[d]
<1> DEFINE O == [id : Sessions \cup {""}, row : Row \cup {NoRow},
                then : {"done", "selectNodes", "polling", "readKey"}]
           o == [obj[c] EXCEPT !.id = k]
<1>1. obj \in [Clients -> O] /\ k \in Sessions
  BY DEF IInv, TypeOK, Sessions
<1>2. o \in O /\ o.id = k
  BY <1>1
<1>3. obj' = [obj EXCEPT ![c] = o]
  OBVIOUS
<1> HIDE DEF o, O
<1>4. obj' \in [Clients -> O] /\ obj'[c] = o /\ \A d \in Clients \ {c} : obj'[d] = obj[d]
  BY <1>1, <1>2, <1>3
<1> QED
  BY <1>2, <1>4 DEF O

\* CompleteKeygenSession activates a key whose completed session is stored.
LEMMA ReadKeyToActivateKeeps ==
    ASSUME IInv, NEW c \in Clients, ReadKeyToActivate(c)
    PROVE  IInv'
<1> DEFINE k   == obj[c].id
           key == [keys[k] EXCEPT !.status = "Active", !.pub = obj[c].row.sig]
<1>1. /\ k \in Keys
      /\ obj[c].row \in written[k]
      /\ obj[c].row.status = "completed"
      /\ obj[c].row.sig \in PublicKeys
  BY DEF IInv, CallsReady, ObjectReady, ReadKeyToActivate
<1>2. keys[k] \in KeyRow
  BY <1>1 DEF IInv, TypeOK, ReadKeyToActivate
<1>3. key \in KeyRow /\ key.status = "Active" /\ key.pub = obj[c].row.sig
  BY <1>1, <1>2 DEF KeyRow
<1>4. KeyBacked(written[k], key)
  BY <1>1, <1>3, ConstantsAssumption DEF KeyBacked, Reported
<1>5. /\ kobj' = [kobj EXCEPT ![c] = key]
      /\ Goto(c, "writeKey")
      /\ UNCHANGED <<pg, redis, keys, late, notified, obj, written>>
  BY DEF ReadKeyToActivate
<1> HIDE DEF key
<1> QED
  BY <1>1, <1>3, <1>4, <1>5, PreparedKeyKeeps DEF IInv, TypeOK

\* DeleteKey keeps the public key it read and never prepares a Pending row.
LEMMA DeleteKeyKeeps ==
    ASSUME IInv, NEW c \in Clients, NEW k \in Keys, DeleteKey(c, k)
    PROVE  IInv'
<1> DEFINE key == [keys[k] EXCEPT !.status = "Deleted", !.del = TRUE]
<1>1. keys[k] \in KeyRow /\ KeyBacked(written[k], keys[k])
  BY DEF IInv, TypeOK, KeysBacked, DeleteKey
<1>2. key \in KeyRow /\ key.status = "Deleted" /\ key.pub = keys[k].pub
  BY <1>1 DEF KeyRow
<1>3. KeyBacked(written[k], key)
  BY <1>1, <1>2 DEF KeyBacked
<1>4. /\ obj'  = [obj EXCEPT ![c].id = k]
      /\ kobj' = [kobj EXCEPT ![c] = key]
      /\ Goto(c, "writeKey")
      /\ UNCHANGED <<pg, redis, keys, late, notified, written>>
  BY DEF DeleteKey
<1> HIDE DEF key
<1> QED
  BY <1>2, <1>3, <1>4, ObjectOfKey, PreparedKeyKeeps

\* GenerateAddress prepares the row it read, which cannot be a Pending one.
LEMMA GenerateAddressKeeps ==
    ASSUME IInv, NEW c \in Clients, NEW k \in Keys, GenerateAddress(c, k)
    PROVE  IInv'
<1>1. keys[k] \in KeyRow /\ KeyBacked(written[k], keys[k]) /\ keys[k].pub # "pending"
  BY DEF IInv, TypeOK, KeysBacked, GenerateAddress
<1>2. keys[k].status \in {"Active", "Deleted"}
  BY <1>1 DEF KeyBacked
<1>3. /\ obj'  = [obj EXCEPT ![c].id = k]
      /\ kobj' = [kobj EXCEPT ![c] = keys[k]]
      /\ Goto(c, "writeKey")
      /\ UNCHANGED <<pg, redis, keys, late, notified, written>>
  BY DEF GenerateAddress
<1> QED
  BY <1>1, <1>2, <1>3, ObjectOfKey, PreparedKeyKeeps

\* The key row a call prepared is still backed when it is written at last.
LEMMA UpdateKeyMetadataKeeps ==
    ASSUME IInv, NEW c \in Clients, UpdateKeyMetadata(c)
    PROVE  IInv'
<1>1. obj[c].id \in Keys /\ KeyBacked(written[obj[c].id], kobj[c])
  BY DEF IInv, CallsReady, ObjectReady, UpdateKeyMetadata
<1>2. /\ keys' = [keys EXCEPT ![obj[c].id] = kobj[c]]
      /\ pc' = [pc EXCEPT ![c] = "done"]
      /\ UNCHANGED <<pg, redis, late, notified, obj, kobj, written>>
  BY DEF UpdateKeyMetadata, Goto
<1>3. TypeOK'
  BY <1>1, <1>2 DEF IInv, TypeOK, Steps
<1>4. KeysBacked'
  BY <1>1, <1>2 DEF IInv, TypeOK, KeysBacked
<1>5. Stored'
  BY <1>2 DEF IInv, Stored
<1>6. ObjectReady(c)'
  BY <1>2 DEF IInv, TypeOK, ObjectReady
<1>7. CallsReady'
  BY <1>2, <1>6, OtherCalls DEF IInv, TypeOK
<1> QED
  BY <1>3, <1>4, <1>5, <1>7 DEF IInv

\* Time passing and entries leaving the cache touch no call.
LEMMA ClockKeeps ==
    ASSUME IInv, NEW s \in Sessions, FiveMinutesPass(s) \/ DropCached(s)
    PROVE  IInv'
<1>1. UNCHANGED <<pg, keys, notified, pc, obj, kobj, written>>
  BY DEF FiveMinutesPass, DropCached
<1>2. CallsReady'
  BY <1>1 DEF IInv, CallsReady, ObjectReady
<1>3. CASE FiveMinutesPass(s)
  <2>1. TypeOK' /\ Stored' /\ KeysBacked'
    BY <1>1, <1>3 DEF IInv, TypeOK, Stored, KeysBacked, FiveMinutesPass
  <2> QED
    BY <1>2, <2>1 DEF IInv
<1>4. CASE DropCached(s)
  <2>1. redis' \in [Sessions -> Row \cup {NoRow}] /\ Stored' /\ KeysBacked'
    BY <1>1, <1>4, CacheKeeps DEF DropCached
  <2>2. TypeOK'
    BY <1>1, <1>4, <2>1 DEF IInv, TypeOK, DropCached
  <2> QED
    BY <1>2, <2>1, <2>2 DEF IInv
<1> QED
  BY <1>3, <1>4

-----------------------------------------------------------------------------
(* The theorems                                                            *)

\* Every step of the specification keeps the inductive invariant.
LEMMA NextKeeps == IInv /\ [Next]_vars => IInv'
<1> SUFFICES ASSUME IInv, [Next]_vars PROVE IInv'
  OBVIOUS
<1>1. CASE UNCHANGED vars
  BY <1>1 DEF vars, IInv, TypeOK, Stored, KeysBacked, CallsReady, ObjectReady
<1>2. ASSUME NEW c \in Clients, CallStep(c) PROVE IInv'
  <2>1. ASSUME NEW s \in Sessions, NEW n \in Nodes, JoinSession(c, s, n) PROVE IInv'
    <3>1. PICK row \in GetSession(s) :
             /\ row.status \in {"pending", "active"}
             /\ ~ Joined(row, n)
             /\ Update(c, s, [row EXCEPT !.nodes = Append(@, n), !.status = "active"], "done")
      BY <2>1 DEF JoinSession
    <3>2. Sound([row EXCEPT !.nodes = Append(@, n), !.status = "active"])
      BY <3>1, ReadsSound, JoinedSound DEF IInv
    <3> QED
      BY <3>1, <3>2, UpdateKeeps
  <2>2. ASSUME NEW s \in SignSessions, NEW sig \in Signatures, CompleteSession(c, s, sig)
        PROVE  IInv'
    <3>1. s \in Sessions /\ sig \in Results
      BY DEF Sessions, Results
    <3>2. PICK row \in GetSession(s) :
             Update(c, s, [row EXCEPT !.status = "completed", !.sig = sig], "done")
      BY <2>2 DEF CompleteSession
    <3>3. Sound([row EXCEPT !.status = "completed", !.sig = sig])
      BY <3>1, <3>2, ReadsSound, CompletedSound DEF IInv
    <3> QED
      BY <3>1, <3>2, <3>3, UpdateKeeps
  <2>3. ASSUME NEW k \in Keys, NEW pub \in PublicKeys, CompleteKeygenSession(c, k, pub)
        PROVE  IInv'
    <3>1. k \in Sessions /\ pub \in Results
      BY DEF Sessions, Results
    <3>2. PICK row \in GetSession(k) :
             Update(c, k, [row EXCEPT !.status = "completed", !.sig = pub], "readKey")
      BY <2>3 DEF CompleteKeygenSession
    <3> DEFINE new == [row EXCEPT !.status = "completed", !.sig = pub]
    <3>3. Sound(row)
      BY <3>1, <3>2, ReadsSound DEF IInv
    <3>4. Sound(new)
      BY <3>1, <3>3, CompletedSound
    <3>5. new.status = "completed" /\ new.sig = pub
      BY <3>3 DEF Sound, Row
    <3> HIDE DEF new
    <3>6. Update(c, k, new, "readKey")
      BY <3>2 DEF new
    <3> QED
      BY <3>1, <3>4, <3>5, <3>6, UpdateKeeps
  <2>4. ASSUME NEW s \in Sessions, NEW status \in {"cancelled", "timeout", "failed"},
               \E row \in GetSession(s) : Update(c, s, [row EXCEPT !.status = status], "done")
        PROVE  IInv'
    <3>1. PICK row \in GetSession(s) : Update(c, s, [row EXCEPT !.status = status], "done")
      BY <2>4
    <3>2. Sound([row EXCEPT !.status = status])
      BY <3>1, ReadsSound, EndedSound DEF IInv
    <3> QED
      BY <3>1, <3>2, UpdateKeeps
  <2>5. ASSUME NEW s \in Sessions, CancelSession(c, s) \/ CheckTimeout(c, s) PROVE IInv'
    BY <2>4, <2>5 DEF CancelSession, CheckTimeout
  <2>6. ASSUME NEW s \in SignSessions, FailSession(c, s) PROVE IInv'
    BY <2>4, <2>6 DEF FailSession, Sessions
  <2> QED
    BY <1>2, <2>1, <2>2, <2>3, <2>5, <2>6, CreatePlaceholderKeyKeeps, CreateSessionKeeps,
       DeleteKeyKeeps, GenerateAddressKeeps DEF CallStep
<1>3. ASSUME NEW c \in Clients, Continue(c) PROVE IInv'
  <2>1. ASSUME pc[c] \in {"selectNodes", "polling"}
        PROVE  obj[c].id \in Sessions /\ Sound(obj[c].row)
    BY <2>1 DEF IInv, CallsReady, ObjectReady
  <2>2. ASSUME NEW ns \in NodeLists, NEW then \in {"polling", "done"}, SelectNodes(c, ns, then)
        PROVE  IInv'
    <3>1. obj[c].id \in Sessions /\ Sound([obj[c].row EXCEPT !.nodes = ns])
      BY <2>1, <2>2, SelectedSound DEF SelectNodes
    <3> QED
      BY <2>2, <3>1, UpdateKeeps DEF SelectNodes
  <2>3. ASSUME SigningGivesUp(c) PROVE IInv'
    <3>1. obj[c].id \in Sessions /\ Sound([obj[c].row EXCEPT !.status = "failed"])
      BY <2>1, <2>3, EndedSound DEF SigningGivesUp
    <3> QED
      BY <2>3, <3>1, UpdateKeeps DEF SigningGivesUp
  <2>4. ASSUME SigningReturns(c) \/ UpdateRedisFails(c) \/ StoreFails(c) PROVE IInv'
    BY <2>4, EndingKeeps DEF SigningReturns, UpdateRedisFails, StoreFails
  <2> QED
    BY <1>3, <2>2, <2>3, <2>4, CreateKeyGenSessionKeeps, CreateKeyGenSessionFailsKeeps,
       CacheNewSessionKeeps, UpdatePGKeeps, UpdateRedisKeeps, ReadKeyToActivateKeeps,
       UpdateKeyMetadataKeeps DEF Continue
<1>4. ASSUME NEW s \in Sessions, FiveMinutesPass(s) \/ RedisExpire(s) \/ RedisEvict(s)
      PROVE  IInv'
  BY <1>4, ClockKeeps DEF RedisExpire, RedisEvict
<1> QED
  BY <1>1, <1>2, <1>3, <1>4 DEF Next

\* The strengthened invariant holds in every reachable state: what is stored, and
\* what every call in flight is about to store, is sound and backed.
THEOREM Invariance == Spec => []IInv
BY InitIInv, NextKeeps, PTL DEF Spec

\* Every variable keeps its type, however many calls overlap or fail.
THEOREM TypeCorrect == Spec => []TypeOK
<1>1. IInv => TypeOK
  BY DEF IInv
<1> QED
  BY <1>1, Invariance, PTL

\* The Redis cache never holds a row that PostgreSQL has not had.
THEOREM CacheIsNeverAhead == Spec => []CacheFollowsDatabase
<1>1. IInv => CacheFollowsDatabase
  BY DEF IInv, Stored, CacheFollowsDatabase
<1> QED
  BY <1>1, Invariance, PTL

\* A stored session is completed exactly together with its result.
THEOREM ResultsAreWhole == Spec => []ResultOnlyWhenFinished
<1>1. IInv => ResultOnlyWhenFinished
  <2> SUFFICES ASSUME IInv, NEW s \in Sessions, NEW row \in {pg[s], redis[s]}
               PROVE  Finished(row)
    BY DEF ResultOnlyWhenFinished, Finished
  <2>1. CASE row = NoRow
    BY <2>1 DEF Finished, NoRow
  <2>2. CASE row \in written[s]
    BY <2>2 DEF IInv, Stored, Sound
  <2> QED
    BY <2>1, <2>2 DEF IInv, Stored
<1> QED
  BY <1>1, Invariance, PTL

\* No stored participant list names a node twice, however joins interleave.
THEOREM ParticipantsAreDistinct == Spec => []NoDuplicateParticipants
<1>1. IInv => NoDuplicateParticipants
  <2> SUFFICES ASSUME IInv, NEW s \in Sessions, NEW row \in {pg[s], redis[s]}
               PROVE  Distinct(row)
    BY DEF NoDuplicateParticipants, Distinct
  <2>1. CASE row = NoRow
    <3>1. Len(NoRow.nodes) = 0
      BY DEF NoRow
    <3> QED
      BY <2>1, <3>1 DEF Distinct
  <2>2. CASE row \in written[s]
    BY <2>2 DEF IInv, Stored, Sound
  <2> QED
    BY <2>1, <2>2 DEF IInv, Stored
<1> QED
  BY <1>1, Invariance, PTL

\* A key is Active, or carries a public key, only after the database has seen its
\* DKG session completed with that public key.
THEOREM PublicKeysAreReported == Spec => []PublicKeyWasReported
<1>1. IInv => PublicKeyWasReported
  BY DEF IInv, KeysBacked, KeyBacked, Reported, PublicKeyWasReported
<1> QED
  BY <1>1, Invariance, PTL

\* No write, not even one prepared long ago by a call that raced with others,
\* takes a key that was activated or deleted back to Pending.
THEOREM KeysLeavePendingForGood == Spec => KeyLeavesPendingForGood
<1> DEFINE Left(k) == keys[k].status \in {"Active", "Deleted"}
<1>1. IInv /\ [Next]_vars =>
         [\A k \in Keys : keys[k].status \in {"Active", "Deleted"} =>
                          keys'[k].status \in {"Active", "Deleted"}]_vars
  <2> SUFFICES ASSUME IInv, [Next]_vars, NEW k \in Keys, Left(k) PROVE Left(k)'
    OBVIOUS
  <2>1. CASE UNCHANGED keys
    BY <2>1
  <2>2. ASSUME NEW c \in Clients, NEW j \in Keys, CreatePlaceholderKey(c, j) PROVE Left(k)'
    <3>1. j # k
      BY <2>2 DEF CreatePlaceholderKey, NoKey
    <3> QED
      BY <2>2, <3>1 DEF CreatePlaceholderKey, IInv, TypeOK
  <2>3. ASSUME NEW c \in Clients, UpdateKeyMetadata(c) PROVE Left(k)'
    <3>1. kobj[c].status \in {"Active", "Deleted"}
      BY <2>3 DEF IInv, CallsReady, ObjectReady, UpdateKeyMetadata
    <3> QED
      BY <2>3, <3>1 DEF UpdateKeyMetadata, IInv, TypeOK
  <2>4. ASSUME NEW c \in Clients, CallStep(c) PROVE Left(k)'
    BY <2>1, <2>2, <2>4 DEF CallStep, CreateSession, JoinSession, CompleteSession,
       CompleteKeygenSession, CancelSession, CheckTimeout, FailSession, DeleteKey,
       GenerateAddress, Update
  <2>5. ASSUME NEW c \in Clients, Continue(c) PROVE Left(k)'
    BY <2>1, <2>3, <2>5 DEF Continue, CreateKeyGenSession, CreateKeyGenSessionFails,
       CacheNewSession, SelectNodes, SigningGivesUp, SigningReturns, UpdatePG, UpdateRedis,
       UpdateRedisFails, ReadKeyToActivate, StoreFails, Update
  <2>6. ASSUME NEW s \in Sessions, FiveMinutesPass(s) \/ RedisExpire(s) \/ RedisEvict(s)
        PROVE  Left(k)'
    BY <2>1, <2>6 DEF FiveMinutesPass, RedisExpire, RedisEvict, DropCached
  <2>7. CASE UNCHANGED vars
    BY <2>1, <2>7 DEF vars
  <2> QED
    BY <2>4, <2>5, <2>6, <2>7 DEF Next
<1> QED
  BY <1>1, Invariance, PTL DEF Spec, KeyLeavesPendingForGood

=============================================================================
