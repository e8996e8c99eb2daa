-------------------------- MODULE AuthServiceProofs --------------------------
(***************************************************************************)
(* What holds of accounts and tokens for any number of requests, names and *)
(* connections, with and without confirmation, debounce and failing        *)
(* commits.                                                                *)
(***************************************************************************)
EXTENDS AuthService, TLAPS

Requests0 == Requests \cup {None}

\* An account is there only after its Register has ended, a Register in flight
\* carries a whole row, and two operations always have a token to look up.
CallsReady ==
    \A r \in Requests :
        /\ users[r] # None => req[r].pc = "done"
        /\ req[r].pc = "tx" /\ req[r].op = "register" => req[r].row \in Users
        /\ req[r].pc = "ready" /\ req[r].op = "register" => req[r].row \in Users
        /\ req[r].op \in {"complete", "push"} => req[r].token \in Requests

Sound == NoOrphans /\ OneAccountPerName /\ TokensFollowPassword

\* The token t of account u stands for its present password, or is excused.
Stands(t, u) == issued[t] = users[u].password \/ t \in overlap[u]

\* What a request refers to was made by one that has ended, and its account stays while
\* it has tokens to commit.
Settled(s) ==
    /\ req[s].user \in Requests => req[req[s].user].pc = "done"
    /\ \A k \in {"access", "refresh"} : tokens[k][s] # None => req[s].pc = "done"
    /\ UnderWay(s) /\ req[s].op \in {"login", "complete"} /\ req[s].user \in Requests
          => req[s].row \in Users
    /\ UnderWay(s) /\ req[s].op = "refresh"
          => req[s].token \in Requests /\ req[req[s].token].pc = "done"
    /\ req[s].pc = "inserted" => req[s].user \in Live

\* What a request under way will issue stands for the present password, or the request
\* or its token is excused: this is what TokensFollowPassword needs to be inductive.
Follows(s) ==
    UnderWay(s) /\ req[s].user \in Live =>
        /\ req[s].op \in {"login", "complete"} =>
              \/ req[s].row.password = users[req[s].user].password
              \/ s \in overlap[req[s].user]
        /\ req[s].op = "refresh" =>
              Stands(req[s].token, req[s].user) \/ s \in overlap[req[s].user]

Flight == \A s \in Requests : Settled(s) /\ Follows(s)

IInv == TypeOK /\ CallsReady /\ Flight /\ Sound

-----------------------------------------------------------------------------
(* Requests under way                                                      *)

\* A step of request r.  The other requests keep what they have been promised if the
\* passwords stay, or if whoever is under way when one changes is excused.
LEMMA FlightKept ==
    ASSUME IInv, TypeOK', NEW r \in Requests, req[r].pc # "done",
           \A s \in Requests \ {r} : req'[s] = req[s] /\ issued'[s] = issued[s],
           \A k \in {"access", "refresh"}, s \in Requests \ {r} :
              tokens'[k][s] \in {tokens[k][s], None},
           \A u \in Live' :
              \/ u = r
              \/ /\ u \in Live /\ users'[u].password = users[u].password
                 /\ overlap[u] \subseteq overlap'[u]
              \/ /\ u \in Live
                 /\ \A s \in Requests \ {r} :
                       UnderWay(s) /\ req[s].user = u => s \in overlap'[u],
           \A s \in Requests \ {r} : req[s].pc = "inserted" => req[s].user \in Live',
           Settled(r)', Follows(r)'
    PROVE  Flight'
<1> SUFFICES ASSUME NEW s \in Requests \ {r} PROVE Settled(s)' /\ Follows(s)'
  BY DEF Flight
<1>1. Settled(s) /\ Follows(s)
  BY DEF IInv, Flight
<1>2. req'[s] = req[s] /\ (UnderWay(s)' <=> UnderWay(s))
  BY DEF UnderWay
<1>3. \A t \in Requests : req[t].pc = "done" =>
         t # r /\ req'[t].pc = "done" /\ issued'[t] = issued[t]
  OBVIOUS
<1>4. Settled(s)'
  BY <1>1, <1>2, <1>3 DEF Settled
<1>5. Follows(s)'
  <2> SUFFICES ASSUME UnderWay(s), req[s].user \in Live'
               PROVE  /\ req[s].op \in {"login", "complete"} =>
                            \/ req[s].row.password = users'[req[s].user].password
                            \/ s \in overlap'[req[s].user]
                      /\ req[s].op = "refresh" =>
                            Stands(req[s].token, req[s].user)' \/ s \in overlap'[req[s].user]
    BY <1>2 DEF Follows, Stands
  <2> DEFINE u == req[s].user
  <2>1. u \in Requests /\ u # r
    BY <1>1, <1>3 DEF Settled, Live
  <2>2. CASE /\ u \in Live /\ users'[u].password = users[u].password
             /\ overlap[u] \subseteq overlap'[u]
    BY <1>1, <1>2, <1>3, <2>2 DEF Settled, Follows, Stands
  <2>3. CASE s \in overlap'[u]
    BY <2>3
  <2> QED
    BY <2>1, <2>2, <2>3
<1> QED
  BY <1>4, <1>5

\* A request goes on with what it has.
LEMMA GotoFlight ==
    ASSUME IInv, NEW r \in Requests, UnderWay(r), NEW pc \in Pcs \ {"idle"}, Goto(r, pc),
           \/ pc = "done"
           \/ \A k \in {"access", "refresh"} : tokens'[k][r] \in {tokens[k][r], None},
           pc \notin {"done", "failed"} => UNCHANGED <<users, issued, overlap>>,
           pc = "inserted" => req[r].user \in Live
    PROVE  Settled(r)' /\ Follows(r)'
<1>1. Settled(r) /\ Follows(r) /\ req[r].pc # "done"
  BY DEF IInv, Flight, UnderWay
<1>2. /\ req'[r].pc = pc /\ req'[r].op = req[r].op /\ req'[r].token = req[r].token
      /\ req'[r].user = req[r].user /\ req'[r].row = req[r].row
      /\ \A t \in Requests : t # r => req'[t] = req[t]
  BY DEF Goto, IInv, TypeOK
<1>3. \A t \in Requests : req[t].pc = "done" => t # r /\ req'[t].pc = "done"
  BY <1>1, <1>2
<1>4. UNCHANGED users => Live' = Live
  BY DEF Live
<1>5. Settled(r)'
  BY <1>1, <1>2, <1>3, <1>4 DEF Settled, UnderWay
<1>6. Follows(r)'
  BY <1>1, <1>2, <1>4 DEF Follows, UnderWay, Stands
<1> QED
  BY <1>5, <1>6

-----------------------------------------------------------------------------
(* Steps that leave accounts and tokens alone                              *)

\* A step of one request that writes no table.
LEMMA OnlyRequests ==
    ASSUME IInv, UNCHANGED <<users, tokens, issued, overlap>>, recent' \subseteq Requests,
           NEW r \in Requests, req[r].pc # "done",
           NEW q \in [pc : Pcs, op : Operations \cup {"none"}, token : Requests0,
                      user : Requests0, row : Users \cup {None}],
           req' = [req EXCEPT ![r] = q],
           q.pc \in {"ready", "tx"} /\ q.op = "register" => q.row \in Users,
           q.op \in {"complete", "push"} => q.token \in Requests,
           Settled(r)', Follows(r)'
    PROVE  IInv'
<1>1. TypeOK'
  BY DEF IInv, TypeOK, Requests0
<1>2. CallsReady'
  BY DEF IInv, TypeOK, CallsReady
<1>3. Sound'
  BY DEF IInv, Sound, NoOrphans, OneAccountPerName, TokensFollowPassword, Live
<1>4. Flight'
  <2>1. \A s \in Requests \ {r} : req'[s] = req[s]
    BY DEF IInv, TypeOK
  <2>2. Live' = Live
    BY DEF Live
  <2>3. \A s \in Requests \ {r} : req[s].pc = "inserted" => req[s].user \in Live
    BY DEF IInv, Flight, Settled
  <2> QED
    BY <1>1, <2>1, <2>2, <2>3, FlightKept
<1> QED
  BY <1>1, <1>2, <1>3, <1>4 DEF IInv

\* A request goes on, and no account comes to be but its own.
LEMMA GotoKeepsCalls ==
    ASSUME IInv, NEW r \in Requests, NEW pc \in {"insert", "finish", "done", "failed"},
           Goto(r, pc), req[r].pc \notin {"idle", "done", "failed"},
           \A v \in Requests : users'[v] # None => users[v] # None \/ (v = r /\ pc = "done")
    PROVE  /\ req' \in [Requests -> [pc : Pcs, op : Operations \cup {"none"}, token : Requests0,
                                      user : Requests0, row : Users \cup {None}]]
           /\ CallsReady'
<1> DEFINE Request == [pc : Pcs, op : Operations \cup {"none"}, token : Requests0,
                       user : Requests0, row : Users \cup {None}]
<1>1. req' \in [Requests -> Request]
  <2>1. req \in [Requests -> Request] /\ req' = [req EXCEPT ![r].pc = pc]
    BY DEF IInv, TypeOK, Requests0, Goto
  <2>2. pc \in Pcs
    BY DEF Pcs
  <2>3. [req[r] EXCEPT !.pc = pc] \in Request
    BY <2>1, <2>2
  <2> HIDE DEF Request
  <2> QED
    BY <2>1, <2>3
<1>2. /\ \A s \in Requests \ {r} : req'[s] = req[s]
      /\ req'[r].pc = pc /\ req'[r].op = req[r].op /\ req'[r].token = req[r].token
  BY DEF Goto, IInv, TypeOK
<1>3. CallsReady'
  BY <1>2 DEF CallsReady, IInv
<1> QED
  BY <1>1, <1>3

-----------------------------------------------------------------------------
(* Steps that write tables                                                 *)

TokenTables == [Tables -> [Requests -> Requests0]]

\* New tokens of a live account, next to some of the old ones.  The account keeps its
\* password, or all tokens it had are gone.
LEMMA TokensIssued ==
    ASSUME IInv, NEW r \in Requests, NEW u \in Live, NEW kept \in TokenTables,
           NEW p \in Requests0, authenticateUser(r, u, kept, p),
           users' \in [Requests -> Users \cup {None}],
           users'[u] \in Users,
           users'[u].name = users[u].name,
           \A v \in Requests \ {u} : users'[v] = users[v] /\ overlap'[v] = overlap[v],
           \A k \in Tables, t \in Requests : kept[k][t] \in {tokens[k][t], None},
           p = users'[u].password \/ r \in overlap'[u],
           \/ users'[u].password = users[u].password /\ overlap[u] \subseteq overlap'[u]
           \/ \A k \in {"access", "refresh"}, t \in Requests : kept[k][t] # u
    PROVE  /\ tokens' \in TokenTables /\ issued' \in [Requests -> Requests0] /\ Sound'
           /\ \A t \in Requests \ {r} : issued'[t] = issued[t]
           /\ \A k \in Tables, t \in Requests \ {r} : tokens'[k][t] \in {tokens[k][t], None}
           /\ Live' = Live
<1>1. u \in Requests /\ users[u] \in Users /\ u # None /\ None \notin Users
  BY AuthAssumption DEF Live, IInv, TypeOK
<1>2. /\ tokens' \in TokenTables
      /\ \A k \in Tables, t \in Requests :
            tokens'[k][t] = IF t = r /\ k \in {"access", "refresh"} THEN u ELSE kept[k][t]
  BY <1>1 DEF authenticateUser, TokenTables, Tables, Requests0
<1>3. /\ issued' \in [Requests -> Requests0]
      /\ issued'[r] = p
      /\ \A t \in Requests \ {r} : issued'[t] = issued[t]
  BY DEF authenticateUser, IInv, TypeOK, Requests0
<1>4. Live' = Live
  BY <1>1 DEF Live
<1>5. NoOrphans'
  BY <1>1, <1>2, <1>4 DEF NoOrphans, IInv, Sound
<1>6. OneAccountPerName'
  BY <1>1, <1>4 DEF OneAccountPerName, IInv, Sound, Live
<1>7. TokensFollowPassword'
  <2> SUFFICES ASSUME NEW k \in {"access", "refresh"}, NEW t \in Requests, tokens'[k][t] # None
               PROVE  \/ issued'[t] = users'[tokens'[k][t]].password
                      \/ t \in overlap'[tokens'[k][t]]
    BY DEF TokensFollowPassword
  <2>0. k \in Tables
    BY DEF Tables
  <2>1. CASE t = r
    BY <2>0, <2>1, <1>2, <1>3
  <2>2. CASE t # r
    <3>1. tokens'[k][t] = tokens[k][t] /\ tokens'[k][t] = kept[k][t]
      BY <2>0, <2>2, <1>2
    <3>2. tokens[k][t] \in Requests
      BY <3>1, <2>0 DEF IInv, TypeOK
    <3>3. issued'[t] = users[tokens[k][t]].password \/ t \in overlap[tokens[k][t]]
      BY <3>1, <2>2, <1>3 DEF IInv, Sound, TokensFollowPassword
    <3>4. /\ users'[tokens[k][t]].password = users[tokens[k][t]].password
          /\ overlap[tokens[k][t]] \subseteq overlap'[tokens[k][t]]
      BY <3>1, <3>2
    <3> QED
      BY <3>1, <3>3, <3>4
  <2> QED
    BY <2>1, <2>2
<1> QED
  BY <1>2, <1>3, <1>4, <1>5, <1>6, <1>7 DEF Sound

\* Fewer tokens of the same accounts.
LEMMA TokensRemoved ==
    ASSUME IInv, UNCHANGED <<users, issued, overlap>>, tokens' \in TokenTables,
           \A k \in Tables, t \in Requests : tokens'[k][t] \in {tokens[k][t], None}
    PROVE  Sound'
<1>1. NoOrphans' /\ OneAccountPerName'
  BY DEF IInv, Sound, NoOrphans, OneAccountPerName, Live
<1>2. TokensFollowPassword'
  <2> SUFFICES ASSUME NEW k \in {"access", "refresh"}, NEW t \in Requests, tokens'[k][t] # None
               PROVE  issued[t] = users[tokens'[k][t]].password \/ t \in overlap[tokens'[k][t]]
    BY DEF TokensFollowPassword
  <2>1. tokens'[k][t] = tokens[k][t]
    BY DEF Tables
  <2> QED
    BY <2>1 DEF IInv, Sound, TokensFollowPassword
<1> QED
  BY <1>1, <1>2 DEF Sound

\* One more token of a live account, in a table that login tokens are not in.
LEMMA OtherToken ==
    ASSUME IInv, UNCHANGED <<users, issued, overlap>>, NEW k0 \in Tables \ {"access", "refresh"},
           NEW t0 \in Requests, NEW u \in Live,
           tokens' = [tokens EXCEPT ![k0][t0] = u]
    PROVE  /\ tokens' \in TokenTables /\ Sound'
           /\ \A k \in {"access", "refresh"}, t \in Requests : tokens'[k][t] = tokens[k][t]
<1>1. u \in Requests /\ tokens \in TokenTables
  BY DEF Live, IInv, TypeOK, TokenTables, Requests0
<1>2. /\ tokens' \in TokenTables
      /\ \A k \in Tables, t \in Requests :
            tokens'[k][t] = IF t = t0 /\ k = k0 THEN u ELSE tokens[k][t]
  BY <1>1 DEF TokenTables, Tables, Requests0
<1>3. NoOrphans' /\ OneAccountPerName'
  BY <1>2 DEF IInv, Sound, NoOrphans, OneAccountPerName, Live
<1>4. \A k \in {"access", "refresh"} : k \in Tables /\ k # k0
  BY DEF Tables
<1>5. \A k \in {"access", "refresh"}, t \in Requests : tokens'[k][t] = tokens[k][t]
  BY <1>2, <1>4
<1>6. TokensFollowPassword'
  BY <1>5 DEF IInv, Sound, TokensFollowPassword
<1> QED
  BY <1>2, <1>3, <1>5, <1>6 DEF Sound

-----------------------------------------------------------------------------
(* One lemma per step                                                      *)

LEMMA BeginKeeps ==
    ASSUME IInv, NEW r \in Requests, Begin(r)
    PROVE  IInv'
<1>1. req' = [req EXCEPT ![r] = [req[r] EXCEPT !.pc = "tx"]] /\ req[r].pc = "ready"
  BY DEF Begin, At, Goto
<1>2. /\ [req[r] EXCEPT !.pc = "tx"] \in [pc : Pcs, op : Operations \cup {"none"},
                token : Requests0, user : Requests0, row : Users \cup {None}]
      /\ req[r].op = "register" => req[r].row \in Users
      /\ req[r].op \in {"complete", "push"} => req[r].token \in Requests
  BY <1>1 DEF IInv, TypeOK, CallsReady, Pcs, Requests0
<1>3. Settled(r)' /\ Follows(r)'
  BY <1>1, GotoFlight DEF Begin, UnderWay, Pcs
<1>4. [req[r] EXCEPT !.pc = "tx"].op = req[r].op /\ [req[r] EXCEPT !.pc = "tx"].row = req[r].row
      /\ [req[r] EXCEPT !.pc = "tx"].token = req[r].token
  BY DEF IInv, TypeOK
<1> QED
  BY <1>1, <1>2, <1>3, <1>4, OnlyRequests DEF Begin, IInv, TypeOK

LEMMA StopKeeps ==
    ASSUME IInv, NEW r \in Requests, UNCHANGED <<users, tokens, recent, issued, overlap>>,
           req[r].pc \notin {"idle", "done", "failed"},
           NEW pc \in {"done", "failed", "insert", "inserted"}, Goto(r, pc),
           pc = "inserted" => req[r].user \in Live
    PROVE  IInv'
<1>1. req' = [req EXCEPT ![r] = [req[r] EXCEPT !.pc = pc]]
  BY DEF Goto
<1>2. [req[r] EXCEPT !.pc = pc] \in [pc : Pcs, op : Operations \cup {"none"},
                token : Requests0, user : Requests0, row : Users \cup {None}]
  BY DEF IInv, TypeOK, Pcs, Requests0
<1>3. req[r].op \in {"complete", "push"} => req[r].token \in Requests
  BY DEF IInv, CallsReady
<1>4. Settled(r)' /\ Follows(r)'
  BY GotoFlight DEF UnderWay, Pcs
<1>5. /\ [req[r] EXCEPT !.pc = pc].pc = pc /\ [req[r] EXCEPT !.pc = pc].op = req[r].op
      /\ [req[r] EXCEPT !.pc = pc].token = req[r].token
  BY DEF IInv, TypeOK
<1> QED
  BY <1>1, <1>2, <1>3, <1>4, <1>5, OnlyRequests DEF IInv, TypeOK

LEMMA FailuresKeep ==
    ASSUME IInv, NEW r \in Requests,
           RequestFails(r) \/ CommitFails(r) \/ InsertRefused(r)
    PROVE  IInv'
<1>1. CASE RequestFails(r)
  BY <1>1, StopKeeps DEF RequestFails, UnderWay
<1>2. CASE CommitFails(r)
  BY <1>2, StopKeeps DEF CommitFails, At
<1>3. CASE InsertRefused(r)
  BY <1>3, StopKeeps DEF InsertRefused, At
<1> QED
  BY <1>1, <1>2, <1>3

\* A request begins and has read at most one account.
LEMMA ReadsKeep ==
    ASSUME IInv, NEW r \in Requests, NEW op, NEW u \in Requests0, NEW t \in Requests0,
           NEW pc \in {"ready", "done", "failed"}, Reads(r, op, u, t, pc),
           op = "register" => pc = "failed",
           op \in {"complete", "push"} => t \in Requests,
           u \in Live \/ (u = None /\ op \notin {"login", "refresh"}),
           op = "refresh" => t \in Requests /\ tokens["refresh"][t] = u
    PROVE  IInv'
<1> DEFINE row == IF u = None THEN None ELSE users[u]
           q == [pc |-> pc, op |-> op, user |-> u, token |-> t, row |-> row]
<1>1. req' = [req EXCEPT ![r] = q] /\ req[r].pc = "idle" /\ op \in Operations
  BY DEF Reads
<1>2. row \in Users \cup {None}
  BY AuthAssumption DEF Requests0, IInv, TypeOK
<1> HIDE DEF row
<1>3. q \in [pc : Pcs, op : Operations \cup {"none"}, token : Requests0,
             user : Requests0, row : Users \cup {None}]
  BY <1>1, <1>2 DEF Pcs
<1> QED
  <2>1. UNCHANGED <<users, tokens, recent, issued, overlap>> /\ recent' \subseteq Requests
    BY DEF Reads, IInv, TypeOK
  <2>2. /\ ~ (q.pc \in {"ready", "tx"} /\ q.op = "register")
        /\ q.op \in {"complete", "push"} => q.token \in Requests
    OBVIOUS
  <2>3. Settled(r)'
    <3>1. /\ req'[r] = q /\ \A s \in Requests : req[s].pc = "done" => req'[s].pc = "done"
      BY <1>1 DEF IInv, TypeOK
    <3>2. u \in Requests => req[u].pc = "done" /\ users[u] \in Users
      BY AuthAssumption DEF IInv, CallsReady, TypeOK, Live
    <3>3. \A k \in {"access", "refresh"} : tokens'[k][r] = None
      BY <1>1, <2>1 DEF IInv, Flight, Settled
    <3>4. op = "refresh" => req[t].pc = "done"
      BY AuthAssumption DEF IInv, Flight, Settled, Live
    <3>5. u \in Requests => row = users[u]
      BY AuthAssumption DEF row
    <3> QED
      BY <3>1, <3>2, <3>3, <3>4, <3>5 DEF Settled, UnderWay
  <2>4. Follows(r)'
    <3>1. req'[r] = q
      BY <1>1 DEF IInv, TypeOK
    <3>2. op = "refresh" /\ u \in Live => Stands(t, u)
      BY AuthAssumption DEF IInv, Sound, TokensFollowPassword, Stands, Live
    <3>3. u \in Live => row = users[u]
      BY AuthAssumption DEF row, Live
    <3>4. Live' = Live
      BY <2>1 DEF Live
    <3> QED
      BY <2>1, <3>1, <3>2, <3>3, <3>4 DEF Follows, Stands
  <2> HIDE DEF q
  <2> QED
    BY <1>1, <1>3, <2>1, <2>2, <2>3, <2>4, OnlyRequests

LEMMA BeginningsKeep ==
    ASSUME IInv, NEW r \in Requests,
           \/ Authenticate(r) \/ LoginReads(r)
           \/ TokenReads(r, "refresh", "refresh") \/ TokenReads(r, "reset", "reset")
           \/ InitPasswordResetReads(r) \/ CompleteRegisterReads(r)
    PROVE  IInv'
<1>0. /\ \A k \in Tables, t \in Requests :
            tokens[k][t] \in Requests0 /\ (tokens[k][t] # None => tokens[k][t] \in Live)
      /\ Live \subseteq Requests /\ None \in Requests0 /\ Requests \subseteq Requests0
      /\ {"access", "refresh", "reset"} \subseteq Tables
  BY DEF IInv, TypeOK, Requests0, Live, Tables, Sound, NoOrphans
<1>1. CASE Authenticate(r)
  BY <1>0, <1>1, ReadsKeep DEF Authenticate
<1>2. CASE LoginReads(r)
  BY <1>0, <1>2, ReadsKeep DEF LoginReads
<1>3. CASE TokenReads(r, "refresh", "refresh")
  BY <1>0, <1>3, ReadsKeep DEF TokenReads
<1>4. CASE TokenReads(r, "reset", "reset")
  BY <1>0, <1>4, ReadsKeep DEF TokenReads
<1>5. CASE InitPasswordResetReads(r)
  BY <1>0, <1>5, ReadsKeep DEF InitPasswordResetReads
<1>6. CASE CompleteRegisterReads(r)
  BY <1>0, <1>6, ReadsKeep DEF CompleteRegisterReads
<1> QED
  BY <1>1, <1>2, <1>3, <1>4, <1>5, <1>6

LEMMA RegisterReadsKeeps ==
    ASSUME IInv, NEW r \in Requests, RegisterReads(r)
    PROVE  IInv'
<1>1. PICK n \in Names :
        LET taken == {u \in Live : users[u].name = n}
        IN  \/ /\ taken = {}
               /\ req[r].pc = "idle" /\ "register" \in Operations
               /\ req' = [req EXCEPT ![r] = [pc |-> "ready", op |-> "register", token |-> None,
                            user |-> None, row |-> [name |-> n, password |-> r,
                            active |-> ~ Confirmation, confirm |-> Confirmation]]]
               /\ UNCHANGED <<users, tokens, recent, issued, overlap>>
            \/ \E u \in taken :
                 IF ~ users[u].confirm THEN Reads(r, "register", u, None, "failed")
                 ELSE IF Debounce /\ Of("confirmation", u) \cap recent # {}
                      THEN Reads(r, "resend", u, None, "done")
                      ELSE Reads(r, "resend", u, None, "ready")
  BY DEF RegisterReads
<1>2. CASE \E u \in Live : \/ Reads(r, "register", u, None, "failed")
                           \/ Reads(r, "resend", u, None, "done")
                           \/ Reads(r, "resend", u, None, "ready")
  <2>1. Live \subseteq Requests0 /\ None \in Requests0
    BY DEF Live, Requests0
  <2> QED
    BY <1>2, <2>1, ReadsKeep
<1>3. CASE /\ req[r].pc = "idle" /\ "register" \in Operations
           /\ req' = [req EXCEPT ![r] = [pc |-> "ready", op |-> "register", token |-> None,
                        user |-> None, row |-> [name |-> n, password |-> r,
                        active |-> ~ Confirmation, confirm |-> Confirmation]]]
           /\ UNCHANGED <<users, tokens, recent, issued, overlap>>
  <2> DEFINE row == [name |-> n, password |-> r,
                     active |-> ~ Confirmation, confirm |-> Confirmation]
             q == [pc |-> "ready", op |-> "register", token |-> None, user |-> None, row |-> row]
  <2>1. row \in Users
    BY AuthAssumption DEF Users
  <2> HIDE DEF row
  <2>2. q \in [pc : Pcs, op : Operations \cup {"none"}, token : Requests0,
               user : Requests0, row : Users \cup {None}]
    BY <1>3, <2>1 DEF Pcs, Requests0
  <2>3. q.row \in Users /\ q.op = "register" /\ req' = [req EXCEPT ![r] = q]
    BY <1>3, <2>1 DEF row
  <2>4. q.user = None /\ q.pc = "ready"
    OBVIOUS
  <2> HIDE DEF q
  <2>5. Settled(r)' /\ Follows(r)'
    <3>1. req'[r] = q
      BY <2>3 DEF IInv, TypeOK
    <3>2. \A k \in {"access", "refresh"} : tokens'[k][r] = None
      BY <1>3 DEF IInv, Flight, Settled
    <3>3. None \notin Requests /\ Live' \subseteq Requests
      BY AuthAssumption DEF Live
    <3> QED
      BY <2>3, <2>4, <3>1, <3>2, <3>3 DEF Settled, Follows
  <2> QED
    BY <1>3, <2>2, <2>3, <2>5, OnlyRequests DEF IInv, TypeOK
<1> QED
  BY <1>1, <1>2, <1>3

\* UpdatePassword and ResetPassword: the account has no token but the new ones.
LEMMA UpdatePasswordKeeps ==
    ASSUME IInv, NEW r \in Requests, UpdatePassword(r)
    PROVE  IInv'
<1> DEFINE u == req[r].user
<1>1. u \in Live /\ u \in Requests /\ users[u] \in Users /\ req[r].pc = "tx"
  BY DEF UpdatePassword, At, Live, IInv, TypeOK
<1>2. /\ users' \in [Requests -> Users \cup {None}]
      /\ users'[u] \in Users /\ users'[u].name = users[u].name
      /\ \A v \in Requests \ {u} : users'[v] = users[v]
  BY <1>1 DEF UpdatePassword, IInv, TypeOK, Users
<1>3. /\ Invalidated(u) \in TokenTables
      /\ \A k \in Tables, t \in Requests : Invalidated(u)[k][t] \in {tokens[k][t], None}
      /\ \A k \in {"access", "refresh"}, t \in Requests : Invalidated(u)[k][t] # u
  BY <1>1, AuthAssumption DEF Invalidated, TokenTables, IInv, TypeOK, Tables, Requests0
<1>4. overlap' = [overlap EXCEPT ![u] = {s \in Requests \ {r} : UnderWay(s) /\ req[s].user = u}]
  BY DEF UpdatePassword
<1>5. /\ tokens' \in TokenTables /\ issued' \in [Requests -> Requests0] /\ Sound'
      /\ \A t \in Requests \ {r} : issued'[t] = issued[t]
      /\ \A k \in Tables, t \in Requests \ {r} : tokens'[k][t] \in {tokens[k][t], None}
      /\ Live' = Live
  <2>1. authenticateUser(r, u, Invalidated(u), r) /\ users'[u].password = r /\ r \in Requests0
    BY <1>1 DEF UpdatePassword, IInv, TypeOK, Users, Requests0
  <2>2. \A v \in Requests \ {u} : overlap'[v] = overlap[v]
    BY <1>4 DEF IInv, TypeOK
  <2> HIDE DEF u
  <2> QED
    BY <1>1, <1>2, <1>3, <2>1, <2>2, TokensIssued
<1>6. /\ req' \in [Requests -> [pc : Pcs, op : Operations \cup {"none"}, token : Requests0,
                                 user : Requests0, row : Users \cup {None}]]
      /\ CallsReady'
  BY <1>1, <1>2, GotoKeepsCalls DEF UpdatePassword, Live
<1>7. TypeOK'
  <2>1. overlap' \in [Requests -> SUBSET Requests]
    BY <1>4 DEF IInv, TypeOK
  <2> QED
    BY <1>2, <1>5, <1>6, <2>1 DEF IInv, TypeOK, TokenTables, Requests0, UpdatePassword
<1>8. Flight'
  <2>1. Settled(r)' /\ Follows(r)'
    BY <1>1, GotoFlight DEF UpdatePassword, UnderWay, Pcs
  <2>2. \A s \in Requests \ {r} : req'[s] = req[s]
    BY DEF UpdatePassword, Goto, IInv, TypeOK
  <2>3. \A s \in Requests \ {r} : req[s].pc = "inserted" => req[s].user \in Live
    BY DEF IInv, Flight, Settled
  <2>4. /\ overlap'[u] = {s \in Requests \ {r} : UnderWay(s) /\ req[s].user = u}
        /\ \A v \in Requests \ {u} : overlap'[v] = overlap[v]
    BY <1>1, <1>4 DEF IInv, TypeOK
  <2> HIDE DEF u
  <2>5. ASSUME NEW v \in Live, v # u
        PROVE  users'[v].password = users[v].password /\ overlap[v] \subseteq overlap'[v]
    BY <1>2, <2>4, <2>5 DEF Live
  <2>6. {"access", "refresh"} \subseteq Tables
    BY DEF Tables
  <2> QED
    BY <1>1, <1>5, <1>7, <2>1, <2>2, <2>3, <2>4, <2>5, <2>6, FlightKept
<1> QED
  BY <1>5, <1>6, <1>7, <1>8 DEF IInv

LEMMA InsertTokensKeeps ==
    ASSUME IInv, NEW r \in Requests, InsertTokens(r)
    PROVE  IInv'
  BY StopKeeps DEF InsertTokens, At

\* The end of a request that issues tokens and leaves the passwords alone.
LEMMA IssueKeeps ==
    ASSUME IInv, NEW r \in Requests, NEW kept \in TokenTables, NEW p \in Requests0,
           UnderWay(r), req[r].user \in Live,
           \A k \in Tables, t \in Requests : kept[k][t] \in {tokens[k][t], None},
           authenticateUser(r, req[r].user, kept, p),
           users' \in [Requests -> Users \cup {None}],
           users'[req[r].user] \in Users,
           users'[req[r].user].name = users[req[r].user].name,
           users'[req[r].user].password = users[req[r].user].password,
           \A v \in Requests \ {req[r].user} : users'[v] = users[v] /\ overlap'[v] = overlap[v],
           overlap' \in [Requests -> SUBSET Requests],
           overlap[req[r].user] \subseteq overlap'[req[r].user],
           p = users[req[r].user].password \/ r \in overlap'[req[r].user],
           Goto(r, "done"), UNCHANGED recent
    PROVE  IInv'
<1> DEFINE u == req[r].user
<1>1. u \in Live /\ u \in Requests /\ req[r].pc \notin {"idle", "done", "failed"}
  BY DEF Live, UnderWay
<1>2. /\ tokens' \in TokenTables /\ issued' \in [Requests -> Requests0] /\ Sound'
      /\ \A t \in Requests \ {r} : issued'[t] = issued[t]
      /\ \A k \in Tables, t \in Requests \ {r} : tokens'[k][t] \in {tokens[k][t], None}
      /\ Live' = Live
  <2>1. /\ authenticateUser(r, u, kept, p) /\ users'[u] \in Users
        /\ users'[u].name = users[u].name /\ users'[u].password = users[u].password
        /\ \A v \in Requests \ {u} : users'[v] = users[v] /\ overlap'[v] = overlap[v]
        /\ overlap[u] \subseteq overlap'[u]
        /\ p = users'[u].password \/ r \in overlap'[u]
    OBVIOUS
  <2> HIDE DEF u
  <2> QED
    BY <1>1, <2>1, TokensIssued
<1>3. /\ req' \in [Requests -> [pc : Pcs, op : Operations \cup {"none"}, token : Requests0,
                                 user : Requests0, row : Users \cup {None}]]
      /\ CallsReady'
  BY <1>1, <1>2, GotoKeepsCalls DEF Live
<1>4. TypeOK'
  BY <1>2, <1>3 DEF IInv, TypeOK, TokenTables, Requests0
<1>5. Flight'
  <2>1. Settled(r)' /\ Follows(r)'
    BY GotoFlight DEF Pcs
  <2>2. \A s \in Requests \ {r} : req'[s] = req[s]
    BY DEF Goto, IInv, TypeOK
  <2>3. \A s \in Requests \ {r} : req[s].pc = "inserted" => req[s].user \in Live
    BY DEF IInv, Flight, Settled
  <2>4. \A v \in Live : users'[v].password = users[v].password /\ overlap[v] \subseteq overlap'[v]
    BY DEF Live
  <2>5. {"access", "refresh"} \subseteq Tables
    BY DEF Tables
  <2> QED
    BY <1>1, <1>2, <1>4, <2>1, <2>2, <2>3, <2>4, <2>5, FlightKept
<1> QED
  BY <1>2, <1>3, <1>4, <1>5 DEF IInv

\* Login and Refresh write the account back as it is now, not as it was read.
LEMMA LoginAndRefreshKeep ==
    ASSUME IInv, NEW r \in Requests, Login(r) \/ Refresh(r)
    PROVE  IInv'
<1> DEFINE u == req[r].user
<1>0. /\ tokens \in TokenTables /\ UnderWay(r) /\ u \in Live /\ u \in Requests
      /\ users[u] \in Users /\ Follows(r) /\ Settled(r)
  BY DEF IInv, TypeOK, TokenTables, Requests0, Flight, Settled, Login, Refresh, At, UnderWay, Live
<1>1. users' = users /\ users' \in [Requests -> Users \cup {None}]
  BY <1>0 DEF Login, Refresh, WriteLastAuthenticated, IInv, TypeOK
<1>2. CASE Login(r)
  <2>1. req[r].row.password \in Requests0
    BY <1>0, <1>2 DEF Settled, Login, At, Users, Requests0
  <2>2. req[r].row.password = users[u].password \/ r \in overlap[u]
    BY <1>0, <1>2 DEF Follows, Login, At
  <2>3. overlap' = overlap /\ overlap' \in [Requests -> SUBSET Requests]
    BY <1>2 DEF Login, IInv, TypeOK
  <2>4. authenticateUser(r, u, tokens, req[r].row.password) /\ Goto(r, "done") /\ UNCHANGED recent
    BY <1>2 DEF Login
  <2> QED
    BY <1>0, <1>1, <2>1, <2>2, <2>3, <2>4, IssueKeeps
<1>3. CASE Refresh(r)
  <2> DEFINE kept == [tokens EXCEPT !["refresh"][req[r].token] = None]
             p == issued[req[r].token]
  <2>1. /\ kept \in TokenTables
        /\ \A k \in Tables, t \in Requests : kept[k][t] \in {tokens[k][t], None}
    BY <1>0 DEF TokenTables, Tables, Requests0
  <2>2. p \in Requests0
    BY <1>0, <1>3 DEF Settled, Refresh, At, Requests0, IInv, TypeOK
  <2>3. /\ overlap'[u] = overlap[u] \cup IF req[r].token \in overlap[u] THEN {r} ELSE {}
        /\ \A v \in Requests \ {u} : overlap'[v] = overlap[v]
        /\ overlap' \in [Requests -> SUBSET Requests]
    BY <1>0, <1>3 DEF Refresh, IInv, TypeOK
  <2>4. p = users[u].password \/ r \in overlap'[u]
    BY <1>0, <1>3, <2>3 DEF Follows, Stands, Refresh, At
  <2>5. authenticateUser(r, u, kept, p) /\ Goto(r, "done") /\ UNCHANGED recent
    BY <1>3 DEF Refresh
  <2> HIDE DEF kept, p
  <2> QED
    BY <1>0, <1>1, <2>1, <2>2, <2>3, <2>4, <2>5, IssueKeeps
<1> QED
  BY <1>2, <1>3

\* A request goes on that issues no access or refresh token.
LEMMA QuietKeeps ==
    ASSUME IInv, NEW r \in Requests, UNCHANGED <<users, issued, overlap>>,
           recent' \subseteq Requests, tokens' \in TokenTables, Sound',
           \A k \in {"access", "refresh"}, t \in Requests :
              tokens'[k][t] \in {tokens[k][t], None},
           req[r].pc \notin {"idle", "done", "failed"},
           NEW pc \in {"insert", "finish", "done", "failed"}, Goto(r, pc)
    PROVE  IInv'
<1>1. /\ req' \in [Requests -> [pc : Pcs, op : Operations \cup {"none"}, token : Requests0,
                                 user : Requests0, row : Users \cup {None}]]
      /\ CallsReady'
  BY GotoKeepsCalls
<1>2. TypeOK'
  BY <1>1 DEF IInv, TypeOK, TokenTables, Requests0
<1>3. Flight'
  <2>1. Settled(r)' /\ Follows(r)'
    BY GotoFlight DEF UnderWay, Pcs
  <2>2. \A s \in Requests \ {r} : req'[s] = req[s]
    BY DEF Goto, IInv, TypeOK
  <2>3. /\ \A s \in Requests \ {r} : req[s].pc = "inserted" => req[s].user \in Live
        /\ Live' = Live
    BY DEF IInv, Flight, Settled, Live
  <2> QED
    BY <1>2, <2>1, <2>2, <2>3, FlightKept
<1> QED
  BY <1>1, <1>2, <1>3 DEF IInv

\* Steps that only remove tokens.
LEMMA RemovalKeeps ==
    ASSUME IInv, NEW r \in Requests, UNCHANGED <<users, recent, issued, overlap>>,
           tokens' \in TokenTables,
           \A k \in Tables, t \in Requests : tokens'[k][t] \in {tokens[k][t], None},
           req[r].pc \notin {"idle", "done", "failed"},
           NEW pc \in {"insert", "finish", "done", "failed"}, Goto(r, pc)
    PROVE  IInv'
<1>1. Sound'
  BY TokensRemoved
<1>2. recent' \subseteq Requests /\ {"access", "refresh"} \subseteq Tables
  BY DEF IInv, TypeOK, Tables
<1> QED
  BY <1>1, <1>2, QuietKeeps

LEMMA LogoutKeeps ==
    ASSUME IInv, NEW r \in Requests, Logout(r)
    PROVE  IInv'
<1>1. PICK given \in SUBSET Requests :
         tokens' = [tokens EXCEPT
            !["access"][req[r].token] = None,
            !["refresh"] = [t \in Requests |-> IF t \in given THEN None ELSE @[t]]]
  BY DEF Logout
<1>2. /\ tokens' \in TokenTables
      /\ \A k \in Tables, t \in Requests : tokens'[k][t] \in {tokens[k][t], None}
  BY <1>1 DEF TokenTables, Tables, Requests0, IInv, TypeOK
<1> QED
  BY <1>2, RemovalKeeps DEF Logout, At

LEMMA InitPasswordResetKeeps ==
    ASSUME IInv, NEW r \in Requests, InitPasswordReset(r)
    PROVE  IInv'
<1>1. CASE At(r, "tx", {"initReset"}) /\ UNCHANGED <<users, tokens, recent, issued, overlap>>
           /\ (Goto(r, "done") \/ Goto(r, "insert"))
  BY <1>1, StopKeeps DEF At
<1>2. CASE /\ At(r, "insert", {"initReset"}) /\ req[r].user \in Live
           /\ tokens' = [tokens EXCEPT !["reset"][r] = req[r].user]
           /\ recent' = recent \cup {r}
           /\ Goto(r, "done")
           /\ UNCHANGED <<users, issued, overlap>>
  <2>1. /\ tokens' \in TokenTables /\ Sound'
        /\ \A k \in {"access", "refresh"}, t \in Requests : tokens'[k][t] = tokens[k][t]
    BY <1>2, OtherToken DEF Tables
  <2>2. recent' \subseteq Requests
    BY <1>2 DEF IInv, TypeOK
  <2> QED
    BY <1>2, <2>1, <2>2, QuietKeeps DEF At
<1> QED
  BY <1>1, <1>2 DEF InitPasswordReset

LEMMA ResendKeeps ==
    ASSUME IInv, NEW r \in Requests, Resend(r)
    PROVE  IInv'
<1>1. /\ tokens' \in TokenTables /\ Sound'
      /\ \A k \in {"access", "refresh"}, t \in Requests : tokens'[k][t] = tokens[k][t]
  BY OtherToken DEF Resend, Tables
<1>2. recent' \subseteq Requests
  BY DEF Resend, IInv, TypeOK
<1> QED
  BY <1>1, <1>2, QuietKeeps DEF Resend, At

\* The account is new: no token can refer to it yet but its confirmation token.
LEMMA RegisterKeeps ==
    ASSUME IInv, NEW r \in Requests, Register(r)
    PROVE  IInv'
<1>1. /\ users[r] = None /\ req[r].row \in Users /\ req[r].row # None
      /\ \A u \in Live : users[u].name # req[r].row.name
      /\ users' = [users EXCEPT ![r] = req[r].row]
      /\ r # None /\ users \in [Requests -> Users \cup {None}]
  BY AuthAssumption DEF Register, At, NameFree, IInv, CallsReady, TypeOK
<1>2. /\ users' \in [Requests -> Users \cup {None}] /\ users'[r] = req[r].row
      /\ \A v \in Requests \ {r} : users'[v] = users[v]
      /\ Live' = Live \cup {r} /\ r \notin Live
  BY <1>1 DEF Live
<1>3. /\ tokens' \in TokenTables
      /\ \A k \in Tables, t \in Requests :
            \/ tokens'[k][t] = tokens[k][t]
            \/ tokens'[k][t] = r /\ k = "confirmation"
  BY DEF Register, IInv, TypeOK, TokenTables, Tables, Requests0
<1>4. NoOrphans'
  BY <1>2, <1>3 DEF NoOrphans, IInv, Sound
<1>5. OneAccountPerName'
  BY <1>1, <1>2 DEF OneAccountPerName, IInv, Sound, Live
<1>6. TokensFollowPassword'
  <2> SUFFICES ASSUME NEW k \in {"access", "refresh"}, NEW t \in Requests, tokens'[k][t] # None
               PROVE  \/ issued'[t] = users'[tokens'[k][t]].password
                      \/ t \in overlap'[tokens'[k][t]]
    BY DEF TokensFollowPassword
  <2>1. k \in Tables /\ tokens'[k][t] = tokens[k][t]
    BY <1>3 DEF Tables
  <2>2. /\ tokens[k][t] \in Live
        /\ issued[t] = users[tokens[k][t]].password \/ t \in overlap[tokens[k][t]]
    BY <2>1 DEF IInv, Sound, NoOrphans, TokensFollowPassword
  <2>3. users'[tokens[k][t]] = users[tokens[k][t]]
    BY <1>2, <2>2 DEF Live
  <2> QED
    BY <2>1, <2>2, <2>3 DEF Register
<1>7. /\ req' \in [Requests -> [pc : Pcs, op : Operations \cup {"none"}, token : Requests0,
                                 user : Requests0, row : Users \cup {None}]]
      /\ CallsReady'
  BY <1>2, GotoKeepsCalls DEF Register, At
<1>8. recent' \subseteq Requests
  BY DEF Register, IInv, TypeOK
<1>9. TypeOK'
  BY <1>2, <1>3, <1>7, <1>8 DEF Register, IInv, TypeOK, TokenTables, Requests0
<1>10. Flight'
  <2>1. /\ \A k \in {"access", "refresh"}, t \in Requests : tokens'[k][t] = tokens[k][t]
        /\ UNCHANGED <<issued, overlap>> /\ req[r].pc = "tx" /\ Goto(r, "done")
    BY <1>3 DEF Tables, Register, At
  <2>2. Settled(r)' /\ Follows(r)'
    BY <2>1, GotoFlight DEF UnderWay, Pcs
  <2>3. \A s \in Requests \ {r} : req'[s] = req[s]
    BY <2>1 DEF Goto, IInv, TypeOK
  <2>4. \A s \in Requests \ {r} : req[s].pc = "inserted" => req[s].user \in Live'
    BY <1>2 DEF IInv, Flight, Settled
  <2>5. \A v \in Live' : v = r \/ (v \in Live /\ users'[v] = users[v])
    BY <1>2 DEF Live
  <2> QED
    BY <1>9, <2>1, <2>2, <2>3, <2>4, <2>5, FlightKept
<1> QED
  BY <1>4, <1>5, <1>6, <1>7, <1>9, <1>10 DEF Sound, IInv

LEMMA DeleteKeeps ==
    ASSUME IInv, NEW r \in Requests, DeleteUserAccount(r)
    PROVE  IInv'
<1> DEFINE u == req[r].user
<1>1. /\ users' \in [Requests -> Users \cup {None}]
      /\ \A v \in Requests : users'[v] = IF v = u THEN None ELSE users[v]
  BY DEF DeleteUserAccount, IInv, TypeOK
<1>2. /\ tokens' \in TokenTables
      /\ \A k \in Tables, t \in Requests :
            tokens'[k][t] = IF tokens[k][t] = u THEN None ELSE tokens[k][t]
  BY DEF DeleteUserAccount, Cascade, IInv, TypeOK, TokenTables, Tables, Requests0
<1> HIDE DEF u
<1>3. Live' = Live \ {u}
  BY <1>1 DEF Live
<1>4. NoOrphans'
  BY <1>2, <1>3 DEF NoOrphans, IInv, Sound
<1>5. OneAccountPerName'
  BY <1>1, <1>3 DEF OneAccountPerName, IInv, Sound, Live
<1>6. TokensFollowPassword'
  <2> SUFFICES ASSUME NEW k \in {"access", "refresh"}, NEW t \in Requests, tokens'[k][t] # None
               PROVE  \/ issued'[t] = users'[tokens'[k][t]].password
                      \/ t \in overlap'[tokens'[k][t]]
    BY DEF TokensFollowPassword
  <2>1. k \in Tables /\ tokens'[k][t] = tokens[k][t] /\ tokens[k][t] # u
    BY <1>2 DEF Tables
  <2>2. /\ tokens[k][t] \in Live
        /\ issued[t] = users[tokens[k][t]].password \/ t \in overlap[tokens[k][t]]
    BY <2>1 DEF IInv, Sound, NoOrphans, TokensFollowPassword
  <2>3. users'[tokens[k][t]] = users[tokens[k][t]]
    BY <1>1, <2>1, <2>2 DEF Live
  <2> QED
    BY <2>1, <2>2, <2>3 DEF DeleteUserAccount
<1>7. /\ req' \in [Requests -> [pc : Pcs, op : Operations \cup {"none"}, token : Requests0,
                                 user : Requests0, row : Users \cup {None}]]
      /\ CallsReady'
  BY <1>1, GotoKeepsCalls DEF DeleteUserAccount, At
<1>8. TypeOK'
  BY <1>1, <1>2, <1>7 DEF DeleteUserAccount, IInv, TypeOK, TokenTables, Requests0
<1>9. Flight'
  <2>1. /\ \A k \in {"access", "refresh"}, t \in Requests : tokens'[k][t] \in {tokens[k][t], None}
        /\ UNCHANGED <<issued, overlap>> /\ req[r].pc = "tx" /\ Goto(r, "done")
    BY <1>2 DEF Tables, DeleteUserAccount, At
  <2>2. Settled(r)' /\ Follows(r)'
    BY <2>1, GotoFlight DEF UnderWay, Pcs
  <2>3. \A s \in Requests \ {r} : req'[s] = req[s]
    BY <2>1 DEF Goto, IInv, TypeOK
  <2>4. \A s \in Requests \ {r} : req[s].pc = "inserted" => req[s].user \in Live'
    BY <1>3 DEF IInv, Flight, Settled, DeleteUserAccount, u
  <2>5. \A v \in Live' : v \in Live /\ users'[v] = users[v]
    BY <1>1, <1>3 DEF Live
  <2> QED
    BY <1>8, <2>1, <2>2, <2>3, <2>4, <2>5, FlightKept
<1> QED
  BY <1>4, <1>5, <1>6, <1>7, <1>8, <1>9 DEF Sound, IInv

LEMMA CompleteRegisterKeeps ==
    ASSUME IInv, NEW r \in Requests, CompleteRegister(r)
    PROVE  IInv'
<1> DEFINE Q == [pc : Pcs, op : Operations \cup {"none"}, token : Requests0,
                 user : Requests0, row : Users \cup {None}]
<1>1. CASE At(r, "tx", {"complete"}) /\ Free
  <2> DEFINE u == tokens["confirmation"][req[r].token]
             q == IF u = None THEN [req[r] EXCEPT !.pc = "failed"]
                  ELSE IF users[u].active \/ ~ users[u].confirm THEN [req[r] EXCEPT !.pc = "done"]
                  ELSE [req[r] EXCEPT !.pc = "finish", !.user = u, !.row = users[u]]
  <2>1. req' = [req EXCEPT ![r] = q] /\ UNCHANGED <<users, tokens, recent, issued, overlap>>
        /\ req[r].pc = "tx"
    BY <1>1 DEF CompleteRegister, At
  <2>2. req[r] \in Q
    BY DEF IInv, TypeOK, Requests0
  <2>3. req[r].token \in Requests
    BY <1>1 DEF At, IInv, CallsReady
  <2>4. u \in Requests0 /\ (u # None => u \in Live /\ users[u] \in Users /\ req[u].pc = "done")
    BY <2>3 DEF IInv, TypeOK, Tables, Requests0, Sound, NoOrphans, Live, CallsReady
  <2>5. req[r].op = "complete" /\ UnderWay(r)
    BY <1>1 DEF At, UnderWay
  <2> HIDE DEF u
  <2>6. /\ q \in Q /\ q.pc \in {"failed", "done", "finish"} /\ q.token \in Requests
        /\ q.op = "complete"
        /\ q.user = req[r].user \/ (u # None /\ q.user = u)
        /\ q.pc = "finish" => u # None /\ q.user = u /\ q.row = users[u]
    BY <2>2, <2>3, <2>4, <2>5 DEF Pcs
  <2> HIDE DEF q
  <2>7. req'[r] = q /\ \A s \in Requests : req[s].pc = "done" => req'[s].pc = "done"
    BY <2>1, <2>5 DEF IInv, TypeOK, UnderWay
  <2>8. Settled(r)'
    <3>1. \A k \in {"access", "refresh"} : tokens'[k][r] = None
      BY <2>1, <2>5 DEF IInv, Flight, Settled, UnderWay
    <3>2. q.user \in Requests => req[q.user].pc = "done"
      BY <2>4, <2>6 DEF IInv, Flight, Settled
    <3> QED
      BY <2>4, <2>6, <2>7, <3>1, <3>2 DEF Settled, UnderWay
  <2>9. Follows(r)'
    BY <2>1, <2>6, <2>7 DEF Follows, UnderWay
  <2> QED
    BY <2>1, <2>5, <2>6, <2>8, <2>9, OnlyRequests DEF IInv, TypeOK, UnderWay
<1>2. CASE /\ At(r, "finish", {"complete"}) /\ req[r].user \in Live
           /\ users' = [users EXCEPT ![req[r].user].active = TRUE,
                                     ![req[r].user].confirm = FALSE]
           /\ authenticateUser(r, req[r].user,
                               [tokens EXCEPT !["confirmation"][req[r].token] = None],
                               req[r].row.password)
           /\ Goto(r, "done")
           /\ UNCHANGED <<recent, overlap>>
  <2> DEFINE u == req[r].user
             kept == [tokens EXCEPT !["confirmation"][req[r].token] = None]
  <2>1. u \in Live /\ u \in Requests /\ users[u] \in Users /\ UnderWay(r)
    BY <1>2 DEF At, Live, IInv, TypeOK, UnderWay
  <2>2. /\ users' \in [Requests -> Users \cup {None}]
        /\ users'[u] \in Users /\ users'[u].name = users[u].name
        /\ users'[u].password = users[u].password
        /\ \A v \in Requests \ {u} : users'[v] = users[v]
    BY <1>2, <2>1 DEF IInv, TypeOK, Users
  <2>3. /\ kept \in TokenTables
        /\ \A k \in Tables, t \in Requests : kept[k][t] \in {tokens[k][t], None}
    BY DEF TokenTables, Tables, Requests0, IInv, TypeOK
  <2>4. Settled(r) /\ Follows(r) /\ req[r].op = "complete"
    BY <1>2 DEF IInv, Flight, At
  <2>5. req[r].row.password \in Requests0
    BY <2>1, <2>4 DEF Settled, Users, Requests0
  <2>6. req[r].row.password = users[u].password \/ r \in overlap'[u]
    BY <1>2, <2>1, <2>4 DEF Follows
  <2>7. overlap' = overlap /\ overlap' \in [Requests -> SUBSET Requests]
    BY <1>2 DEF IInv, TypeOK
  <2>8. authenticateUser(r, u, kept, req[r].row.password) /\ Goto(r, "done") /\ UNCHANGED recent
    BY <1>2
  <2> HIDE DEF kept
  <2> QED
    BY <2>1, <2>2, <2>3, <2>5, <2>6, <2>7, <2>8, IssueKeeps
<1> QED
  BY <1>1, <1>2 DEF CompleteRegister

LEMMA UpdatePushTokenKeeps ==
    ASSUME IInv, NEW r \in Requests, UpdatePushToken(r)
    PROVE  IInv'
<1> DEFINE Q == [pc : Pcs, op : Operations \cup {"none"}, token : Requests0,
                 user : Requests0, row : Users \cup {None}]
<1>0. req[r] \in Q /\ tokens \in TokenTables /\ "push" \in Tables \ {"access", "refresh"}
  BY DEF IInv, TypeOK, Requests0, TokenTables, Tables
<1>1. CASE At(r, "tx", {"push"}) /\ UNCHANGED tokens
  <2>1. PICK t \in Requests :
          req' = [req EXCEPT ![r].token = t,
                             ![r].pc = IF tokens["push"][t] # None THEN "failed" ELSE "insert"]
    BY <1>1 DEF UpdatePushToken, At
  <2>2. PICK pc \in {"failed", "insert"} :
          req' = [req EXCEPT ![r] = [req[r] EXCEPT !.token = t, !.pc = pc]]
    BY <2>1, <1>0 DEF IInv, TypeOK
  <2> DEFINE q == [req[r] EXCEPT !.token = t, !.pc = pc]
  <2>3. /\ q \in Q /\ q.pc = pc /\ q.token = t /\ q.op = "push" /\ q.user = req[r].user
    BY <1>0, <1>1 DEF Pcs, Requests0, At
  <2>4. req' = [req EXCEPT ![r] = q] /\ req[r].pc = "tx"
        /\ UNCHANGED <<users, tokens, recent, issued, overlap>>
    BY <1>1, <2>2 DEF At, UpdatePushToken
  <2> HIDE DEF q
  <2>5. Settled(r)' /\ Follows(r)'
    <3>1. req'[r] = q /\ \A s \in Requests : req[s].pc = "done" => req'[s].pc = "done"
      BY <2>4 DEF IInv, TypeOK
    <3>2. Settled(r)
      BY DEF IInv, Flight
    <3> QED
      BY <2>3, <2>4, <3>1, <3>2 DEF Settled, Follows, UnderWay
  <2> QED
    BY <2>3, <2>4, <2>5, OnlyRequests DEF IInv, TypeOK
<1>2. CASE /\ At(r, "insert", {"push"}) /\ req[r].user \in Live /\ req[r].token \in Requests
           /\ tokens' = [tokens EXCEPT !["push"][req[r].token] = req[r].user]
           /\ Goto(r, "finish") \/ Goto(r, "done")
  <2>1. /\ tokens' \in TokenTables /\ Sound'
        /\ \A k \in {"access", "refresh"}, t \in Requests : tokens'[k][t] = tokens[k][t]
    BY <1>0, <1>2, OtherToken DEF UpdatePushToken
  <2>2. recent' \subseteq Requests /\ UNCHANGED <<users, issued, overlap>>
    BY DEF UpdatePushToken, IInv, TypeOK
  <2> QED
    BY <1>2, <2>1, <2>2, QuietKeeps DEF At
<1>3. CASE req[r].pc \in {"insert", "finish"} /\ Goto(r, "failed") /\ UNCHANGED tokens
  BY <1>3, StopKeeps DEF UpdatePushToken
<1>4. CASE /\ At(r, "finish", {"push"})
           /\ \E t \in Requests : tokens' = [tokens EXCEPT !["push"][t] = None]
           /\ Goto(r, "done")
  <2>1. /\ tokens' \in TokenTables
        /\ \A k \in Tables, t \in Requests : tokens'[k][t] \in {tokens[k][t], None}
    BY <1>4, <1>0 DEF TokenTables, Tables, Requests0
  <2> QED
    BY <1>4, <2>1, RemovalKeeps DEF At, UpdatePushToken
<1>5. req[r].op = "push" => req[r].token \in Requests
  BY DEF IInv, CallsReady
<1> QED
  BY <1>1, <1>2, <1>3, <1>4, <1>5 DEF UpdatePushToken, At

-----------------------------------------------------------------------------
(* The theorems                                                            *)

LEMMA InitHolds == Init => IInv
<1> SUFFICES ASSUME Init PROVE IInv
  OBVIOUS
<1>1. TypeOK /\ CallsReady /\ Sound
  BY AuthAssumption DEF Init, Idle, TypeOK, CallsReady, Sound, NoOrphans, OneAccountPerName,
     TokensFollowPassword, Live, Tables, Pcs
<1>2. Flight
  BY AuthAssumption DEF Init, Idle, Flight, Settled, Follows, UnderWay, Tables
<1> QED
  BY <1>1, <1>2 DEF IInv

LEMMA NextKeeps ==
    ASSUME IInv, [Next]_vars
    PROVE  IInv'
<1>1. ASSUME UNCHANGED <<users, tokens, req, issued, overlap>>, recent' \subseteq Requests
      PROVE  IInv'
  <2>1. TypeOK' /\ CallsReady'
    BY <1>1 DEF IInv, TypeOK, CallsReady
  <2>2. Sound'
    BY <1>1 DEF IInv, Sound, NoOrphans, OneAccountPerName, TokensFollowPassword, Live
  <2>3. Flight'
    BY <1>1 DEF IInv, Flight, Settled, Follows, Stands, UnderWay, Live
  <2> QED
    BY <2>1, <2>2, <2>3 DEF IInv
<1>2. CASE TimePasses \/ UNCHANGED vars
  BY <1>1, <1>2 DEF TimePasses, vars, IInv, TypeOK
<1>3. ASSUME NEW r \in Requests, Steps(r) PROVE IInv'
  BY <1>3, BeginKeeps, FailuresKeep, UpdatePasswordKeeps, InsertTokensKeeps,
     LoginAndRefreshKeep, LogoutKeeps, InitPasswordResetKeeps, RegisterKeeps,
     ResendKeeps, DeleteKeeps, CompleteRegisterKeeps, UpdatePushTokenKeeps DEF Steps
<1>4. ASSUME NEW r \in Requests, ~ Steps(r),
             \/ RequestFails(r) \/ CommitFails(r)
             \/ Authenticate(r) \/ LoginReads(r) \/ TokenReads(r, "refresh", "refresh")
             \/ TokenReads(r, "reset", "reset") \/ InitPasswordResetReads(r)
             \/ RegisterReads(r) \/ CompleteRegisterReads(r)
      PROVE  IInv'
  BY <1>4, FailuresKeep, BeginningsKeep, RegisterReadsKeeps
<1> QED
  BY <1>2, <1>3, <1>4 DEF Next

\* Accounts, tokens and requests stay sound together, for any number of requests.
THEOREM Invariance == Spec => []IInv
  BY InitHolds, NextKeeps, PTL DEF Spec

\* Every variable keeps its type.
THEOREM TypeCorrect == Spec => []TypeOK
<1>1. IInv => TypeOK
  BY DEF IInv
<1> QED
  BY <1>1, Invariance, PTL

\* A token's account exists, whatever requests were in flight when one was deleted.
THEOREM TokensHaveAccounts == Spec => []NoOrphans
<1>1. IInv => NoOrphans
  BY DEF IInv, Sound
<1> QED
  BY <1>1, Invariance, PTL

\* Racing registrations of one name make one account.
THEOREM NamesAreUnique == Spec => []OneAccountPerName
<1>1. IInv => OneAccountPerName
  BY DEF IInv, Sound
<1> QED
  BY <1>1, Invariance, PTL

\* No access or refresh token of an older password is left but those of requests that
\* were under way when the password changed, and what was refreshed from them.
THEOREM TokensStandForPassword == Spec => []TokensFollowPassword
<1>1. IInv => TokensFollowPassword
  BY DEF IInv, Sound
<1> QED
  BY <1>1, Invariance, PTL

Advance ==
    \A u \in Requests :
        users[u] # None /\ users'[u] # None /\ users'[u].password # users[u].password
            => LET r == users'[u].password
               IN  req[r].pc = "tx" /\ req'[r].pc = "done"

\* Only UpdatePassword changes the password of an account that stays.
LEMMA StepsAdvance ==
    ASSUME IInv, [Next]_vars
    PROVE  Advance
<1>1. ASSUME NEW r \in Requests, UpdatePassword(r) PROVE Advance
  <2> DEFINE u == req[r].user
  <2>1. u \in Requests /\ users[u] \in Users /\ req[r].pc = "tx"
    BY <1>1 DEF UpdatePassword, At, Live, IInv, TypeOK
  <2>2. users'[u].password = r /\ \A v \in Requests \ {u} : users'[v] = users[v]
    BY <1>1, <2>1 DEF UpdatePassword, IInv, TypeOK, Users
  <2>3. req'[r].pc = "done"
    BY <1>1 DEF UpdatePassword, Goto, IInv, TypeOK
  <2> QED
    BY <2>1, <2>2, <2>3 DEF Advance
<1>2. ASSUME NEW r \in Requests, Login(r) \/ Refresh(r) PROVE users' = users
  <2>1. req[r].user \in Requests
    BY <1>2 DEF Login, Refresh, At, IInv, Flight, Settled, Live
  <2> QED
    BY <1>2, <2>1 DEF Login, Refresh, WriteLastAuthenticated, IInv, TypeOK
<1>3. ASSUME NEW r \in Requests, Register(r) PROVE Advance
  BY <1>3 DEF Register, At, Advance, IInv, CallsReady, TypeOK
<1>4. ASSUME NEW r \in Requests, DeleteUserAccount(r) PROVE Advance
  BY <1>4 DEF DeleteUserAccount, Advance, IInv, TypeOK
<1>5. ASSUME NEW r \in Requests, CompleteRegister(r) PROVE Advance
  <2>1. CASE UNCHANGED users
    BY <2>1 DEF Advance
  <2>2. CASE /\ req[r].user \in Live
             /\ users' = [users EXCEPT ![req[r].user].active = TRUE,
                                       ![req[r].user].confirm = FALSE]
    <3>1. /\ users[req[r].user] \in Users /\ req[r].user \in Requests
      BY <2>2 DEF Live, IInv, TypeOK
    <3>2. \A v \in Requests : users[v] # None => users'[v].password = users[v].password
      BY <2>2, <3>1 DEF IInv, TypeOK, Users
    <3> QED
      BY <3>2 DEF Advance
  <2> QED
    BY <1>5, <2>1, <2>2 DEF CompleteRegister
<1>6. ASSUME users' = users PROVE Advance
  BY <1>6 DEF Advance
<1>7. \/ users' = users
      \/ \E r \in Requests : \/ UpdatePassword(r) \/ Login(r) \/ Refresh(r) \/ Register(r)
                             \/ DeleteUserAccount(r) \/ CompleteRegister(r)
  BY DEF Next, Steps, vars, TimePasses, Begin, InsertRefused, InsertTokens, Logout,
     InitPasswordReset, Resend, UpdatePushToken, RequestFails, CommitFails,
     Authenticate, LoginReads, TokenReads, InitPasswordResetReads, RegisterReads,
     CompleteRegisterReads, Reads
<1> QED
  BY <1>1, <1>2, <1>3, <1>4, <1>5, <1>6, <1>7

\* No request brings back a password it read before another one changed it.
THEOREM PasswordsAdvance == Spec => PasswordsOnlyAdvance
<1>1. IInv /\ [Next]_vars => [Advance]_vars
  BY StepsAdvance
<1>2. Spec => [][Advance]_vars
  BY <1>1, Invariance, PTL DEF Spec
<1> QED
  BY <1>2 DEF PasswordsOnlyAdvance, Advance

=============================================================================
