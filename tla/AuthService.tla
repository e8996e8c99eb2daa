----------------------------- MODULE AuthService -----------------------------
(***************************************************************************)
(* Accounts: auth.Service over its tables, the auth middleware in front of *)
(* it, push tokens, and the pool of database connections they share.       *)
(*                                                                         *)
(* A request reads what it needs, decides, and writes in one transaction   *)
(* (read committed) that works on what was read before it began.           *)
(* Transactions wait for each other once they have written the user's row. *)
(* One that does so first is one step.  Login and Refresh come to it last: *)
(* the tokens they have inserted by then keep the row from being deleted,  *)
(* not from being updated, and nobody else sees them until the commit.     *)
(*                                                                         *)
(* A row is named after the request that inserted it: an account after its *)
(* Register, a token and a password after the request that made them.      *)
(* Whether a typed password matches and a token has expired is the         *)
(* caller's luck: the request goes on, or RequestFails.                    *)
(***************************************************************************)
EXTENDS Naturals, FiniteSets, TLC

CONSTANTS
    Requests,
    Names,          \* usernames
    None,
    Operations,     \* the ones the clients use
    Confirmation,   \* RegistrationRequiresConfirmation
    Debounce,       \* are the debounce durations positive?
    MaxOpenConns,   \* size of the pool
    CommitsFail     \* can the database refuse a commit?

Users == [name : Names, password : Requests, active : BOOLEAN, confirm : BOOLEAN]

ASSUME AuthAssumption ==
    /\ None \notin Requests /\ None \notin Users
    /\ Confirmation \in BOOLEAN /\ Debounce \in BOOLEAN /\ CommitsFail \in BOOLEAN
    /\ MaxOpenConns \in Nat \ {0}

Tables == {"access", "refresh", "reset", "confirmation", "push"}
Pcs == {"idle", "ready", "tx", "insert", "inserted", "finish", "done", "failed"}

VARIABLES
    users,   \* users[u]: the account's row, or None
    tokens,  \* tokens[k][t]: the account that token t of table k belongs to
    recent,  \* reset and confirmation tokens made within their windows
    req,     \* what each request is doing, with the row it has read
    issued,  \* history: the password that stands behind r's tokens
    overlap  \* history: overlap[u], the requests for u that were under way when its
             \* password was last changed, and those that refreshed one of their tokens

vars == <<users, tokens, recent, req, issued, overlap>>

Idle == [pc |-> "idle", op |-> "none", user |-> None, row |-> None, token |-> None]

Init ==
    /\ users = [u \in Requests |-> None]
    /\ tokens = [k \in Tables |-> [t \in Requests |-> None]]
    /\ recent = {}
    /\ req = [r \in Requests |-> Idle]
    /\ issued = [r \in Requests |-> None]
    /\ overlap = [u \in Requests |-> {}]

-----------------------------------------------------------------------------
(* Requests and connections                                                *)

\* A transaction keeps its connection from begin to end.
Free ==
    Cardinality({r \in Requests : req[r].pc \in {"tx", "insert", "inserted", "finish"}})
        < MaxOpenConns

At(r, pc, ops) == req[r].pc = pc /\ req[r].op \in ops

UnderWay(r) == req[r].pc \notin {"idle", "done", "failed"}

Goto(r, pc) == req' = [req EXCEPT ![r].pc = pc]

Reads(r, op, u, t, pc) ==
    /\ req[r].pc = "idle" /\ op \in Operations
    /\ req' = [req EXCEPT ![r] = [pc |-> pc, op |-> op, user |-> u, token |-> t,
                                  row |-> IF u = None THEN None ELSE users[u]]]
    /\ UNCHANGED <<users, tokens, recent, issued, overlap>>

Live == {u \in Requests : users[u] # None}

Of(table, u) == {t \in Requests : tokens[table][t] = u}

\* db.WithTransaction: a connection for the whole of it.
Begin(r) ==
    /\ At(r, "ready", Operations \ {"resend"}) /\ Free
    /\ Goto(r, "tx")
    /\ UNCHANGED <<users, tokens, recent, issued, overlap>>

\* Fault: the transaction is left open.
RollbackMissing(r) ==
    /\ UnderWay(r)
    /\ Goto(r, "open")
    /\ UNCHANGED <<users, tokens, recent, issued, overlap>>

\* An error, a rejection or a deadlock the database broke: rolled back.
RequestFails(r) ==
    /\ UnderWay(r)
    /\ Goto(r, "failed")
    /\ UNCHANGED <<users, tokens, recent, issued, overlap>>

\* The deferred function sets err after the result was returned, so the caller
\* does not learn that the commit failed.
CommitFails(r) ==
    /\ CommitsFail
    /\ \/ At(r, "tx", {"update", "reset", "delete", "logout", "register"})
       \/ At(r, "insert", {"initReset"})
       \/ req[r].pc \in {"inserted", "finish"}
    /\ Goto(r, "done")
    /\ UNCHANGED <<users, tokens, recent, issued, overlap>>

\* The windows of the tokens made so far end.
TimePasses ==
    /\ recent # {} /\ recent' = {}
    /\ UNCHANGED <<users, tokens, req, issued, overlap>>

-----------------------------------------------------------------------------
(* What a request reads before its transaction                             *)

\* The auth middleware: the access token's user must be active.
Authenticate(r) ==
    /\ Free
    /\ \E op \in {"update", "delete", "logout", "push"}, t \in Requests :
         LET u == tokens["access"][t]
         IN  u # None /\ users[u].active /\ Reads(r, op, u, t, "ready")

LoginReads(r) ==
    /\ Free
    /\ \E u \in Live : users[u].active /\ Reads(r, "login", u, None, "ready")

\* Refresh and ResetPassword load the token together with its user.
TokenReads(r, op, table) ==
    /\ Free
    /\ \E t \in Requests :
         LET u == tokens[table][t]
         IN  u # None /\ users[u].active /\ Reads(r, op, u, t, "ready")

InitPasswordResetReads(r) ==
    /\ Free
    /\ \E u \in Live :
         /\ users[u].active
         /\ Reads(r, "initReset", u, None,
                  IF Debounce /\ Of("reset", u) \cap recent # {} THEN "done" ELSE "ready")

\* A name that is taken is a conflict, unless its account is unconfirmed: then
\* another confirmation token follows, outside of any transaction.
RegisterReads(r) ==
    /\ Free
    /\ \E n \in Names :
         LET taken == {u \in Live : users[u].name = n}
         IN  \/ /\ taken = {}
                /\ req[r].pc = "idle" /\ "register" \in Operations
                /\ req' = [req EXCEPT ![r] = [pc |-> "ready", op |-> "register", token |-> None,
                             user |-> None, row |-> [name |-> n, password |-> r,
                             active |-> ~ Confirmation, confirm |-> Confirmation]]]
                /\ UNCHANGED <<users, tokens, recent, issued, overlap>>
             \/ \E u \in taken :
                  IF ~ users[u].confirm THEN Reads(r, "register", u, None, "failed")
                  ELSE IF Debounce /\ Of("confirmation", u) \cap recent # {}
                       THEN Reads(r, "resend", u, None, "done")
                       ELSE Reads(r, "resend", u, None, "ready")

\* CompleteRegister begins its transaction with nothing read.
CompleteRegisterReads(r) == \E t \in Requests : Reads(r, "complete", None, t, "ready")

-----------------------------------------------------------------------------
(* The transactions                                                        *)

\* Fault: the whole row is written back as it was read.
WriteWholeRow(u, row) == row

\* authenticateUser updates last_authenticated_at and no other column.
WriteLastAuthenticated(u, row) == users[u]

\* authenticateUser: two new tokens next to those in `kept`, for whoever has proved to
\* know the password.
authenticateUser(r, u, kept, password) ==
    /\ tokens' = [kept EXCEPT !["access"][r] = u, !["refresh"][r] = u]
    /\ issued' = [issued EXCEPT ![r] = password]

\* A Refresh that has not committed yet has deleted the refresh token t: who wants to
\* delete it too waits.
TokenLocked(t) ==
    /\ tokens["refresh"][t] # None
    /\ \E s \in Requests : At(s, "inserted", {"refresh"}) /\ req[s].token = t

\* Fault: only the access tokens go.
InvalidatedAccess(u) ==
    [tokens EXCEPT !["access"] = [t \in Requests |-> IF @[t] = u THEN None ELSE @[t]]]

\* InvalidateExistingTokens.
Invalidated(u) ==
    [k \in Tables |-> [t \in Requests |->
        IF k \in {"access", "refresh"} /\ tokens[k][t] = u THEN None ELSE tokens[k][t]]]

\* Fault: no unique constraint behind the check that was made before.
NameUnchecked(n) == n \in Names

\* The table's unique constraint on username.
NameFree(n) == \A u \in Live : users[u].name # n

\* The row a token refers to is gone, or the username is taken: no insert.
InsertRefused(r) ==
    /\ \/ At(r, "tx", {"register"}) /\ ~ NameFree(req[r].row.name)
       \/ /\ \/ At(r, "tx", {"update", "reset", "login", "refresh"})
             \/ At(r, "insert", {"initReset"}) \/ At(r, "finish", {"complete"})
             \/ At(r, "ready", {"resend"}) /\ Free
             \/ At(r, "insert", {"push"}) /\ Free
          /\ req[r].user \notin Live
    /\ Goto(r, "failed")
    /\ UNCHANGED <<users, tokens, recent, issued, overlap>>

\* ResetPassword ends as UpdatePassword without a current password.
UpdatePassword(r) ==
    /\ At(r, "tx", {"update", "reset"}) /\ req[r].user \in Live
    /\ \A t \in Of("refresh", req[r].user) : ~ TokenLocked(t)
    /\ users' = [users EXCEPT ![req[r].user].password = r]
    /\ authenticateUser(r, req[r].user, Invalidated(req[r].user), r)
    /\ overlap' = [overlap EXCEPT ![req[r].user] =
                     {s \in Requests \ {r} : UnderWay(s) /\ req[s].user = req[r].user}]
    /\ Goto(r, "done")
    /\ UNCHANGED recent

\* The inserts of authenticateUser in Login and Refresh, which come before its update
\* of the user's row.  In Refresh the old token has been deleted; one that is no longer
\* there is no error.
InsertTokens(r) ==
    /\ At(r, "tx", {"login", "refresh"}) /\ req[r].user \in Live
    /\ req[r].op = "refresh" => ~ TokenLocked(req[r].token)
    /\ Goto(r, "inserted")
    /\ UNCHANGED <<users, tokens, recent, issued, overlap>>

\* The update and the commit.
Login(r) ==
    /\ At(r, "inserted", {"login"})
    /\ users' = [users EXCEPT ![req[r].user] = WriteLastAuthenticated(req[r].user, req[r].row)]
    /\ authenticateUser(r, req[r].user, tokens, req[r].row.password)
    /\ Goto(r, "done")
    /\ UNCHANGED <<recent, overlap>>

\* The same in Refresh: what its caller has proved is that it holds the old token.
Refresh(r) ==
    /\ At(r, "inserted", {"refresh"})
    /\ users' = [users EXCEPT ![req[r].user] = WriteLastAuthenticated(req[r].user, req[r].row)]
    /\ authenticateUser(r, req[r].user, [tokens EXCEPT !["refresh"][req[r].token] = None],
                        issued[req[r].token])
    /\ overlap' = [overlap EXCEPT ![req[r].user] =
                     @ \cup IF req[r].token \in @ THEN {r} ELSE {}]
    /\ Goto(r, "done")
    /\ UNCHANGED recent

\* The access token of the request, and a refresh token if one is given.
Logout(r) ==
    /\ At(r, "tx", {"logout"})
    /\ \E given \in SUBSET Requests :
         /\ Cardinality(given) <= 1 /\ \A t \in given : ~ TokenLocked(t)
         /\ tokens' = [tokens EXCEPT
                !["access"][req[r].token] = None,
                !["refresh"] = [t \in Requests |-> IF t \in given THEN None ELSE @[t]]]
    /\ Goto(r, "done")
    /\ UNCHANGED <<users, recent, issued, overlap>>

\* A token within the reuse duration is sent again; otherwise one is inserted.
InitPasswordReset(r) ==
    /\ \/ /\ At(r, "tx", {"initReset"})
          /\ Goto(r, IF Of("reset", req[r].user) \cap recent # {} THEN "done" ELSE "insert")
          /\ UNCHANGED <<tokens, recent>>
       \/ /\ At(r, "insert", {"initReset"}) /\ req[r].user \in Live
          /\ tokens' = [tokens EXCEPT !["reset"][r] = req[r].user]
          /\ recent' = recent \cup {r}
          /\ Goto(r, "done")
    /\ UNCHANGED <<users, issued, overlap>>

Register(r) ==
    /\ At(r, "tx", {"register"}) /\ NameFree(req[r].row.name)
    /\ users' = [users EXCEPT ![r] = req[r].row]
    /\ tokens' = [tokens EXCEPT !["confirmation"][r] = IF Confirmation THEN r ELSE @]
    /\ recent' = IF Confirmation THEN recent \cup {r} ELSE recent
    /\ Goto(r, "done")
    /\ UNCHANGED <<issued, overlap>>

\* Register of an unconfirmed account.
Resend(r) ==
    /\ At(r, "ready", {"resend"}) /\ Free /\ req[r].user \in Live
    /\ tokens' = [tokens EXCEPT !["confirmation"][r] = req[r].user]
    /\ recent' = recent \cup {r}
    /\ Goto(r, "done")
    /\ UNCHANGED <<users, issued, overlap>>

\* Fault: the tokens of other tables than the two are left.
Orphans(u) == [Invalidated(u) EXCEPT !["reset"] = tokens["reset"]]

\* The tables' foreign keys say ON DELETE CASCADE.
Cascade(u) ==
    [k \in Tables |-> [t \in Requests |-> IF tokens[k][t] = u THEN None ELSE tokens[k][t]]]

\* It waits for the transactions that have inserted tokens of the account.
DeleteUserAccount(r) ==
    /\ At(r, "tx", {"delete"})
    /\ \A s \in Requests : req[s].pc = "inserted" => req[s].user # req[r].user
    /\ users' = [users EXCEPT ![req[r].user] = None]
    /\ tokens' = Cascade(req[r].user)
    /\ Goto(r, "done")
    /\ UNCHANGED <<recent, issued, overlap>>

\* The token and its user are read through s.db, on a second connection.
CompleteRegister(r) ==
    \/ /\ At(r, "tx", {"complete"}) /\ Free
       /\ LET u == tokens["confirmation"][req[r].token]
          IN  req' = [req EXCEPT ![r] =
                IF u = None THEN [@ EXCEPT !.pc = "failed"]
                ELSE IF users[u].active \/ ~ users[u].confirm THEN [@ EXCEPT !.pc = "done"]
                ELSE [@ EXCEPT !.pc = "finish", !.user = u, !.row = users[u]]]
       /\ UNCHANGED <<users, tokens, recent, issued, overlap>>
    \/ /\ At(r, "finish", {"complete"}) /\ req[r].user \in Live
       /\ users' = [users EXCEPT ![req[r].user].active = TRUE, ![req[r].user].confirm = FALSE]
       /\ authenticateUser(r, req[r].user, [tokens EXCEPT !["confirmation"][req[r].token] = None],
                           req[r].row.password)
       /\ Goto(r, "done")
       /\ UNCHANGED <<recent, overlap>>

\* The new token is inserted through s.db and stays whatever follows;
\* the transaction then deletes the old token, if one is given and it is there.
UpdatePushToken(r) ==
    /\ \/ /\ At(r, "tx", {"push"})
          /\ \E t \in Requests :
               req' = [req EXCEPT ![r].token = t,
                                  ![r].pc = IF tokens["push"][t] # None THEN "failed" ELSE "insert"]
          /\ UNCHANGED tokens
       \/ /\ At(r, "insert", {"push"}) /\ Free /\ req[r].user \in Live
          /\ IF tokens["push"][req[r].token] = None
             THEN /\ tokens' = [tokens EXCEPT !["push"][req[r].token] = req[r].user]
                  /\ \E old \in BOOLEAN : Goto(r, IF old THEN "finish" ELSE "done")
             ELSE Goto(r, "failed") /\ UNCHANGED tokens
       \/ /\ At(r, "finish", {"push"})
          /\ \E t \in Requests :
               IF tokens["push"][t] = req[r].user
               THEN tokens' = [tokens EXCEPT !["push"][t] = None] /\ Goto(r, "done")
               ELSE UNCHANGED tokens /\ Goto(r, "failed")
    /\ UNCHANGED <<users, recent, issued, overlap>>

-----------------------------------------------------------------------------
Steps(r) ==
    \/ Begin(r) \/ InsertRefused(r)
    \/ UpdatePassword(r) \/ InsertTokens(r) \/ Login(r) \/ Refresh(r) \/ Logout(r)
    \/ InitPasswordReset(r) \/ Register(r) \/ Resend(r)
    \/ DeleteUserAccount(r) \/ CompleteRegister(r) \/ UpdatePushToken(r)

Next ==
    \/ TimePasses
    \/ \E r \in Requests :
         \/ Steps(r) \/ RequestFails(r) \/ CommitFails(r)
         \/ Authenticate(r) \/ LoginReads(r) \/ TokenReads(r, "refresh", "refresh")
         \/ TokenReads(r, "reset", "reset") \/ InitPasswordResetReads(r)
         \/ RegisterReads(r) \/ CompleteRegisterReads(r)

\* A request that can go on does: the Go scheduler runs it, and the pool hands
\* a connection that comes free to a waiting request.
Spec == Init /\ [][Next]_vars /\ \A r \in Requests : WF_vars(Steps(r))

-----------------------------------------------------------------------------
(* Properties                                                              *)

TypeOK ==
    /\ users \in [Requests -> Users \cup {None}]
    /\ tokens \in [Tables -> [Requests -> Requests \cup {None}]]
    /\ recent \subseteq Requests
    /\ req \in [Requests -> [pc : Pcs, op : Operations \cup {"none"}, token : Requests \cup {None},
                             user : Requests \cup {None}, row : Users \cup {None}]]
    /\ issued \in [Requests -> Requests \cup {None}]
    /\ overlap \in [Requests -> SUBSET Requests]

\* No token outlives its account, also when a request that read the account
\* before its deletion writes after it ("delete the user and all related data").
NoOrphans ==
    \A k \in Tables, t \in Requests : tokens[k][t] # None => tokens[k][t] \in Live

\* However registrations race, a username belongs to one account.
OneAccountPerName ==
    \A u, v \in Live : users[u].name = users[v].name => u = v

\* A change or reset of the password removes what was issued under older ones: every
\* access and refresh token stands for the present password, but for the tokens of
\* requests that were under way during the change and what was refreshed from those.
TokensFollowPassword ==
    \A k \in {"access", "refresh"}, t \in Requests :
        LET u == tokens[k][t]
        IN  u # None => issued[t] = users[u].password \/ t \in overlap[u]

\* A password changes to the one that the request ending now has set: no
\* request brings back a password that it read before.
PasswordsOnlyAdvance ==
    [][\A u \in Requests :
        users[u] # None /\ users'[u] # None /\ users'[u].password # users[u].password
            => LET r == users'[u].password
               IN  req[r].pc = "tx" /\ req'[r].pc = "done"]_vars

\* Every request is answered: none waits for a connection for ever.
RequestsEnd ==
    \A r \in Requests : req[r].pc # "idle" ~> req[r].pc \in {"done", "failed"}

\* The API description says that the refresh token used "will be invalidated":
\* one token is good for one refresh.
RefreshedOnce ==
    \A r, s \in Requests :
        /\ At(r, "done", {"refresh"}) /\ At(s, "done", {"refresh"})
        /\ req[r].token = req[s].token
        => r = s

\* The test says that a retry "should not send a new mail because of the
\* debounce time": within it, an account has one reset token.
OneResetToken ==
    \A u \in Live : Cardinality(Of("reset", u) \cap recent) <= 1

\* The API description says that at a change or reset all current tokens "are
\* invalidated": no token stands for an older password.
OldTokensAreGone ==
    \A k \in {"access", "refresh"}, t \in Requests :
        tokens[k][t] # None => issued[t] = users[tokens[k][t]].password

\* A login that is answered with tokens has stored them.
AnsweredMeansStored ==
    [][\A r \in Requests :
        At(r, "inserted", {"login"}) /\ req'[r].pc = "done" => tokens'["access"][r] # None]_vars

=============================================================================
