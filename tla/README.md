# A TLA+ model of go-mpc-wallet

go-mpc-wallet keeps keys that no single machine holds: participants generate a key together
(distributed key generation, DKG) and sign together (threshold signatures), a coordinator starts
these protocols over gRPC, and all processes share a PostgreSQL database and a Redis cache. Around
this there is an HTTP API with user accounts. This directory models the parts in which processes,
requests and goroutines meet, checks them with TLC and proves with TLAPS
what holds for every number of them. Paths below are relative to `src/internal/`.

## Inventory

| Component | State | Operations | Interacts through |
|---|---|---|---|
| Session manager (`mpc/session/manager.go`) | none of its own | create, get, update, join, complete, cancel, time out; complete a DKG | both stores |
| PostgreSQL store (`mpc/storage/postgresql.go`) | tables `signing_sessions`, `keys`, `nodes` | whole-row insert, update, select | shared by all nodes |
| Redis store (`mpc/storage/redis.go`) | cached sessions with a TTL | set, get; locks and pub/sub without callers | shared by all nodes |
| Key service (`mpc/key/service.go`) and create-key handler | none | placeholder key, delete, generate address | `keys`; coordinator |
| Signing service (`mpc/signing/service.go`) | the `Session` object of a call | `ThresholdSign`: create, select nodes, start, poll | session manager, gRPC |
| Coordinator (`mpc/coordinator/service.go`) | none | `CreateDKGSession`, notify the leader in a goroutine | session manager, gRPC |
| gRPC server (`mpc/grpc/server.go`) | `dkgStartOnce`, `signStartOnce` | `StartDKG`, `StartSign`, `SubmitSignatureShare` | engines, session manager |
| gRPC client (`mpc/grpc/client.go`) | connections | blocking sends without a deadline | called from the party manager's select loop |
| TSS party manager (`mpc/protocol/tss_adapter.go`) | active parties, message queues, party IDs, one lock | `executeKeygen`, `executeSigning`, incoming messages | channels, gRPC |
| Engines (`mpc/protocol/gg18.go`, `gg20.go`, `frost.go`) | key records | generate a share, sign | party manager, key share files |
| Key share storage (`mpc/storage/key_share_storage.go`) | two files per key and node | store, load, delete | survives restarts |
| State store (`mpc/session/store.go`) | WAL in memory | append, replay, round progress | no callers |
| Nodes and discovery (`mpc/node`, `mpc/discovery`) | `nodes`, Consul | register, deregister, discover | coordinator, signing, gRPC client |
| Server (`api/server.go`, `mpc/grpc/server.go`) | listeners, database handle | start, shut down | Consul, signals |
| Auth (`auth/service.go`), push tokens (`data/local`) | user and token tables | register, confirm, login, refresh, log out, reset and change the password, delete | HTTP handlers; one connection pool |

What is hard in this code:

* **Read-modify-write without locks.** Every session and key operation reads a row (a session
  possibly from the cache), changes some fields and writes all of them. A session update is two
  writes, PostgreSQL then Redis, and an error of the second is an error of the whole.
* **A protocol started by its own messages.** Only the leader is told to start. The others start
  when the first message reaches them, and that message waits inside the RPC for the queue which
  the start creates.
* **A select loop that blocks.** `executeKeygen` sends with blocking RPCs from the loop that also
  receives the party's result.
* **Restarts.** `sync.Once` guards, queues and parties live in the process; key files do not, and
  are written in several system calls.
* **Checks before transactions.** The auth service reads tokens and users on one connection and
  decides in a later transaction on another.
* **Start and shutdown overlap.** A signal can arrive while the servers are still coming up.
* **Shared objects.** All protocol runs of a node use the same `PartyID` objects and maps.

The correctness properties that follow: rows are never torn, a result belongs to its status, a key
is Active only with a public key that was generated and stored, the cache falls back in line with
the database, all stored key data belongs to one public key and is replaced as a whole, a DKG and a
signature end, no goroutine sends on a closed channel, discovery names nobody twice, tokens go with
the account and the password they were issued for, and a shutdown ends and leaves no call without a
database.

## Modules

### SessionManager

One variable per store (`pg`, `redis`, `keys`), the clock (`late[s]`: the five minutes that
`convertStorageSession` grants have passed), the set of keys whose participants were `notified`, and
for every call in flight (`Clients`) its place `pc`, the `Session` object `obj` and the `KeyMetadata`
object `kobj` it holds. `written` is a history variable: the rows PostgreSQL has held. A call runs on
any process that shares the stores, so "two clients" stands for two requests, two nodes, or both.

| Code | Actions |
|---|---|
| create-key handler, `CreatePlaceholderKey`, `CreateKeyGenSession` | `CreatePlaceholderKey`, `CreateKeyGenSession`, `CreateKeyGenSessionFails`, `CacheNewSession` |
| `CreateSession` | `CreateSession`, `CacheNewSession` |
| `JoinSession`, `CompleteSession`, `CancelSession`, `CheckTimeout`, failing `StartSign` | an action of the same name (`FailSession`), then `UpdatePG`, `UpdateRedis` or `UpdateRedisFails` |
| `CompleteKeygenSession` | `CompleteKeygenSession`, the update, `ReadKeyToActivate`, `UpdateKeyMetadata` |
| `ThresholdSign` | `CreateSession`, `SelectNodes`, the update, `SigningGivesUp` or `SigningReturns` |
| `DeleteKey`, `GenerateAddress` | the same, then `UpdateKeyMetadata` |
| TTL, eviction, failing stores | `FiveMinutesPass`, `RedisExpire`, `RedisEvict`, `StoreFails` |

A step is one statement on one store. `GetSession` may answer with the cached or the database row:
the cache may answer, miss, or fail. A call the code refuses changes nothing and is not a step.
Columns no decision reads (threshold, rounds, times, tags, address) are left out. PostgreSQL's
failures are one step, `StoreFails`, which is also the stop of the process that runs the call.

### KeyGeneration

One DKG among `Nodes`. `start` is the coordinator's `StartDKG` call, `session` and `key` the shared
database, `disk` the key data files. Per node: `once` (`dkgStartOnce`), `run` (where the
`GenerateKeyShare` goroutine is), `active` and `open` (entries of `activeKeygen` and
`incomingKeygenMessages`), `queue`, `out` (`outCh`), `item` and `call` (what the select loop is
routing and the RPC it waits for), `inc` (how often the process has restarted).

The tss-lib party is external. It is modelled from how the code uses it: it sends a message to every
other party in every round, goes on when it has the round's messages of all, and delivers its result
on `endCh` after the last round. A public key is represented by its *transcript*: the incarnations
whose round-one messages it was computed from. As the library verifies later rounds against the
round-one commitments, a party does not go on with messages of another incarnation (`CanProceed`).

Three rounds with unicast messages in the second are the library's ECDSA key generation; its second
round also broadcasts, which adds a message and no new order. `outCh` has room for one message per
party; a full channel delays the party and the loop always drains it, so it is unbounded here.
After a time-out the goroutines of a run go on without anybody receiving their results; they are
left out (`run = "ended"`). `CompleteKeygenSession` is one step here and six in SessionManager.
`ProcessIncomingKeygenMessage` looks the queue up and sends on it in one step, although the lock is
released in between (`tss_adapter.go:1042`, `1122`), and leaves the branch of a full queue out
(`1133`): a message that is lost there is one whose call fails (`CallFails`) or whose receiver
restarts (`Restart`), and both can happen at any moment. In Signing, where the properties depend on
them, the two are steps of their own.

`IsKeyAgreement` is the refinement: with `stored` read off `disk` and `published` off `key`, every
behaviour is one of `KeyAgreement`, the abstract specification of what a DKG promises (one key, whose
data each node stores once, published when somebody has stored it).

### Signing

One threshold signature among `Nodes`, of whom `Signers` were selected. `svc`, `status`, `signature`
and `start` are the signing service's call, the session and the `StartSign` calls under way; per node
the model has what KeyGeneration has, and `record` (key data in memory), `peers` (the party manager's
`partyIDToNodeID`, which outlives the run) and `found`: messages whose handler has looked the queue up
and not yet sent on it. Looking up and sending are two steps, as the code unlocks between them. A
send on a closed channel is a panic and stops the process (`Enqueue`, `Stop`).

`Engine` tells the three engines apart where they differ: GG18 and FROST load key data from disk, GG20
does not; `executeEdDSASigning` has no incoming queue and no broadcast. `Notified` is the set of
signers that `StartSign` is called on. The service calls the leader only; signing_leader_only shows
what follows. The run signing starts every signer, which is what the design describes, so that the
rest of the protocol is reached. A poll that sees the session completed may still fail to verify it.

The protocol inside is a sequence of messages from each signer to all others. It counts messages, not
rounds: the first round of the library's ECDSA signing sends two, a unicast and a broadcast, before
the party waits for anything (`First = 2`, `FirstRound`), and each later round one (`EnterRound`, which
waits for what every other signer sent up to there). `outCh` has one place per signer
(`tss_adapter.go:576`), which is what the first round takes: a unicast for each peer and one broadcast.

The commit as it stands does not compile here: `gg18.go:349` hands four arguments to
`ProcessIncomingSigningMessage`, which takes five (`tss_adapter.go:1144`); the interface of `engine.go:26`
has four, `grpc/server.go:880` and `frost.go:476` pass the fifth, `isBroadcast`. The model follows the
latter, the only reading under which the message arrives as it was sent.

### BatchSign

The goroutines of a batch, the context of each, its session and the response. The protocol inside a
session is left to Signing: a session ends as completed or failed at any time, or does not end.

### SignatureEncoding

`convertTSSSignature`, `buildDERSignature`, `padScalarBytes` and `convertFROSTSignature` as operators
on sequences of bytes, with scalars of `Size` bytes over a few byte values that include zero and one
with its top bit set, and the parser that `VerifySignature` calls. Its rules (minimal, non-negative
integers, exact lengths) are those of the library; a run takes every pair of scalars through
signing, the session's column and verification.

### KeyShareStore and KeyShareStorage

`KeyShareStore` is what callers of the storage may rely on: slots that are stored, read and deleted
each at one moment between call and return, or not at all, and that survive a crash.
`KeyShareStorage` has the directory entries, the temporary files and the files, and one action per
system call: `MkdirAll`, `OpenTemp`, `WriteTemp`, `Rename`, `ReadFile`, `Remove`, `Readdirnames`,
`RemoveDir`; each may fail, and `Crash` may come between any two. `IsAStore` is the refinement: a slot
holds what the file under its final name holds. Two calls never store the same slot at once: a key's
data is stored by the one goroutine that `dkgStartOnce` allows. The file system is that of a
running machine; a power failure, which may undo a rename that was not followed by `fsync`, is not
modelled.

### NodeDiscovery

The `nodes` table, the services Consul calls healthy, and for each goroutine of the coordinator the
stage of its `DiscoverNodes` (`ListNodes`, `DiscoverParticipants`, `Merge`) and what it is for: the
group of a DKG, the signers of a signature, or a connection. `Merge` is a Go map, so its result has
any order; `CreateDKGSession` sorts it. `opened` counts connections, `clients` is the client's map.
The branch of `CreateDKGSession` with a list of nodes in the request
(`mpc/coordinator/service.go:112`) is left out: its one caller, the create-key handler, passes an empty
list (`post_create_key.go:87`). So are database errors in discovery, after which the call returns with
nothing chosen.

### PartyIDs

The shared `PartyID` objects of a node: `Index` of each, and for each protocol run, key generation or
signing, its group and how far `SortPartyIDs` has come. Groups differ in normal operation, as a DKG
takes all the nodes discovered and a signature the first few. `met` is a history variable: the runs
that were under way at some time since a run's `setupPartyIDs`. `IndexesHold` says that only a run which
overlaps and numbers a common party otherwise can move an index; `IndexesNeverMove`, without that
exception, is what tss-lib needs and does not hold (PartyTwoGroups).

### ServerLifecycle

The main goroutine, the goroutine of `Server.Start`, the gRPC and HTTP servers, the database handle
and the entry in Consul. `EarlySignal` lets the signal come before the start has finished. A signal
that comes later finds everything up, the case most tests have. `GRPCServer.Stop` looks at the server
(`StopGrpc`) and then at the listener (`CloseListener`), and `Start` goes on between the two: a server
that comes up there loses its listener only ("cut") and handles the connections it has accepted.
`early` remembers whether the signal came before `Start` had created the server. Consul may fail
("consul"), or take a connection and not answer ("silence", `answers`): `Register` and `Deregister`
ignore their context and set no deadline, so these two steps wait for an answer.

### AuthService

Users and the five token tables, and for every request what it has read and where it is. A request is
its reads before the transaction, the transaction, and in `Login`, `Refresh`, `CompleteRegister`,
`UpdatePushToken` and `InitPasswordReset` the steps within it that other connections can come between.
A transaction takes a connection of the pool (`Free`) from its begin to its end, a statement on `s.db`
one for itself. The token or account a request creates is named after the request; a password is the
request that set it.

Transactions run at read committed and wait for each other on rows. One that writes the user's row
first is one step from there on. `Login` and `Refresh` write it last: their inserts (`InsertTokens`) take
the foreign key's share lock only, which holds up a deletion of the account and not a change of the
password, and nobody sees the tokens before the commit. A `Refresh` has also deleted its old token, on
which others wait (`TokenLocked`). It can thus come to a deadlock with `UpdatePassword`, which holds the
user's row; PostgreSQL ends one of the two, which is `RequestFails`.

`issued` is a history variable: the password that stands behind a request's tokens, in `Login` the one
of the row it verified, in `Refresh` that of the token it was given. `overlap[u]` is another: the requests
for u under way when its password was last changed, and those that refreshed their tokens.
`TokensFollowPassword` excuses these and no others; `OldTokensAreGone`, which excuses none, is what the
API description promises and does not hold (AccountsPassword).

### Others

`MCSessionManager`, `MCKeyShareStorage`, `MCNodeDiscovery`, `MCPartyIDs` and `MCAuthService` give TLC
constants and symmetry sets; the other specifications are checked as they are. The modules whose name
ends in `Proofs` hold the theorems. Definitions commented "Fault:" are faulty variants of the operation
below them, never part of a specification; replacing the operation by its variant must break a
property.

How the modules fit together: NodeDiscovery's lists without duplicates are what SessionManager assumes
of `NodeLists` and KeyGeneration of `Nodes`; KeyShareStore is the `disk` of KeyGeneration and the
storage behind `record` in Signing; one `UpdateSession` in Signing, KeyGeneration and BatchSign is
several steps in SessionManager; PartyIDs is what KeyGeneration and Signing take for granted about a
run's party IDs; the signature whose verification Signing leaves open is SignatureEncoding's.

## Runs

| Run | Config | Result | Properties |
|---|---|---|---|
| sessions | Sessions | holds | `TypeOK`, `CacheFollowsDatabase`, `NoDuplicateParticipants`, `PublicKeyWasReported`, `ResultOnlyWhenFinished`, `KeyLeavesPendingForGood`, `CacheConverges` |
| keygen_faults | KeygenFaults | holds | `TypeOK`, `ActiveKeyIsOnDisk`, `Agreement`, `LoopFindsParty`, `KeyDataIsFinal`, `IsKeyAgreement` |
| keygen_no_fault | KeygenNoFault | holds | `KeyBecomesActive` |
| signing | Signing | holds | `TypeOK`, `NoSendOnClosed`, `NeverFull`, `RunsEnd`, `CallerIsAnswered` |
| batch_sign | BatchSign | holds | `ResponseIsComplete`, `BatchEnds` |
| key_share_storage | KeyShareStorage | holds | `TypeOK`, `IsAStore` |
| discovery | Discovery | holds | `TypeOK`, `DistinctParticipants`, `NoStrayConnection` |
| accounts | Accounts | holds | `TypeOK`, `NoOrphans`, `OneAccountPerName`, `TokensFollowPassword`, `PasswordsOnlyAdvance` |
| encoding | Encoding | holds | `NeverMisread`, `AcceptedExactly` |
| lifecycle | Lifecycle | holds | `OnlyEarlySignalMissesCalls`, `RequestsFindOpenDB`, `ShutdownEnds`, `GoneFromConsul` |
| party_groups | PartyGroups | holds | `IndexesHold` |
| signing_leader_only | SigningLeaderOnly | violated | `SigningSucceeds` |

Bounds.

* **sessions.** A call touches one session and one key, and sessions do not influence each other, so
  one key with its DKG session and one signing session are enough. Three calls are a creation, a
  completion and one more that races with them, or the signing service, the participant that
  completes or fails, and a join, cancellation or time-out. The theorems remove the bound for every
  safety property. Discovery returns one list of one node; joins add the second.
* **keygen_faults** has two participants, all three rounds and every fault; **keygen_no_fault** has
  three participants, so that broadcasts and unicasts have several targets, and two rounds. One
  restart is a deliberate bound of keygen_faults: with one, `Agreement`, `ActiveKeyIsOnDisk` and
  `KeyDataIsFinal` hold, for any number of participants (`KeyGenerationProofs`); with two they do not
  (KeygenTwoRestarts below).
* **signing** has two signers, a third holder of a share who gets the broadcasts and does not sign,
  three messages each, two of them in the first round and one of these a broadcast, one restart, and
  queues for three messages. The code's queues hold 100; what matters is that the bound is reached and
  not passed: a signer is at most the first round and one message ahead of another, which is three
  messages (`RoomForAll` for any number of signers).
  One signer's key data is in memory and one's on disk only.
* **batch_sign** has three messages, so that two can end in any order while the third has not.
  `BatchAccountsForAll` removes the bound.
* **key_share_storage** has three calls on the two files of one key: a store, a read and a deletion
  overlap, and the deletion of one file meets the store of the other in the shared directory.
* **discovery** has three nodes for a group of two, so that the merged list is longer than the group,
  and two calls. Connections are to one node; entries of the map do not influence each other.
* **accounts** has five requests for one name and a pool of three connections, fewer than the
  requests, so that some of them wait. The theorems remove the bounds.
* **encoding** takes all scalars of up to three digits to the base four: with one and two leading
  zeros, with and without the top bit set, at both ends of every boundary that the two conversions
  and the parser have. The theorems hold for every base and length.
* **lifecycle** has two calls and two requests; a call influences the shutdown only by running or not.
* **party_groups** has four runs: two of all three nodes in different orders, one of the first two, who
  have the same indexes among themselves as among all, and one of the last two, who do not.

CHECK_DEADLOCK is off where the modelled system ends: calls, protocol runs, batches, requests and
processes finish and nothing has to follow. It is on for key_share_storage, discovery and
party_groups, where somebody can always begin another call.

Fairness.

* `SessionManager!Fairness`: the clock advances, Redis expires entries that are due, and a call in
  flight takes its next step or fails. No client has to begin a call.
* `KeyGeneration!FairSpec`: the HTTP request that creates the session goes on to the notification,
  the notification arrives or fails, and on each node some runnable goroutine runs. No fault has to
  happen, and nothing forces the choice of `select`.
* `Signing!FairSpec`: on each node some runnable goroutine runs, the service goes on, the three timers
  of the code (five minutes of polling, one or two minutes of a run, ten seconds for a queue) fire if what
  they wait for does not come, and a call to a node that is down breaks, by gRPC's keepalive. No
  other fault has to happen.
* `BatchSign`: goroutines run, and a context with a deadline expires. That a session ends is not
  assumed.
* `ServerLifecycle`: the goroutines of start and shutdown run, gRPC handlers end (each has a time-out
  of its own), and Consul, while it answers, removes a service whose check has failed for a minute.
  Nothing says that a signal comes, that Consul answers, or that an HTTP request ends: its client may
  be slow, and `Echo.Shutdown` has a deadline for that. There is no deadline for Consul
  (`mpc/discovery/consul.go:79`), so `ShutdownEnds` and `GoneFromConsul` suppose that it answers from some
  time on; without that a shutdown waits in `DeregisterNode` for good.
* `AuthService`: a request that can go on does. One that waits for a connection can go on when one is
  free.

### The run that shows a disagreement

**signing_leader_only** checks `SigningSucceeds`, the sequence the design draws for a signature, on the
code's own set of notified nodes, the leader. The signing branch of `handleProtocolMessage` starts
nothing, unlike the DKG branch, so the leader's messages wait ten seconds for a queue nobody creates,
`SendSigningMessage` takes the refusal for delivery, and the run times out. SigningNoFault.cfg is the
counterpart: with `StartSign` sent to both signers and no fault, TLC finds that every signature
succeeds.

### Further configurations

These cfg files go with the modules and are not part of the regular runs. Most state what a comment,
a test or a document says of the code and end in a counterexample, found in seconds; each marks the
limit of a property that does hold.

| Config (module) | Property | Outcome |
|---|---|---|
| DeletedKey (MCSessionManager) | `DeletedKeyStaysDeleted` | Violated. `CompleteKeygenSession` makes a key Active whatever its status (`mpc/session/manager.go:371`); a key deleted while its DKG runs comes back. |
| CacheError (MCSessionManager) | `CompletedKeygenActivatesKey` | Violated. `UpdateSession` fails when only its Redis write fails (`manager.go:258`): the session is completed, the key stays Pending, and later completions are refused. |
| KeygenAllStore (KeyGeneration) | `EveryNodeStores` | Violated. A party's last message and its result are ready together; `select` may take the result and drop the message (`mpc/protocol/tss_adapter.go:347`). |
| KeygenStartLost (KeyGeneration) | `StartsWithoutStartDKG` | Violated. The coordinator relies on message routing when `StartDKG` fails (`mpc/coordinator/service.go:258`); before anybody has started there are no messages. |
| KeygenTwoRestarts (KeyGeneration) | `KeyDataIsFinal` | Violated. `sync.Once` holds for one process, and the auto-start does not ask for the session's status (`mpc/grpc/server.go:685`). |
| SigningNoFault (Signing) | `SigningSucceeds` | Holds, see above. |
| SigningDegree (Signing) | `SigningSucceeds` | Violated. The DKG hands the threshold to tss-lib as the degree (`tss_adapter.go:195`), which needs one signer more than `ThresholdSign` selects. |
| SigningGG20Restarted (Signing) | `SigningSucceeds` | Violated. GG20 looks for key data in memory only (`mpc/protocol/gg20.go:43`). |
| SigningBystanderDown (Signing) | `SigningSucceeds` | Violated. A broadcast goes to every node ever heard of, and one failing send ends the run (`tss_adapter.go:905`). |
| GroupSize (MCNodeDiscovery) | `GroupHasTotalNodes` | Violated. The merged list is not cut to the size asked for (`mpc/node/discovery.go:124`). |
| SignersOfGroup (MCNodeDiscovery) | `SignersHoldShares` | Violated. Signers are discovered anew, not taken from the key's participants (`mpc/signing/service.go:103`). |
| LookupLimit (MCNodeDiscovery) | `HealthyNodeIsFound` | Violated. With fewer than three healthy services the lookup falls back on the table (`discovery.go:60`). |
| AccountsPool (MCAuthService) | `RequestsEnd` | Violated. `CompleteRegister` and `UpdatePushToken` ask the pool for a second connection (`auth/service.go:518`). |
| AccountsRefresh (MCAuthService) | `RefreshedOnce` | Violated. The token is read before the transaction that deletes it (`auth/service.go:312`). |
| AccountsReset (MCAuthService) | `OneResetToken` | Violated. The debounce check is not serialised with the insert (`auth/service.go:172`). |
| AccountsPassword (MCAuthService) | `OldTokensAreGone` | Violated. "all current access and refresh tokens are invalidated" by a change of the password (`src/api/paths/auth.yml:36`; `:83` for a reset), but a login under way has verified the old one (`auth/service.go:277`), and the deletion (`:574`) does not see its uncommitted inserts (`:594`). |
| AccountsCommit (MCAuthService) | `AnsweredMeansStored` | Violated. The error of `Commit` is assigned to a variable nobody returns (`util/db/db.go:46`). |
| LifecycleEarlyRpc (ServerLifecycle) | `StoppedInShutdown` | Violated. `Stop` finds no server and `Start` then serves on (`api/server.go:260`), with or without its listener (`mpc/grpc/server.go:978`). |
| LifecycleDeregister (ServerLifecycle) | `DeregisteredOnClose` | Violated. A deregistration can fail, or overtake the registration (`api/server.go:246`). |
| LifecycleListed (ServerLifecycle) | `ServingMeansListed` | Violated. A node that Consul dropped never registers again (`mpc/discovery/consul.go:58`). |
| PartyTwoGroups (MCPartyIDs) | `IndexesNeverMove` | Violated. A run of another group moves the indexes under a run in progress (`tss_adapter.go:122`). |

## Proofs

`SessionManagerProofs` proves, for all sets of keys, sessions, calls, nodes, node lists and results,
and with or without faults: `TypeOK`, `CacheFollowsDatabase`, `ResultOnlyWhenFinished`,
`NoDuplicateParticipants`, `PublicKeyWasReported` and the action property `KeyLeavesPendingForGood`.
The assumptions are those of `ConstantsAssumption`: key and session IDs are disjoint, the placeholder
strings are no results, and a discovered node list has no duplicates (`node_id` is a primary key).

None of the properties is inductive: a row is prepared several steps before it is written, and other
calls write in between. The inductive invariant is

    IInv == TypeOK /\ Stored /\ KeysBacked /\ CallsReady

`Stored`: both stores hold rows PostgreSQL has seen, and all of those are sound (a result exactly
when completed or overtaken by a final status, distinct participants). `KeysBacked`: a public key in
`keys` was reported by a stored, completed session, and a key with one is not Pending. `CallsReady`
says of each call, by its `pc`, what the object it carries is good for: its row is sound; after
`UpdatePG` it is among the rows seen; a call that goes on to the key carries a completed row; a key
row about to be written is backed and not Pending. Since the rows seen only grow, no step of one call
invalidates what another holds (`OtherCalls`, `MoreRows`), which is why the operations need no lock
for these properties. There is one lemma per step, and `NextKeeps` combines them.

`KeyGenerationProofs` proves, for every finite group of participants, every number of rounds, every
choice of unicast rounds and every set of faults:

* with any number of restarts, `TypeOK` and `LoopFindsParty`. The inductive invariant is
  `IInv == TypeOK /\ CallHasItem /\ RunHasParty`. `CallHasItem` ties an RPC in flight to the item the
  select loop is routing, which is where the enqueued message gets its round from; `RunHasParty` says
  that `activeKeygen` has the party from the first locked section of `executeKeygen` until the run
  ends. The bound on the incarnations follows from the bound on all restarts together by counting
  (`RestartBound`).
* with no restart, or with one (`OneRestartIsSafe`: `MaxRestarts = 0`, or one restart, at least two
  rounds and at least one participant besides the leader), `KeyDataIsFinal`, `ActiveKeyIsOnDisk`,
  `Agreement` and the refinement `IsKeyAgreement`. The code ensures the conditions on rounds and
  participants: tss-lib's key generation has three rounds, and `ValidateKeyGenRequest` (gg18.go:378)
  asks for a threshold of two. That no more than one process restarts is an assumption about the run
  of the system. Both are needed: with two restarts KeygenTwoRestarts is the counterexample, and with
  one round TLC finds one too. The inductive invariant has two parts over and above `IInv`. `Routing`
  says where the messages of a life can still come from: with one restart, only one node has a second
  life (`OneRestarted`), and the message of round one is at the head of the sender's `outCh` or has
  left it, and goes to each receiver once (`Routed`). `Lives` says what a restart cannot undo. A
  receiver gets a round-one message of a life at most once (`GotOnce`), so a life that is past round
  one has used up what every peer sent for that round (`Spent`), and the second life of the node
  cannot get past it; of the two lives at most one leaves traces beyond round one (`OneLife`). A party
  that has finished holds the last message of every life it committed to (`Committed`), hence two
  finished parties have one transcript (`SameKey`). `Saved` and `Published` carry this to the files
  and the database: key data is a whole key and the run's own, and some node has the key data of the
  key in the database. Most steps leave no new trace (`NoNewTrace`, `QuietKeeps`); the others have a
  lemma each.

`KeyShareStorageProofs` proves, for any number of keys, overlapping calls and values: `TypeOK`, and
`StorageIsAStore`, that every behaviour of the system calls, with errors and crashes between any two,
is a behaviour of the atomic `KeyShareStore`. The inductive invariant is
`TypeOK /\ CallsOK /\ OneWriter /\ Written /\ FilesWhole`. `OneWriter` (one store per slot at a time) is
what makes the fixed name of the temporary file safe; with it a file about to be renamed holds the
call's own value (`Written`), and so no file under its final name is ever half written
(`FilesWhole`). There is one lemma per system call, which says what step of the store it is: `Rename`
is the store, `Remove` the deletion, `ReadFile` the read, and the others are stutters.

`AuthServiceProofs` proves, for any number of requests and names, any size of the pool and with or
without confirmation, debounce and failing commits: `TypeOK`, `NoOrphans`, `OneAccountPerName`,
`TokensFollowPassword`, and the action property `PasswordsOnlyAdvance`. The inductive invariant is
`TypeOK /\ CallsReady /\ Flight /\ Sound`, where `Sound` are the three invariants together,
`CallsReady` says what a request in flight carries, and `Flight` what it will issue: the password it
read or the token it was given stands for the present password, or the request is excused (`Follows`),
and the rows it refers to were made by requests that have ended (`Settled`). Only a change of the password
can end the former, and it excuses everybody under way; that is the point where a request which
overlaps two changes, or refreshes a token that survived one, has to be accounted for
(`TokensStandForPassword`). The others are arguments of the database: a foreign key with cascade, a
unique index and an update of two columns hold at the moment of the write, so that a check made before
the transaction is not needed for them. It is needed for the properties that fail (AccountsRefresh,
AccountsReset, AccountsPassword).

`ServerLifecycleProofs` proves, for any number of calls and requests and any faults,
`OnlyEarlySignalMissesCalls` (`OnlyEarlySignals`) and the action property `RequestsFindOpenDB`
(`RequestsHaveADatabase`), from `TypeOK /\ RpcsAreServed /\ StopsInOrder /\ FoundStarted`: calls run only in
a server that serves, drains or is cut off; it drains only while `Stop` waits, and the database is
closed last, after Echo; and a server that was there when the signal came is found by both looks.

`SigningProofs` proves, for every finite set of nodes and signers, any degree, number of rounds and
restarts, any choice of broadcast rounds and every fault: `TypeOK`, `NoSendOnClosed`, and, if a queue
has room for `First + 1` messages of every other signer, `NeverFull`. With the two messages of the
library's first round that is three for each peer, which the code's 100 slots give for up to 34
signers; the run's three slots for two signers are the same bound met exactly. The inductive invariant
is

    IInv == /\ TypeOK /\ CleanBefore /\ SilentBefore /\ OutInOrder /\ RoutedFirst
            /\ SentOnce /\ HeardAll /\ OneAhead /\ HandlersHaveQueue /\ NoSendOnClosed

`NoSendOnClosed` is about the receiver's end of the run, and the reason for it is the senders: a party
that signed has used a message of every round from every signer (`HeardAll`), and a sender sends each
of them once (`SentOnce`), so that no handler can be left with one. For `SentOnce` to be kept by a
step, what has not been sent yet has to be known at each stage: a round not reached, an item of `outCh`,
the rest of the item that the select loop routes, a call on its way (`Unsent`). `OutInOrder` and
`RoutedFirst` order these stages, so that an item taken from `outCh` is newer than what was routed
before. A restart forgets what was sent; `SilentBefore` closes that gap, since `StartSign` reaches a
node once and a restarted signer does not speak again. `OneAhead`, that a message is of the first round
or at most one ahead of its receiver, is the bound on the queue: with `HeardAll`, of each sender at most
the `First` messages of the first round and the next one are neither used nor turned away (`RoomLeft`).

`SigningPartsProofs` proves what the smaller parts of signing promise: PartyIDs, BatchSign and
SignatureEncoding, which share no state. It extends all three, which is why the latter two name their
formulas `BatchSpec`, `EncodingSpec` and so on.

* For any nodes, runs and groups, `IndexesHold` (`OverlapsAloneMoveIndexes`). The inductive invariant
  `Types /\ HaveMet /\ SortedInPlace` says that what a run has sorted is in place if the runs it met
  agree with it, and that any two runs under way have met: so whoever writes an index under a run is
  among those it met. It rests on `Ranks`, that ranks number the members of a group from 0 on without
  repetition.
* For a batch of any size, `ResponseIsComplete` (`BatchAccountsForAll`). The inductive invariant
  `BatchInv` says that a message has an entry in at most one of the two slices, that it has one
  exactly when its goroutine has ended, and that an entry is what the session gave. That the response has
  the signatures in the order of the request rests on `Listed`: a finite set of numbers has an
  increasing enumeration. It is proved without induction, from the places of the members
  (`Places`).
* For any even base above two and any length of a scalar, `NeverMisread` and `AcceptedExactly`. The
  argument follows the bytes: padding to the fixed length (`Padded`), trimming as the parser does
  (`TrimmedPadded`), the canonical length of a DER integer (`CanonicalPadded`), the header and the two
  integers taken apart again (`DERBytes`, `DERRead`), and FROST's two halves (`FrostRead`); `ReadBack`
  joins them. The run's base four and length three are thus no restriction; the code has 256 and 32.

`NodeDiscoveryProofs` proves, for any finite set of nodes and any number of goroutines:
`DistinctParticipants`, from `ListsDistinct`, that the table and every list a goroutine holds between
two reads name no node twice (one lemma per way of making a list: a row added, a prefix taken, two
lists merged, a list sorted), and `NoStrayConnection`, which is inductive once `opened` is known to
be a function on the nodes: the second look under the lock is the whole argument. The first is the
theorem behind SessionManager's assumption on `NodeLists`. `TypeOK` follows with `DialsSomebody` (a
goroutine that dials has a node to dial): a list without repetitions is no longer than there are nodes
(`DistinctIsBounded`).

Only model-checked: every liveness property (`CacheConverges`, `KeyBecomesActive`, `RunsEnd`,
`CallerIsAnswered`, `BatchEnds`, `ShutdownEnds`, `GoneFromConsul`), which is out of the prover's reach.
Every safety property of a passing run has a theorem whose hypotheses the run's constants meet. What a
recursive definition computes for every input is out of reach too, and no module has one.

## Plan

Done: SessionManager, KeyGeneration, Signing, KeyShareStorage, AuthService, NodeDiscovery,
ServerLifecycle, PartyIDs, BatchSign, SignatureEncoding, with the runs and proofs above. Nothing that
the runs check and the prover can reach is left unproved. Worth doing next: theorems for the
properties of the further configurations, under the conditions that make them hold.

## Not modelled

* **Cryptography.** tss-lib is external; its parties are messages, rounds and transcripts.
* **Isolation beyond row locks.** AuthService has the locks on users and refresh tokens that decide its
  properties, and no snapshots: every statement reads what is committed.
* **Power failures.** The key share storage does not call `fsync`. The model's crash is that of the
  process, after which the kernel still has every completed system call.
* **Code nobody calls.** The state store's round progress and WAL, Redis locks and pub/sub,
  heartbeats and node status, `RotateKey`, `RecoverKeyShare`, `DistributeKeyShares`,
  `ValidateKeyShares`, `CreateKeyWithExistingMetadata`, `AggregateSignatures`, the coordinator's signing
  sessions and the `JoinSigningSession` stream.
* **Pure functions and I/O.** Chain adapters (hashing and encoding of public keys), HTTP validation,
  handlers that call one service method, routing and middleware other than authentication, mailer,
  push provider, translations, metrics, configuration, commands and test helpers.
* **Generated code.** SQLBoiler models, go-swagger types and five copies of the protobuf output are
  more than half of the repository's Go lines and hold no decision of the program. Of the 21,000 lines
  that are written by hand, about 8,000 bear state; the map's share of all lines is small for that
  reason.

`PROJECT.json` lists every component with its status, and every hazard with the properties that cover
it or the reason why none does.
