\* Three overlapping calls on a key with its DKG session and on a signing session;
\* any store may fail.  No symmetry: the run checks a liveness property.
SPECIFICATION FairSpec
CONSTANTS
    Keys = {k1}
    SignSessions = {s1}
    Clients = {c1, c2, c3}
    n1 = n1
    n2 = n2
    Nodes = {n1, n2}
    NodeLists <- MCNodeLists
    PublicKeys = {pk1}
    Signatures = {sig1}
    PgFaults = TRUE
    RedisFaults = TRUE
INVARIANTS
    TypeOK
    CacheFollowsDatabase
    NoDuplicateParticipants
    PublicKeyWasReported
    ResultOnlyWhenFinished
PROPERTIES
    KeyLeavesPendingForGood
    CacheConverges
CHECK_DEADLOCK FALSE
