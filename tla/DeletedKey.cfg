\* Creating, completing and deleting one key; no store fails.
SPECIFICATION Spec
CONSTANTS
    Keys = {k1}
    SignSessions = {}
    Clients = {c1, c2, c3}
    n1 = n1
    n2 = n2
    Nodes = {n1, n2}
    NodeLists <- MCNodeLists
    PublicKeys = {pk1}
    Signatures = {}
    PgFaults = FALSE
    RedisFaults = FALSE
SYMMETRY Symmetry
PROPERTY DeletedKeyStaysDeleted
CHECK_DEADLOCK FALSE
