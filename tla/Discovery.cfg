\* Two overlapping calls of any kind; nodes come and go in the table and in Consul,
\* which may fail.  Connections are to one node: the map's entries are independent.
SPECIFICATION Spec
CONSTANTS
    Ids = {1, 2, 3}
    Calls = {c1, c2}
    Jobs = {"dkg", "sign", "connect"}
    Targets = {1}
    TotalNodes = 2
    Threshold = 2
    LookupLimit = 3
    ConsulFails = TRUE
INVARIANTS
    TypeOK
    DistinctParticipants
    NoStrayConnection
SYMMETRY Symmetry
