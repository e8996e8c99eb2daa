\* A node is in the table and the others in Consul.
SPECIFICATION Spec
CONSTANTS
    Ids = {1, 2, 3}
    Calls = {c1}
    Jobs = {"dkg"}
    Targets = {1, 2, 3}
    TotalNodes = 2
    Threshold = 2
    LookupLimit = 3
    ConsulFails = FALSE
INVARIANT GroupHasTotalNodes
SYMMETRY Symmetry
