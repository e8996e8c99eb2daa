\* Fewer healthy nodes than the client asks for.
SPECIFICATION Spec
CONSTANTS
    Ids = {1, 2, 3}
    Calls = {c1}
    Jobs = {"connect"}
    Targets = {1, 2, 3}
    TotalNodes = 2
    Threshold = 2
    LookupLimit = 3
    ConsulFails = FALSE
PROPERTY HealthyNodeIsFound
SYMMETRY Symmetry
