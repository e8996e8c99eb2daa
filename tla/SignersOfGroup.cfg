\* Nodes come after the DKG.
SPECIFICATION Spec
CONSTANTS
    Ids = {1, 2, 3}
    Calls = {c1}
    Jobs = {"dkg", "sign"}
    Targets = {1, 2, 3}
    TotalNodes = 2
    Threshold = 2
    LookupLimit = 3
    ConsulFails = FALSE
INVARIANT SignersHoldShares
SYMMETRY Symmetry
