\* Two participants and no fault.
SPECIFICATION FairSpec
CONSTANTS
    Nodes = {p1, p2}
    Leader = p1
    Rounds = 3
    UnicastRounds = {2}
    Faults = {}
    MaxRestarts = 0
PROPERTY EveryNodeStores
CHECK_DEADLOCK FALSE
