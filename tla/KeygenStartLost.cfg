\* Two participants; calls, StartDKG among them, may fail.
SPECIFICATION FairSpec
CONSTANTS
    Nodes = {p1, p2}
    Leader = p1
    Rounds = 2
    UnicastRounds = {2}
    Faults = {"rpc"}
    MaxRestarts = 0
PROPERTY StartsWithoutStartDKG
CHECK_DEADLOCK FALSE
