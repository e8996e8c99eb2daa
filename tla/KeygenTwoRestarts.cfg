\* Both participants restart once and a call may fail.
SPECIFICATION Spec
CONSTANTS
    Nodes = {p1, p2}
    Leader = p1
    Rounds = 2
    UnicastRounds = {2}
    Faults = {"rpc"}
    MaxRestarts = 2
PROPERTY KeyDataIsFinal
CHECK_DEADLOCK FALSE
