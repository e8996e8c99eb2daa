\* Three participants and no fault; no symmetry, the run checks liveness.
SPECIFICATION FairSpec
CONSTANTS
    Nodes = {p1, p2, p3}
    Leader = p1
    Rounds = 2
    UnicastRounds = {2}
    Faults = {}
    MaxRestarts = 0
PROPERTY KeyBecomesActive
CHECK_DEADLOCK FALSE
