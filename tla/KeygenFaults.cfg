\* Two participants; calls, stores, deadlines and parties fail and one process restarts.
SPECIFICATION Spec
CONSTANTS
    Nodes = {p1, p2}
    Leader = p1
    Rounds = 3
    UnicastRounds = {2}
    Faults = {"rpc", "timeout", "store", "party"}
    MaxRestarts = 1
INVARIANTS
    TypeOK
    ActiveKeyIsOnDisk
    Agreement
    LoopFindsParty
PROPERTIES
    KeyDataIsFinal
    IsKeyAgreement
CHECK_DEADLOCK FALSE
