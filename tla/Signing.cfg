\* Two signers and a third share holder; calls, stores, deadlines and parties fail,
\* and one process restarts.
SPECIFICATION FairSpec
CONSTANTS
    Nodes = {p1, p2, p3}
    Signers = {p1, p2}
    Leader = p1
    Notified = {p1, p2}
    Degree = 1
    Engine = "gg18"
    Kept = {p1, p3}
    Down = {}
    Rounds = 3
    First = 2
    BroadcastRounds = {2}
    QueueSize = 3
    Faults = {"rpc", "timeout", "store", "party"}
    MaxRestarts = 1
INVARIANTS
    TypeOK
    NoSendOnClosed
    NeverFull
PROPERTIES
    RunsEnd
    CallerIsAnswered
CHECK_DEADLOCK FALSE
