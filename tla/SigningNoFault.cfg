\* StartSign reaches both signers and nothing fails; a third share holder takes no part.
SPECIFICATION FairSpec
CONSTANTS
    Nodes = {p1, p2, p3}
    Signers = {p1, p2}
    Leader = p1
    Notified = {p1, p2}
    Degree = 1
    Engine = "gg18"
    Kept = {p1, p3}
    Down = {}
    Rounds = 3
    First = 2
    BroadcastRounds = {2}
    QueueSize = 3
    Faults = {}
    MaxRestarts = 0
PROPERTY SigningSucceeds
CHECK_DEADLOCK FALSE
