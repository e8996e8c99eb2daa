\* StartSign is called as the signing service calls it: on the leader.
SPECIFICATION FairSpec
CONSTANTS
    Nodes = {p1, p2, p3}
    Signers = {p1, p2}
    Leader = p1
    Notified = {p1}
    Degree = 1
    Engine = "gg18"
    Kept = {p1, p3}
    Down = {}
    Rounds = 3
    First = 2
    BroadcastRounds = {2}
    QueueSize = 3
    Faults = {}
    MaxRestarts = 0
PROPERTY SigningSucceeds
CHECK_DEADLOCK FALSE
