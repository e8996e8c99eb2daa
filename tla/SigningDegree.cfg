\* A 2-of-3 key: the DKG gave 2 to tss-lib, ThresholdSign selects 2 signers.
SPECIFICATION FairSpec
CONSTANTS
    Nodes = {p1, p2, p3}
    Signers = {p1, p2}
    Leader = p1
    Notified = {p1, p2}
    Degree = 2
    Engine = "gg18"
    Kept = {p1, p3}
    Down = {}
    Rounds = 3
    First = 2
    BroadcastRounds = {2}
    QueueSize = 3
    Faults = {}
    MaxRestarts = 0
PROPERTY SigningSucceeds
CHECK_DEADLOCK FALSE
