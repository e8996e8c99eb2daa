SPECIFICATION Spec
CONSTANTS
    Nodes = {1, 2, 3}
    Runs = {1, 2, 3, 4}
    nodeIDs <- Groups
INVARIANT IndexesNeverMove
