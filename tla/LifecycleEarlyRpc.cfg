SPECIFICATION Spec
CONSTANTS
    Rpcs = {c1}
    Requests = {q1}
    EarlySignal = TRUE
    Faults = {}
INVARIANTS StoppedInShutdown
CHECK_DEADLOCK FALSE
