\* A signal at any time, and everything around the process may fail.
SPECIFICATION Spec
CONSTANTS
    Rpcs = {c1, c2}
    Requests = {q1, q2}
    EarlySignal = TRUE
    Faults = {"consul", "silence", "listen", "outage"}
INVARIANTS
    OnlyEarlySignalMissesCalls
PROPERTIES
    RequestsFindOpenDB
    ShutdownEnds
    GoneFromConsul
CHECK_DEADLOCK FALSE
