SPECIFICATION Spec
CONSTANTS
    Rpcs = {c1}
    Requests = {q1}
    EarlySignal = FALSE
    Faults = {"outage"}
PROPERTIES ServingMeansListed
CHECK_DEADLOCK FALSE
