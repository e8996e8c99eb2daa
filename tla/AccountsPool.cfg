SPECIFICATION Spec
CONSTANTS
    Requests = {r1, r2, r3}
    Names = {n1}
    None = None
    Operations = {"register", "complete"}
    Confirmation = TRUE
    Debounce = TRUE
    MaxOpenConns = 2
    CommitsFail = FALSE
PROPERTIES RequestsEnd
CHECK_DEADLOCK FALSE
