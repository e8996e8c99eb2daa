SPECIFICATION Spec
CONSTANTS
    Requests = {r1, r2, r3, r4}
    Names = {n1}
    None = None
    Operations = {"register", "login", "refresh"}
    Confirmation = FALSE
    Debounce = TRUE
    MaxOpenConns = 2
    CommitsFail = FALSE
SYMMETRY Symmetry
INVARIANTS RefreshedOnce
CHECK_DEADLOCK FALSE
