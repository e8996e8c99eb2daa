SPECIFICATION Spec
CONSTANTS
    Requests = {r1, r2, r3}
    Names = {n1}
    None = None
    Operations = {"register", "initReset"}
    Confirmation = FALSE
    Debounce = TRUE
    MaxOpenConns = 2
    CommitsFail = FALSE
SYMMETRY Symmetry
INVARIANTS OneResetToken
CHECK_DEADLOCK FALSE
