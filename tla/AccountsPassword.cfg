SPECIFICATION Spec
CONSTANTS
    Requests = {r1, r2, r3, r4}
    Names = {n1}
    None = None
    Operations = {"register", "login", "update"}
    Confirmation = FALSE
    Debounce = TRUE
    MaxOpenConns = 2
    CommitsFail = FALSE
SYMMETRY Symmetry
INVARIANTS OldTokensAreGone
CHECK_DEADLOCK FALSE
