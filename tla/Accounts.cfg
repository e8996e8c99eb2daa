\* Five overlapping requests for one account; commits fail.
SPECIFICATION Spec
CONSTANTS
    Requests = {r1, r2, r3, r4, r5}
    Names = {n1}
    None = None
    Operations = {"update", "delete", "logout", "push", "login", "refresh",
                  "reset", "initReset", "register", "resend", "complete"}
    Confirmation = TRUE
    Debounce = TRUE
    MaxOpenConns = 3
    CommitsFail = TRUE
SYMMETRY Symmetry
INVARIANTS
    TypeOK
    NoOrphans
    OneAccountPerName
    TokensFollowPassword
PROPERTY PasswordsOnlyAdvance
CHECK_DEADLOCK FALSE
