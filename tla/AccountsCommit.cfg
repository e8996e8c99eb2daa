SPECIFICATION Spec
CONSTANTS
    Requests = {r1, r2}
    Names = {n1}
    None = None
    Operations = {"register", "login"}
    Confirmation = FALSE
    Debounce = TRUE
    MaxOpenConns = 2
    CommitsFail = TRUE
SYMMETRY Symmetry
PROPERTIES AnsweredMeansStored
CHECK_DEADLOCK FALSE
