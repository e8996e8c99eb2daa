\* All scalars of up to three digits, with every engine.
SPECIFICATION EncodingSpec
CONSTANTS
    Base = 4
    Size = 3
    Engines = {"gg18", "gg20", "frost"}
INVARIANTS
    NeverMisread
    AcceptedExactly
CHECK_DEADLOCK FALSE
