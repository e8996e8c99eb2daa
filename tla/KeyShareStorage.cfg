\* Three overlapping calls on the two files of one key.
SPECIFICATION Spec
CONSTANTS
    Calls = {c1, c2, c3}
    Keys = {k1}
    Values = {v1, v2}
    None = None
    Torn = Torn
INVARIANT TypeOK
PROPERTY IsAStore
SYMMETRY Symmetry
