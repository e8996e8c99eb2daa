\* Three messages, whose sessions end, end late, or do not end.
SPECIFICATION BatchSpec
CONSTANT Total = 3
INVARIANT ResponseIsComplete
PROPERTY BatchEnds
CHECK_DEADLOCK FALSE
