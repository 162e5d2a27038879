SPECIFICATION MCSpec
CONSTANTS
    Pieces = 4
    Productions = 0
    Kinds <- JustOperators
INVARIANT BinaryIsReachable
CHECK_DEADLOCK FALSE
