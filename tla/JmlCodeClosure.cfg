SPECIFICATION Spec
CONSTANTS
    Params = 1
    Types = {"FN"}
    Exprs = {"closure"}
    Name = 3
    MaxStatements = 4
    MaxOpen = 2
    MaxHeight = 12
    Admitted = {"closure_in_loop"}
INVARIANT OpInRange
CHECK_DEADLOCK FALSE
