SPECIFICATION Spec
CONSTANTS
    Params = 1
    Types = {"FN"}
    Exprs = {"super"}
    Name = 90
    MaxStatements = 1
    MaxOpen = 2
    MaxHeight = 12
    Admitted = {"super"}
INVARIANT OpInRange
CHECK_DEADLOCK FALSE
