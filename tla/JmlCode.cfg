SPECIFICATION MCSpec
CONSTANTS
    Params = 1
    Types = {"INIT"}
    Exprs = {"try_invoke", "or", "closure"}
    Name = 3
    MaxStatements = 3
    MaxOpen = 3
    MaxHeight = 6
    Admitted = {"slots"}
    PlainTypes = {"FN", "MAIN"}
    PlainStatements = 4
    PlainOpen = 2
    PlainHeight = 20
INVARIANTS
    InStep
    PlainStackIsLocals
PROPERTIES
    BreaksLeaveTheirLoop
    PlainOperandsAreKept
CHECK_DEADLOCK FALSE
