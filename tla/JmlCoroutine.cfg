SPECIFICATION MCSpec
CONSTANTS
    Main = main
    Coros = {main, module}
    Data = {d}
    Exc = Exc
    None = None
    StackMin = 3
    StackMax = 12
    FramesMin = 2
    FramesMax = 3
    MaxLocals = 2
    MaxTemps = 2
    MaxCaptures = 1
    MaxUpvalues = 2
    MaxVars = 4
    SharedVars = 3
INVARIANTS
    StacksAreSound
    UpvaluesAreExact
PROPERTIES
    CaughtWhereTried
    VariablesAreKept
CHECK_DEADLOCK FALSE
