SPECIFICATION MCSpec
CONSTANTS
    Names = {"m"}
    Natives = {"m"}
    Inheritable = TRUE
    Forms = {}
    MaxClasses = 3
    MaxMembers = 2
    MaxInstances = 1
    MaxFrames = 2
    Texts = 2
    Statements = 3
INVARIANTS
    SelfFits
    ClassesInPlace
    InvokeIsGetThenCall
    NamesAreResolved
CHECK_DEADLOCK FALSE
