SPECIFICATION Spec
CONSTANTS
    Names = {"m"}
    Natives = {}
    Inheritable = TRUE
    Forms = {"leak"}
    MaxClasses = 3
    MaxMembers = 2
    MaxInstances = 1
    MaxFrames = 2
    Texts = 2
    Statements = 3
INVARIANT
    SuperIsTheSuperclass
CHECK_DEADLOCK FALSE
