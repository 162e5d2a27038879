SPECIFICATION SystemSpec
CONSTANTS
    Size = 4
    Catchable = {1, 2}
    Fatal = {1, 3}
    Functions = {f, g}
    Null = Null
    Dfl = Dfl
    Ign = Ign
    Other = Other
    Calls = 3
    Arrivals = 3
    Modules <- MCModules
    Short <- MCShort
    Files <- MCFiles
    Sound <- MCSound
    MayImport <- MCMayImport
    Names = {"g"}
    Table = {"f"}
    Builtins = {"print"}
    Statements = 6
    Rank <- MCRank
    MaxCode = 2
    MaxConstants = 3
    SerialMin = 16
    LongBytes = 2
    DoubleBytes = 2
INVARIANTS
    CaughtHasHandler
    InForce
    Survives
    ModulesLoadOnce
    ErrorsRestore
    DestructorsBeforeLibraries
    SavedIsReadBack
CHECK_DEADLOCK FALSE
