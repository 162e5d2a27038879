SPECIFICATION MCSpec
CONSTANTS
    Pieces = 4
    Productions = 5
    Kinds <- MCKinds
INVARIANTS
    AcceptedIsWellFormed
    AcceptsPrograms
    RecoversAtNextLine
    TokensAreExact
PROPERTIES
    FrontEndEnds
CHECK_DEADLOCK FALSE
