SPECIFICATION MCSpec
CONSTANTS
    Alphabet = {"{", "}", "[", "]", ",", ":", "=", "1", "-", "s", "t", "I", "c", " "}
    MaxLength = 6
INVARIANTS
    PassesAgree
    StrictTextsAreJson
PROPERTIES
    StructureEnds
CHECK_DEADLOCK FALSE
