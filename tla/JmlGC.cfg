SPECIFICATION MCSpec
CONSTANTS
    Objs = {o1, o2, o3}
    Others = {p1, p2, p3}
    Contents = {c}
    None = None
    Failing = FALSE
    MaxExempt = 2
    MaxRefs = 1
    MaxHand = 2
INVARIANTS
    TypeOK
    NothingLiveIsFreed
    InternedOnce
    TriColor
    ListIsHeap
PROPERTIES
    CollectionIsExact
    CollectionsEnd
SYMMETRY Symmetry
CHECK_DEADLOCK FALSE
