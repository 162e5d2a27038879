SPECIFICATION FairSpec
CONSTANTS
    k1 = k1
    k2 = k2
    k3 = k3
    Keys <- MCKeys
    Data = {}
    NoneVal = NoneVal
    TrueVal = TrueVal
    NoKey = NoKey
    Missing = Missing
    Hash <- MCHash
    MapMin = 2
INVARIANTS
    TypeOK
    ProbeTerminates
    KeysAreFound
    CountIsExact
PROPERTIES
    ImplementsDict
    CallsReturn
