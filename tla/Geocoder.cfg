SPECIFICATION FairSpec
CONSTANTS
    Lookups = {l1, l2, l3}
    NoLookup = NoLookup
    Keys = {k1, k2}
    NoKey = NoKey
    Interval = 2
INVARIANTS
    TypeOK
    OneRequestPerKey
PROPERTIES
    ThrottleSpec
    LookupsEnd
CHECK_DEADLOCK FALSE
