CONSTANTS
    Callers = {c1, c2, c3}
    Keys = {k1}
    NoCaller = NoCaller
    MaxGen = 3
SPECIFICATION FairSpec
INVARIANTS
    ReadsNeverGoBack
PROPERTIES
    CacheNeverGoesBack
    EveryGetReturns
