CONSTANTS
    Requests = {r1, r2, r3}
    Workers = {w1, w2}
    Slots = 1
    NoJob = NoJob
SPECIFICATION FairSpec
INVARIANTS
    IInv
PROPERTIES
    NoWorkForDeadCallers
    ImplementsService
    EveryCallReturns
    WorkersStop
    AnsweredUnlessShutdown
