CONSTANTS
    Order <- MCOrder
    Checks = {k1, k2}
    NoCheck = NoCheck
SPECIFICATION HealthFairSpec
INVARIANTS
    HealthyIsEarned
PROPERTIES
    RunnerReturns
    OutageReported
CHECK_DEADLOCK FALSE
