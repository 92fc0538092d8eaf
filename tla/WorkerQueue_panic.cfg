CONSTANTS
    Requests = {r1, r2}
    Workers = {w1}
    Slots = 1
    NoJob = NoJob
SPECIFICATION Spec
INVARIANT NoPanic
