CONSTANTS
    Requests = {r1, r2}
    Tags = {t1}
    Images = {1, 2}
    Faults = TRUE
    Seeds = {1}
    NoTag = NoTag
    None = None
    Absent = Absent
    Pick <- MCPick
    Prefixes <- MCPrefixes
SPECIFICATION FairSpec
INVARIANTS
    RowsAlive
PROPERTIES
    TaggedSeedsStick
    EveryCallReturns
