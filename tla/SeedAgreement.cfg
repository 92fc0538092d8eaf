CONSTANTS
    Requests = {r1, r2, r3}
    Tags = {t1}
    Images = {1, 2, 3}
    Faults = TRUE
    Seeds = {1}
    NoTag = NoTag
    None = None
    Absent = Absent
    Pick <- MCPick
    Prefixes <- MCPrefixes
SPECIFICATION QuietSpec
SYMMETRY Symmetry
INVARIANT SameImage
CHECK_DEADLOCK FALSE
