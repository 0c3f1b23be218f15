CONSTANTS
    Use = "orset"
    Replicas = {1, 2}
    Elems = {a}
    Dup = TRUE
    MaxOps = 2
    Skips = 0
    MaxDots = 4
    MaxEntries = 3
    MaxOver = 4
    Walls = {1}
    LogicalMod = 9
    Depth = 2
    Stamp = Stamp
    TsMin = 0
    TsMax = 7
SPECIFICATION Spec
INVARIANT MergeIdempotent
CHECK_DEADLOCK FALSE
