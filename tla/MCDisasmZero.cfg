SPECIFICATION Spec
CONSTANTS
    Windows <- SmallWindows
    RowMaxSeen = 20
    MaxTargets = 3
    MaxBlocks = 8
    MaxFuncs = 3
    MaxEdges = 12
    MaxInsns = 2
    MaxLong = 2
    Starting = {0}
INVARIANT EveryArrowDrawn
