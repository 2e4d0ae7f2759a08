SPECIFICATION Spec
CONSTANTS
    Windows <- SmallWindows
    RowMaxSeen = 5
    MaxTargets = 3
    MaxBlocks = 4
    MaxFuncs = 3
    MaxEdges = 6
    MaxInsns = 2
    MaxLong = 5
    Starting = {4}
INVARIANT EveryPassFits
