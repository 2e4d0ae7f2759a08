SPECIFICATION Spec
CONSTANTS
    Windows <- SmallWindows
    RowMaxSeen = 9
    MaxTargets = 4
    MaxBlocks = 5
    MaxFuncs = 3
    MaxEdges = 6
    MaxInsns = 3
    MaxLong = 5
    Starting = {0, 4}
INVARIANT RowsFit
INVARIANT EveryFunctionListed
INVARIANT BlocksAreStraightRuns
INVARIANT OwnersCountTheirBlocks
INVARIANT GraphIsOfTheCode
INVARIANT DegreesTellReach
