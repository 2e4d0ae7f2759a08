SPECIFICATION Spec
CONSTANTS
    MaxTotal = 3
    MaxSpans = 2
    Maps <- SmallMaps
INVARIANT EveryMapTiles
CHECK_DEADLOCK FALSE
