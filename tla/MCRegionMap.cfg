SPECIFICATION Spec
CONSTANTS
    MaxTotal = 4
    MaxSpans = 3
    Maps <- SmallMaps
INVARIANT TypeOK
INVARIANT MapTiles
INVARIANT TotalsAddUp
INVARIANT ColoursAreTrue
CHECK_DEADLOCK FALSE
