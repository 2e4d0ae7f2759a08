---------------------------- MODULE MCRegionMap -----------------------------
(* Every file of up to MaxTotal bytes with up to MaxSpans named ranges,    *)
(* starting and ending up to one byte past its end, and every one segment. *)
EXTENDS RegionMap

CONSTANTS MaxTotal, MaxSpans

SmallSpans == [start : 0 .. MaxTotal + 1, length : 1 .. MaxTotal + 1]

SortedLists ==
    {l \in UNION {[1 .. n -> SmallSpans] : n \in 0 .. MaxSpans} : Sorted(l)}

SmallMaps ==
    [total : 1 .. MaxTotal, spans : SortedLists,
     loaded : {{}, {<<0, 2>>}, {<<1, MaxTotal>>}}]
=============================================================================
