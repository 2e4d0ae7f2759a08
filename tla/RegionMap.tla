----------------------------- MODULE RegionMap ------------------------------
(***************************************************************************)
(* The colour map of analysis/src/lib.rs: map_rows walks the byte ranges   *)
(* the tables of a file name, in file order, and turns them into rows that *)
(* follow one another - trimming what overlaps, filling what lies between  *)
(* with gap rows and what is left at the end with one overlay row.         *)
(*                                                                         *)
(* One action is one turn of the loop, by the way it leaves it.  Offsets   *)
(* are natural numbers: a start plus a length that does not fit in 64 bits *)
(* ends the loop exactly as one beyond the file does, so TooLong is both.  *)
(***************************************************************************)
EXTENDS Integers, Sequences

CONSTANT Maps   \* the files: [total, spans (sorted), loaded (PT_LOAD ranges)]

Spans == [start : Nat, length : Nat \ {0}]
Ranges == Nat \X Nat

(* spans.sort_by: by start, then by what breaks a tie *)
Sorted(seq) == \A j, k \in 1 .. Len(seq) : j <= k => seq[j].start <= seq[k].start

ASSUME MapsAssumption ==
    Maps \subseteq {m \in [total : Nat, spans : Seq(Spans), loaded : SUBSET Ranges] :
                        Sorted(m.spans)}

VARIABLES
    file,       \* the file being mapped
    i,          \* the next span
    cursor,     \* the first byte no row accounts for yet
    merged,     \* the rows so far
    claimed,    \* bytes of the rows that are neither gap nor overlay
    unloaded,   \* bytes counted as reached by no segment
    idle,       \* bytes counted as padding inside a segment
    stage       \* "walk" in the loop, "tail" after it, "done"

vars == <<file, i, cursor, merged, claimed, unloaded, idle, stage>>

Kinds == {"span", "gap", "overlay"}
Rows == [start : Nat, length : Nat, kind : Kinds]
Row(start, length, kind) == [start |-> start, length |-> length, kind |-> kind]

Init ==
    /\ file \in Maps
    /\ i = 1
    /\ cursor = 0
    /\ merged = <<>>
    /\ claimed = 0
    /\ unloaded = 0
    /\ idle = 0
    /\ stage = "walk"

-----------------------------------------------------------------------------
Each == file.spans[i]
Stop(s) == s.start + s.length

(* mutant: a span that begins on the file's last byte + 1 is not past it   *)
BeyondByOne == Each.start > file.total

Beyond == Each.start >= file.total

(* mutant: bytes an earlier row accounts for are claimed again             *)
FromUntrimmed == Each.start

(* where the span starts once the bytes already accounted for are dropped *)
From == IF Each.start < cursor THEN cursor ELSE Each.start

(* mutant: the stated length survives the trim                             *)
LeftUntrimmed == Each.length

Left == Stop(Each) - From

(* mutant: any overlap drops the whole span                                *)
CoveredByTouch == Each.start < cursor

Covered == Each.start < cursor /\ Stop(Each) <= cursor

Inside == \E r \in file.loaded : r[1] <= cursor /\ From <= r[2]

(* the row for what lies between the last row and this span, if anything *)
WithGap ==
    IF From > cursor THEN Append(merged, Row(cursor, From - cursor, "gap")) ELSE merged

CountGap ==
    /\ idle' = IF Inside THEN idle + (From - cursor) ELSE idle
    /\ unloaded' = IF Inside THEN unloaded ELSE unloaded + (From - cursor)

InLoop == stage = "walk" /\ i \in 1 .. Len(file.spans)

PastTheEnd ==
    /\ InLoop
    /\ Beyond
    /\ stage' = "tail"
    /\ UNCHANGED <<file, i, cursor, merged, claimed, unloaded, idle>>

Skip ==
    /\ InLoop
    /\ ~Beyond
    /\ Covered
    /\ i' = i + 1
    /\ UNCHANGED <<file, cursor, merged, claimed, unloaded, idle, stage>>

Reached == InLoop /\ ~Beyond /\ ~Covered

(* the span does not fit the file: the gap before it is already a row, and *)
(* the cursor has not moved                                                *)
TooLong ==
    /\ Reached
    /\ Stop(Each) > file.total
    /\ merged' = WithGap
    /\ CountGap
    /\ stage' = "tail"
    /\ UNCHANGED <<file, i, cursor, claimed>>

Claim ==
    /\ Reached
    /\ Stop(Each) <= file.total
    /\ merged' = Append(WithGap, Row(From, Left, "span"))
    /\ CountGap
    /\ claimed' = claimed + Left
    /\ cursor' = Stop(Each)
    /\ i' = i + 1
    /\ UNCHANGED <<file, stage>>

Exhausted ==
    /\ stage = "walk"
    /\ i = Len(file.spans) + 1
    /\ stage' = "tail"
    /\ UNCHANGED <<file, i, cursor, merged, claimed, unloaded, idle>>

Overlay ==
    /\ stage = "tail"
    /\ stage' = "done"
    /\ merged' = IF cursor < file.total
                 THEN Append(merged, Row(cursor, file.total - cursor, "overlay"))
                 ELSE merged
    /\ unloaded' = unloaded + (file.total - cursor)
    /\ cursor' = file.total
    /\ UNCHANGED <<file, i, claimed, idle>>

Next == PastTheEnd \/ Skip \/ TooLong \/ Claim \/ Exhausted \/ Overlay

Spec == Init /\ [][Next]_vars

-----------------------------------------------------------------------------
TypeOK ==
    /\ file \in Maps
    /\ i \in Nat \ {0}
    /\ cursor \in Nat
    /\ merged \in Seq(Rows)
    /\ claimed \in Nat
    /\ unloaded \in Nat
    /\ idle \in Nat
    /\ stage \in {"walk", "tail", "done"}

(* Each row starts where the one before it ended, none is empty, and the   *)
(* last ends at `end`: the promise the `tiles` helper of                   *)
(* analysis/tests/analysis.rs states.                                      *)
Tiles(rows, end) ==
    /\ rows = <<>> => end = 0
    /\ rows # <<>> => /\ rows[1].start = 0
                      /\ Stop(rows[Len(rows)]) = end
    /\ \A k \in 1 .. Len(rows) : rows[k].length > 0
    /\ \A k \in 1 .. Len(rows) - 1 : rows[k + 1].start = Stop(rows[k])

EveryMapTiles == stage = "done" => Tiles(merged, file.total)

(* No table points past the end of the file: every span that begins in it  *)
(* ends in it.                                                             *)
Fits(m) == \A k \in 1 .. Len(m.spans) :
               m.spans[k].start < m.total => Stop(m.spans[k]) <= m.total

(* The promise, for the files whose tables stay inside them.               *)
MapTiles == stage = "done" /\ Fits(file) => Tiles(merged, file.total)

(* For those the three totals of the first row account for every byte      *)
(* once, though they are counted at three places and the overlaps trimmed. *)
TotalsAddUp ==
    stage = "done" /\ Fits(file) => claimed + unloaded + idle = file.total

Holds(s, byte) == s.start <= byte /\ byte < Stop(s)

Mentioned(byte) == \E k \in 1 .. Len(file.spans) : Holds(file.spans[k], byte)

TrueRow(row) ==
    \A byte \in row.start .. Stop(row) - 1 :
        /\ row.kind = "span" => Mentioned(byte)
        /\ row.kind = "gap" => ~Mentioned(byte)
        /\ row.kind = "overlay" /\ Fits(file) => ~Mentioned(byte)

AllTrue(rows) == \A k \in 1 .. Len(rows) : TrueRow(rows[k])

(* Green is a claim about the tables: every byte of a row that is neither  *)
(* gap nor overlay lies in a range the file names, no byte of a gap does,  *)
(* and none of the overlay unless a table points past the end.             *)
ColoursAreTrue == AllTrue(merged)
=============================================================================
