-------------------------- MODULE RegionMapProofs ---------------------------
(***************************************************************************)
(* The promises of the colour map, for every file: any length, any number  *)
(* of ranges, any overlaps, any segments.                                  *)
(***************************************************************************)
EXTENDS RegionMap, SequenceTheorems, TLAPS

(* What MapsAssumption says of the one file a behaviour maps.              *)
LEMMA FileFacts ==
    ASSUME file \in Maps
    PROVE  /\ file.total \in Nat
           /\ file.spans \in Seq(Spans)
           /\ Len(file.spans) \in Nat
           /\ \A k \in 1 .. Len(file.spans) :
                 /\ file.spans[k].start \in Nat
                 /\ file.spans[k].length \in Nat
                 /\ file.spans[k].length > 0
                 /\ Stop(file.spans[k]) \in Nat
           /\ Sorted(file.spans)
<1>1. file \in {m \in [total : Nat, spans : Seq(Spans), loaded : SUBSET Ranges] :
                   Sorted(m.spans)}
  BY MapsAssumption
<1>2. /\ file.total \in Nat
      /\ file.spans \in Seq(Spans)
      /\ Len(file.spans) \in Nat
      /\ Sorted(file.spans)
  BY <1>1
<1>3. \A k \in 1 .. Len(file.spans) : file.spans[k] \in Spans
  BY <1>2
<1> QED
  BY <1>2, <1>3 DEF Spans, Stop

(* The range a turn of the loop looks at: it begins where the file says or *)
(* at the cursor, whichever is later, and what is left of it is not empty  *)
(* unless it is covered.                                                   *)
LEMMA RangeFacts ==
    ASSUME TypeOK, i \in 1 .. Len(file.spans)
    PROVE  /\ From \in Nat
           /\ cursor <= From
           /\ Each.start <= From
           /\ Stop(Each) \in Nat
           /\ ~Covered => Left \in Nat /\ Left > 0 /\ From + Left = Stop(Each)
           /\ From > cursor => From = Each.start
<1>1. Each.start \in Nat /\ Each.length \in Nat /\ Each.length > 0 /\ cursor \in Nat
  BY FileFacts DEF TypeOK, Each
<1> QED
  BY <1>1 DEF From, Covered, Left, Stop

(* A row put where the rows end keeps them a tiling.                       *)
LEMMA AppendTiles ==
    ASSUME NEW rows \in Seq(Rows), NEW at \in Nat, Tiles(rows, at),
           NEW n \in Nat, n > 0, NEW kind \in Kinds
    PROVE  /\ Append(rows, Row(at, n, kind)) \in Seq(Rows)
           /\ Tiles(Append(rows, Row(at, n, kind)), at + n)
<1> DEFINE new == Row(at, n, kind)
           all == Append(rows, new)
<1>1. new \in Rows /\ new.start = at /\ new.length = n
  BY DEF Row, Rows
<1>2. /\ all \in Seq(Rows)
      /\ Len(all) = Len(rows) + 1
      /\ \A k \in 1 .. Len(rows) : all[k] = rows[k]
      /\ all[Len(rows) + 1] = new
      /\ all # <<>>
  BY <1>1, AppendProperties
<1>3. all[1].start = 0
  <2>1. CASE rows = <<>>
    BY <2>1, <1>1, <1>2 DEF Tiles
  <2>2. CASE rows # <<>>
    BY <2>2, <1>2 DEF Tiles
  <2> QED
    BY <2>1, <2>2
<1>4. Stop(all[Len(all)]) = at + n
  BY <1>1, <1>2 DEF Stop
<1>5. \A k \in 1 .. Len(all) : all[k].length > 0
  BY <1>1, <1>2 DEF Tiles
<1>6. \A k \in 1 .. Len(all) - 1 : all[k + 1].start = Stop(all[k])
  <2> SUFFICES ASSUME NEW k \in 1 .. Len(all) - 1
               PROVE  all[k + 1].start = Stop(all[k])
    OBVIOUS
  <2>1. CASE k = Len(rows)
    <3>1. rows # <<>> /\ Stop(rows[Len(rows)]) = at
      BY <2>1 DEF Tiles
    <3> QED
      BY <2>1, <3>1, <1>1, <1>2
  <2>2. CASE k # Len(rows)
    <3>1. k \in 1 .. Len(rows) - 1
      BY <2>2, <1>2
    <3> QED
      BY <3>1, <1>2 DEF Tiles
  <2> QED
    BY <2>1, <2>2
<1> HIDE DEF all
<1> QED
  BY <1>2, <1>3, <1>4, <1>5, <1>6 DEF Tiles, all

-----------------------------------------------------------------------------
(* The rows account for every byte before the cursor once, and so do the   *)
(* three totals.                                                           *)
Accounted ==
    /\ Tiles(merged, cursor)
    /\ claimed + unloaded + idle = cursor

(* A turn that leaves by TooLong has put a gap row in front of the cursor, *)
(* so after the loop the account is only right for files whose tables fit. *)
Inv ==
    /\ TypeOK
    /\ cursor <= file.total
    /\ stage = "walk" => i <= Len(file.spans) + 1
    /\ stage = "walk" \/ Fits(file) => Accounted
    /\ stage = "done" => cursor = file.total

(* The gap row and its count, common to the two ways on.                   *)
LEMMA GapFacts ==
    ASSUME TypeOK, i \in 1 .. Len(file.spans), CountGap
    PROVE  /\ WithGap \in Seq(Rows)
           /\ Tiles(merged, cursor) => Tiles(WithGap, From)
           /\ idle' \in Nat /\ unloaded' \in Nat
           /\ unloaded' + idle' = unloaded + idle + (From - cursor)
<1>1. /\ From \in Nat /\ cursor \in Nat /\ cursor <= From
      /\ idle \in Nat /\ unloaded \in Nat /\ merged \in Seq(Rows)
  BY RangeFacts DEF TypeOK
<1>2. /\ idle' \in Nat /\ unloaded' \in Nat
      /\ unloaded' + idle' = unloaded + idle + (From - cursor)
  BY <1>1 DEF CountGap
<1>3. CASE From > cursor
  <2>1. WithGap = Append(merged, Row(cursor, From - cursor, "gap"))
    BY <1>3 DEF WithGap
  <2>2. From - cursor \in Nat /\ From - cursor > 0 /\ cursor + (From - cursor) = From
    BY <1>1, <1>3
  <2>3. Row(cursor, From - cursor, "gap") \in Rows
    BY <1>1, <2>2 DEF Row, Rows, Kinds
  <2>4. WithGap \in Seq(Rows)
    BY <1>1, <2>1, <2>3, AppendProperties
  <2>5. ASSUME Tiles(merged, cursor)
        PROVE  Tiles(WithGap, From)
    <3>1. "gap" \in Kinds
      BY DEF Kinds
    <3>2. Tiles(Append(merged, Row(cursor, From - cursor, "gap")), cursor + (From - cursor))
      BY ONLY AppendTiles, <1>1, <2>2, <2>5, <3>1
    <3> QED
      BY <2>1, <2>2, <3>2
  <2> QED
    BY <1>2, <2>4, <2>5
<1>4. CASE ~(From > cursor)
  <2>1. WithGap = merged /\ From = cursor
    BY <1>1, <1>4 DEF WithGap
  <2> QED
    BY <1>1, <1>2, <2>1
<1> QED
  BY <1>3, <1>4

(* Every turn of the loop, and the overlay after it, keeps the account.    *)
LEMMA InvInductive ==
    ASSUME Inv, [Next]_vars
    PROVE  Inv'
<1> USE DEF Inv
<1>1. /\ file.total \in Nat /\ Len(file.spans) \in Nat
      /\ cursor \in Nat /\ i \in Nat /\ i > 0
      /\ claimed \in Nat /\ unloaded \in Nat /\ idle \in Nat
      /\ merged \in Seq(Rows)
  BY FileFacts DEF TypeOK
<1>2. CASE PastTheEnd
  BY <1>1, <1>2 DEF PastTheEnd, InLoop, TypeOK, Accounted
<1>3. CASE Skip
  BY <1>1, <1>3 DEF Skip, InLoop, TypeOK, Accounted
<1>4. CASE Exhausted
  BY <1>1, <1>4 DEF Exhausted, TypeOK, Accounted
<1>5. CASE TooLong
  <2>1. i \in 1 .. Len(file.spans) /\ CountGap /\ stage = "walk"
    BY <1>5 DEF TooLong, Reached, InLoop
  <2>2. TypeOK'
    BY <1>1, <1>5, <2>1, GapFacts DEF TooLong, TypeOK
  <2>3. ~Fits(file)
    <3>1. Each.start < file.total /\ Stop(Each) > file.total
      BY <1>1, <1>5, <2>1, FileFacts DEF TooLong, Reached, Beyond, Each, TypeOK
    <3>2. Stop(Each) \in Nat
      BY <2>1, RangeFacts
    <3> QED
      BY <1>1, <2>1, <3>1, <3>2 DEF Fits, Each
  <2> QED
    BY <1>1, <1>5, <2>2, <2>3 DEF TooLong, Fits
<1>6. CASE Claim
  <2>1. /\ i \in 1 .. Len(file.spans) /\ CountGap /\ stage = "walk" /\ ~Covered
        /\ Stop(Each) <= file.total
    BY <1>6 DEF Claim, Reached, InLoop
  <2>2. /\ From \in Nat /\ cursor <= From
        /\ Left \in Nat /\ Left > 0 /\ From + Left = Stop(Each)
        /\ Stop(Each) \in Nat
    BY <2>1, RangeFacts
  <2>3. /\ WithGap \in Seq(Rows) /\ Tiles(WithGap, From)
        /\ idle' \in Nat /\ unloaded' \in Nat
        /\ unloaded' + idle' = unloaded + idle + (From - cursor)
    BY <2>1, GapFacts DEF Accounted
  <2>4. "span" \in Kinds
    BY DEF Kinds
  <2>5. /\ merged' \in Seq(Rows)
        /\ Tiles(merged', cursor')
    BY <1>6, <2>2, <2>3, <2>4, AppendTiles DEF Claim
  <2>6. claimed' \in Nat /\ claimed' = claimed + Left /\ cursor' = Stop(Each)
    BY <1>1, <1>6, <2>2 DEF Claim
  <2>7. Accounted'
    <3>1. claimed + unloaded + idle = cursor
      BY <2>1 DEF Accounted
    <3>2. claimed' + unloaded' + idle' = cursor'
      <4>1. claimed' + unloaded' + idle' = claimed + Left + (unloaded' + idle')
        BY <1>1, <2>2, <2>3, <2>6
      <4>2. claimed' + unloaded' + idle' = claimed + Left + (unloaded + idle + (From - cursor))
        BY <2>3, <4>1
      <4>3. \A a, b, c, d, l, f \in Nat :
               a + b + c = d => a + l + (b + c + (f - d)) = f + l
        OBVIOUS
      <4> QED
        BY <1>1, <2>2, <2>6, <3>1, <4>2, <4>3
    <3> QED
      BY <2>5, <3>2 DEF Accounted
  <2>8. TypeOK'
    BY <1>1, <1>6, <2>1, <2>2, <2>3, <2>5, <2>6 DEF Claim, TypeOK
  <2> QED
    BY <1>1, <1>6, <2>1, <2>2, <2>7, <2>8 DEF Claim
<1>7. CASE Overlay
  <2>1. file.total - cursor \in Nat /\ cursor' = file.total /\ stage' = "done"
    BY <1>1, <1>7 DEF Overlay
  <2>2. /\ file' = file /\ i' = i /\ claimed' = claimed /\ idle' = idle
        /\ unloaded' = unloaded + (file.total - cursor)
    BY <1>7 DEF Overlay
  <2>3. /\ merged' \in Seq(Rows)
        /\ Tiles(merged, cursor) => Tiles(merged', file.total)
    <3>1. CASE cursor < file.total
      <4>1. merged' = Append(merged, Row(cursor, file.total - cursor, "overlay"))
        BY <1>7, <3>1 DEF Overlay
      <4>2. "overlay" \in Kinds
        BY DEF Kinds
      <4>3. file.total - cursor > 0 /\ cursor + (file.total - cursor) = file.total
        BY <1>1, <3>1
      <4>4. Row(cursor, file.total - cursor, "overlay") \in Rows
        BY <1>1, <2>1, <4>2 DEF Row, Rows
      <4>5. merged' \in Seq(Rows)
        BY <1>1, <4>1, <4>4, AppendProperties
      <4>6. ASSUME Tiles(merged, cursor)
            PROVE  Tiles(merged', file.total)
        BY <1>1, <2>1, <4>1, <4>2, <4>3, <4>6, AppendTiles
      <4> QED
        BY <4>5, <4>6
    <3>2. CASE ~(cursor < file.total)
      BY <1>1, <1>7, <3>2 DEF Overlay
    <3> QED
      BY <3>1, <3>2
  <2>4. TypeOK'
    BY <1>1, <2>1, <2>2, <2>3 DEF TypeOK
  <2>5. Fits(file) => Accounted'
    <3>1. claimed + unloaded + idle = cursor
            => claimed' + unloaded' + idle' = file.total
      <4> DEFINE a == claimed
                 b == unloaded
                 c == idle
                 d == cursor
                 t == file.total
      <4>1. a \in Nat /\ b \in Nat /\ c \in Nat /\ d \in Nat /\ t \in Nat
        BY <1>1
      <4>2. claimed' = a /\ idle' = c /\ unloaded' = b + (t - d)
        BY <2>2
      <4>3. a + b + c = d => a + (b + (t - d)) + c = t
        <5> HIDE DEF a, b, c, d, t
        <5> QED
          BY <4>1
      <4> QED
        BY <4>2, <4>3, Zenon
    <3> QED
      BY <2>1, <2>3, <3>1 DEF Accounted
  <2>6. (cursor <= file.total)'
    BY <1>1, <2>1, <2>2
  <2>7. (stage = "walk" \/ Fits(file) => Accounted)'
    <3>1. Fits(file)' <=> Fits(file)
      BY <2>2 DEF Fits
    <3> QED
      BY <2>1, <2>5, <3>1
  <2>8. (stage = "walk" => i <= Len(file.spans) + 1)' /\ (stage = "done" => cursor = file.total)'
    BY <2>1, <2>2
  <2> QED
    BY <2>4, <2>6, <2>7, <2>8
<1>8. CASE UNCHANGED vars
  BY <1>8 DEF vars, TypeOK, Accounted
<1> QED
  BY <1>2, <1>3, <1>4, <1>5, <1>6, <1>7, <1>8 DEF Next

LEMMA InvInitially == Init => Inv
<1> SUFFICES ASSUME Init PROVE Inv
  OBVIOUS
<1>1. file.total \in Nat /\ Len(file.spans) \in Nat
  BY FileFacts DEF Init
<1>2. TypeOK
  BY DEF Init, TypeOK, Rows
<1>3. Accounted
  BY DEF Init, Accounted, Tiles
<1> QED
  BY <1>1, <1>2, <1>3 DEF Init, Inv

THEOREM InvHolds == Spec => []Inv
<1>1. Inv /\ [Next]_vars => Inv'
  BY InvInductive
<1> QED
  BY InvInitially, <1>1, PTL DEF Spec

(* map_rows never counts below zero and never lists a malformed row.       *)
THEOREM TypeCorrect == Spec => []TypeOK
<1>1. Inv => TypeOK
  BY DEF Inv
<1> QED
  BY InvHolds, <1>1, PTL

(* The map of a file whose tables stay inside it tiles the file.           *)
THEOREM MapTilesAlways == Spec => []MapTiles
<1>1. Inv => MapTiles
  BY DEF Inv, Accounted, MapTiles
<1> QED
  BY InvHolds, <1>1, PTL

(* And its three totals account for every byte exactly once.               *)
THEOREM TotalsAlwaysAddUp == Spec => []TotalsAddUp
<1>1. Inv => TotalsAddUp
  BY DEF Inv, Accounted, TotalsAddUp
<1> QED
  BY InvHolds, <1>1, PTL

-----------------------------------------------------------------------------
(* Colours.  Every range already looked at ends by the cursor; after the   *)
(* loop nothing behind the cursor is named, if the tables fit.             *)
Passed == \A k \in 1 .. i - 1 : Stop(file.spans[k]) <= cursor

Unnamed == \A byte \in cursor .. file.total - 1 : ~Mentioned(byte)

Told ==
    /\ ColoursAreTrue
    /\ stage = "walk" => Passed
    /\ stage = "tail" /\ Fits(file) => Unnamed

LEMMA AppendTrue ==
    ASSUME NEW rows \in Seq(Rows), AllTrue(rows), NEW row \in Rows, TrueRow(row)
    PROVE  AllTrue(Append(rows, row))
<1> DEFINE all == Append(rows, row)
<1>1. /\ Len(all) = Len(rows) + 1
      /\ \A k \in 1 .. Len(rows) : all[k] = rows[k]
      /\ all[Len(rows) + 1] = row
      /\ Len(rows) \in Nat
  BY AppendProperties, LenProperties
<1> HIDE DEF all
<1>2. \A k \in 1 .. Len(all) : k \in 1 .. Len(rows) \/ k = Len(rows) + 1
  BY <1>1
<1>3. AllTrue(all)
  BY <1>1, <1>2 DEF AllTrue
<1> QED
  BY <1>3 DEF all

(* No byte between the cursor and a later range is named: the ranges       *)
(* before are passed, and the rest begin no earlier, being sorted.         *)
LEMMA NothingBetween ==
    ASSUME TypeOK, Passed, i \in 1 .. Len(file.spans),
           NEW byte \in Nat, cursor <= byte, byte < Each.start
    PROVE  ~Mentioned(byte)
<1> SUFFICES ASSUME NEW k \in 1 .. Len(file.spans), Holds(file.spans[k], byte)
             PROVE  FALSE
  BY DEF Mentioned
<1>1. /\ file.spans[k].start \in Nat /\ Stop(file.spans[k]) \in Nat
      /\ Each.start \in Nat /\ cursor \in Nat /\ Sorted(file.spans)
  BY FileFacts DEF TypeOK, Each
<1>2. CASE k < i
  <2>1. Stop(file.spans[k]) <= cursor
    BY <1>2 DEF Passed
  <2> QED
    BY <1>1, <2>1 DEF Holds
<1>3. CASE ~(k < i)
  <2>1. file.spans[k].start >= Each.start
    BY <1>1, <1>3 DEF Sorted, Each
  <2> QED
    BY <1>1, <2>1 DEF Holds
<1> QED
  BY <1>2, <1>3

LEMMA GapIsTrue ==
    ASSUME TypeOK, Passed, ColoursAreTrue, i \in 1 .. Len(file.spans)
    PROVE  AllTrue(WithGap)
<1>1. /\ From \in Nat /\ cursor \in Nat /\ merged \in Seq(Rows)
      /\ From > cursor => From = Each.start
  BY RangeFacts DEF TypeOK
<1>2. CASE From > cursor
  <2> DEFINE row == Row(cursor, From - cursor, "gap")
  <2>1. row \in Rows /\ row.start = cursor /\ Stop(row) = From /\ row.kind = "gap"
    BY <1>1, <1>2 DEF Row, Rows, Kinds, Stop
  <2>2. \A byte \in cursor .. From - 1 : ~Mentioned(byte)
    <3> SUFFICES ASSUME NEW byte \in cursor .. From - 1
                 PROVE  ~Mentioned(byte)
      OBVIOUS
    <3>1. byte \in Nat /\ cursor <= byte /\ byte < Each.start
      BY <1>1, <1>2
    <3> QED
      BY <3>1, NothingBetween
  <2> HIDE DEF row
  <2>3. TrueRow(row)
    BY <2>1, <2>2 DEF TrueRow
  <2>4. AllTrue(Append(merged, row))
    BY <1>1, <2>1, <2>3, AppendTrue DEF ColoursAreTrue
  <2> QED
    BY <1>2, <2>4 DEF WithGap, row
<1>3. CASE ~(From > cursor)
  BY <1>3 DEF WithGap, ColoursAreTrue
<1> QED
  BY <1>2, <1>3

LEMMA ToldInductive ==
    ASSUME Inv, Told, [Next]_vars
    PROVE  Told'
<1>1. /\ TypeOK /\ file.total \in Nat /\ Len(file.spans) \in Nat
      /\ cursor \in Nat /\ i \in Nat /\ i > 0 /\ cursor <= file.total
      /\ merged \in Seq(Rows)
      /\ \A k \in 1 .. Len(file.spans) : Stop(file.spans[k]) \in Nat
  BY FileFacts DEF Inv, TypeOK
<1>2. CASE PastTheEnd
  <2>1. /\ i \in 1 .. Len(file.spans) /\ Each.start >= file.total /\ stage = "walk"
        /\ stage' = "tail" /\ UNCHANGED <<file, i, cursor, merged>>
    BY <1>2 DEF PastTheEnd, InLoop, Beyond
  <2>2. Each.start \in Nat
    BY <1>1, <2>1, FileFacts DEF TypeOK, Each
  <2>3. \A byte \in cursor .. file.total - 1 : ~Mentioned(byte)
    <3> SUFFICES ASSUME NEW byte \in cursor .. file.total - 1
                 PROVE  ~Mentioned(byte)
      OBVIOUS
    <3>1. byte \in Nat /\ cursor <= byte /\ byte < Each.start
      BY <1>1, <2>1, <2>2
    <3> QED
      BY <1>1, <2>1, <3>1, NothingBetween DEF Told
  <2> QED
    BY <2>1, <2>3 DEF Told, ColoursAreTrue, AllTrue, TrueRow, Unnamed, Mentioned, Fits
<1>3. CASE Skip
  <2>1. /\ i \in 1 .. Len(file.spans) /\ stage = "walk" /\ stage' = "walk"
        /\ i' = i + 1 /\ UNCHANGED <<file, cursor, merged>>
        /\ Stop(file.spans[i]) <= cursor
    BY <1>3 DEF Skip, InLoop, Covered, Each
  <2>2. \A k \in 1 .. i : Stop(file.spans[k]) <= cursor
    BY <1>1, <2>1 DEF Told, Passed
  <2>3. Passed'
    BY <1>1, <2>1, <2>2 DEF Passed
  <2> QED
    BY <2>1, <2>3 DEF Told, ColoursAreTrue, AllTrue, TrueRow, Mentioned, Fits
<1>4. CASE Exhausted
  <2>1. /\ stage = "walk" /\ stage' = "tail" /\ i = Len(file.spans) + 1
        /\ UNCHANGED <<file, i, cursor, merged>>
    BY <1>4 DEF Exhausted
  <2>2. \A k \in 1 .. Len(file.spans) : Stop(file.spans[k]) <= cursor
    BY <1>1, <2>1 DEF Told, Passed
  <2>3. \A byte \in cursor .. file.total - 1 : ~Mentioned(byte)
    <3> SUFFICES ASSUME NEW byte \in cursor .. file.total - 1,
                        NEW k \in 1 .. Len(file.spans),
                        byte < Stop(file.spans[k])
                 PROVE  FALSE
      BY DEF Mentioned, Holds
    <3> QED
      BY <1>1, <2>2
  <2> QED
    BY <2>1, <2>3 DEF Told, ColoursAreTrue, AllTrue, TrueRow, Unnamed, Mentioned, Fits
<1>5. CASE TooLong
  <2>1. /\ i \in 1 .. Len(file.spans) /\ stage = "walk" /\ stage' = "tail"
        /\ merged' = WithGap /\ UNCHANGED file
    BY <1>5 DEF TooLong, Reached, InLoop
  <2>2. AllTrue(merged')
    BY <1>1, <2>1, GapIsTrue DEF Told
  <2>3. ~Fits(file)
    <3>1. Each.start < file.total /\ Stop(Each) > file.total
      BY <1>1, <1>5, <2>1, FileFacts DEF TooLong, Reached, Beyond, Each, TypeOK
    <3> QED
      BY <1>1, <2>1, <3>1 DEF Fits, Each
  <2> QED
    BY <2>1, <2>2, <2>3 DEF Told, ColoursAreTrue, AllTrue, TrueRow, Mentioned, Fits
<1>6. CASE Claim
  <2>1. /\ i \in 1 .. Len(file.spans) /\ stage = "walk" /\ stage' = "walk"
        /\ merged' = Append(WithGap, Row(From, Left, "span"))
        /\ cursor' = Stop(Each) /\ i' = i + 1 /\ UNCHANGED file
        /\ ~Covered /\ CountGap
    BY <1>6 DEF Claim, Reached, InLoop
  <2>2. /\ From \in Nat /\ cursor <= From /\ Each.start <= From
        /\ Left \in Nat /\ Left > 0 /\ From + Left = Stop(Each)
        /\ Stop(Each) \in Nat
    BY <1>1, <2>1, RangeFacts
  <2>3. Each.start \in Nat
    BY <1>1, <2>1, FileFacts DEF TypeOK, Each
  <2> DEFINE row == Row(From, Left, "span")
  <2>4. row \in Rows /\ row.start = From /\ Stop(row) = Stop(Each) /\ row.kind = "span"
    BY <2>2 DEF Row, Rows, Kinds, Stop
  <2>5. \A byte \in From .. Stop(Each) - 1 : Mentioned(byte)
    <3> SUFFICES ASSUME NEW byte \in From .. Stop(Each) - 1
                 PROVE  Holds(file.spans[i], byte)
      BY <2>1 DEF Mentioned
    <3> QED
      BY <2>2, <2>3 DEF Holds, Each
  <2>6. TrueRow(row)
    BY <2>4, <2>5 DEF TrueRow
  <2>7. WithGap \in Seq(Rows) /\ AllTrue(WithGap)
    BY <1>1, <2>1, GapFacts, GapIsTrue DEF Told
  <2>8. AllTrue(merged')
    BY <2>1, <2>4, <2>6, <2>7, AppendTrue
  <2>9. Passed'
    <3>1. \A k \in 1 .. i - 1 : Stop(file.spans[k]) <= cursor
      BY <2>1 DEF Told, Passed
    <3>2. \A k \in 1 .. i : Stop(file.spans[k]) <= Stop(Each)
      <4>1. cursor <= Stop(Each) /\ Stop(file.spans[i]) = Stop(Each)
        BY <1>1, <2>2 DEF Each
      <4>2. ASSUME NEW k \in 1 .. i
            PROVE  Stop(file.spans[k]) <= Stop(Each)
        <5>1. CASE k = i
          BY <1>1, <2>1, <2>2, <4>1, <5>1
        <5>2. CASE k # i
          <6>1. k \in 1 .. i - 1 /\ k \in 1 .. Len(file.spans)
            BY <1>1, <2>1, <5>2
          <6>2. Stop(file.spans[k]) \in Nat /\ Stop(file.spans[k]) <= cursor
            BY <1>1, <3>1, <6>1
          <6> QED
            BY <1>1, <2>2, <4>1, <6>2
        <5> QED
          BY <5>1, <5>2
      <4> QED
        BY <4>2
    <3> QED
      BY <1>1, <2>1, <3>2 DEF Passed
  <2> QED
    BY <2>1, <2>8, <2>9 DEF Told, ColoursAreTrue, AllTrue, TrueRow, Mentioned, Fits
<1>7. CASE Overlay
  <2>1. stage = "tail" /\ stage' = "done" /\ UNCHANGED file
    BY <1>7 DEF Overlay
  <2>2. AllTrue(merged')
    <3>1. CASE cursor < file.total
      <4> DEFINE row == Row(cursor, file.total - cursor, "overlay")
      <4>1. /\ row \in Rows /\ row.start = cursor /\ Stop(row) = file.total
            /\ row.kind = "overlay"
        <5>1. file.total - cursor \in Nat /\ cursor + (file.total - cursor) = file.total
          BY <1>1
        <5> QED
          BY <1>1, <5>1 DEF Row, Rows, Kinds, Stop
      <4>2. TrueRow(row)
        BY <2>1, <4>1 DEF TrueRow, Told, Unnamed
      <4>3. merged' = Append(merged, row)
        BY <1>7, <3>1 DEF Overlay
      <4> QED
        BY <1>1, <4>1, <4>2, <4>3, AppendTrue DEF Told, ColoursAreTrue
    <3>2. CASE ~(cursor < file.total)
      BY <1>7, <3>2 DEF Overlay, Told, ColoursAreTrue
    <3> QED
      BY <3>1, <3>2
  <2> QED
    BY <2>1, <2>2 DEF Told, ColoursAreTrue, AllTrue, TrueRow, Mentioned, Fits
<1>8. CASE UNCHANGED vars
  BY <1>8 DEF vars, Told, ColoursAreTrue, AllTrue, TrueRow, Passed, Unnamed, Mentioned, Fits
<1> QED
  BY <1>2, <1>3, <1>4, <1>5, <1>6, <1>7, <1>8 DEF Next

(* A colour never lies about the tables, whatever they say.                *)
THEOREM ColoursAlwaysTrue == Spec => []ColoursAreTrue
<1>1. Init => Told
  BY DEF Init, Told, ColoursAreTrue, AllTrue, Passed
<1>2. Inv /\ Told /\ [Next]_vars => Told'
  BY ToldInductive
<1>3. Told => ColoursAreTrue
  BY DEF Told
<1> QED
  BY InvHolds, <1>1, <1>2, <1>3, PTL DEF Spec
=============================================================================
