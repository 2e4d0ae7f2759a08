--------------------------------- MODULE Boxes ---------------------------------
(***************************************************************************)
(* How the fixture scripts walk files that are laid out as a run of        *)
(* length-prefixed pieces: the boxes of make-jp2-, make-heif- and          *)
(* make-bmff-wide-, the objects of make-der-, the packets of make-pgp- and *)
(* the records of make-emf-fixtures.py.                                    *)
(*                                                                         *)
(* A file is its length in cells and the headers written into it by        *)
(* position; a header is a kind, the form of its length field and the      *)
(* length it states.  A reader that lands where nothing was written finds  *)
(* whatever header the bytes there happen to spell (file.stray).  A short  *)
(* header takes two cells, a wide one four.                                *)
(***************************************************************************)
EXTENDS Integers, Sequences, SequencesExt

HeadAt(file, at) ==
    IF at \in DOMAIN file.heads THEN file.heads[at] ELSE file.stray
HeadLength(h) == IF h.form = "wide" THEN 4 ELSE 2
Holds(h) == h.kind = "holder"
(* mutant: a length of zero is taken as it stands                          *)
BoxSizeAsStated(h, at, stop) == h.size
(* A length field of zero means "to the end of what holds this box" (form  *)
(* "rest" is a short one that was left at zero).  heif and wide look for   *)
(* the zero before they read a 64-bit length, jp2 after it.                *)
BoxSize(h, at, stop) ==
    IF h.form = "rest" \/ (h.form = "short" /\ h.size = 0) THEN stop - at ELSE h.size
Jp2Size(h, at, stop) == IF h.form = "rest" \/ h.size = 0 THEN stop - at ELSE h.size
Row(h, at, size, depth) == [kind |-> h.kind, at |-> at, size |-> size, depth |-> depth,
                            head |-> HeadLength(h)]
Read(rows, broken) == [rows |-> rows, broken |-> broken]
Then(row, inner, later) ==
    Read(<<row>> \o inner.rows \o later.rows, inner.broken + later.broken)
Ahead(rows, later) == [later EXCEPT !.rows = rows \o @]

(* boxes: one level, in file order.  A tail too short for a header is left *)
(* alone, and children_of drops what its own walk counted as broken.       *)
(* (Here and below the first definition is one turn of the walk, given     *)
(* what the walk makes of every place.)                                    *)
Jp2Turn(file, end, boxes, at) ==
    LET h == HeadAt(file, at)
        length == Jp2Size(h, at, end)
    IN  IF at + 2 > end THEN Read(<<>>, 0)
        ELSE IF length < HeadLength(h) \/ at + length > end THEN Read(<<>>, 1)
        ELSE Ahead(<<Row(h, at, length, 0)>>, boxes[at + length])
Jp2Boxes(file, from, end) ==
    LET boxes[at \in Nat] == Jp2Turn(file, end, boxes, at) IN boxes[from]
Jp2Children(file, row) == Jp2Boxes(file, row.at + row.head, row.at + row.size).rows

(* A walk that goes into holders is at a place in a file, inside something *)
(* that ends at `stop` and is nested `depth` deep.                         *)
Places == [at : Nat, stop : Nat, depth : Nat]
Place(at, stop, depth) == [at |-> at, stop |-> stop, depth |-> depth]

(* walk of make-heif-fixtures.py: into every container, behind what it has *)
(* of its own (four bytes of version in "meta", those and a count in       *)
(* "items", the code's iinf: six bytes, taken for two cells); a tail is    *)
(* one more thing broken, and a bad length ends this level only.           *)
Containers == [holder |-> 0, meta |-> 1, items |-> 2]
HeifTurn(file, walk, p) ==
    LET h == HeadAt(file, p.at)
        size == BoxSize(h, p.at, p.stop)
        body == p.at + HeadLength(h)
        inner == IF h.kind \in DOMAIN Containers
                 THEN walk[Place(body + Containers[h.kind], p.at + size, p.depth + 1)]
                 ELSE Read(<<>>, 0)
    IN  IF p.at + 2 > p.stop THEN Read(<<>>, IF p.at = p.stop THEN 0 ELSE 1)
        ELSE IF \/ h.form = "wide" /\ p.at + 4 > p.stop
                \/ size < HeadLength(h) \/ p.at + size > p.stop
        THEN Read(<<>>, 1)
        ELSE Then(Row(h, p.at, size, p.depth), inner, walk[Place(p.at + size, p.stop, p.depth)])
HeifWalk(file) ==
    LET walk[p \in Places] == HeifTurn(file, walk, p) IN walk[Place(0, file.length, 0)]

(* walk of make-bmff-wide-fixture.py: a row is written before its length   *)
(* is doubted, a holder's children start right after a short header        *)
(* whatever its own is, and only the outer cursor decides "walked end".    *)
ChildTurn(file, limit, children, inner) ==
    LET h == HeadAt(file, inner)
        size == BoxSize(h, inner, limit)
        row == Row(h, inner, size, 1)
    IN  IF inner + 2 > limit THEN Read(<<>>, 0)
        ELSE IF size < 2 \/ inner + size > limit THEN Read(<<row>>, 0)
        ELSE Ahead(<<row>>, children[inner + size])
WideChildren(file, from, limit) ==
    LET children[inner \in Nat] == ChildTurn(file, limit, children, inner)
    IN  children[from].rows
WideTurn(file, walk, cursor) ==
    LET h == HeadAt(file, cursor)
        size == BoxSize(h, cursor, file.length)
        stop == IF cursor + size < file.length THEN cursor + size ELSE file.length
        rows == <<Row(h, cursor, size, 0)>>
                \o (IF Holds(h) THEN WideChildren(file, cursor + 2, stop) ELSE <<>>)
    IN  IF cursor + 2 > file.length
        THEN Read(<<>>, IF cursor = file.length THEN 0 ELSE 1)
        ELSE IF size < 2 \/ cursor + size > file.length THEN Read(rows, 1)
        ELSE Ahead(rows, walk[cursor + size])
WideWalk(file) ==
    LET walk[cursor \in Nat] == WideTurn(file, walk, cursor) IN walk[0]

(* tlvs: an object's length is its content's, a constructed object is      *)
(* walked too, and a length field of no digits or of more than four stops  *)
(* the level it is met on, as does a nesting above MaxDepth.               *)
MaxDepth == 24
Constructed == [holder |-> 0]
TlvTurn(file, tlvs, p) ==
    LET h == HeadAt(file, p.at)
        body == p.at + HeadLength(h)
        inner == IF Holds(h) THEN tlvs[Place(body, body + h.size, p.depth + 1)] ELSE Read(<<>>, 0)
    IN  IF p.at >= p.stop THEN Read(<<>>, 0)
        ELSE IF \/ p.depth > MaxDepth \/ p.at + 2 > p.stop
                \/ h.form = "rest" \/ body > p.stop \/ body + h.size > p.stop
        THEN Read(<<>>, 1)
        ELSE Then(Row(h, p.at, HeadLength(h) + h.size, p.depth), inner,
                  tlvs[Place(body + h.size, p.stop, p.depth)])
Tlvs(file) ==
    LET tlvs[p \in Places] == TlvTurn(file, tlvs, p) IN tlvs[Place(0, file.length, 0)]
(* kids: the children of one object by their own headers, which nothing    *)
(* holds to the end of the object they are in.                             *)
KidTurn(file, end, kids, cursor) ==
    LET h == HeadAt(file, cursor)
        size == HeadLength(h) + h.size
    IN  IF cursor >= end THEN Read(<<>>, 0)
        ELSE Ahead(<<Row(h, cursor, size, 1)>>, kids[cursor + size])
Kids(file, from, end) ==
    LET kids[cursor \in Nat] == KidTurn(file, end, kids, cursor) IN kids[from].rows

(* walk of make-pgp-fixtures.py: packets until one is opaque, one's body   *)
(* is a stream of no stated length, or one does not fit.  A length that is *)
(* left unstated stands for the rest of the file in a stream only, one     *)
(* that comes in parts is refused, and a blank, which has no packet bit,   *)
(* just ends the walk.  A file of no packets does not end.                 *)
Streams(h) == h.kind \in {"compressed", "literal"}
Opaque(h) == h.kind \in {"compressed", "encrypted"}
Ending(rows, broken, ends) == [rows |-> rows, broken |-> broken, ends |-> ends]
PacketTurn(file, packets, at) ==
    LET h == HeadAt(file, at)
        body == at + HeadLength(h)
        row == Row(h, at, HeadLength(h) + h.size, 0)
    IN  IF at >= file.length THEN Ending(<<>>, 0, at = file.length /\ at > 0)
        ELSE IF h.kind = "blank" THEN Ending(<<>>, 0, FALSE)
        ELSE IF h.form = "partial" THEN Ending(<<>>, 1, FALSE)
        ELSE IF h.form = "rest"
        THEN IF Streams(h) THEN Ending(<<Row(h, at, file.length - at, 0)>>, 0, TRUE)
             ELSE Ending(<<>>, 1, FALSE)
        ELSE IF body > file.length \/ body + h.size > file.length THEN Ending(<<>>, 1, FALSE)
        ELSE IF Opaque(h) THEN Ending(<<row>>, 0, body + h.size = file.length)
        ELSE Ahead(<<row>>, packets[body + h.size])
Packets(file) == LET packets[at \in Nat] == PacketTurn(file, packets, at) IN packets[0]

(* walk of make-emf-fixtures.py.                                           *)
RecordTurn(file, records, at) ==
    LET h == HeadAt(file, at)
    IN  IF at + 2 > file.length THEN Read(<<>>, IF at = file.length THEN 0 ELSE 1)
        ELSE IF h.size < 2 \/ at + h.size > file.length THEN Read(<<>>, 1)
        ELSE Ahead(<<Row(h, at, h.size, 0)>>, records[at + h.size])
Records(file) == LET records[at \in Nat] == RecordTurn(file, records, at) IN records[0]
===============================================================================
