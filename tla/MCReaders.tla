------------------------------- MODULE MCReaders -------------------------------
(* The files and the scripts Readers is checked over.                       *)
EXTENDS Readers, TLC

DamageBound == [k \in {"hash", "versions", "symbol", "notes", "elf", "boxes", "compound"} |->
                    IF k \in {"boxes", "versions", "compound", "elf"} THEN 2 ELSE 1] @@ ("script" :> 2)
SmallWords == 0..4

(* Two or three named symbols with hashes below 4, in both table formats.  *)
SymbolHashes == UNION {[1..n -> 0..3] : n \in 2..3}
GnuFile(symbols, from, n, wide) ==
    LET words == Hash!LinkedGnu(symbols, from, n, 1, wide)
    IN  [gnu |-> TRUE, wide |-> wide, symbols |-> symbols, words |-> words, size |-> Len(words)]
SysvFile(symbols, n) ==
    LET words == Hash!LinkedSysv(symbols, n)
    IN  [gnu |-> FALSE, wide |-> FALSE, symbols |-> symbols, words |-> words, size |-> Len(words)]
TheHashFiles ==
    {GnuFile(s, f, n, w) : <<s, f, n, w>> \in
        {x \in SymbolHashes \X (1..2) \X (1..2) \X BOOLEAN : Hash!Sorted(x[1], x[2], x[3])}}
    \cup {SysvFile(s, n) : s \in SymbolHashes, n \in 1..2}

(* One to three version records of one or two names each.                  *)
RecordNames == {<<"a">>, <<"b", "a">>}
TheVersionFiles ==
    {LinkedFile(sort, r, spread) :
        sort \in {"definitions", "needs"}, r \in UNION {[1..n -> RecordNames] : n \in 1..3},
        spread \in BOOLEAN}

(* A file that defines versions 2 and 3 and needs 4, and every word that   *)
(* links a symbol to one of them, hidden or not, or to none.               *)
TheSymbolFiles ==
    {[defs |-> <<[index |-> 2, name |-> 12], [index |-> 3, name |-> 13]>>,
      needs |-> <<[index |-> 4, name |-> 14]>>, linked |-> w, word |-> w] :
        w \in {0, 1, 2, 3, 4, 10, 11, 12}}

Note(owner, namesz, descsz) == [owner |-> owner, namesz |-> namesz, descsz |-> descsz]
SomeNotes == {Note("GNU", 4, 16), Note("GNU", 4, 20), Note("LAB", 4, 5), Note("X", 2, 4)}
TheNoteFiles ==
    {[notes |-> n, limit |-> Notes!TotalBytes(n), properties |-> p, align |-> a] :
        n \in UNION {[1..k -> SomeNotes] : k \in 1..3}, p \in {<<>>, <<4>>, <<4, 4>>, <<4, 8, 4>>},
        a \in {4, 8}}

(* A version section, one of notes and the name table, under up to two     *)
(* loaded segments and a segment of notes.                                 *)
Section(name, offset, size) == [name |-> name, type |-> "t", offset |-> offset, size |-> size,
                                link |-> 9, info |-> 9, align |-> 9]
Segment(type, offset, vaddr, filesz) ==
    [type |-> type, flags |-> 9, offset |-> offset, vaddr |-> vaddr, filesz |-> filesz, memsz |-> 8]
TheElfFiles ==
    {[wide |-> w, sections |-> <<Section("version", 2, 2), Section("note", 4, 2), Section("names", 6, 2)>>,
      segments |-> s, shstrndx |-> 2, address |-> a] :
        w \in BOOLEAN, a \in {-1, 2, 3},
        s \in {<<>>, <<Segment("load", 0, 0, 4), Segment("load", 4, 10, 4)>>,
               <<Segment("load", 0, 1, 4), Segment("note", 4, 5, 2)>>}}

(* Three pieces, one of which may hold two more, for each of the walks.    *)
Piece(k, f, b) == [kind |-> k, form |-> f, body |-> b, inner |-> <<>>]
Holder(k, f, inner) == [kind |-> k, form |-> f, body |-> Boxes!Containers[k], inner |-> inner]
PieceHead(p) == IF p.form = "wide" THEN 4 ELSE 2
LeafLength(p) == PieceHead(p) + p.body
Whole(p) == LeafLength(p) + FoldSeq(LAMBDA q, n : n + LeafLength(q), 0, p.inner)
Offsets(pieces, from) ==
    LET f[i \in 1..(Len(pieces) + 1)] ==
            IF i = 1 THEN from ELSE f[i - 1] + Whole(pieces[i - 1])
    IN  f
Header(p, counted) == [kind |-> p.kind, form |-> p.form,
                       size |-> IF p.form = "rest" THEN 0
                                ELSE Whole(p) - (IF counted THEN 0 ELSE PieceHead(p))]
HeadsOf(pieces, from, counted) ==
    LET at == Offsets(pieces, from)
    IN  [w \in {at[i] : i \in DOMAIN pieces} |->
            Header(pieces[CHOOSE i \in DOMAIN pieces : at[i] = w], counted)]
HeldIn(pieces, from, stop, depth) ==
    LET at == Offsets(pieces, from)
    IN  [w \in {at[i] : i \in DOMAIN pieces} |-> [stop |-> stop, depth |-> depth]]
Written(pieces, counted) ==
    LET at == Offsets(pieces, 0)
        Inner == {i \in DOMAIN pieces : pieces[i].inner # <<>>}
        i == CHOOSE j \in Inner : TRUE
        body == at[i] + LeafLength(pieces[i])
        length == at[Len(pieces) + 1]
        heads == HeadsOf(pieces, 0, counted)
        held == HeldIn(pieces, 0, length, 0)
    IN  [length |-> length,
         heads |-> IF Inner = {} THEN heads ELSE heads @@ HeadsOf(pieces[i].inner, body, counted),
         held |-> IF Inner = {} THEN held ELSE held @@ HeldIn(pieces[i].inner, body, at[i + 1], 1)]
Flat(forms) == {<<Piece("plain", "short", 1), Piece("plain", f, 2), Piece("plain", g, 0)>> :
                    f \in forms \ {"rest"}, g \in forms}
Nested(kinds, forms) ==
    {<<Piece("plain", "short", 1),
       Holder(k, f, <<Piece("plain", "short", 1), Piece("plain", g, 0)>>),
       Piece("plain", "short", 2)>> : k \in kinds, f \in forms, g \in forms}
Packet == {<<Piece("plain", "short", 1), Piece(k, f, 2)>> :
               k \in {"compressed", "literal", "encrypted"}, f \in {"short", "wide", "rest"}}
          \ {<<Piece("plain", "short", 1), Piece("encrypted", "rest", 2)>>}
Strays == {[kind |-> "plain", form |-> "short", size |-> 2],
           [kind |-> "plain", form |-> "rest", size |-> 0],
           [kind |-> "blank", form |-> "short", size |-> 0]}
PiecesOf == [jp2 |-> Flat({"short", "wide", "rest"}), 
             heif |-> Nested({"holder"}, {"short", "wide"}) \cup Nested({"meta", "items"}, {"short"}),
             wide |-> Flat({"short", "wide", "rest"}) \cup Nested({"holder"}, {"short"}),
             der |-> Nested({"holder"}, {"short", "wide"}), pgp |-> Packet, emf |-> Flat({"short"})]
TheBoxFiles ==
    UNION {{[walk |-> w, stray |-> s] @@ Written(p, w \in {"jp2", "heif", "wide", "emf"}) :
                p \in PiecesOf[w], s \in Strays} : w \in DOMAIN PiecesOf}

(* Seven sectors: the table in 0 and 1, the directory in 2, a stream in 3  *)
(* and 4, the small sectors in 5 and their table in 6; two small streams   *)
(* share sector 5.  The second table sector is named by the header, or by  *)
(* a sector of slots.                                                      *)
Taken == -4
Entry(size, start) == [type |-> "stream", size |-> size, start |-> start]
TheCompoundFiles ==
    LET pages == (0 :> <<Taken, Taken, Compound!End, 4>>) @@ (1 :> <<Compound!End, Compound!End, Compound!End, Taken>>)
                 @@ (6 :> <<1, Compound!End, Compound!End, Compound!Free>>)
        data == [s \in {2, 3, 4, 5} |-> [i \in 1..Compound!PerSector |-> Taken]]
        slots == (7 :> <<1, Compound!Free, Compound!Free, Compound!End>>)
        Made(p, s, difat, more) ==
            [pages |-> p, slots |-> s, difat |-> difat, directory |-> 2, mini |-> 6, cutoff |-> 4,
             root |-> [type |-> "root", size |-> 3, start |-> 5],
             entries |-> <<Entry(7, 3), Entry(2, 0), Entry(1, 2),
                           [type |-> "storage", size |-> 0, start |-> 0]>>,
             parts |-> [fat |-> <<0, 1>>, slots |-> more, directory |-> <<2>>, minifat |-> <<6>>,
                        held |-> (0 :> <<5>>) @@ (1 :> <<3, 4>>) @@ (2 :> <<0, 1>>) @@ (3 :> <<2>>)]]
    IN  {Made(pages @@ data, <<0, 1, Compound!Free>>, Compound!End, <<>>),
         Made(pages @@ data @@ slots, <<0, Compound!Free>>, 7, <<7>>)}
===============================================================================
