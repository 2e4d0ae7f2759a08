---------------------------- MODULE SymbolVersions ----------------------------
(***************************************************************************)
(* The version tables of scripts/make-symver-fixtures.py.  A definition or *)
(* a need is a record at a position, linked to the next by a distance and  *)
(* to its own names by another; the walk follows both inside the section's *)
(* stated length and is then held to the count the dynamic table claims.   *)
(* Positions count words of four bytes: a Verdef is 5 words, a Verdaux 2,  *)
(* a Verneed and a Vernaux 4 each.                                         *)
(***************************************************************************)
EXTENDS Integers, Sequences, FiniteSets, FiniteSetsExt

Nothing == 0
DefSize == 5
DefAuxSize == 2
NeedSize == 4
NeedAuxSize == 4

(* A table as ld.lld writes it: records[k] is the sequence of versions the *)
(* k-th record carries (a definition's first name and its parents, or the  *)
(* versions needed of one file).  `spread` puts all names after all the    *)
(* records, as the format allows; otherwise each record is followed by its *)
(* own names.                                                              *)
NamesBefore(records) ==
    LET f[k \in 0..Len(records)] == IF k = 0 THEN 0 ELSE f[k - 1] + Len(records[k]) IN f
RecordAt(records, spread, recordSize, auxSize, k) ==
    (k - 1) * recordSize + (IF spread THEN 0 ELSE NamesBefore(records)[k - 1] * auxSize)
AuxAt(records, spread, recordSize, auxSize, k, j) ==
    (IF spread THEN Len(records) * recordSize + NamesBefore(records)[k - 1] * auxSize
     ELSE RecordAt(records, spread, recordSize, auxSize, k) + recordSize) + (j - 1) * auxSize
Linked(records, spread, recordSize, auxSize) ==
    LET n == Len(records)
        At(k) == RecordAt(records, spread, recordSize, auxSize, k)
        Aux(k, j) == AuxAt(records, spread, recordSize, auxSize, k, j)
    IN  [stop |-> n * recordSize + NamesBefore(records)[n] * auxSize,
         claimed |-> n,
         heads |-> [at \in {At(k) : k \in 1..n} |->
             LET k == CHOOSE i \in 1..n : At(i) = at
             IN  [count |-> Len(records[k]), aux |-> Aux(k, 1) - at,
                  next |-> IF k = n THEN 0 ELSE At(k + 1) - at]],
         names |-> [at \in UNION {{Aux(k, j) : j \in DOMAIN records[k]} : k \in 1..n} |->
             LET k == CHOOSE i \in 1..n : \E j \in DOMAIN records[i] : Aux(i, j) = at
                 j == CHOOSE i \in DOMAIN records[k] : Aux(k, i) = at
             IN  [version |-> records[k][j],
                  next |-> IF j = Len(records[k]) THEN 0 ELSE auxSize]]]

(* The names one record reaches: `limit` of them at most, none past the    *)
(* section's end, and no further than a next distance of zero.             *)
NamesOf(table, from, limit, auxSize) ==
    LET f[s \in 0..limit] ==
            IF s = 0 THEN [at |-> from, got |-> <<>>, done |-> FALSE]
            ELSE LET r == f[s - 1]
                 IN  IF r.done \/ r.at + auxSize > table.stop \/ r.at \notin DOMAIN table.names
                     THEN [r EXCEPT !.done = TRUE]
                     ELSE LET one == table.names[r.at]
                          IN  [at |-> r.at + one.next, got |-> Append(r.got, one.version),
                               done |-> one.next = 0]
    IN  f[limit].got

(* The walk over the records themselves, which verdefs and verneeds share: *)
(* one row per record with as many names as it counts, and no fewer than    *)
(* `least`, until a next distance of zero or the end.                      *)
Records(table, recordSize, auxSize, least) ==
    LET f[s \in 0..(table.stop + 1)] ==
            IF s = 0 THEN [at |-> 0, got |-> <<>>, done |-> FALSE]
            ELSE LET r == f[s - 1]
                 IN  IF r.done \/ r.at + recordSize > table.stop \/ r.at \notin DOMAIN table.heads
                     THEN [r EXCEPT !.done = TRUE]
                     ELSE LET one == table.heads[r.at]
                          IN  [at |-> r.at + one.next,
                               got |-> Append(r.got, NamesOf(table, r.at + one.aux,
                                                             Max({one.count, least}), auxSize)),
                               done |-> one.next = 0]
    IN  f[table.stop + 1].got

(* Either walk is refused when the dynamic table states a count the walk   *)
(* did not reach.  A definition's names are read at least once, whatever   *)
(* its count says; a need's exactly as often as its count.                 *)
Refused == [refused |-> TRUE]
(* mutant: the dynamic table's count is not looked at                      *)
HeldUncounted(table, got) == [refused |-> FALSE, records |-> got]
Held(table, got) == IF table.claimed # Nothing /\ table.claimed # Len(got) THEN Refused
                    ELSE [refused |-> FALSE, records |-> got]
VerDefs(table) == Held(table, Records(table, DefSize, DefAuxSize, 1))
VerNeeds(table) == Held(table, Records(table, NeedSize, NeedAuxSize, 0))

(* names: what a version index reaches in this file.  The first need of an *)
(* index is kept, and a definition replaces it.  A version is its index    *)
(* and the name it carries.                                                *)
Reaches(defs, needs, index) ==
    LET needed == SelectSeq(needs, LAMBDA v : v.index = index)
        defined == SelectSeq(defs, LAMBDA v : v.index = index)
    IN  IF defined # <<>> THEN defined[Len(defined)].name
        ELSE IF needed # <<>> THEN needed[1].name ELSE Nothing

HighBit == 8
(* mutant: the hidden bit is left on the index                             *)
SymbolAgreesUnmasked(word, reached, readelf, llvm) ==
    /\ word = readelf.index
    /\ word = llvm.index
    /\ readelf.name # Nothing => reached = readelf.name
    /\ (word # 0 /\ reached # Nothing /\ llvm.name # Nothing) => llvm.name = reached
(* One symbol's check against the two listings: the index with its high    *)
(* bit taken off has to be the one both print, and the name it reaches the *)
(* one they print unless they print none.                                  *)
SymbolAgrees(word, reached, readelf, llvm) ==
    LET plain == word % HighBit
    IN  /\ plain = readelf.index
        /\ plain = llvm.index
        /\ readelf.name # Nothing => reached = readelf.name
        /\ (plain # 0 /\ reached # Nothing /\ llvm.name # Nothing) => llvm.name = reached

(* The symbol row: the raw word, its index, the name and the hidden bit.   *)
SymbolRow(word, reached) ==
    [value |-> word, index |-> word % HighBit, name |-> reached, hidden |-> word >= HighBit]
===============================================================================
