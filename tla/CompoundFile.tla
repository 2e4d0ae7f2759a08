----------------------------- MODULE CompoundFile -----------------------------
(***************************************************************************)
(* The compound files of scripts/make-cfb-fixtures.py: sectors chained by  *)
(* a table that is itself spread over sectors, a second table for the      *)
(* small ones, and directory entries that each own a chain.  A sector      *)
(* holds PerSector words; End and Free are the two values that finish a    *)
(* chain, and None is a table slot that nothing filled.  Sizes count small *)
(* sectors, of which a sector holds PerSector too.  The entries are those  *)
(* of the directory's first sector; a sector that comes to be chained to   *)
(* it is taken to spell free entries.                                      *)
(***************************************************************************)
EXTENDS Integers, Sequences, FiniteSets, Picked

PerSector == 4
End == -1
Free == -2
None == -3
MaxHops == 3
Finished == {End, Free}

Page(file, sector) == file.pages[sector]

(* Where a chain goes from `start`, each sector naming the next, and how   *)
(* often until it comes somewhere that stops it, at the limit if nowhere   *)
(* before.                                                                 *)
Hops(next, start) ==
    LET hop[k \in Nat] ==
            LET at == hop[k - 1]
            IN  IF k = 0 THEN start ELSE IF at \in DOMAIN next THEN next[at] ELSE None
    IN  hop
Until(Stop, limit) ==
    CHOOSE k \in 0..limit : (k = limit \/ Stop[k]) /\ \A j \in 0..(k - 1) : ~Stop[j]

(* chain: the sectors from `start` on, until the chain is finished, longer *)
(* than the limit or outside the table, or comes to an unfilled word or    *)
(* back to itself; and why it stopped.                                     *)
Chain(table, start, limit) ==
    LET hop == Hops(table, start)
        n == Until([k \in 0..limit |-> \/ hop[k] \notin DOMAIN table \/ table[hop[k]] = None
                                      \/ \E j \in 0..(k - 1) : hop[j] = hop[k]], limit)
    IN  [sectors |-> [k \in 1..n |-> hop[k - 1]],
         why |-> IF hop[n] \in Finished THEN "end"
                 ELSE IF n >= limit \/ hop[n] \notin DOMAIN table THEN "past" ELSE "cycle"]

(* A table is numbered from 0 and laid down in sectors; one past the file  *)
(* leaves its part unfilled, and four more unfilled words end the table.   *)
Table(file, parts) ==
    [s \in 0..(Len(parts) * PerSector + 3) |->
        LET p == (s \div PerSector) + 1
        IN  IF p <= Len(parts) /\ parts[p] \in DOMAIN file.pages
            THEN Page(file, parts[p])[(s % PerSector) + 1] ELSE None]

(* read_fat: the header's slots and those of the sectors chained from it,  *)
(* whose last word is the next of them; free slots are dropped.            *)
NextSlots(file) == [s \in DOMAIN file.pages |-> Page(file, s)[PerSector]]
SlotsIn(file, sectors) ==
    LET each == PerSector - 1
    IN  [i \in 1..(Len(sectors) * each) |->
            Page(file, sectors[((i - 1) \div each) + 1])[((i - 1) % each) + 1]]
Slots(file) ==
    LET hop == Hops(NextSlots(file), file.difat)
        n == Until([k \in 0..MaxHops |-> hop[k] \notin DOMAIN file.pages], MaxHops)
    IN  [slots |-> SlotsIn(file, [k \in 1..n |-> hop[k - 1]]),
         broken |-> IF hop[n] \in Finished THEN 0 ELSE IF n >= MaxHops THEN 1 ELSE 2]
Used(slots) == Those(slots, {i \in DOMAIN slots : slots[i] # Free})
ReadFat(file) ==
    LET more == Slots(file)
        used == Used(file.slots \o more.slots)
    IN  [table |-> Table(file, used),
         broken |-> more.broken
                    + Cardinality({i \in DOMAIN used : used[i] \notin DOMAIN file.pages})]

(* The table of the small sectors: the words of the sectors chained from   *)
(* the header, or nothing.  A chained sector past the file cannot be read  *)
(* and ends the script.                                                    *)
MiniTable(file, fat) ==
    LET read == Chain(fat, file.mini, 4096)
        whole == \A i \in DOMAIN read.sectors : read.sectors[i] \in DOMAIN file.pages
    IN  IF file.mini \in Finished THEN [table |-> Table(file, <<>>), broken |-> 0, raised |-> FALSE]
        ELSE IF ~whole THEN [table |-> Table(file, <<>>), broken |-> 0, raised |-> TRUE]
        ELSE [table |-> Table(file, read.sectors), broken |-> IF read.why = "end" THEN 0 ELSE 1,
              raised |-> FALSE]

(* walk: one row per entry that holds bytes, by its place in the directory *)
(* (the root's is 0), with the space its sectors are numbered in, and what *)
(* is broken: chains that do not end, entries of no known kind, and every  *)
(* claim of a sector that another row has claimed.                         *)
EntryAt(file, at) == IF at = 0 THEN file.root ELSE file.entries[at]
Space(file, entry) ==
    IF entry.type = "root" \/ entry.size >= file.cutoff THEN "regular" ELSE "mini"
Streams(file) ==
    {at \in DOMAIN file.entries : file.entries[at].type = "stream" /\ file.entries[at].size > 0}
HeldEntries(file) ==
    Streams(file) \cup (IF file.root.type = "root" /\ file.root.size > 0 THEN {0} ELSE {})
EntryRow(file, fat, mini, entry) ==
    LET space == Space(file, entry)
        read == Chain(IF space = "mini" THEN mini ELSE fat, entry.start, 8192)
    IN  [space |-> space, sectors |-> read.sectors, why |-> read.why]
Claims(rows) == UNION {{<<at, k>> : k \in DOMAIN rows[at].sectors} : at \in DOMAIN rows}
Claimed(rows, c) == <<rows[c[1]].space, rows[c[1]].sectors[c[2]]>>
(* mutant: a sector may be claimed twice                                   *)
CollisionsUncounted(rows) == 0
Collisions(rows) == Cardinality(Claims(rows))
                    - Cardinality({Claimed(rows, c) : c \in Claims(rows)})

Walk(file) ==
    LET fat == ReadFat(file)
        directory == Chain(fat.table, file.directory, 4096)
        mini == MiniTable(file, fat.table)
        rows == [at \in HeldEntries(file) |->
                    EntryRow(file, fat.table, mini.table, EntryAt(file, at))]
        Unended == {at \in DOMAIN rows : rows[at].why # "end"}
        Unknown == {at \in DOMAIN file.entries :
                        file.entries[at].type \notin {"stream", "storage", "free"}}
    IN  [rows |-> rows, raised |-> mini.raised,
         broken |-> fat.broken + (IF directory.why = "end" THEN 0 ELSE 1) + mini.broken
                    + Cardinality(Unended) + Cardinality(Unknown) + Collisions(rows)]

(* cross_check: olefile opens every stream and reads all the bytes its     *)
(* size states, following the same table by itself.                        *)
Needed(size, space) == IF space = "mini" THEN size ELSE (size + PerSector - 1) \div PerSector
OleSectors(table, start, needed) ==
    LET hop == Hops(table, start)
        n == Until([k \in 0..needed |-> hop[k] \notin DOMAIN table], needed)
    IN  [k \in 1..n |-> hop[k - 1]]
OleReads(file, at) ==
    LET fat == ReadFat(file).table
        entry == file.entries[at]
        space == Space(file, entry)
        table == IF space = "mini" THEN MiniTable(file, fat).table ELSE fat
        needed == Needed(entry.size, space)
    IN  [space |-> space, needed |-> needed, sectors |-> OleSectors(table, entry.start, needed)]
CrossChecked(file) ==
    \A at \in Streams(file) :
        Len(OleReads(file, at).sectors) = OleReads(file, at).needed
===============================================================================
