-------------------------------- MODULE Readers --------------------------------
(***************************************************************************)
(* What the walks of the fixture scripts make of a file that a linker or   *)
(* an encoder wrote, and of the same file after some of its fields hold    *)
(* something else: another version of the tool laid it out differently, a  *)
(* torn copy was kept, or a reader misread a column.  `kind` is the format *)
(* at hand, `file` what was written, `damaged` how many fields have        *)
(* changed since.                                                          *)
(***************************************************************************)
EXTENDS Integers, Sequences, FiniteSets, SequencesExt
CONSTANTS HashFiles, VersionFiles, SymbolFiles, NoteFiles, ElfFiles, BoxFiles, CompoundFiles,
          Words, MaxDamage
VARIABLES kind, file, damaged
vars == <<kind, file, damaged>>

Hash == INSTANCE HashTables
Versions == INSTANCE SymbolVersions
Notes == INSTANCE Notes
Elf == INSTANCE ElfLayout
Boxes == INSTANCE Boxes
Compound == INSTANCE CompoundFile
Agree == INSTANCE AgreementTables

(* What the files at hand are made of, as their formats have it, and what  *)
(* a linker that wrote one made sure of: the notes end where their holder  *)
(* does, and a symbol carries the word it was linked by.                   *)
HashFileSpace == [gnu : BOOLEAN, wide : BOOLEAN, symbols : Seq(Nat), words : Seq(Nat), size : Nat]
LinkedHash(f) ==
    LET n == f.words[1]
        from == f.words[2]
        masks == f.words[3]
    IN  /\ Len(f.words) >= 4 /\ f.size = Len(f.words) /\ n >= 1
        /\ f.gnu => /\ from \in 1..(Len(f.symbols) + 1) /\ Hash!Sorted(f.symbols, from, n)
                    /\ f.words = Hash!LinkedGnu(f.symbols, from, n, masks, f.wide)
        /\ ~f.gnu => f.words = Hash!LinkedSysv(f.symbols, n)
VersionTables == Seq(Seq(STRING) \ {<<>>})
RecordSize(sort) == IF sort = "definitions" THEN Versions!DefSize ELSE Versions!NeedSize
AuxSize(sort) == IF sort = "definitions" THEN Versions!DefAuxSize ELSE Versions!NeedAuxSize
LinkedFile(sort, records, spread) ==
    [sort |-> sort, records |-> records,
     table |-> Versions!Linked(records, spread, RecordSize(sort), AuxSize(sort))]
VersionNames == [index : Nat, name : Nat]
SymbolFileSpace == [defs : Seq(VersionNames), needs : Seq(VersionNames), linked : Nat, word : Nat]
NoteRecords == [owner : STRING, namesz : Nat, descsz : Nat]
NoteFileSpace == [notes : Seq(NoteRecords), limit : Nat, properties : Seq(Nat), align : {4, 8}]
SectionHeaders == [name : STRING, type : STRING, offset : Nat, size : Nat, link : Nat, info : Nat,
                   align : Nat]
ProgramHeaders == [type : STRING, flags : Nat, offset : Nat, vaddr : Nat, filesz : Nat, memsz : Nat]
ElfFileSpace == [wide : BOOLEAN, sections : Seq(SectionHeaders), segments : Seq(ProgramHeaders),
                 shstrndx : Nat, address : Nat \cup {Elf!None}]
(* A file of pieces, and what an encoder made sure of: with every piece    *)
(* goes what holds it (file.held: where that ends and how deep it is       *)
(* nested), and where a piece ends another of the same holder follows, or  *)
(* the holder ends.                                                        *)
Forms(walk) == {"short", "wide", "rest"} \cup (IF walk = "pgp" THEN {"partial"} ELSE {})
PieceHeaders(walk) == [kind : STRING, form : Forms(walk), size : Nat]
BoxFileStands(f) ==
    /\ f = [walk |-> f.walk, stray |-> f.stray, length |-> f.length, heads |-> f.heads,
            held |-> f.held]
    /\ f.stray \in PieceHeaders(f.walk) /\ f.length \in Nat
    /\ DOMAIN f.heads \subseteq Nat /\ f.heads \in [DOMAIN f.heads -> PieceHeaders(f.walk)]
Follows(f, at, stop, depth) ==
    \/ at = stop
    \/ at \in DOMAIN f.heads /\ f.held[at] = [stop |-> stop, depth |-> depth]
EndOf(f, at) ==
    LET h == f.heads[at]
    IN  IF h.form = "rest" THEN f.held[at].stop
        ELSE at + h.size + (IF f.walk \in {"der", "pgp"} THEN Boxes!HeadLength(h) ELSE 0)
Skips(f) == IF f.walk = "heif" THEN Boxes!Containers ELSE Boxes!Constructed
LaidOut(f) ==
    /\ Follows(f, 0, f.length, 0)
    /\ f.walk = "pgp" => f.length > 0
    /\ \A at \in DOMAIN f.heads :
         LET h == f.heads[at]
             stop == f.held[at].stop
             depth == f.held[at].depth
             body == at + Boxes!HeadLength(h)
         IN  /\ stop \in Nat /\ depth \in Nat
             /\ body <= EndOf(f, at) /\ EndOf(f, at) <= stop
             /\ Follows(f, EndOf(f, at), stop, depth)
             /\ h.kind \in DOMAIN Skips(f) =>
                  Follows(f, body + Skips(f)[h.kind], EndOf(f, at), depth + 1)
             /\ f.walk = "der" => h.form # "rest" /\ depth <= Boxes!MaxDepth
             /\ f.walk = "emf" => h.form # "rest"
             /\ f.walk = "pgp" => /\ h.kind # "blank" /\ h.form # "partial"
                                  /\ h.form = "rest" => Boxes!Streams(h)
                                  /\ Boxes!Opaque(h) => EndOf(f, at) = f.length
(* A compound file, and what an application that saved one made sure of:   *)
(* with the file goes where it put its parts (file.parts: the sectors of   *)
(* the table, of further slots, of the directory, of the small sectors'    *)
(* table, and of every entry that holds bytes), the chains lead there, and *)
(* no two entries have a sector in common.                                 *)
DirectoryEntries == [type : STRING, size : Nat, start : Int]
CompoundFileStands(f) ==
    /\ f = [pages |-> f.pages, slots |-> f.slots, difat |-> f.difat, directory |-> f.directory,
            mini |-> f.mini, cutoff |-> f.cutoff, root |-> f.root, entries |-> f.entries,
            parts |-> f.parts]
    /\ DOMAIN f.pages \subseteq Nat /\ f.pages \in [DOMAIN f.pages -> [1..Compound!PerSector -> Int]]
    /\ f.slots \in Seq(Int) /\ {f.difat, f.directory, f.mini} \subseteq Int /\ f.cutoff \in Nat
    /\ f.root \in DirectoryEntries /\ f.entries \in Seq(DirectoryEntries)
Leads(next, start, path) ==
    LET After(i) == IF i = 0 THEN start ELSE next[path[i]]
    IN  /\ path \in Seq(DOMAIN next) /\ IsInjective(path)
        /\ \A i \in 1..Len(path) : path[i] = After(i - 1)
        /\ After(Len(path)) \in Compound!Finished
Saved(f) ==
    LET parts == f.parts
        fat == Compound!Table(f, parts.fat)
        Kept(at) == Compound!EntryAt(f, at)
        Shared(at) == Compound!Space(f, Kept(at))
        TableOf(at) == IF Shared(at) = "mini" THEN Compound!Table(f, parts.minifat) ELSE fat
    IN  /\ Leads(Compound!NextSlots(f), f.difat, parts.slots) /\ Len(parts.slots) <= Compound!MaxHops
        /\ parts.fat = Compound!Used(f.slots \o Compound!SlotsIn(f, parts.slots))
        /\ Leads(fat, f.directory, parts.directory) /\ Len(parts.directory) <= 4096
        /\ Leads(fat, f.mini, parts.minifat) /\ Len(parts.minifat) <= 4096
        /\ ToSet(parts.fat) \cup ToSet(parts.minifat) \subseteq DOMAIN f.pages
        /\ \A at \in Compound!HeldEntries(f) :
             /\ Leads(TableOf(at), Kept(at).start, parts.held[at])
             /\ Len(parts.held[at]) >= Compound!Needed(Kept(at).size, Shared(at))
             /\ Len(parts.held[at]) <= 8192
        /\ \A at, other \in Compound!HeldEntries(f) :
             at # other /\ Shared(at) = Shared(other) =>
                 \A s \in ToSet(parts.held[at]) : s \notin ToSet(parts.held[other])
        /\ \A at \in DOMAIN f.entries : Kept(at).type \in {"stream", "storage", "free"}
ASSUME WordsAssumption == Words \subseteq Nat
ASSUME HashFilesAssumption ==
    HashFiles \subseteq HashFileSpace /\ \A f \in HashFiles : LinkedHash(f)
ASSUME VersionFilesAssumption ==
    \A f \in VersionFiles : /\ f.records \in VersionTables
                            /\ \E sort \in {"definitions", "needs"}, spread \in BOOLEAN :
                                  f = LinkedFile(sort, f.records, spread)
ASSUME SymbolFilesAssumption ==
    SymbolFiles \subseteq SymbolFileSpace /\ \A f \in SymbolFiles : f.word = f.linked
ASSUME NoteFilesAssumption ==
    NoteFiles \subseteq NoteFileSpace /\ \A f \in NoteFiles : f.limit = Notes!TotalBytes(f.notes)
ASSUME ElfFilesAssumption ==
    ElfFiles \subseteq ElfFileSpace /\ \A f \in ElfFiles : f.shstrndx + 1 \in DOMAIN f.sections
ASSUME BoxFilesAssumption == \A f \in BoxFiles : BoxFileStands(f) /\ LaidOut(f)
ASSUME CompoundFilesAssumption == \A f \in CompoundFiles : CompoundFileStands(f) /\ Saved(f)

Init ==
    /\ damaged = 0
    /\ \/ kind = "hash" /\ file \in HashFiles
       \/ kind = "versions" /\ file \in VersionFiles
       \/ kind = "symbol" /\ file \in SymbolFiles
       \/ kind = "notes" /\ file \in NoteFiles
       \/ kind = "elf" /\ file \in ElfFiles
       \/ kind = "boxes" /\ file \in BoxFiles
       \/ kind = "compound" /\ file \in CompoundFiles
       \/ /\ kind = "script"
          /\ \E s \in DOMAIN Agree!Scripts : file = [script |-> s, wrong |-> {}]

Changes(one) == damaged < MaxDamage[kind] /\ damaged' = damaged + 1 /\ file' = one /\ UNCHANGED kind

(* A word of a hash section, or the length its header states.              *)
Rewords == /\ kind = "hash"
           /\ \E i \in DOMAIN file.words, w \in Words : Changes([file EXCEPT !.words[i] = w])
Resizes == /\ kind = "hash"
           /\ \E size \in 0..(Len(file.words) + 1) : Changes([file EXCEPT !.size = size])
(* The distance from one version record to the next, or their count.       *)
Relinks == /\ kind = "versions"
           /\ \E at \in DOMAIN file.table.heads, w \in Words :
                Changes([file EXCEPT !.table.heads[at].next = w])
Recounts == /\ kind = "versions"
            /\ \E n \in Words \ {0} : Changes([file EXCEPT !.table.claimed = n])
(* The version word of a symbol.                                           *)
Reversions == /\ kind = "symbol"
              /\ \E w \in 0..15 : Changes([file EXCEPT !.word = w])
(* The length of what holds the notes.                                     *)
Shortens == /\ kind = "notes"
            /\ \E limit \in 0..file.limit : Changes([file EXCEPT !.limit = limit])
(* Where a section header or a program header says its bytes are.          *)
MovesSection == /\ kind = "elf"
                /\ \E i \in DOMAIN file.sections, w \in Words :
                     Changes([file EXCEPT !.sections[i].offset = w])
MovesSegment == /\ kind = "elf"
                /\ \E i \in DOMAIN file.segments, w \in Words :
                     Changes([file EXCEPT !.segments[i].vaddr = w])
(* The length a piece states, or the form it states it in.                 *)
Restates == /\ kind = "boxes"
            /\ \E at \in DOMAIN file.heads, w \in 0..file.length :
                 Changes([file EXCEPT !.heads[at].size = w])
Reforms == /\ kind = "boxes"
           /\ \E at \in DOMAIN file.heads, form \in Forms(file.walk) :
                Changes([file EXCEPT !.heads[at].form = form])
(* A word of a sector that chains others, or where an entry's chain starts. *)
Rechains == /\ kind = "compound"
            /\ \E s \in DOMAIN file.pages, i \in 1..Compound!PerSector,
                  w \in DOMAIN file.pages \cup Compound!Finished :
                 Changes([file EXCEPT !.pages[s][i] = w])
Restarts == /\ kind = "compound"
            /\ \E i \in DOMAIN file.entries, s \in DOMAIN file.pages \cup Compound!Finished :
                 Changes([file EXCEPT !.entries[i].start = s])
(* A reading of a fixture comes to give a wrong value in one more column.   *)
Accounts(script) ==
    LET checks == Agree!Scripts[script].compares
    IN  {[column |-> c.column, a |-> c.a] : c \in checks}
            \cup {[column |-> c.column, a |-> c.b] : c \in checks}
            \cup Agree!Scripts[script].publishes
Misreads == /\ kind = "script"
            /\ \E one \in Accounts(file.script) \ file.wrong :
                 Changes([file EXCEPT !.wrong = @ \cup {one}])

Next == \/ Rewords \/ Resizes \/ Relinks \/ Recounts \/ Reversions \/ Shortens
        \/ MovesSection \/ MovesSegment \/ Restates \/ Reforms \/ Rechains \/ Restarts \/ Misreads
Spec == Init /\ [][Next]_vars

-----------------------------------------------------------------------------
(* Hash tables: what the account of make-hash-fixtures.py is worth.        *)
HashRead == Hash!Walk(file.gnu, file.wide, file.words, file.size)
HashCloses == ~HashRead.broken /\ Hash!AccountCloses(HashRead, file.symbols)

(* The table a linker wrote, walked and swept, closes its account: the     *)
(* script refuses no fixture that is right, whatever the bucket count, the *)
(* mask width or the first hashed symbol.                                  *)
LinkersTablesClose == kind = "hash" /\ damaged = 0 => HashCloses

(* A table whose account closes finds every symbol it is to hold, by the   *)
(* lookup a loader performs - also when its words are not the linker's.    *)
ClosedTablesFindEveryName ==
    kind = "hash" =>
        (HashCloses => \A i \in DOMAIN file.symbols :
                           i >= Hash!Floor(HashRead) => Hash!Lookup(HashRead, file.symbols, i))

(* Version records: as written they are read whole, in either layout of    *)
(* the names; and when their links, or the count the dynamic table states, *)
(* have changed - one of the two, not both - they are read whole or        *)
(* refused: no record is lost, repeated or read with another's names.      *)
VersionsRead == IF file.sort = "definitions" THEN Versions!VerDefs(file.table)
                ELSE Versions!VerNeeds(file.table)
VersionsWholeOrRefused ==
    kind = "versions" =>
        /\ damaged = 0 => ~VersionsRead.refused
        /\ damaged <= 1 \/ file.table.claimed = Len(file.records) =>
             (~VersionsRead.refused => VersionsRead.records = file.records)

(* A symbol row whose word both listings agree with states the version the *)
(* symbol was linked to; only its hidden bit is nobody's to confirm.       *)
Reached(word) == Versions!Reaches(file.defs, file.needs, word % Versions!HighBit)
SymbolsKeepTheirVersion ==
    kind = "symbol" =>
        LET listed == [index |-> file.linked % Versions!HighBit, name |-> Reached(file.linked)]
            agrees == Versions!SymbolAgrees(file.word, Reached(file.word), listed, listed)
            row == Versions!SymbolRow(file.word, Reached(file.word))
        IN  /\ damaged = 0 => agrees
            /\ agrees => row.index = listed.index /\ row.name = listed.name

(* Notes that differ in owner or length are agreed on as they were written *)
(* and, when the walk takes their span to end short of where it does, on   *)
(* no part of them: none is left out of an accepted reading.  (Of notes    *)
(* alike in both the listings keep one, and a repeated note can stand in   *)
(* for a lost one.)                                                        *)
(* A property chain written in fours is read as it is.                     *)
NotesAccountedFor ==
    kind = "notes" =>
        LET read == Notes!NotesIn(file.notes, file.limit)
            listing == Notes!Listing(file.notes)
            agreed == Notes!Agreed(read, listing, listing)
        IN  /\ Cardinality(listing) = Len(file.notes) =>
                 /\ damaged = 0 => agreed
                 /\ agreed => read.found = file.notes
            /\ file.align = 4 \/ Len(file.properties) <= 1 =>
                 Notes!PropertyEntries(Notes!WrittenEntries(file.properties, file.align),
                                       Notes!WrittenBytes(file.properties, file.align))
                     = file.properties

(* Every script that reads ELF headers for itself finds the same offset,   *)
(* size and address in them, in files of both classes; a version table is  *)
(* read only where its section and the dynamic table name the same byte;   *)
(* and the notes looked at are the segments', or the sections' of a wide   *)
(* file that has no segments.                                              *)
Only(table, fields) == [i \in DOMAIN table |-> [f \in fields |-> table[i][f]]]
HeadersReadAlike ==
    kind = "elf" =>
        LET sections == Only(file.sections, {"name", "offset", "size"})
            loads == Only(file.segments, {"type", "offset", "vaddr", "filesz"})
            table == file.sections[1].offset
            held == Elf!Those(file.segments,
                              {i \in DOMAIN file.segments : file.segments[i].type = "note"})
            named == Elf!Those(file.sections,
                               {i \in DOMAIN file.sections : file.sections[i].name = "note"})
        IN  /\ \A read \in {Elf!HashSections(file), Elf!SymverSections(file),
                            Elf!ImageSections(file)} : read = sections
            /\ \A read \in {Elf!DynamicSegments(file), Elf!SymverLoads(file),
                            Only(Elf!SegmentRecords(file), {"type", "offset", "vaddr", "filesz"})} :
                 read = loads
            /\ Elf!TableAt(table, Elf!SymverLoads(file), file.address) = "read" =>
                 Elf!ToOffset(file.segments, file.address) \in {table, Elf!None}
            /\ held # <<>> => Elf!NotePlaces(file) =
                 [i \in DOMAIN held |-> <<held[i].offset, held[i].filesz>>]
            /\ held = <<>> /\ file.wide => Elf!NotePlaces(file) =
                 [i \in DOMAIN named |-> <<named[i].offset, named[i].size>>]

(* A walk that ends without a complaint has accounted for every byte: its  *)
(* rows are in file order and follow each other from the first byte to the *)
(* last, and inside a holder from where it begins to hold others to its    *)
(* end where the walk goes into one; kids finds the objects tlvs does.     *)
(* (The jp2 walk lets a tail shorter than a header pass, the wide walk     *)
(* does not hold the children of a box to anything.)  What an encoder      *)
(* wrote is walked without a complaint.                                    *)
InFileOrder(rows) == \A i, j \in DOMAIN rows : i < j => rows[i].at < rows[j].at
Tiles(R, from, to) ==
    /\ from <= to
    /\ \A r \in R : from <= r.at /\ r.size > 0 /\ r.at + r.size <= to
    /\ \A r, s \in R : r = s \/ r.at + r.size <= s.at \/ s.at + s.size <= r.at
    /\ \A byte \in from..(to - 1) : \E r \in R : r.at <= byte /\ byte < r.at + r.size
AtDepth(R, d, from, to) == {r \in R : r.depth = d /\ from <= r.at /\ r.at < to}
HoldsFrom(skips, row) == row.at + row.head + skips[row.kind]
Inside(R, skips, row) ==
    AtDepth(R, row.depth + 1, HoldsFrom(skips, row), row.at + row.size)
HoldersTile(R, skips) ==
    \A row \in {r \in R : r.kind \in DOMAIN skips} :
        Tiles(Inside(R, skips, row), HoldsFrom(skips, row), row.at + row.size)
RowsTile(rows, from, to) ==
    InFileOrder(rows) /\ Tiles(AtDepth(ToSet(rows), 0, from, to), from, to)
CleanWalksTile ==
    kind = "boxes" =>
        LET jp2 == Boxes!Jp2Boxes(file, 0, file.length)
            heif == Boxes!HeifWalk(file)
            wide == Boxes!WideWalk(file)
            der == Boxes!Tlvs(file)
            pgp == Boxes!Packets(file)
            emf == Boxes!Records(file)
            Kids(row) == Boxes!Kids(file, row.at + row.head, row.at + row.size)
        IN  /\ file.walk = "jp2" =>
                 /\ damaged = 0 => jp2.broken = 0
                 /\ jp2.broken = 0 => \E tail \in 0..1 : RowsTile(jp2.rows, 0, file.length - tail)
            /\ file.walk = "heif" =>
                 /\ damaged = 0 => heif.broken = 0
                 /\ heif.broken = 0 =>
                      /\ RowsTile(heif.rows, 0, file.length)
                      /\ HoldersTile(ToSet(heif.rows), Boxes!Containers)
            /\ file.walk = "wide" =>
                 /\ damaged = 0 => wide.broken = 0
                 /\ wide.broken = 0 => RowsTile(wide.rows, 0, file.length)
            /\ file.walk = "der" =>
                 /\ damaged = 0 => der.broken = 0
                 /\ der.broken = 0 =>
                      /\ RowsTile(der.rows, 0, file.length)
                      /\ HoldersTile(ToSet(der.rows), Boxes!Constructed)
                      /\ \A row \in ToSet(der.rows) :
                           row.kind = "holder" /\ row.depth = 0 =>
                               /\ InFileOrder(Kids(row))
                               /\ ToSet(Kids(row)) =
                                      Inside(ToSet(der.rows), Boxes!Constructed, row)
            /\ file.walk = "pgp" =>
                 /\ damaged = 0 => pgp.ends
                 /\ pgp.ends /\ pgp.broken = 0 => RowsTile(pgp.rows, 0, file.length)
            /\ file.walk = "emf" =>
                 /\ damaged = 0 => emf.broken = 0
                 /\ emf.broken = 0 => RowsTile(emf.rows, 0, file.length)

(* A compound file whose walk ends and whose streams olefile reads in full *)
(* keeps every stream's bytes to itself: the sectors olefile reads are the *)
(* ones the row counts, none of them twice and none of another stream's.   *)
(* What an application saved is such a file.                               *)
CompoundStreamsStandAlone ==
    kind = "compound" =>
        LET walk == Compound!Walk(file)
            accepted == walk.broken = 0 /\ ~walk.raised /\ Compound!CrossChecked(file)
            streams == Compound!Streams(file)
            Reads(at) == Compound!OleReads(file, at)
        IN  /\ damaged = 0 => accepted
            /\ accepted =>
                 /\ \A at \in streams : /\ IsPrefix(Reads(at).sectors, walk.rows[at].sectors)
                                        /\ IsInjective(Reads(at).sectors)
                 /\ \A at, other \in streams :
                      at # other /\ Reads(at).space = Reads(other).space =>
                          ToSet(Reads(at).sectors) \cap ToSet(Reads(other).sectors) = {}

(* A script's check passes as soon as the readings it compares tell the     *)
(* same, which two that are wrong in the same column may do; and it writes  *)
(* everything that it publishes.  So it takes two readings, wrong in the    *)
(* same column, to get a wrong value into the probe - but for the columns   *)
(* known to be on one reading's word, where any wrong value gets in.        *)
Passes(compares, wrong) ==
    \A c \in compares :
        [column |-> c.column, a |-> c.a] \in wrong <=> [column |-> c.column, a |-> c.b] \in wrong
MisreadingsStayOut ==
    kind = "script" =>
        LET script == Agree!Scripts[file.script]
        IN  \A p \in script.publishes \cap file.wrong :
                IF p.column \in script.onOneWord
                THEN Passes(script.compares, {p})
                ELSE Passes(script.compares, file.wrong) =>
                         \E q \in file.wrong : q.column = p.column /\ q.a # p.a
===============================================================================
