------------------------------- MODULE ElfLayout -------------------------------
(***************************************************************************)
(* Where the fixture scripts look for the fields of an ELF file.  A header *)
(* record is a function from its fields to values, and a read at a byte    *)
(* offset returns the field the file's class puts there.  All the fixtures *)
(* are little-endian, so byte order is left out.                           *)
(***************************************************************************)
EXTENDS Integers, Sequences, FiniteSets, Picked

None == -1

(* The records of the two classes, as the ELF specification lays them out. *)
SectionFields(wide) ==
    IF wide THEN [name |-> 0, type |-> 4, offset |-> 24, size |-> 32, link |-> 40, info |-> 44,
                  align |-> 48]
    ELSE [name |-> 0, type |-> 4, offset |-> 16, size |-> 20, link |-> 24, info |-> 28,
          align |-> 32]
SegmentFields(wide) ==
    IF wide THEN [type |-> 0, flags |-> 4, offset |-> 8, vaddr |-> 16, filesz |-> 32, memsz |-> 40]
    ELSE [type |-> 0, offset |-> 4, vaddr |-> 8, filesz |-> 16, memsz |-> 20, flags |-> 24]

(* Reading `places` out of every record of a table laid out as `fields`.   *)
At(record, fields, offset) ==
    IF \E f \in DOMAIN fields : fields[f] = offset
    THEN record[CHOOSE f \in DOMAIN fields : fields[f] = offset] ELSE None
ReadTable(table, fields, places) ==
    [i \in DOMAIN table |-> [f \in DOMAIN places |-> At(table[i], fields, places[f])]]
ReadSections(file, places) == ReadTable(file.sections, SectionFields(file.wide), places)
ReadSegments(file, places) == ReadTable(file.segments, SegmentFields(file.wide), places)

(* The section header as the scripts read it.  make-note-fixtures.py takes *)
(* the same places in both classes; only the width follows the class.      *)
HashSections(file) ==
    ReadSections(file, [name |-> 0, offset |-> IF file.wide THEN 24 ELSE 16,
                        size |-> IF file.wide THEN 32 ELSE 20])
SymverSections(file) ==
    ReadSections(file, [name |-> 0, offset |-> IF file.wide THEN 24 ELSE 16,
                        size |-> IF file.wide THEN 32 ELSE 20])
ImageSections(file) ==
    ReadSections(file, [name |-> 0, offset |-> IF file.wide THEN 24 ELSE 16,
                        size |-> IF file.wide THEN 32 ELSE 20])
NoteSectionRecords(file) == ReadSections(file, [name |-> 0, offset |-> 24, size |-> 32])

(* The program header as the scripts read it.                              *)
DynamicSegments(file) ==
    ReadSegments(file, IF file.wide THEN [type |-> 0, offset |-> 8, vaddr |-> 16, filesz |-> 32]
                       ELSE [type |-> 0, offset |-> 4, vaddr |-> 8, filesz |-> 16])
(* mutant: the wide places are taken in either class                       *)
SymverLoadsWide(file) ==
    ReadSegments(file, [type |-> 0, offset |-> 8, vaddr |-> 16, filesz |-> 32])
SymverLoads(file) ==
    ReadSegments(file, IF file.wide THEN [type |-> 0, offset |-> 8, vaddr |-> 16, filesz |-> 32]
                       ELSE [type |-> 0, offset |-> 4, vaddr |-> 8, filesz |-> 16])
SegmentRecords(file) ==
    ReadSegments(file, IF file.wide
        THEN [type |-> 0, flags |-> 4, offset |-> 8, vaddr |-> 16, filesz |-> 32, memsz |-> 40]
        ELSE [type |-> 0, flags |-> 24, offset |-> 4, vaddr |-> 8, filesz |-> 16, memsz |-> 20])
NoteSegments(file) ==
    LET records == ReadSegments(file, IF file.wide THEN [type |-> 0, offset |-> 8, filesz |-> 32]
                                      ELSE [type |-> 0, offset |-> 4, filesz |-> 16])
    IN  Those(records, {i \in DOMAIN records : records[i].type = "note"})

(* Names are looked up in the string table whose record shstrndx (from 0)  *)
(* gives; where its offset is misread every name is.                       *)
Named(file, records, i) ==
    LET index == file.shstrndx + 1
    IN  IF records[index].offset = file.sections[index].offset THEN records[i].name ELSE None
NoteSections(file) ==
    LET records == NoteSectionRecords(file)
        named == [i \in DOMAIN records |-> [records[i] EXCEPT !.name = Named(file, records, i)]]
    IN  IF file.shstrndx + 1 \notin DOMAIN records THEN <<>>
        ELSE Those(named, {i \in DOMAIN named : named[i].name = "note"})

(* walk of make-note-fixtures.py: the PT_NOTE segments of a file that has  *)
(* any, else the sections named for notes.                                 *)
NotePlaces(file) ==
    LET spans(s) == [i \in DOMAIN s |-> <<s[i].offset, s[i].size>>]
        held == NoteSegments(file)
    IN  IF held # <<>> THEN [i \in DOMAIN held |-> <<held[i].offset, held[i].filesz>>]
        ELSE spans(NoteSections(file))

(* load_to_offset and to_offset: the file offset of a virtual address, by  *)
(* the first loaded segment that holds it.                                 *)
ToOffset(loads, address) ==
    LET holding == {i \in DOMAIN loads : /\ loads[i].type = "load" /\ loads[i].vaddr <= address
                                         /\ address < loads[i].vaddr + loads[i].filesz}
        first == loads[CHOOSE i \in holding : \A j \in holding : i <= j]
    IN  IF holding = {} THEN None ELSE first.offset + (address - first.vaddr)

(* Elf.table: a version table found by its section header and again by the *)
(* dynamic table's address; the two have to name the same byte.            *)
TableAt(header, loads, address) ==
    LET mapped == IF address = None THEN None ELSE ToOffset(loads, address)
    IN  IF header = None THEN "empty"
        ELSE IF mapped # None /\ mapped # header THEN "refused" ELSE "read"
===============================================================================
