---------------------------------- MODULE Notes ----------------------------------
(***************************************************************************)
(* The notes of scripts/make-note-fixtures.py.  A note is its owner, the   *)
(* lengths of its name and its descriptor, and the bytes it takes: three   *)
(* words and the two payloads, each rounded up to four.                    *)
(***************************************************************************)
EXTENDS Integers, Sequences, FiniteSets

Rounded(length) == length + ((-length) % 4)
NoteBytes(note) == 12 + Rounded(note.namesz) + Rounded(note.descsz)
(* The bytes that come before the note after the first k.                  *)
BytesBefore(notes) ==
    LET f[k \in 0..Len(notes)] == IF k = 0 THEN 0 ELSE f[k - 1] + NoteBytes(notes[k]) IN f
TotalBytes(notes) == BytesBefore(notes)[Len(notes)]

(* notes_in over the first `limit` bytes of the written notes: the notes   *)
(* read whole, and why the reading stopped before the limit ("" if it did  *)
(* not).  Past the last note there is nothing to read (pad < 12).          *)
NotesIn(notes, limit) ==
    LET f[k \in 0..Len(notes)] ==
            IF k = 0 THEN [where |-> 0, found |-> <<>>, why |-> ""]
            ELSE LET r == f[k - 1]
                     end == r.where + NoteBytes(notes[k])
                 IN  IF r.why # "" \/ r.where + 12 > limit THEN r
                     ELSE IF end > limit THEN [r EXCEPT !.why = "runs past"]
                     ELSE [where |-> end, found |-> Append(r.found, notes[k]), why |-> ""]
        last == f[Len(notes)]
    IN  IF last.why = "" /\ last.where # limit THEN [last EXCEPT !.why = "stops"] ELSE last

(* readelf and llvm: either listing is kept by owner and descriptor size,  *)
(* so that two notes alike in both leave one entry behind.                 *)
Listing(notes) == {[owner |-> notes[i].owner, descsz |-> notes[i].descsz] : i \in DOMAIN notes}

(* mutant: the listings may hold more entries than were read               *)
AgreedUncounted(read, readelf, llvm) ==
    IF read.found = <<>> THEN readelf = {} /\ llvm = {}
    ELSE /\ read.why = ""
         /\ \A listing \in {readelf, llvm} : Listing(read.found) \subseteq listing
(* check: no problem on the way, as many entries as notes, and an entry    *)
(* for every note.  A file in which the walk finds no note is accepted     *)
(* when the listings have none either, whatever problem it met.            *)
Agreed(read, readelf, llvm) ==
    IF read.found = <<>> THEN readelf = {} /\ llvm = {}
    ELSE /\ read.why = ""
         /\ \A listing \in {readelf, llvm} :
              /\ Cardinality(listing) = Len(read.found)
              /\ Listing(read.found) \subseteq listing

(* property_entries: the chain inside a property note's descriptor of      *)
(* `limit` bytes.  `starts` gives the data size stated where an entry was  *)
(* written; anywhere else the eight bytes read are padding and payload,    *)
(* and the chain goes astray.                                              *)
Astray == -1
PropertyEntries(starts, limit) ==
    LET f[k \in 0..(limit \div 8)] ==
            IF k = 0 THEN [where |-> 0, got |-> <<>>]
            ELSE LET r == f[k - 1]
                 IN  IF r.where + 8 > limit THEN r
                     ELSE IF r.where \notin DOMAIN starts
                     THEN [where |-> limit, got |-> Append(r.got, Astray)]
                     ELSE [where |-> r.where + 8 + Rounded(starts[r.where]),
                           got |-> Append(r.got, starts[r.where])]
    IN  f[limit \div 8].got
(* The chain as a linker writes it, every entry at a multiple of `align`,  *)
(* four in a file of 32 bits and eight in one of 64: where the entry after *)
(* the first k is, and the sizes by place.                                 *)
EntriesAt(sizes, align) ==
    LET f[k \in 0..Len(sizes)] ==
            IF k = 0 THEN 0
            ELSE LET end == f[k - 1] + 8 + sizes[k] IN end + ((-end) % align)
    IN  f
WrittenEntries(sizes, align) ==
    LET places == EntriesAt(sizes, align)
    IN  [at \in {places[k - 1] : k \in DOMAIN sizes} |->
            sizes[CHOOSE k \in DOMAIN sizes : places[k - 1] = at]]
WrittenBytes(sizes, align) == EntriesAt(sizes, align)[Len(sizes)]
=================================================================================
