------------------------------- MODULE Agreement -------------------------------
(***************************************************************************)
(* "Three readings have to agree before the probe is written": what the    *)
(* check of each fixture script compares, and what its rows publish.  A    *)
(* reading is one program's account of a fixture (the script's own walk,   *)
(* readelf, llvm-readobj, ...), a column one kind of number or name in it. *)
(* A comparison counts where the script surely makes it.  Where it only    *)
(* compares some of the values that share a heading, the others are a      *)
(* column of their own; and all that ends up in the probe is published,    *)
(* the witnesses' own accounts with it.  The columns on one word are those *)
(* that a script publishes and holds to nothing.                           *)
(***************************************************************************)
EXTENDS FiniteSets

(* Columns of reading a held against each of the readings in bs.           *)
Held(a, bs, columns) == {[column |-> c, a |-> a, b |-> b] : c \in columns, b \in bs}
(* Columns published as reading a gives them.                              *)
From(a, columns) == {[column |-> c, a |-> a] : c \in columns}

(* --- make-hash-fixtures.py: check, main and rows --------------------------- *)
(* What llvm's count of tables is held to comes from its own listing.       *)
HashCompares ==
    Held("walk", {"llvm", "pyelftools"},
         {"buckets", "symoffset", "masks", "heads", "bloom", "sysv_chains"})
    \cup Held("walk", {"llvm"}, {"chains"})
    \cup Held("walk", {"pyelftools"}, {"tables", "off", "bytes", "info"})
    \cup Held("walk", {"derived"}, {"chainwords", "reached"})
    \cup Held("dynsym", {"pyelftools"}, {"resolved"})
HashPublishes ==
    From("walk", {"tables", "bits", "off", "bytes", "info", "buckets", "chains", "sysv_chains",
                  "symoffset", "masks", "heads", "reached"})
    \cup From("dynsym", {"symbols", "names"})
HashOnOneWord == {"symbols", "bits", "names"}

(* --- make-symver-fixtures.py: check and rows ------------------------------ *)
SymverCompares ==
    Held("walk", {"readelf", "llvm"},
         {"counts", "symbol_index", "symbol_name", "def_index", "def_name", "def_base",
          "need_file", "need_name", "need_index"})
    \cup Held("walk", {"readelf"}, {"def_count"})
    \cup Held("walk", {"llvm", "derived"}, {"def_hash", "need_hash"})
    \cup Held("walk", {"dynamic"}, {"place"})
SymverPublishes ==
    From("walk", {"counts", "place", "bits", "symbol_index", "symbol_name", "local_name",
                  "symbol_hidden", "def_index", "def_hash", "def_base", "def_name", "def_count",
                  "def_version", "need_file", "need_name", "need_hash", "need_index", "need_flags",
                  "need_version"})
SymverOnOneWord ==
    {"bits", "local_name", "symbol_hidden", "def_version", "need_flags", "need_version"}

(* --- make-note-fixtures.py: check and rows -------------------------------- *)
NoteCompares ==
    Held("walk", {"readelf", "llvm"}, {"entries", "owner", "descsz"})
    \cup Held("readelf", {"llvm"}, {"word", "text"})
NotePublishes ==
    From("walk", {"entries", "bits", "walked", "place", "namesz", "descsz", "type", "owner",
                  "prop_type", "prop_bytes", "prop_value"})
    \cup From("readelf", {"word", "text"})
NoteOnOneWord ==
    {"bits", "walked", "place", "namesz", "type", "prop_type", "prop_bytes", "prop_value"}

(* --- make-dynamic-fixtures.py: main's comparisons and rows ---------------- *)
(* A value that readelf prints in words is not held to it, nor is a string  *)
(* that it does not quote.                                                  *)
DynamicCompares ==
    Held("walk", {"readelf", "llvm"}, {"entries", "tag"})
    \cup Held("walk", {"readelf"}, {"value", "text"})
    \cup Held("readelf", {"llvm"}, {"name", "word", "text"})
DynamicPublishes ==
    From("walk", {"entries", "width", "bits", "segment", "tag", "value", "worded_value", "text",
                  "unquoted_text"})
    \cup From("readelf", {"name", "word"})
DynamicOnOneWord == {"width", "bits", "segment", "worded_value", "unquoted_text"}

(* --- make-segment-fixtures.py: main --------------------------------------- *)
(* mutant: the flags are not compared                                      *)
SegmentComparesFlagless ==
    Held("walk", {"readelf", "llvm"},
         {"count", "off", "vaddr", "paddr", "filesz", "memsz", "align"})
    \cup Held("walk", {"llvm"}, {"type"})
    \cup Held("readelf", {"llvm"}, {"name"})
SegmentCompares ==
    Held("walk", {"readelf", "llvm"},
         {"count", "off", "vaddr", "paddr", "filesz", "memsz", "align", "flags"})
    \cup Held("walk", {"llvm"}, {"type"})
    \cup Held("readelf", {"llvm"}, {"name"})
SegmentPublishes ==
    From("walk", {"count", "type", "off", "vaddr", "paddr", "filesz", "memsz", "flags", "align",
                  "bits", "file_size"})
    \cup From("readelf", {"name"})
SegmentOnOneWord == {"bits", "file_size"}

(* --- make-elf-reloc-fixtures.py: rows_for and main ------------------------ *)
(* Any word of the others passes for a symbol if it is *ABS*, and of the    *)
(* type names one is enough.                                                *)
ElfRelocCompares ==
    Held("readelf", {"objdump", "llvm"}, {"count", "offset", "symbol", "addend"})
    \cup Held("readelf", {"llvm"}, {"table", "type_name"})
ElfRelocPublishes ==
    From("readelf", {"count", "offset", "type", "type_name", "lone_type_name", "symbol",
                     "unnamed_symbol", "symbolic", "addend", "table", "section", "machine",
                     "bits", "file_size"})
ElfRelocOnOneWord ==
    {"type", "lone_type_name", "unnamed_symbol", "symbolic", "section", "machine", "bits",
     "file_size"}
===============================================================================
