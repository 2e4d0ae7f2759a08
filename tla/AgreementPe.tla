------------------------------ MODULE AgreementPe ------------------------------
(* What the checks of the fixture scripts for Windows images compare, and   *)
(* what their rows publish; the terms are those of Agreement.               *)
EXTENDS Agreement

(* --- make-export-fixtures.py: main and rows_for --------------------------- *)
ExportCompares ==
    Held("walk", {"llvm"}, {"slots", "ordinal", "hole"})
    \cup Held("walk", {"bfd"},
              {"rva", "size", "dll", "base", "functions", "names", "section", "hint", "tables"})
    \cup Held("walk", {"llvm", "bfd"}, {"name", "slot_rva", "forward"})
ExportPublishes ==
    From("walk", {"rva", "size", "offset", "section", "dll", "base", "functions", "names",
                  "ordinal", "name", "hole", "forward", "hint", "slot_rva", "address",
                  "slot_offset", "slot_section", "tables", "characteristics", "stamp",
                  "image_base", "file_size"})
ExportOnOneWord ==
    {"offset", "address", "slot_offset", "slot_section", "characteristics", "stamp",
     "image_base", "file_size"}

(* --- make-import-fixtures.py: check and rows_for -------------------------- *)
ImportCompares ==
    Held("walk", {"bfd", "llvm"}, {"dll", "ilt", "iat", "thunks", "name", "hint", "ordinal"})
    \cup Held("walk", {"bfd"}, {"slot"})
ImportPublishes ==
    From("walk", {"directory_rva", "directory_size", "directory_offset", "directory_section",
                  "dll", "ilt", "ilt_absent", "iat", "names_from", "stamp", "chain", "thunks",
                  "name", "hint", "ordinal", "slot", "thunk", "wide", "plus", "file_size"})
ImportOnOneWord ==
    {"directory_rva", "directory_size", "directory_offset", "directory_section", "ilt_absent",
     "names_from", "stamp", "chain", "thunk", "wide", "plus", "file_size"}

(* --- make-resource-fixtures.py: main and rows_for ------------------------- *)
(* What llvm and Windows say of the directory goes into the probe whole.    *)
ResourceCompares ==
    Held("walk", {"llvm"}, {"bodies", "rva", "codepage"})
    \cup Held("walk", {"llvm", "windows"}, {"type", "name", "language", "size"})
    \cup Held("walk", {"windows"}, {"offset"})
ResourcePublishes ==
    From("walk", {"bodies", "type", "name", "language", "rva", "size", "codepage", "offset",
                  "directory", "machine", "wide", "identifier_sort", "quotes", "file_size"})
    \cup From("llvm", {"type", "name", "language", "rva", "size", "codepage", "type_word",
                       "name_word"})
    \cup From("windows", {"size", "other_types"})
ResourceOnOneWord ==
    {"directory", "machine", "wide", "identifier_sort", "quotes", "type_word", "name_word",
     "other_types", "file_size"}

(* --- make-version-fixtures.py: main and rows ------------------------------ *)
(* version.dll lists no keys: it is asked for those the walk found.         *)
VersionCompares == Held("walk", {"version_dll"}, {"fixed", "tables", "key", "value"})
VersionPublishes ==
    From("walk", {"fixed", "tables", "string_count", "key", "value", "body_size"})
    \cup From("version_dll", {"block_size"})
VersionOnOneWord == {"string_count", "body_size", "block_size"}

(* --- make-tls-fixtures.py: check and rows --------------------------------- *)
TlsCompares ==
    Held("walk", {"llvm", "pefile"}, {"start", "end", "index", "callbacks", "zero", "char"})
    \cup Held("walk", {"fixups"}, {"directory_rva", "bits", "base", "callback_count"})
    \cup Held("walk", {"loader"}, {"named_callback"})
    \cup Held("llvm", {"pefile"}, {"export_name"})
TlsPublishes ==
    From("walk", {"start", "end", "index", "callbacks", "zero", "char", "directory_rva",
                  "directory_offset", "directory_size", "bits", "base", "callback_count",
                  "named_callback", "anonymous_callback", "placed_offset", "placed_section"})
    \cup From("llvm", {"export_name"})
TlsOnOneWord ==
    {"directory_offset", "directory_size", "anonymous_callback", "placed_offset",
     "placed_section"}

(* --- make-debug-fixtures.py: check and rows ------------------------------- *)
DebugCompares ==
    Held("walk", {"llvm", "pefile"},
         {"entries", "type", "time", "size", "rva", "ptr", "major", "minor", "guid"})
    \cup Held("walk", {"pefile"}, {"cv_body", "sig", "age", "path"})
    \cup Held("llvm", {"pefile"}, {"type_word"})
DebugPublishes ==
    From("walk", {"entries", "type", "time", "size", "rva", "ptr", "major", "minor", "guid",
                  "cv_body", "other_body", "sig", "age", "path", "unterminated_path", "cv",
                  "directory_rva", "directory_size", "directory_offset"})
    \cup From("llvm", {"type_word"})
DebugOnOneWord ==
    {"other_body", "unterminated_path", "cv", "directory_rva", "directory_size",
     "directory_offset"}

(* --- make-reloc-fixtures.py: check and rows ------------------------------- *)
(* pefile's number and llvm's word for a type are held to one pairing, so   *)
(* that neither is held to anything by itself.                              *)
RelocCompares == Held("pefile", {"llvm"}, {"count", "rva", "pairing"})
RelocPublishes ==
    From("pefile", {"count", "rva", "type", "directory_rva", "directory_size", "directory_offset",
                    "directory_section", "blocks", "page", "block_size", "fixup_offset",
                    "fixup_section", "file_size"})
    \cup From("llvm", {"type_name"})
RelocOnOneWord ==
    {"type", "type_name", "directory_rva", "directory_size", "directory_offset",
     "directory_section", "blocks", "page", "block_size", "fixup_offset", "fixup_section",
     "file_size"}

(* --- make-image-fixtures.py: cross_check, check_strings and rows_for ------ *)
(* A region is held to the section of its name; the header's own fields are *)
(* published with the rows.                                                 *)
ImageCompares ==
    Held("walk", {"binutils"},
         {"section_start", "section_length", "image_address", "header_tables", "load_offset"})
    \cup Held("walk", {"strings"}, {"string_offset", "string_length", "string_text"})
ImagePublishes ==
    From("walk", {"section_start", "section_length", "image_address", "string_offset",
                  "string_length", "string_text", "string_address", "string_section", "elf_address",
                  "unnamed_region", "regions", "claimed", "unloaded", "string_count", "scanned",
                  "kind", "name", "header_tables", "load_offset", "load_end", "header_fields",
                  "file_size"})
ImageOnOneWord ==
    {"string_address", "string_section", "elf_address", "unnamed_region", "regions",
     "claimed", "unloaded", "string_count", "scanned", "kind", "name", "load_end",
     "header_fields", "file_size"}
===============================================================================
