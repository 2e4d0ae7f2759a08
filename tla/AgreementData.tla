----------------------------- MODULE AgreementData -----------------------------
(* What the checks of the fixture scripts for objects, debug streams,       *)
(* pictures, messages and tables compare, and what their rows publish; the  *)
(* terms are those of Agreement.                                            *)
EXTENDS Agreement

(* --- make-macho-fixtures.py: check and probe_rows ------------------------- *)
MachoCompares ==
    Held("walk", {"objdump"}, {"sections", "section_name", "section_size", "code"})
    \cup Held("walk", {"nm"}, {"symbol_name", "symbol_value", "symbol_section", "symbol_scope"})
    \cup Held("walk", {"readobj"},
              {"fixups", "fixup_address", "fixup_bytes", "pcrel", "extern", "symbol",
               "symbol_index", "pairing"})
    \cup Held("readobj", {"objdump"}, {"type_name"})
MachoPublishes ==
    From("walk", {"sections", "section_name", "section_size", "code", "section_offset", "data_kind",
                  "section_segment", "symbol_name", "symbol_value", "symbol_section",
                  "symbol_scope", "unplaced_symbol", "fixups", "fixup_address", "fixup_bytes",
                  "pcrel", "extern", "symbol", "symbol_index", "type", "local_index", "scattered",
                  "bits"})
    \cup From("readobj", {"type_name"}) \cup From("objdump", {"section_word"})
MachoOnOneWord ==
    {"section_offset", "data_kind", "section_segment", "section_word", "unplaced_symbol",
     "type", "local_index", "scattered", "bits"}

(* --- make-coff-fixtures.py: check_relocs, main and walk ------------------- *)
(* A type is compared by the name its number has in the script's own table. *)
CoffCompares ==
    Held("walk", {"objdump"},
         {"sections", "section_name", "section_size", "section_offset", "symbol_name",
          "symbol_value", "symbol_section", "symbol_type", "symbol_class", "fixups",
          "fixup_section", "fixup_offset", "type", "fixup_symbol"})
CoffPublishes ==
    From("walk", {"machine", "sections", "section_name", "section_size", "section_offset",
                  "characteristics", "section_header", "headers", "name_offset", "broken",
                  "symbol_name", "symbol_value", "symbol_section", "symbol_type", "symbol_class",
                  "symbol_aux", "file_symbol", "unlisted_symbol", "fixups", "fixup_section",
                  "fixup_offset", "type", "fixup_symbol", "file_size"})
    \cup From("objdump", {"sections", "section_name", "section_size", "section_offset",
                          "symbol_name", "symbol_value", "symbol_section", "symbol_type",
                          "symbol_class", "fixups", "fixup_section", "fixup_offset", "type",
                          "fixup_symbol", "architecture", "flags", "aux"})
CoffOnOneWord ==
    {"machine", "characteristics", "section_header", "headers", "name_offset", "broken",
     "symbol_aux", "file_symbol", "unlisted_symbol", "architecture", "flags", "aux",
     "file_size"}

(* --- make-codeview-fixtures.py: cross_check and rows_for ------------------ *)
CodeviewCompares ==
    Held("walk", {"pdbutil"},
         {"named_kind", "type_name", "record_bytes", "member_name", "member_offset", "enumerator"})
CodeviewPublishes ==
    From("walk", {"records", "header", "index", "named_kind", "type_name", "member_name",
                  "member_offset", "enumerator", "member_type", "other_kind", "arguments", "target",
                  "count", "size", "options", "attributes", "array", "stream_place", "file_size"})
    \cup From("pdbutil", {"primitive", "text"})
CodeviewOnOneWord ==
    {"records", "header", "index", "member_type", "other_kind", "arguments", "target",
     "count", "size", "options", "attributes", "array", "stream_place", "primitive", "text",
     "file_size"}

(* --- make-pdb-fixtures.py: cross_check and main --------------------------- *)
(* The records of the type stream go through the check of the codeview      *)
(* script.  A line that pdbutil does not print is held to nothing.          *)
PdbCompares ==
    Held("walk", {"pdbutil"},
         {"page", "blocks", "streams", "stream_size", "stream_blocks", "stream_name", "signature",
          "age", "types", "type_bytes", "has"})
    \cup CodeviewCompares
PdbPublishes ==
    From("walk", {"page", "blocks", "free", "streams", "directory", "stream_size", "stream_blocks",
                  "stream_name", "version", "signature", "age", "guid", "features", "types",
                  "type_bytes", "first_and_last", "has", "has_pdb", "magic", "type_header",
                  "unprinted_line"})
    \cup CodeviewPublishes
PdbOnOneWord ==
    {"free", "directory", "version", "guid", "features", "first_and_last", "has_pdb", "magic",
     "type_header", "unprinted_line"}
    \cup CodeviewOnOneWord

(* --- make-heif-fixtures.py: check and report ------------------------------ *)
(* The coded size has to be the writer's unless a crop explains the         *)
(* difference; of the depths only the deepest is held to it.  Pillow's      *)
(* reading goes into the probe as it is.                                    *)
HeifCompares ==
    Held("walk", {"pillow"},
         {"coded", "visible", "deepest", "primaries", "transfer", "matrix", "range"})
HeifPublishes ==
    From("walk", {"coded", "coded_under_a_crop", "visible", "deepest", "other_depths", "primaries",
                  "transfer", "matrix", "range", "boxes", "brand", "compat", "handler", "items",
                  "primary", "descs", "data", "box", "crop_divisors", "channels",
                  "lone_colour", "broken", "file_size"})
    \cup From("pillow", {"coded", "visible", "deepest", "primaries", "transfer", "matrix", "range",
                         "frames", "chroma", "mimetype", "primary"})
HeifOnOneWord ==
    {"coded_under_a_crop", "other_depths", "boxes", "brand", "compat", "handler", "items",
     "primary", "descs", "data", "box", "crop_divisors", "channels", "lone_colour", "broken",
     "frames", "chroma", "mimetype", "file_size"}

(* --- make-psd-fixtures.py: check, check_tables, rows_for and main --------- *)
(* The cut documents and the one built by hand are walked and held to       *)
(* nothing; both witnesses' accounts go into the probe.                     *)
PsdCompares ==
    Held("walk", {"psd_tools", "pillow"}, {"size", "resource_ids"})
    \cup Held("walk", {"psd_tools"}, {"channels", "mode", "mode_name", "resource_names"})
    \cup Held("walk", {"case"}, {"channels", "mode_name"})
    \cup Held("walk", {"pillow"}, {"resource_sizes"})
    \cup Held("psd_tools", {"pillow"}, {"layers"})
PsdPublishes ==
    From("walk", {"size", "channels", "mode", "mode_name", "resource_ids", "resource_names",
                  "resource_sizes", "version", "reserved", "depth", "sections", "resource_label",
                  "resource_place", "compression", "payload", "cut_document", "tables",
                  "file_size"})
    \cup From("psd_tools", {"size", "channels", "mode", "mode_name", "resource_ids", "layers",
                            "layer_names", "version", "depth"})
    \cup From("pillow", {"size", "resource_ids", "resource_sizes", "layers", "pillow_mode",
                         "resource_label"})
PsdOnOneWord ==
    {"version", "reserved", "depth", "sections", "resource_label", "resource_place",
     "compression", "payload", "cut_document", "tables", "layer_names", "pillow_mode",
     "file_size"}

(* --- make-pgp-fixtures.py: check, rows_for and describe ------------------- *)
(* gpg's own entries go into the probe; its tag octet is held to its tag.   *)
PgpCompares ==
    Held("walk", {"gpg"},
         {"offset", "tag", "tag_name", "header_length", "payload_length", "indeterminate",
          "signature_class", "signature_hash", "user", "literal_name", "literal_body", "key",
          "session_key"})
PgpPublishes ==
    From("walk", {"packets", "kind", "format", "ctb", "offset", "tag", "tag_name", "unnamed_tag",
                  "header_length", "payload_length", "indeterminate", "signature_version",
                  "signature_class", "signature_key", "signature_hash", "user", "literal_name",
                  "literal_body", "literal_fields", "key", "session_key", "descend", "ends",
                  "file_size"})
    \cup From("gpg", {"offset", "tag", "tag_name", "header_length", "payload_length",
                      "indeterminate", "ctb", "flags", "detail", "printed"})
PgpOnOneWord ==
    {"packets", "kind", "format", "ctb", "unnamed_tag", "signature_version", "signature_key",
     "literal_fields", "descend", "ends", "flags", "detail", "printed", "file_size"}

(* --- make-arrow-fixtures.py: agree and main ------------------------------- *)
(* The footer is a second account, in the same file, of where the batches   *)
(* and the dictionaries lie; pyarrow's account goes into the probe.         *)
ArrowCompares ==
    Held("walk", {"pyarrow"},
         {"messages", "head", "meta", "body", "version", "next", "rows", "nodes", "field_name",
          "nullable"})
    \cup Held("walk", {"footer"}, {"block_at", "block_meta", "block_body", "dictionary_at",
                                   "dictionaries"})
    \cup Held("footer", {"pyarrow"}, {"batches", "footer_name"})
    \cup Held("walk", {"writer"}, {"codec"})
ArrowPublishes ==
    From("walk", {"messages", "head", "at", "meta", "body", "version", "next", "rows", "nodes",
                  "field_name", "nullable", "field_type", "children", "buffers", "codec",
                  "later_codec", "frame", "dictionary", "endianness", "framing", "ends",
                  "file_size", "first_and_last_bytes"})
    \cup From("footer", {"block_at", "block_meta", "block_body", "dictionary_at", "dictionaries",
                         "batches", "footer_name", "footer_place", "footer_version",
                         "footer_field", "dictionary_size"})
    \cup From("pyarrow", {"messages", "head", "meta", "body", "version", "next", "rows", "nodes",
                          "field_name", "nullable", "batches", "all_rows", "version_name",
                          "types", "schema"})
ArrowOnOneWord ==
    {"at", "field_type", "children", "buffers", "later_codec", "frame", "dictionary",
     "endianness", "framing", "ends", "first_and_last_bytes", "footer_place",
     "footer_version", "footer_field", "dictionary_size", "all_rows", "version_name", "types",
     "schema", "file_size"}

(* --- make-parquet-fixtures.py: check, report and main --------------------- *)
(* A type or codec is compared by the name its number has in the reader's   *)
(* own table; the metadata has to end where the trailer says.               *)
ParquetCompares ==
    Held("walk", {"pyarrow"},
         {"footer_length", "version", "rows", "created", "groups", "schema", "column_name",
          "group_rows", "group_bytes", "group_columns", "path", "values", "compressed",
          "uncompressed", "codec", "type", "data_page", "dictionary_page", "nulls",
          "encoding_count"})
    \cup Held("walk", {"trailer"}, {"consumed"})
ParquetPublishes ==
    From("walk", {"footer_at", "footer_length", "consumed", "version", "rows", "created", "groups",
                  "schema", "leaves", "column_name", "column_type", "column_length", "repetition",
                  "children", "converted", "group_rows", "group_bytes", "group_columns", "path",
                  "values", "compressed", "uncompressed", "codec", "type", "encodings",
                  "data_page", "dictionary_page", "nulls", "unconfirmed_nulls", "min", "max",
                  "file_size"})
    \cup From("pyarrow", {"codec", "type"})
ParquetOnOneWord ==
    {"footer_at", "leaves", "column_type", "column_length", "repetition", "children",
     "converted", "encodings", "unconfirmed_nulls", "min", "max", "file_size"}

(* --- make-onnx-fixtures.py: check and report ------------------------------ *)
(* A node, tensor, input or output has to be, byte for byte, what onnx      *)
(* serializes for it; the name read inside an input or output is not held   *)
(* to onnx by itself.                                                       *)
OnnxCompares ==
    Held("walk", {"onnx"},
         {"size", "nodes", "tensors", "inputs", "outputs", "ir", "producer", "producer_version",
          "domain", "model_version", "doc", "opset", "graph_name", "region", "op", "node_name",
          "node_inputs", "node_outputs", "value_type", "value_dims", "tensor_type", "tensor_name",
          "tensor_dims", "raw", "data_counts", "location"})
    \cup Held("onnx", {"reader"}, {"element_name"})
OnnxPublishes ==
    From("walk", {"size", "nodes", "tensors", "inputs", "outputs", "ir", "producer",
                  "producer_version", "domain", "model_version", "doc", "opset", "graph_name",
                  "op", "node_name", "node_inputs", "node_outputs", "value_name", "value_type",
                  "value_dims", "tensor_type", "tensor_name", "tensor_dims", "raw", "data_counts",
                  "location", "first_bytes"})
    \cup From("onnx", {"element_name"})
OnnxOnOneWord == {"value_name", "first_bytes"}

(* --- make-der-fixtures.py: rows_for --------------------------------------- *)
(* Both listings of openssl go into the probe.  A field that x509 does not  *)
(* print is held to nothing, and a value in a name only has to occur        *)
(* somewhere in the line that x509 prints for the name.                     *)
DerCompares ==
    Held("walk", {"asn1parse"},
         {"objects", "offset", "depth", "header_length", "length", "form", "oid", "oid_name",
          "not_before", "not_after"})
    \cup Held("walk", {"x509"}, {"version", "serial", "signature", "public_key", "bits"})
DerPublishes ==
    From("walk", {"objects", "offset", "depth", "header_length", "length", "form", "oid",
                  "oid_name", "not_before", "not_after", "version", "serial", "signature",
                  "public_key", "bits", "unprinted_field", "name_value", "name_type",
                  "name_count", "tag", "point", "end", "file_size"})
    \cup From("asn1parse", {"objects", "offset", "depth", "header_length", "length", "form",
                            "oid_name", "not_before", "not_after", "tag_name", "other_value"})
    \cup From("x509", {"version", "serial", "signature", "public_key", "bits", "name_line",
                       "time_line"})
DerOnOneWord ==
    {"unprinted_field", "name_value", "name_type", "name_count", "tag", "tag_name",
     "other_value", "name_line", "time_line", "point", "end", "file_size"}

(* --- make-xsd-fixtures.py: main and rows_for ------------------------------ *)
(* A schema that xmlschema refuses it says nothing else of; of Xerces only  *)
(* counts whether it complains.  Both answers go into the probe.            *)
XsdCompares ==
    Held("tree", {"xmlschema"}, {"globals", "target"})
    \cup Held("case", {"xmlschema", "xerces"}, {"valid"})
XsdPublishes ==
    From("tree", {"globals", "target", "refused_globals", "refused_target", "pieces", "imports",
                  "includes", "annotations", "unknown", "nodes", "forms", "detail", "doc",
                  "location", "file_size"})
    \cup From("xmlschema", {"globals", "target", "valid", "imports", "includes", "complaint"})
    \cup From("xerces", {"valid", "warnings", "complaint"})
XsdOnOneWord ==
    {"refused_globals", "refused_target", "pieces", "imports", "includes", "annotations",
     "unknown", "nodes", "forms", "detail", "doc", "location", "complaint", "warnings",
     "file_size"}

(* --- make-cfb-fixtures.py: cross_check and walk --------------------------- *)
(* olefile's count of table sectors is held to the one the header states,   *)
(* which is not the count that the rows print.                              *)
CfbCompares ==
    Held("walk", {"olefile"},
         {"sector", "mini_sector", "first_directory", "stated_fat_sectors", "stream_name",
          "stream_size"})
CfbPublishes ==
    From("walk", {"sector", "mini_sector", "fat_sectors", "stream_name", "stream_size", "version",
                  "difat_sectors", "directory_sectors", "mini_fat_sectors", "all_sectors", "root",
                  "storage", "start", "where", "sectors_held", "counts", "collisions", "hint",
                  "file_size"})
    \cup From("olefile", {"stream_name"})
CfbOnOneWord ==
    {"fat_sectors", "version", "difat_sectors", "directory_sectors", "mini_fat_sectors",
     "all_sectors", "root", "storage", "start", "where", "sectors_held", "counts",
     "collisions", "hint", "file_size"}
===============================================================================
