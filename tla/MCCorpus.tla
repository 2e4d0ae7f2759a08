------------------------------- MODULE MCCorpus -------------------------------
(* Every fixture script beside its neighbours, through any three runs,     *)
(* pulls and rewrites.                                                     *)
EXTENDS CorpusPictures, CorpusScripts

AllPrograms == ScriptPrograms
CarefulScripts ==
    {"hash", "note", "dynamic", "symver", "tls", "debug", "resource", "image", "pgp", "codeview",
     "pdb", "export", "cfg", "otf", "import", "dotx", "ps", "torrent", "vcard", "gpx", "jsonc", "xsd"}
RebuildingScripts ==
    {"hash", "note", "symver", "tls", "debug", "resource", "macho", "codeview", "pdb", "export",
     "cfg", "otf", "coff", "elf_reloc", "segment", "version", "structure", "container", "netpbm", "font",
     "woff2", "icon", "three_mf", "arrow", "parquet", "onnx", "stl", "heif", "h5", "jp2", "qoi",
     "npy", "avro", "plist", "icc", "deb", "torrent", "vcard", "gpx", "jsonc", "xsd"}

(* make-psd-fixtures.py opens its witnesses on the scratch copy.           *)
ScriptsApart == {"psd"}

(* The pictures of every program, each set from those before it.           *)
Drawing(s, p, f) ==
    FoldLeft(LAMBDA drawn, i :
                 LET by(n) == {After(p[i], f, c) : c \in {c \in drawn[i] : Passes(p[i], f, c, n)}} IN
                 [drawn EXCEPT ![i + 1] = @ \cup by(1),
                               ![i + p[i].skip + 1] = @ \cup by(p[i].skip + 1)],
             [i \in 1..(Len(p) + 1) |-> IF i = 1 THEN Beginnings(s, f) ELSE {}],
             [i \in DOMAIN p |-> i])
ScriptPictures ==
    [s \in Scripts |-> [p \in Programs[s] |-> [f \in FilesOf[s] |-> Drawing(s, p, f)]]]
===============================================================================
