----------------------------- MODULE CorpusScripts -----------------------------
(***************************************************************************)
(* What each scripts/make-*-fixtures.py does with files, in its order: the *)
(* programs Corpus runs.  A file keeps one name through the three places;  *)
(* sources, listings and other by-products of a build are left out, and so *)
(* is what is read or compared (Agreement has that).  A script with probes *)
(* for single fixtures is given one probe, and a check of several files at *)
(* the end of a script is one check of each.                               *)
(***************************************************************************)
EXTENDS Sequences, SequencesExt, Naturals

Step(op, f, from, to, skip) ==
    <<[op |-> op, file |-> f, from |-> from, to |-> to, skip |-> skip]>>

Clean == Step("clean", "", "scratch", "scratch", 0)
Mkdir == Step("mkdir", "", "scratch", "scratch", 0)
Probe == Step("probe", "", "memory", "fixtures", 0)

Make(f) == Step("write", f, "tool", "scratch", 0)
MakeFixture(f) == Step("write", f, "tool", "fixtures", 0)
Draft(f) == Step("write", f, "tool", "memory", 0)
Read(f) == Step("write", f, "scratch", "memory", 0)
ReadFixture(f) == Step("write", f, "fixtures", "memory", 0)
Save(f) == Step("write", f, "memory", "fixtures", 0)
Store(f) == Step("write", f, "memory", "scratch", 0)
Publish(f) == Step("write", f, "scratch", "fixtures", 0)

Witness(f) == Step("witness", f, "scratch", "scratch", 0)
WitnessFixture(f) == Step("witness", f, "fixtures", "fixtures", 0)
WitnessRaw(f) == Step("witness", f, "memory", "memory", 0)
Check(f) == Step("check", f, "memory", "memory", 0)

Unless(f, place, steps) == Step("unless", f, place, place, Len(steps)) \o steps
When(f, place, steps) == Step("when", f, place, place, Len(steps)) \o steps
Need(f, place) == Step("need", f, place, place, 0)
Maybe(steps) == Step("maybe", "", "scratch", "scratch", Len(steps)) \o steps
(* open the fixture if it is there, build it if it is not                  *)
Kept(f, steps) == When(f, "fixtures", ReadFixture(f)) \o Unless(f, "fixtures", steps)
Borrow(f) == Unless(f, "scratch", Step("write", f, "fixtures", "scratch", 0))

Each(files, Steps(_)) == FlattenSeq([i \in DOMAIN files |-> Steps(files[i])])
ReadAndCheck(f) == Read(f) \o Witness(f) \o Check(f)
ReadAndCheckFixture(f) == ReadFixture(f) \o WitnessFixture(f) \o Check(f)

-------------------------------------------------------------------------------
(* Object files and images that a linker in a clean directory makes, some  *)
(* of them beside images lent by the scripts above them in the corpus.     *)

HashOwn == <<"hgnu.so", "hsys.so", "hboth.so", "hboth32.so">>
HashBuild == Each(HashOwn, Make)
Hash ==
    Clean \o HashBuild
    \o Each(HashOwn \o <<"lab.so", "libuser.so", "note.elf", "lab.elf", "res.dll", "answer.obj">>,
            LAMBDA f : Borrow(f) \o ReadAndCheck(f))
    \o Each(HashOwn, Publish) \o Probe

NoteOwn == <<"note.elf", "note1.elf", "notelab.elf", "note.o">>
NoteBuild == Each(NoteOwn, Make)
Note ==
    Clean \o NoteBuild
    \o Each(NoteOwn \o <<"lab.elf", "res.dll", "answer.obj">>, LAMBDA f : Borrow(f) \o ReadAndCheck(f))
    \o Each(NoteOwn, Publish) \o Probe

DynamicBuild == Each(<<"liblab.so", "libuser.so", "many.so">>, Make)
Dynamic ==
    Clean \o DynamicBuild
    \o Each(<<"liblab.so", "libuser.so", "many.so", "libver.so", "libver32.so", "libuse.so",
              "lab.so", "lab32.so", "labarm.so", "lab.elf">>, LAMBDA f : Borrow(f) \o ReadAndCheck(f))
    \o Each(<<"liblab.so", "libuser.so", "many.so", "libver.so", "libver32.so", "libuse.so">>, Publish)
    \o Probe

SymverOwn == <<"libver.so", "libver32.so", "libuse.so">>
SymverBuild == Clean \o Each(SymverOwn, Make)
Symver ==
    SymverBuild
    \o Each(SymverOwn \o <<"lab.so", "lab.elf", "liblab.so">>, LAMBDA f : Borrow(f) \o ReadAndCheck(f))
    \o Each(SymverOwn, Publish) \o Probe

TlsOwn == <<"tls.dll", "plain.dll">>
TlsBuild == Each(TlsOwn, Make)
Tls ==
    Clean \o TlsBuild
    \o Each(TlsOwn \o <<"reloc.dll", "answer.obj">>, LAMBDA f : Borrow(f) \o ReadAndCheck(f))
    \o Each(TlsOwn, Publish) \o Probe

DebugOwn == <<"dbg.exe", "nodbg.exe">>
DebugBuild == Each(DebugOwn, Make)
Debug ==
    Clean \o DebugBuild
    \o Each(DebugOwn \o <<"lab.exe", "cv.obj">>,
            LAMBDA f : Borrow(f) \o Witness(f) \o Read(f) \o Check(f))
    \o Each(DebugOwn, Publish) \o Probe

ResourceOwn == <<"res.dll", "rcres.dll">>
ResourceBuild == Each(ResourceOwn, Make)
Resource ==
    Clean \o ResourceBuild \o Each(ResourceOwn, ReadAndCheck) \o Each(ResourceOwn, Publish) \o Probe

(* The probe is written before the images it is about are copied.          *)
ImageOwn == <<"lab.elf", "lab.exe">>
ImageBuild == Clean \o Each(ImageOwn, Make)
Image == ImageBuild \o Each(ImageOwn, ReadAndCheck) \o Probe \o Each(ImageOwn, Publish)
ImageProbeOnly ==
    Each(ImageOwn, LAMBDA f : Need(f, "fixtures")) \o Each(ImageOwn, ReadAndCheckFixture) \o Probe

PgpOwn == <<"lab-key.pgp", "lab-rsa.pgp", "lab-signed.pgp", "lab-signedz.pgp", "lab-encr.pgp", "lab-sym.pgp">>
PgpBuild == Clean \o Each(PgpOwn, Make)
Pgp == PgpBuild \o Each(PgpOwn, ReadAndCheck) \o Probe \o Each(PgpOwn, Publish)
PgpProbeOnly ==
    Each(PgpOwn, LAMBDA f : Need(f, "fixtures")) \o Each(PgpOwn, ReadAndCheckFixture) \o Probe

MachoOwn == <<"macho64.o", "macho32.o", "macho-arm.o", "macho.mh">>
MachoBuild == Clean \o Each(MachoOwn, Make) \o Each(MachoOwn, Publish)
Macho ==
    MachoBuild \o Each(MachoOwn, LAMBDA f : ReadFixture(f) \o WitnessFixture(f))
    \o Each(MachoOwn, Check) \o Probe

CodeviewBuild == Clean \o Make("cv.obj") \o Read("cv.obj") \o Witness("cv.obj")
Codeview == CodeviewBuild \o Check("cv.obj") \o Publish("cv.obj") \o Probe
PdbBuild == Clean \o Make("lab.pdb") \o Read("lab.pdb")
Pdb == PdbBuild \o Witness("lab.pdb") \o Check("lab.pdb") \o Publish("lab.pdb") \o Probe
Export == Clean \o Make("exp.dll") \o ReadAndCheck("exp.dll") \o Publish("exp.dll") \o Probe

(* Scratch directories that are not emptied first.                         *)
CfgBuild == Mkdir \o Make("flow.obj") \o Witness("flow.obj")
Cfg == CfgBuild \o Read("flow.obj") \o Check("flow.obj") \o Save("flow.obj") \o Probe
OtfBuild == Make("lab.otf")
Otf == Mkdir \o OtfBuild \o ReadAndCheck("lab.otf") \o Save("lab.otf") \o Probe
Coff ==
    Mkdir \o Each(<<"answer.obj", "i686.obj">>,
                  LAMBDA f : Make(f) \o Read(f) \o Save(f) \o Witness(f) \o Check(f)) \o Probe
ElfRelocBuild(f) == Mkdir \o Make(f) \o Witness(f) \o Read(f) \o Save(f)
ElfReloc ==
    Each(<<"lab.so", "lab32.so", "labarm.so">>,
         LAMBDA f : ElfRelocBuild(f) \o WitnessFixture(f) \o Check(f))
    \o Probe
SegmentBuildInterp == Mkdir \o Make("interp.elf") \o Read("interp.elf") \o Save("interp.elf")
Segment ==
    SegmentBuildInterp
    \o Each(<<"lab.elf", "lab.so", "lab32.so", "labarm.so", "interp.elf">>,
            LAMBDA f : WitnessFixture(f) \o ReadFixture(f) \o Check(f))
    \o Probe
Version == Each(<<"res.dll", "rcres.dll">>, ReadAndCheckFixture) \o Probe

-------------------------------------------------------------------------------
(* A fixture that is there already is kept, unless the script is asked for *)
(* a fresh one.                                                            *)

ImportBuild == Clean \o Make("lab.dll") \o Read("lab.dll")
ImportFrom(built) ==
    LET own == <<"lab.dll", "ordinal.dll", "noilt.dll">> IN
    built \o Draft("ordinal.dll") \o Draft("noilt.dll") \o Clean \o Each(own, Store)
    \o Each(own, LAMBDA f : Witness(f) \o Check(f)) \o Each(own, Save) \o Probe
Import == ImportFrom(Kept("lab.dll", ImportBuild))
ImportRefresh == ImportFrom(ImportBuild)

(* All three images have to be there and read before any is checked.       *)
RelocBuild == Clean \o Make("reloc.dll") \o Read("reloc.dll") \o Save("reloc.dll")
RelocFrom(built) ==
    LET all == <<"reloc.dll", "lab.dll", "exp.dll">> IN
    built \o Each(all, LAMBDA f : Need(f, "fixtures") \o ReadFixture(f) \o WitnessFixture(f))
    \o Each(all, Check) \o Probe
Reloc == RelocFrom(Unless("reloc.dll", "fixtures", RelocBuild))
RelocRefresh == RelocFrom(RelocBuild)

DemangleCompile(f) == Clean \o Make(f) \o Read(f) \o Save(f)
DemangleOwn == <<"cxx.o", "ops.o">>
DemangleFrom(compiled) ==
    FlattenSeq([i \in DOMAIN compiled |->
        compiled[i] \o WitnessRaw(DemangleOwn[i]) \o Check(DemangleOwn[i])]) \o Probe
Demangle ==
    DemangleFrom([i \in DOMAIN DemangleOwn |-> Kept(DemangleOwn[i], DemangleCompile(DemangleOwn[i]))])
DemangleRefresh == DemangleFrom([i \in DOMAIN DemangleOwn |-> DemangleCompile(DemangleOwn[i])])

Der ==
    Mkdir
    \o Each(<<"rsa.crt", "ec.crt">>,
            LAMBDA f : Unless(f, "fixtures", MakeFixture(f)) \o ReadAndCheckFixture(f))
    \o Probe

(* Only an archive of bsdtar's is listed by two readers before it is kept. *)
SevenZipWrite(f) == Mkdir \o Make(f) \o Read(f) \o Witness(f)
SevenZipLibarchive(f) == SevenZipWrite(f) \o Check(f)
SevenZip ==
    LET KeptListed(f, steps) ==
            When(f, "fixtures", ReadFixture(f) \o WitnessFixture(f))
            \o Unless(f, "fixtures", steps \o Save(f)) \o Check(f) IN
    Each(<<"encoded.7z", "plain.7z">>, LAMBDA f : KeptListed(f, SevenZipWrite(f)))
    \o KeptListed("libarchive.7z", SevenZipLibarchive("libarchive.7z"))
    \o ReadFixture("encoded.7z") \o Probe

(* The walk is of the fixture, Pillow's reading of the scratch file.       *)
PsdWrite(f) == Mkdir \o Make(f) \o Read(f)
Psd ==
    Each(<<"rgb.psd", "grey.psd", "rgba.psd", "raw.psd">>,
         LAMBDA f : Kept(f, PsdWrite(f) \o Save(f)) \o Witness(f) \o Check(f))
    \o ReadFixture("rgb.psd") \o Probe

DotxConvert == Make("lab-fixture.dotx")
Dotx ==
    Mkdir \o Make("in.docx") \o Unless("lab-fixture.dotx", "scratch", DotxConvert)
    \o Witness("in.docx") \o Witness("lab-fixture.dotx") \o Read("lab-fixture.dotx")
    \o Check("lab-fixture.dotx") \o Save("lab-fixture.dotx") \o Probe

-------------------------------------------------------------------------------
(* Documents and pictures whose converter may leave no file, or be missing *)
(* from this machine.                                                      *)

EmfLibreoffice == Maybe(Make("page.emf")) \o Need("page.emf", "scratch")
Emf ==
    Mkdir \o EmfLibreoffice \o Read("page.emf") \o Save("page.emf")
    \o Make("gdi.emf") \o Read("gdi.emf") \o Save("gdi.emf")
    \o Each(<<"page.emf", "gdi.emf">>, LAMBDA f : WitnessFixture(f) \o Check(f)) \o Probe
Ps ==
    Mkdir \o Maybe(Make("preview.eps")) \o Need("preview.eps", "scratch") \o Make("plain.ps")
    \o Each(<<"preview.eps", "plain.ps">>, LAMBDA f : Read(f) \o Check(f) \o Save(f)) \o Probe
CfbSources == Make("excel97.xls") \o Make("wide97.xls")
CfbConvert == Make("word97.doc")
Cfb ==
    Mkdir \o CfbSources \o Maybe(CfbConvert \o Publish("word97.doc"))
    \o Publish("excel97.xls") \o Publish("wide97.xls")
    \o Each(<<"word97.doc", "excel97.xls", "wide97.xls">>, ReadAndCheckFixture) \o Probe
Document ==
    LET rest == <<"tiny.xlsx", "tiny.pptx", "tiny.odt", "tiny.ods", "tiny.odp", "tiny.epub">> IN
    Maybe(MakeFixture("tiny.docx")) \o Each(rest, MakeFixture)
    \o Each(<<"tiny.docx">> \o rest, LAMBDA f : When(f, "fixtures", WitnessFixture(f)))
Structure ==
    Each(<<"tiny.mid", "tiny.pcap", "tiny.bson", "tiny.msgpack">>, MakeFixture)
    \o Maybe(MakeFixture("tiny.class")) \o Maybe(MakeFixture("tiny-id3v23.mp3"))

(* A library writes the fixture, which is then read where it lies.         *)

Container ==
    Each(<<"tiny.tar", "tiny.wav", "tiny.webp", "tiny.tif", "gnu.tar", "tiny.jpg", "tiny.zip">>,
         MakeFixture)
Netpbm == Each(<<"tiny.ppm", "tiny.pgm", "tiny.pbm", "tiny.ppm-ascii">>, MakeFixture)
FontBuild == MakeFixture("tiny.ttf") \o MakeFixture("tiny.woff")
Font == FontBuild \o Each(<<"tiny.ttf", "tiny.woff">>, ReadFixture) \o Probe
Woff2 ==
    MakeFixture("tiny.woff2") \o ReadFixture("tiny.woff2") \o ReadFixture("tiny.ttf")
    \o WitnessFixture("tiny.woff2") \o Check("tiny.woff2") \o Probe
Icon == MakeFixture("tiny.icns") \o ReadFixture("tiny.icns") \o WitnessRaw("tiny.icns") \o Probe
ThreeMfBuildLab == MakeFixture("lab.3mf") \o WitnessFixture("lab.3mf")
ThreeMf ==
    ThreeMfBuildLab \o MakeFixture("hand.3mf") \o MakeFixture("loose.3mf")
    \o Each(<<"lab.3mf", "hand.3mf", "loose.3mf">>, ReadFixture)
    \o Each(<<"lab.3mf", "hand.3mf", "loose.3mf">>, Check) \o Probe
Arrow ==
    LET own == <<"rows.arrow", "batches.arrow", "dict.arrow", "lz4.arrow", "zstd.arrow",
                 "file.arrow", "file_dict.arrow">> IN
    Each(own, MakeFixture) \o Each(own, ReadAndCheckFixture) \o Probe
Parquet ==
    LET own == <<"rows.parquet", "plain.parquet", "zstd.parquet", "gzip.parquet", "nodict.parquet",
                 "nulls.parquet", "groups.parquet", "typed.parquet">> IN
    Each(own, MakeFixture) \o Each(own, ReadAndCheckFixture) \o Probe
Onnx ==
    LET own == <<"add.onnx", "symbolic.onnx", "types.onnx">> IN
    Each(own, MakeFixture) \o Each(own, ReadAndCheckFixture) \o Probe
Stl ==
    LET own == <<"tet.stl", "many.stl", "normals.stl">> IN
    Each(own, MakeFixture) \o Each(own, ReadAndCheckFixture) \o Probe
(* A sequence of images is saved twice, first its first image alone.       *)
HeifSave(f) == MakeFixture(f) \o ReadFixture(f)
Heif ==
    HeifSave("photo.heic") \o HeifSave("block.heic") \o MakeFixture("seq.heic") \o HeifSave("seq.heic")
    \o HeifSave("container.heif")
    \o Each(<<"photo.heic", "block.heic", "seq.heic", "container.heif">>,
            LAMBDA f : WitnessFixture(f) \o Check(f))
    \o Probe
H5Build(f) == MakeFixture(f) \o ReadAndCheckFixture(f)
H5 == Each(<<"tree-v0.h5", "links-v3.h5">>, H5Build) \o Probe
Jp2Record(f) == MakeFixture(f) \o ReadAndCheckFixture(f)
Jp2 == Each(<<"tiny.jp2", "rgba.jp2", "grey.jp2">>, Jp2Record) \o Probe
QoiRecord(f) == MakeFixture(f) \o ReadAndCheckFixture(f)
Qoi == Each(<<"tiny.qoi", "srgb.qoi", "all6.qoi">>, QoiRecord) \o Probe
NpyDescribe(f) == MakeFixture(f) \o ReadAndCheckFixture(f)
Npy ==
    Each(<<"f64.npy", "i32.npy", "uint16.npy", "scalar.npy", "bools.npy", "bytes4.npy",
           "unicode.npy", "v2.npy", "v3.npy">>, NpyDescribe) \o Probe

-------------------------------------------------------------------------------
(* Bytes made in memory, written before or after they are checked.         *)

AvroWrite(f) == Draft(f) \o Save(f) \o WitnessRaw(f) \o Check(f)
Avro == Each(<<"rows.avro", "deflate.avro", "many.avro">>, AvroWrite) \o Probe
Plist ==
    Each(<<"tiny.bplist", "keyed.bplist", "empty.bplist">>,
         LAMBDA f : Draft(f) \o Save(f) \o WitnessRaw(f) \o Check(f)) \o Probe
Icc ==
    Each(<<"srgb.icc", "xyz.icc">>, LAMBDA f : Draft(f) \o Save(f) \o WitnessRaw(f) \o Check(f))
    \o Probe
Deb ==
    Draft("lab-fixture.deb") \o Save("lab-fixture.deb") \o Probe
    \o Draft("plain.ar") \o Save("plain.ar")
(* The byte-swapped copy goes to temp/, which no step creates.             *)
BmffWideBuild(f) == Draft(f)
BmffWide ==
    BmffWideBuild("wide.mov") \o Save("wide.mov") \o WitnessFixture("wide.mov")
    \o Check("wide.mov") \o Make("wide-swapped.mov") \o Witness("wide-swapped.mov")
    \o WitnessFixture("wide.mov") \o Check("wide.mov") \o Probe
Torrent ==
    Mkdir \o Each(<<"lab.torrent", "lab-multi.torrent">>,
                  LAMBDA f : Draft(f) \o Store(f) \o WitnessRaw(f) \o Check(f) \o Save(f)) \o Probe
Vcard ==
    Mkdir \o Each(<<"lab.vcard", "lab3.vcard">>,
                  LAMBDA f : Draft(f) \o WitnessRaw(f) \o Check(f) \o Save(f))
    \o Each(<<"lab.vcard", "lab3.vcard">>, Check) \o Probe
Gpx ==
    LET own == <<"lab.gpx", "hand.gpx", "broken.gpx">> IN
    Each(own, Draft) \o Each(own, LAMBDA f : WitnessRaw(f) \o Check(f)) \o Each(own, Save) \o Probe
Jsonc ==
    LET own == <<"lab.jsonc", "trailing.jsonc", "broken.jsonc">> IN
    Clean \o Each(own, LAMBDA f : Draft(f) \o Store(f)) \o Each(own, Witness) \o Each(own, Check)
    \o Each(own, Save) \o Probe
Xsd ==
    LET own == <<"broken.xsd", "hand.xsd", "lab.xsd", "many.xsd", "part.xsd">> IN
    Clean \o Each(own, LAMBDA f : Draft(f) \o Store(f))
    \o Each(own, LAMBDA f : Store(f) \o Witness(f) \o Check(f)) \o Each(own, Save) \o Probe

-------------------------------------------------------------------------------
ScriptPrograms ==
    [hash |-> {Hash}, note |-> {Note}, dynamic |-> {Dynamic}, symver |-> {Symver}, tls |-> {Tls},
     debug |-> {Debug}, resource |-> {Resource}, image |-> {Image, ImageProbeOnly},
     pgp |-> {Pgp, PgpProbeOnly}, macho |-> {Macho}, codeview |-> {Codeview}, pdb |-> {Pdb},
     export |-> {Export}, cfg |-> {Cfg}, otf |-> {Otf}, coff |-> {Coff}, elf_reloc |-> {ElfReloc},
     segment |-> {Segment}, version |-> {Version}, import |-> {Import, ImportRefresh},
     reloc |-> {Reloc, RelocRefresh}, demangle |-> {Demangle, DemangleRefresh}, der |-> {Der},
     seven_zip |-> {SevenZip}, psd |-> {Psd}, dotx |-> {Dotx}, emf |-> {Emf}, ps |-> {Ps},
     cfb |-> {Cfb}, document |-> {Document}, structure |-> {Structure}, container |-> {Container},
     netpbm |-> {Netpbm}, font |-> {Font}, woff2 |-> {Woff2}, icon |-> {Icon},
     three_mf |-> {ThreeMf}, arrow |-> {Arrow}, parquet |-> {Parquet}, onnx |-> {Onnx},
     stl |-> {Stl}, heif |-> {Heif}, h5 |-> {H5}, jp2 |-> {Jp2}, qoi |-> {Qoi}, npy |-> {Npy},
     avro |-> {Avro}, plist |-> {Plist}, icc |-> {Icc}, deb |-> {Deb}, bmff_wide |-> {BmffWide},
     torrent |-> {Torrent}, vcard |-> {Vcard}, gpx |-> {Gpx}, jsonc |-> {Jsonc}, xsd |-> {Xsd}]
===============================================================================
