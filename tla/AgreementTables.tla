---------------------------- MODULE AgreementTables ----------------------------
(* The fixture scripts whose tables Agreement and its two companions hold.  *)
EXTENDS AgreementPe, AgreementData

Scripts ==
    LET Script(c, p, alone) == [compares |-> c, publishes |-> p, onOneWord |-> alone]
    IN  [hash |-> Script(HashCompares, HashPublishes, HashOnOneWord),
         symver |-> Script(SymverCompares, SymverPublishes, SymverOnOneWord),
         note |-> Script(NoteCompares, NotePublishes, NoteOnOneWord),
         dynamic |-> Script(DynamicCompares, DynamicPublishes, DynamicOnOneWord),
         segment |-> Script(SegmentCompares, SegmentPublishes, SegmentOnOneWord),
         elf_reloc |-> Script(ElfRelocCompares, ElfRelocPublishes, ElfRelocOnOneWord),
         export |-> Script(ExportCompares, ExportPublishes, ExportOnOneWord),
         import |-> Script(ImportCompares, ImportPublishes, ImportOnOneWord),
         resource |-> Script(ResourceCompares, ResourcePublishes, ResourceOnOneWord),
         version |-> Script(VersionCompares, VersionPublishes, VersionOnOneWord),
         tls |-> Script(TlsCompares, TlsPublishes, TlsOnOneWord),
         debug |-> Script(DebugCompares, DebugPublishes, DebugOnOneWord),
         reloc |-> Script(RelocCompares, RelocPublishes, RelocOnOneWord),
         image |-> Script(ImageCompares, ImagePublishes, ImageOnOneWord),
         macho |-> Script(MachoCompares, MachoPublishes, MachoOnOneWord),
         coff |-> Script(CoffCompares, CoffPublishes, CoffOnOneWord),
         codeview |-> Script(CodeviewCompares, CodeviewPublishes, CodeviewOnOneWord),
         pdb |-> Script(PdbCompares, PdbPublishes, PdbOnOneWord),
         heif |-> Script(HeifCompares, HeifPublishes, HeifOnOneWord),
         psd |-> Script(PsdCompares, PsdPublishes, PsdOnOneWord),
         pgp |-> Script(PgpCompares, PgpPublishes, PgpOnOneWord),
         arrow |-> Script(ArrowCompares, ArrowPublishes, ArrowOnOneWord),
         parquet |-> Script(ParquetCompares, ParquetPublishes, ParquetOnOneWord),
         onnx |-> Script(OnnxCompares, OnnxPublishes, OnnxOnOneWord),
         der |-> Script(DerCompares, DerPublishes, DerOnOneWord),
         xsd |-> Script(XsdCompares, XsdPublishes, XsdOnOneWord),
         cfb |-> Script(CfbCompares, CfbPublishes, CfbOnOneWord)]
===============================================================================
