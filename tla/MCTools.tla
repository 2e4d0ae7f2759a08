------------------------------ MODULE MCTools -------------------------------
(* A linked executable, a COFF object, an object for a machine the         *)
(* disassembler does not have, and bytes that are none of these.           *)
EXTENDS Tools

CONSTANTS elf, obj, mips, text

MCAccepts == [r \in Readers |->
    IF r = "container" THEN Files \cap {obj} ELSE {}]
MCMagic == [f \in Files |-> "other"]
MCAnalysable == Files \cap {elf, obj, mips}
MCAnalysedCode == Files \cap {elf, obj}
MCCoff == Files \cap {obj}
MCDecodes == Files \cap {elf, obj}
MCKey == [f \in Files |-> <<f>>]
NoEntries == <<>>
=============================================================================
