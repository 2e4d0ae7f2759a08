SPECIFICATION FairToolsSpec
CONSTANTS
    elf = elf
    obj = obj
    mips = mips
    text = text
    None = None
    Sample = Sample
    Files = {elf, obj, mips, text}
    Items = {}
    Inputs = {elf, obj, mips, text}
    Entries <- NoEntries
    Magic <- MCMagic
    Named <- NoEntries
    Links <- NoEntries
    Broken = {}
    Accepts <- MCAccepts
    Empty = {}
    Zips = {}
    Refused = {}
    Oversize = {}
    Tickets = {1}
    Faults = {}
    ToolFaults = {"fetch", "trap"}
    Analysable <- MCAnalysable
    AnalysedCode <- MCAnalysedCode
    CoffCode <- MCCoff
    CoffOther = {}
    Decodes <- MCDecodes
    Key <- MCKey
INVARIANT ToolsTypeOK
INVARIANT NamesAreOfTheCode
INVARIANT PaintedIsOneFile
INVARIANT RowsAndNamesAgree
INVARIANT ButtonTellsLoading
PROPERTY LoadingEnds
