-------------------------------- MODULE Tools --------------------------------
(***************************************************************************)
(* The two modules a visitor loads by hand: the object-file analyser and   *)
(* the disassembler (loadModule, analysisRows, paintRegions and            *)
(* disassembleHere in demo/index.html, analyse and its slots in            *)
(* analysis/src/lib.rs), beside the file half of the page in Viewer.       *)
(*                                                                         *)
(* Loading awaits the fetch, the body and the compilation; everything the  *)
(* modules are asked after that happens in the task that resumes.          *)
(***************************************************************************)
EXTENDS Viewer

CONSTANTS
    Sample,         \* the ELF self_test analyses
    Analysable,     \* files analyse() reads
    AnalysedCode,   \* those whose rows give an architecture and a code section
    CoffCode,       \* files whose structure panel is a COFF one with x86-64 code
    CoffOther,      \* files whose structure panel is any other COFF one
    Decodes,        \* files whose code disasm_run takes
    ToolFaults,     \* faults of a load and of the analyser: "fetch", "trap"
    Key             \* Key[f]: pickedKey() while f is picked, "name:length"

Modules == {"analysis", "disasm"}

ASSUME ToolsAssumption ==
    /\ Sample \notin Files \cup {None}
    /\ Analysable \subseteq Files
    /\ AnalysedCode \subseteq Analysable
    /\ CoffCode \cup CoffOther \subseteq Files \cap Accepts["container"]
    /\ CoffCode \cap CoffOther = {}
    /\ Decodes \subseteq Files
    /\ ToolFaults \subseteq {"fetch", "trap"}

VARIABLES
    phase,      \* phase[m]: how far loadModule has come
    button,     \* button[m]: whether the row's button can be clicked
    pane,       \* the analyser: its page state, its slots and its painted lists
    listing,    \* the file the analyser's printed rows are about
    report      \* the disassembler's report: whose code, whose names

toolVars == <<phase, button, pane, listing, report>>
pageVars == <<viewerVars, toolVars>>

MaybeFile == Files \cup {None}
Loading == {"fetch", "body", "compile"}
Phases == Loading \cup {"off", "ready"}

Painted == [lists : MaybeFile \cup {Sample}, xrefs : MaybeFile]
NotPainted == [lists |-> None, xrefs |-> None]

Panes ==
    [known : BOOLEAN,       \* toolState holds an analysis state
     mod : BOOLEAN,         \* which holds the instance
     host : BOOLEAN,        \* and the place to paint
     rows : MaybeFile,      \* the file state.rows lists, None for no rows
     xrefs : MaybeFile,     \* the file whose code state.xrefs was read from
     key : {Key[f] : f \in Files} \cup {None},     \* state.xrefFile
     names : MaybeFile \cup {Sample},  \* the file NAMES was read from
     lists : MaybeFile \cup {Sample},  \* the file of any other slot not empty
     painted : Painted,     \* what the box under the listing shows
     cut : BOOLEAN]         \* history: analyse was cut off since it last answered

Bare == [known |-> FALSE, mod |-> FALSE, host |-> FALSE, rows |-> None,
         xrefs |-> None, key |-> None, names |-> None, lists |-> None,
         painted |-> NotPainted, cut |-> FALSE]

ToolsInit ==
    /\ ViewerInit
    /\ phase = [m \in Modules |-> "off"]
    /\ button = [m \in Modules |-> TRUE]
    /\ pane = Bare
    /\ listing = None
    /\ report = [code |-> None, names |-> None]

-----------------------------------------------------------------------------
(* The functions of the page, as maps on the pane; f is the picked file.   *)

PickedKey(f) == IF f = None THEN None ELSE Key[f]

(* mutant: edges outlive the file they were read from                      *)
KeepForeignXrefs(p, f) == p

DropForeignXrefs(p, f) ==
    IF p.key = PickedKey(f) THEN p ELSE [p EXCEPT !.xrefs = None, !.key = None]

(* analyse_run: analyse clears every slot before it reads, and leaves them *)
(* cleared when the bytes are no object file                               *)
Analysed(p, f) ==
    LET got == IF f \in Analysable THEN f ELSE None
    IN  [p EXCEPT !.names = got, !.lists = got, !.cut = FALSE, !.rows = got]

(* What NAMES and the other slots hold when that call is cut off: as they  *)
(* were, before it began (the page asks for room for the whole file);      *)
(* emptied; the file's rows with no names yet; or its rows and its names,  *)
(* which come before the map, the strings and the listing.                 *)
(* mutant: the names are not emptied before the file is read               *)
CutOffUncleared(p, f) ==
    {<<p.names, p.lists>>, <<p.names, None>>}
        \cup {<<n, f>> : n \in IF f \in Analysable THEN {p.names, f} ELSE {}}

CutOff(p, f) ==
    {<<p.names, p.lists>>, <<None, None>>}
        \cup {<<n, f>> : n \in IF f \in Analysable THEN {None, f} ELSE {}}

PaintRegions(p, f) ==
    IF ~p.host THEN p
    ELSE [p EXCEPT !.painted =
        IF f = None THEN NotPainted ELSE [lists |-> p.lists, xrefs |-> p.xrefs]]

AnalyseHere(p, f) == IF p.mod /\ f # None THEN Analysed(p, f) ELSE p

AnalysisRows(p, f) ==
    IF ~p.known THEN p
    ELSE PaintRegions(AnalyseHere(DropForeignXrefs(p, f), f), f)

(* disasmPlan: a COFF object answers from the structure panel, and the     *)
(* analyser is not asked                                                   *)
FromPanel == picked.structure = "container" /\ picked.file \in CoffCode \cup CoffOther

PlanPane(p, f) == IF FromPanel THEN p ELSE AnalysisRows(p, f)

PlanIsCode(p, f) ==
    IF FromPanel THEN f \in CoffCode
    ELSE p.known /\ p.rows = f /\ f \in AnalysedCode

(* the edges are kept with the analyser's state, and painted at once       *)
(* mutant: the file is remembered by something pickedKey never returns     *)
KeepXrefsByFile(p, f) ==
    IF ~p.known THEN p
    ELSE PaintRegions([p EXCEPT !.xrefs = f, !.key = f], f)

KeepXrefs(p, f) ==
    IF ~p.known THEN p
    ELSE PaintRegions([p EXCEPT !.xrefs = f, !.key = Key[f]], f)

(* the name pass re-reads the open file before it looks a name up          *)
(* mutant: the name pass looks up in whatever index is held                *)
NamePassAsIs(p, f) == p

NamePass(p, f) == IF p.known /\ p.mod THEN AnalysisRows(p, f) ELSE p

NamesIn(p) == IF p.known /\ p.mod THEN p.names ELSE None

-----------------------------------------------------------------------------
(* loadModule.  `p` is the pane with the state object this click put into  *)
(* toolState, `f` the file picked when the task runs.                      *)

NewState(p, mod) ==
    [p EXCEPT !.known = TRUE, !.mod = mod, !.host = FALSE, !.rows = None,
              !.xrefs = None, !.key = None]

ListRows(p, f) ==
    LET held == [p EXCEPT !.mod = TRUE, !.host = TRUE]
    IN  /\ pane' = PaintRegions(AnalysisRows(held, f), f)
        /\ listing' = f
        /\ UNCHANGED report

NothingToDisassemble(p, f) ==
    /\ f # None => ~(PlanIsCode(PlanPane(p, f), f) /\ f \in Decodes)
    /\ pane' = IF f = None THEN p ELSE PlanPane(p, f)
    /\ report' = [code |-> None, names |-> None]
    /\ UNCHANGED listing

Disassemble(p, f) ==
    LET planned == PlanPane(p, f)
        done == NamePass(KeepXrefs(planned, f), f)
    IN  /\ f # None
        /\ PlanIsCode(planned, f) /\ f \in Decodes
        /\ pane' = done
        /\ report' = [code |-> f, names |-> NamesIn(done)]
        /\ UNCHANGED listing

(* Where a click may be when the analyser traps: about to re-read the file *)
(* for the rows or the plan, or, the code disassembled and its edges kept, *)
(* for the names.                                                          *)
AtRows(m, p, f) ==
    IF m = "disasm" /\ FromPanel THEN {} ELSE {DropForeignXrefs(p, f)}

AtNames(m, p, f) ==
    IF m = "disasm" /\ PlanIsCode(PlanPane(p, f), f) /\ f \in Decodes
    THEN {KeepXrefs(PlanPane(p, f), f)} ELSE {}

Asked(m, p) == [p EXCEPT !.mod = @ \/ m = "analysis", !.host = @ \/ m = "analysis"]

(* analyse_run is cut off; the page keeps the rows it had, and the catch   *)
(* in loadModule says so: nothing is printed or painted                    *)
AnalyserTraps(m, p, f) ==
    /\ "trap" \in ToolFaults
    /\ f # None
    /\ Asked(m, p).known /\ Asked(m, p).mod
    /\ \E before \in AtRows(m, Asked(m, p), f) \cup AtNames(m, Asked(m, p), f) :
          \E left \in CutOff(before, f) :
             pane' = [before EXCEPT !.names = left[1], !.lists = left[2], !.cut = TRUE]
    /\ UNCHANGED <<listing, report>>

(* It answered, and traps as the page reads it back: while the box is      *)
(* painted, the old one gone (the rows printed already when it is the last *)
(* painting of loadModule), or while a name is looked up.                  *)
ReadBackTraps(m, p, f) ==
    LET read == {AnalysisRows(q, f) : q \in AtRows(m, Asked(m, p), f)
                                              \cup AtNames(m, Asked(m, p), f)}
    IN  /\ "trap" \in ToolFaults
        /\ f # None
        /\ Asked(m, p).known /\ Asked(m, p).mod
        /\ \/ /\ \E q \in read \cup AtNames(m, Asked(m, p), f) :
                    pane' = [q EXCEPT !.painted = NotPainted]
              /\ listing' \in {listing} \cup (IF m = "analysis" THEN {f} ELSE {})
           \/ /\ pane' \in {AnalysisRows(q, f) : q \in AtNames(m, Asked(m, p), f)}
              /\ UNCHANGED listing
        /\ UNCHANGED report

Serve(m, p, f) ==
    \/ m = "analysis" /\ ListRows(p, f)
    \/ m = "disasm" /\ NothingToDisassemble(p, f)
    \/ m = "disasm" /\ Disassemble(p, f)
    \/ AnalyserTraps(m, p, f)
    \/ ReadBackTraps(m, p, f)

(* the first click on a row: up to the fetch *)
StartLoad(m) ==
    /\ button[m]
    /\ phase[m] # "ready"
    /\ phase' = [phase EXCEPT ![m] = "fetch"]
    /\ button' = [button EXCEPT ![m] = FALSE]
    /\ pane' = IF m = "analysis" THEN NewState(pane, FALSE) ELSE pane
    /\ UNCHANGED <<listing, report, viewerVars>>

LoadStep(m) ==
    /\ phase[m] \in {"fetch", "body"}
    /\ phase' = [phase EXCEPT ![m] = IF @ = "fetch" THEN "body" ELSE "compile"]
    /\ UNCHANGED <<button, pane, listing, report, viewerVars>>

(* mutant: the catch forgets the button                                    *)
LoadFailsDead(m) ==
    /\ "fetch" \in ToolFaults
    /\ phase[m] \in Loading
    /\ phase' = [phase EXCEPT ![m] = "off"]
    /\ UNCHANGED <<button, pane, listing, report, viewerVars>>

(* no such file, a broken connection, bytes that do not compile *)
LoadFails(m) ==
    /\ "fetch" \in ToolFaults
    /\ phase[m] \in Loading
    /\ phase' = [phase EXCEPT ![m] = "off"]
    /\ button' = [button EXCEPT ![m] = TRUE]
    /\ UNCHANGED <<pane, listing, report, viewerVars>>

SelfTested(p) == [p EXCEPT !.names = Sample, !.lists = Sample]

(* the last await returns: self_test, which analyses the sample, and then  *)
(* the row's own work                                                      *)
LoadEnds(m) ==
    /\ phase[m] = "compile"
    /\ phase' = [phase EXCEPT ![m] = "ready"]
    /\ button' = [button EXCEPT ![m] = TRUE]
    /\ Serve(m, IF m = "analysis" THEN SelfTested(pane) ELSE pane, picked.file)
    /\ UNCHANGED viewerVars

(* a click on a row already loaded: one task, no fetch *)
ServeAgain(m) ==
    /\ button[m]
    /\ phase[m] = "ready"
    /\ Serve(m, IF m = "analysis" THEN NewState(pane, TRUE) ELSE pane, picked.file)
    /\ UNCHANGED <<phase, button, viewerVars>>

LoadProceeds(m) == LoadStep(m) \/ LoadFails(m) \/ LoadEnds(m)

ToolsNext ==
    \/ ViewerNext /\ UNCHANGED toolVars
    \/ \E m \in Modules : StartLoad(m) \/ ServeAgain(m) \/ LoadProceeds(m)

ToolsSpec == ToolsInit /\ [][ToolsNext]_pageVars

(* The browser settles every fetch and compilation.                        *)
FairToolsSpec == ToolsSpec /\ \A m \in Modules : WF_pageVars(LoadProceeds(m))

-----------------------------------------------------------------------------
ToolsTypeOK ==
    /\ phase \in [Modules -> Phases]
    /\ button \in [Modules -> BOOLEAN]
    /\ pane \in Panes
    /\ listing \in MaybeFile
    /\ report \in [code : MaybeFile, names : MaybeFile]

(* "an index built from the file the visitor looked at before this one     *)
(* would name real addresses with someone else's symbols": the names in a  *)
(* disassembly are of the file the instructions are of.                    *)
NamesAreOfTheCode == report.names \in {None, report.code}

(* The painted map and lists are of a file the visitor picked - never of   *)
(* the self-test's sample - and the reference column counts edges of that  *)
(* same file (the comment in analysisRows), unless the analyser was cut    *)
(* off and has not answered since: the edges are painted before the name   *)
(* pass re-reads the file, beside whatever lists the instance holds, and a *)
(* trap in that pass leaves the two together.                              *)
PaintedIsOneFile ==
    ~pane.cut =>
        /\ pane.painted.lists # Sample
        /\ (pane.painted.lists # None /\ pane.painted.xrefs # None)
              => pane.painted.xrefs = pane.painted.lists

(* A row's button is dead exactly while its module is on the way, so no    *)
(* second fetch of it can start and a failed one can be tried again.       *)
ButtonTellsLoading == \A m \in Modules : button[m] <=> phase[m] \notin Loading

(* "The same numbers also stand behind the address-to-name lookup below,   *)
(* which has to describe one file or none": what the module's own slots    *)
(* hold is never of two files, wherever a call was cut off; and the rows   *)
(* the page keeps are of the file the module's names are of, once analyse  *)
(* has answered again after it was cut off.  (The rows live in the page    *)
(* and the slots in the instance: tasks of two buttons, the self-test and  *)
(* failures renew one without the other, and a call cut off behind the     *)
(* names leaves the new file's names beside the old file's rows.)          *)
RowsAndNamesAgree ==
    /\ pane.names # None /\ pane.lists # None => pane.names = pane.lists
    /\ (~pane.cut /\ pane.rows # None /\ pane.names # None) => pane.rows = pane.names

(* Every load that was started gives its button back.                      *)
LoadingEnds == \A m \in Modules : ~button[m] ~> button[m]
=============================================================================
