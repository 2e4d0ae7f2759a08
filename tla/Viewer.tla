------------------------------- MODULE Viewer -------------------------------
(***************************************************************************)
(* The file half of demo/index.html: openFile, the entry list, show() and  *)
(* the panels, over the engine.  A page task runs to its end before the    *)
(* next one starts, so an action is one task: the change event, the task   *)
(* that resumes when file.arrayBuffer() settles, or a click.  Nothing      *)
(* cancels an open that is waiting, so several may be in flight and settle *)
(* in any order.                                                           *)
(***************************************************************************)
EXTENDS Engine

CONSTANTS
    Files,      \* what the file chooser may hand over
    Items,      \* the members of the archives among them
    Entries,    \* Entries[f]: the members of archive f, in the engine's order
    Magic,      \* Magic[b]: what the first bytes of a buffer say it is
    Named,      \* Named[i]: what the name of a member says it is
    Links,      \* Links[i]: the members an html member refers to
    Broken,     \* members extract() fails on
    Refused,    \* archives refusedReason() turns away
    Oversize,   \* buffers longer than STRUCT_LIMIT
    Tickets,    \* opens that may wait at once: the bound on overlapping picks
    Faults      \* environment faults allowed: "read", "trap"

Archives == Files \cap Zips

Members(f) == {Entries[f][n] : n \in DOMAIN Entries[f]}

ASSUME ViewerAssumption ==
    /\ Inputs = Files \cup Items
    /\ Files \cap Items = {}
    /\ Entries \in [Archives -> Seq(Items)]
    /\ \A f, g \in Archives : f # g => Members(f) \cap Members(g) = {}
    /\ Magic \in [Inputs -> {"mz", "dex", "axml", "other"}]
    /\ Named \in [Items -> {"exe", "html", "image", "text", "other"}]
    /\ Links \in [Items -> SUBSET Items]
    /\ Broken \subseteq Items
    /\ Refused \subseteq Archives
    /\ Oversize \subseteq Inputs
    /\ Tickets # {}
    /\ Faults \subseteq {"read", "trap"}

VARIABLES
    eng,        \* the engine, see Engine.tla
    reads,      \* reads[t]: the file whose arrayBuffer() ticket t waits for
    label,      \* the file #name shows
    picked,     \* picked: its file and the structure kept for the disassembler
    entries,    \* the archive whose members are listed, or None
    active,     \* the position of the marked list item, 0 for none
    view,       \* what viewerEl holds
    blobs,      \* the object URLs still alive
    status      \* the status line

viewerVars == <<reads, label, picked, entries, active, view, blobs, status, eng>>

Views == [src : Source, as : {"none", "panel", "frame", "image", "text", "hex"}]

Statuses ==
    [kind : {"idle", "reading", "listed", "shown", "refused", "unrecognised",
             "failed", "hint"},
     src : Source]

Blank == [src |-> None, as |-> "none"]
View(b, as) == [src |-> b, as |-> as]
Said(kind, b) == [kind |-> kind, src |-> b]

Structures == {"none", "document", "container", "audio", "stream"}

ViewerInit ==
    /\ eng = Fresh
    /\ reads = [t \in Tickets |-> None]
    /\ label = None
    /\ picked = [file |-> None, structure |-> "none"]
    /\ entries = None
    /\ active = 0
    /\ view = Blank
    /\ blobs = {}
    /\ status = Said("idle", None)

-----------------------------------------------------------------------------
(* structureOf: the four readers in the page's order, until one answers.   *)

Ask(p, r, b) ==
    IF p.found # "none" THEN p
    ELSE [eng |-> Parsed(p.eng, r, b),
          found |-> IF Recognised(r, b) THEN r ELSE "none"]

StructureOf(e, b) ==
    LET untouched == [eng |-> e, found |-> "none"]
    IN  IF b \in Oversize THEN untouched
        ELSE Ask(Ask(Ask(Ask(untouched, "document", b), "container", b),
                     "audio", b), "stream", b)

(* The engines a trap in structureOf may leave.  A reader that is cut off  *)
(* has changed nothing: each allocates its rows, or its words, before it   *)
(* stores any of them.                                                     *)
StructureStages(e, b) ==
    LET doc == Ask([eng |-> e, found |-> "none"], "document", b)
        box == Ask(doc, "container", b)
        snd == Ask(box, "audio", b)
    IN  IF b \in Oversize THEN {}
        ELSE {e, doc.eng, box.eng, snd.eng, StructureOf(e, b).eng}

-----------------------------------------------------------------------------
(* show(index) and the panels.  `e` is the engine as show() finds it, `n`  *)
(* a position in the listing of archive f, `said` the status line so far,  *)
(* which stays when show() throws: its caller is a click listener, and     *)
(* nothing reports what a listener throws.                                 *)

Extractable(e, n) ==
    /\ ~e.borrowed
    /\ e.archive # None
    /\ n \in DOMAIN Entries[e.archive]
    /\ Entries[e.archive][n] \notin Broken

ExtractThrows(e, n, said) ==
    /\ ~e.borrowed
    /\ ~Extractable(e, n)
    /\ eng' = IF e.archive = None THEN e ELSE WithError(e, "extract", e.archive)
    /\ status' = said
    /\ UNCHANGED <<view, blobs>>

(* A trap under by_index or read keeps the borrow, one in alloc does not;  *)
(* once the borrow is kept, extract always traps.                          *)
ShowTraps(e, said) ==
    /\ e.borrowed \/ "trap" \in Faults
    /\ \E kept \in BOOLEAN : eng' = [e EXCEPT !.borrowed = @ \/ kept]
    /\ status' = said
    /\ UNCHANGED <<view, blobs>>

(* showPe, showDex, showAxml: the viewer is cleared whatever the reader    *)
(* says, and filled when it recognised the bytes.                          *)
HeaderPanel(e, r, b) ==
    /\ eng' = Parsed(e, r, b)
    /\ view' = IF Recognised(r, b) THEN View(b, "panel") ELSE Blank
    /\ status' = Said(IF Recognised(r, b) THEN "shown" ELSE "unrecognised", b)

(* An html member inlines its siblings, so one that does not come out ends *)
(* the task after the viewer was emptied.                                  *)
ShowPage(e, i, said) ==
    LET whole == Links[i] \cap Broken = {}
    IN  /\ eng' = IF whole THEN e ELSE WithError(e, "extract", e.archive)
        /\ view' = IF whole THEN View(i, "frame") ELSE Blank
        /\ status' = IF whole THEN Said("shown", i) ELSE said

ShowStructured(e, i) ==
    LET p == StructureOf(e, i)
    IN  /\ eng' = p.eng
        /\ view' = View(i, IF p.found = "none" THEN "hex" ELSE "panel")
        /\ status' = Said("shown", i)

ShowPlain(e, i, as) ==
    /\ eng' = e
    /\ view' = View(i, as)
    /\ status' = Said("shown", i)

(* The name decides for .exe, then the bytes for dex and binary XML, then  *)
(* the name again: the listed entry gives the name, the archive the bytes. *)
Dispatch(name, magic) ==
    IF name = "exe" THEN "pe"
    ELSE IF magic \in {"dex", "axml"} THEN magic
    ELSE name

ShowExtracted(e, f, n, said) ==
    LET i == Entries[e.archive][n]
        way == Dispatch(Named[Entries[f][n]], Magic[i])
    IN  /\ Extractable(e, n)
        /\ blobs' = IF way = "image" THEN {i} ELSE {}
        /\ \/ way \in {"pe", "dex", "axml"} /\ HeaderPanel(e, way, i)
           \/ way = "html" /\ ShowPage(e, i, said)
           \/ way \in {"image", "text"} /\ ShowPlain(e, i, way)
           \/ way = "other" /\ ShowStructured(e, i)

(* A trap behind that extract finds the viewer emptied and the object URLs *)
(* released: in or behind the header reader, under a sibling of a page, or *)
(* in structureOf.  Text and images need the engine no more.               *)
ShowTrapsLate(e, f, n, said) ==
    LET i == Entries[e.archive][n]
        way == Dispatch(Named[Entries[f][n]], Magic[i])
    IN  /\ "trap" \in Faults
        /\ Extractable(e, n)
        /\ \/ way \in {"pe", "dex", "axml"} /\ eng' \in {e, Parsed(e, way, i)}
           \/ /\ way = "html" /\ Links[i] # {}
              /\ \E kept \in BOOLEAN : eng' = [e EXCEPT !.borrowed = kept]
           \/ way = "other" /\ eng' \in StructureStages(e, i)
        /\ view' = Blank
        /\ blobs' = {}
        /\ status' = said

Show(e, f, n, said) ==
    \/ ExtractThrows(e, n, said)
    \/ ShowTraps(e, said)
    \/ ShowTrapsLate(e, f, n, said)
    \/ ShowExtracted(e, f, n, said)

-----------------------------------------------------------------------------
(* The change event: everything openFile does before its one await.        *)

(* mutant: the list of the file before stays                               *)
PickFileOverList(f) ==
    /\ \E t \in Tickets :
          /\ reads[t] = None
          /\ reads' = [reads EXCEPT ![t] = f]
    /\ label' = f
    /\ status' = Said("reading", f)
    /\ blobs' = {}
    /\ UNCHANGED <<picked, entries, active, view, eng>>

(* mutant: releaseBlobs is not called                                      *)
PickFileKeepingBlobs(f) ==
    /\ \E t \in Tickets :
          /\ reads[t] = None
          /\ reads' = [reads EXCEPT ![t] = f]
    /\ label' = f
    /\ status' = Said("reading", f)
    /\ entries' = None
    /\ active' = 0
    /\ UNCHANGED <<picked, view, blobs, eng>>

PickFile(f) ==
    /\ \E t \in Tickets :
          /\ reads[t] = None
          /\ reads' = [reads EXCEPT ![t] = f]
    /\ label' = f
    /\ status' = Said("reading", f)
    /\ entries' = None
    /\ active' = 0
    /\ blobs' = {}
    /\ UNCHANGED <<picked, view, eng>>

(* The task that resumes with the bytes; its parts share what it begins    *)
(* with and differ in where it returns.                                    *)

Resume(t, f) ==
    /\ f # None
    /\ reads[t] = f
    /\ reads' = [reads EXCEPT ![t] = None]
    /\ UNCHANGED label

(* mutant: only the structure is renewed                                   *)
PickedStructure(f, structure) == picked' = [picked EXCEPT !.structure = structure]

PickedNow(f, structure) == picked' = [file |-> f, structure |-> structure]

Classified(e, f) == Parsed(Opened(e, f), "document", f)

HtmlAt(f) == {n \in DOMAIN Entries[f] : Named[Entries[f][n]] = "html"}

IsFirstHtml(n, f) == n \in HtmlAt(f) /\ \A m \in HtmlAt(f) : n <= m

(* an .exe or a classes.dex on its own *)
OpenHeader(t) ==
    \E f \in Files, r \in {"pe", "dex"} :
        /\ Resume(t, f)
        /\ Magic[f] = IF r = "pe" THEN "mz" ELSE "dex"
        /\ HeaderPanel(eng, r, f)
        /\ PickedNow(f, "none")
        /\ UNCHANGED <<entries, active, blobs>>

GoesToOpen(f) == Magic[f] \notin {"mz", "dex"}

OpenArchive(t, f) ==
    /\ Resume(t, f)
    /\ GoesToOpen(f)
    /\ f \in Archives
    /\ OpenReturns(eng, f)
    /\ PickedNow(f, "none")

(* mutant: refusedReason is printed, and the members listed all the same   *)
OpenRefusedListing(t) ==
    \E f \in Refused :
        /\ OpenArchive(t, f)
        /\ eng' = Classified(eng, f)
        /\ entries' = f
        /\ active' = 0
        /\ status' = Said("refused", f)
        /\ UNCHANGED <<view, blobs>>

OpenRefused(t) ==
    \E f \in Refused :
        /\ OpenArchive(t, f)
        /\ eng' = Classified(eng, f)
        /\ entries' = None
        /\ active' = 0
        /\ status' = Said("refused", f)
        /\ UNCHANGED <<view, blobs>>

(* mutant: the line that counts the members is not written                 *)
OpenListingSilently(t) ==
    \E f \in Archives \ Refused :
        /\ OpenArchive(t, f)
        /\ HtmlAt(f) = {}
        /\ eng' = Classified(eng, f)
        /\ entries' = f
        /\ active' = 0
        /\ UNCHANGED <<view, blobs, status>>

OpenListing(t) ==
    \E f \in Archives \ Refused :
        /\ OpenArchive(t, f)
        /\ HtmlAt(f) = {}
        /\ eng' = Classified(eng, f)
        /\ entries' = f
        /\ active' = 0
        /\ status' = Said("listed", f)
        /\ UNCHANGED <<view, blobs>>

(* an archive with a page in it: the task ends by clicking the first one *)
OpenPage(t) ==
    \E f \in Archives \ Refused : \E n \in DOMAIN Entries[f] :
        /\ OpenArchive(t, f)
        /\ IsFirstHtml(n, f)
        /\ entries' = f
        /\ active' = n
        /\ Show(Classified(eng, f), f, n, Said("listed", f))

OpenStructure(t) ==
    \E f \in Files \ Archives :
        LET p == StructureOf(Opened(eng, f), f)
        IN  /\ Resume(t, f)
            /\ GoesToOpen(f)
            /\ PickedNow(f, p.found)
            /\ eng' = p.eng
            /\ view' = IF p.found = "none" THEN view ELSE View(f, "panel")
            /\ status' = Said(IF p.found = "none" THEN "unrecognised" ELSE "shown", f)
            /\ UNCHANGED <<entries, active, blobs>>

(* mutant: the change listener has no catch                                *)
ReadFailsSilently(t) ==
    \E f \in Files :
        /\ "read" \in Faults
        /\ Resume(t, f)
        /\ UNCHANGED <<picked, entries, active, view, blobs, status, eng>>

(* arrayBuffer() rejects: only openFile's catch runs *)
ReadFails(t) ==
    \E f \in Files :
        /\ "read" \in Faults
        /\ Resume(t, f)
        /\ status' = Said("failed", f)
        /\ UNCHANGED <<picked, entries, active, view, blobs, eng>>

(* The engine traps under openFile: in or behind the header reader, inside *)
(* parse_document with the new archive already held, inside entry() with   *)
(* it borrowed, or in structureOf after open refused the bytes.            *)
HeaderReader(f) == IF Magic[f] = "mz" THEN "pe" ELSE "dex"

TrapPoints(e, f) ==
    IF ~GoesToOpen(f) THEN {e, Parsed(e, HeaderReader(f), f)}
    ELSE IF ~OpenReturns(e, f) THEN {e}
    ELSE IF f \in Zips
    THEN {e, Opened(e, f), Classified(e, f), [Classified(e, f) EXCEPT !.borrowed = TRUE]}
    ELSE {e, Opened(e, f)} \cup StructureStages(Opened(e, f), f)

OpenTraps(t) ==
    \E f \in Files :
        /\ Resume(t, f)
        /\ "trap" \in Faults \/ (GoesToOpen(f) /\ ~OpenReturns(eng, f))
        /\ PickedNow(f, "none")
        /\ \/ eng' \in TrapPoints(eng, f) /\ UNCHANGED view
           \* the panel of a refused header is emptied before the reason is read
           \/ /\ ~GoesToOpen(f) /\ ~Recognised(HeaderReader(f), f)
              /\ eng' = Parsed(eng, HeaderReader(f), f)
              /\ view' = Blank
        /\ status' = Said("failed", f)
        /\ UNCHANGED <<entries, active, blobs>>

ReadSettles(t) ==
    \/ OpenHeader(t)
    \/ OpenRefused(t)
    \/ OpenListing(t)
    \/ OpenPage(t)
    \/ OpenStructure(t)
    \/ ReadFails(t)
    \/ OpenTraps(t)

ClickEntry ==
    /\ entries # None
    /\ \E n \in DOMAIN Entries[entries] :
          /\ active' = n
          /\ Show(eng, entries, n, status)
    /\ UNCHANGED <<reads, label, picked, entries>>

(* the allow-scripts box only overwrites the status line *)
ToggleScripts ==
    /\ status' = Said("hint", None)
    /\ UNCHANGED <<reads, label, picked, entries, active, view, blobs, eng>>

ViewerNext ==
    \/ \E f \in Files : PickFile(f)
    \/ \E t \in Tickets : ReadSettles(t)
    \/ ClickEntry
    \/ ToggleScripts

ViewerSpec == ViewerInit /\ [][ViewerNext]_viewerVars

(* The browser settles every arrayBuffer(); nobody has to click.           *)
ViewerFairness == \A t \in Tickets : WF_viewerVars(ReadSettles(t))

FairViewerSpec == ViewerSpec /\ ViewerFairness

-----------------------------------------------------------------------------
ViewerTypeOK ==
    /\ eng \in EngineStates
    /\ reads \in [Tickets -> Files \cup {None}]
    /\ label \in Files \cup {None}
    /\ picked \in [file : Files \cup {None}, structure : Structures]
    /\ entries \in (Archives \ Refused) \cup {None}
    /\ active \in Nat
    /\ view \in Views
    /\ blobs \in SUBSET Items
    /\ status \in Statuses

Waiting == {t \in Tickets : reads[t] # None}

(* A click extracts by position (`show(index)`), so the names listed and   *)
(* the bytes that come out agree only while the engine holds the archive   *)
(* the list was made from - with any number of opens settling in any order *)
(* around it.                                                              *)
EntriesMatchArchive == entries # None => eng.archive = entries

(* The status line never keeps saying a file is being read when no read is *)
(* outstanding (the comment on openFile's catch).                          *)
ReadingMeansWaiting == status.kind = "reading" => Waiting # {}

(* releaseBlobs keeps an object URL alive no longer than the image made    *)
(* from it is in the viewer, and there is never a second one.              *)
BlobOnlyWhileShown == blobs # {} => view.as = "image" /\ blobs = {view.src}

(* While a list item is marked, what is put into the viewer is that item's *)
(* bytes or nothing: no other task writes over what the list says is open. *)
MarkedStep ==
    (active' # 0 /\ view' # view)
        => view'.src \in {Entries[entries'][active'], None}

ViewerFollowsMark == [][MarkedStep]_viewerVars

(* Where the page says why nothing recognised some bytes it prints         *)
(* last_error, which by then must be words about those very bytes.         *)
ReasonStep ==
    (status'.kind = "unrecognised" /\ status' # status)
        => eng'.error.src = status'.src

ReasonIsAboutTheBytes == [][ReasonStep]_viewerVars

(* Every "reading" line gives way, however the reads overlap.              *)
ReadingEnds == status.kind = "reading" ~> status.kind # "reading"
=============================================================================
