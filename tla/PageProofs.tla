----------------------------- MODULE PageProofs -----------------------------
(***************************************************************************)
(* The file half of the page, for any files, members and archives: first   *)
(* what holds with any number of opens waiting at once, then what holds    *)
(* while the visitor lets each finish, the promise of Browsing first; then *)
(* the analyser and the disassembler beside it, for any files, any number  *)
(* of opens waiting and any failures.                                      *)
(***************************************************************************)
EXTENDS ViewerPromise, Tools, EngineProofs, SequenceTheorems

-----------------------------------------------------------------------------
(* What structureOf and the opening of a file keep of the engine.          *)

LEMMA AskKeeps ==
    ASSUME NEW p \in [eng : EngineStates, found : Structures],
           NEW r \in {"document", "container", "audio", "stream"},
           NEW b \in Inputs
    PROVE  /\ Ask(p, r, b) \in [eng : EngineStates, found : Structures]
           /\ Ask(p, r, b).eng.archive = p.eng.archive
<1>1. r \in Readers /\ r \in Structures /\ "none" \in Structures
  BY DEF Readers, Structures
<1>2. p.eng \in EngineStates
  OBVIOUS
<1>3. /\ Parsed(p.eng, r, b) \in EngineStates
      /\ Parsed(p.eng, r, b).archive = p.eng.archive
  BY <1>1, <1>2, ParsedKeeps
<1> QED
  BY <1>1, <1>3 DEF Ask

LEMMA StructureOfKeeps ==
    ASSUME NEW e \in EngineStates, NEW b \in Inputs
    PROVE  /\ StructureOf(e, b) \in [eng : EngineStates, found : Structures]
           /\ StructureOf(e, b).eng.archive = e.archive
<1> DEFINE P == [eng : EngineStates, found : Structures]
           p0 == [eng |-> e, found |-> "none"]
           p1 == Ask(p0, "document", b)
           p2 == Ask(p1, "container", b)
           p3 == Ask(p2, "audio", b)
           p4 == Ask(p3, "stream", b)
<1>1. p0 \in P /\ p0.eng.archive = e.archive
  BY DEF Structures
<1> HIDE DEF p0
<1>2. p1 \in P /\ p1.eng.archive = p0.eng.archive
  BY <1>1, AskKeeps
<1> HIDE DEF p1
<1>3. p2 \in P /\ p2.eng.archive = p1.eng.archive
  BY <1>2, AskKeeps
<1> HIDE DEF p2
<1>4. p3 \in P /\ p3.eng.archive = p2.eng.archive
  BY <1>3, AskKeeps
<1> HIDE DEF p3
<1>5. p4 \in P /\ p4.eng.archive = p3.eng.archive
  BY <1>4, AskKeeps
<1> HIDE DEF p4
<1>6. StructureOf(e, b) = IF b \in Oversize THEN p0 ELSE p4
  BY DEF StructureOf, p0, p1, p2, p3, p4
<1> QED
  BY <1>1, <1>2, <1>3, <1>4, <1>5, <1>6

LEMMA StagesKeep ==
    ASSUME NEW e \in EngineStates, NEW b \in Inputs, NEW x \in StructureStages(e, b)
    PROVE  x \in EngineStates /\ x.archive = e.archive
<1> DEFINE P == [eng : EngineStates, found : Structures]
           p0 == [eng |-> e, found |-> "none"]
           p1 == Ask(p0, "document", b)
           p2 == Ask(p1, "container", b)
           p3 == Ask(p2, "audio", b)
<1>1. p0 \in P /\ p0.eng = e
  BY DEF Structures
<1> HIDE DEF p0
<1>2. p1 \in P /\ p1.eng.archive = p0.eng.archive
  BY <1>1, AskKeeps
<1> HIDE DEF p1
<1>3. p2 \in P /\ p2.eng.archive = p1.eng.archive
  BY <1>2, AskKeeps
<1> HIDE DEF p2
<1>4. p3 \in P /\ p3.eng.archive = p2.eng.archive
  BY <1>3, AskKeeps
<1> HIDE DEF p3
<1>5. StructureOf(e, b) \in P /\ StructureOf(e, b).eng.archive = e.archive
  BY StructureOfKeeps
<1>6. x \in {e, p1.eng, p2.eng, p3.eng, StructureOf(e, b).eng}
  BY DEF StructureStages, p0, p1, p2, p3
<1> QED
  BY <1>1, <1>2, <1>3, <1>4, <1>5, <1>6

LEMMA ClassifiedKeeps ==
    ASSUME NEW e \in EngineStates, NEW f \in Archives
    PROVE  /\ Classified(e, f) \in EngineStates
           /\ Classified(e, f).archive = f
<1>1. f \in Inputs /\ f \in Zips /\ "document" \in Readers
  BY ViewerAssumption DEF Archives, Readers
<1>2. Opened(e, f) \in EngineStates /\ Opened(e, f).archive = f
  BY <1>1, OpenedKeeps
<1> QED
  BY <1>1, <1>2, ParsedKeeps DEF Classified

LEMMA EntriesFacts ==
    ASSUME NEW f \in Archives
    PROVE  /\ DOMAIN Entries[f] \subseteq Nat
           /\ \A n \in DOMAIN Entries[f] : Entries[f][n] \in Items
<1>1. Entries[f] \in Seq(Items)
  BY ViewerAssumption
<1>2. DOMAIN Entries[f] = 1 .. Len(Entries[f]) /\ Len(Entries[f]) \in Nat
  BY <1>1, LenProperties
<1> QED
  BY <1>1, <1>2, ElementOfSeq

-----------------------------------------------------------------------------
(* The archive the engine holds came through openFile, so it is a file.    *)
ArchiveIsFile == eng.archive \in Archives \cup {None}

ViewerInv == ViewerTypeOK /\ ArchiveIsFile

(* Whatever way show() ends, it leaves the archive alone, and the status   *)
(* line is what it was or says something that is not about waiting.        *)
LEMMA ShowKeeps ==
    ASSUME NEW e \in EngineStates, e.archive \in Archives \cup {None},
           NEW f \in Archives, NEW n \in DOMAIN Entries[f],
           NEW said \in Statuses,
           view \in Views, blobs \in SUBSET Items,
           Show(e, f, n, said)
    PROVE  /\ eng' \in EngineStates
           /\ eng'.archive = e.archive
           /\ view' \in Views
           /\ blobs' \in SUBSET Items
           /\ status' \in Statuses
           /\ status'.kind \in {said.kind, "shown", "unrecognised"}
<1>1. /\ Inputs = Files \cup Items
      /\ Archives \subseteq Source
      /\ Items \subseteq Source
      /\ "extract" \in Calls
      /\ None \in Source
  BY ViewerAssumption DEF Archives, Source, Calls
<1>2. CASE ExtractThrows(e, n, said)
  <2>1. e.archive \in Source
    BY <1>1
  <2>2. /\ eng' = IF e.archive = None THEN e ELSE WithError(e, "extract", e.archive)
        /\ status' = said /\ view' = view /\ blobs' = blobs
    BY <1>2 DEF ExtractThrows
  <2>3. eng' \in EngineStates /\ eng'.archive = e.archive
    BY <1>1, <2>1, <2>2, WithErrorKeeps
  <2> QED
    BY <2>2, <2>3
<1>3. CASE ShowTraps(e, said)
  <2>1. PICK kept \in BOOLEAN : eng' = [e EXCEPT !.borrowed = @ \/ kept]
    BY <1>3 DEF ShowTraps
  <2>2. eng' \in EngineStates /\ eng'.archive = e.archive
    BY <2>1 DEF EngineStates
  <2> QED
    BY <1>3, <2>2 DEF ShowTraps
<1>4. CASE ShowTrapsLate(e, f, n, said)
  <2> DEFINE i == Entries[e.archive][n]
             way == Dispatch(Named[Entries[f][n]], Magic[i])
  <2>1. i \in Inputs
    BY <1>1, <1>4, EntriesFacts DEF ShowTrapsLate, Extractable
  <2>2. view' = Blank /\ blobs' = {} /\ status' = said
    BY <1>4 DEF ShowTrapsLate
  <2>3. \/ way \in {"pe", "dex", "axml"} /\ eng' \in {e, Parsed(e, way, i)}
        \/ \E kept \in BOOLEAN : eng' = [e EXCEPT !.borrowed = kept]
        \/ eng' \in StructureStages(e, i)
    BY <1>4 DEF ShowTrapsLate
  <2> HIDE DEF way, i
  <2>4. CASE way \in {"pe", "dex", "axml"} /\ eng' \in {e, Parsed(e, way, i)}
    <3>1. way \in Readers
      BY <2>4 DEF Readers
    <3> QED
      BY <1>1, <2>1, <2>2, <2>4, <3>1, ParsedKeeps DEF Views, Blank
  <2>5. CASE \E kept \in BOOLEAN : eng' = [e EXCEPT !.borrowed = kept]
    BY <1>1, <2>2, <2>5 DEF EngineStates, Views, Blank
  <2>6. CASE eng' \in StructureStages(e, i)
    BY <1>1, <2>1, <2>2, <2>6, StagesKeep DEF Views, Blank
  <2> QED
    BY <2>3, <2>4, <2>5, <2>6
<1>5. CASE ShowExtracted(e, f, n, said)
  <2> DEFINE i == Entries[e.archive][n]
             way == Dispatch(Named[Entries[f][n]], Magic[i])
  <2>1. /\ e.archive \in Archives
        /\ i \in Items /\ i \in Inputs /\ i \in Source
    BY <1>1, <1>5, EntriesFacts DEF ShowExtracted, Extractable
  <2>2. blobs' \in SUBSET Items
    BY <1>5, <2>1 DEF ShowExtracted
  <2>3. /\ "shown" \in {"idle", "reading", "listed", "shown", "refused",
                        "unrecognised", "failed", "hint"}
        /\ \A as \in {"panel", "frame", "image", "text", "hex"} : View(i, as) \in Views
        /\ Blank \in Views
        /\ Said("shown", i) \in Statuses /\ Said("shown", i).kind = "shown"
        /\ Said("unrecognised", i) \in Statuses
        /\ Said("unrecognised", i).kind = "unrecognised"
    BY <1>1, <2>1 DEF View, Views, Blank, Said, Statuses
  <2>4. CASE way \in {"pe", "dex", "axml"} /\ HeaderPanel(e, way, i)
    <3>1. way \in Readers
      BY <2>4 DEF Readers
    <3>2. eng' = Parsed(e, way, i)
      BY <2>4 DEF HeaderPanel
    <3>3. eng' \in EngineStates /\ eng'.archive = e.archive
      BY <2>1, <3>1, <3>2, ParsedKeeps
    <3>4. /\ view' \in {View(i, "panel"), Blank}
          /\ status' \in {Said("shown", i), Said("unrecognised", i)}
      BY <2>4 DEF HeaderPanel
    <3> QED
      BY <2>2, <2>3, <3>3, <3>4
  <2>5. CASE ShowPage(e, i, said)
    <3>1. eng' \in {e, WithError(e, "extract", e.archive)}
      BY <2>5 DEF ShowPage
    <3>2. eng' \in EngineStates /\ eng'.archive = e.archive
      BY <1>1, <2>1, <3>1, WithErrorKeeps
    <3>3. view' \in {View(i, "frame"), Blank} /\ status' \in {Said("shown", i), said}
      BY <2>5 DEF ShowPage
    <3> QED
      BY <2>2, <2>3, <3>2, <3>3
  <2>6. CASE way \in {"image", "text"} /\ ShowPlain(e, i, way)
    <3>1. eng' = e /\ view' = View(i, way) /\ status' = Said("shown", i)
      BY <2>6 DEF ShowPlain
    <3> QED
      BY <2>2, <2>3, <2>6, <3>1
  <2>7. CASE ShowStructured(e, i)
    <3>1. eng' = StructureOf(e, i).eng
      BY <2>7 DEF ShowStructured
    <3>2. eng' \in EngineStates /\ eng'.archive = e.archive
      BY <2>1, <3>1, StructureOfKeeps
    <3>3. view' \in {View(i, "hex"), View(i, "panel")} /\ status' = Said("shown", i)
      BY <2>7 DEF ShowStructured
    <3> QED
      BY <2>2, <2>3, <3>2, <3>3
  <2> QED
    BY <1>5, <2>4, <2>5, <2>6, <2>7 DEF ShowExtracted
<1> QED
  BY <1>2, <1>3, <1>4, <1>5 DEF Show

-----------------------------------------------------------------------------
LEMMA StatusFacts ==
    ASSUME NEW b \in Source
    PROVE  /\ \A kind \in {"idle", "reading", "listed", "shown", "refused",
                           "unrecognised", "failed", "hint"} :
                 Said(kind, b) \in Statuses /\ Said(kind, b).kind = kind
           /\ View(b, "panel") \in Views
           /\ Blank \in Views
BY DEF Said, Statuses, View, Views, Blank, Source

LEMMA ResumeKeeps ==
    ASSUME ViewerTypeOK, NEW t \in Tickets, NEW f \in Files, Resume(t, f)
    PROVE  /\ reads' \in [Tickets -> Files \cup {None}]
           /\ label' \in Files \cup {None}
BY DEF ViewerTypeOK, Resume

LEMMA PickedKeeps ==
    ASSUME NEW f \in Files, NEW structure \in Structures, PickedNow(f, structure)
    PROVE  picked' \in [file : Files \cup {None}, structure : Structures]
BY DEF PickedNow

LEMMA ViewerInvInductive ==
    ASSUME ViewerInv, [ViewerNext]_viewerVars
    PROVE  ViewerInv'
<1>1. /\ Inputs = Files \cup Items
      /\ Archives \subseteq Inputs /\ Archives \subseteq Files
      /\ Files \subseteq Source /\ Files \subseteq Inputs /\ None \in Source
      /\ Refused \subseteq Archives
      /\ "none" \in Structures /\ 0 \in Nat
  BY ViewerAssumption DEF Archives, Source, Structures
<1>2. /\ eng \in EngineStates /\ eng.archive \in Archives \cup {None}
      /\ view \in Views /\ blobs \in SUBSET Items /\ status \in Statuses
      /\ active \in Nat /\ entries \in (Archives \ Refused) \cup {None}
      /\ picked \in [file : Files \cup {None}, structure : Structures]
      /\ label \in Files \cup {None}
      /\ reads \in [Tickets -> Files \cup {None}]
  BY DEF ViewerInv, ViewerTypeOK, ArchiveIsFile
<1>3. ViewerTypeOK
  BY DEF ViewerInv
<1>4. ASSUME NEW f \in Files, PickFile(f)
      PROVE  ViewerInv'
  <2>1. reads' \in [Tickets -> Files \cup {None}]
    BY <1>2, <1>4 DEF PickFile
  <2>2. status' \in Statuses
    BY <1>1, <1>4, StatusFacts DEF PickFile
  <2> QED
    BY <1>1, <1>2, <1>4, <2>1, <2>2 DEF PickFile, ViewerInv, ViewerTypeOK, ArchiveIsFile
<1>5. ASSUME NEW t \in Tickets, OpenHeader(t)
      PROVE  ViewerInv'
  <2>1. PICK f \in Files, r \in {"pe", "dex"} :
           /\ Resume(t, f)
           /\ HeaderPanel(eng, r, f)
           /\ PickedNow(f, "none")
           /\ UNCHANGED <<entries, active, blobs>>
    BY <1>5 DEF OpenHeader
  <2>2. r \in Readers /\ f \in Inputs /\ f \in Source
    BY <1>1 DEF Readers
  <2>3. eng' = Parsed(eng, r, f)
    BY <2>1 DEF HeaderPanel
  <2>4. eng' \in EngineStates /\ eng'.archive = eng.archive
    BY <1>2, <2>2, <2>3, ParsedKeeps
  <2>5. view' \in Views /\ status' \in Statuses
    <3>1. /\ view' \in {View(f, "panel"), Blank}
          /\ status' \in {Said("shown", f), Said("unrecognised", f)}
      BY <2>1 DEF HeaderPanel
    <3> QED
      BY <2>2, <3>1, StatusFacts
  <2>6. reads' \in [Tickets -> Files \cup {None}] /\ label' \in Files \cup {None}
    BY <1>3, <2>1, ResumeKeeps
  <2>7. picked' \in [file : Files \cup {None}, structure : Structures]
    BY <1>1, <2>1, PickedKeeps
  <2> QED
    BY <1>2, <2>1, <2>4, <2>5, <2>6, <2>7 DEF ViewerInv, ViewerTypeOK, ArchiveIsFile
<1>6. ASSUME NEW t \in Tickets, OpenRefused(t)
      PROVE  ViewerInv'
  <2>1. PICK f \in Refused :
           /\ OpenArchive(t, f)
           /\ eng' = Classified(eng, f)
           /\ entries' = None
           /\ active' = 0
           /\ status' = Said("refused", f)
           /\ UNCHANGED <<view, blobs>>
    BY <1>6 DEF OpenRefused
  <2>2. f \in Archives /\ f \in Files /\ f \in Source
    BY <1>1
  <2>3. eng' \in EngineStates /\ eng'.archive = f
    BY <1>2, <2>1, <2>2, ClassifiedKeeps
  <2>4. Resume(t, f) /\ PickedNow(f, "none")
    BY <2>1 DEF OpenArchive
  <2>5. reads' \in [Tickets -> Files \cup {None}] /\ label' \in Files \cup {None}
    BY <1>3, <2>2, <2>4, ResumeKeeps
  <2>6. picked' \in [file : Files \cup {None}, structure : Structures]
    BY <1>1, <2>2, <2>4, PickedKeeps
  <2>7. status' \in Statuses
    BY <2>1, <2>2, StatusFacts
  <2> QED
    BY <1>1, <1>2, <2>1, <2>2, <2>3, <2>5, <2>6, <2>7
    DEF ViewerInv, ViewerTypeOK, ArchiveIsFile
<1>7. ASSUME NEW t \in Tickets, OpenListing(t)
      PROVE  ViewerInv'
  <2>1. PICK f \in Archives \ Refused :
           /\ OpenArchive(t, f)
           /\ eng' = Classified(eng, f)
           /\ entries' = f
           /\ active' = 0
           /\ status' = Said("listed", f)
           /\ UNCHANGED <<view, blobs>>
    BY <1>7 DEF OpenListing
  <2>2. f \in Archives /\ f \in Files /\ f \in Source
    BY <1>1
  <2>3. eng' \in EngineStates /\ eng'.archive = f
    BY <1>2, <2>1, <2>2, ClassifiedKeeps
  <2>4. Resume(t, f) /\ PickedNow(f, "none")
    BY <2>1 DEF OpenArchive
  <2>5. reads' \in [Tickets -> Files \cup {None}] /\ label' \in Files \cup {None}
    BY <1>3, <2>2, <2>4, ResumeKeeps
  <2>6. picked' \in [file : Files \cup {None}, structure : Structures]
    BY <1>1, <2>2, <2>4, PickedKeeps
  <2>7. status' \in Statuses
    BY <2>1, <2>2, StatusFacts
  <2> QED
    BY <1>1, <1>2, <2>1, <2>2, <2>3, <2>5, <2>6, <2>7
    DEF ViewerInv, ViewerTypeOK, ArchiveIsFile
<1>8. ASSUME NEW t \in Tickets, OpenPage(t)
      PROVE  ViewerInv'
  <2>a. PICK f \in Archives \ Refused :
           \E n \in DOMAIN Entries[f] :
              /\ OpenArchive(t, f)
              /\ entries' = f
              /\ active' = n
              /\ Show(Classified(eng, f), f, n, Said("listed", f))
    BY <1>8 DEF OpenPage
  <2>1. PICK n \in DOMAIN Entries[f] :
           /\ OpenArchive(t, f)
           /\ entries' = f
           /\ active' = n
           /\ Show(Classified(eng, f), f, n, Said("listed", f))
    BY <2>a
  <2>2. f \in Archives /\ f \in Files /\ f \in Source
    BY <1>1
  <2>3. Classified(eng, f) \in EngineStates /\ Classified(eng, f).archive = f
    BY <1>2, <2>2, ClassifiedKeeps
  <2>4. Said("listed", f) \in Statuses
    BY <2>2, StatusFacts
  <2>5. /\ eng' \in EngineStates /\ eng'.archive = f
        /\ view' \in Views /\ blobs' \in SUBSET Items /\ status' \in Statuses
    BY <1>2, <2>1, <2>2, <2>3, <2>4, ShowKeeps
  <2>6. Resume(t, f) /\ PickedNow(f, "none")
    BY <2>1 DEF OpenArchive
  <2>7. reads' \in [Tickets -> Files \cup {None}] /\ label' \in Files \cup {None}
    BY <1>3, <2>2, <2>6, ResumeKeeps
  <2>8. picked' \in [file : Files \cup {None}, structure : Structures]
    BY <1>1, <2>2, <2>6, PickedKeeps
  <2>9. active' \in Nat
    BY <2>1, <2>2, EntriesFacts
  <2> QED
    BY <1>1, <1>2, <2>1, <2>2, <2>5, <2>7, <2>8, <2>9
    DEF ViewerInv, ViewerTypeOK, ArchiveIsFile
<1>9. ASSUME NEW t \in Tickets, OpenStructure(t)
      PROVE  ViewerInv'
  <2>1. PICK f \in Files \ Archives :
           LET p == StructureOf(Opened(eng, f), f)
           IN  /\ Resume(t, f)
               /\ PickedNow(f, p.found)
               /\ eng' = p.eng
               /\ view' = IF p.found = "none" THEN view ELSE View(f, "panel")
               /\ status' = Said(IF p.found = "none" THEN "unrecognised" ELSE "shown", f)
               /\ UNCHANGED <<entries, active, blobs>>
    BY <1>9 DEF OpenStructure
  <2> DEFINE p == StructureOf(Opened(eng, f), f)
  <2>2. f \in Inputs /\ f \in Source /\ f \notin Zips
    BY <1>1 DEF Archives
  <2>3. Opened(eng, f) \in EngineStates /\ Opened(eng, f).archive = eng.archive
    BY <1>2, <2>2, OpenedKeeps
  <2>4. p \in [eng : EngineStates, found : Structures] /\ p.eng.archive = eng.archive
    BY <2>2, <2>3, StructureOfKeeps
  <2> HIDE DEF p
  <2>5. /\ Resume(t, f) /\ PickedNow(f, p.found) /\ eng' = p.eng
        /\ view' \in {view, View(f, "panel")}
        /\ status' \in {Said("unrecognised", f), Said("shown", f)}
        /\ UNCHANGED <<entries, active, blobs>>
    BY <2>1 DEF p
  <2>6. eng' \in EngineStates /\ eng'.archive = eng.archive /\ p.found \in Structures
    BY <2>4, <2>5
  <2>7. view' \in Views /\ status' \in Statuses
    BY <1>2, <2>2, <2>5, StatusFacts
  <2>8. reads' \in [Tickets -> Files \cup {None}] /\ label' \in Files \cup {None}
    BY <1>3, <2>5, ResumeKeeps
  <2>9. picked' \in [file : Files \cup {None}, structure : Structures]
    BY <2>5, <2>6, PickedKeeps
  <2> QED
    BY <1>2, <2>5, <2>6, <2>7, <2>8, <2>9 DEF ViewerInv, ViewerTypeOK, ArchiveIsFile
<1>10. ASSUME NEW t \in Tickets, ReadFails(t)
       PROVE  ViewerInv'
  <2>1. PICK f \in Files :
           /\ Resume(t, f)
           /\ status' = Said("failed", f)
           /\ UNCHANGED <<picked, entries, active, view, blobs, eng>>
    BY <1>10 DEF ReadFails
  <2>2. reads' \in [Tickets -> Files \cup {None}] /\ label' \in Files \cup {None}
    BY <1>3, <2>1, ResumeKeeps
  <2>3. status' \in Statuses
    BY <1>1, <2>1, StatusFacts
  <2> QED
    BY <1>2, <2>1, <2>2, <2>3 DEF ViewerInv, ViewerTypeOK, ArchiveIsFile
<1>11. ASSUME NEW t \in Tickets, OpenTraps(t)
       PROVE  ViewerInv'
  <2>1. PICK f \in Files :
           /\ Resume(t, f)
           /\ PickedNow(f, "none")
           /\ eng' \in TrapPoints(eng, f) \cup {Parsed(eng, HeaderReader(f), f)}
           /\ view' \in {view, Blank}
           /\ status' = Said("failed", f)
           /\ UNCHANGED <<entries, active, blobs>>
    BY <1>11 DEF OpenTraps
  <2>2. eng' \in EngineStates /\ eng'.archive \in Archives \cup {None}
    <3>1. CASE eng' = eng
      BY <1>2, <3>1
    <3>2. CASE eng' = Parsed(eng, HeaderReader(f), f)
      <4>1. HeaderReader(f) \in Readers /\ f \in Inputs
        BY <1>1 DEF HeaderReader, Readers
      <4> QED
        BY <1>2, <3>2, <4>1, ParsedKeeps
    <3>3. CASE /\ f \in Zips
               /\ eng' \in {Opened(eng, f), Classified(eng, f),
                            [Classified(eng, f) EXCEPT !.borrowed = TRUE]}
      <4>1. f \in Archives /\ f \in Inputs
        BY <1>1, <3>3 DEF Archives
      <4>2. Opened(eng, f) \in EngineStates /\ Opened(eng, f).archive = f
        BY <1>2, <3>3, <4>1, OpenedKeeps
      <4>3. Classified(eng, f) \in EngineStates /\ Classified(eng, f).archive = f
        BY <1>2, <4>1, ClassifiedKeeps
      <4>4. /\ [Classified(eng, f) EXCEPT !.borrowed = TRUE] \in EngineStates
            /\ [Classified(eng, f) EXCEPT !.borrowed = TRUE].archive = f
        BY <4>3 DEF EngineStates
      <4> QED
        BY <3>3, <4>1, <4>2, <4>3, <4>4
    <3>4. CASE /\ f \notin Zips
               /\ eng' \in {Opened(eng, f)} \cup StructureStages(Opened(eng, f), f)
      <4>1. f \in Inputs
        BY <1>1
      <4>2. Opened(eng, f) \in EngineStates /\ Opened(eng, f).archive = eng.archive
        BY <1>2, <3>4, <4>1, OpenedKeeps
      <4> QED
        BY <1>2, <3>4, <4>1, <4>2, StagesKeep
    <3> QED
      BY <2>1, <3>1, <3>2, <3>3, <3>4 DEF TrapPoints
  <2>3. reads' \in [Tickets -> Files \cup {None}] /\ label' \in Files \cup {None}
    BY <1>3, <2>1, ResumeKeeps
  <2>4. picked' \in [file : Files \cup {None}, structure : Structures]
    BY <1>1, <2>1, PickedKeeps
  <2>5. status' \in Statuses
    BY <1>1, <2>1, StatusFacts
  <2>6. view' \in Views
    BY <1>2, <2>1 DEF Views, Blank, Source
  <2> QED
    BY <1>2, <2>1, <2>2, <2>3, <2>4, <2>5, <2>6 DEF ViewerInv, ViewerTypeOK, ArchiveIsFile
<1>12. CASE ClickEntry
  <2>1. PICK n \in DOMAIN Entries[entries] :
           active' = n /\ Show(eng, entries, n, status)
    BY <1>12 DEF ClickEntry
  <2>2. entries \in Archives /\ UNCHANGED <<reads, label, picked, entries>>
    BY <1>2, <1>12 DEF ClickEntry
  <2>3. /\ eng' \in EngineStates /\ eng'.archive = eng.archive
        /\ view' \in Views /\ blobs' \in SUBSET Items /\ status' \in Statuses
    BY <1>2, <2>1, <2>2, ShowKeeps
  <2>4. active' \in Nat
    BY <2>1, <2>2, EntriesFacts
  <2> QED
    BY <1>2, <2>2, <2>3, <2>4 DEF ViewerInv, ViewerTypeOK, ArchiveIsFile
<1>13. CASE ToggleScripts
  <2>1. status' \in Statuses
    BY <1>1, <1>13, StatusFacts DEF ToggleScripts
  <2> QED
    BY <1>2, <1>13, <2>1 DEF ToggleScripts, ViewerInv, ViewerTypeOK, ArchiveIsFile
<1>14. CASE UNCHANGED viewerVars
  BY <1>2, <1>14 DEF viewerVars, ViewerInv, ViewerTypeOK, ArchiveIsFile
<1> QED
  BY <1>4, <1>5, <1>6, <1>7, <1>8, <1>9, <1>10, <1>11, <1>12, <1>13, <1>14
  DEF ViewerNext, ReadSettles

LEMMA ViewerInvInitially == ViewerInit => ViewerInv
<1> SUFFICES ASSUME ViewerInit PROVE ViewerInv
  OBVIOUS
<1>1. Fresh \in EngineStates /\ Fresh.archive = None
  BY DEF Fresh, EngineStates, Source, Calls
<1>2. Blank \in Views /\ Said("idle", None) \in Statuses
  BY DEF Blank, Views, Said, Statuses, Source
<1> QED
  BY <1>1, <1>2 DEF ViewerInit, ViewerInv, ViewerTypeOK, ArchiveIsFile, Structures

THEOREM ViewerInvHolds == ViewerSpec => []ViewerInv
<1>1. ViewerInv /\ [ViewerNext]_viewerVars => ViewerInv'
  BY ViewerInvInductive
<1> QED
  BY ViewerInvInitially, <1>1, PTL DEF ViewerSpec

(* The page's state never leaves the shapes its renderers read.            *)
THEOREM ViewerTypeCorrect == ViewerSpec => []ViewerTypeOK
<1>1. ViewerInv => ViewerTypeOK
  BY DEF ViewerInv
<1> QED
  BY ViewerInvHolds, <1>1, PTL

-----------------------------------------------------------------------------
(* Clicking by position gets the entry the list names, for any number of   *)
(* opens in flight - if no call on the engine traps.                       *)
NoTraps == "trap" \notin Faults

LEMMA MatchInductive ==
    ASSUME NoTraps, ViewerInv, EntriesMatchArchive, [ViewerNext]_viewerVars
    PROVE  EntriesMatchArchive'
<1> USE DEF EntriesMatchArchive
<1>1. /\ Inputs = Files \cup Items /\ Files \subseteq Inputs
      /\ Archives = Files \cap Zips /\ Refused \subseteq Archives
  BY ViewerAssumption DEF Archives
<1>2. /\ eng \in EngineStates /\ eng.archive \in Archives \cup {None}
      /\ view \in Views /\ blobs \in SUBSET Items /\ status \in Statuses
      /\ entries \in (Archives \ Refused) \cup {None}
  BY DEF ViewerInv, ViewerTypeOK, ArchiveIsFile
<1>3. ASSUME NEW f \in Files, PickFile(f)
      PROVE  EntriesMatchArchive'
  BY <1>3 DEF PickFile
<1>4. ASSUME NEW t \in Tickets, OpenHeader(t)
      PROVE  EntriesMatchArchive'
  <2>1. PICK f \in Files, r \in {"pe", "dex"} : HeaderPanel(eng, r, f)
    BY <1>4 DEF OpenHeader
  <2>2. r \in Readers /\ eng' = Parsed(eng, r, f)
    BY <2>1 DEF HeaderPanel, Readers
  <2>3. eng'.archive = eng.archive
    BY <1>1, <1>2, <2>2, ParsedKeeps
  <2> QED
    BY <1>4, <2>3 DEF OpenHeader
<1>5. ASSUME NEW t \in Tickets, OpenRefused(t)
      PROVE  EntriesMatchArchive'
  BY <1>5 DEF OpenRefused
<1>6. ASSUME NEW t \in Tickets, OpenListing(t)
      PROVE  EntriesMatchArchive'
  <2>1. PICK f \in Archives : eng' = Classified(eng, f) /\ entries' = f
    BY <1>6 DEF OpenListing
  <2> QED
    BY <1>2, <2>1, ClassifiedKeeps
<1>7. ASSUME NEW t \in Tickets, OpenPage(t)
      PROVE  EntriesMatchArchive'
  <2>1. PICK f \in Archives :
           \E n \in DOMAIN Entries[f] :
              entries' = f /\ Show(Classified(eng, f), f, n, Said("listed", f))
    BY <1>7 DEF OpenPage
  <2>2. PICK n \in DOMAIN Entries[f] : Show(Classified(eng, f), f, n, Said("listed", f))
    BY <2>1
  <2>3. Classified(eng, f) \in EngineStates /\ Classified(eng, f).archive = f
    BY <1>2, ClassifiedKeeps
  <2>4. f \in Source /\ Said("listed", f) \in Statuses
    BY <1>1, StatusFacts DEF Source
  <2>5. eng'.archive = f
    BY <1>2, <2>2, <2>3, <2>4, ShowKeeps
  <2> QED
    BY <2>1, <2>5
<1>8. ASSUME NEW t \in Tickets, OpenStructure(t)
      PROVE  EntriesMatchArchive'
  <2>1. PICK f \in Files \ Archives : eng' = StructureOf(Opened(eng, f), f).eng
    BY <1>8 DEF OpenStructure
  <2>2. f \in Inputs /\ f \notin Zips
    BY <1>1
  <2>3. Opened(eng, f) \in EngineStates /\ Opened(eng, f).archive = eng.archive
    BY <1>2, <2>2, OpenedKeeps
  <2>4. eng'.archive = eng.archive
    BY <2>1, <2>2, <2>3, StructureOfKeeps
  <2> QED
    BY <1>8, <2>4 DEF OpenStructure
<1>9. ASSUME NEW t \in Tickets, ReadFails(t)
      PROVE  EntriesMatchArchive'
  BY <1>9 DEF ReadFails
<1>10. ASSUME NEW t \in Tickets, OpenTraps(t)
       PROVE  EntriesMatchArchive'
  <2>1. PICK f \in Files :
           GoesToOpen(f) /\ ~OpenReturns(eng, f) /\ eng' \in TrapPoints(eng, f)
    BY <1>10 DEF OpenTraps, NoTraps
  <2>2. eng' = eng
    BY <2>1 DEF TrapPoints
  <2> QED
    BY <1>10, <2>2 DEF OpenTraps
<1>11. CASE ClickEntry
  <2>1. PICK n \in DOMAIN Entries[entries] : Show(eng, entries, n, status)
    BY <1>11 DEF ClickEntry
  <2>2. entries \in Archives /\ entries' = entries
    BY <1>2, <1>11 DEF ClickEntry
  <2>3. eng'.archive = eng.archive
    BY <1>2, <2>1, <2>2, ShowKeeps
  <2> QED
    BY <2>2, <2>3
<1>12. CASE ToggleScripts
  BY <1>12 DEF ToggleScripts
<1>13. CASE UNCHANGED viewerVars
  BY <1>13 DEF viewerVars
<1> QED
  BY <1>3, <1>4, <1>5, <1>6, <1>7, <1>8, <1>9, <1>10, <1>11, <1>12, <1>13
  DEF ViewerNext, ReadSettles

(* The list names what a click extracts: PickFile empties the list before  *)
(* anything can replace the archive, and the task that replaces it is the  *)
(* one that lists it.                                                      *)
THEOREM EntriesAlwaysMatch ==
    ASSUME NoTraps
    PROVE  ViewerSpec => []EntriesMatchArchive
<1>1. ViewerInit => EntriesMatchArchive
  BY DEF ViewerInit, EntriesMatchArchive
<1>2. ViewerInv /\ EntriesMatchArchive /\ [ViewerNext]_viewerVars => EntriesMatchArchive'
  BY MatchInductive
<1> QED
  BY ViewerInvHolds, <1>1, <1>2, PTL DEF ViewerSpec

-----------------------------------------------------------------------------
LEMMA ReadingInductive ==
    ASSUME ViewerInv, ReadingMeansWaiting, [ViewerNext]_viewerVars
    PROVE  ReadingMeansWaiting'
<1> USE DEF ReadingMeansWaiting
<1>1. /\ None \notin Files /\ Files \subseteq Source
      /\ Archives \subseteq Files /\ Refused \subseteq Archives
      /\ Archives \subseteq Source
  BY EngineAssumption, ViewerAssumption DEF Archives, Source
<1>2. /\ eng \in EngineStates /\ eng.archive \in Archives \cup {None}
      /\ view \in Views /\ blobs \in SUBSET Items /\ status \in Statuses
      /\ entries \in (Archives \ Refused) \cup {None}
      /\ reads \in [Tickets -> Files \cup {None}]
  BY DEF ViewerInv, ViewerTypeOK, ArchiveIsFile
<1>3. ASSUME NEW f \in Files, PickFile(f)
      PROVE  ReadingMeansWaiting'
  <2>1. PICK t \in Tickets : reads' = [reads EXCEPT ![t] = f]
    BY <1>3 DEF PickFile
  <2>2. reads'[t] = f /\ f # None
    BY <1>1, <1>2, <2>1
  <2> QED
    BY <2>2 DEF Waiting
<1>4. ASSUME NEW t \in Tickets, OpenHeader(t)
      PROVE  ReadingMeansWaiting'
  <2>1. PICK f \in Files, r \in {"pe", "dex"} : HeaderPanel(eng, r, f)
    BY <1>4 DEF OpenHeader
  <2>2. status' \in {Said("shown", f), Said("unrecognised", f)}
    BY <2>1 DEF HeaderPanel
  <2> QED
    BY <1>1, <2>2, StatusFacts
<1>5. ASSUME NEW t \in Tickets, OpenRefused(t)
      PROVE  ReadingMeansWaiting'
  <2>1. PICK f \in Refused : status' = Said("refused", f)
    BY <1>5 DEF OpenRefused
  <2> QED
    BY <1>1, <2>1, StatusFacts
<1>6. ASSUME NEW t \in Tickets, OpenListing(t)
      PROVE  ReadingMeansWaiting'
  <2>1. PICK f \in Archives : status' = Said("listed", f)
    BY <1>6 DEF OpenListing
  <2> QED
    BY <1>1, <2>1, StatusFacts
<1>7. ASSUME NEW t \in Tickets, OpenPage(t)
      PROVE  ReadingMeansWaiting'
  <2>1. PICK f \in Archives :
           \E n \in DOMAIN Entries[f] :
              Show(Classified(eng, f), f, n, Said("listed", f))
    BY <1>7 DEF OpenPage
  <2>2. PICK n \in DOMAIN Entries[f] : Show(Classified(eng, f), f, n, Said("listed", f))
    BY <2>1
  <2>3. Classified(eng, f) \in EngineStates /\ Classified(eng, f).archive = f
    BY <1>2, ClassifiedKeeps
  <2>4. Said("listed", f) \in Statuses /\ Said("listed", f).kind = "listed"
    BY <1>1, StatusFacts
  <2>5. status'.kind \in {"listed", "shown", "unrecognised"}
    BY <1>2, <2>2, <2>3, <2>4, ShowKeeps
  <2> QED
    BY <2>5
<1>8. ASSUME NEW t \in Tickets, OpenStructure(t)
      PROVE  ReadingMeansWaiting'
  <2>1. PICK f \in Files : status' \in {Said("shown", f), Said("unrecognised", f)}
    BY <1>8 DEF OpenStructure
  <2> QED
    BY <1>1, <2>1, StatusFacts
<1>9. ASSUME NEW t \in Tickets, ReadFails(t)
      PROVE  ReadingMeansWaiting'
  <2>1. PICK f \in Files : status' = Said("failed", f)
    BY <1>9 DEF ReadFails
  <2> QED
    BY <1>1, <2>1, StatusFacts
<1>10. ASSUME NEW t \in Tickets, OpenTraps(t)
       PROVE  ReadingMeansWaiting'
  <2>1. PICK f \in Files : status' = Said("failed", f)
    BY <1>10 DEF OpenTraps
  <2> QED
    BY <1>1, <2>1, StatusFacts
<1>11. CASE ClickEntry
  <2>1. PICK n \in DOMAIN Entries[entries] : Show(eng, entries, n, status)
    BY <1>11 DEF ClickEntry
  <2>2. entries \in Archives /\ reads' = reads
    BY <1>2, <1>11 DEF ClickEntry
  <2>3. status'.kind \in {status.kind, "shown", "unrecognised"}
    BY <1>2, <2>1, <2>2, ShowKeeps
  <2> QED
    BY <2>2, <2>3 DEF Waiting
<1>12. CASE ToggleScripts
  <2>1. status' = Said("hint", None) /\ None \in Source
    BY <1>12 DEF ToggleScripts, Source
  <2> QED
    BY <2>1, StatusFacts
<1>13. CASE UNCHANGED viewerVars
  BY <1>13 DEF viewerVars, Waiting
<1> QED
  BY <1>3, <1>4, <1>5, <1>6, <1>7, <1>8, <1>9, <1>10, <1>11, <1>12, <1>13
  DEF ViewerNext, ReadSettles

(* No way of settling an open, failing and trapping included, leaves the   *)
(* page saying that it reads when nothing is being read.                   *)
THEOREM ReadingAlwaysMeansWaiting == ViewerSpec => []ReadingMeansWaiting
<1>1. ViewerInit => ReadingMeansWaiting
  BY DEF ViewerInit, ReadingMeansWaiting, Said
<1>2. ViewerInv /\ ReadingMeansWaiting /\ [ViewerNext]_viewerVars => ReadingMeansWaiting'
  BY ReadingInductive
<1> QED
  BY ViewerInvHolds, <1>1, <1>2, PTL DEF ViewerSpec
-----------------------------------------------------------------------------
(* Whose words last_error holds once a buffer has been asked about: a      *)
(* reader that refuses says so of that buffer, streams::parse says nothing *)
(* and leaves the words of the reader before it.                           *)
LEMMA ParsedBlames ==
    ASSUME NEW e \in EngineStates, NEW r \in Readers, NEW b \in Inputs
    PROVE  /\ ~Recognised(r, b) /\ r # "stream" => Parsed(e, r, b).error.src = b
           /\ e.error.src = b => Parsed(e, r, b).error.src = b
<1>1. ASSUME NEW d \in EngineStates
      PROVE  WithError(d, r, b).error.src = b
  BY <1>1 DEF WithError, EngineStates
<1>2. [e EXCEPT !.slot[r] = None] \in EngineStates
  BY DEF EngineStates, Source
<1>3. Kept(e, r, b).error = e.error
  BY DEF Kept, EngineStates
<1>4. Rejected(e, r, b).error.src = b \/ (r = "stream" /\ Rejected(e, r, b) = e)
  BY <1>1, <1>2 DEF Rejected
<1> QED
  BY <1>1, <1>3, <1>4 DEF Parsed

LEMMA StructureOfBlames ==
    ASSUME NEW e \in EngineStates, NEW b \in Inputs, e.error.src = b
    PROVE  StructureOf(e, b).eng.error.src = b
<1> DEFINE P == [eng : EngineStates, found : Structures]
           p0 == [eng |-> e, found |-> "none"]
           p1 == Ask(p0, "document", b)
           p2 == Ask(p1, "container", b)
           p3 == Ask(p2, "audio", b)
           p4 == Ask(p3, "stream", b)
<1>1. ASSUME NEW p \in P, NEW r \in {"document", "container", "audio", "stream"},
             p.eng.error.src = b
      PROVE  Ask(p, r, b) \in P /\ Ask(p, r, b).eng.error.src = b
  <2>1. r \in Readers /\ p.eng \in EngineStates
    BY DEF Readers
  <2> QED
    BY <1>1, <2>1, AskKeeps, ParsedBlames DEF Ask
<1>2. p0 \in P /\ p0.eng.error.src = b
  BY DEF Structures
<1> HIDE DEF p0
<1>3. p1 \in P /\ p1.eng.error.src = b
  BY <1>1, <1>2
<1> HIDE DEF p1
<1>4. p2 \in P /\ p2.eng.error.src = b
  BY <1>1, <1>3
<1> HIDE DEF p2
<1>5. p3 \in P /\ p3.eng.error.src = b
  BY <1>1, <1>4
<1> HIDE DEF p3
<1>6. p4 \in P /\ p4.eng.error.src = b
  BY <1>1, <1>5
<1> HIDE DEF p4
<1>7. StructureOf(e, b) = IF b \in Oversize THEN p0 ELSE p4
  BY DEF StructureOf, p0, p1, p2, p3, p4
<1> QED
  BY <1>2, <1>6, <1>7

LEMMA PanelGivesReason ==
    ASSUME NEW e \in EngineStates, NEW r \in {"pe", "dex", "axml"}, NEW b \in Inputs,
           HeaderPanel(e, r, b)
    PROVE  ReasonStep
<1>1. r \in Readers /\ r # "stream"
  BY DEF Readers
<1>2. ~Recognised(r, b) => eng'.error.src = b
  BY <1>1, ParsedBlames DEF HeaderPanel
<1> QED
  BY <1>2 DEF HeaderPanel, ReasonStep, Said

LEMMA ShowGivesReason ==
    ASSUME NEW e \in EngineStates, e.archive \in Archives \cup {None},
           NEW f, NEW n, NEW said, said = status \/ said.kind # "unrecognised",
           Show(e, f, n, said)
    PROVE  ReasonStep
<1>1. CASE ExtractThrows(e, n, said) \/ ShowTraps(e, said) \/ ShowTrapsLate(e, f, n, said)
  BY <1>1 DEF ExtractThrows, ShowTraps, ShowTrapsLate, ReasonStep
<1>2. CASE ShowExtracted(e, f, n, said)
  <2> DEFINE i == Entries[e.archive][n]
  <2>1. PICK way : \/ way \in {"pe", "dex", "axml"} /\ HeaderPanel(e, way, i)
                   \/ way = "html" /\ ShowPage(e, i, said)
                   \/ way \in {"image", "text"} /\ ShowPlain(e, i, way)
                   \/ way = "other" /\ ShowStructured(e, i)
    BY <1>2 DEF ShowExtracted
  <2>2. i \in Inputs
    BY <1>2, EntriesFacts, ViewerAssumption DEF ShowExtracted, Extractable
  <2>3. CASE way \in {"pe", "dex", "axml"} /\ HeaderPanel(e, way, i)
    BY <2>2, <2>3, PanelGivesReason
  <2>4. CASE ShowPage(e, i, said) \/ ShowPlain(e, i, way) \/ ShowStructured(e, i)
    <3>1. status' \in {said, Said("shown", i)}
      BY <2>4 DEF ShowPage, ShowPlain, ShowStructured
    <3> QED
      BY <3>1 DEF Said, ReasonStep
  <2> QED
    BY <2>1, <2>3, <2>4
<1> QED
  BY <1>1, <1>2 DEF Show

LEMMA ReasonInductive ==
    ASSUME ViewerInv, [ViewerNext]_viewerVars
    PROVE  ReasonStep
<1>1. /\ Inputs = Files \cup Items /\ Files \subseteq Inputs
      /\ Archives = Files \cap Zips /\ Refused \subseteq Archives
  BY ViewerAssumption DEF Archives
<1>2. eng \in EngineStates /\ eng.archive \in Archives \cup {None}
  BY DEF ViewerInv, ViewerTypeOK, ArchiveIsFile
<1>3. ASSUME NEW t \in Tickets, OpenHeader(t)
      PROVE  ReasonStep
  <2>1. PICK f \in Files, r \in {"pe", "dex"} : HeaderPanel(eng, r, f)
    BY <1>3 DEF OpenHeader
  <2> QED
    BY <1>1, <1>2, <2>1, PanelGivesReason
<1>4. ASSUME NEW t \in Tickets, OpenPage(t)
      PROVE  ReasonStep
  <2>1. PICK f \in Archives : \E n \in DOMAIN Entries[f] : Show(Classified(eng, f), f, n, Said("listed", f))
    BY <1>4 DEF OpenPage
  <2>2. Classified(eng, f) \in EngineStates /\ Classified(eng, f).archive = f
    BY <1>2, ClassifiedKeeps
  <2> QED
    BY <2>1, <2>2, ShowGivesReason DEF Said
<1>5. ASSUME NEW t \in Tickets, OpenStructure(t)
      PROVE  ReasonStep
  <2>1. PICK f \in Files \ Archives :
           /\ eng' = StructureOf(Opened(eng, f), f).eng
           /\ status' \in {Said("unrecognised", f), Said("shown", f)}
    BY <1>5 DEF OpenStructure
  <2>2. f \in Inputs /\ f \notin Zips
    BY <1>1
  <2>3. Opened(eng, f) \in EngineStates /\ Opened(eng, f).error.src = f
    BY <1>2, <2>2, OpenedKeeps DEF Opened, WithError, EngineStates
  <2>4. eng'.error.src = f
    BY <2>1, <2>2, <2>3, StructureOfBlames
  <2> QED
    BY <2>1, <2>4 DEF Said, ReasonStep
<1>6. CASE ClickEntry
  BY <1>2, <1>6, ShowGivesReason DEF ClickEntry
<1>7. ASSUME \/ \E f \in Files : PickFile(f)
             \/ \E t \in Tickets : OpenRefused(t) \/ OpenListing(t) \/ ReadFails(t) \/ OpenTraps(t)
             \/ ToggleScripts \/ UNCHANGED viewerVars
      PROVE  ReasonStep
  BY <1>7 DEF PickFile, OpenRefused, OpenListing, ReadFails, OpenTraps, ToggleScripts,
              viewerVars, Said, ReasonStep
<1> QED
  BY <1>3, <1>4, <1>5, <1>6, <1>7 DEF ViewerNext, ReadSettles

(* Where the page says why nothing recognised some bytes, the words it     *)
(* prints are about those bytes, with any number of opens in flight and    *)
(* whatever fails or traps, although streams::parse leaves old words.      *)
THEOREM ReasonAlwaysAboutTheBytes == ViewerSpec => ReasonIsAboutTheBytes
<1>1. ViewerInv /\ [ViewerNext]_viewerVars => [ReasonStep]_viewerVars
  BY ReasonInductive
<1> QED
  BY ViewerInvHolds, <1>1, PTL DEF ViewerSpec, ReasonIsAboutTheBytes

-----------------------------------------------------------------------------
OneAtATime == \E t \in Tickets : Tickets = {t}

(* While an open waits nothing is listed and its file is the one named;    *)
(* what is listed is the file named, worked on and held.                   *)
InOrder ==
    /\ \A t \in Tickets : reads[t] # None => reads[t] = label /\ entries = None
    /\ entries # None => /\ entries = label
                         /\ entries = picked.file
                         /\ entries = eng.archive
                         /\ \A t \in Tickets : reads[t] = None

(* What a show() puts into the viewer comes out of the archive held.       *)
LEMMA ShowGives ==
    ASSUME NEW e \in EngineStates, e.archive \in Archives \cup {None},
           NEW f, NEW n, NEW said,
           Show(e, f, n, said)
    PROVE  \/ view' = view
           \/ view' = Blank
           \/ /\ e.archive # None
              /\ view'.src \in Members(e.archive)
<1>1. CASE ExtractThrows(e, n, said) \/ ShowTraps(e, said) \/ ShowTrapsLate(e, f, n, said)
  BY <1>1 DEF ExtractThrows, ShowTraps, ShowTrapsLate
<1>2. CASE ShowExtracted(e, f, n, said)
  <2> DEFINE i == Entries[e.archive][n]
  <2>1. e.archive # None /\ i \in Members(e.archive)
    BY <1>2 DEF ShowExtracted, Extractable, Members
  <2>2. \/ view' = Blank
        \/ \E as \in {"panel", "frame", "image", "text", "hex"} : view' = View(i, as)
    BY <1>2 DEF ShowExtracted, HeaderPanel, ShowPage, ShowPlain, ShowStructured
  <2> QED
    BY <2>1, <2>2 DEF View
<1> QED
  BY <1>1, <1>2 DEF Show

LEMMA ResumeInOrder ==
    ASSUME OneAtATime, ViewerInv, InOrder, NEW t \in Tickets, NEW f \in Files,
           Resume(t, f)
    PROVE  /\ label = f /\ label' = f
           /\ entries = None
           /\ (Waiting # {}) /\ ~(Waiting # {})'
           /\ \A u \in Tickets : reads'[u] = None
<1>1. Tickets = {t}
  BY DEF OneAtATime
<1>2. reads[t] = f /\ f # None /\ label' = label
  BY DEF Resume
<1>3. reads' = [reads EXCEPT ![t] = None] /\ reads \in [Tickets -> Files \cup {None}]
  BY DEF Resume, ViewerInv, ViewerTypeOK
<1>4. \A u \in Tickets : reads'[u] = None
  BY <1>1, <1>3
<1> QED
  BY <1>1, <1>2, <1>4 DEF InOrder, Waiting

(* The tasks that resume all end an open: they are Settle or GiveUp.       *)
LEMMA SettleStep ==
    ASSUME OneAtATime, ViewerInv, InOrder, NEW t \in Tickets, NEW f \in Files,
           Resume(t, f),
           picked'.file = f,
           entries' \in {None, f},
           entries' = None \/ eng'.archive = entries',
           \/ view'.src \in {view.src, None}
           \/ view'.src = f
           \/ entries' = f /\ view'.src \in Members(f)
    PROVE  InOrder' /\ Promise!Settle
<1>1. /\ label = f /\ label' = f
      /\ entries = None
      /\ (Waiting # {}) /\ ~(Waiting # {})'
      /\ \A u \in Tickets : reads'[u] = None
  BY ResumeInOrder
<1>2. InOrder'
  BY <1>1 DEF InOrder
<1>3. Promise!Settle
  BY <1>1 DEF Promise!Settle
<1> QED
  BY <1>2, <1>3

LEMMA GiveUpStep ==
    ASSUME OneAtATime, ViewerInv, InOrder, NEW t \in Tickets, NEW f \in Files,
           Resume(t, f),
           picked'.file \in {picked.file, f},
           entries' = entries, view'.src \in {view.src, None}
    PROVE  InOrder' /\ Promise!GiveUp
<1>1. /\ label = f /\ label' = f
      /\ entries = None
      /\ (Waiting # {}) /\ ~(Waiting # {})'
      /\ \A u \in Tickets : reads'[u] = None
  BY ResumeInOrder
<1>2. InOrder'
  BY <1>1 DEF InOrder
<1>3. Promise!GiveUp
  BY <1>1 DEF Promise!GiveUp
<1> QED
  BY <1>2, <1>3

LEMMA StepOfPromise ==
    ASSUME OneAtATime, ViewerInv, InOrder, [ViewerNext]_viewerVars
    PROVE  InOrder' /\ [Promise!Next]_(Promise!vars)
<1>1. /\ None \notin Files
      /\ Archives = Files \cap Zips /\ Refused \subseteq Archives
      /\ Files \subseteq Inputs
  BY EngineAssumption, ViewerAssumption DEF Archives
<1>2. /\ eng \in EngineStates /\ eng.archive \in Archives \cup {None}
      /\ entries \in (Archives \ Refused) \cup {None}
      /\ reads \in [Tickets -> Files \cup {None}]
  BY DEF ViewerInv, ViewerTypeOK, ArchiveIsFile
<1>3. ASSUME NEW f \in Files, PickFile(f)
      PROVE  InOrder' /\ Promise!Next
  <2>1. PICK t \in Tickets : reads[t] = None /\ reads' = [reads EXCEPT ![t] = f]
    BY <1>3 DEF PickFile
  <2>2. Tickets = {t}
    BY DEF OneAtATime
  <2>3. label' = f /\ entries' = None /\ UNCHANGED <<picked, view, eng>>
    BY <1>3 DEF PickFile
  <2>4. Waiting = {} /\ Waiting' # {}
    BY <1>1, <1>2, <2>1, <2>2 DEF Waiting
  <2>5. InOrder'
    BY <1>2, <2>1, <2>2, <2>3 DEF InOrder
  <2>6. Promise!Choose(f)
    BY <2>3, <2>4 DEF Promise!Choose
  <2> QED
    BY <2>5, <2>6 DEF Promise!Next
<1>4. ASSUME NEW t \in Tickets, OpenHeader(t)
      PROVE  InOrder' /\ Promise!Settle
  <2>1. PICK f \in Files, r \in {"pe", "dex"} :
           /\ Resume(t, f)
           /\ HeaderPanel(eng, r, f)
           /\ PickedNow(f, "none")
           /\ UNCHANGED <<entries, active, blobs>>
    BY <1>4 DEF OpenHeader
  <2>2. entries' = None /\ picked'.file = f
    BY <2>1, ResumeInOrder DEF PickedNow
  <2>3. view'.src \in {f, None}
    BY <2>1 DEF HeaderPanel, View, Blank
  <2> QED
    BY <2>1, <2>2, <2>3, SettleStep
<1>5. ASSUME NEW t \in Tickets, OpenRefused(t)
      PROVE  InOrder' /\ Promise!Settle
  <2>1. PICK f \in Refused : OpenArchive(t, f) /\ entries' = None /\ view' = view
    BY <1>5 DEF OpenRefused
  <2>2. f \in Files /\ Resume(t, f) /\ picked'.file = f
    BY <1>1, <2>1 DEF OpenArchive, PickedNow
  <2> QED
    BY <2>1, <2>2, SettleStep
<1>6. ASSUME NEW t \in Tickets, OpenListing(t)
      PROVE  InOrder' /\ Promise!Settle
  <2>1. PICK f \in Archives :
           /\ OpenArchive(t, f) /\ entries' = f /\ view' = view
           /\ eng' = Classified(eng, f)
    BY <1>6 DEF OpenListing
  <2>2. f \in Files /\ Resume(t, f) /\ picked'.file = f
    BY <1>1, <2>1 DEF OpenArchive, PickedNow
  <2>3. eng'.archive = f
    BY <1>2, <2>1, ClassifiedKeeps
  <2> QED
    BY <2>1, <2>2, <2>3, SettleStep
<1>7. ASSUME NEW t \in Tickets, OpenPage(t)
      PROVE  InOrder' /\ Promise!Settle
  <2>1. PICK f \in Archives :
           \E n \in DOMAIN Entries[f] :
              /\ OpenArchive(t, f)
              /\ entries' = f
              /\ Show(Classified(eng, f), f, n, Said("listed", f))
    BY <1>7 DEF OpenPage
  <2>2. PICK n \in DOMAIN Entries[f] : Show(Classified(eng, f), f, n, Said("listed", f))
    BY <2>1
  <2>3. f \in Files /\ Resume(t, f) /\ picked'.file = f
    BY <1>1, <2>1 DEF OpenArchive, PickedNow
  <2>4. Classified(eng, f) \in EngineStates /\ Classified(eng, f).archive = f
    BY <1>2, ClassifiedKeeps
  <2>5. eng'.archive = f
    <3>1. f \in Source /\ Said("listed", f) \in Statuses
      BY <1>1, StatusFacts DEF Source
    <3>2. view \in Views /\ blobs \in SUBSET Items
      BY DEF ViewerInv, ViewerTypeOK
    <3> QED
      BY <2>2, <2>4, <3>1, <3>2, ShowKeeps
  <2>6. \/ view'.src \in {view.src, None}
        \/ view'.src \in Members(f)
    BY <2>2, <2>4, ShowGives DEF Blank
  <2> QED
    BY <2>1, <2>3, <2>5, <2>6, SettleStep
<1>8. ASSUME NEW t \in Tickets, OpenStructure(t)
      PROVE  InOrder' /\ Promise!Settle
  <2>1. PICK f \in Files :
           /\ Resume(t, f)
           /\ PickedNow(f, StructureOf(Opened(eng, f), f).found)
           /\ view' \in {view, View(f, "panel")}
           /\ UNCHANGED <<entries, active, blobs>>
    BY <1>8 DEF OpenStructure
  <2>2. entries' = None /\ picked'.file = f
    BY <2>1, ResumeInOrder DEF PickedNow
  <2>3. view'.src \in {view.src, f}
    BY <2>1 DEF View
  <2> QED
    BY <2>1, <2>2, <2>3, SettleStep
<1>9. ASSUME NEW t \in Tickets, ReadFails(t)
      PROVE  InOrder' /\ Promise!GiveUp
  <2>1. PICK f \in Files : Resume(t, f) /\ UNCHANGED <<picked, entries, view>>
    BY <1>9 DEF ReadFails
  <2> QED
    BY <2>1, GiveUpStep
<1>10. ASSUME NEW t \in Tickets, OpenTraps(t)
       PROVE  InOrder' /\ Promise!GiveUp
  <2>1. PICK f \in Files :
           /\ Resume(t, f) /\ PickedNow(f, "none") /\ entries' = entries
           /\ view' \in {view, Blank}
    BY <1>10 DEF OpenTraps
  <2>2. picked'.file = f /\ view'.src \in {view.src, None}
    BY <2>1 DEF PickedNow, Blank
  <2> QED
    BY <2>1, <2>2, GiveUpStep
<1>11. CASE ClickEntry
  <2>1. PICK n \in DOMAIN Entries[entries] : Show(eng, entries, n, status)
    BY <1>11 DEF ClickEntry
  <2>2. /\ entries # None /\ entries \in Archives
        /\ UNCHANGED <<reads, label, picked, entries>>
    BY <1>2, <1>11 DEF ClickEntry
  <2>3. /\ entries = label /\ entries = picked.file /\ entries = eng.archive
        /\ \A t \in Tickets : reads[t] = None
    BY <2>2 DEF InOrder
  <2>4. eng'.archive = eng.archive
    <3>1. view \in Views /\ blobs \in SUBSET Items /\ status \in Statuses
      BY DEF ViewerInv, ViewerTypeOK
    <3> QED
      BY <1>2, <2>1, <2>2, <3>1, ShowKeeps
  <2>5. InOrder'
    BY <2>2, <2>3, <2>4 DEF InOrder
  <2>6. view' = view \/ view'.src \in Members(entries) \cup {None}
    BY <1>2, <2>1, <2>3, ShowGives DEF Blank
  <2>7. Waiting = {} /\ Waiting' = {}
    BY <2>2, <2>3 DEF Waiting
  <2>8. CASE view' = view
    BY <2>2, <2>5, <2>7, <2>8 DEF Promise!vars
  <2>9. CASE view'.src \in Members(entries) \cup {None}
    <3>1. Promise!Browse
      BY <2>2, <2>7, <2>9 DEF Promise!Browse
    <3> QED
      BY <2>5, <3>1 DEF Promise!Next
  <2> QED
    BY <2>6, <2>8, <2>9
<1>12. CASE ToggleScripts \/ UNCHANGED viewerVars
  <2>1. UNCHANGED <<reads, label, picked, entries, view, eng>>
    BY <1>12 DEF ToggleScripts, viewerVars
  <2> QED
    BY <2>1 DEF InOrder, Waiting, Promise!vars
<1> QED
  BY <1>3, <1>4, <1>5, <1>6, <1>7, <1>8, <1>9, <1>10, <1>11, <1>12
  DEF ViewerNext, ReadSettles, Promise!Next

(* The page never breaks the promise, for any files, members and archives, *)
(* while the visitor lets each open finish: the file named, worked on and  *)
(* listed are one, and what is shown comes out of it.                      *)
THEOREM PromiseKept ==
    ASSUME OneAtATime
    PROVE  ViewerSpec => NeverBreaksPromise
<1>1. ViewerInit => InOrder /\ Promise!Init
  BY DEF ViewerInit, InOrder, Promise!Init, Waiting, Blank
<1>2. ViewerInv /\ InOrder /\ [ViewerNext]_viewerVars
         => InOrder' /\ [Promise!Next]_(Promise!vars)
  BY StepOfPromise
<1> QED
  BY ViewerInvHolds, <1>1, <1>2, PTL DEF ViewerSpec, NeverBreaksPromise
-----------------------------------------------------------------------------
(* What the list marks and what the viewer keeps alive, while the visitor  *)
(* lets each open finish: nothing is marked without a list, and the task   *)
(* that resumes finds the object URLs already revoked.                     *)
MarkInv ==
    /\ entries = None => active = 0
    /\ Waiting # {} => blobs = {}
    /\ BlobOnlyWhileShown

(* A show() of entry n of the archive held puts that entry or nothing into *)
(* the viewer, with an object URL only for an image.                       *)
LEMMA ShowPuts ==
    ASSUME NEW e, NEW n, NEW said, BlobOnlyWhileShown, Show(e, e.archive, n, said)
    PROVE  /\ BlobOnlyWhileShown'
           /\ view' = view \/ view'.src \in {Entries[e.archive][n], None}
<1>1. CASE \/ ExtractThrows(e, n, said) \/ ShowTraps(e, said)
           \/ ShowTrapsLate(e, e.archive, n, said)
  BY <1>1 DEF ExtractThrows, ShowTraps, ShowTrapsLate, Blank, BlobOnlyWhileShown
<1>2. CASE ShowExtracted(e, e.archive, n, said)
  <2> DEFINE i == Entries[e.archive][n]
             way == Dispatch(Named[i], Magic[i])
  <2>1. blobs' = IF way = "image" THEN {i} ELSE {}
    BY <1>2 DEF ShowExtracted
  <2>2. /\ way = "image" => view' = View(i, "image")
        /\ \/ view' = Blank
           \/ \E as \in {"panel", "frame", "image", "text", "hex"} : view' = View(i, as)
    BY <1>2 DEF ShowExtracted, HeaderPanel, ShowPage, ShowPlain, ShowStructured
  <2> HIDE DEF way
  <2> QED
    BY <2>1, <2>2 DEF View, Blank, BlobOnlyWhileShown
<1> QED
  BY <1>1, <1>2 DEF Show

LEMMA MarkStep ==
    ASSUME OneAtATime, ViewerInv, InOrder, MarkInv, [ViewerNext]_viewerVars
    PROVE  MarkInv' /\ (MarkedStep \/ UNCHANGED viewerVars)
<1>1. None \notin Archives /\ None \notin Files /\ Refused \subseteq Archives
  BY EngineAssumption, ViewerAssumption DEF Archives
<1>2. /\ eng \in EngineStates
      /\ entries \in (Archives \ Refused) \cup {None}
      /\ reads \in [Tickets -> Files \cup {None}]
  BY DEF ViewerInv, ViewerTypeOK
(* a task that resumes finds no list, no mark and no object URL *)
<1>3. ASSUME NEW t \in Tickets, NEW f \in Files, Resume(t, f)
      PROVE  entries = None /\ active = 0 /\ blobs = {} /\ ~(Waiting' # {})
  BY <1>3, ResumeInOrder DEF MarkInv
<1>4. ASSUME NEW f \in Files, PickFile(f)
      PROVE  MarkInv' /\ MarkedStep
  BY <1>4 DEF PickFile, MarkInv, BlobOnlyWhileShown, MarkedStep
<1>5. ASSUME NEW t \in Tickets, NEW f \in Files, Resume(t, f),
             UNCHANGED <<active, blobs>>
      PROVE  MarkInv' /\ MarkedStep
  BY <1>3, <1>5 DEF MarkInv, BlobOnlyWhileShown, MarkedStep
<1>6. ASSUME NEW t \in Tickets,
             \/ OpenHeader(t) \/ OpenStructure(t) \/ ReadFails(t) \/ OpenTraps(t)
      PROVE  MarkInv' /\ MarkedStep
  BY <1>5, <1>6 DEF OpenHeader, OpenStructure, ReadFails, OpenTraps
<1>7. ASSUME NEW t \in Tickets, OpenRefused(t) \/ OpenListing(t)
      PROVE  MarkInv' /\ MarkedStep
  <2>1. PICK f \in Archives : OpenArchive(t, f) /\ active' = 0 /\ UNCHANGED <<view, blobs>>
    BY <1>1, <1>7 DEF OpenRefused, OpenListing
  <2>2. f \in Files /\ Resume(t, f)
    BY <2>1 DEF OpenArchive, Archives
  <2> QED
    BY <1>3, <2>1, <2>2 DEF MarkInv, BlobOnlyWhileShown, MarkedStep
<1>8. ASSUME NEW t \in Tickets, OpenPage(t)
      PROVE  MarkInv' /\ MarkedStep
  <2>1. PICK f \in Archives :
           \E n \in DOMAIN Entries[f] :
              /\ OpenArchive(t, f) /\ entries' = f /\ active' = n
              /\ Show(Classified(eng, f), f, n, Said("listed", f))
    BY <1>8 DEF OpenPage
  <2>2. PICK n \in DOMAIN Entries[f] :
           active' = n /\ Show(Classified(eng, f), f, n, Said("listed", f))
    BY <2>1
  <2>3. f \in Files /\ Resume(t, f) /\ f # None
    BY <1>1, <2>1 DEF OpenArchive, Archives
  <2>4. Classified(eng, f).archive = f
    BY <1>2, ClassifiedKeeps
  <2>5. /\ BlobOnlyWhileShown'
        /\ view' = view \/ view'.src \in {Entries[f][n], None}
    BY <2>2, <2>4, ShowPuts DEF MarkInv
  <2> QED
    BY <1>3, <2>1, <2>2, <2>3, <2>5 DEF MarkInv, MarkedStep
<1>9. CASE ClickEntry
  <2>1. PICK n \in DOMAIN Entries[entries] : active' = n /\ Show(eng, entries, n, status)
    BY <1>9 DEF ClickEntry
  <2>2. entries # None /\ UNCHANGED <<reads, entries>>
    BY <1>9 DEF ClickEntry
  <2>3. eng.archive = entries /\ Waiting = {} /\ Waiting' = {}
    BY <2>2 DEF InOrder, Waiting
  <2>4. /\ BlobOnlyWhileShown'
        /\ view' = view \/ view'.src \in {Entries[entries][n], None}
    BY <2>1, <2>3, ShowPuts DEF MarkInv
  <2> QED
    BY <2>1, <2>2, <2>3, <2>4 DEF MarkInv, MarkedStep
<1>10. CASE ToggleScripts \/ UNCHANGED viewerVars
  BY <1>10 DEF ToggleScripts, viewerVars, MarkInv, BlobOnlyWhileShown, MarkedStep, Waiting
<1> QED
  BY <1>4, <1>6, <1>7, <1>8, <1>9, <1>10 DEF ViewerNext, ReadSettles

LEMMA MarkInvHolds ==
    ASSUME OneAtATime
    PROVE  ViewerSpec => [](ViewerInv /\ InOrder /\ MarkInv)
<1>1. ViewerInit => InOrder /\ MarkInv
  BY DEF ViewerInit, InOrder, MarkInv, Waiting, BlobOnlyWhileShown
<1>2. ViewerInv /\ InOrder /\ [ViewerNext]_viewerVars => InOrder'
  BY StepOfPromise
<1>3. ViewerInv /\ InOrder /\ MarkInv /\ [ViewerNext]_viewerVars => MarkInv'
  BY MarkStep
<1> QED
  BY ViewerInvHolds, <1>1, <1>2, <1>3, PTL DEF ViewerSpec

(* No object URL outlives the image it was made for, whatever fails or     *)
(* traps in between, while the visitor lets each open finish.              *)
THEOREM BlobsNeverOutliveTheImage ==
    ASSUME OneAtATime
    PROVE  ViewerSpec => []BlobOnlyWhileShown
<1>1. MarkInv => BlobOnlyWhileShown
  BY DEF MarkInv
<1> QED
  BY MarkInvHolds, <1>1, PTL

(* Nothing but the marked entry comes into the viewer while one is marked. *)
THEOREM ViewerAlwaysFollowsMark ==
    ASSUME OneAtATime
    PROVE  ViewerSpec => ViewerFollowsMark
<1>1. ViewerInv /\ InOrder /\ MarkInv /\ [ViewerNext]_viewerVars => [MarkedStep]_viewerVars
  BY MarkStep
<1> QED
  BY MarkInvHolds, <1>1, PTL DEF ViewerSpec, ViewerFollowsMark

-----------------------------------------------------------------------------
(* The analyser and the disassembler rows (Tools).                         *)

(* A pane whose kept edges carry the key of the file they were read from.  *)
Keyed(p) ==
    /\ p \in Panes
    /\ p.xrefs # None => p.key = Key[p.xrefs]
    /\ p.mod <=> p.host
    /\ p.mod => p.known

SlotsAgree(p) == p.names # None /\ p.lists # None => p.names = p.lists

RowsAgree(p) == (~p.cut /\ p.rows # None /\ p.names # None) => p.rows = p.names

PaintAgrees(p) ==
    ~p.cut =>
        /\ p.painted.lists # Sample
        /\ (p.painted.lists # None /\ p.painted.xrefs # None)
              => p.painted.xrefs = p.painted.lists

PaneInv(p) == Keyed(p) /\ SlotsAgree(p) /\ RowsAgree(p) /\ PaintAgrees(p)

SameSlots(p, q) == q.names = p.names /\ q.lists = p.lists /\ q.cut = p.cut

(* pickedKey tells the files apart; without it the painted box can mix two *)
(* of them.                                                                *)
KeysDiffer ==
    /\ \A f \in Files : Key[f] # None
    /\ \A f, g \in Files : Key[f] = Key[g] => f = g

LEMMA Names == None \notin Files /\ Sample # None /\ Sample \notin Files
BY EngineAssumption, ViewerAssumption, ToolsAssumption

-----------------------------------------------------------------------------
LEMMA DropKeeps ==
    ASSUME KeysDiffer, NEW p \in Panes, Keyed(p), NEW f \in MaybeFile
    PROVE  LET q == DropForeignXrefs(p, f)
           IN  /\ Keyed(q)
               /\ q.xrefs \in {None, f}
               /\ SameSlots(p, q) /\ q.rows = p.rows /\ q.painted = p.painted
               /\ q.mod = p.mod /\ q.host = p.host /\ q.known = p.known
<1> DEFINE q == DropForeignXrefs(p, f)
<1>1. CASE p.key = PickedKey(f)
  <2>1. q = p
    BY <1>1 DEF DropForeignXrefs
  <2>2. p.xrefs \in {None, f}
    BY <1>1, Names DEF Keyed, Panes, MaybeFile, PickedKey, KeysDiffer
  <2> QED
    BY <2>1, <2>2 DEF SameSlots
<1>2. CASE p.key # PickedKey(f)
  <2>1. q = [p EXCEPT !.xrefs = None, !.key = None]
    BY <1>2 DEF DropForeignXrefs
  <2> QED
    BY <2>1 DEF Keyed, Panes, MaybeFile, SameSlots
<1> QED
  BY <1>1, <1>2

LEMMA AnalyseHereGives ==
    ASSUME NEW p \in Panes, Keyed(p), NEW f \in MaybeFile
    PROVE  LET q == AnalyseHere(p, f)
           IN  /\ Keyed(q)
               /\ q.xrefs = p.xrefs /\ q.painted = p.painted
               /\ q.mod = p.mod /\ q.host = p.host /\ q.known = p.known
               /\ p.mod /\ f # None =>
                     /\ q.names \in {None, f}
                     /\ q.lists = q.names /\ q.rows = q.names
               /\ ~(p.mod /\ f # None) => q = p
<1> DEFINE q == AnalyseHere(p, f)
<1>1. CASE p.mod /\ f # None
  <2> DEFINE got == IF f \in Analysable THEN f ELSE None
  <2>1. q = [p EXCEPT !.names = got, !.lists = got, !.cut = FALSE, !.rows = got]
    BY <1>1 DEF AnalyseHere, Analysed
  <2>2. got \in MaybeFile /\ got \in {None, f}
    BY DEF MaybeFile
  <2> HIDE DEF got
  <2>3. q \in Panes
    BY <2>1, <2>2 DEF Panes
  <2>4. /\ q.names = got /\ q.lists = got /\ q.rows = got
        /\ q.xrefs = p.xrefs /\ q.painted = p.painted /\ q.key = p.key
        /\ q.mod = p.mod /\ q.host = p.host /\ q.known = p.known
    BY <2>1 DEF Panes
  <2> QED
    BY <1>1, <2>2, <2>3, <2>4 DEF Keyed
<1>2. CASE ~(p.mod /\ f # None)
  BY <1>2 DEF AnalyseHere
<1> QED
  BY <1>1, <1>2

(* A repaint shows what the instance and the page hold at that moment.     *)
LEMMA PaintGives ==
    ASSUME NEW p \in Panes, Keyed(p), NEW f \in MaybeFile
    PROVE  LET q == PaintRegions(p, f)
           IN  /\ Keyed(q)
               /\ q.xrefs = p.xrefs /\ SameSlots(p, q) /\ q.rows = p.rows
               /\ q.mod = p.mod /\ q.host = p.host /\ q.known = p.known
               /\ ~p.host => q = p
               /\ p.host /\ f = None => q.painted = NotPainted
               /\ p.host /\ f # None =>
                     q.painted = [lists |-> p.lists, xrefs |-> p.xrefs]
<1> DEFINE q == PaintRegions(p, f)
<1>1. CASE ~p.host
  BY <1>1 DEF PaintRegions, SameSlots
<1>2. CASE p.host
  <2> DEFINE box == IF f = None THEN NotPainted
                    ELSE [lists |-> p.lists, xrefs |-> p.xrefs]
  <2>1. q = [p EXCEPT !.painted = box]
    BY <1>2 DEF PaintRegions
  <2>2. box \in Painted
    BY DEF Panes, Painted, NotPainted, MaybeFile
  <2> HIDE DEF box
  <2>3. q \in Panes /\ q.painted = box
    BY <2>1, <2>2 DEF Panes
  <2>4. /\ q.xrefs = p.xrefs /\ SameSlots(p, q) /\ q.rows = p.rows /\ q.key = p.key
        /\ q.mod = p.mod /\ q.host = p.host /\ q.known = p.known
    BY <2>1 DEF Panes, SameSlots
  <2> QED
    BY <1>2, <2>3, <2>4 DEF Keyed, box
<1> QED
  BY <1>1, <1>2

(* analysisRows leaves one file everywhere: a loaded module re-reads the   *)
(* picked one, drops the edges of any other, and is painted again.         *)
LEMMA AnalysisRowsGives ==
    ASSUME KeysDiffer, NEW p \in Panes, Keyed(p), p.known, NEW f \in MaybeFile
    PROVE  LET q == AnalysisRows(p, f)
           IN  /\ Keyed(q)
               /\ q.mod = p.mod /\ q.known = p.known
               /\ q.xrefs \in {None, f}
               /\ p.mod /\ f # None => PaneInv(q) /\ q.names \in {None, f}
                                       /\ q.lists = q.names
               /\ p.mod /\ f = None =>
                     /\ q.painted = NotPainted
                     /\ q.rows = p.rows /\ SameSlots(p, q)
               /\ ~p.mod => /\ q.painted = p.painted
                            /\ q.rows = p.rows /\ SameSlots(p, q)
<1> DEFINE a == DropForeignXrefs(p, f)
           b == AnalyseHere(a, f)
           q == PaintRegions(b, f)
<1>1. /\ Keyed(a)
      /\ a.xrefs \in {None, f}
      /\ SameSlots(p, a) /\ a.rows = p.rows /\ a.painted = p.painted
      /\ a.mod = p.mod /\ a.host = p.host /\ a.known = p.known
  BY DropKeeps
<1> HIDE DEF a
<1>2. a \in Panes
  BY <1>1 DEF Keyed
<1>3. /\ Keyed(b)
      /\ b.xrefs = a.xrefs /\ b.painted = a.painted
      /\ b.mod = a.mod /\ b.host = a.host /\ b.known = a.known
      /\ a.mod /\ f # None =>
            b.names \in {None, f} /\ b.lists = b.names /\ b.rows = b.names
      /\ ~(a.mod /\ f # None) => b = a
  BY <1>1, <1>2, AnalyseHereGives
<1> HIDE DEF b
<1>4. b \in Panes
  BY <1>3 DEF Keyed
<1>5. /\ Keyed(q)
      /\ q.xrefs = b.xrefs /\ SameSlots(b, q) /\ q.rows = b.rows
      /\ q.mod = b.mod /\ q.host = b.host /\ q.known = b.known
      /\ ~b.host => q = b
      /\ b.host /\ f = None => q.painted = NotPainted
      /\ b.host /\ f # None => q.painted = [lists |-> b.lists, xrefs |-> b.xrefs]
  BY <1>3, <1>4, PaintGives
<1> HIDE DEF q
<1>6. AnalysisRows(p, f) = q
  BY DEF AnalysisRows, a, b, q
<1>7. p.mod <=> p.host
  BY DEF Keyed
<1>8. ASSUME p.mod, f # None
      PROVE  PaneInv(q) /\ q.names \in {None, f} /\ q.lists = q.names
  <2>1. /\ q.names \in {None, f} /\ q.lists = q.names /\ q.rows = q.names
        /\ q.painted = [lists |-> q.lists, xrefs |-> q.xrefs]
        /\ q.xrefs \in {None, f}
    BY <1>1, <1>3, <1>5, <1>7, <1>8 DEF SameSlots
  <2>2. f # Sample /\ Sample # None
    BY <1>8, Names DEF MaybeFile
  <2> QED
    BY <1>5, <2>1, <2>2 DEF PaneInv, SlotsAgree, RowsAgree, PaintAgrees
<1>9. p.mod /\ f = None =>
         q.painted = NotPainted /\ q.rows = p.rows /\ SameSlots(p, q)
  BY <1>1, <1>3, <1>5, <1>7 DEF SameSlots
<1>10. ~p.mod => q.painted = p.painted /\ q.rows = p.rows /\ SameSlots(p, q)
  BY <1>1, <1>3, <1>5, <1>7 DEF SameSlots
<1> QED
  BY <1>1, <1>3, <1>5, <1>6, <1>8, <1>9, <1>10

-----------------------------------------------------------------------------
(* The ways Serve can end, one lemma each.                                 *)

LEMMA ListRowsGives ==
    ASSUME KeysDiffer, NEW p \in Panes, p.known, p.rows = None, SlotsAgree(p),
           p.xrefs # None => p.key = Key[p.xrefs],
           NEW f \in MaybeFile, ListRows(p, f)
    PROVE  PaneInv(pane') /\ pane'.known /\ pane'.mod
<1> DEFINE held == [p EXCEPT !.mod = TRUE, !.host = TRUE]
           q == AnalysisRows(held, f)
           r == PaintRegions(q, f)
<1>1. /\ held \in Panes /\ Keyed(held) /\ held.known /\ held.mod /\ held.rows = None
      /\ SlotsAgree(held)
  BY DEF Keyed, Panes, SlotsAgree
<1> HIDE DEF held
<1>2. /\ Keyed(q) /\ q.mod /\ q.known /\ q.xrefs \in {None, f}
      /\ f # None => PaneInv(q) /\ q.names \in {None, f} /\ q.lists = q.names
      /\ f = None => q.rows = None /\ SameSlots(held, q)
  BY <1>1, AnalysisRowsGives
<1> HIDE DEF q
<1>3. q \in Panes /\ q.host
  BY <1>2 DEF Keyed
<1>4. /\ Keyed(r) /\ r.mod /\ r.known
      /\ r.xrefs = q.xrefs /\ SameSlots(q, r) /\ r.rows = q.rows
      /\ f = None => r.painted = NotPainted
      /\ f # None => r.painted = [lists |-> q.lists, xrefs |-> q.xrefs]
  BY <1>2, <1>3, PaintGives
<1> HIDE DEF r
<1>5. RowsAgree(r) /\ SlotsAgree(r)
  BY <1>1, <1>2, <1>4 DEF PaneInv, RowsAgree, SlotsAgree, SameSlots
<1>6. PaintAgrees(r)
  BY <1>2, <1>4, Names DEF PaintAgrees, NotPainted, MaybeFile
<1>7. pane' = r
  BY DEF ListRows, held, q, r
<1> QED
  BY <1>4, <1>5, <1>6, <1>7 DEF PaneInv

(* What a click that plans a disassembly keeps.                            *)
Steady(p, q) ==
    /\ q.known = p.known
    /\ q.mod = p.mod
    /\ ~p.mod => q.rows = p.rows /\ q.painted = p.painted

LEMMA PlanGives ==
    ASSUME KeysDiffer, NEW p, PaneInv(p), NEW f \in Files
    PROVE  PaneInv(PlanPane(p, f)) /\ Steady(p, PlanPane(p, f))
<1>1. p \in Panes /\ Keyed(p) /\ f \in MaybeFile /\ f # None
  BY Names DEF PaneInv, Keyed, MaybeFile
<1>2. CASE PlanPane(p, f) = p
  BY <1>2 DEF Steady
<1>3. CASE p.known /\ PlanPane(p, f) = AnalysisRows(p, f)
  <2> DEFINE q == AnalysisRows(p, f)
  <2>1. /\ Keyed(q) /\ q.mod = p.mod /\ q.known = p.known
        /\ p.mod => PaneInv(q)
        /\ ~p.mod => /\ q.painted = p.painted
                     /\ q.rows = p.rows /\ SameSlots(p, q)
    BY <1>1, <1>3, AnalysisRowsGives
  <2> HIDE DEF q
  <2>2. PaneInv(q)
    BY <2>1 DEF PaneInv, SlotsAgree, RowsAgree, PaintAgrees, SameSlots
  <2> QED
    BY <1>3, <2>1, <2>2 DEF Steady, q
<1>4. ~p.known => AnalysisRows(p, f) = p
  BY DEF AnalysisRows
<1> QED
  BY <1>2, <1>3, <1>4 DEF PlanPane

LEMMA KeepXrefsGives ==
    ASSUME KeysDiffer, NEW p, PaneInv(p), NEW f \in Files
    PROVE  LET q == KeepXrefs(p, f)
           IN  /\ Keyed(q) /\ SlotsAgree(q) /\ RowsAgree(q)
               /\ Steady(p, q)
               /\ ~p.mod => PaneInv(q)
<1> DEFINE a == [p EXCEPT !.xrefs = f, !.key = Key[f]]
           q == PaintRegions(a, f)
<1>1. p \in Panes /\ Keyed(p) /\ f \in MaybeFile
  BY DEF PaneInv, Keyed, MaybeFile
<1>2. /\ a \in Panes /\ Keyed(a)
      /\ a.known = p.known /\ a.mod = p.mod /\ a.host = p.host
      /\ a.rows = p.rows /\ a.painted = p.painted /\ SameSlots(p, a)
  BY <1>1 DEF Panes, Keyed, MaybeFile, SameSlots
<1> HIDE DEF a
<1>3. /\ Keyed(q)
      /\ SameSlots(a, q) /\ q.rows = a.rows
      /\ q.mod = a.mod /\ q.known = a.known
      /\ ~a.host => q = a
  BY <1>1, <1>2, PaintGives
<1> HIDE DEF q
<1>4. /\ SlotsAgree(q) /\ RowsAgree(q)
      /\ ~p.mod => PaintAgrees(q) /\ q.painted = p.painted
  BY <1>1, <1>2, <1>3
  DEF PaneInv, Keyed, SlotsAgree, RowsAgree, PaintAgrees, SameSlots
<1>5. KeepXrefs(p, f) = IF ~p.known THEN p ELSE q
  BY DEF KeepXrefs, a, q
<1>6. CASE ~p.known
  BY <1>1, <1>5, <1>6 DEF Steady, PaneInv
<1>7. CASE p.known
  BY <1>2, <1>3, <1>4, <1>5, <1>7 DEF Steady, PaneInv
<1> QED
  BY <1>6, <1>7

LEMMA DisassembleGives ==
    ASSUME KeysDiffer, NEW p, PaneInv(p), NEW f \in MaybeFile, Disassemble(p, f)
    PROVE  /\ PaneInv(pane') /\ Steady(p, pane')
           /\ report'.code = f /\ report'.names \in {None, f}
           /\ report' \in [code : MaybeFile, names : MaybeFile]
<1> DEFINE a == PlanPane(p, f)
           k == KeepXrefs(a, f)
           d == NamePass(k, f)
<1>1. f \in Files /\ f # None
  BY DEF Disassemble, MaybeFile
<1>2. PaneInv(a) /\ Steady(p, a)
  BY <1>1, PlanGives
<1> HIDE DEF a
<1>3. Keyed(k) /\ Steady(a, k) /\ (~a.mod => PaneInv(k))
  BY <1>1, <1>2, KeepXrefsGives
<1> HIDE DEF k
<1>4. k \in Panes /\ f \in MaybeFile /\ (k.mod => k.known)
  BY <1>3 DEF Keyed
<1>5. CASE k.known /\ k.mod
  <2> DEFINE q == AnalysisRows(k, f)
  <2>1. /\ PaneInv(q) /\ q.mod = k.mod /\ q.known = k.known
        /\ q.names \in {None, f}
    BY <1>1, <1>3, <1>4, <1>5, AnalysisRowsGives
  <2>2. d = q
    BY <1>5 DEF NamePass
  <2> HIDE DEF q
  <2>3. PaneInv(d) /\ Steady(p, d) /\ NamesIn(d) \in {None, f}
    BY <1>2, <1>3, <1>5, <2>1, <2>2 DEF Steady, NamesIn
  <2> QED
    BY <1>1, <2>3 DEF Disassemble, MaybeFile, a, k
<1>6. CASE ~(k.known /\ k.mod)
  <2>1. d = k /\ ~k.mod /\ ~a.mod
    BY <1>3, <1>4, <1>6 DEF NamePass, Steady
  <2> HIDE DEF d
  <2>2. PaneInv(d) /\ Steady(p, d) /\ NamesIn(d) = None
    BY <1>2, <1>3, <1>6, <2>1 DEF Steady, NamesIn
  <2> QED
    BY <1>1, <2>2 DEF Disassemble, MaybeFile, a, k, d
<1> QED
  BY <1>5, <1>6

LEMMA NothingGives ==
    ASSUME KeysDiffer, NEW p, PaneInv(p), NEW f \in MaybeFile,
           NothingToDisassemble(p, f)
    PROVE  PaneInv(pane') /\ Steady(p, pane')
<1>1. CASE f = None
  BY <1>1 DEF NothingToDisassemble, Steady
<1>2. CASE f # None
  BY <1>2, PlanGives DEF NothingToDisassemble, MaybeFile
<1> QED
  BY <1>1, <1>2

(* Where the page stands when the analyser traps.                          *)
LEMMA StagesGive ==
    ASSUME KeysDiffer, NEW m \in Modules, NEW p \in Panes, p.known,
           Asked(m, p).mod, SlotsAgree(p), m = "disasm" => PaneInv(p),
           p.xrefs # None => p.key = Key[p.xrefs], NEW f \in Files
    PROVE  /\ \A q \in AtRows(m, Asked(m, p), f) :
                 Keyed(q) /\ q.known /\ q.mod /\ SlotsAgree(q)
           /\ \A q \in AtNames(m, Asked(m, p), f) :
                 Keyed(q) /\ q.known /\ q.mod /\ SlotsAgree(q) /\ RowsAgree(q)
<1> DEFINE a == Asked(m, p)
<1>0. f \in MaybeFile
  BY DEF MaybeFile
<1>1. /\ a \in Panes /\ Keyed(a) /\ a.known /\ a.mod /\ SlotsAgree(a)
      /\ m = "disasm" => a = p
  <2>1. CASE m = "analysis"
    BY <2>1 DEF Asked, Keyed, Panes, SlotsAgree
  <2>2. CASE m = "disasm"
    <3>1. a = p
      BY <2>2 DEF Asked, Panes
    <3> QED
      BY <2>2, <3>1 DEF PaneInv
  <2> QED
    BY <2>1, <2>2 DEF Modules
<1> HIDE DEF a
<1>2. ASSUME NEW q \in AtRows(m, a, f)
      PROVE  Keyed(q) /\ q.known /\ q.mod /\ SlotsAgree(q)
  <2>1. q = DropForeignXrefs(a, f)
    BY <1>2 DEF AtRows
  <2>2. /\ Keyed(DropForeignXrefs(a, f)) /\ SameSlots(a, DropForeignXrefs(a, f))
        /\ DropForeignXrefs(a, f).known = a.known
        /\ DropForeignXrefs(a, f).mod = a.mod
    BY <1>0, <1>1, DropKeeps
  <2> QED
    BY <1>1, <2>1, <2>2 DEF SameSlots, SlotsAgree
<1>3. ASSUME NEW q \in AtNames(m, a, f)
      PROVE  Keyed(q) /\ q.known /\ q.mod /\ SlotsAgree(q) /\ RowsAgree(q)
  <2>1. m = "disasm" /\ q = KeepXrefs(PlanPane(a, f), f)
    BY <1>3 DEF AtNames
  <2>2. PaneInv(PlanPane(a, f)) /\ Steady(a, PlanPane(a, f))
    BY <1>1, <2>1, PlanGives
  <2> DEFINE b == PlanPane(a, f)
  <2> HIDE DEF b
  <2>3. PaneInv(b) /\ Steady(a, b) /\ q = KeepXrefs(b, f)
    BY <2>1, <2>2 DEF b
  <2>4. Keyed(q) /\ SlotsAgree(q) /\ RowsAgree(q) /\ Steady(b, q)
    BY <2>3, KeepXrefsGives
  <2> QED
    BY <1>1, <2>3, <2>4 DEF Steady
<1> QED
  BY <1>2, <1>3 DEF a

LEMMA CutOffGives ==
    ASSUME NEW p \in Panes, Keyed(p), SlotsAgree(p), NEW f \in Files,
           NEW left \in CutOff(p, f)
    PROVE  LET q == [p EXCEPT !.names = left[1], !.lists = left[2], !.cut = TRUE]
           IN  PaneInv(q) /\ q.known = p.known /\ q.mod = p.mod
<1> DEFINE q == [p EXCEPT !.names = left[1], !.lists = left[2], !.cut = TRUE]
<1>1. /\ left[1] \in MaybeFile \cup {Sample} /\ left[2] \in MaybeFile \cup {Sample}
      /\ left[1] # None /\ left[2] # None => left[1] = left[2]
  BY DEF CutOff, Panes, SlotsAgree, MaybeFile
<1>2. /\ q \in Panes /\ q.names = left[1] /\ q.lists = left[2] /\ q.cut
      /\ q.xrefs = p.xrefs /\ q.key = p.key /\ q.mod = p.mod
      /\ q.host = p.host /\ q.known = p.known
  BY <1>1 DEF Panes
<1> HIDE DEF q
<1>3. PaneInv(q)
  BY <1>1, <1>2 DEF PaneInv, Keyed, SlotsAgree, RowsAgree, PaintAgrees
<1> QED
  BY <1>2, <1>3 DEF q

LEMMA UnpaintedGives ==
    ASSUME NEW p \in Panes, Keyed(p), SlotsAgree(p), RowsAgree(p)
    PROVE  LET q == [p EXCEPT !.painted = NotPainted]
           IN  PaneInv(q) /\ q.known = p.known /\ q.mod = p.mod
<1> DEFINE q == [p EXCEPT !.painted = NotPainted]
<1>1. /\ q \in Panes /\ SameSlots(p, q) /\ q.rows = p.rows
      /\ q.painted = NotPainted
      /\ q.xrefs = p.xrefs /\ q.key = p.key /\ q.mod = p.mod
      /\ q.host = p.host /\ q.known = p.known
  BY DEF Panes, Painted, NotPainted, MaybeFile, SameSlots
<1> HIDE DEF q
<1>2. PaneInv(q)
  BY <1>1, Names
  DEF PaneInv, Keyed, SlotsAgree, RowsAgree, PaintAgrees, NotPainted, SameSlots
<1> QED
  BY <1>1, <1>2 DEF q

LEMMA TrapsGive ==
    ASSUME KeysDiffer, NEW m \in Modules, NEW p \in Panes, p.known,
           p.xrefs # None => p.key = Key[p.xrefs], SlotsAgree(p),
           m = "disasm" => PaneInv(p), NEW f \in MaybeFile,
           AnalyserTraps(m, p, f) \/ ReadBackTraps(m, p, f)
    PROVE  PaneInv(pane') /\ pane'.known /\ pane'.mod
<1>1. f \in Files /\ f # None /\ Asked(m, p).mod
  BY DEF AnalyserTraps, ReadBackTraps, MaybeFile
<1> DEFINE rows == AtRows(m, Asked(m, p), f)
           names == AtNames(m, Asked(m, p), f)
<1>2. /\ \A x \in rows : Keyed(x) /\ x.known /\ x.mod /\ SlotsAgree(x)
      /\ \A x \in names : Keyed(x) /\ x.known /\ x.mod /\ SlotsAgree(x) /\ RowsAgree(x)
  BY <1>1, StagesGive
<1>3. AnalyserTraps(m, p, f) =>
         \E x \in rows \cup names : \E left \in CutOff(x, f) :
            pane' = [x EXCEPT !.names = left[1], !.lists = left[2], !.cut = TRUE]
  BY DEF AnalyserTraps
<1>4. ReadBackTraps(m, p, f) =>
         \/ \E x \in names : pane' = [x EXCEPT !.painted = NotPainted]
         \/ \E x \in rows \cup names :
               \/ pane' = AnalysisRows(x, f)
               \/ pane' = [AnalysisRows(x, f) EXCEPT !.painted = NotPainted]
  BY DEF ReadBackTraps
<1> HIDE DEF rows, names
<1>5. ASSUME NEW x \in rows \cup names
      PROVE  /\ PaneInv(AnalysisRows(x, f))
             /\ AnalysisRows(x, f).known /\ AnalysisRows(x, f).mod
  <2>1. x \in Panes /\ Keyed(x) /\ x.known /\ x.mod
    BY <1>2, <1>5 DEF Keyed
  <2>2. f \in MaybeFile
    BY <1>1 DEF MaybeFile
  <2> QED
    BY <1>1, <2>1, <2>2, AnalysisRowsGives
<1>6. CASE AnalyserTraps(m, p, f)
  <2>1. PICK x \in rows \cup names : \E left \in CutOff(x, f) :
           pane' = [x EXCEPT !.names = left[1], !.lists = left[2], !.cut = TRUE]
    BY <1>3, <1>6
  <2>2. PICK left \in CutOff(x, f) :
           pane' = [x EXCEPT !.names = left[1], !.lists = left[2], !.cut = TRUE]
    BY <2>1
  <2>3. x \in Panes /\ Keyed(x) /\ SlotsAgree(x) /\ x.known /\ x.mod
    BY <1>2 DEF Keyed
  <2> QED
    BY <1>1, <2>3, <2>2, CutOffGives
<1>7. CASE \E x \in names : pane' = [x EXCEPT !.painted = NotPainted]
  <2>1. PICK x \in names : pane' = [x EXCEPT !.painted = NotPainted]
    BY <1>7
  <2>2. x \in Panes /\ Keyed(x) /\ SlotsAgree(x) /\ RowsAgree(x) /\ x.known /\ x.mod
    BY <1>2 DEF Keyed
  <2> QED
    BY <2>1, <2>2, UnpaintedGives
<1>8. CASE \E x \in rows \cup names :
              \/ pane' = AnalysisRows(x, f)
              \/ pane' = [AnalysisRows(x, f) EXCEPT !.painted = NotPainted]
  <2>1. PICK x \in rows \cup names :
              \/ pane' = AnalysisRows(x, f)
              \/ pane' = [AnalysisRows(x, f) EXCEPT !.painted = NotPainted]
    BY <1>8
  <2> DEFINE r == AnalysisRows(x, f)
  <2>2. PaneInv(r) /\ r.known /\ r.mod
    BY <1>5
  <2>3. pane' = r \/ pane' = [r EXCEPT !.painted = NotPainted]
    BY <2>1
  <2> HIDE DEF r
  <2>4. r \in Panes /\ Keyed(r) /\ SlotsAgree(r) /\ RowsAgree(r)
    BY <2>2 DEF PaneInv, Keyed
  <2> QED
    BY <2>2, <2>3, <2>4, UnpaintedGives
<1> QED
  BY <1>4, <1>6, <1>7, <1>8

-----------------------------------------------------------------------------
(* Until the analyser has arrived nothing of it stands in the pane; once   *)
(* it has, the instance is never given up.                                 *)
LoadInv(p, far) ==
    /\ far = "ready" => p.known /\ p.mod
    /\ far # "ready" => ~p.mod /\ p.rows = None /\ p.painted = NotPainted
    /\ far \in Loading => p.known

Reports == [code : MaybeFile, names : MaybeFile]

ToolsInv ==
    /\ ViewerInv
    /\ phase \in [Modules -> Phases]
    /\ button \in [Modules -> BOOLEAN]
    /\ PaneInv(pane)
    /\ LoadInv(pane, phase["analysis"])
    /\ listing \in MaybeFile
    /\ report \in Reports
    /\ NamesAreOfTheCode
    /\ ButtonTellsLoading

LEMMA ServeAnalysis ==
    ASSUME KeysDiffer, NEW p \in Panes, p.known, p.rows = None, SlotsAgree(p),
           p.xrefs # None => p.key = Key[p.xrefs],
           NEW f \in MaybeFile, listing \in MaybeFile, Serve("analysis", p, f)
    PROVE  /\ PaneInv(pane') /\ pane'.known /\ pane'.mod
           /\ listing' \in MaybeFile
           /\ report' = report
<1>1. CASE ListRows(p, f)
  BY <1>1, ListRowsGives DEF ListRows
<1>2. CASE AnalyserTraps("analysis", p, f) \/ ReadBackTraps("analysis", p, f)
  <2>1. PaneInv(pane') /\ pane'.known /\ pane'.mod
    BY <1>2, TrapsGive DEF Modules
  <2>2. listing' \in {listing, f} /\ report' = report
    BY <1>2 DEF AnalyserTraps, ReadBackTraps
  <2> QED
    BY <2>1, <2>2
<1> QED
  BY <1>1, <1>2 DEF Serve

LEMMA ServeDisasm ==
    ASSUME KeysDiffer, PaneInv(pane), NEW far, LoadInv(pane, far),
           NEW f \in MaybeFile, listing \in MaybeFile, report \in Reports,
           NamesAreOfTheCode, Serve("disasm", pane, f)
    PROVE  /\ PaneInv(pane') /\ LoadInv(pane', far)
           /\ listing' \in MaybeFile
           /\ report' \in Reports
           /\ NamesAreOfTheCode'
<1>1. CASE NothingToDisassemble(pane, f)
  <2>1. PaneInv(pane') /\ Steady(pane, pane')
    BY <1>1, NothingGives
  <2>2. report' = [code |-> None, names |-> None] /\ listing' = listing
    BY <1>1 DEF NothingToDisassemble
  <2> QED
    BY <2>1, <2>2 DEF Steady, LoadInv, Reports, MaybeFile, NamesAreOfTheCode
<1>2. CASE Disassemble(pane, f)
  <2>1. /\ PaneInv(pane') /\ Steady(pane, pane')
        /\ report'.code = f /\ report'.names \in {None, f}
        /\ report' \in Reports
    BY <1>2, DisassembleGives DEF Reports
  <2>2. listing' = listing
    BY <1>2 DEF Disassemble
  <2> QED
    BY <2>1, <2>2 DEF Steady, LoadInv, NamesAreOfTheCode
<1>3. CASE AnalyserTraps("disasm", pane, f) \/ ReadBackTraps("disasm", pane, f)
  <2>1. pane \in Panes /\ (pane.mod => pane.known) /\ SlotsAgree(pane)
        /\ (pane.xrefs # None => pane.key = Key[pane.xrefs])
    BY DEF PaneInv, Keyed
  <2>2. Asked("disasm", pane).mod = pane.mod
    BY <2>1 DEF Panes, Asked
  <2>3. pane.mod
    BY <1>3, <2>2 DEF AnalyserTraps, ReadBackTraps
  <2>4. PaneInv(pane') /\ pane'.known /\ pane'.mod
    BY <1>3, <2>1, <2>3, TrapsGive DEF Modules
  <2>5. listing' = listing /\ report' = report
    BY <1>3 DEF AnalyserTraps, ReadBackTraps
  <2>6. far = "ready"
    BY <2>3 DEF LoadInv
  <2> QED
    BY <2>4, <2>5, <2>6 DEF LoadInv, Loading, NamesAreOfTheCode
<1> QED
  BY <1>1, <1>2, <1>3 DEF Serve

LEMMA NewStateGives ==
    ASSUME PaneInv(pane), NEW mod \in BOOLEAN
    PROVE  LET q == NewState(pane, mod)
           IN  /\ q \in Panes /\ q.known /\ q.rows = None /\ q.xrefs = None
               /\ q.mod = mod /\ ~q.host
               /\ q.painted = pane.painted /\ SameSlots(pane, q) /\ SlotsAgree(q)
BY DEF PaneInv, Keyed, Panes, NewState, MaybeFile, SlotsAgree, SameSlots

LEMMA ToolsInvInductive ==
    ASSUME KeysDiffer, ToolsInv, [ToolsNext]_pageVars
    PROVE  ToolsInv'
<1>1. /\ ViewerInv /\ PaneInv(pane) /\ LoadInv(pane, phase["analysis"])
      /\ phase \in [Modules -> Phases] /\ button \in [Modules -> BOOLEAN]
      /\ listing \in MaybeFile /\ report \in Reports
      /\ NamesAreOfTheCode /\ ButtonTellsLoading
  BY DEF ToolsInv
<1>2. pane \in Panes /\ Keyed(pane)
  BY <1>1 DEF PaneInv, Keyed
<1>3. picked.file \in MaybeFile
  BY <1>1 DEF ViewerInv, ViewerTypeOK, MaybeFile
<1>4. ASSUME UNCHANGED viewerVars PROVE ViewerInv'
  BY <1>1, <1>4, ViewerInvInductive
<1>5. CASE ViewerNext /\ UNCHANGED toolVars
  <2>1. ViewerInv'
    BY <1>1, <1>5, ViewerInvInductive
  <2> QED
    BY <1>1, <1>5, <2>1
    DEF toolVars, ToolsInv, NamesAreOfTheCode, ButtonTellsLoading
<1>6. ASSUME NEW m \in Modules, StartLoad(m)
      PROVE  ToolsInv'
  <2>1. /\ phase' = [phase EXCEPT ![m] = "fetch"]
        /\ button' = [button EXCEPT ![m] = FALSE]
        /\ UNCHANGED <<listing, report>> /\ UNCHANGED viewerVars
        /\ phase[m] # "ready"
    BY <1>6 DEF StartLoad
  <2>2. /\ phase' \in [Modules -> Phases] /\ button' \in [Modules -> BOOLEAN]
        /\ ButtonTellsLoading'
    BY <1>1, <2>1 DEF Phases, Loading, ButtonTellsLoading
  <2>3. PaneInv(pane') /\ LoadInv(pane', phase'["analysis"])
    <3>1. CASE m = "analysis"
      <4> DEFINE q == NewState(pane, FALSE)
      <4>1. /\ q \in Panes /\ q.known /\ q.rows = None /\ q.xrefs = None
            /\ q.mod = FALSE /\ ~q.host
            /\ q.painted = pane.painted /\ SameSlots(pane, q) /\ SlotsAgree(q)
        BY <1>1, NewStateGives
      <4>2. pane' = q
        BY <1>6, <3>1 DEF StartLoad
      <4>3. phase["analysis"] # "ready" /\ phase'["analysis"] = "fetch"
        BY <1>1, <2>1, <3>1
      <4> HIDE DEF q
      <4> QED
        BY <1>1, <4>1, <4>2, <4>3
        DEF PaneInv, Keyed, RowsAgree, PaintAgrees, SameSlots, LoadInv, Loading
    <3>2. CASE m # "analysis"
      <4>1. pane' = pane /\ phase'["analysis"] = phase["analysis"]
        BY <1>1, <1>6, <2>1, <3>2 DEF StartLoad, Modules
      <4> QED
        BY <1>1, <4>1
    <3> QED
      BY <3>1, <3>2
  <2> QED
    BY <1>1, <1>4, <2>1, <2>2, <2>3 DEF ToolsInv, NamesAreOfTheCode
<1>7. ASSUME NEW m \in Modules, LoadStep(m) \/ LoadFails(m)
      PROVE  ToolsInv'
  <2>1. /\ UNCHANGED <<pane, listing, report>> /\ UNCHANGED viewerVars
        /\ phase[m] \in Loading
    BY <1>7 DEF LoadStep, LoadFails, Loading
  <2>2. \/ /\ phase' \in {[phase EXCEPT ![m] = "body"], [phase EXCEPT ![m] = "compile"]}
           /\ button' = button
        \/ /\ phase' = [phase EXCEPT ![m] = "off"]
           /\ button' = [button EXCEPT ![m] = TRUE]
    BY <1>7 DEF LoadStep, LoadFails
  <2>3. /\ phase' \in [Modules -> Phases] /\ button' \in [Modules -> BOOLEAN]
        /\ ButtonTellsLoading'
    BY <1>1, <2>1, <2>2 DEF Phases, Loading, ButtonTellsLoading
  <2>4. LoadInv(pane, phase'["analysis"])
    BY <1>1, <2>1, <2>2 DEF LoadInv, Loading, Modules
  <2> QED
    BY <1>1, <1>4, <2>1, <2>3, <2>4 DEF ToolsInv, NamesAreOfTheCode
<1>8. ASSUME NEW m \in Modules, LoadEnds(m)
      PROVE  ToolsInv'
  <2>1. /\ phase[m] = "compile"
        /\ phase' = [phase EXCEPT ![m] = "ready"]
        /\ button' = [button EXCEPT ![m] = TRUE]
        /\ UNCHANGED viewerVars
        /\ Serve(m, IF m = "analysis" THEN SelfTested(pane) ELSE pane, picked.file)
    BY <1>8 DEF LoadEnds
  <2>2. /\ phase' \in [Modules -> Phases] /\ button' \in [Modules -> BOOLEAN]
        /\ ButtonTellsLoading'
    BY <1>1, <2>1 DEF Phases, Loading, ButtonTellsLoading
  <2>3. CASE m = "analysis"
    <3> DEFINE p == SelfTested(pane)
    <3>1. pane.known /\ pane.rows = None
      BY <1>1, <2>1, <2>3 DEF LoadInv, Loading
    <3>2. /\ p \in Panes /\ p.known /\ p.rows = None /\ SlotsAgree(p)
          /\ p.xrefs # None => p.key = Key[p.xrefs]
      BY <1>2, <3>1 DEF Panes, Keyed, SelfTested, SlotsAgree
    <3>3. Serve("analysis", p, picked.file)
      BY <2>1, <2>3
    <3> HIDE DEF p
    <3>4. /\ PaneInv(pane') /\ pane'.known /\ pane'.mod
          /\ listing' \in MaybeFile /\ report' = report
      BY <1>1, <1>3, <3>2, <3>3, ServeAnalysis
    <3>5. phase'["analysis"] = "ready"
      BY <1>1, <2>1, <2>3
    <3>6. LoadInv(pane', phase'["analysis"])
      BY <3>4, <3>5 DEF LoadInv, Loading
    <3> QED
      BY <1>1, <1>4, <2>1, <2>2, <3>4, <3>6 DEF ToolsInv, NamesAreOfTheCode
  <2>4. CASE m = "disasm"
    <3>1. Serve("disasm", pane, picked.file)
      BY <2>1, <2>4
    <3>2. /\ PaneInv(pane') /\ LoadInv(pane', phase["analysis"])
          /\ listing' \in MaybeFile /\ report' \in Reports /\ NamesAreOfTheCode'
      BY <1>1, <1>3, <3>1, ServeDisasm
    <3>3. phase'["analysis"] = phase["analysis"]
      BY <1>1, <2>1, <2>4 DEF Modules
    <3> QED
      BY <1>4, <2>1, <2>2, <3>2, <3>3 DEF ToolsInv
  <2> QED
    BY <2>3, <2>4 DEF Modules
<1>9. ASSUME NEW m \in Modules, ServeAgain(m)
      PROVE  ToolsInv'
  <2>1. /\ phase[m] = "ready"
        /\ UNCHANGED <<phase, button>> /\ UNCHANGED viewerVars
        /\ Serve(m, IF m = "analysis" THEN NewState(pane, TRUE) ELSE pane, picked.file)
    BY <1>9 DEF ServeAgain
  <2>2. CASE m = "analysis"
    <3> DEFINE p == NewState(pane, TRUE)
    <3>1. p \in Panes /\ p.known /\ p.rows = None /\ p.xrefs = None /\ SlotsAgree(p)
      BY <1>1, NewStateGives
    <3>2. Serve("analysis", p, picked.file)
      BY <2>1, <2>2
    <3> HIDE DEF p
    <3>3. /\ PaneInv(pane') /\ pane'.known /\ pane'.mod
          /\ listing' \in MaybeFile /\ report' = report
      BY <1>1, <1>3, <3>1, <3>2, ServeAnalysis
    <3>4. LoadInv(pane', phase'["analysis"])
      BY <2>1, <2>2, <3>3 DEF LoadInv, Loading
    <3> QED
      BY <1>1, <1>4, <2>1, <3>3, <3>4
      DEF ToolsInv, NamesAreOfTheCode, ButtonTellsLoading
  <2>3. CASE m = "disasm"
    <3>1. Serve("disasm", pane, picked.file)
      BY <2>1, <2>3
    <3>2. /\ PaneInv(pane') /\ LoadInv(pane', phase["analysis"])
          /\ listing' \in MaybeFile /\ report' \in Reports /\ NamesAreOfTheCode'
      BY <1>1, <1>3, <3>1, ServeDisasm
    <3> QED
      BY <1>1, <1>4, <2>1, <3>2 DEF ToolsInv, ButtonTellsLoading
  <2> QED
    BY <2>2, <2>3 DEF Modules
<1>10. CASE UNCHANGED pageVars
  BY <1>1, <1>4, <1>10
  DEF pageVars, toolVars, ToolsInv, NamesAreOfTheCode, ButtonTellsLoading
<1> QED
  BY <1>5, <1>6, <1>7, <1>8, <1>9, <1>10 DEF ToolsNext, LoadProceeds

LEMMA ToolsInvInitially == ToolsInit => ToolsInv
<1> SUFFICES ASSUME ToolsInit PROVE ToolsInv
  OBVIOUS
<1>1. ViewerInv
  BY ViewerInvInitially DEF ToolsInit
<1>2. /\ phase = [m \in Modules |-> "off"] /\ button = [m \in Modules |-> TRUE]
      /\ pane = Bare /\ listing = None /\ report = [code |-> None, names |-> None]
  BY DEF ToolsInit
<1>3. Bare \in Panes
  BY DEF Bare, Panes, Painted, NotPainted, MaybeFile
<1>4. PaneInv(pane) /\ LoadInv(pane, "off")
  BY <1>2, <1>3, Names
  DEF Bare, PaneInv, Keyed, SlotsAgree, RowsAgree, PaintAgrees, NotPainted,
      LoadInv, Loading
<1>5. /\ phase \in [Modules -> Phases] /\ phase["analysis"] = "off"
      /\ button \in [Modules -> BOOLEAN] /\ ButtonTellsLoading
  BY <1>2 DEF Modules, Phases, Loading, ButtonTellsLoading
<1>6. report \in Reports /\ listing \in MaybeFile /\ NamesAreOfTheCode
  BY <1>2 DEF Reports, MaybeFile, NamesAreOfTheCode
<1> QED
  BY <1>1, <1>4, <1>5, <1>6 DEF ToolsInv

(* Whatever is picked, loaded, run again or trapped in between, the state  *)
(* of the two modules keeps to one file in each of its parts.              *)
THEOREM ToolsInvHolds ==
    ASSUME KeysDiffer
    PROVE  ToolsSpec => []ToolsInv
<1>1. ToolsInv /\ [ToolsNext]_pageVars => ToolsInv'
  BY ToolsInvInductive
<1> QED
  BY ToolsInvInitially, <1>1, PTL DEF ToolsSpec

(* The state of the tool rows keeps its shape.                             *)
THEOREM ToolsTypeCorrect ==
    ASSUME KeysDiffer
    PROVE  ToolsSpec => []ToolsTypeOK
<1>1. ToolsInv => ToolsTypeOK
  BY DEF ToolsInv, ToolsTypeOK, PaneInv, Keyed, Reports
<1> QED
  BY ToolsInvHolds, <1>1, PTL

(* A disassembly is never named out of another file's index: the name pass *)
(* re-reads the file whose code it annotates.                              *)
THEOREM NamesAlwaysOfTheCode ==
    ASSUME KeysDiffer
    PROVE  ToolsSpec => []NamesAreOfTheCode
<1>1. ToolsInv => NamesAreOfTheCode
  BY DEF ToolsInv
<1> QED
  BY ToolsInvHolds, <1>1, PTL

(* Wherever a call of the analyser is cut off, its slots are of one file;  *)
(* and the page's rows and the instance's names are, once it has answered. *)
THEOREM RowsAndNamesAlwaysAgree ==
    ASSUME KeysDiffer
    PROVE  ToolsSpec => []RowsAndNamesAgree
<1>1. ToolsInv => RowsAndNamesAgree
  BY DEF ToolsInv, PaneInv, SlotsAgree, RowsAgree, RowsAndNamesAgree
<1> QED
  BY ToolsInvHolds, <1>1, PTL

(* The painted box is one file's - provided the key the page compares      *)
(* tells its files apart, which a name and a length do not promise.        *)
THEOREM PaintedAlwaysOneFile ==
    ASSUME KeysDiffer
    PROVE  ToolsSpec => []PaintedIsOneFile
<1>1. ToolsInv => PaintedIsOneFile
  BY DEF ToolsInv, PaneInv, PaintAgrees, PaintedIsOneFile
<1> QED
  BY ToolsInvHolds, <1>1, PTL

(* A button is dead exactly while its module is on the way.                *)
THEOREM ButtonAlwaysTells ==
    ASSUME KeysDiffer
    PROVE  ToolsSpec => []ButtonTellsLoading
<1>1. ToolsInv => ButtonTellsLoading
  BY DEF ToolsInv
<1> QED
  BY ToolsInvHolds, <1>1, PTL
=============================================================================
