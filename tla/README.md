# Verification of wasm-binary-formats

TLA+ models of the program in this repository, model-checked with TLC and, for
the results that matter most, proved with TLAPS. Every definition is
translated from the source; `PROJECT.json` names the lines each one stands for.

## 1. The system

A browser page (`demo/index.html`) opens files a visitor picks and shows what
they contain. It runs everything on one thread, over three WebAssembly modules:

| part | source | state it keeps | operations |
|---|---|---|---|
| engine (`apk-lens.wasm`) | `engine/src/lib.rs`, `streams.rs`, readers | the held archive, one answer slot per reader, one last-error text | `open`, `count`, `entry`, `extract`, seven `parse_*`, getters |
| container readers | `engine/src/containers.rs` | kind and rows of the last container | some 45 format walks tried in order |
| documents, audio, dex, axml, pe, scan | `engine/src/*.rs` | a slot each | one parse each |
| page, file half | `demo/index.html` 1314-1750 | picked file, entry list, marked item, viewer, object URLs, status line | change event, `openFile` after its await, click on an entry, script box |
| page, tool half | `demo/index.html` 75-293, 1085-1310 | load state, analyser state, kept edges, painted lists, reports | `loadModule` over three awaits, `analysisRows`, `paintRegions`, `disassembleHere` |
| analyser (`apk-lens-analysis.wasm`) | `analysis/src/lib.rs` | nineteen thread-local lists, all of the file analysed last | `analyse_run`, `name_at`, getters |
| demangler | `analysis/src/demangle.rs` | none | one recursive descent |
| disassembler (`apk-lens-disasm.wasm`) | `disasm/shim.c` | one row buffer shared by all passes | `disasm_run`, `_xrefs`, `_funcs`, `_cfg` |
| fixture scripts | `scripts/make-*-fixtures.py` | scratch directory, fixtures and probes under `test/` | build, read, have witnesses read, compare, publish |
| command-line tools, catalogue, tests | `tools`, `catalog`, `test`, `*/tests` | - | one-shot reports, data, statements of what is promised |

How they interact. The page calls the modules synchronously and reads answers
through getters, so an answer is as good as the slot behind it. The page itself
is cut into tasks by its awaits: `file.arrayBuffer()` in `openFile`; `fetch`,
the body and `WebAssembly.compile` in `loadModule`. Between two tasks anything
else may run: another pick, a click, the other row. The modules are built with
`panic = "abort"`: a panic traps the call, the page's `catch` (or nothing, in
a click listener) sees it, and the instance lives on as it stood, a `RefCell`
borrow included.

The other large part of the repository never ships: some fifty Python scripts that
make the corpus the readers are tested against. Each builds files with somebody
else's tool, reads them with a walk of its own, has independent programs (the
witnesses: readelf, llvm-readobj, pyelftools, ...) read them too, compares, and
writes fixtures and a probe, the rows a reader must report. They share three
places: a scratch directory that git ignores, the fixtures, which other scripts
may borrow, and the probe beside them. A wrong probe makes the readers wrong
with every test green.

What is hard here: opens that overlap and settle in any order; state kept on
one side (rows, edges, list) that describes the file of another moment than
the state on the other side (index, slot, archive); failures half way; tables
in hostile files that overlap, nest or point outside; fixed buffers with
several guards; scripts that are cut off, refused, pulled over or run next to a
neighbour; walks that must either account for all of a file or say they did not;
three readings of which one may be wrong. `PROJECT.json` lists each of these at its line.

What correct means, per part:

- engine: a getter answers for the buffer its reader was asked about last;
- page, file half: the list names what a click extracts; the status line is
  true; an open ends in one of the outcomes a visitor may expect;
- page, tool half: code, names, edges, rows and painted lists are of one file;
  a row's button comes back;
- colour map: the rows tile the file, the totals add up, the colours are true;
- disassembler: rows fit the buffer, blocks and functions partition the code,
  edges follow it, what is cut is said to be cut;
- fixture scripts, as programs on files: a finished run's probe is of the fixtures
  that lie there, whatever happened before; careful scripts publish nothing
  unchecked; a script that rebuilds gets past any leftovers;
- fixture scripts, as readers: what a linker or encoder wrote is accepted whole, and
  what is accepted is accounted for to the last word, byte, sector or column.

## 2. Modules

| module | models |
|---|---|
| `Engine` | the C ABI as maps from the engine's state before a call to its state after it |
| `EngineCalls` | the engine under any caller (extends `Engine`) |
| `Viewer` | the file half of the page (extends `Engine`, which a page task chains) |
| `Browsing` | abstract specification: what the page promises someone who opens one file after another |
| `ViewerPromise` | the refinement mapping from `Viewer` to `Browsing` |
| `Tools` | the two loaded modules and their rows (extends `Viewer`: the file half runs beside it) |
| `RegionMap` | the merge loop of `map_rows` |
| `Disasm` | the four passes of `disasm/shim.c` over one row buffer |
| `Corpus` | one fixture script and its corner of the corpus: its operations on files, crashes, refusals, pulls, neighbours |
| `CorpusScripts` | each script's program, the sequence of its operations on files |
| `CorpusPictures` | a program followed for one file at a time without running it: what may be known of the file at each operation |
| `Readers` | a file of some format, up to a few damaged fields, and the walks below over it |
| `HashTables`, `SymbolVersions`, `Notes`, `ElfLayout` | the ELF walks of the hash, symver, note and other scripts |
| `Picked` | how those readings keep some records of a table, in order |
| `Boxes` | the walks over length-prefixed pieces: jp2, heif, wide boxes, DER, OpenPGP, EMF |
| `CompoundFile` | the sector chains and directory of compound files |
| `Agreement`, `AgreementPe`, `AgreementData` | which columns of which readings each script compares, which it publishes, and which of those rest on one word |
| `AgreementTables` | the twenty-seven scripts' tables side by side |
| `MC...` | small instances for TLC |
| `...Proofs` | theorems and proofs |

Correspondence. In `Viewer` one action is one page task. `PickFile` is all of
`openFile` before its await, `ReadSettles` the task that resumes, split by the
place it returns at (`OpenHeader`, `OpenRefused`, `OpenListing`, `OpenPage`,
`OpenStructure`, `ReadFails`, `OpenTraps`); `ClickEntry` is the listener, with
all of `show`. A ticket is one call of `openFile` that waits; `Tickets` bounds
how many wait at once. The engine's calls a task makes are composed in their
order (`Classified` is `open` then `parse_document`; `StructureOf` asks the
four readers in the page's order until one answers). `picked.structure` is the
note `showStructure` leaves for the disassembler. A trap comes at any of the engine
calls of a task, with the state that the calls before it left: at the header reader of a
program (`HeaderReader`), at `open`, `parse_document` or `entry` (`TrapPoints`), at each reader
`StructureOf` asks (`StructureStages`); under a click at `extract`, or behind it, when `show` has
emptied the viewer and released the object URLs (`ShowTraps`, `ShowTrapsLate`).

In `Tools` the pane is the analyser's `toolState` together with what its
thread-locals describe (`names` for `NAMES`, `lists` for all others) and what is painted. The functions of the
page are maps on the pane, composed as the page composes them; `StartLoad` is
the click up to `fetch`, `LoadStep` the inner awaits, `LoadEnds` the last
await with everything after it (the self-test, which analyses a sample of its
own, included), `LoadFails` the catch, `ServeAgain` a later click. `analyse` may be cut off
before it clears its slots, when they are empty, when the file's rows are stored, or behind
`NAMES` (`CutOff`: `analysis/src/lib.rs:404` comes before `map_rows`, the strings and the
listing). The page renews its rows only when the call has returned, so the last of these
leaves the new file's names beside the old file's rows until `analyse` answers again. What is
promised there is said with `cut`, a history variable: the instance's own slots are never
of two files, and rows and names are of one file as soon as a call has answered. The new names
cannot label other code: the name pass re-reads the file before it looks anything up.
`ReadBackTraps` is a trap in the getters after `analyse` answered: the box is emptied before it
is filled. One in `name_at` leaves `NAMES` borrowed, so that later calls trap too before they
change anything, which `CutOff` has as its first outcome.

In `RegionMap` one action is one turn of the loop, by the way it leaves it.

In `Disasm` one action is one pass. A window comes as the instructions
Capstone decodes it to (`Insns`: place, size, what `terminator` says, the
immediates and RIP-relative operands `collect` finds). `Remembered` is the
capped list of addresses `remember` builds, `Starts` the sorted call targets,
`Blocks` the runs between two places where one closes, `AllEdges` the arrows in
the order they are added. `Fill` is a loop that stops at its distance from the
end of the buffer, `Close` the cut and summary rows written without asking;
each pass is an expression over these, with the caps as constants.

In `Corpus` one action is one operation of the running script: emptying or
making the scratch directory, a write (opened first, so that a crash between
the two leaves half a file), a branch on a file being there or a tool being
installed, a witness, a check, the probe. `Programs` holds what a script does
with files in its order; a script with several modes has several programs. The
bytes of a file are the time they were made, which is all that the properties tell
apart; `checked` and `seen` are history. `Crashes`, `Refuses` and `Sticks` are the three
ways a run ends early: cut off, a `SystemExit` the script raises, and an
exception nobody wrote a message for. A torn file is taken to be noticed by
whatever reads it.

In `Boxes` a cell is a few bytes: a short header takes two, a wide one four. Where a walk skips
bytes of a holder's own before its children, so does the model: in `heif` four bytes behind
the header of a `meta` box are one cell, six of an `iinf` box are taken for two (`Containers`).
A length of zero is looked for where each script looks: before the wide length (`heif`, `wide`:
`BoxSize`) or after it (`jp2`: `Jp2Size`).

`Readers` starts from a file as a linker or an encoder would write it (`Linked...`,
`Written` in the instance) and lets up to `MaxDamage` of its fields take another
value: the environment, a torn copy or another version of the tool. The walks are
functions of the file, translated turn by turn, so each property is about what
they accept.

In `Agreement` a check is the set of pairs (reading, reading, column) it compares,
read off its `if`s and loops; a misreading is one (reading, column) that is wrong;
a script's check passes when each pair agrees, which two readings that are wrong in the same
column may do (a value is right or wrong, and two wrong ones are taken to be able to match). What is
compared only sometimes - a number readelf prints in words, a line a witness does not print, a
value that only one kind of fixture has - is a column of its own, on one word. A test
that a value occurs in what a witness printed counts as a comparison, since a wrong value fails
it, except where the text searched is so long that it would not (the names of `der`).

## 3. Runs

| run | instance | shows |
|---|---|---|
| `engine` | three buffers: empty, a document package, a gzip stream; any calls | `SlotsAnswerLastQuestion` for every reader but the stream one |
| `engine_stream` | the same | finding: the stream reader keeps a stale kind |
| `viewer_sequential` | five files, seven members, one open at a time, failing reads and traps anywhere | `KeepsPromise` (refinement with liveness), `BlobOnlyWhileShown`, `ViewerFollowsMark` |
| `viewer_overlap` | four files, two opens in flight, failing reads | `EntriesMatchArchive`, `ReadingMeansWaiting`, `ReasonIsAboutTheBytes`, `ReadingEnds` |
| `tools` | an executable, a COFF object, an object for another machine, bytes that are no object; failing loads, traps of the analyser | `NamesAreOfTheCode`, `PaintedIsOneFile`, `RowsAndNamesAgree`, `ButtonTellsLoading`, `LoadingEnds` |
| `region_map` | every list of up to three ranges over files of up to four bytes | `MapTiles`, `TotalsAddUp`, `ColoursAreTrue` |
| `region_truncated` | up to two ranges, three bytes | finding: a range past the end breaks the tiling |
| `disasm` | every window of up to three instructions of any kind, up to five of five kinds, at 0 and at 4 | `RowsFit`, `EveryFunctionListed`, `BlocksAreStraightRuns`, `OwnersCountTheirBlocks`, `GraphIsOfTheCode`, `DegreesTellReach` |
| `disasm_rows` | up to five instructions, a buffer of five rows | finding: the summary of the references can lie behind the buffer |
| `disasm_zero` | two instructions at address 0 | finding: no arrow to the first block |
| `corpus` | every script, any three runs, pulls or neighbours' rewrites; `PicturesAssumption` on every program | `ProbeTellsTheCorpus`, `OneReadingElsewhere`, `PublishedAreChecked`, `RebuildingNeverSticks` |
| `readers` | files of seven formats, whole and with one or two fields changed; twenty-seven scripts with up to two misreadings | `LinkersTablesClose`, `ClosedTablesFindEveryName`, `VersionsWholeOrRefused`, `SymbolsKeepTheirVersion`, `NotesAccountedFor`, `HeadersReadAlike`, `CleanWalksTile`, `CompoundStreamsStandAlone`, `MisreadingsStayOut` |

Bounds and why they are enough. An engine slot depends on two buffers at most:
one recognised and one refused, and an empty one for the early return. An
overlap needs two opens; a third only repeats one of the two. The viewer's
files are one per way through `openFile` and its members one per way through
`show`, with a page whose sibling is sound and one whose sibling is broken.
The tool rows tell apart files that are analysable or not, whose code comes
from the panel or the rows, and that decode or not; the engine does not trap in that run, since
all a trap of it leaves to the rows is a picked file without a structure, like the executable's. A turn of the merge loop
looks at one range, the cursor and one gap: two ranges give every overlap and
three a range after an overlap; the offsets go one past the end. The
disassembler's caps (9 rows, 4 targets, 5 blocks, 3 functions, 6 edges) are
small enough that windows of five instructions meet each of them, alone and
together; targets fall on the entry, on instructions, between the bytes of
one, behind the last decoded one and outside the window, and decoding may end
before the window does.

In `corpus`, `MaxClock` is 3: a run that is cut off, something that happens to the
fixtures between runs, and the run that has to cope with both; a fourth
event repeats one of these. In `readers`, names number two or three and buckets one
or two, so chains share buckets and buckets are empty; words are 0..4, `HighBit`
is 8 where the source has bit 15 (`SymbolVersions`), a sector holds four words (`PerSector`)
so that a table takes two sectors, `MaxHops` and `MaxDepth` stop walks that turn
on themselves. One changed field breaks a link, two can
break a link and the count that would have told (`DamageBound`). The words of a
Bloom mask are taken to let every hash through.

Fairness. `ReadSettles(t)` and `LoadProceeds(m)` are weakly fair: a browser
settles every `arrayBuffer()`, `fetch` and compilation it was asked for, with
a value or a rejection. Nothing the visitor does is fair. `ViewerSpec` and
`ToolsSpec` deadlock nowhere; the region runs stop when the map is done, so
they do not check deadlock. The passes of `Disasm` are calls on demand, so
nothing is said of when they happen; the same goes for the scripts, which someone
runs by hand. `Corpus` stops when its clock does and `Readers` when the damage is
done, so neither checks deadlock.

## 4. Proofs

Checked by TLAPS, for every value of the constants under the modules' named
assumptions.

- `EngineCallsProofs`: type correctness and `SlotsAnswerLastQuestion`.
  The latter is inductive with the types: a call touches one slot, and what is
  believed of a reader (`heard`) changes with it. `EngineProofs` holds the
  lemmas on single calls that the page's proofs cite too.
- `PageProofs`, the file half: the invariant `ViewerInv` (types, and the held archive is one
  of the files) and from it `ReadingMeansWaiting` and `ReasonIsAboutTheBytes`, without
  further assumptions, and `EntriesMatchArchive` under `NoTraps` (`"trap" \notin Faults`):
  with traps it is false (two opens in flight; the second traps after `open`).
  `ReasonIsAboutTheBytes` holds although a refusing stream reader leaves old words
  (finding 1): `ParsedBlames` and `StructureOfBlames` say that the words left after all
  four readers are still `open`'s about the same bytes, or one of theirs.
- `PageProofs`, one open at a time: under `OneAtATime` (at most one ticket) every step of
  the page is a step of `Browsing` or a stutter. Why one ticket: with two, the
  file worked on need not be the one named. Under the same condition
  `BlobOnlyWhileShown` and `ViewerFollowsMark`, from `MarkInv` (nothing is marked
  without a list, no object URL is alive while an open waits). With two tickets neither
  holds: the second open settles over an image, or beside an item marked since.
- `PageProofs`, the tool half: the inductive invariant `ToolsInv`. What makes the properties
  inductive is `PaneInv`: edges have the key of the file they were read from (`Keyed`), the
  instance's slots are of one file at every moment (`SlotsAgree`), and unless a call of the
  analyser was cut off since it last answered, the page's rows are of that file (`RowsAgree`)
  and the painted box is of one (`PaintAgrees`). `KeysDiffer` (different files have different
  keys) is assumed of the invariant, for the sake of `PaintedIsOneFile`: a key is a name and a
  length (`demo/index.html`, `pickedKey`), so a file rebuilt under its name at the same
  size would inherit the edges read from the one before it.
- `RegionMapProofs`: while walking, and after it if every range fits in the
  file, the rows tile the file up to the cursor and the totals add up to it;
  at the end the cursor is the file's length. `MapTiles` and `TotalsAddUp`
  follow. `ColoursAreTrue` holds for every file, truncated ones included: each
  row is true when it is written, and no range already passed reaches behind
  the cursor.
- `DisasmProofs`: `RowsFit` from lemmas on `Fill` and `Close`, and what an uncut
  answer of the function pass holds: `EveryFunctionListed`,
  `BlocksAreStraightRuns`, `OwnersCountTheirBlocks`; and of an uncut answer of the graph
  pass `GraphIsOfTheCode` and `DegreesTellReach`. The rows are a function of
  window and pass, so `DisasmInv` is inductive at once and the work is in that
  function: `AscendingSorts` (sorting a finite set of addresses lists it, in
  order; by counting smaller members, with no induction), `Least`, which stands
  in for induction, `InOrder` (instructions never overlap), `BlockAround` and
  `BlockOpen` (each instruction is in one block, which nothing closes early),
  `OwnerIs` (the two ways the pass finds the function of an address agree). For the graph,
  `EdgesAre` says which edges the pass adds (jumps to the start of a block, falls past an
  end that goes on), `ArrowsAreFlow` that these are the steps of the instructions, and
  `CfgWhole` that an uncut answer has them all, with degrees that count them.
  Assumed (`DisasmAssumption`): windows decode to instructions one behind the
  other, caps are positive, the buffer has at least four rows.
- `CorpusProofs`, for any programs and any number of runs, crashes, half-written files,
  pulls and rewrites: type correctness (`CorpusAlwaysTyped`: no skip leaves the program, no
  operation reads a place that is not the script's), `ProbesAlwaysTellTheCorpus`,
  `ProbesAlwaysOfOneReading`, `CarefulScriptsPublishChecked` and
  `RebuildingScriptsNeverStick`. They rest on the programs' text, followed for one file at
  a time and without crashes, clock or other files (`CorpusPictures`). A picture says of
  which making the file is in each place, by where the run has it from: made in this run,
  found among the fixtures when it began, left in scratch by an earlier one, absent, torn.
  `Follow` says that a table of pictures per operation holds those a run begins with and is
  closed under what the operations do; what all pictures of an operation agree on is then
  a condition on the text: `EndsTold` (the rows are of what lies among the fixtures at the
  end, and checked), `ReadAsOne`, `ChecksFirst`, `Rebuilds`. `PicturesAssumption` states
  the four for the scripts concerned. The table is a constant with this assumption since
  computing it is a recursion over the program; the instance computes it by a fold, so TLC
  checks the assumption for every program of every script. The invariant `PictureInv`
  carries pictures over to bytes: each file of a run fits one of the pictures of its
  operation under a legend of what the marks stand for (`Pictured`), or its `Midway` while
  a file is half written, when no operation but the write can go on; and what the run
  borrows is whole and checked (`LentWhole`). `FileOverStep` follows one file over any
  operation, `FileOpened` through the opening of a write, `Onward` over a branch, and
  `BeginsPictured` fits a file to a beginning after whatever crashes, pulls and neighbours did.
- `ReadersProofs`, for files of any length and any number of changed fields: `FilesStand` (a
  file stays one of its format, and as it was written while nothing has changed) is
  inductive, and the work is in the walks, which are recursive functions. The library's
  induction theorems are out of the provers' reach, so induction is done over sets: a set
  that holds 0 and, up to a bound, the successor of each member holds every number up to it
  (`Upward`, from the least member of the complement). With it a run of n turns over
  the states of a walk exists (`Walks`) and the recursion's function is one (`Walked`).
  `ClosedTablesAlwaysFindEveryName`: a lookup goes where the sweep of the name's bucket went
  (`LooksAlong`), and what a sweep reached without a wrong word carries its own name's hash
  (`ReachedSoundly`). `LinkersTablesAlwaysClose`: the words of a section as written are read
  back as the heads and the chain words that were laid down (`GnuReadsBack`,
  `SysvReadsBack`), from which a sweep has at every turn reached the members of its bucket
  up to where it stands (`SweepsOn`), so it reaches the bucket (`SweepsAll`), and the
  buckets share the symbols out: sweeps and symbols correspond one to one
  (`LaidDownCloses`). `NotesAlwaysAccountedFor`: a reading is a beginning of what was written
  (`ReadFromTheStart`), so one with as many notes is all of it; the entries of a chain in
  fours lie where the rounded reading looks (`InFours`, `ChainReadsOn`).
  `VersionsAlwaysWholeOrRefused`: distances are not negative and records lie one after the
  other (`RecordsClimb`, `NamesClimb`), so a walk either holds the first records as they
  were written or has left one out for good and can no longer reach as many as there are
  (`KeptOrLost`, `AsManyIsAll`); along a linker's own distances it reads all
  (`LinkedReadWhole`), and the invariant says that one change spares the distances or the
  count. `SymbolsAlwaysKeepTheirVersion` follows from the check. `MisreadingsAlwaysStayOut` is about
  the tables as they stand in `Agreement` and any number of misreadings at once, and assumes
  nothing: one lemma per script (`HashBacked` to `CfbBacked`) goes through what it publishes and
  finds, for each column that is not on one word, a comparison with another reading
  (`HeldSeen`), and for each that is, no comparison at all (`GivenSeen`); `EveryScriptBacked`
  gathers them.
  `HeadersAlwaysReadAlike`: the offset tables of the two classes differ only in the fields a
  reading leaves out, and two filters that pick a table's rows by the same numbers are the
  same sequence (`ElfLayout`'s `InOrder` and `Those`). Assumed of the instance
  (`HashFilesAssumption`, `VersionFilesAssumption`, `SymbolFilesAssumption`,
  `NoteFilesAssumption`, `ElfFilesAssumption`, `WordsAssumption`): files have the fields and
  numbers of their format, hash sections hold what `LinkedGnu` and `LinkedSysv` lay down
  (`LinkedHash`: at least one bucket, names sorted by bucket from the first hashed one on),
  version tables are laid out as `Linked` has it, notes end where their holder does,
  a symbol carries the word it was linked by, and the section that holds the names of the
  sections exists.
- `ContainerProofs`: `CleanWalksAlwaysTile`, for files of boxes, packets, values and records of any
  length and nesting, with any headers anywhere and any number of changed measures. These
  walks recurse into what they find, over places in no order known beforehand, so
  `Recursion` shows that a function exists that does at each place what the walk's turn says
  when every place it looks at has a smaller measure (what is left of the file), by
  joining, for each measure, what is done below it. A turn is then brought to one of two
  forms: a place gives a row and goes on behind it, and for a holder inside it too
  (`NestedTurnReads`: heif, der), or only behind it (`FlatTurnReads`: jp2, wide, pgp, emf). For each
  form, by that measure again: if nothing was broken at a place, the rows from there on are
  in file order, tile what is left, and holders are tiled by what is one deeper
  (`NestedWalkTiles`, `FlatWalkTiles`; the joining of rows is `JoinedFine`, `JoinedFlat`). The other
  half, that a file as written is walked without a complaint (`HeifEnds`, `TlvEnds`, `JpEnds`,
  `EmfEnds`, `WideEnds`, `PacketsEnd`), needs a file laid out for every length: `LaidOut` says
  of each header where the piece that holds it ends and how deep it is (`held`, which no
  walk reads), and that behind each piece another begins or its holder ends. Every place
  a walk then visits `Follows`. `KidsFound` compares `kids` with `tlvs`: the walk of one level
  gives exactly the rows that the nested walk has one deeper inside that holder (`KidsAlike`).
  Assumed (`BoxFilesAssumption`): headers and numbers of the format, laid out so.
- `ContainerProofs` too: `CompoundStreamsAlwaysStandAlone`, for compound files of any sectors,
  tables and directory, with any number of changed words and starts. A chain is read off its
  hops (`Hops`, each sector naming the next) up to the first place that stops it (`UntilIs`), so
  `OleBegins` compares two readers of one table: both hop alike, and a chain that was read to
  its end goes at least as far as olefile does. The walk counts a collision for every claim of a
  sector beyond the first, that is, claims less the sectors claimed; the count is nothing only
  if no two claims are of one sector (`CollisionsAre`, by the cardinality of an image), and
  `WalkClean` says what the six counts together exclude. From there `StreamsAlone`: a sector
  read twice, in one stream or in two, would be claimed twice. The other half, that a file as
  it was saved is accepted (`SavedAccepted`), needs such a file for every number of sectors:
  `Saved` says by which sectors its table of sectors, its directory, its table of small
  sectors and each entry go (`parts`, which no walk reads), that each of these chains leads along
  them to an end without a repetition (`Leads`), that entries share none and have as many as
  their sizes need. Chains then go along these paths (`HopsLead`, `ChainLeads`, `OleLeads`).
  Assumed (`CompoundFilesAssumption`): sectors and entries of the format, saved so.

Only model-checked: everything with liveness (`ReadingEnds`, `LoadingEnds`, the
fairness of `KeepsPromise`), which is out of the provers' reach. Every other property
of the passing runs is a theorem, under the conditions named above.

## 5. Findings

1. `streams::parse` refuses without clearing its slot (`engine_stream`).
2. A range that starts after a gap and runs past the end leaves two rows over
   the gap's bytes and counts them twice (`region_truncated`).
3. `disasm_xrefs` keeps one row in reserve and then writes up to two, a cut and
   a summary (`disasm_rows`).
4. `disasm_cfg` takes target 0 for no target, so in a window that begins at
   address 0 no arrow to its first block is drawn (`disasm_zero`).

## 6. What else the models say

The page. `picked` is the file whose read settled last, not the one picked last;
`viewer_overlap` has both orders, and what it checks is that list, archive
and status line stay with each other.

Fixture scripts as programs on files.

- `psd` calls its witnesses "two independent parsers over the same bytes"
  (`make-psd-fixtures.py:251`) and opens one of them on the scratch copy (`:260`). After a
  pull these can be two files. `OneReadingElsewhere` therefore excepts the scripts in `Apart`, of
  which this is the only one; for it `OneReading` does not hold.
- `RebuildingNeverSticks` leaves out fifteen scripts. Some keep a fixture once it exists
  (7z, der, demangle, import, psd, reloc), so one torn by a crash is never written again;
  `document` reads what is there, `image` and `pgp` have a mode that does nothing else;
  `dynamic` writes back libraries it borrowed from `symver` (`make-dynamic-fixtures.py:325`);
  `dotx`, `emf`, `ps` and `cfb` go on when a converter failed or is missing, with what
  lies there from before; `bmff-wide` saves a copy into a directory it does not make.
- `PublishedAreChecked` is claimed for the scripts that compare before they save. The
  others (arrow, parquet, coff, elf-reloc, segment, macho, avro, plist, icc, ...) save
  first or build into the corpus, so a refusal leaves an unchecked fixture; `ProbeTellsTheCorpus` still holds of
  them, because a refused run writes no probe.
- `image` and `pgp` write the probe before they copy the fixtures. A run that is cut off
  in between leaves a probe of bytes that are not there; `ProbeTellsTheCorpus` speaks
  of finished runs.

Fixture scripts as readers.

- `note` rounds the properties of a 64-bit file to four bytes, where such files
  align them to eight (`make-note-fixtures.py:286-293`; `analysis/src/lib.rs:3159-3182` rounds
  by class). `NotesAccountedFor` is about the notes, which both read alike.
- `symver` never compares the hidden bit, and a link changed together with the count
  that would have told passes: `VersionsWholeOrRefused` needs the count to be as written.
- `cfb` claims the sectors of streams, not those of the directory and the tables, so a stream
  over them is not reported; `CompoundStreamsStandAlone` is about streams and each other.
  That streams stand alone needs the walk's count of collisions only (`StreamsAlone`); what the
  comparison with olefile adds is that every byte a size states is there to be read.
- `jp2` drops what a nested walk finds broken, so `CleanWalksTile` speaks of its top level. Its
  "zero means to the end" is asked after the 64-bit length was read, so a wide box that states
  zero reaches to the end (`make-jp2-fixtures.py:42-47`); `heif` and `wide` refuse one.
- `heif` holders tile behind what they have of their own (`make-heif-fixtures.py:92`), not behind
  their header. `pgp` refuses a length in parts, and an empty file does not end (`:238-239`, `:277`).
- `hash` builds the count of tables it holds to llvm's listing from that listing (`:382`, `:490`),
  so the column is held to pyelftools only; `cfb` holds olefile's number of table sectors
  to the one the header states, not to the one its rows print.
- The numbers of relocation types are held only to pairing the same way with the
  names (`reloc`, `macho`, and the column types of `parquet`).

Columns a probe takes on one reading's word (`...OnOneWord` in the modules, beside the tables).
`MisreadingsStayOut` says two things: a wrong value in any other published column gets past only
if a second reading is wrong in the same column, and a wrong value in one of these gets past
by itself. So the list is neither too long nor too short for what the tables say:

| script | columns |
|---|---|
| hash | symbols, bits, names |
| symver | bits, local name, symbol hidden, def version, need flags, need version |
| note | bits, walked, place, namesz, type, prop type, prop bytes, prop value |
| dynamic | width, bits, segment, worded value, unquoted text |
| segment | bits, file size |
| elf_reloc | type, lone type name, unnamed symbol, symbolic, section, machine, bits, file size |
| export | offset, address, slot offset, slot section, characteristics, stamp, image base, file size |
| import | directory rva, directory size, directory offset, directory section, ilt absent, names from, stamp, chain, thunk, wide, plus, file size |
| resource | directory, machine, wide, identifier sort, quotes, type word, name word, other types, file size |
| version | string count, body size, block size |
| tls | directory offset, directory size, anonymous callback, placed offset, placed section |
| debug | other body, unterminated path, cv, directory rva, directory size, directory offset |
| reloc | type, type name, directory rva, directory size, directory offset, directory section, blocks, page, block size, fixup offset, fixup section, file size |
| image | string address, string section, elf address, unnamed region, regions, claimed, unloaded, string count, scanned, kind, name, load end, header fields, file size |
| macho | section offset, data kind, section segment, section word, unplaced symbol, type, local index, scattered, bits |
| coff | machine, characteristics, section header, headers, name offset, broken, symbol aux, file symbol, unlisted symbol, architecture, flags, aux, file size |
| codeview | records, header, index, member type, other kind, arguments, target, count, size, options, attributes, array, stream place, primitive, text, file size |
| pdb | free, directory, version, guid, features, first and last, has pdb, magic, type header, unprinted line and codeview's |
| heif | coded under a crop, other depths, boxes, brand, compat, handler, items, primary, descs, data, box, crop divisors, channels, lone colour, broken, frames, chroma, mimetype, file size |
| psd | version, reserved, depth, sections, resource label, resource place, compression, payload, cut document, tables, layer names, pillow mode, file size |
| pgp | packets, kind, format, ctb, unnamed tag, signature version, signature key, literal fields, descend, ends, flags, detail, printed, file size |
| arrow | at, field type, children, buffers, later codec, frame, dictionary, endianness, framing, ends, first and last bytes, footer place, footer version, footer field, dictionary size, all rows, version name, types, schema, file size |
| parquet | footer at, leaves, column type, column length, repetition, children, converted, encodings, unconfirmed nulls, min, max, file size |
| onnx | value name, first bytes |
| der | unprinted field, name value, name type, name count, tag, tag name, other value, name line, time line, point, end, file size |
| xsd | refused globals, refused target, pieces, imports, includes, annotations, unknown, nodes, forms, detail, doc, location, complaint, warnings, file size |
| cfb | fat sectors, version, difat sectors, directory sectors, mini fat sectors, all sectors, root, storage, start, where, sectors held, counts, collisions, hint, file size |

## 7. Not modelled

Rendering, wording, the rewriting of links and the sandboxing of frames; the
bytes of the formats the engine reads (a reader's verdict is a constant); memory
use, which only shows as a trap (one of `alloc` included, before the call it is for);
Capstone, and the mnemonics by which `disasm/shim.c:478-481` tells a jump that always goes
(`Disasm` takes `cond` as given); the command-line tools and shell or JavaScript helpers,
which keep nothing between runs; the catalogue; the tests, which are read as statements of
what is promised.

Of the fixture scripts: the decoding of fields in the walks not named above (PE
directories, Mach-O, CodeView, PSD, Arrow, Parquet, ONNX, Avro, property lists,
colour profiles); the parsers of the witnesses' listings, which are taken to say
what the witness read; scripts that merely record what a library says (netpbm, font,
icon, ...) have their programs in `CorpusScripts` and nothing in `Readers`.

Of the analyser and the engine: the readers themselves, name index, string runs and
demangler. Their field-by-field decoding is what the corpus tests; what a model adds
is termination and containment of the walks, and for the formats above the scripts' walks,
which the readers are held against, are modelled in their place.

## 8. Plan

Order: what the visitor can be told wrongly first, then what decides whether the tests
mean anything, then what a hostile file can do to a walk.

1. Done: engine, file half, tool half, colour map.
2. Done: `Disasm`.
3. Done: `Corpus` with all fixture scripts; the walks and checks in `Readers`.
4. Left: `NameIndex` and `StringRuns` (which symbol owns an address; printable runs in
   data regions of the merged map); walks of the engine's containers and of the
   analyser's resource tree and import and export tables; the demangler against
   a reference grammar (model-checked only: recursion).
