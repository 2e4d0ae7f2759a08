-------------------------------- MODULE Corpus --------------------------------
(***************************************************************************)
(* The fixture corpus and the scripts that write it.  A fixture under      *)
(* test/fixtures is a file some independent tool wrote; beside it lies a   *)
(* probe (<script>.probe.json), the rows of the fixture as read by that    *)
(* script, which the tests hold against what the page's readers say.  Each *)
(* scripts/make-*-fixtures.py builds its files, reads them, has other      *)
(* programs (witnesses) read them too, compares the readings, and writes   *)
(* fixtures and probe; some build afresh every time, some keep a fixture   *)
(* once it exists, some work on fixtures that other scripts own.           *)
(*                                                                         *)
(* A script's program is the sequence of its operations on files           *)
(* (CorpusScripts has them); this module says what each operation does to  *)
(* the three places a file's bytes can be: the scratch directory, the      *)
(* corpus and the running script's memory.  One script and its neighbours  *)
(* are modelled at a time.  A run may be cut off anywhere, a write to disk *)
(* half way; a check may reject what it is shown; between runs a neighbour *)
(* may rewrite a fixture this script borrows, and a pull may replace       *)
(* fixtures and probe together, but never scratch, which git ignores.      *)
(***************************************************************************)
EXTENDS Integers, Sequences, FiniteSets

CONSTANTS
    Programs,   \* Programs[s]: the programs of script s, one for each way to call it
    Careful,    \* scripts that check a file before they put it among the fixtures
    Rebuilders, \* scripts that build all they own afresh and put back nothing borrowed
    Apart,      \* scripts whose witnesses open another copy than the one that is walked
    MaxClock    \* bound: runs, pulls and neighbours' rewrites

Places == {"memory", "scratch", "fixtures"}
Ops == {"clean", "mkdir", "write", "unless", "when", "maybe", "need", "witness", "check", "probe"}
FileOps == {"write", "unless", "when", "need", "witness", "check"}

(* What a place holds of a file: bytes of some making, a write cut short,  *)
(* or no such file.  A making is named by the time of it.                  *)
Absent == -1
Torn == -2
Times == 0..MaxClock
Contents == Times \cup {Absent, Torn}

(* One operation of a script: what it does, to which file, between which   *)
(* places (a tool makes new bytes), and how many operations it skips.      *)
StepSpace == [op : Ops, file : STRING, from : Places \cup {"tool"}, to : Places, skip : Nat]

Branch(step) == step.op \in {"unless", "when", "maybe"}

Scripts == DOMAIN Programs
FilesOf == [s \in Scripts |->
    UNION {{p[i].file : i \in {j \in DOMAIN p : p[j].op \in FileOps}} : p \in Programs[s]}]
(* Fixtures a script makes itself, and those it takes from others.         *)
Makes(p, f) == \E i \in DOMAIN p : p[i].op = "write" /\ p[i].file = f /\ p[i].from = "tool"
Puts(p, f) == \E i \in DOMAIN p : p[i].op = "write" /\ p[i].file = f /\ p[i].to = "fixtures"
Takes(p, f) == \E i \in DOMAIN p : p[i].file = f /\ p[i].from = "fixtures"
Owned == [s \in Scripts |->
    {f \in FilesOf[s] : \E p \in Programs[s] : Makes(p, f) /\ Puts(p, f)}]
Borrowed == [s \in Scripts |-> {f \in FilesOf[s] \ Owned[s] : \E p \in Programs[s] : Takes(p, f)}]
(* Fixtures whose rows the script's probe gives.                           *)
Reported == [s \in Scripts |->
    {f \in Owned[s] \cup Borrowed[s] : \E p \in Programs[s] : \E i, j \in DOMAIN p :
        i < j /\ p[i].op = "write" /\ p[i].file = f /\ p[i].to = "memory" /\ p[j].op = "probe"}]

ASSUME CorpusAssumption ==
    /\ MaxClock \in Nat
    /\ Careful \subseteq Scripts /\ Rebuilders \subseteq Scripts
    /\ \A s \in Scripts : \A p \in Programs[s] :
        /\ p \in Seq(StepSpace)
        /\ \A i \in DOMAIN p :
            /\ p[i].from = "tool" => p[i].op = "write"
            /\ Branch(p[i]) => i + p[i].skip <= Len(p)

VARIABLES
    script,     \* the script whose corner of the corpus this is
    program,    \* the program of its last run
    pos,        \* the operation that run has come to
    status,     \* "idle", "running", or how the last run ended
    half,       \* a file has been opened for writing and not closed
    clock,      \* the time of the last run, pull or rewrite
    dir,        \* the scratch directory exists
    bytes,      \* bytes[place][file]
    checked,    \* the makings of a file that some run has checked
    seen,       \* seen[f]: what the running script's witnesses last read of f
    probe       \* the probe on disk: rows and witnesses' readings, by file

vars == <<script, program, pos, status, half, clock, dir, bytes, checked, seen, probe>>

Statuses == {"idle", "running", "done", "refused", "stuck"}
Files == FilesOf[script]
Nothing == [f \in Files |-> Absent]
Blank == [rows |-> Nothing, seen |-> Nothing]
Whole(c) == c \notin {Absent, Torn}

Given(time) == [f \in Files |-> IF f \in Owned[script] \cup Borrowed[script] THEN time ELSE Absent]
GivenProbe(time) ==
    [Blank EXCEPT !.rows = [f \in Files |-> IF f \in Reported[script] THEN time ELSE Absent]]

(* A fresh clone, or a new script whose neighbours' fixtures are there.    *)
Init ==
    /\ script \in Scripts
    /\ program = <<>> /\ pos = 1 /\ status = "idle" /\ half = FALSE /\ clock = 0 /\ dir = FALSE
    /\ seen = Nothing
    /\ \/ /\ bytes = [memory |-> Nothing, scratch |-> Nothing, fixtures |-> Given(0)]
          /\ probe = GivenProbe(0)
       \/ /\ bytes = [memory |-> Nothing, scratch |-> Nothing,
                      fixtures |-> [f \in Files |-> IF f \in Borrowed[script] THEN 0 ELSE Absent]]
          /\ probe = Blank
    /\ checked = {<<f, 0>> : f \in Files}

-------------------------------------------------------------------------------
Starts ==
    /\ status # "running" /\ clock < MaxClock
    /\ program' \in Programs[script]
    /\ pos' = 1 /\ status' = "running" /\ half' = FALSE /\ clock' = clock + 1
    /\ UNCHANGED <<script, dir, bytes, checked, seen, probe>>

(* The process is gone, its memory with it; what was checked is only       *)
(* remembered of bytes that lie in the corpus.                             *)
Ends(how) ==
    /\ status' = how /\ pos' = 1 /\ half' = FALSE
    /\ bytes' = [bytes EXCEPT !.memory = Nothing] /\ seen' = Nothing
    /\ checked' = {c \in checked : bytes.fixtures[c[1]] = c[2]}
    /\ UNCHANGED <<script, program, clock, dir, probe>>

At(op) == status = "running" /\ pos \in DOMAIN program /\ program[pos].op = op
Now == program[pos]
Here == bytes[Now.from][Now.file]
Goes(n) == pos' = pos + n /\ UNCHANGED <<script, program, status, clock>>

(* mutant: the last run's scratch directory is used again                  *)
CleansNothing ==
    /\ At("clean") /\ Goes(1) /\ dir' = TRUE
    /\ UNCHANGED <<half, bytes, checked, seen, probe>>
(* shutil.rmtree and os.makedirs, or a new temporary directory.            *)
Cleans ==
    /\ At("clean") /\ Goes(1)
    /\ bytes' = [bytes EXCEPT !.scratch = Nothing] /\ dir' = TRUE
    /\ UNCHANGED <<half, checked, seen, probe>>

MakesDir ==
    /\ At("mkdir") /\ Goes(1) /\ dir' = TRUE
    /\ UNCHANGED <<half, bytes, checked, seen, probe>>

(* Skips what builds a file that is there already, what needs one that is  *)
(* not, or what needs a tool this machine may lack.                        *)
(* mutant: the skip of what needs a missing tool goes one step too far     *)
BranchesTooFar ==
    /\ \/ At("unless") /\ Goes(IF Here # Absent THEN Now.skip + 1 ELSE 1)
       \/ At("when") /\ Goes(IF Here = Absent THEN Now.skip + 1 ELSE 1)
       \/ At("need") /\ Here # Absent /\ Goes(1)
       \/ At("maybe") /\ \E n \in {1, Now.skip + 2} : Goes(n)
    /\ UNCHANGED <<half, dir, bytes, checked, seen, probe>>
Branches ==
    /\ \/ At("unless") /\ Goes(IF Here # Absent THEN Now.skip + 1 ELSE 1)
       \/ At("when") /\ Goes(IF Here = Absent THEN Now.skip + 1 ELSE 1)
       \/ At("need") /\ Here # Absent /\ Goes(1)
       \/ At("maybe") /\ \E n \in {1, Now.skip + 1} : Goes(n)
    /\ UNCHANGED <<half, dir, bytes, checked, seen, probe>>

Written == IF Now.from = "tool" THEN clock ELSE Here
CanWrite == Written # Absent /\ (Now.to = "scratch" => dir)

(* open(path, "wb"): the old bytes are gone and the new ones not there.    *)
Opens ==
    /\ At("write") /\ ~half /\ Now.to # "memory" /\ CanWrite
    /\ half' = TRUE
    /\ bytes' = [bytes EXCEPT ![Now.to][Now.file] = Torn]
    /\ UNCHANGED <<script, program, pos, status, clock, dir, checked, seen, probe>>

Writes ==
    /\ At("write") /\ (half \/ Now.to = "memory") /\ CanWrite /\ Goes(1)
    /\ half' = FALSE
    /\ bytes' = [bytes EXCEPT ![Now.to][Now.file] = Written]
    /\ UNCHANGED <<dir, checked, seen, probe>>

(* mutant: whatever it is given, the witness is run on the fixture         *)
WitnessesFixture ==
    /\ At("witness") /\ Whole(Here) /\ Goes(1)
    /\ seen' = [seen EXCEPT ![Now.file] = bytes.fixtures[Now.file]]
    /\ UNCHANGED <<half, dir, bytes, checked, probe>>
Witnesses ==
    /\ At("witness") /\ Whole(Here) /\ Goes(1)
    /\ seen' = [seen EXCEPT ![Now.file] = Here]
    /\ UNCHANGED <<half, dir, bytes, checked, probe>>

(* mutant: a reading that differs is printed, and the script goes on       *)
ChecksNothing ==
    /\ At("check") /\ Whole(Here) /\ Goes(1)
    /\ UNCHANGED <<half, dir, bytes, checked, seen, probe>>
Checks ==
    /\ At("check") /\ Whole(Here) /\ Goes(1)
    /\ checked' = checked \cup {<<Now.file, Here>>}
    /\ UNCHANGED <<half, dir, bytes, seen, probe>>

OpensProbe ==
    /\ At("probe") /\ ~half
    /\ half' = TRUE /\ probe' = Blank
    /\ UNCHANGED <<script, program, pos, status, clock, dir, bytes, checked, seen>>

WritesProbe ==
    /\ At("probe") /\ half /\ Goes(1)
    /\ half' = FALSE /\ probe' = [rows |-> bytes.memory, seen |-> seen]
    /\ UNCHANGED <<dir, bytes, checked, seen>>

Finishes == status = "running" /\ pos = Len(program) + 1 /\ Ends("done")

(* raise SystemExit: readings differ, or a file the mode needs is missing. *)
Refuses ==
    /\ At("check") \/ (At("need") /\ Here = Absent)
    /\ Ends("refused")

(* An exception nobody wrote a message for: a file or directory that is    *)
(* not there, or a reader that chokes on half a file.                      *)
Sticks ==
    /\ \/ At("write") /\ ~half /\ ~CanWrite
       \/ At("witness") /\ ~Whole(Here)
       \/ At("check") /\ ~Whole(Here)
    /\ Ends("stuck")

Crashes == status = "running" /\ Ends("idle")

(* Another script rewrites a fixture this one borrows.                     *)
Lends ==
    /\ status # "running" /\ clock < MaxClock
    /\ clock' = clock + 1
    /\ \E f \in Borrowed[script] :
        /\ bytes' = [bytes EXCEPT !.fixtures[f] = clock']
        /\ checked' = {c \in checked : c[1] # f} \cup {<<f, clock'>>}
    /\ status' = "idle"
    /\ UNCHANGED <<script, program, pos, half, dir, seen, probe>>

(* git pull: fixtures and probe as another machine committed them.         *)
Pulls ==
    /\ status # "running" /\ clock < MaxClock
    /\ clock' = clock + 1
    /\ bytes' = [bytes EXCEPT !.fixtures = Given(clock')]
    /\ checked' = {<<f, clock'>> : f \in Files}
    /\ probe' = GivenProbe(clock') /\ status' = "idle"
    /\ UNCHANGED <<script, program, pos, half, dir, seen>>

Next ==
    \/ Starts \/ Cleans \/ MakesDir \/ Branches \/ Opens \/ Writes \/ Witnesses \/ Checks
    \/ OpensProbe \/ WritesProbe \/ Finishes \/ Refuses \/ Sticks \/ Crashes \/ Lends \/ Pulls

Spec == Init /\ [][Next]_vars

-------------------------------------------------------------------------------
(* State: the corner of the corpus one script keeps.                       *)
CorpusTypeOK ==
    /\ script \in Scripts
    /\ program \in Programs[script] \cup {<<>>}
    /\ pos \in 1..(Len(program) + 1)
    /\ status \in Statuses
    /\ half \in BOOLEAN /\ dir \in BOOLEAN
    /\ clock \in Times
    /\ bytes \in [Places -> [Files -> Contents]]
    /\ checked \subseteq Files \X Times
    /\ seen \in [Files -> Contents]
    /\ probe \in [rows : [Files -> Contents], seen : [Files -> Contents]]

(* A script that has run to its end leaves a probe whose rows are of the   *)
(* very bytes that lie in the corpus, bytes a check has passed if it makes *)
(* checks: of its own fixtures and of those it borrowed, whatever was cut  *)
(* off before, lay in scratch, was pulled or rewritten in between.         *)
ProbeTellsTheCorpus ==
    status = "done" =>
        \A f \in Files : probe.rows[f] # Absent =>
            /\ probe.rows[f] = bytes.fixtures[f]
            /\ Whole(probe.rows[f])
            /\ (\E i \in DOMAIN program : program[i].op = "check") => <<f, probe.rows[f]>> \in checked

(* The rows of a probe and the witness they were held against are readings *)
(* of the same bytes, but for the scripts known to open two copies.        *)
OneReading ==
    \A f \in Files : probe.rows[f] # Absent => probe.seen[f] \in {Absent, probe.rows[f]}
OneReadingElsewhere == script \notin Apart => OneReading

(* A script that checks each file before it puts it among the fixtures     *)
(* leaves there, cut off or refused at any point, nothing unchecked.       *)
PublishedAreChecked ==
    script \in Careful =>
        \A f \in Files : Whole(bytes.fixtures[f]) => <<f, bytes.fixtures[f]>> \in checked

(* A script that builds all it owns afresh gets past whatever an earlier   *)
(* run left, half-written fixtures and scratch files included.             *)
RebuildingNeverSticks == script \in Rebuilders => status # "stuck"
===============================================================================
