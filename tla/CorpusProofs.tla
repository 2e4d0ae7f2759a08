----------------------------- MODULE CorpusProofs -----------------------------
(***************************************************************************)
(* Proofs about the fixture scripts, for every list of programs and any    *)
(* number of runs, crashes, pulls and rewrites: the types of a run's       *)
(* state, and, by way of the pictures of CorpusPictures, what a finished   *)
(* probe tells, that it is of one reading, that nothing unchecked lies     *)
(* among the fixtures, and that what a run left behind never stops one     *)
(* that rebuilds.                                                          *)
(***************************************************************************)
EXTENDS CorpusPictures, TLAPS

-------------------------------------------------------------------------------
(* Types of what the constants give.                                       *)

LEMMA Names ==
    /\ Places = {"memory", "scratch", "fixtures"}
    /\ -1 \in Contents /\ -2 \in Contents
    /\ Absent = -1 /\ Torn = -2
    /\ Times \subseteq Contents /\ Times \subseteq Nat
    /\ \A t \in Times : Whole(t)
BY CorpusAssumption DEF Places, Contents, Times, Absent, Torn, Whole

LEMMA ProgramFacts ==
    ASSUME NEW s \in Scripts, NEW p \in Programs[s]
    PROVE  /\ Len(p) \in Nat /\ DOMAIN p = 1..Len(p)
           /\ \A i \in DOMAIN p :
               /\ p[i] \in StepSpace
               /\ p[i].skip \in Nat /\ p[i].to \in Places /\ p[i].from \in Places \cup {"tool"}
               /\ p[i].op # "write" => p[i].from \in Places
               /\ Branch(p[i]) => i + p[i].skip <= Len(p)
               /\ p[i].op \in FileOps => p[i].file \in FilesOf[s]
<1>1. p \in Seq(StepSpace)
  BY CorpusAssumption
<1>2. Len(p) \in Nat /\ DOMAIN p = 1..Len(p) /\ \A i \in DOMAIN p : p[i] \in StepSpace
  BY <1>1
<1> SUFFICES ASSUME NEW i \in DOMAIN p
             PROVE  /\ p[i].skip \in Nat /\ p[i].to \in Places
                    /\ p[i].from \in Places \cup {"tool"}
                    /\ p[i].op # "write" => p[i].from \in Places
                    /\ Branch(p[i]) => i + p[i].skip <= Len(p)
                    /\ p[i].op \in FileOps => p[i].file \in FilesOf[s]
  BY <1>2
<1>3. p[i].skip \in Nat /\ p[i].to \in Places /\ p[i].from \in Places \cup {"tool"}
  BY <1>2 DEF StepSpace
<1>4. /\ p[i].from = "tool" => p[i].op = "write"
      /\ Branch(p[i]) => i + p[i].skip <= Len(p)
  BY CorpusAssumption
<1>5. p[i].op \in FileOps => p[i].file \in FilesOf[s]
  BY DEF FilesOf
<1> QED
  BY <1>3, <1>4, <1>5

LEMMA OwnedAndBorrowed ==
    ASSUME NEW s \in Scripts
    PROVE  Borrowed[s] \subseteq FilesOf[s]
BY DEF Borrowed

LEMMA GivenType ==
    ASSUME script \in Scripts, NEW time \in Times
    PROVE  /\ Nothing \in [Files -> Contents]
           /\ Given(time) \in [Files -> Contents]
           /\ Blank \in [rows : [Files -> Contents], seen : [Files -> Contents]]
           /\ GivenProbe(time) \in [rows : [Files -> Contents], seen : [Files -> Contents]]
<1>1. Nothing \in [Files -> Contents] /\ Given(time) \in [Files -> Contents]
  BY Names DEF Nothing, Given
<1>2. Blank \in [rows : [Files -> Contents], seen : [Files -> Contents]]
  BY <1>1 DEF Blank
<1>3. [f \in Files |-> IF f \in Reported[script] THEN time ELSE Absent] \in [Files -> Contents]
  BY Names
<1> QED
  BY <1>1, <1>2, <1>3 DEF GivenProbe

-------------------------------------------------------------------------------
(* The state of a run has its types, and a run is of a program of its      *)
(* script.                                                                 *)
RunOfProgram == status = "running" => program \in Programs[script]
CorpusInv == CorpusTypeOK /\ RunOfProgram

(* What an operation finds where it is.                                    *)
LEMMA StepFacts ==
    ASSUME CorpusInv, NEW op \in Ops, At(op)
    PROVE  /\ script \in Scripts /\ program \in Programs[script]
           /\ pos \in 1..Len(program) /\ pos \in DOMAIN program /\ Now.op = op
           /\ Now.skip \in Nat /\ Now.to \in Places /\ Now.from \in Places \cup {"tool"}
           /\ op # "write" => Now.from \in Places
           /\ Branch(Now) => pos + Now.skip <= Len(program)
           /\ op \in FileOps => Now.file \in Files
           /\ op \in FileOps /\ Now.from # "tool" => Here \in Contents
<1>1. /\ script \in Scripts /\ program \in Programs[script]
      /\ pos \in DOMAIN program /\ Now.op = op
  BY DEF CorpusInv, CorpusTypeOK, RunOfProgram, At, Now
<1>2. /\ Len(program) \in Nat /\ DOMAIN program = 1..Len(program)
      /\ Now.skip \in Nat /\ Now.to \in Places /\ Now.from \in Places \cup {"tool"}
      /\ op # "write" => Now.from \in Places
      /\ Branch(Now) => pos + Now.skip <= Len(program)
      /\ op \in FileOps => Now.file \in Files
  BY <1>1, ProgramFacts DEF Now, Files
<1>3. op \in FileOps /\ Now.from # "tool" => Here \in Contents
  BY <1>2 DEF Here, CorpusInv, CorpusTypeOK
<1> QED
  BY <1>1, <1>2, <1>3

(* Moving on within the program keeps the position in it.                  *)
LEMMA GoesOn ==
    ASSUME CorpusInv, NEW op \in Ops, At(op), NEW n \in Nat,
           n = 1 \/ (Branch(Now) /\ n = Now.skip + 1), Goes(n)
    PROVE  /\ script' = script /\ program' = program /\ status' = status /\ clock' = clock
           /\ Files' = Files
           /\ pos' \in 1..(Len(program) + 1)
           /\ RunOfProgram'
<1>1. script' = script /\ program' = program /\ status' = status /\ clock' = clock /\ pos' = pos + n
  BY DEF Goes
<1>2. pos' \in 1..(Len(program) + 1)
  <2>1. /\ pos \in 1..Len(program) /\ Now.skip \in Nat
        /\ Branch(Now) => pos + Now.skip <= Len(program)
        /\ script \in Scripts /\ program \in Programs[script]
    BY StepFacts
  <2>2. Len(program) \in Nat
    BY <2>1, ProgramFacts
  <2> QED
    BY <1>1, <2>1, <2>2
<1> QED
  BY <1>1, <1>2 DEF Files, CorpusInv, RunOfProgram

LEMMA WrittenType ==
    ASSUME CorpusInv, At("write")
    PROVE  /\ Now.to \in Places /\ Now.file \in Files
           /\ Written \in Contents
<1>1. /\ Now.to \in Places /\ Now.file \in Files
      /\ Now.from # "tool" => Here \in Contents
  BY StepFacts DEF Ops, FileOps
<1>2. clock \in Contents
  BY Names DEF CorpusInv, CorpusTypeOK
<1> QED
  BY <1>1, <1>2 DEF Written

LEMMA CorpusInvInit == Init => CorpusInv
<1> SUFFICES ASSUME Init PROVE CorpusInv
  OBVIOUS
<1>1. script \in Scripts /\ 0 \in Times
  BY CorpusAssumption DEF Init, Times
<1>p. program \in Programs[script] \cup {<<>>} /\ pos \in 1..(Len(program) + 1)
  <2>1. program = <<>> /\ pos = 1
    BY DEF Init
  <2>2. Len(program) = 0
    BY <2>1
  <2> QED
    BY <2>1, <2>2
<1>2. /\ Nothing \in [Files -> Contents]
      /\ Given(0) \in [Files -> Contents]
      /\ Blank \in [rows : [Files -> Contents], seen : [Files -> Contents]]
      /\ GivenProbe(0) \in [rows : [Files -> Contents], seen : [Files -> Contents]]
  BY <1>1, GivenType
<1>3. [f \in Files |-> IF f \in Borrowed[script] THEN 0 ELSE Absent] \in [Files -> Contents]
  BY <1>1, Names
<1>4. bytes \in [Places -> [Files -> Contents]]
  <2>1. ASSUME NEW g \in [Files -> Contents],
               bytes = [memory |-> Nothing, scratch |-> Nothing, fixtures |-> g]
        PROVE  bytes \in [Places -> [Files -> Contents]]
    BY <1>2, <2>1 DEF Places
  <2> QED
    BY <1>2, <1>3, <2>1 DEF Init
<1>5. probe \in [rows : [Files -> Contents], seen : [Files -> Contents]]
  BY <1>2 DEF Init
<1>6. checked \subseteq Files \X Times
  BY <1>1 DEF Init
<1>7. /\ status \in Statuses /\ half \in BOOLEAN /\ dir \in BOOLEAN /\ clock \in Times
      /\ RunOfProgram
  BY <1>1 DEF Init, Statuses, RunOfProgram
<1>8. seen \in [Files -> Contents]
  BY <1>2 DEF Init
<1> QED
  BY <1>1, <1>p, <1>4, <1>5, <1>6, <1>7, <1>8 DEF CorpusInv, CorpusTypeOK

LEMMA EndsKeepsTypes ==
    ASSUME CorpusInv, NEW how \in Statuses \ {"running"}, Ends(how)
    PROVE  CorpusInv'
<1>1. Files' = Files /\ script' = script /\ program' = program
  BY DEF Ends, Files
<1>2. Nothing \in [Files -> Contents]
  BY Names DEF Nothing
<1>3. bytes' \in [Places -> [Files -> Contents]]
  BY <1>2 DEF Ends, CorpusInv, CorpusTypeOK, Places
<1>4. checked' \subseteq Files \X Times
  BY DEF Ends, CorpusInv, CorpusTypeOK
<1>5. Len(program) \in Nat
  <2>1. CASE program = <<>>
    BY <2>1
  <2>2. CASE program \in Programs[script]
    BY <2>2, ProgramFacts DEF CorpusInv, CorpusTypeOK
  <2> QED
    BY <2>1, <2>2 DEF CorpusInv, CorpusTypeOK
<1>6. pos' \in 1..(Len(program') + 1)
  BY <1>1, <1>5 DEF Ends
<1>7. RunOfProgram'
  BY DEF Ends, RunOfProgram
<1> QED
  BY <1>1, <1>2, <1>3, <1>4, <1>6, <1>7 DEF Ends, CorpusInv, CorpusTypeOK, Statuses

LEMMA CorpusInvStep == CorpusInv /\ [Next]_vars => CorpusInv'
<1> SUFFICES ASSUME CorpusInv, [Next]_vars PROVE CorpusInv'
  OBVIOUS
<1> USE DEF CorpusInv
<1>t. /\ "clean" \in Ops /\ "mkdir" \in Ops /\ "write" \in Ops /\ "unless" \in Ops
      /\ "when" \in Ops /\ "maybe" \in Ops /\ "need" \in Ops /\ "witness" \in Ops
      /\ "check" \in Ops /\ "probe" \in Ops /\ FileOps \subseteq Ops
      /\ {"idle", "done", "refused", "stuck"} = Statuses \ {"running"}
  BY DEF Ops, FileOps, Statuses
<1>n. script \in Scripts /\ Nothing \in [Files -> Contents] /\ 1 \in Nat
  BY Names DEF CorpusTypeOK, Nothing
<1>l. \A p \in Programs[script] \cup {<<>>} : Len(p) \in Nat
  BY <1>n, ProgramFacts
<1>1. CASE Starts
  <2>1. Files' = Files /\ clock' \in Times
    BY <1>1, CorpusAssumption DEF Starts, Files, Times, CorpusTypeOK
  <2>2. pos' \in 1..(Len(program') + 1) /\ RunOfProgram'
    BY <1>1, <1>l DEF Starts, RunOfProgram, CorpusTypeOK
  <2> QED
    BY <1>1, <2>1, <2>2 DEF Starts, CorpusTypeOK, Statuses
<1>2. CASE Cleans
  <2>1. At("clean") /\ Goes(1)
    BY <1>2 DEF Cleans
  <2>2. /\ script' = script /\ program' = program /\ status' = status /\ clock' = clock
        /\ Files' = Files /\ pos' \in 1..(Len(program) + 1) /\ RunOfProgram'
    BY <1>t, <1>n, <2>1, GoesOn
  <2>3. bytes' \in [Places -> [Files -> Contents]]
    BY <1>2, <1>n DEF Cleans, CorpusTypeOK
  <2> QED
    BY <1>2, <2>2, <2>3 DEF Cleans, CorpusTypeOK
<1>3. CASE MakesDir
  <2>1. At("mkdir") /\ Goes(1)
    BY <1>3 DEF MakesDir
  <2>2. /\ script' = script /\ program' = program /\ status' = status /\ clock' = clock
        /\ Files' = Files /\ pos' \in 1..(Len(program) + 1) /\ RunOfProgram'
    BY <1>t, <1>n, <2>1, GoesOn
  <2> QED
    BY <1>3, <2>2 DEF MakesDir, CorpusTypeOK
<1>4. CASE Branches
  <2>1. PICK op \in {"unless", "when", "need", "maybe"}, n \in {1, Now.skip + 1} :
            At(op) /\ Goes(n) /\ (op = "need" => n = 1)
    BY <1>4 DEF Branches
  <2>2. Now.skip \in Nat /\ Now.op = op /\ op \in Ops
    BY <1>t, <2>1, StepFacts
  <2>3. n \in Nat /\ (n = 1 \/ (Branch(Now) /\ n = Now.skip + 1))
    BY <2>1, <2>2 DEF Branch
  <2>4. /\ script' = script /\ program' = program /\ status' = status /\ clock' = clock
        /\ Files' = Files /\ pos' \in 1..(Len(program) + 1) /\ RunOfProgram'
    BY <2>1, <2>2, <2>3, GoesOn
  <2> QED
    BY <1>4, <2>4 DEF Branches, CorpusTypeOK
<1>5. CASE Opens
  <2>1. Now.to \in Places /\ Now.file \in Files /\ Torn \in Contents
    BY <1>5, WrittenType, Names DEF Opens
  <2>2. bytes' \in [Places -> [Files -> Contents]]
    BY <1>5, <2>1 DEF Opens, CorpusTypeOK
  <2> QED
    BY <1>5, <2>2 DEF Opens, CorpusTypeOK, RunOfProgram, Files
<1>6. CASE Writes
  <2>1. At("write") /\ Goes(1)
    BY <1>6 DEF Writes
  <2>2. /\ script' = script /\ program' = program /\ status' = status /\ clock' = clock
        /\ Files' = Files /\ pos' \in 1..(Len(program) + 1) /\ RunOfProgram'
    BY <1>t, <1>n, <2>1, GoesOn
  <2>3. bytes' \in [Places -> [Files -> Contents]]
    BY <1>6, <2>1, WrittenType DEF Writes, CorpusTypeOK
  <2> QED
    BY <1>6, <2>2, <2>3 DEF Writes, CorpusTypeOK
<1>7. CASE Witnesses
  <2>1. At("witness") /\ Goes(1)
    BY <1>7 DEF Witnesses
  <2>2. /\ script' = script /\ program' = program /\ status' = status /\ clock' = clock
        /\ Files' = Files /\ pos' \in 1..(Len(program) + 1) /\ RunOfProgram'
    BY <1>t, <1>n, <2>1, GoesOn
  <2>3. Here \in Contents
    BY <1>t, <2>1, StepFacts DEF Places, FileOps
  <2>4. seen' \in [Files -> Contents]
    BY <1>7, <2>3 DEF Witnesses, CorpusTypeOK
  <2> QED
    BY <1>7, <2>2, <2>4 DEF Witnesses, CorpusTypeOK
<1>8. CASE Checks
  <2>1. At("check") /\ Goes(1)
    BY <1>8 DEF Checks
  <2>2. /\ script' = script /\ program' = program /\ status' = status /\ clock' = clock
        /\ Files' = Files /\ pos' \in 1..(Len(program) + 1) /\ RunOfProgram'
    BY <1>t, <1>n, <2>1, GoesOn
  <2>3. Here \in Contents /\ Now.file \in Files
    BY <1>t, <2>1, StepFacts DEF Places, FileOps
  <2>4. Here \in Times
    BY <1>8, <2>3 DEF Checks, Whole, Contents
  <2>5. checked' \subseteq Files \X Times
    BY <1>8, <2>3, <2>4 DEF Checks, CorpusTypeOK
  <2> QED
    BY <1>8, <2>2, <2>5 DEF Checks, CorpusTypeOK
<1>9. CASE OpensProbe
  <2>1. Blank \in [rows : [Files -> Contents], seen : [Files -> Contents]]
    BY <1>n DEF Blank
  <2> QED
    BY <1>9, <2>1 DEF OpensProbe, CorpusTypeOK, RunOfProgram, Files
<1>10. CASE WritesProbe
  <2>1. At("probe") /\ Goes(1)
    BY <1>10 DEF WritesProbe
  <2>2. /\ script' = script /\ program' = program /\ status' = status /\ clock' = clock
        /\ Files' = Files /\ pos' \in 1..(Len(program) + 1) /\ RunOfProgram'
    BY <1>t, <1>n, <2>1, GoesOn
  <2>3. probe' \in [rows : [Files -> Contents], seen : [Files -> Contents]]
    BY <1>10 DEF WritesProbe, CorpusTypeOK, Places
  <2> QED
    BY <1>10, <2>2, <2>3 DEF WritesProbe, CorpusTypeOK
<1>11. CASE Finishes \/ Refuses \/ Sticks \/ Crashes
  <2>1. PICK how \in Statuses \ {"running"} : Ends(how)
    BY <1>t, <1>11 DEF Finishes, Refuses, Sticks, Crashes
  <2> QED
    BY <2>1, EndsKeepsTypes
<1>12. CASE Lends
  <2>1. PICK f \in Borrowed[script] :
            /\ bytes' = [bytes EXCEPT !.fixtures[f] = clock']
            /\ checked' = {c \in checked : c[1] # f} \cup {<<f, clock'>>}
    BY <1>12 DEF Lends
  <2>2. f \in Files /\ clock' \in Times /\ clock' \in Contents
    BY <1>12, <1>n, CorpusAssumption, OwnedAndBorrowed, Names DEF Lends, Files, Times, CorpusTypeOK
  <2>3. bytes' \in [Places -> [Files -> Contents]]
    BY <2>1, <2>2 DEF CorpusTypeOK
  <2>4. checked' \subseteq Files \X Times
    BY <2>1, <2>2 DEF CorpusTypeOK
  <2> QED
    BY <1>12, <2>2, <2>3, <2>4 DEF Lends, CorpusTypeOK, RunOfProgram, Files, Statuses
<1>13. CASE Pulls
  <2>1. clock' \in Times
    BY <1>13, CorpusAssumption DEF Pulls, Times, CorpusTypeOK
  <2>2. /\ Given(clock') \in [Files -> Contents]
        /\ GivenProbe(clock') \in [rows : [Files -> Contents], seen : [Files -> Contents]]
    BY <1>n, <2>1, GivenType
  <2>3. bytes' \in [Places -> [Files -> Contents]]
    BY <1>13, <2>2 DEF Pulls, CorpusTypeOK
  <2>4. checked' \subseteq Files \X Times
    BY <1>13, <2>1 DEF Pulls
  <2> QED
    BY <1>13, <2>1, <2>2, <2>3, <2>4 DEF Pulls, CorpusTypeOK, RunOfProgram, Files, Statuses
<1>14. CASE UNCHANGED vars
  BY <1>14 DEF vars, CorpusTypeOK, RunOfProgram, Files
<1> QED
  BY <1>1, <1>2, <1>3, <1>4, <1>5, <1>6, <1>7, <1>8, <1>9, <1>10, <1>11, <1>12, <1>13, <1>14
  DEF Next

(* For any scripts and programs, a run's state has its types: no skip      *)
(* leaves the program, and no operation reads a place or file that is not  *)
(* the script's.                                                           *)
THEOREM CorpusAlwaysTyped == Spec => []CorpusTypeOK
<1>1. CorpusInv => CorpusTypeOK
  BY DEF CorpusInv
<1> QED
  BY CorpusInvInit, CorpusInvStep, <1>1, PTL DEF Spec

-------------------------------------------------------------------------------
(* A picture fits a file when some legend, which says what each mark       *)
(* stands for, makes it true of what is in the places.  In a run, each     *)
(* file fits one of the pictures of the operation the run has come to, or  *)
(* one half way through it while a file is open for writing.               *)

(* What the marks of a picture stand for in a run.                         *)
Legend(val) ==
    /\ val \in [Marks -> Contents]
    /\ val["absent"] = Absent /\ val["torn"] = Torn /\ val["made"] = clock
    /\ val["found"] \in Times /\ val["left"] \in Times
Fits(c, f, val) ==
    /\ \A place \in Places : bytes[place][f] = val[c.at[place]]
    /\ c.rows = "any" \/ probe.rows[f] = val[c.rows]
    /\ seen[f] = val[c.seen] /\ dir = c.dir
    /\ \A m \in c.vetted : <<f, val[m]>> \in checked
Drawn(f) == Pictures[script][program][f][pos]
Shown(f, c) == IF half THEN Midway(Now, f, c) ELSE c

HalfOfWrite == half => (At("write") /\ Now.to # "memory") \/ At("probe")
NothingKept == status # "running" => bytes["memory"] = Nothing /\ seen = Nothing
NothingTold == Silent(script) => probe.rows = Nothing
LentWhole ==
    \A f \in Files : Lent(script, f) =>
        Whole(bytes["fixtures"][f]) /\ <<f, bytes["fixtures"][f]>> \in checked
Pictured ==
    status = "running" =>
        \A f \in Files : \E c \in Drawn(f), val \in [Marks -> Contents] :
            Legend(val) /\ Fits(Shown(f, c), f, val)
PictureInv == HalfOfWrite /\ NothingKept /\ NothingTold /\ LentWhole /\ Pictured

LEMMA MarksAre ==
    /\ "absent" \in Marks /\ "torn" \in Marks /\ "made" \in Marks /\ "found" \in Marks /\ "left" \in Marks
    /\ Making \subseteq Marks
    /\ \A m \in Marks : m \in Making \/ m = "absent" \/ m = "torn"
BY DEF Marks, Making

LEMMA LegendTells ==
    ASSUME CorpusInv, NEW val, Legend(val), NEW m \in Marks
    PROVE  /\ val[m] \in Contents
           /\ m # "absent" <=> val[m] # Absent
           /\ m \in Making <=> Whole(val[m])
<1>1. clock \in Times
  BY DEF CorpusInv, CorpusTypeOK
<1>2. val[m] \in Contents
  BY DEF Legend
<1> QED
  BY <1>1, <1>2, Names DEF Legend, Marks, Making, Whole

LEMMA PictureFacts ==
    ASSUME NEW s \in Scripts, NEW p \in Programs[s], NEW f \in FilesOf[s]
    PROVE  /\ \A i \in 1..(Len(p) + 1) : \A c \in Pictures[s][p][f][i] : c \in PictureSpace
           /\ Beginnings(s, f) \subseteq Pictures[s][p][f][1]
           /\ \A i \in DOMAIN p : \A c \in Pictures[s][p][f][i] : \A n \in {1, p[i].skip + 1} :
                Passes(p[i], f, c, n) => After(p[i], f, c) \in Pictures[s][p][f][i + n]
           /\ EndsTold(s, p, f, Pictures[s][p][f])
           /\ s \notin Apart => ReadAsOne(s, p, f, Pictures[s][p][f])
           /\ s \in Careful => ChecksFirst(s, p, f, Pictures[s][p][f])
           /\ s \in Rebuilders => Rebuilds(s, p, f, Pictures[s][p][f])
           /\ \A i \in DOMAIN p : p[i].op = "write" => p[i].from # p[i].to
<1>1. Follow(s, p, f, Pictures[s][p][f])
  BY PicturesAssumption
<1>2. /\ EndsTold(s, p, f, Pictures[s][p][f])
      /\ s \notin Apart => ReadAsOne(s, p, f, Pictures[s][p][f])
      /\ s \in Careful => ChecksFirst(s, p, f, Pictures[s][p][f])
      /\ s \in Rebuilders => Rebuilds(s, p, f, Pictures[s][p][f])
      /\ \A i \in DOMAIN p : p[i].op = "write" => p[i].from # p[i].to
  BY PicturesAssumption
<1>3. \A i \in 1..(Len(p) + 1) : Pictures[s][p][f][i] \subseteq PictureSpace
  BY <1>1 DEF Follow
<1>4. Beginnings(s, f) \subseteq Pictures[s][p][f][1]
  BY <1>1 DEF Follow
<1>5. \A i \in DOMAIN p : \A c \in Pictures[s][p][f][i] : \A n \in {1, p[i].skip + 1} :
          Passes(p[i], f, c, n) => After(p[i], f, c) \in Pictures[s][p][f][i + n]
  BY <1>1 DEF Follow
<1> QED
  BY <1>2, <1>3, <1>4, <1>5

(* The fields of a picture after a step, and half way through one.         *)
LEMMA PictureFields ==
    ASSUME NEW c \in PictureSpace
    PROVE  /\ c.at \in [Places -> Marks] /\ c.seen \in Marks /\ c.vetted \subseteq Making
           /\ c.rows \in Marks \cup {"any"} /\ c.dir \in BOOLEAN
           /\ c = [at |-> c.at, rows |-> c.rows, seen |-> c.seen, vetted |-> c.vetted, dir |-> c.dir]
BY DEF PictureSpace

LEMMA AfterClean ==
    ASSUME NEW c \in PictureSpace, NEW f, NEW step, step.op = "clean"
    PROVE  /\ After(step, f, c).at = [c.at EXCEPT !["scratch"] = "absent"]
           /\ After(step, f, c).rows = c.rows /\ After(step, f, c).seen = c.seen
           /\ After(step, f, c).vetted = c.vetted /\ After(step, f, c).dir
<1>1. After(step, f, c) = [c EXCEPT !.at = [@ EXCEPT !["scratch"] = "absent"], !.dir = TRUE]
  BY DEF After
<1> QED
  BY <1>1, PictureFields

LEMMA AfterMkdir ==
    ASSUME NEW c \in PictureSpace, NEW f, NEW step, step.op = "mkdir"
    PROVE  /\ After(step, f, c).at = c.at /\ After(step, f, c).rows = c.rows
           /\ After(step, f, c).seen = c.seen /\ After(step, f, c).vetted = c.vetted
           /\ After(step, f, c).dir
<1>1. After(step, f, c) = [c EXCEPT !.dir = TRUE]
  BY DEF After
<1> QED
  BY <1>1, PictureFields

LEMMA AfterProbe ==
    ASSUME NEW c \in PictureSpace, NEW f, NEW step, step.op = "probe"
    PROVE  /\ After(step, f, c).at = c.at /\ After(step, f, c).rows = c.at["memory"]
           /\ After(step, f, c).seen = c.seen /\ After(step, f, c).vetted = c.vetted
           /\ Midway(step, f, c).at = c.at /\ Midway(step, f, c).rows = "absent"
           /\ Midway(step, f, c).seen = c.seen /\ Midway(step, f, c).vetted = c.vetted
           /\ Midway(step, f, c).dir = c.dir
           /\ After(step, f, c).dir = c.dir
<1>1. /\ After(step, f, c) = [c EXCEPT !.rows = c.at["memory"]]
      /\ Midway(step, f, c) = [c EXCEPT !.rows = "absent"]
  BY DEF After, Midway
<1> QED
  BY <1>1, PictureFields

LEMMA AfterWrite ==
    ASSUME NEW c \in PictureSpace, NEW f, NEW step, step.op = "write", step.file = f
    PROVE  /\ After(step, f, c).at = [c.at EXCEPT ![step.to] = Source(step, c)]
           /\ After(step, f, c).rows = c.rows /\ After(step, f, c).seen = c.seen
           /\ After(step, f, c).vetted = c.vetted
           /\ After(step, f, c).dir = c.dir
<1>1. After(step, f, c) = [c EXCEPT !.at = [@ EXCEPT ![step.to] = Source(step, c)]]
  BY DEF After
<1> QED
  BY <1>1, PictureFields

LEMMA MidwayWrite ==
    ASSUME NEW c \in PictureSpace, NEW f, NEW step, step.op = "write", step.file = f
    PROVE  Midway(step, f, c).at = [c.at EXCEPT ![step.to] = "torn"]
<1>1. Midway(step, f, c) = [c EXCEPT !.at = [@ EXCEPT ![step.to] = "torn"]]
  BY DEF Midway
<1> QED
  BY <1>1, PictureFields

LEMMA MidwayKeeps ==
    ASSUME NEW c \in PictureSpace, NEW f, NEW step, step.op = "write", step.file = f
    PROVE  /\ Midway(step, f, c).rows = c.rows /\ Midway(step, f, c).seen = c.seen
           /\ Midway(step, f, c).vetted = c.vetted /\ Midway(step, f, c).dir = c.dir
<1>1. Midway(step, f, c) = [c EXCEPT !.at = [@ EXCEPT ![step.to] = "torn"]]
  BY DEF Midway
<1> QED
  BY <1>1, PictureFields

LEMMA AfterWitness ==
    ASSUME NEW c \in PictureSpace, NEW f, NEW step, step.op = "witness", step.file = f
    PROVE  /\ After(step, f, c).at = c.at /\ After(step, f, c).rows = c.rows
           /\ After(step, f, c).seen = Source(step, c) /\ After(step, f, c).vetted = c.vetted
           /\ After(step, f, c).dir = c.dir
<1>1. After(step, f, c) = [c EXCEPT !.seen = Source(step, c)]
  BY DEF After
<1> QED
  BY <1>1, PictureFields

LEMMA AfterCheck ==
    ASSUME NEW c \in PictureSpace, NEW f, NEW step, step.op = "check", step.file = f
    PROVE  /\ After(step, f, c).at = c.at /\ After(step, f, c).rows = c.rows
           /\ After(step, f, c).seen = c.seen
           /\ After(step, f, c).vetted = c.vetted \cup {Source(step, c)}
           /\ After(step, f, c).dir = c.dir
<1>1. After(step, f, c) = [c EXCEPT !.vetted = @ \cup {Source(step, c)}]
  BY DEF After
<1> QED
  BY <1>1, PictureFields

LEMMA AfterElse ==
    ASSUME NEW c, NEW f, NEW step,
           \/ step.op \in {"unless", "when", "maybe", "need"}
           \/ step.op \in {"write", "witness", "check"} /\ step.file # f
    PROVE  After(step, f, c) = c /\ Midway(step, f, c) = c
BY DEF After, Midway

-------------------------------------------------------------------------------
(* An operation takes a file that fits a picture to one that fits a        *)
(* picture of the next operation.                                          *)

OpsAre == /\ "clean" \in Ops /\ "mkdir" \in Ops /\ "write" \in Ops /\ "unless" \in Ops
          /\ "when" \in Ops /\ "maybe" \in Ops /\ "need" \in Ops /\ "witness" \in Ops
          /\ "check" \in Ops /\ "probe" \in Ops /\ FileOps \subseteq Ops

LEMMA OpNames == OpsAre
BY DEF OpsAre, Ops, FileOps

(* What a step reads has, in the run, the bytes its mark stands for.       *)
LEMMA SourceStands ==
    ASSUME CorpusInv, HalfOfWrite, NEW op \in Ops, At(op),
           NEW f \in Files, NEW c \in Drawn(f), NEW val, Legend(val), Fits(Shown(f, c), f, val)
    PROVE  /\ c \in PictureSpace /\ Source(Now, c) \in Marks
           /\ op # "write" /\ op # "probe" => ~half /\ Shown(f, c) = c
           /\ op \in FileOps /\ op # "write" /\ Now.file = f => Here = val[Source(Now, c)]
           /\ op = "write" /\ Now.file = f => Written = val[Source(Now, c)]
<1>1. /\ script \in Scripts /\ program \in Programs[script]
      /\ pos \in 1..Len(program) /\ pos \in DOMAIN program /\ Now.op = op
      /\ Now.to \in Places /\ Now.from \in Places \cup {"tool"}
      /\ op # "write" => Now.from \in Places
  BY StepFacts
<1>2. Len(program) \in Nat
  BY <1>1, ProgramFacts
<1>3. c \in PictureSpace
  BY <1>1, <1>2, PictureFacts DEF Drawn, Files
<1>4. c.at \in [Places -> Marks]
  BY <1>3 DEF PictureSpace
<1>5. Source(Now, c) \in Marks
  BY <1>1, <1>4, MarksAre DEF Source
<1>6. op # "write" /\ op # "probe" => ~half /\ Shown(f, c) = c
  BY <1>1 DEF HalfOfWrite, At, Now, Shown
<1>7. ASSUME op \in FileOps, op # "write", Now.file = f PROVE Here = val[Source(Now, c)]
  <2>1. Fits(c, f, val) /\ Now.from \in Places /\ Now.from # "tool"
    BY <1>1, <1>6, <1>7 DEF FileOps, Places
  <2> QED
    BY <1>7, <2>1 DEF Fits, Here, Source
<1>8. ASSUME op = "write", Now.file = f PROVE Written = val[Source(Now, c)]
  <2>1. CASE Now.from = "tool"
    BY <2>1 DEF Written, Source, Legend
  <2>2. CASE Now.from # "tool"
    <3>1. Now.from \in Places /\ Now.from # Now.to
      BY <1>1, <1>8, <2>2, PictureFacts DEF Now, Files
    <3>2. Shown(f, c).at[Now.from] = c.at[Now.from]
      <4>0. Now.op = "write" /\ Now.file = f
        BY <1>1, <1>8
      <4>1. Midway(Now, f, c).at = [c.at EXCEPT ![Now.to] = "torn"]
        BY <1>3, <4>0, MidwayWrite
      <4>2. Midway(Now, f, c).at[Now.from] = c.at[Now.from]
        BY <1>1, <1>4, <3>1, <4>1
      <4> QED
        BY <4>2 DEF Shown
    <3>3. bytes[Now.from][f] = val[c.at[Now.from]]
      BY <3>1, <3>2 DEF Fits
    <3> QED
      BY <1>8, <2>2, <3>3 DEF Written, Here, Source
  <2> QED
    BY <2>1, <2>2
<1> QED
  BY <1>3, <1>5, <1>6, <1>7, <1>8

(* The picture after a step is one of those at the operation it leads to.  *)
LEMMA Onward ==
    ASSUME CorpusInv, NEW op \in Ops, At(op), NEW f \in Files, NEW c \in Drawn(f),
           NEW n \in {1, Now.skip + 1}, Passes(Now, f, c, n)
    PROVE  After(Now, f, c) \in Pictures[script][program][f][pos + n]
<1>1. script \in Scripts /\ program \in Programs[script] /\ pos \in DOMAIN program
  BY StepFacts
<1> QED
  BY <1>1, PictureFacts DEF Drawn, Files, Now

LEMMA Carries ==
    ASSUME CorpusInv, At("clean") \/ status = "running", NEW f \in Files, NEW val, Legend(val),
           NEW n, Goes(n), NEW d \in Pictures[script][program][f][pos + n],
           ~half', Fits(d, f, val)'
    PROVE  \E c \in Drawn(f)', v \in [Marks -> Contents] : Legend(v)' /\ Fits(Shown(f, c), f, v)'
<1>1. /\ script' = script /\ program' = program /\ clock' = clock /\ pos' = pos + n
  BY DEF Goes
<1>2. Legend(val)' /\ val \in [Marks -> Contents]
  BY <1>1 DEF Legend
<1>3. d \in Drawn(f)'
  BY <1>1 DEF Drawn
<1>4. Shown(f, d)' = d
  BY DEF Shown
<1>5. Fits(Shown(f, d), f, val)'
  BY <1>4
<1> QED
  BY <1>2, <1>3, <1>5

(* One file over one operation.                                            *)
LEMMA FileOverStep ==
    ASSUME CorpusInv, PictureInv,
           Cleans \/ MakesDir \/ Branches \/ Writes \/ Witnesses \/ Checks \/ WritesProbe,
           NEW f \in Files, NEW c \in Drawn(f), NEW val \in [Marks -> Contents],
           Legend(val), Fits(Shown(f, c), f, val)
    PROVE  \E n \in {1, Now.skip + 1} : Goes(n) /\
               \E d \in Pictures[script][program][f][pos + n] : Fits(d, f, val)'
<1> USE DEF PictureInv, OpsAre
<1>1. CASE Cleans
  <2>1. At("clean") /\ Goes(1)
    BY <1>1 DEF Cleans
  <2>2. /\ Now.op = "clean" /\ Now.to \in Places
        /\ c \in PictureSpace /\ Source(Now, c) \in Marks /\ Shown(f, c) = c
    BY <2>1, OpNames, StepFacts, SourceStands
  <2>3. PICK d : d = After(Now, f, c)
    OBVIOUS
  <2>4. /\ d.at = [c.at EXCEPT !["scratch"] = "absent"] /\ d.rows = c.rows /\ d.seen = c.seen
        /\ d.vetted = c.vetted /\ d.dir = TRUE /\ c.at \in [Places -> Marks]
    BY <2>2, <2>3, AfterClean, PictureFields
  <2>p. Passes(Now, f, c, 1)
    BY <2>2 DEF Passes, Ready
  <2>o. d \in Pictures[script][program][f][pos + 1]
    BY <2>1, <2>2, <2>3, <2>p, OpNames, Onward
  <2>6. \A place \in Places : bytes'[place][f] = val[d.at[place]]
    BY <1>1, <2>2, <2>4, Names DEF Cleans, Fits, Nothing, Legend, CorpusInv, CorpusTypeOK
  <2>7. Fits(d, f, val)'
    BY <1>1, <2>2, <2>4, <2>6, ZenonT(30) DEF Cleans, Fits
  <2> QED
    BY <2>1, <2>o, <2>7
<1>2. CASE MakesDir
  <2>1. At("mkdir") /\ Goes(1)
    BY <1>2 DEF MakesDir
  <2>2. /\ Now.op = "mkdir" /\ Now.to \in Places
        /\ c \in PictureSpace /\ Source(Now, c) \in Marks /\ Shown(f, c) = c
    BY <2>1, OpNames, StepFacts, SourceStands
  <2>3. PICK d : d = After(Now, f, c)
    OBVIOUS
  <2>4. d.at = c.at /\ d.rows = c.rows /\ d.seen = c.seen /\ d.vetted = c.vetted /\ d.dir = TRUE
    BY <2>2, <2>3, AfterMkdir
  <2>p. Passes(Now, f, c, 1)
    BY <2>2 DEF Passes, Ready
  <2>o. d \in Pictures[script][program][f][pos + 1]
    BY <2>1, <2>2, <2>3, <2>p, OpNames, Onward
  <2>5. Fits(d, f, val)'
    BY <1>2, <2>2, <2>4 DEF MakesDir, Fits
  <2> QED
    BY <2>1, <2>o, <2>5
<1>3. CASE Writes
  <2>1. At("write") /\ Goes(1)
    BY <1>3 DEF Writes
  <2>2. /\ Now.op = "write" /\ Now.to \in Places /\ Now.file \in Files
        /\ c \in PictureSpace /\ Source(Now, c) \in Marks
        /\ Now.file = f => Written = val[Source(Now, c)]
    BY <2>1, OpNames, StepFacts, SourceStands DEF FileOps
  <2>3. PICK d : d = After(Now, f, c)
    OBVIOUS
  <2>p. Passes(Now, f, c, 1)
    <3>1. Source(Now, c) # "absent" <=> val[Source(Now, c)] # Absent
      BY <2>2, LegendTells
    <3>2. Now.file = f => c.dir = dir
      <4>1. ASSUME Now.file = f PROVE Midway(Now, f, c).dir = c.dir
        <5>1. c \in PictureSpace /\ Now.op = "write"
          BY <2>2
        <5> QED
          BY <4>1, <5>1, MidwayKeeps
      <4>2. Now.file = f => Shown(f, c).dir = c.dir
        BY <4>1 DEF Shown
      <4> QED
        BY <4>2 DEF Fits
    <3> QED
      BY <1>3, <2>2, <3>1, <3>2 DEF Passes, Ready, Writes, CanWrite
  <2>o. d \in Pictures[script][program][f][pos + 1]
    BY <2>1, <2>2, <2>3, <2>p, OpNames, Onward
  <2>5. CASE Now.file = f
    <3>1. /\ d.at = [c.at EXCEPT ![Now.to] = Source(Now, c)] /\ d.rows = c.rows /\ d.seen = c.seen
          /\ d.vetted = c.vetted /\ d.dir = c.dir /\ c.at \in [Places -> Marks]
          /\ Midway(Now, f, c).dir = c.dir
          /\ Midway(Now, f, c).at = [c.at EXCEPT ![Now.to] = "torn"]
          /\ Midway(Now, f, c).rows = c.rows /\ Midway(Now, f, c).seen = c.seen
          /\ Midway(Now, f, c).vetted = c.vetted
      BY <2>2, <2>3, <2>5, AfterWrite, MidwayWrite, MidwayKeeps, PictureFields
    <3>2. \A place \in Places : place # Now.to => Shown(f, c).at[place] = c.at[place]
      BY <3>1 DEF Shown
    <3>3. /\ Shown(f, c).rows = c.rows /\ Shown(f, c).seen = c.seen
          /\ Shown(f, c).vetted = c.vetted /\ Shown(f, c).dir = c.dir
      BY <3>1 DEF Shown
    <3>4. bytes' = [bytes EXCEPT ![Now.to][f] = val[Source(Now, c)]]
      BY <1>3, <2>2, <2>5 DEF Writes
    <3>5. \A place \in Places : bytes'[place][f] = val[d.at[place]]
      <4> SUFFICES ASSUME NEW place \in Places PROVE bytes'[place][f] = val[d.at[place]]
        OBVIOUS
      <4>1. CASE place = Now.to
        BY <2>2, <3>1, <3>4, <4>1 DEF CorpusInv, CorpusTypeOK
      <4>2. CASE place # Now.to
        <5>1. bytes'[place][f] = bytes[place][f] /\ d.at[place] = c.at[place]
          BY <2>2, <3>1, <3>4, <4>2 DEF CorpusInv, CorpusTypeOK
        <5> QED
          BY <3>2, <4>2, <5>1 DEF Fits
      <4> QED
        BY <4>1, <4>2
    <3>6. Fits(d, f, val)'
      BY <1>3, <3>1, <3>3, <3>5 DEF Writes, Fits
    <3> QED
      BY <2>1, <2>o, <3>6
  <2>6. CASE Now.file # f
    <3>1. d = c /\ Shown(f, c) = c
      BY <2>2, <2>3, <2>6, AfterElse DEF Shown
    <3>2. \A place \in Places : bytes'[place][f] = bytes[place][f]
      BY <1>3, <2>2, <2>6 DEF Writes, CorpusInv, CorpusTypeOK
    <3>3. Fits(d, f, val)'
      BY <1>3, <3>1, <3>2 DEF Writes, Fits
    <3> QED
      BY <2>1, <2>o, <3>3
  <2> QED
    BY <2>5, <2>6
<1>4. CASE Witnesses
  <2>1. At("witness") /\ Goes(1)
    BY <1>4 DEF Witnesses
  <2>2. /\ Now.op = "witness" /\ Now.to \in Places /\ Now.file \in Files
        /\ c \in PictureSpace /\ Source(Now, c) \in Marks /\ Shown(f, c) = c
        /\ Now.file = f => Here = val[Source(Now, c)]
    BY <2>1, OpNames, StepFacts, SourceStands DEF FileOps
  <2>3. PICK d : d = After(Now, f, c)
    OBVIOUS
  <2>p. Passes(Now, f, c, 1)
    <3>1. Source(Now, c) \in Making <=> Whole(val[Source(Now, c)])
      BY <2>2, LegendTells
    <3> QED
      BY <1>4, <2>2, <3>1 DEF Passes, Ready, Witnesses
  <2>o. d \in Pictures[script][program][f][pos + 1]
    BY <2>1, <2>2, <2>3, <2>p, OpNames, Onward
  <2>5. CASE Now.file = f
    <3>1. /\ d.at = c.at /\ d.rows = c.rows /\ d.seen = Source(Now, c) /\ d.vetted = c.vetted
          /\ d.dir = c.dir
      BY <2>2, <2>3, <2>5, AfterWitness
    <3>2. seen'[f] = val[d.seen]
      BY <1>4, <2>2, <2>5, <3>1 DEF Witnesses, CorpusInv, CorpusTypeOK
    <3>3. Fits(d, f, val)'
      BY <1>4, <2>2, <3>1, <3>2 DEF Witnesses, Fits
    <3> QED
      BY <2>1, <2>o, <3>3
  <2>6. CASE Now.file # f
    <3>1. d = c
      BY <2>2, <2>3, <2>6, AfterElse
    <3>2. seen'[f] = seen[f]
      BY <1>4, <2>2, <2>6 DEF Witnesses, CorpusInv, CorpusTypeOK
    <3>3. Fits(d, f, val)'
      BY <1>4, <2>2, <3>1, <3>2 DEF Witnesses, Fits
    <3> QED
      BY <2>1, <2>o, <3>3
  <2> QED
    BY <2>5, <2>6
<1>5. CASE Checks
  <2>1. At("check") /\ Goes(1)
    BY <1>5 DEF Checks
  <2>2. /\ Now.op = "check" /\ Now.to \in Places /\ Now.file \in Files
        /\ c \in PictureSpace /\ Source(Now, c) \in Marks /\ Shown(f, c) = c
        /\ Now.file = f => Here = val[Source(Now, c)]
    BY <2>1, OpNames, StepFacts, SourceStands DEF FileOps
  <2>3. PICK d : d = After(Now, f, c)
    OBVIOUS
  <2>p. Passes(Now, f, c, 1)
    <3>1. Source(Now, c) \in Making <=> Whole(val[Source(Now, c)])
      BY <2>2, LegendTells
    <3> QED
      BY <1>5, <2>2, <3>1 DEF Passes, Ready, Checks
  <2>o. d \in Pictures[script][program][f][pos + 1]
    BY <2>1, <2>2, <2>3, <2>p, OpNames, Onward
  <2>5. CASE Now.file = f
    <3>1. /\ d.at = c.at /\ d.rows = c.rows /\ d.seen = c.seen /\ d.dir = c.dir
          /\ d.vetted = c.vetted \cup {Source(Now, c)}
      BY <2>2, <2>3, <2>5, AfterCheck
    <3>2. checked' = checked \cup {<<f, val[Source(Now, c)]>>}
      BY <1>5, <2>2, <2>5 DEF Checks
    <3>3. Fits(d, f, val)'
      BY <1>5, <2>2, <3>1, <3>2 DEF Checks, Fits
    <3> QED
      BY <2>1, <2>o, <3>3
  <2>6. CASE Now.file # f
    <3>1. d = c
      BY <2>2, <2>3, <2>6, AfterElse
    <3>2. Fits(d, f, val)'
      BY <1>5, <2>2, <3>1 DEF Checks, Fits
    <3> QED
      BY <2>1, <2>o, <3>2
  <2> QED
    BY <2>5, <2>6
<1>6. CASE WritesProbe
  <2>1. At("probe") /\ Goes(1) /\ half
    BY <1>6 DEF WritesProbe
  <2>2. /\ Now.op = "probe" /\ Now.to \in Places
        /\ c \in PictureSpace /\ Source(Now, c) \in Marks
    BY <2>1, OpNames, StepFacts, SourceStands
  <2>3. PICK d : d = After(Now, f, c)
    OBVIOUS
  <2>p. Passes(Now, f, c, 1)
    BY <2>2 DEF Passes, Ready
  <2>o. d \in Pictures[script][program][f][pos + 1]
    BY <2>1, <2>2, <2>3, <2>p, OpNames, Onward
  <2>5. /\ d.at = c.at /\ d.rows = c.at["memory"] /\ d.seen = c.seen /\ d.vetted = c.vetted
        /\ d.dir = c.dir /\ Shown(f, c).dir = c.dir
        /\ Shown(f, c).at = c.at /\ Shown(f, c).seen = c.seen /\ Shown(f, c).vetted = c.vetted
    BY <2>1, <2>2, <2>3, AfterProbe DEF Shown
  <2>6. probe'.rows[f] = val[d.rows]
    BY <1>6, <2>5 DEF WritesProbe, Fits, Places
  <2>7. Fits(d, f, val)'
    BY <1>6, <2>5, <2>6 DEF WritesProbe, Fits
  <2> QED
    BY <2>1, <2>o, <2>7
<1>7. CASE Branches
  <2>1. PICK op \in {"unless", "when", "need", "maybe"}, n \in {1, Now.skip + 1} :
            /\ At(op) /\ Goes(n)
            /\ op = "need" => n = 1
            /\ op = "unless" => n = IF Here # Absent THEN Now.skip + 1 ELSE 1
            /\ op = "when" => n = IF Here = Absent THEN Now.skip + 1 ELSE 1
            /\ op = "need" => Here # Absent
    BY <1>7 DEF Branches
  <2>2. /\ op \in Ops /\ Now.op = op /\ Now.to \in Places
        /\ c \in PictureSpace /\ Source(Now, c) \in Marks /\ Shown(f, c) = c
        /\ op \in {"unless", "when", "need"} /\ Now.file = f => Here = val[Source(Now, c)]
    BY <2>1, OpNames, StepFacts, SourceStands DEF FileOps
  <2>3. After(Now, f, c) = c
    BY <2>1, <2>2, AfterElse
  <2>4. Source(Now, c) # "absent" <=> val[Source(Now, c)] # Absent
    BY <2>2, LegendTells
  <2>8. PICK d : d = After(Now, f, c)
    OBVIOUS
  <2>p. Passes(Now, f, c, n)
    BY <2>1, <2>2, <2>4 DEF Passes, Ready, Branch
  <2>o. d \in Pictures[script][program][f][pos + n]
    BY <2>1, <2>2, <2>8, <2>p, OpNames, Onward
  <2>6. UNCHANGED <<dir, bytes, checked, seen, probe>>
    BY <1>7 DEF Branches
  <2>7. Fits(c, f, val)'
    BY <2>2, <2>6 DEF Fits
  <2> QED
    BY <2>1, <2>3, <2>7, <2>8, <2>o
<1> QED
  BY <1>1, <1>2, <1>3, <1>4, <1>5, <1>6, <1>7

(* A file that is opened for writing, and the one the probe is about.      *)
LEMMA FileOpened ==
    ASSUME CorpusInv, PictureInv, Opens \/ OpensProbe,
           NEW f \in Files, NEW c \in Drawn(f), NEW val \in [Marks -> Contents],
           Legend(val), Fits(Shown(f, c), f, val)
    PROVE  \E d \in Drawn(f)', v \in [Marks -> Contents] : Legend(v)' /\ Fits(Shown(f, d), f, v)'
<1>1. /\ ~half /\ half' /\ UNCHANGED <<script, program, pos, status, clock, dir, checked, seen>>
      /\ c \in Drawn(f)' /\ Now' = Now /\ Legend(val)'
  BY DEF Opens, OpensProbe, Drawn, Now, Legend
<1>2. Shown(f, c) = c
  BY <1>1 DEF Shown
<1>3. PICK d : d = Midway(Now, f, c)
  OBVIOUS
<1>4. Shown(f, c)' = d
  BY <1>1, <1>3 DEF Shown
<1>5. CASE Opens
  <2>1. At("write") /\ bytes' = [bytes EXCEPT ![Now.to][Now.file] = Torn] /\ probe' = probe
    BY <1>5 DEF Opens
  <2>2. /\ Now.op = "write" /\ Now.to \in Places /\ Now.file \in Files /\ c \in PictureSpace
    BY <2>1, OpNames, StepFacts, SourceStands DEF OpsAre, FileOps, PictureInv
  <2>3. CASE Now.file = f
    <3>1. /\ d.at = [c.at EXCEPT ![Now.to] = "torn"] /\ d.rows = c.rows /\ d.seen = c.seen
          /\ d.vetted = c.vetted /\ d.dir = c.dir /\ c.at \in [Places -> Marks]
      BY <1>3, <2>2, <2>3, MidwayWrite, MidwayKeeps, PictureFields
    <3>2. \A place \in Places : bytes'[place][f] = val[d.at[place]]
      <4> SUFFICES ASSUME NEW place \in Places PROVE bytes'[place][f] = val[d.at[place]]
        OBVIOUS
      <4>1. CASE place = Now.to
        BY <2>1, <2>2, <2>3, <3>1, <4>1 DEF CorpusInv, CorpusTypeOK, Legend
      <4>2. CASE place # Now.to
        <5>1. bytes'[place][f] = bytes[place][f] /\ d.at[place] = c.at[place]
          BY <2>1, <2>2, <3>1, <4>2 DEF CorpusInv, CorpusTypeOK
        <5> QED
          BY <1>2, <5>1 DEF Fits
      <4> QED
        BY <4>1, <4>2
    <3>3. Fits(d, f, val)'
      BY <1>1, <1>2, <2>1, <3>1, <3>2 DEF Fits
    <3> QED
      BY <1>1, <1>4, <3>3
  <2>4. CASE Now.file # f
    <3>1. d = c
      BY <1>3, <2>2, <2>4, AfterElse
    <3>2. \A place \in Places : bytes'[place][f] = bytes[place][f]
      BY <2>1, <2>2, <2>4 DEF CorpusInv, CorpusTypeOK
    <3>3. Fits(d, f, val)'
      BY <1>1, <1>2, <2>1, <3>1, <3>2 DEF Fits
    <3> QED
      BY <1>1, <1>4, <3>3
  <2> QED
    BY <2>3, <2>4
<1>6. CASE OpensProbe
  <2>1. At("probe") /\ bytes' = bytes /\ probe' = Blank
    BY <1>6 DEF OpensProbe
  <2>2. /\ Now.op = "probe" /\ c \in PictureSpace
    BY <2>1, OpNames, StepFacts, SourceStands DEF OpsAre, PictureInv
  <2>3. d.at = c.at /\ d.rows = "absent" /\ d.seen = c.seen /\ d.vetted = c.vetted /\ d.dir = c.dir
    BY <1>3, <2>2, AfterProbe
  <2>4. probe'.rows[f] = val[d.rows]
    BY <2>1, <2>3 DEF Blank, Nothing, Legend
  <2>5. Fits(d, f, val)'
    BY <1>1, <1>2, <2>1, <2>3, <2>4 DEF Fits
  <2> QED
    BY <1>1, <1>4, <2>5
<1> QED
  BY <1>5, <1>6

(* Every run begins with one of the pictures its program begins with.      *)
LEMMA BeginsPictured ==
    ASSUME CorpusInv, PictureInv, Starts, NEW f \in Files
    PROVE  \E d \in Drawn(f)', v \in [Marks -> Contents] : Legend(v)' /\ Fits(Shown(f, d), f, v)'
<1>1. /\ status # "running" /\ program' \in Programs[script] /\ pos' = 1 /\ half' = FALSE
      /\ clock' = clock + 1 /\ clock < MaxClock
      /\ UNCHANGED <<script, dir, bytes, checked, seen, probe>>
  BY DEF Starts
<1>2. /\ script \in Scripts /\ f \in FilesOf[script] /\ clock' \in Times /\ 0 \in Times
      /\ dir \in BOOLEAN
  BY <1>1, CorpusAssumption DEF CorpusInv, CorpusTypeOK, Files, Times
<1>3. /\ bytes["memory"][f] = Absent /\ seen[f] = Absent
      /\ bytes["scratch"][f] \in Contents /\ bytes["fixtures"][f] \in Contents
      /\ Silent(script) => probe.rows[f] = Absent
      /\ Lent(script, f) => /\ Whole(bytes["fixtures"][f])
                            /\ <<f, bytes["fixtures"][f]>> \in checked
  BY <1>1 DEF PictureInv, NothingKept, NothingTold, LentWhole, Nothing, CorpusInv, CorpusTypeOK, Places
<1> DEFINE old == bytes["scratch"][f]
           kept == bytes["fixtures"][f]
           mark(b, m) == IF b = Absent THEN "absent" ELSE IF b = Torn THEN "torn" ELSE m
           time(b) == IF Whole(b) THEN b ELSE 0
<1>4. PICK val :
        val = [m \in Marks |-> IF m = "absent" THEN Absent
                               ELSE IF m = "torn" THEN Torn
                               ELSE IF m = "made" THEN clock'
                               ELSE IF m = "found" THEN time(kept) ELSE time(old)]
  OBVIOUS
<1>5. time(kept) \in Times /\ time(old) \in Times
  BY <1>2, <1>3 DEF Whole, Contents
<1>6. /\ val \in [Marks -> Contents]
      /\ val["absent"] = Absent /\ val["torn"] = Torn /\ val["made"] = clock'
      /\ val["found"] = time(kept) /\ val["left"] = time(old)
  <2> HIDE DEF time
  <2> QED
    BY <1>2, <1>4, <1>5, Names, MarksAre
<1>7. Legend(val)'
  BY <1>5, <1>6 DEF Legend
<1>8. PICK d : d = Beginning(script, f, mark(old, "left"), mark(kept, "found"), dir)
  OBVIOUS
<1>9. d \in Beginnings(script, f)
  <2>1. mark(old, "left") \in {"absent", "torn", "left"}
    OBVIOUS
  <2>2. mark(kept, "found") \in IF Lent(script, f) THEN {"found"} ELSE {"absent", "torn", "found"}
    BY <1>3 DEF Whole
  <2> HIDE DEF mark
  <2> QED
    BY <1>2, <1>8, <2>1, <2>2 DEF Beginnings
<1>10. d \in Drawn(f)'
  BY <1>1, <1>2, <1>9, PictureFacts DEF Drawn
<1>11. /\ old = val[mark(old, "left")] /\ kept = val[mark(kept, "found")]
  BY <1>6 DEF Whole
<1>12. /\ d.at["memory"] = "absent" /\ d.at["scratch"] = mark(old, "left")
       /\ d.at["fixtures"] = mark(kept, "found")
       /\ d.rows = IF Silent(script) THEN "absent" ELSE "any"
       /\ d.seen = "absent" /\ d.vetted = IF Lent(script, f) THEN {"found"} ELSE {}
       /\ d.dir = dir
  <2> HIDE DEF mark
  <2> QED
    BY <1>8 DEF Beginning
<1>13. \A place \in Places : bytes[place][f] = val[d.at[place]]
  <2> HIDE DEF mark
  <2> QED
    BY <1>3, <1>6, <1>11, <1>12 DEF Places
<1>14. \A m \in d.vetted : <<f, val[m]>> \in checked
  <2> SUFFICES ASSUME Lent(script, f) PROVE <<f, val["found"]>> \in checked
    BY <1>12
  <2> QED
    BY <1>3, <1>6
<1>15. (d.rows = "any" \/ probe.rows[f] = val[d.rows]) /\ seen[f] = val[d.seen]
  BY <1>3, <1>6, <1>12
<1>16. Fits(d, f, val)'
  BY <1>1, <1>12, <1>13, <1>14, <1>15 DEF Fits
<1>17. Shown(f, d)' = d
  BY <1>1 DEF Shown
<1> QED
  BY <1>6, <1>7, <1>10, <1>16, <1>17

-------------------------------------------------------------------------------
(* The invariant.                                                          *)

(* The next states of a run, for what does not depend on the operation.    *)
OnTheWay == Cleans \/ MakesDir \/ Branches \/ Writes \/ Witnesses \/ Checks \/ WritesProbe
LEMMA OnTheWayIs ==
    ASSUME CorpusInv, HalfOfWrite, OnTheWay
    PROVE  /\ \E op \in Ops : At(op)
           /\ status = "running" /\ half' = FALSE
           /\ UNCHANGED <<script, program, status, clock>> /\ Files' = Files
<1>1. \E op \in Ops, n \in {1, Now.skip + 1} :
        /\ At(op) /\ Goes(n)
        /\ half' = FALSE \/ (op # "write" /\ op # "probe" /\ half' = half)
  BY OpNames DEF OpsAre, OnTheWay, Cleans, MakesDir, Branches, Writes, Witnesses, Checks, WritesProbe
<1>2. half \in BOOLEAN
  BY DEF CorpusInv, CorpusTypeOK
<1> QED
  BY <1>1, <1>2 DEF Goes, At, HalfOfWrite, Files

LEMMA EndingIs ==
    ASSUME Finishes \/ Refuses \/ Sticks \/ Crashes
    PROVE  \E how \in Statuses \ {"running"} : Ends(how)
BY DEF Finishes, Refuses, Sticks, Crashes, Statuses

LEMMA SameScript ==
    ASSUME [Next]_vars
    PROVE  script' = script /\ Files' = Files /\ Nothing' = Nothing
<1>1. script' = script
  BY DEF Next, Starts, Cleans, MakesDir, Branches, Opens, Writes, Witnesses, Checks, OpensProbe,
         WritesProbe, Finishes, Refuses, Sticks, Crashes, Lends, Pulls, Ends, Goes, vars
<1> QED
  BY <1>1 DEF Files, Nothing

LEMMA PictureInvInit == Init => PictureInv
<1> SUFFICES ASSUME Init PROVE PictureInv
  OBVIOUS
<1>1. script \in Scripts /\ half = FALSE /\ status = "idle" /\ seen = Nothing
  BY DEF Init
<1>2. bytes["memory"] = Nothing
  BY DEF Init
<1>3. NothingTold
  <2>1. CASE probe = Blank
    BY <2>1 DEF Blank, NothingTold
  <2>2. CASE probe = GivenProbe(0)
    <3>1. Silent(script) => Reported[script] = {}
      BY <1>1 DEF Silent, Reported
    <3>2. probe.rows = [f \in Files |-> IF f \in Reported[script] THEN 0 ELSE Absent]
      BY <2>2 DEF GivenProbe, Blank
    <3> QED
      BY <3>1, <3>2 DEF NothingTold, Nothing
  <2> QED
    BY <2>1, <2>2 DEF Init
<1>4. LentWhole
  <2> SUFFICES ASSUME NEW f \in Files, Lent(script, f)
               PROVE  Whole(bytes["fixtures"][f]) /\ <<f, bytes["fixtures"][f]>> \in checked
    BY DEF LentWhole
  <2>1. f \in Borrowed[script] /\ <<f, 0>> \in checked
    BY DEF Lent, Init
  <2>2. bytes["fixtures"][f] = 0
    BY <2>1 DEF Init, Given
  <2> QED
    BY <2>1, <2>2 DEF Whole, Absent, Torn
<1> QED
  BY <1>1, <1>2, <1>3, <1>4 DEF PictureInv, HalfOfWrite, NothingKept, Pictured

LEMMA HalfStep == CorpusInv /\ PictureInv /\ [Next]_vars => (HalfOfWrite /\ NothingKept)'
<1> SUFFICES ASSUME CorpusInv, PictureInv, [Next]_vars PROVE (HalfOfWrite /\ NothingKept)'
  OBVIOUS
<1> USE DEF PictureInv
<1>0. half \in BOOLEAN /\ status # "running" => ~half
  BY DEF CorpusInv, CorpusTypeOK, HalfOfWrite, At
<1>1. CASE Starts
  BY <1>1 DEF Starts, HalfOfWrite, NothingKept
<1>2. CASE OnTheWay
  BY <1>2, OnTheWayIs DEF HalfOfWrite, NothingKept
<1>3. CASE Opens
  BY <1>3 DEF Opens, HalfOfWrite, NothingKept, At, Now
<1>4. CASE OpensProbe
  BY <1>4 DEF OpensProbe, HalfOfWrite, NothingKept, At, Now
<1>5. CASE Finishes \/ Refuses \/ Sticks \/ Crashes
  <2>1. PICK how \in Statuses \ {"running"} : Ends(how)
    BY <1>5, EndingIs
  <2>2. bytes'["memory"] = Nothing /\ seen' = Nothing /\ half' = FALSE /\ Nothing' = Nothing
    BY <2>1 DEF Ends, CorpusInv, CorpusTypeOK, Places, Nothing, Files
  <2> QED
    BY <2>2 DEF HalfOfWrite, NothingKept
<1>6. CASE Lends \/ Pulls
  <2>1. /\ status # "running" /\ half' = half /\ seen' = seen
        /\ bytes'["memory"] = bytes["memory"] /\ Nothing' = Nothing
    BY <1>6 DEF Lends, Pulls, CorpusInv, CorpusTypeOK, Places, Nothing, Files
  <2> QED
    BY <1>0, <2>1 DEF HalfOfWrite, NothingKept
<1>7. CASE UNCHANGED vars
  BY <1>7 DEF vars, HalfOfWrite, NothingKept, At, Now, Nothing, Files
<1> QED
  BY <1>1, <1>2, <1>3, <1>4, <1>5, <1>6, <1>7 DEF Next, OnTheWay

LEMMA ToldStep == CorpusInv /\ PictureInv /\ [Next]_vars => NothingTold'
<1> SUFFICES ASSUME CorpusInv, PictureInv, [Next]_vars, Silent(script) PROVE probe'.rows = Nothing
  BY SameScript DEF NothingTold
<1>0. script \in Scripts
  BY DEF CorpusInv, CorpusTypeOK
<1>1. ~At("probe")
  <2> SUFFICES ASSUME At("probe") PROVE FALSE
    OBVIOUS
  <2>1. program \in Programs[script] /\ pos \in DOMAIN program /\ program[pos].op = "probe"
    BY OpNames, StepFacts DEF OpsAre, At
  <2> QED
    BY <2>1 DEF Silent
<1>2. CASE probe' = probe
  BY <1>2 DEF PictureInv, NothingTold
<1>3. CASE Pulls
  <2>1. probe' = GivenProbe(clock')
    BY <1>3 DEF Pulls
  <2>2. Reported[script] = {}
    BY <1>0 DEF Silent, Reported
  <2>3. probe'.rows = [f \in Files |-> IF f \in Reported[script] THEN clock' ELSE Absent]
    BY <2>1 DEF GivenProbe, Blank
  <2> QED
    BY <2>2, <2>3 DEF Nothing
<1>4. probe' = probe \/ Pulls
  BY <1>1 DEF Next, Starts, Cleans, MakesDir, Branches, Opens, Writes, Witnesses, Checks, OpensProbe,
         WritesProbe, Finishes, Refuses, Sticks, Crashes, Lends, Ends, vars
<1> QED
  BY <1>2, <1>3, <1>4

LEMMA LentStep == CorpusInv /\ PictureInv /\ [Next]_vars => LentWhole'
<1> SUFFICES ASSUME CorpusInv, PictureInv, [Next]_vars, NEW f \in Files, Lent(script, f)
             PROVE  Whole(bytes'["fixtures"][f]) /\ <<f, bytes'["fixtures"][f]>> \in checked'
  BY SameScript DEF LentWhole
<1>0. /\ Whole(bytes["fixtures"][f]) /\ <<f, bytes["fixtures"][f]>> \in checked
      /\ script \in Scripts /\ f \in Borrowed[script]
      /\ bytes \in [Places -> [Files -> Contents]] /\ "fixtures" \in Places
  BY DEF PictureInv, LentWhole, CorpusInv, CorpusTypeOK, Lent, Places
<1>1. CASE bytes' = bytes /\ checked \subseteq checked'
  BY <1>0, <1>1
<1>2. CASE Cleans
  <2>1. bytes'["fixtures"] = bytes["fixtures"] /\ checked' = checked
    BY <1>0, <1>2 DEF Cleans
  <2> QED
    BY <1>0, <2>1
<1>3. CASE Opens \/ Writes
  <2>1. At("write") /\ checked' = checked /\ \E b : bytes' = [bytes EXCEPT ![Now.to][Now.file] = b]
    BY <1>3 DEF Opens, Writes
  <2>2. Now.op = "write" /\ program \in Programs[script] /\ pos \in DOMAIN program
    BY <2>1, OpNames, StepFacts DEF OpsAre
  <2>3. ~(Now.file = f /\ Now.to = "fixtures")
    BY <2>2 DEF Lent, Puts, Now
  <2>4. bytes'["fixtures"][f] = bytes["fixtures"][f]
    BY <1>0, <2>1, <2>3
  <2> QED
    BY <1>0, <2>1, <2>4
<1>4. CASE Finishes \/ Refuses \/ Sticks \/ Crashes
  <2>1. PICK how \in Statuses \ {"running"} : Ends(how)
    BY <1>4, EndingIs
  <2>2. bytes'["fixtures"] = bytes["fixtures"]
    BY <1>0, <2>1 DEF Ends
  <2>3. <<f, bytes["fixtures"][f]>> \in checked'
    BY <1>0, <2>1 DEF Ends
  <2> QED
    BY <1>0, <2>2, <2>3
<1>5. CASE Lends
  <2>1. PICK g \in Borrowed[script] :
            /\ bytes' = [bytes EXCEPT !["fixtures"][g] = clock']
            /\ checked' = {c \in checked : c[1] # g} \cup {<<g, clock'>>}
    BY <1>5 DEF Lends
  <2>2. Whole(clock')
    BY <1>5, CorpusAssumption DEF Lends, CorpusInv, CorpusTypeOK, Times, Whole, Absent, Torn
  <2>3. CASE g = f
    BY <1>0, <2>1, <2>2, <2>3
  <2>4. CASE g # f
    <3>1. bytes'["fixtures"][f] = bytes["fixtures"][f]
      BY <1>0, <2>1, <2>4
    <3> QED
      BY <1>0, <2>1, <2>4, <3>1
  <2> QED
    BY <2>3, <2>4
<1>6. CASE Pulls
  <2>1. /\ bytes'["fixtures"] = Given(clock') /\ checked' = {<<g, clock'>> : g \in Files}
    BY <1>0, <1>6 DEF Pulls
  <2>2. Whole(clock')
    BY <1>6, CorpusAssumption DEF Pulls, CorpusInv, CorpusTypeOK, Times, Whole, Absent, Torn
  <2>3. Given(clock')[f] = clock'
    BY <1>0 DEF Given
  <2> QED
    BY <2>1, <2>2, <2>3
<1>7. \/ bytes' = bytes /\ checked \subseteq checked'
      \/ Cleans \/ Opens \/ Writes \/ Finishes \/ Refuses \/ Sticks \/ Crashes \/ Lends \/ Pulls
  BY DEF Next, Starts, MakesDir, Branches, Witnesses, Checks, OpensProbe, WritesProbe, vars
<1> QED
  BY <1>1, <1>2, <1>3, <1>4, <1>5, <1>6, <1>7

LEMMA PicturedStep == CorpusInv /\ PictureInv /\ [Next]_vars => Pictured'
<1> SUFFICES ASSUME CorpusInv, PictureInv, [Next]_vars PROVE Pictured'
  OBVIOUS
<1>0. CorpusInv' /\ script' = script /\ Files' = Files
  BY CorpusInvStep, SameScript
<1>1. CASE Starts
  BY <1>0, <1>1, BeginsPictured DEF Pictured
<1>2. CASE Opens \/ OpensProbe
  <2> SUFFICES ASSUME NEW f \in Files
               PROVE  \E d \in Drawn(f)', v \in [Marks -> Contents] :
                        Legend(v)' /\ Fits(Shown(f, d), f, v)'
    BY <1>0 DEF Pictured
  <2>1. status = "running"
    BY <1>2 DEF Opens, OpensProbe, At
  <2>2. PICK c \in Drawn(f), val \in [Marks -> Contents] : Legend(val) /\ Fits(Shown(f, c), f, val)
    BY <2>1 DEF PictureInv, Pictured
  <2> QED
    BY <1>2, <2>2, FileOpened
<1>3. CASE OnTheWay
  <2> SUFFICES ASSUME NEW f \in Files
               PROVE  \E d \in Drawn(f)', v \in [Marks -> Contents] :
                        Legend(v)' /\ Fits(Shown(f, d), f, v)'
    BY <1>0 DEF Pictured
  <2>1. status = "running" /\ half' = FALSE
    BY <1>3, OnTheWayIs DEF PictureInv
  <2>2. PICK c \in Drawn(f), val \in [Marks -> Contents] : Legend(val) /\ Fits(Shown(f, c), f, val)
    BY <2>1 DEF PictureInv, Pictured
  <2>3. PICK n \in {1, Now.skip + 1} :
            Goes(n) /\ \E d \in Pictures[script][program][f][pos + n] : Fits(d, f, val)'
    BY <1>3, <2>2, FileOverStep DEF OnTheWay
  <2>4. PICK d \in Pictures[script][program][f][pos + n] : Fits(d, f, val)'
    BY <2>3
  <2> QED
    BY <2>1, <2>2, <2>3, <2>4, Carries
<1>4. CASE Finishes \/ Refuses \/ Sticks \/ Crashes
  <2>1. PICK how \in Statuses \ {"running"} : Ends(how)
    BY <1>4, EndingIs
  <2> QED
    BY <2>1 DEF Ends, Pictured
<1>5. CASE Lends \/ Pulls
  BY <1>5 DEF Lends, Pulls, Pictured
<1>6. CASE UNCHANGED vars
  <2> SUFFICES ASSUME status = "running", NEW f \in Files
               PROVE  \E d \in Drawn(f)', v \in [Marks -> Contents] :
                        Legend(v)' /\ Fits(Shown(f, d), f, v)'
    BY <1>0, <1>6 DEF Pictured, vars
  <2>1. PICK c \in Drawn(f), val \in [Marks -> Contents] : Legend(val) /\ Fits(Shown(f, c), f, val)
    BY DEF PictureInv, Pictured
  <2>2. /\ half' = half /\ Now' = Now /\ c \in Drawn(f)' /\ Legend(val)'
        /\ bytes' = bytes /\ probe' = probe /\ seen' = seen /\ checked' = checked /\ dir' = dir
    BY <1>6, <2>1 DEF vars, Now, Drawn, Legend
  <2>3. PICK d : d = Shown(f, c)
    OBVIOUS
  <2>4. Shown(f, c)' = d /\ Fits(d, f, val)'
    BY <2>1, <2>2, <2>3 DEF Shown, Fits
  <2> QED
    BY <2>1, <2>2, <2>4
<1> QED
  BY <1>1, <1>2, <1>3, <1>4, <1>5, <1>6 DEF Next, OnTheWay

LEMMA PictureInvStep == CorpusInv /\ PictureInv /\ [Next]_vars => PictureInv'
BY HalfStep, ToldStep, LentStep, PicturedStep DEF PictureInv

-------------------------------------------------------------------------------
(* What the pictures say of a run is true of it.                           *)

LEMMA FinishTells ==
    ASSUME CorpusInv, PictureInv, Finishes
    PROVE  ProbeTellsTheCorpus'
<1>1. /\ status = "running" /\ pos = Len(program) + 1 /\ Ends("done")
  BY DEF Finishes
<1>2. script \in Scripts /\ program \in Programs[script]
  BY <1>1 DEF CorpusInv, CorpusTypeOK, RunOfProgram
<1>3. Len(program) \in Nat /\ DOMAIN program = 1..Len(program)
  BY <1>2, ProgramFacts
<1>4. ~half
  BY <1>1, <1>3 DEF PictureInv, HalfOfWrite, At
<1> SUFFICES ASSUME NEW f \in Files, probe.rows[f] # Absent
             PROVE  /\ probe.rows[f] = bytes["fixtures"][f] /\ Whole(probe.rows[f])
                    /\ (\E i \in DOMAIN program : program[i].op = "check") =>
                           <<f, probe.rows[f]>> \in checked
  <2>1. /\ Files' = Files /\ probe' = probe /\ program' = program
        /\ bytes'["fixtures"] = bytes["fixtures"]
        /\ checked' = {c \in checked : bytes["fixtures"][c[1]] = c[2]}
    BY <1>1 DEF Ends, Files, CorpusInv, CorpusTypeOK, Places
  <2> QED
    BY <2>1 DEF ProbeTellsTheCorpus
<1>5. PICK c \in Drawn(f), val \in [Marks -> Contents] : Legend(val) /\ Fits(c, f, val)
  BY <1>1, <1>4 DEF PictureInv, Pictured, Shown
<1>6. /\ c \in PictureSpace
      /\ c.rows # "absent" =>
            /\ c.rows \in Making /\ c.rows = c.at["fixtures"]
            /\ (\E i \in DOMAIN program : program[i].op = "check") => c.rows \in c.vetted
  BY <1>1, <1>2, <1>3, PictureFacts DEF EndsTold, Drawn, Files
<1>7. c.rows # "absent" /\ c.rows # "any" /\ probe.rows[f] = val[c.rows]
  BY <1>5, <1>6 DEF Fits, Legend, Making
<1>8. c.rows \in Making /\ c.rows \in Marks /\ bytes["fixtures"][f] = val[c.rows]
  BY <1>5, <1>6, <1>7, MarksAre DEF Fits, Places
<1>9. Whole(val[c.rows])
  BY <1>5, <1>8, LegendTells
<1>10. c.rows \in c.vetted => <<f, val[c.rows]>> \in checked
  BY <1>5 DEF Fits
<1> QED
  BY <1>6, <1>7, <1>8, <1>9, <1>10

LEMMA TellsStep ==
    CorpusInv /\ PictureInv /\ ProbeTellsTheCorpus /\ [Next]_vars => ProbeTellsTheCorpus'
<1> SUFFICES ASSUME CorpusInv, PictureInv, ProbeTellsTheCorpus, [Next]_vars
             PROVE  ProbeTellsTheCorpus'
  OBVIOUS
<1>1. CASE status' # "done"
  BY <1>1 DEF ProbeTellsTheCorpus
<1>2. CASE Finishes
  BY <1>2, FinishTells
<1>3. CASE UNCHANGED vars
  BY <1>3 DEF vars, ProbeTellsTheCorpus, Files
<1>4. CASE OnTheWay \/ Opens \/ OpensProbe
  BY <1>1, <1>4, OnTheWayIs DEF PictureInv, Opens, OpensProbe, At
<1>5. CASE Starts \/ Refuses \/ Sticks \/ Crashes \/ Lends \/ Pulls
  BY <1>1, <1>5 DEF Starts, Refuses, Sticks, Crashes, Lends, Pulls, Ends
<1> QED
  BY <1>2, <1>3, <1>4, <1>5 DEF Next, OnTheWay

(* A run to its end leaves a probe of the very bytes in the corpus, all of *)
(* them checked, for every script whose programs have pictures that say    *)
(* so, whatever earlier runs, pulls and neighbours left to it.             *)
THEOREM ProbesAlwaysTellTheCorpus == Spec => []ProbeTellsTheCorpus
<1>1. Init => CorpusInv /\ PictureInv /\ ProbeTellsTheCorpus
  <2>1. Init => ProbeTellsTheCorpus
    BY DEF Init, ProbeTellsTheCorpus
  <2> QED
    BY <2>1, CorpusInvInit, PictureInvInit
<1>2. CorpusInv /\ PictureInv /\ ProbeTellsTheCorpus /\ [Next]_vars
        => (CorpusInv /\ PictureInv /\ ProbeTellsTheCorpus)'
  BY CorpusInvStep, PictureInvStep, TellsStep
<1> QED
  BY <1>1, <1>2, PTL DEF Spec

LEMMA WritingReadsAsOne ==
    ASSUME CorpusInv, PictureInv, WritesProbe, script \notin Apart
    PROVE  OneReading'
<1>1. At("probe") /\ half /\ probe' = [rows |-> bytes["memory"], seen |-> seen] /\ Goes(1)
  BY DEF WritesProbe
<1>2. /\ script \in Scripts /\ program \in Programs[script] /\ pos \in DOMAIN program
      /\ Now.op = "probe" /\ status = "running"
  BY <1>1, OpNames, StepFacts DEF OpsAre, At
<1> SUFFICES ASSUME NEW f \in Files, bytes["memory"][f] # Absent
             PROVE  seen[f] \in {Absent, bytes["memory"][f]}
  <2>1. Files' = Files
    BY <1>1 DEF Goes, Files
  <2> QED
    BY <1>1, <2>1 DEF OneReading
<1>3. PICK c \in Drawn(f), val \in [Marks -> Contents] : Legend(val) /\ Fits(Shown(f, c), f, val)
  BY <1>2 DEF PictureInv, Pictured
<1>4. c \in PictureSpace
  BY <1>1, <1>3, OpNames, SourceStands DEF OpsAre, PictureInv
<1>5. Shown(f, c).at = c.at /\ Shown(f, c).seen = c.seen
  BY <1>2, <1>4, AfterProbe DEF Shown
<1>6. bytes["memory"][f] = val[c.at["memory"]] /\ seen[f] = val[c.seen]
  BY <1>3, <1>5 DEF Fits, Places
<1>7. c.at["memory"] # "absent"
  BY <1>3, <1>6 DEF Legend
<1>8. c.seen \in {"absent", c.at["memory"]}
  BY <1>2, <1>7, PictureFacts DEF ReadAsOne, Drawn, Files, Now
<1> QED
  BY <1>3, <1>6, <1>8 DEF Legend

LEMMA OneReadingStep ==
    CorpusInv /\ PictureInv /\ OneReadingElsewhere /\ [Next]_vars => OneReadingElsewhere'
<1> SUFFICES ASSUME CorpusInv, PictureInv, OneReadingElsewhere, [Next]_vars, script \notin Apart
             PROVE  OneReading'
  BY SameScript DEF OneReadingElsewhere
<1>1. CASE WritesProbe
  BY <1>1, WritingReadsAsOne
<1>2. CASE probe' = probe
  BY <1>2, SameScript DEF OneReadingElsewhere, OneReading
<1>3. CASE OpensProbe \/ Pulls
  <2>1. (probe' = Blank \/ probe' = GivenProbe(clock')) /\ Files' = Files
    BY <1>3, SameScript DEF OpensProbe, Pulls
  <2>2. probe'.seen = Nothing
    BY <2>1 DEF Blank, GivenProbe
  <2> QED
    BY <2>1, <2>2 DEF OneReading, Nothing
<1> QED
  BY <1>1, <1>2, <1>3
     DEF Next, Starts, Cleans, MakesDir, Branches, Opens, Writes, Witnesses, Checks,
         Finishes, Refuses, Sticks, Crashes, Lends, Ends, vars

(* The rows of a probe and the witness's readings beside them are of the   *)
(* same bytes at every moment, torn probes and pulled ones included, for   *)
(* every script but those known to open two copies.                        *)
THEOREM ProbesAlwaysOfOneReading == Spec => []OneReadingElsewhere
<1>1. Init => CorpusInv /\ PictureInv /\ OneReadingElsewhere
  <2> SUFFICES ASSUME Init PROVE OneReading
    BY CorpusInvInit, PictureInvInit DEF OneReadingElsewhere
  <2>1. probe.seen = Nothing
    BY DEF Init, Blank, GivenProbe
  <2> QED
    BY <2>1 DEF OneReading, Nothing
<1>2. CorpusInv /\ PictureInv /\ OneReadingElsewhere /\ [Next]_vars
        => (CorpusInv /\ PictureInv /\ OneReadingElsewhere)'
  BY CorpusInvStep, PictureInvStep, OneReadingStep
<1> QED
  BY <1>1, <1>2, PTL DEF Spec

LEMMA PublishedStep ==
    CorpusInv /\ PictureInv /\ PublishedAreChecked /\ [Next]_vars => PublishedAreChecked'
<1> SUFFICES ASSUME CorpusInv, PictureInv, PublishedAreChecked, [Next]_vars,
                    script \in Careful, NEW f \in Files, Whole(bytes'["fixtures"][f])
             PROVE  <<f, bytes'["fixtures"][f]>> \in checked'
  BY SameScript DEF PublishedAreChecked
<1>0. /\ Whole(bytes["fixtures"][f]) => <<f, bytes["fixtures"][f]>> \in checked
      /\ script \in Scripts
      /\ bytes \in [Places -> [Files -> Contents]] /\ "fixtures" \in Places
  BY DEF PublishedAreChecked, CorpusInv, CorpusTypeOK, Places
<1>1. CASE bytes' = bytes /\ checked \subseteq checked'
  BY <1>0, <1>1
<1>2. CASE Cleans
  <2>1. bytes'["fixtures"] = bytes["fixtures"] /\ checked' = checked
    BY <1>0, <1>2 DEF Cleans
  <2> QED
    BY <1>0, <2>1
<1>3. CASE Opens
  <2>1. bytes' = [bytes EXCEPT ![Now.to][Now.file] = Torn] /\ checked' = checked
    BY <1>3 DEF Opens
  <2>2. bytes'["fixtures"][f] \in {bytes["fixtures"][f], Torn}
    BY <1>0, <2>1
  <2> QED
    BY <1>0, <2>1, <2>2 DEF Whole
<1>4. CASE Writes
  <2>1. /\ At("write") /\ checked' = checked /\ bytes' = [bytes EXCEPT ![Now.to][Now.file] = Written]
    BY <1>4 DEF Writes
  <2>2. /\ Now.op = "write" /\ program \in Programs[script] /\ pos \in DOMAIN program
        /\ status = "running"
    BY <2>1, OpNames, StepFacts DEF OpsAre, At
  <2>3. CASE Now.file = f /\ Now.to = "fixtures"
    <3>1. PICK c \in Drawn(f), val \in [Marks -> Contents] : Legend(val) /\ Fits(Shown(f, c), f, val)
      BY <2>2 DEF PictureInv, Pictured
    <3>2. Source(Now, c) \in c.vetted
      BY <1>0, <2>2, <2>3, PictureFacts DEF ChecksFirst, Drawn, Files, Now
    <3>3. c \in PictureSpace /\ Written = val[Source(Now, c)]
      BY <2>1, <2>3, <3>1, OpNames, SourceStands DEF OpsAre, PictureInv
    <3>4. Shown(f, c).vetted = c.vetted
      <4>1. Now.op = "write" /\ Now.file = f /\ c \in PictureSpace
        BY <2>2, <2>3, <3>3
      <4>2. Midway(Now, f, c).vetted = c.vetted
        BY <4>1, MidwayKeeps
      <4> QED
        BY <4>2 DEF Shown
    <3>5. <<f, Written>> \in checked
      BY <3>1, <3>2, <3>3, <3>4 DEF Fits
    <3> QED
      BY <1>0, <2>1, <2>3, <3>5
  <2>4. CASE ~(Now.file = f /\ Now.to = "fixtures")
    <3>1. bytes'["fixtures"][f] = bytes["fixtures"][f]
      BY <1>0, <2>1, <2>4
    <3> QED
      BY <1>0, <2>1, <3>1
  <2> QED
    BY <2>3, <2>4
<1>5. CASE Finishes \/ Refuses \/ Sticks \/ Crashes
  <2>1. PICK how \in Statuses \ {"running"} : Ends(how)
    BY <1>5, EndingIs
  <2>2. /\ bytes'["fixtures"] = bytes["fixtures"]
        /\ checked' = {c \in checked : bytes["fixtures"][c[1]] = c[2]}
    BY <1>0, <2>1 DEF Ends
  <2> QED
    BY <1>0, <2>2
<1>6. CASE Lends
  <2>1. PICK g \in Borrowed[script] :
            /\ bytes' = [bytes EXCEPT !["fixtures"][g] = clock']
            /\ checked' = {c \in checked : c[1] # g} \cup {<<g, clock'>>}
    BY <1>6 DEF Lends
  <2>2. f = g => bytes'["fixtures"][f] = clock'
    BY <1>0, <2>1
  <2>3. f # g => bytes'["fixtures"][f] = bytes["fixtures"][f]
    BY <1>0, <2>1
  <2> QED
    BY <1>0, <2>1, <2>2, <2>3
<1>7. CASE Pulls
  <2>1. bytes'["fixtures"] = Given(clock') /\ checked' = {<<g, clock'>> : g \in Files}
    BY <1>0, <1>7 DEF Pulls
  <2>2. bytes'["fixtures"][f] \in {clock', Absent}
    BY <2>1 DEF Given
  <2> QED
    BY <2>1, <2>2 DEF Whole
<1>8. \/ bytes' = bytes /\ checked \subseteq checked'
      \/ Cleans \/ Opens \/ Writes \/ Finishes \/ Refuses \/ Sticks \/ Crashes \/ Lends \/ Pulls
  BY DEF Next, Starts, MakesDir, Branches, Witnesses, Checks, OpensProbe, WritesProbe, vars
<1> QED
  BY <1>1, <1>2, <1>3, <1>4, <1>5, <1>6, <1>7, <1>8

(* Nothing unchecked lies among the fixtures of a script whose programs    *)
(* check what they put there: not while a run goes on, nor where it was    *)
(* cut off or refused, whatever was pulled or rewritten before.            *)
THEOREM CarefulScriptsPublishChecked == Spec => []PublishedAreChecked
<1>1. Init => CorpusInv /\ PictureInv /\ PublishedAreChecked
  <2> SUFFICES ASSUME Init PROVE PublishedAreChecked
    BY CorpusInvInit, PictureInvInit
  <2>1. \A f \in Files : bytes["fixtures"][f] \in {0, Absent} /\ <<f, 0>> \in checked
    BY DEF Init, Given, Nothing
  <2> QED
    BY <2>1 DEF PublishedAreChecked, Whole
<1>2. CorpusInv /\ PictureInv /\ PublishedAreChecked /\ [Next]_vars
        => (CorpusInv /\ PictureInv /\ PublishedAreChecked)'
  BY CorpusInvStep, PictureInvStep, PublishedStep
<1> QED
  BY <1>1, <1>2, PTL DEF Spec

(* Nothing that a script which rebuilds comes to is missing or torn.       *)
LEMMA NeverSticks ==
    ASSUME CorpusInv, PictureInv, script \in Rebuilders
    PROVE  ~Sticks
<1> SUFFICES ASSUME Sticks PROVE FALSE
  OBVIOUS
<1>1. PICK op \in {"write", "witness", "check"} :
        /\ At(op)
        /\ op = "write" => ~half /\ ~CanWrite
        /\ op # "write" => ~Whole(Here)
  BY DEF Sticks
<1>2. op \in Ops /\ op \in FileOps
  BY OpNames DEF FileOps, OpsAre
<1>3. /\ script \in Scripts /\ program \in Programs[script] /\ pos \in DOMAIN program
      /\ Now.op = op /\ Now.file \in Files /\ status = "running"
  BY <1>1, <1>2, StepFacts DEF At
<1>4. PICK f \in Files : f = Now.file
  BY <1>3
<1>5. PICK c \in Drawn(f), val \in [Marks -> Contents] : Legend(val) /\ Fits(Shown(f, c), f, val)
  BY <1>3 DEF PictureInv, Pictured
<1>6. /\ Source(Now, c) \in Marks
      /\ op # "write" => ~half /\ Here = val[Source(Now, c)]
      /\ op = "write" => Written = val[Source(Now, c)]
  BY <1>1, <1>2, <1>4, <1>5, SourceStands DEF PictureInv, FileOps
<1>7. Ready(Now, f, c)
  BY <1>3, <1>4, PictureFacts DEF Rebuilds, Drawn, Files, Now
<1>8. CASE op = "write"
  <2>1. Source(Now, c) # "absent" /\ (Now.to = "scratch" => c.dir)
    BY <1>3, <1>4, <1>7, <1>8 DEF Ready
  <2>2. Written # Absent
    BY <1>5, <1>6, <1>8, <2>1, LegendTells
  <2>3. c.dir = dir
    BY <1>1, <1>5, <1>8 DEF Shown, Fits
  <2> QED
    BY <1>1, <1>8, <2>1, <2>2, <2>3 DEF CanWrite
<1>9. CASE op # "write"
  <2>1. Source(Now, c) \in Making
    BY <1>1, <1>3, <1>4, <1>7, <1>9 DEF Ready
  <2>2. Whole(Here)
    BY <1>5, <1>6, <1>9, <2>1, LegendTells
  <2> QED
    BY <1>1, <1>9, <2>2
<1> QED
  BY <1>8, <1>9

(* A run that is cut off anywhere, with files half written, and then       *)
(* pulled over or beside rewritten neighbours, never makes a later run     *)
(* trip, for every script whose programs come to each operation with what  *)
(* it asks for.                                                            *)
THEOREM RebuildingScriptsNeverStick == Spec => []RebuildingNeverSticks
<1>1. Init => CorpusInv /\ PictureInv /\ RebuildingNeverSticks
  <2>1. Init => RebuildingNeverSticks
    BY DEF Init, RebuildingNeverSticks
  <2> QED
    BY <2>1, CorpusInvInit, PictureInvInit
<1>2. CorpusInv /\ PictureInv /\ RebuildingNeverSticks /\ [Next]_vars
        => (CorpusInv /\ PictureInv /\ RebuildingNeverSticks)'
  <2> SUFFICES ASSUME CorpusInv, PictureInv, RebuildingNeverSticks, [Next]_vars
               PROVE  RebuildingNeverSticks'
    BY CorpusInvStep, PictureInvStep
  <2>1. script \in Rebuilders => ~Sticks
    BY NeverSticks
  <2>2. script' = script
    BY SameScript
  <2>3. status' = "stuck" => status = "stuck" \/ Sticks
    BY DEF Next, Starts, Cleans, MakesDir, Branches, Opens, Writes, Witnesses, Checks, OpensProbe,
           WritesProbe, Finishes, Refuses, Crashes, Lends, Pulls, Ends, Goes, At, vars
  <2> QED
    BY <2>1, <2>2, <2>3 DEF RebuildingNeverSticks
<1> QED
  BY <1>1, <1>2, PTL DEF Spec
===============================================================================
