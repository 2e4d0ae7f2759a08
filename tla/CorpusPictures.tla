---------------------------- MODULE CorpusPictures -----------------------------
(***************************************************************************)
(* The text of a program followed for one file at a time, without running  *)
(* it.  A picture says of which making the file is in each place, by where *)
(* this run has it from: made in it, found among the fixtures when it      *)
(* began, or left in scratch by an earlier one.  It knows nothing of other *)
(* files, of the clock, or of runs that were cut off, so a program has few *)
(* pictures: those it starts with, and those its operations lead to.  What *)
(* all of them agree on at an operation is then true of every run that     *)
(* comes to it (CorpusProofs).                                             *)
(***************************************************************************)
EXTENDS Corpus

CONSTANT Pictures   \* Pictures[s][p][f][i]: what may be known of f where program p comes to i

Making == {"made", "found", "left"}
Marks == Making \cup {"absent", "torn"}
PictureSpace == [at : [Places -> Marks], rows : Marks \cup {"any"}, seen : Marks,
                 vetted : SUBSET Making, dir : BOOLEAN]

(* A neighbour's fixture which the script never writes is always whole,    *)
(* and its neighbour has checked it.                                       *)
Lent(s, f) == f \in Borrowed[s] /\ \A p \in Programs[s] : ~Puts(p, f)
Silent(s) == \A p \in Programs[s] : \A i \in DOMAIN p : p[i].op # "probe"

(* A run begins with empty memory and whatever lies on the disk.           *)
Beginning(s, f, old, kept, made) ==
    [at |-> [memory |-> "absent", scratch |-> old, fixtures |-> kept],
     rows |-> IF Silent(s) THEN "absent" ELSE "any",
     seen |-> "absent",
     vetted |-> IF Lent(s, f) THEN {"found"} ELSE {},
     dir |-> made]
Beginnings(s, f) ==
    {Beginning(s, f, old, kept, made) :
        old \in {"absent", "torn", "left"},
        kept \in IF Lent(s, f) THEN {"found"} ELSE {"absent", "torn", "found"},
        made \in BOOLEAN}

(* What a step asks for, and the number of steps it then goes on by.      *)
Source(step, c) == IF step.from = "tool" THEN "made" ELSE c.at[step.from]
Ready(step, f, c) ==
    step.file = f =>
        /\ step.op = "write" => Source(step, c) # "absent" /\ (step.to = "scratch" => c.dir)
        /\ step.op \in {"witness", "check"} => Source(step, c) \in Making
Passes(step, f, c, n) ==
    /\ Ready(step, f, c)
    /\ n = 1 \/ (Branch(step) /\ n = step.skip + 1)
    /\ step.file = f =>
        /\ step.op = "unless" => n = IF Source(step, c) # "absent" THEN step.skip + 1 ELSE 1
        /\ step.op = "when" => n = IF Source(step, c) = "absent" THEN step.skip + 1 ELSE 1
        /\ step.op = "need" => Source(step, c) # "absent"

After(step, f, c) ==
    CASE step.op = "clean" -> [c EXCEPT !.at = [@ EXCEPT !["scratch"] = "absent"], !.dir = TRUE]
      [] step.op = "mkdir" -> [c EXCEPT !.dir = TRUE]
      [] step.op = "probe" -> [c EXCEPT !.rows = c.at["memory"]]
      [] step.op = "write" /\ step.file = f -> [c EXCEPT !.at = [@ EXCEPT ![step.to] = Source(step, c)]]
      [] step.op = "witness" /\ step.file = f -> [c EXCEPT !.seen = Source(step, c)]
      [] step.op = "check" /\ step.file = f -> [c EXCEPT !.vetted = @ \cup {Source(step, c)}]
      [] OTHER -> c

(* A file that is open for writing has lost its old bytes.                 *)
Midway(step, f, c) ==
    CASE step.op = "probe" -> [c EXCEPT !.rows = "absent"]
      [] step.op = "write" /\ step.file = f -> [c EXCEPT !.at = [@ EXCEPT ![step.to] = "torn"]]
      [] OTHER -> c

(* The pictures of a file follow from each other along the program.        *)
Follow(s, p, f, drawn) ==
    /\ \A i \in 1..(Len(p) + 1) : drawn[i] \subseteq PictureSpace
    /\ Beginnings(s, f) \subseteq drawn[1]
    /\ \A i \in DOMAIN p : \A c \in drawn[i] : \A n \in {1, p[i].skip + 1} :
        Passes(p[i], f, c, n) => After(p[i], f, c) \in drawn[i + n]

(* Where the program ends, the rows it may have written are of what is     *)
(* then among the fixtures, and of what was checked if it checks anything. *)
EndsTold(s, p, f, drawn) ==
    \A c \in drawn[Len(p) + 1] : c.rows # "absent" =>
        /\ c.rows \in Making /\ c.rows = c.at["fixtures"]
        /\ (\E i \in DOMAIN p : p[i].op = "check") => c.rows \in c.vetted

(* Where it writes the probe, its witnesses last read what it read.        *)
ReadAsOne(s, p, f, drawn) ==
    \A i \in DOMAIN p : p[i].op = "probe" => \A c \in drawn[i] :
        c.at["memory"] # "absent" => c.seen \in {"absent", c.at["memory"]}

(* What it puts among the fixtures has been checked.                       *)
ChecksFirst(s, p, f, drawn) ==
    \A i \in DOMAIN p : p[i].op = "write" /\ p[i].file = f /\ p[i].to = "fixtures" =>
        \A c \in drawn[i] : Source(p[i], c) \in c.vetted

(* It comes to every operation with what that asks for.                    *)
Rebuilds(s, p, f, drawn) == \A i \in DOMAIN p : \A c \in drawn[i] : Ready(p[i], f, c)

ASSUME PicturesAssumption ==
    \A s \in Scripts : \A p \in Programs[s] :
        /\ \A i \in DOMAIN p : p[i].op = "write" => p[i].from # p[i].to
        /\ \A f \in FilesOf[s] :
            /\ Follow(s, p, f, Pictures[s][p][f])
            /\ EndsTold(s, p, f, Pictures[s][p][f])
            /\ s \notin Apart => ReadAsOne(s, p, f, Pictures[s][p][f])
            /\ s \in Careful => ChecksFirst(s, p, f, Pictures[s][p][f])
            /\ s \in Rebuilders => Rebuilds(s, p, f, Pictures[s][p][f])
===============================================================================
