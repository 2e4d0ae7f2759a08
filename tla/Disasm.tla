------------------------------- MODULE Disasm -------------------------------
(***************************************************************************)
(* disasm/shim.c: four passes over one window of code - the listing, the   *)
(* cross-references, the functions and blocks, the control-flow edges -    *)
(* that all answer out of one row buffer of fixed length.                  *)
(*                                                                         *)
(* Capstone is outside: a window comes as the instructions it decodes to.  *)
(* Addresses are natural numbers, so a window does not wrap around.        *)
(***************************************************************************)
EXTENDS Naturals, FiniteSets, SequencesExt

CONSTANTS
    Windows,        \* the windows a caller may hand over
    RowMaxSeen,     \* ROW_MAX_SEEN: the length of the row buffer
    MaxTargets,     \* MAX_TARGETS
    MaxBlocks,      \* MAX_BLOCKS
    MaxFuncs,       \* MAX_FUNCS
    MaxEdges        \* MAX_EDGES

Ends == {"none", "call", "jump", "ret"}

(* One decoded instruction: its place, what terminator() says of it,       *)
(* whether a jump may fall through, the immediates collect() finds in a    *)
(* call or jump, and how many RIP-relative operands it has.                *)
Insns == [at : Nat, size : Nat \ {0}, ends : Ends, cond : BOOLEAN,
          imms : Seq(Nat), mems : Nat]

Stop(in) == in.at + in.size

(* What cs_disasm returns: instructions one behind the other from pc, not  *)
(* beyond the window, and perhaps ending early.                            *)
Decoded(w) ==
    /\ \A i \in DOMAIN w.insns :
          /\ w.insns[i].at = IF i = 1 THEN w.pc ELSE Stop(w.insns[i - 1])
          /\ Stop(w.insns[i]) <= w.pc + w.len
          /\ w.insns[i].ends \in {"none", "ret"} => w.insns[i].imms = <<>>

ASSUME DisasmAssumption ==
    /\ Windows \subseteq {w \in [pc : Nat, len : Nat, insns : Seq(Insns)] : Decoded(w)}
    /\ {MaxTargets, MaxBlocks, MaxFuncs, MaxEdges} \subseteq Nat \ {0}
    /\ RowMaxSeen \in Nat /\ RowMaxSeen >= 4

VARIABLES
    window,     \* the bytes at hand
    pass,       \* the pass that filled the rows, "none" before the first
    rows        \* rows[0 .. listed - 1]

vars == <<window, pass, rows>>

-----------------------------------------------------------------------------
FirstOf(seq, n) == SubSeq(seq, 1, IF Len(seq) < n THEN Len(seq) ELSE n)

(* rows go in while `listed < ROW_MAX_SEEN - reserve`                      *)
Fill(before, new, reserve) ==
    LET room == IF RowMaxSeen - reserve > Len(before)
                THEN RowMaxSeen - reserve - Len(before) ELSE 0
    IN  before \o FirstOf(new, room)

(* Whatever was left out is announced, and the summary comes last, neither *)
(* of them asking whether there is room.                                   *)
Close(before, cut) ==
    before \o (IF cut THEN <<[row |-> "cut"]>> ELSE <<>>) \o <<[row |-> "summary"]>>

InWindow(w, a) == w.pc <= a /\ a < w.pc + w.len

CodeRefs(in) == [j \in DOMAIN in.imms |-> [from |-> in.at, kind |-> in.ends, to |-> in.imms[j]]]

DataRefs(in) == [j \in 1 .. in.mems |-> [from |-> in.at, kind |-> "mem", to |-> 0]]

(* The immediates of some kinds that lie in the window, each at its place: *)
(* the instruction and the operand.                                        *)
Sites(w, kinds) ==
    UNION {{<<i, j>> : j \in {n \in DOMAIN w.insns[i].imms : InWindow(w, w.insns[i].imms[n])}} :
               i \in {n \in DOMAIN w.insns : w.insns[n].ends \in kinds}}

At(w, s) == w.insns[s[1]].imms[s[2]]

Upto(w, kinds, s) ==
    {w.pc} \cup {At(w, t) : t \in {u \in Sites(w, kinds) :
                                     u[1] < s[1] \/ (u[1] = s[1] /\ u[2] <= s[2])}}

(* remember: the entry and what comes after it, until the list is full     *)
Remembered(w, kinds) ==
    {w.pc} \cup {At(w, s) : s \in {t \in Sites(w, kinds) :
                                     Cardinality(Upto(w, kinds, t)) <= MaxTargets}}

Forgets(w, kinds) == \E s \in Sites(w, kinds) : At(w, s) \notin Remembered(w, kinds)

Leaders(w) == Remembered(w, {"call", "jump"})

(* qsort of a list without repetitions: its members in order               *)
Ascending(S) ==
    [k \in 1 .. Cardinality(S) |-> CHOOSE a \in S : Cardinality({b \in S : b < a}) = k - 1]

Starts(w) == Ascending(Remembered(w, {"call"}))

(* mutant: only a terminator closes a block                                *)
ClosesAtTerminator(w, leaders, i) == w.insns[i].ends # "none" \/ i = Len(w.insns)

Closes(w, leaders, i) ==
    \/ w.insns[i].ends # "none"
    \/ i = Len(w.insns)
    \/ w.insns[i + 1].at \in leaders

AllBlocks(w) ==
    LET leaders == Leaders(w)
        last == Ascending({i \in DOMAIN w.insns : Closes(w, leaders, i)})
        first(k) == IF k = 1 THEN 1 ELSE last[k - 1] + 1
    IN  [k \in DOMAIN last |->
            [from |-> w.insns[first(k)].at, to |-> Stop(w.insns[last[k]]),
             insns |-> last[k] + 1 - first(k), last |-> w.insns[last[k]]]]

Blocks(w) == FirstOf(AllBlocks(w), MaxBlocks)
BlocksCut(w) == Len(AllBlocks(w)) > MaxBlocks

DecodedEnd(w) == Stop(w.insns[Len(w.insns)])

-----------------------------------------------------------------------------
(* disasm_run: the listing, silently as long as there is room.             *)
Listing(w) == Fill(<<>>, [i \in DOMAIN w.insns |-> [row |-> "insn", at |-> w.insns[i].at]], 0)

(* disasm_xrefs: every reference, in the window or not.                    *)
Xrefs(w) ==
    LET found == FlattenSeq([i \in DOMAIN w.insns |->
                                CodeRefs(w.insns[i]) \o DataRefs(w.insns[i])])
        listed == Fill(<<>>, [n \in DOMAIN found |-> [row |-> "xref", ref |-> found[n]]], 1)
    IN  Close(listed, Len(found) > Len(listed))

(* disasm_funcs *)
FuncEnd(w, starts, k) == IF k < Len(starts) THEN starts[k + 1] ELSE DecodedEnd(w)

FuncRow(w, starts, blocks, k) ==
    LET within(a) == starts[k] <= a /\ a < FuncEnd(w, starts, k)
    IN  [row |-> "func", func |-> k, start |-> starts[k], end |-> FuncEnd(w, starts, k),
         insns |-> Cardinality({i \in DOMAIN w.insns : within(w.insns[i].at)}),
         blocks |-> Cardinality({b \in DOMAIN blocks : within(blocks[b].from)})]

(* mutant: the search stops at the first                                   *)
OwnerFirst(starts, b) == Min({k \in DOMAIN starts : starts[k] <= b.from})

(* the last function that begins at or before the block                    *)
Owner(starts, b) == Max({k \in DOMAIN starts : starts[k] <= b.from})

BlockRow(starts, b) ==
    [row |-> "block", func |-> Owner(starts, b), start |-> b.from, end |-> b.to,
     insns |-> b.insns]

FuncRows(w) ==
    LET starts == Starts(w)
        blocks == Blocks(w)
        rowOf == [k \in DOMAIN starts |-> FuncRow(w, starts, blocks, k)]
    IN  Fill(<<>>, FirstOf(rowOf, MaxFuncs), 4)

BlockRows(w) ==
    LET starts == Starts(w)
        blocks == Blocks(w)
    IN  [b \in DOMAIN blocks |-> BlockRow(starts, blocks[b])]

SomeCut(w) == BlocksCut(w) \/ Forgets(w, {"call", "jump"}) \/ Forgets(w, {"call"})

(* mutant: the rows of blocks ask for no room                              *)
FuncsUnguarded(w) ==
    LET funcs == FuncRows(w)
    IN  Close(funcs \o BlockRows(w), Len(Starts(w)) > Len(funcs) \/ SomeCut(w))

(* mutant: functions that have no row are not announced                    *)
FuncsUnsaid(w) ==
    LET funcs == FuncRows(w)
        all == Fill(funcs, BlockRows(w), 2)
    IN  Close(all, Len(funcs) + Len(Blocks(w)) > Len(all) \/ SomeCut(w))

Funcs(w) ==
    LET funcs == FuncRows(w)
        all == Fill(funcs, BlockRows(w), 2)
    IN  Close(all, \/ Len(Starts(w)) > Len(funcs)
                   \/ Len(funcs) + Len(Blocks(w)) > Len(all)
                   \/ SomeCut(w))

-----------------------------------------------------------------------------
(* disasm_cfg.  A block keeps the first immediate of its terminator, and 0 *)
(* for one that is not in the window.                                      *)
Target(w, b) ==
    IF b.last.imms # <<>> /\ InWindow(w, b.last.imms[1]) THEN b.last.imms[1] ELSE 0

Begins(blocks, a) == \E k \in DOMAIN blocks : blocks[k].from = a

(* the blocks with an arrow to where their last instruction points         *)
Jumping(w, blocks) ==
    {b \in DOMAIN blocks : /\ blocks[b].last.ends \in {"jump", "call"}
                           /\ Target(w, blocks[b]) # 0
                           /\ Begins(blocks, Target(w, blocks[b]))}

(* mutant: a call does not come back                                       *)
FallingNoReturn(blocks) ==
    {b \in DOMAIN blocks : /\ \/ blocks[b].last.ends = "none"
                              \/ blocks[b].last.ends = "jump" /\ blocks[b].last.cond
                           /\ Begins(blocks, blocks[b].to)}

(* and those with one to the block behind them                             *)
Falling(blocks) ==
    {b \in DOMAIN blocks : /\ \/ blocks[b].last.ends \in {"none", "call"}
                              \/ blocks[b].last.ends = "jump" /\ blocks[b].last.cond
                           /\ Begins(blocks, blocks[b].to)}

(* block by block, the jump before the fall                                *)
AllEdges(w) ==
    LET blocks == Blocks(w)
        order == Ascending({2 * b : b \in Jumping(w, blocks)} \cup {2 * b + 1 : b \in Falling(blocks)})
        edge(b, to, kind) == [from |-> b.from, to |-> to, kind |-> kind]
    IN  [e \in DOMAIN order |->
            LET b == blocks[order[e] \div 2]
            IN  IF order[e] % 2 = 1 THEN edge(b, b.to, "fall")
                ELSE edge(b, Target(w, b), IF b.last.ends = "call" THEN "call" ELSE "taken")]

(* mutant: the block an edge comes from is taken for the one it goes to    *)
DegreeRowSwapped(edges, at, b) ==
    [row |-> "degree", block |-> b,
     preds |-> Cardinality({e \in DOMAIN edges : edges[e].from = at}),
     succs |-> Cardinality({e \in DOMAIN edges : edges[e].from = at})]

DegreeRow(edges, at, b) ==
    [row |-> "degree", block |-> b,
     preds |-> Cardinality({e \in DOMAIN edges : edges[e].to = at}),
     succs |-> Cardinality({e \in DOMAIN edges : edges[e].from = at})]

Cfg(w) ==
    LET blocks == Blocks(w)
        edges == FirstOf(AllEdges(w), MaxEdges)
        arrows == Fill(<<>>, [e \in DOMAIN edges |-> [row |-> "edge", edge |-> edges[e]]], 4)
        degrees == [b \in DOMAIN blocks |-> DegreeRow(edges, blocks[b].from, b)]
        all == Fill(arrows, degrees, 4)
    IN  Close(all, \/ Len(AllEdges(w)) > Len(arrows)
                   \/ Len(arrows) + Len(blocks) > Len(all)
                   \/ BlocksCut(w) \/ Forgets(w, {"call", "jump"}))

-----------------------------------------------------------------------------
(* A refused or undecodable window leaves no rows at all.                  *)
Answer(w, answered) == IF w.insns = <<>> THEN <<>> ELSE answered

Init ==
    /\ window \in Windows
    /\ pass = "none"
    /\ rows = <<>>

DisasmRun == pass' = "run" /\ rows' = Answer(window, Listing(window)) /\ UNCHANGED window
DisasmXrefs == pass' = "xrefs" /\ rows' = Answer(window, Xrefs(window)) /\ UNCHANGED window
DisasmFuncs == pass' = "funcs" /\ rows' = Answer(window, Funcs(window)) /\ UNCHANGED window
DisasmCfg == pass' = "cfg" /\ rows' = Answer(window, Cfg(window)) /\ UNCHANGED window

Next == DisasmRun \/ DisasmXrefs \/ DisasmFuncs \/ DisasmCfg

Spec == Init /\ [][Next]_vars

-----------------------------------------------------------------------------
(* The row buffer is shared by four passes whose loops stop at different   *)
(* distances from its end and then write one or two rows more: for any     *)
(* caps these fit, in every pass but the cross-references.                 *)
RowsFit == pass # "xrefs" => Len(rows) <= RowMaxSeen

(* "a window that wants more reports a cut instead of writing past the     *)
(* end", of every pass.                                                    *)
EveryPassFits == Len(rows) <= RowMaxSeen

Of(kind) == {k \in DOMAIN rows : rows[k].row = kind}
Whole(p) == pass = p /\ rows # <<>> /\ Of("cut") = {}

IsInsn(w, a) == \E i \in DOMAIN w.insns : w.insns[i].at = a

(* What a branch or call in the window points at in the window.            *)
PointedAt(w, kinds) ==
    {a \in w.pc .. w.pc + w.len : InWindow(w, a) /\ \E i \in DOMAIN w.insns :
        w.insns[i].ends \in kinds /\ a \in Range(w.insns[i].imms)}

(* "a function starts at the entry address and at every address a *call*   *)
(* in the window points at": unless a cut is reported every one of them    *)
(* has its row, whichever of the five caps and guards it passed.           *)
EveryFunctionListed ==
    Whole("funcs") =>
        {rows[k].start : k \in Of("func")} = {window.pc} \cup PointedAt(window, {"call"})

(* The rows of some kind whose range the address is in.                    *)
Around(kind, a) == {k \in Of(kind) : rows[k].start <= a /\ a < rows[k].end}

(* "a maximal straight-line run that ends in a call, a jump or a return,   *)
(* or that stops just before an address some control transfer in this      *)
(* window points at": in an uncut answer every instruction is in one       *)
(* block, and nothing inside a block is pointed at or follows an end.      *)
BlocksAreStraightRuns ==
    Whole("funcs") =>
        \A i \in DOMAIN window.insns :
            LET here == window.insns[i].at
            IN  /\ Cardinality(Around("block", here)) = 1
                /\ (\E k \in Around("block", here) : rows[k].start < here) =>
                       /\ here \notin PointedAt(window, {"call", "jump"})
                       /\ window.insns[i - 1].ends = "none"

(* A block's row names the function that counts it, although blocks look   *)
(* for the owner by its start and functions count by their range; every    *)
(* instruction is in one function; and where calls point at instructions,  *)
(* a block does not reach over the end of its function.                    *)
OwnersCountTheirBlocks ==
    Whole("funcs") =>
        /\ \A f \in Of("func") :
              rows[f].blocks = Cardinality({k \in Of("block") : rows[k].func = rows[f].func})
        /\ \A i \in DOMAIN window.insns : Cardinality(Around("func", window.insns[i].at)) = 1
        /\ (\A a \in PointedAt(window, {"call"}) : IsInsn(window, a)) =>
              \A f \in Of("func"), k \in Of("block") :
                  rows[k].func = rows[f].func =>
                      rows[f].start <= rows[k].start /\ rows[k].end <= rows[f].end

-----------------------------------------------------------------------------
(* Where control goes next, instruction by instruction, in the window.     *)
Goes(w, i) ==
    {a \in PointedAt(w, {"call", "jump"}) : IsInsn(w, a) /\ a \in Range(w.insns[i].imms)}

FallsThrough(w, i) ==
    IF /\ i < Len(w.insns)
       /\ \/ w.insns[i].ends \in {"none", "call"}
          \/ w.insns[i].ends = "jump" /\ w.insns[i].cond
    THEN {Stop(w.insns[i])} ELSE {}

BlockStart(froms, a) == Max(froms \cap 0 .. a)

(* The same between blocks: an instruction's ways on, but for the straight *)
(* steps inside its own block.                                             *)
Flow(w) ==
    LET froms == {b.from : b \in Range(Blocks(w))}
    IN  UNION {{<<BlockStart(froms, w.insns[i].at), a>> :
                    a \in Goes(w, i) \cup (FallsThrough(w, i) \cap froms)} : i \in DOMAIN w.insns}

Drawn == {<<rows[e].edge.from, rows[e].edge.to>> : e \in Of("edge")}

(* "An edge exists per successor, and only inside the window".             *)
EveryArrowDrawn == Whole("cfg") => Drawn = Flow(window)

(* The same for windows that do not begin at address 0, which stands for   *)
(* no target, and whose branches state one immediate (a test of a bit      *)
(* states the bit first, and is taken to point there).                     *)
OneImmediate(w) == \A i \in DOMAIN w.insns : Len(w.insns[i].imms) <= 1

GraphIsOfTheCode == window.pc > 0 /\ OneImmediate(window) => EveryArrowDrawn

(* "is this block reachable at all": in an uncut answer every block has    *)
(* its degrees, and one without predecessors or successors is one that no  *)
(* instruction leads into or out of.                                       *)
DegreesTellReach ==
    Whole("cfg") /\ window.pc > 0 /\ OneImmediate(window) =>
        LET blocks == AllBlocks(window)
            flow == Flow(window)
        IN  /\ {rows[k].block : k \in Of("degree")} = DOMAIN blocks
            /\ \A k \in Of("degree") :
                  LET here == blocks[rows[k].block].from
                  IN  /\ rows[k].preds = 0 <=> ~\E step \in flow : step[2] = here
                      /\ rows[k].succs = 0 <=> ~\E step \in flow : step[1] = here
=============================================================================
