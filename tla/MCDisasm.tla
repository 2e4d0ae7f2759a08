------------------------------ MODULE MCDisasm ------------------------------
(* Every window of up to MaxInsns instructions of all kinds, longer ones   *)
(* of a few kinds, with targets at the start, inside, between two          *)
(* instructions and outside.                                               *)
EXTENDS Disasm

CONSTANTS MaxInsns, MaxLong, Starting

Kind(size, ends, cond, hops, mems) ==
    [size |-> size, ends |-> ends, cond |-> cond, hops |-> hops, mems |-> mems,
     bits |-> <<>>]

Hops == {0, 1, 2, 9}

Plain == {Kind(1, "none", FALSE, <<>>, 0), Kind(2, "none", FALSE, <<>>, 1)}
Leaving == {Kind(1, "ret", FALSE, <<>>, 0), Kind(1, "jump", FALSE, <<>>, 0)}
Jumps == {Kind(1, "jump", cond, <<hop>>, 0) : cond \in BOOLEAN, hop \in Hops}
Calls == {Kind(1, "call", FALSE, <<hop>>, 0) : hop \in Hops}
(* a test of bit 1 that jumps: the bit number is an immediate too *)
Tests == {[Kind(1, "jump", TRUE, <<hop>>, 0) EXCEPT !.bits = <<1>>] : hop \in {0, 2}}
Few == {Kind(1, "none", FALSE, <<>>, 0), Kind(1, "jump", TRUE, <<1>>, 0)}
       \cup {Kind(1, "call", FALSE, <<hop>>, 0) : hop \in 1 .. 3}

Runs == UNION {[1 .. n -> Plain \cup Leaving \cup Jumps \cup Tests \cup Calls] : n \in 0 .. MaxInsns}
        \cup UNION {[1 .. n -> Few] : n \in MaxInsns + 1 .. MaxLong}

Place(pc, run, i) == FoldLeft(LAMBDA at, k : at + k.size, pc, SubSeq(run, 1, i - 1))

Window(pc, run, more) ==
    [pc |-> pc, len |-> Place(0, run, Len(run) + 1) + more,
     insns |-> [i \in DOMAIN run |->
        [at |-> Place(pc, run, i), size |-> run[i].size, ends |-> run[i].ends,
         cond |-> run[i].cond, mems |-> run[i].mems,
         imms |-> run[i].bits \o [j \in DOMAIN run[i].hops |-> pc + run[i].hops[j]]]]]

SmallWindows == {Window(pc, run, more) : pc \in Starting, run \in Runs, more \in 0 .. 1}
=============================================================================
