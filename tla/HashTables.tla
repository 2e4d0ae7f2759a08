------------------------------ MODULE HashTables ------------------------------
(***************************************************************************)
(* The symbol-hash tables of scripts/make-hash-fixtures.py: the table a    *)
(* linker writes, the script's walk of its words, the sweep that follows   *)
(* every chain, and the account that has to close before a probe is        *)
(* written.  A word is a natural number, a name is its dynsym index, and   *)
(* symbols[i] is the hash of the i-th named symbol (index 0 has no name).  *)
(***************************************************************************)
EXTENDS Integers, Sequences, FiniteSets

Unread == [broken |-> TRUE]
(* mutant: a run of words begins on the last word of what precedes it      *)
WordsOneEarly(s, from, n) == [i \in 1..n |-> s[from + i - 1]]
WordsAt(s, from, n) == [i \in 1..n |-> s[from + i]]
MarkedEnd(w) == w % 2 = 1
Marked(h, end) == (h \div 2) * 2 + (IF end THEN 1 ELSE 0)

(* What ld.lld lays down for `symbols`: .gnu.hash over the indices from    *)
(* symoffset on, which it has sorted by bucket, or .hash over all of them. *)
Sorted(symbols, from, n) ==
    \A i, j \in from..Len(symbols) : i < j => symbols[i] % n <= symbols[j] % n
InBucket(symbols, from, n, b) == {i \in from..Len(symbols) : symbols[i] % n = b}
Least(S) == CHOOSE i \in S : \A j \in S : i <= j
HeadOf(S) == IF S = {} THEN 0 ELSE Least(S)

LinkedGnu(symbols, from, n, masks, wide) ==
    LET heads == [b \in 1..n |-> HeadOf(InBucket(symbols, from, n, b - 1))]
        Last(i) == i = Len(symbols) \/ symbols[i] % n # symbols[i + 1] % n
        tail == [i \in 1..(Len(symbols) - from + 1) |->
                    Marked(symbols[from + i - 1], Last(from + i - 1))]
        bloom == [i \in 1..(masks * (IF wide THEN 2 ELSE 1)) |-> 0]
    IN  <<n, from, masks, 0>> \o bloom \o heads \o tail

LinkedSysv(symbols, n) ==
    LET heads == [b \in 1..n |-> HeadOf(InBucket(symbols, 1, n, b - 1))]
        tail == [k \in 1..(Len(symbols) + 1) |->
                    IF k = 1 THEN 0
                    ELSE HeadOf({j \in k..Len(symbols) : symbols[j] % n = symbols[k - 1] % n})]
    IN  <<n, Len(symbols) + 1>> \o heads \o tail

(* walk: one section's header words, buckets and chains, or why it is      *)
(* refused.  `file` is every word from the section's start to the end of   *)
(* the file and `size` the section's stated length in words.  The number   *)
(* of chain words of .gnu.hash is what the section has left; less than     *)
(* nothing left reads as no chain at all.                                  *)
Walk(gnu, wide, file, size) ==
    LET span == IF wide THEN 2 ELSE 1
        bloomEnd == 4 + file[3] * span
        headsEnd == bloomEnd + file[1]
        left == size - headsEnd
        tail == IF left < 0 THEN 0 ELSE left
    IN  IF Len(file) < 4 \/ size < 4 THEN Unread
        ELSE IF gnu
        THEN IF \/ Len(file) < bloomEnd
                \/ Len(file) < headsEnd
                \/ Len(file) < headsEnd + tail
             THEN Unread
             ELSE [broken |-> FALSE, gnu |-> TRUE, symoffset |-> file[2],
                   buckets |-> WordsAt(file, bloomEnd, file[1]),
                   chains |-> WordsAt(file, headsEnd, tail)]
        ELSE IF Len(file) < 2 + file[1] \/ Len(file) < 2 + file[1] + file[2]
             THEN Unread
             ELSE [broken |-> FALSE, gnu |-> FALSE, symoffset |-> 0,
                   buckets |-> WordsAt(file, 2, file[1]),
                   chains |-> WordsAt(file, 2 + file[1], file[2])]

(* mutant: a chain word is not held to its own name's hash                 *)
SweepStepUnhashed(t, symbols, position, r) ==
    LET slot == r.at - t.symoffset
        word == t.chains[slot + 1]
        placed == symbols[r.at] % Len(t.buckets) = position
        next == IF t.gnu THEN r.at + 1 ELSE word
    IN  IF r.done THEN r
        ELSE IF \/ r.steps > Len(t.chains)
                \/ slot < 0 \/ slot >= Len(t.chains) \/ r.at > Len(symbols)
        THEN [r EXCEPT !.wrong = @ + 1, !.done = TRUE]
        ELSE [at |-> next, steps |-> r.steps + 1, reached |-> Append(r.reached, r.at),
              wrong |-> r.wrong + (IF placed THEN 0 ELSE 1),
              done |-> ~placed \/ (IF t.gnu THEN MarkedEnd(word) ELSE next = 0)]
(* swept: the run one bucket implies.  A step is refused past the chains,  *)
(* past the names, or once more steps were taken than there are chains;    *)
(* `wrong` counts a word that is not its own name's hash and a name that   *)
(* lies in another bucket.                                                 *)
SweepStep(t, symbols, position, r) ==
    LET slot == r.at - t.symoffset
        word == t.chains[slot + 1]
        want == symbols[r.at]
        agreed == t.gnu => word = Marked(want, MarkedEnd(word))
        placed == want % Len(t.buckets) = position
        bad == (IF agreed THEN 0 ELSE 1) + (IF placed THEN 0 ELSE 1)
        next == IF t.gnu THEN r.at + 1 ELSE word
    IN  IF r.done THEN r
        ELSE IF \/ r.steps > Len(t.chains)
                \/ slot < 0 \/ slot >= Len(t.chains) \/ r.at > Len(symbols)
        THEN [r EXCEPT !.wrong = @ + 1, !.done = TRUE]
        ELSE [at |-> next, steps |-> r.steps + 1, reached |-> Append(r.reached, r.at),
              wrong |-> r.wrong + bad,
              done |-> bad > 0 \/ (IF t.gnu THEN MarkedEnd(word) ELSE next = 0)]

Swept(t, symbols, position) ==
    LET head == t.buckets[position + 1]
        f[s \in 0..(Len(t.chains) + 2)] ==
            IF s = 0 THEN [at |-> head, steps |-> 0, reached |-> <<>>, wrong |-> 0,
                           done |-> head = 0]
            ELSE SweepStep(t, symbols, position, f[s - 1])
    IN  f[Len(t.chains) + 2]

(* check's last part: no wrong word, no symbol reached twice, and the      *)
(* symbols reached are the named ones at or above the floor.               *)
Floor(t) == IF t.gnu THEN t.symoffset ELSE 1
AccountCloses(t, symbols) ==
    LET runs == [p \in 0..(Len(t.buckets) - 1) |-> Swept(t, symbols, p)]
        seen == UNION {{<<p, k>> : k \in 1..Len(runs[p].reached)} : p \in DOMAIN runs}
        reached == {runs[x[1]].reached[x[2]] : x \in seen}
    IN  /\ \A p \in DOMAIN runs : runs[p].wrong = 0
        /\ Cardinality(seen) = Cardinality(reached)
        /\ reached = {i \in 1..Len(symbols) : i >= Floor(t)}

(* The lookup a loader performs, and pyelftools' get_symbol: hash, bucket, *)
(* chain, compare the names.  The mask words are taken to let every hash   *)
(* through.  Fuel bounds a chain that never ends.                          *)
Lookup(t, symbols, i) ==
    LET want == symbols[i]
        Slot(at) == at - t.symoffset + 1
        Inside(at) == Slot(at) \in 1..Len(t.chains)
        f[s \in 0..(Len(t.chains) + 2)] ==
            IF s = 0 THEN t.buckets[(want % Len(t.buckets)) + 1]
            ELSE LET at == f[s - 1]
                     word == t.chains[Slot(at)]
                 IN  IF at = 0 \/ at = i \/ ~Inside(at) THEN at
                     ELSE IF ~t.gnu THEN word
                     ELSE IF MarkedEnd(word) THEN 0 ELSE at + 1
        found == f[Len(t.chains) + 2]
    IN  /\ Len(t.buckets) > 0 /\ found = i /\ i # 0 /\ Inside(i)
        /\ t.gnu => Marked(t.chains[Slot(i)], TRUE) = Marked(want, TRUE)
===============================================================================
