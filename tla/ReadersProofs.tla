----------------------------- MODULE ReadersProofs -----------------------------
(***************************************************************************)
(* What holds of Readers for files of every length, however many of their  *)
(* fields have changed, and is proved: hash tables and their account,      *)
(* version records, symbols' versions, notes, property chains, ELF headers *)
(* and columns.  (Boxes and compound files are ContainerProofs'.)         *)
(* The walks are recursive functions of the model.  That such a function   *)
(* is what its definition says is proved here from sets alone: a set of    *)
(* numbers up to a bound that holds 0 and the successor of each of its     *)
(* members holds them all (Upward), a run of n turns over a set of states  *)
(* that every turn stays in exists (Walks), and a function that satisfies  *)
(* the recursion is such a run (Walked).                                   *)
(***************************************************************************)
EXTENDS Readers, FiniteSetTheorems, FunctionTheorems, WellFoundedInduction, TLAPS

(* A nonempty set of naturals has a least member.                          *)
LEMMA LeastOf ==
    ASSUME NEW S \in SUBSET Nat, S # {}
    PROVE  \E a \in S : \A b \in S : a <= b
<1> DEFINE Below == {p \in Nat \X Nat : p[1] < p[2]}
<1>1. IsWellFoundedOn(Below, Nat)
  BY NatLessThanWellFounded DEF OpToRel
<1>2. PICK a \in S : \A b \in S : ~(<<b, a>> \in Below)
  <2> HIDE DEF Below
  <2> QED
    BY <1>1, WFMin
<1>3. ASSUME NEW b \in S
      PROVE  a <= b
  <2>1. a \in Nat /\ b \in Nat
    OBVIOUS
  <2>2. b < a => <<b, a>> \in Below
    BY <2>1
  <2> QED
    BY <1>2, <2>1, <2>2
<1> QED
  BY <1>3

(* Induction up to a bound, over a set.                                    *)
LEMMA Upward ==
    ASSUME NEW n \in Nat, NEW Good, 0 \in Good,
           \A k \in 1..n : k - 1 \in Good => k \in Good
    PROVE  \A k \in 0..n : k \in Good
<1> DEFINE Bad == {k \in 0..n : k \notin Good}
<1> SUFFICES ASSUME Bad # {} PROVE FALSE
  OBVIOUS
<1>1. PICK a \in Bad : \A b \in Bad : a <= b
  <2>1. Bad \in SUBSET Nat
    OBVIOUS
  <2> HIDE DEF Bad
  <2> QED
    BY <2>1, LeastOf
<1>2. a \in 1..n /\ a - 1 \in 0..n
  BY <1>1
<1>3. a - 1 \notin Bad
  BY <1>1, <1>2
<1> QED
  BY <1>1, <1>2, <1>3

(* A walk of n turns over states of S visits some state at each.           *)
WalkOf(n, S, a, step, g) ==
    g \in [0..n -> S] /\ g[0] = a /\ \A i \in 1..n : g[i] = step[i][g[i - 1]]
LEMMA Walks ==
    ASSUME NEW n \in Nat, NEW S, NEW a \in S, NEW step \in [1..n -> [S -> S]]
    PROVE  \E g : WalkOf(n, S, a, step, g)
<1> DEFINE Till(k, g) == WalkOf(k, S, a, step, g)
           Good == {k \in 0..n : \E g : Till(k, g)}
<1>1. 0 \in Good
  <2>1. [i \in 0..0 |-> a] \in [0..0 -> S] /\ [i \in 0..0 |-> a][0] = a /\ 1..0 = {}
    OBVIOUS
  <2>2. Till(0, [i \in 0..0 |-> a])
    BY <2>1 DEF WalkOf
  <2> HIDE DEF Till
  <2> QED
    BY <2>2
<1>2. ASSUME NEW k \in 1..n, k - 1 \in Good
      PROVE  k \in Good
  <2>1. PICK g : Till(k - 1, g)
    BY <1>2
  <2> DEFINE h == [i \in 0..k |-> IF i = k THEN step[k][g[k - 1]] ELSE g[i]]
  <2>2. k \in Nat /\ k - 1 \in 0..(k - 1) /\ g[k - 1] \in S /\ step[k] \in [S -> S]
    BY <2>1 DEF WalkOf
  <2>3. h \in [0..k -> S]
    <3>1. \A i \in 0..k : i # k => i \in 0..(k - 1)
      BY <2>2
    <3> QED
      BY <2>1, <2>2, <3>1 DEF WalkOf
  <2>4. h[0] = a
    BY <2>1, <2>2 DEF WalkOf
  <2>5. ASSUME NEW i \in 1..k
        PROVE  h[i] = step[i][h[i - 1]]
    <3>1. i \in 0..k /\ i - 1 \in 0..k /\ i - 1 # k /\ h[i - 1] = g[i - 1]
      BY <2>2
    <3>2. CASE i = k
      BY <3>1, <3>2
    <3>3. CASE i # k
      <4>1. i \in 1..(k - 1)
        BY <3>3, <2>2
      <4> QED
        BY <4>1, <3>1, <3>3, <2>1 DEF WalkOf
    <3> QED
      BY <3>2, <3>3
  <2>6. Till(k, h)
    BY <2>3, <2>4, <2>5 DEF WalkOf
  <2> HIDE DEF h, Till
  <2> QED
    BY <2>6
<1>3. n \in Good
  <2> HIDE DEF Good
  <2>1. \A k \in 0..n : k \in Good
    BY <1>1, <1>2, Upward
  <2> QED
    BY <2>1
<1> QED
  BY <1>3

(* What a walk of n turns is once the states it visits are known.          *)
LEMMA Walked ==
    ASSUME NEW n \in Nat, NEW S, NEW a \in S, NEW step \in [1..n -> [S -> S]], NEW f,
           DOMAIN f = 0..n, f = [k \in 0..n |-> f[k]], f[0] = a,
           \A k \in 1..n : f[k - 1] \in S => f[k] = step[k][f[k - 1]]
    PROVE  WalkOf(n, S, a, step, f)
<1> DEFINE Good == {k \in 0..n : f[k] \in S}
<1>1. 0 \in Good
  OBVIOUS
<1>2. ASSUME NEW k \in 1..n, k - 1 \in Good
      PROVE  k \in Good
  <2>1. f[k - 1] \in S /\ k \in 0..n
    BY <1>2
  <2>2. step[k] \in [S -> S]
    OBVIOUS
  <2>3. f[k] = step[k][f[k - 1]]
    BY <2>1
  <2> QED
    BY <2>1, <2>2, <2>3
<1>3. \A k \in 0..n : f[k] \in S
  <2> HIDE DEF Good
  <2>1. \A k \in 0..n : k \in Good
    BY <1>1, <1>2, Upward
  <2> QED
    BY <2>1 DEF Good
<1>4. f \in [0..n -> S]
  BY <1>3
<1>5. \A k \in 1..n : k - 1 \in 0..n
  OBVIOUS
<1> QED
  BY <1>3, <1>4, <1>5 DEF WalkOf

-----------------------------------------------------------------------------
(* The account of a hash section, and the lookup.                          *)
Tables == [broken : {FALSE}, gnu : BOOLEAN, symoffset : Nat, buckets : Seq(Nat), chains : Seq(Nat)]

(* A run of words inside a file is a sequence of naturals.                 *)
LEMMA WordsRead ==
    ASSUME NEW s \in Seq(Nat), NEW from \in Nat, NEW n \in Nat, from + n <= Len(s)
    PROVE  Hash!WordsAt(s, from, n) \in Seq(Nat)
<1>1. \A i \in 1..n : from + i \in 1..Len(s)
  OBVIOUS
<1>2. \A i \in 1..n : s[from + i] \in Nat
  BY <1>1
<1>3. [i \in 1..n |-> s[from + i]] \in [1..n -> Nat]
  BY <1>2
<1> QED
  BY <1>3 DEF Hash!WordsAt

(* What the walk of a hash section reads, when it does not refuse it.      *)
LEMMA WalkReads ==
    ASSUME NEW one \in HashFileSpace,
           ~Hash!Walk(one.gnu, one.wide, one.words, one.size).broken
    PROVE  Hash!Walk(one.gnu, one.wide, one.words, one.size) \in Tables
<1> DEFINE words == one.words
           span == IF one.wide THEN 2 ELSE 1
           bloomEnd == 4 + words[3] * span
           headsEnd == bloomEnd + words[1]
           left == one.size - headsEnd
           tail == IF left < 0 THEN 0 ELSE left
<1>1. words \in Seq(Nat) /\ one.size \in Nat /\ one.gnu \in BOOLEAN /\ one.wide \in BOOLEAN
  BY DEF HashFileSpace
<1>2. Len(words) >= 4 /\ ~(Len(words) < 4 \/ one.size < 4)
  BY <1>1 DEF Hash!Walk, Hash!Unread
<1>3. words[1] \in Nat /\ words[2] \in Nat /\ words[3] \in Nat
  BY <1>1, <1>2, SMTT(30)
<1>4. bloomEnd \in Nat
  <2> HIDE DEF words
  <2>1. span \in Nat
    OBVIOUS
  <2> HIDE DEF span
  <2>2. words[3] * span \in Nat
    BY <1>3, <2>1
  <2> QED
    BY <2>2
<1>5. headsEnd \in Nat /\ tail \in Nat
  BY <1>1, <1>3, <1>4, SMTT(30)
<1>6. CASE one.gnu
  <2> DEFINE read == [broken |-> FALSE, gnu |-> TRUE, symoffset |-> words[2],
                      buckets |-> Hash!WordsAt(words, bloomEnd, words[1]),
                      chains |-> Hash!WordsAt(words, headsEnd, tail)]
             short == Len(words) < bloomEnd \/ Len(words) < headsEnd \/ Len(words) < headsEnd + tail
  <2>1. headsEnd + tail <= Len(words) /\ Hash!Walk(one.gnu, one.wide, words, one.size) = read
    <3>1. Hash!Walk(one.gnu, one.wide, words, one.size) = IF short THEN Hash!Unread ELSE read
      BY <1>2, <1>6 DEF Hash!Walk
    <3> HIDE DEF read, short
    <3>2. ~short
      BY <3>1 DEF Hash!Unread
    <3>3. headsEnd + tail <= Len(words)
      <4> HIDE DEF bloomEnd, headsEnd, tail
      <4> QED BY <3>2, <1>1, <1>5 DEF short
    <3> QED
      BY <3>1, <3>2, <3>3
  <2>2. bloomEnd + words[1] <= Len(words)
    BY <2>1, <1>1, <1>4, <1>5
  <2> HIDE DEF bloomEnd, headsEnd, tail
  <2>3. /\ Hash!WordsAt(words, bloomEnd, words[1]) \in Seq(Nat)
        /\ Hash!WordsAt(words, headsEnd, tail) \in Seq(Nat)
    BY <1>1, <1>3, <1>4, <1>5, <2>1, <2>2, WordsRead
  <2> QED
    BY <1>3, <2>1, <2>3 DEF Tables
<1>7. CASE ~one.gnu
  <2> DEFINE read == [broken |-> FALSE, gnu |-> FALSE, symoffset |-> 0,
                      buckets |-> Hash!WordsAt(words, 2, words[1]),
                      chains |-> Hash!WordsAt(words, 2 + words[1], words[2])]
             short == Len(words) < 2 + words[1] \/ Len(words) < 2 + words[1] + words[2]
  <2>1. 2 + words[1] + words[2] <= Len(words) /\ Hash!Walk(one.gnu, one.wide, words, one.size) = read
    <3>1. Hash!Walk(one.gnu, one.wide, words, one.size) = IF short THEN Hash!Unread ELSE read
      BY <1>2, <1>7 DEF Hash!Walk
    <3> HIDE DEF read, short
    <3>2. ~short
      BY <3>1 DEF Hash!Unread
    <3>3. 2 + words[1] + words[2] <= Len(words)
      BY <3>2, <1>1, <1>3, SMTT(30) DEF short
    <3> QED
      BY <3>1, <3>2, <3>3
  <2>2. 2 + words[1] \in Nat /\ 2 + words[1] <= Len(words)
    BY <2>1, <1>1, <1>3, SMTT(30)
  <2>3. /\ Hash!WordsAt(words, 2, words[1]) \in Seq(Nat)
        /\ Hash!WordsAt(words, 2 + words[1], words[2]) \in Seq(Nat)
    BY <1>1, <1>3, <2>1, <2>2, WordsRead
  <2> QED
    BY <2>1, <2>3 DEF Tables
<1> QED
  BY <1>1, <1>6, <1>7

-----------------------------------------------------------------------------
Runs == [at : Nat, steps : Nat, reached : Seq(Nat), wrong : Nat, done : BOOLEAN]

(* What a turn of the sweep that finds nothing wrong has found.            *)
Sound(t, symbols, p, r, q) ==
    /\ r.at - t.symoffset \in 0..(Len(t.chains) - 1)
    /\ r.at <= Len(symbols)
    /\ symbols[r.at] % Len(t.buckets) = p
    /\ q.reached = Append(r.reached, r.at)
    /\ LET word == t.chains[r.at - t.symoffset + 1]
       IN  IF t.gnu THEN /\ word = Hash!Marked(symbols[r.at], Hash!MarkedEnd(word))
                         /\ q.at = r.at + 1
                         /\ q.done = Hash!MarkedEnd(word)
           ELSE q.at = word /\ q.done = (word = 0)

(* One turn of a sweep leaves a run a run, and says what it reached.       *)
LEMMA SweepTurn ==
    ASSUME NEW t \in Tables, NEW symbols \in Seq(Nat), NEW p \in Nat, NEW r \in Runs,
           NEW q, q = Hash!SweepStep(t, symbols, p, r)
    PROVE  /\ q \in Runs
           /\ q.wrong >= r.wrong
           /\ r.done => q = r
           /\ ~r.done /\ q.wrong = r.wrong => Sound(t, symbols, p, r, q)
<1>1. /\ t.gnu \in BOOLEAN /\ t.symoffset \in Nat /\ t.buckets \in Seq(Nat) /\ t.chains \in Seq(Nat)
  BY DEF Tables
<1>2. /\ r.at \in Nat /\ r.steps \in Nat /\ r.reached \in Seq(Nat) /\ r.wrong \in Nat
      /\ r.done \in BOOLEAN /\ Len(t.chains) \in Nat /\ Len(symbols) \in Nat
  BY <1>1 DEF Runs
<1>3. CASE r.done
  BY <1>2, <1>3 DEF Hash!SweepStep
<1> DEFINE slot == r.at - t.symoffset
           word == t.chains[slot + 1]
           refused == r.steps > Len(t.chains) \/ slot < 0 \/ slot >= Len(t.chains) \/ r.at > Len(symbols)
<1>4. CASE ~r.done /\ refused
  <2>1. q = [r EXCEPT !.wrong = @ + 1, !.done = TRUE]
    BY <1>4 DEF Hash!SweepStep
  <2>2. q = [at |-> r.at, steps |-> r.steps, reached |-> r.reached, wrong |-> r.wrong + 1,
             done |-> TRUE]
    BY <2>1 DEF Runs
  <2>3. q \in Runs /\ q.wrong = r.wrong + 1
    BY <1>2, <2>2 DEF Runs
  <2> QED
    BY <1>2, <1>4, <2>3
<1>5. CASE ~r.done /\ ~refused
  <2> DEFINE agreed == t.gnu => word = Hash!Marked(symbols[r.at], Hash!MarkedEnd(word))
             placed == symbols[r.at] % Len(t.buckets) = p
             bad == (IF agreed THEN 0 ELSE 1) + (IF placed THEN 0 ELSE 1)
             next == IF t.gnu THEN r.at + 1 ELSE word
  <2>1. q = [at |-> next, steps |-> r.steps + 1, reached |-> Append(r.reached, r.at),
             wrong |-> r.wrong + bad,
             done |-> bad > 0 \/ (IF t.gnu THEN Hash!MarkedEnd(word) ELSE next = 0)]
    BY <1>5 DEF Hash!SweepStep
  <2>2. slot \in 0..(Len(t.chains) - 1) /\ r.at <= Len(symbols)
    BY <1>1, <1>2, <1>5
  <2>3. word \in Nat
    <3>1. slot + 1 \in 1..Len(t.chains)
      BY <2>2, <1>2
    <3> HIDE DEF slot
    <3> QED
      BY <1>1, <3>1
  <2>4. bad \in 0..2 /\ (bad = 0 => agreed /\ placed)
    OBVIOUS
  <2>5. next \in Nat
    BY <2>3, <1>2
  <2>6. Hash!MarkedEnd(word) \in BOOLEAN
    BY DEF Hash!MarkedEnd
  <2>9. q.wrong = r.wrong + bad /\ q.reached = Append(r.reached, r.at) /\ q.at = next
        /\ q.done = (bad > 0 \/ (IF t.gnu THEN Hash!MarkedEnd(word) ELSE next = 0))
    BY <2>1
  <2>7. q \in Runs
    <3>1. Append(r.reached, r.at) \in Seq(Nat)
      BY <1>2
    <3> HIDE DEF bad, next, word, agreed, placed
    <3>2. r.wrong + bad \in Nat /\ r.steps + 1 \in Nat
      BY <1>2, <2>4
    <3>3. (bad > 0 \/ (IF t.gnu THEN Hash!MarkedEnd(word) ELSE next = 0)) \in BOOLEAN
      BY <2>6
    <3> QED
      BY <2>1, <2>5, <3>1, <3>2, <3>3 DEF Runs
  <2>8. ASSUME q.wrong = r.wrong
        PROVE  Sound(t, symbols, p, r, q)
    <3>1. bad = 0
      <4> HIDE DEF bad
      <4> QED
        BY <2>8, <2>9, <2>4, <1>2
    <3>2. agreed /\ placed
      BY <3>1, <2>4
    <3>3. q.done = (IF t.gnu THEN Hash!MarkedEnd(word) ELSE next = 0)
      BY <2>9, <3>1, <2>6
    <3> QED
      BY <2>2, <2>9, <3>2, <3>3, <1>1 DEF Sound
  <2>10. q.wrong >= r.wrong
    <3> HIDE DEF bad
    <3> QED
      BY <2>9, <2>4, <1>2
  <2> QED
    BY <1>5, <2>7, <2>8, <2>10
<1> QED
  BY <1>2, <1>3, <1>4, <1>5

(* The turns of a sweep of bucket p.                                       *)
Starting(head) == [at |-> head, steps |-> 0, reached |-> <<>>, wrong |-> 0, done |-> head = 0]
Sweeping(t, symbols, p, f) ==
    /\ f \in [0..(Len(t.chains) + 2) -> Runs]
    /\ f[0] = Starting(t.buckets[p + 1])
    /\ \A k \in 1..(Len(t.chains) + 2) : f[k] = Hash!SweepStep(t, symbols, p, f[k - 1])

(* A sweep is a run of such turns.                                         *)
LEMMA SweptIs ==
    ASSUME NEW t \in Tables, NEW symbols \in Seq(Nat), NEW p \in 0..(Len(t.buckets) - 1)
    PROVE  \E f : Sweeping(t, symbols, p, f)
                  /\ Hash!Swept(t, symbols, p) = f[Len(t.chains) + 2]
<1> DEFINE n == Len(t.chains) + 2
           head == t.buckets[p + 1]
           Turns(f) == [s \in 0..n |-> IF s = 0 THEN Starting(head)
                                       ELSE Hash!SweepStep(t, symbols, p, f[s - 1])]
           f == CHOOSE f : f = Turns(f)
<1>1. /\ t.buckets \in Seq(Nat) /\ t.chains \in Seq(Nat) /\ n \in Nat /\ p \in Nat
      /\ p + 1 \in 1..Len(t.buckets)
  BY DEF Tables
<1>2. Starting(head) \in Runs
  <2>1. head \in Nat
    BY <1>1
  <2> HIDE DEF head
  <2> QED
    BY <2>1 DEF Starting, Runs
<1>3. \E g : g = Turns(g)
  <2> DEFINE step == [k \in 1..n |-> [r \in Runs |-> Hash!SweepStep(t, symbols, p, r)]]
  <2>1. step \in [1..n -> [Runs -> Runs]]
    BY <1>1, SweepTurn
  <2>2. PICK g : WalkOf(n, Runs, Starting(head), step, g)
    <3>1. n \in Nat
      BY <1>1
    <3> HIDE DEF step, n, head
    <3> QED
      BY <1>2, <2>1, <3>1, Walks, Zenon
  <2>3. ASSUME NEW k \in 1..n
        PROVE  g[k] = Hash!SweepStep(t, symbols, p, g[k - 1])
    <3>1. k - 1 \in 0..n
      BY <1>1
    <3> HIDE DEF n, step
    <3>2. g[k - 1] \in Runs /\ g[k] = step[k][g[k - 1]]
      BY <2>2, <3>1 DEF WalkOf
    <3> QED
      BY <3>2 DEF step
  <2> HIDE DEF n, head
  <2>4. \A k \in 0..n : k = 0 \/ k \in 1..n
    BY <1>1
  <2>5. g = Turns(g)
    BY <2>2, <2>3, <2>4 DEF WalkOf
  <2> QED
    BY <2>5
<1>4. f = Turns(f)
  <2> HIDE DEF n, head, Turns
  <2> QED
    BY <1>3
<1>5. Hash!Swept(t, symbols, p) = f[n]
  BY DEF Hash!Swept, Starting
<1> HIDE DEF f, head
<1>6. /\ f[0] = Starting(head)
      /\ \A k \in 1..n : f[k] = Hash!SweepStep(t, symbols, p, f[k - 1])
      /\ DOMAIN f = 0..n
  <2> DEFINE Turn(s) == IF s = 0 THEN Starting(head) ELSE Hash!SweepStep(t, symbols, p, f[s - 1])
  <2>1. f = [s \in 0..n |-> Turn(s)]
    BY <1>4
  <2>2. 0 \in 0..n /\ \A k \in 1..n : k \in 0..n /\ k # 0
    BY <1>1
  <2> HIDE DEF n, Turn
  <2>3. f[0] = Turn(0) /\ \A k \in 1..n : k # 0 /\ f[k] = Turn(k)
    BY <2>1, <2>2
  <2> QED
    BY <2>1, <2>3 DEF Turn
<1>7. \A k \in 0..n : f[k] \in Runs
  <2> DEFINE Good == {k \in 0..n : f[k] \in Runs}
  <2>1. 0 \in Good
    BY <1>1, <1>2, <1>6
  <2>2. \A k \in 1..n : k - 1 \in Good => k \in Good
    BY <1>1, <1>6, SweepTurn
  <2> HIDE DEF Good, n
  <2>3. \A k \in 0..n : k \in Good
    BY <1>1, <2>1, <2>2, Upward
  <2> QED
    BY <2>3 DEF Good
<1>8. f \in [0..n -> Runs]
  BY <1>4, <1>7
<1> QED
  BY <1>5, <1>6, <1>8 DEF Sweeping, head

(* Where the whole sweep finds nothing wrong, each symbol it reached was   *)
(* reached by a sound turn, before which the sweep had not ended.          *)
Reaching(t, symbols, p, f, k) ==
    /\ f[k].wrong = 0
    /\ ~f[k].done => Len(f[k].reached) = k /\ f[k].at # 0
    /\ Len(f[k].reached) <= k
    /\ \A j \in 1..Len(f[k].reached) :
           /\ ~f[j - 1].done
           /\ f[j - 1].at = f[k].reached[j]
           /\ Sound(t, symbols, p, f[j - 1], f[j])
LEMMA ReachedSoundly ==
    ASSUME NEW t \in Tables, NEW symbols \in Seq(Nat), NEW p \in Nat,
           NEW f, Sweeping(t, symbols, p, f), f[Len(t.chains) + 2].wrong = 0
    PROVE  \A k \in 0..(Len(t.chains) + 2) : Reaching(t, symbols, p, f, k)
<1> DEFINE n == Len(t.chains) + 2
<1>1. /\ n \in Nat /\ f \in [0..n -> Runs]
      /\ \A k \in 1..n : /\ k - 1 \in 0..n /\ k \in 0..n /\ f[k - 1] \in Runs
                         /\ f[k] = Hash!SweepStep(t, symbols, p, f[k - 1])
  <2>1. n \in Nat
    BY DEF Tables
  <2>2. /\ f \in [0..n -> Runs]
        /\ \A k \in 1..n : f[k] = Hash!SweepStep(t, symbols, p, f[k - 1])
    BY DEF Sweeping
  <2> HIDE DEF n
  <2>3. \A k \in 1..n : k - 1 \in 0..n /\ k \in 0..n
    BY <2>1
  <2> QED
    BY <2>1, <2>2, <2>3
<1> HIDE DEF n
<1>2. ASSUME NEW k \in 1..n
      PROVE  f[k].wrong >= f[k - 1].wrong
  <2>1. f[k - 1] \in Runs /\ f[k] = Hash!SweepStep(t, symbols, p, f[k - 1])
    BY <1>1
  <2> DEFINE r == f[k - 1]
             q == f[k]
  <2> HIDE DEF r, q
  <2>2. r \in Runs /\ q = Hash!SweepStep(t, symbols, p, r)
    BY <2>1 DEF r, q
  <2>3. q.wrong >= r.wrong
    BY <2>2, SweepTurn
  <2> QED
    BY <2>3 DEF r, q
<1>3. \A k \in 0..n : f[k].wrong \in Nat /\ f[k].done \in BOOLEAN /\ f[k].at \in Nat
                      /\ f[k].reached \in Seq(Nat)
  BY <1>1 DEF Runs
<1>4. \A k \in 0..n : f[k].wrong = 0
  <2> DEFINE Good == {k \in 0..n : f[n - k].wrong = 0}
  <2>1. 0 \in Good
    BY <1>1 DEF n
  <2>2. ASSUME NEW k \in 1..n, k - 1 \in Good
        PROVE  k \in Good
    <3>1. n - k \in 0..n /\ n - k + 1 \in 1..n /\ n - (k - 1) = n - k + 1 /\ (n - k + 1) - 1 = n - k
      BY <1>1
    <3>2. f[n - k + 1].wrong = 0 /\ f[n - k + 1].wrong >= f[n - k].wrong
      BY <1>2, <2>2, <3>1
    <3>3. f[n - k].wrong \in Nat
      BY <1>3, <3>1
    <3> QED
      BY <3>2, <3>3
  <2> HIDE DEF Good
  <2>3. \A k \in 0..n : k \in Good
    BY <1>1, <2>1, <2>2, Upward
  <2>4. \A k \in 0..n : n - k \in 0..n /\ n - (n - k) = k
    BY <1>1
  <2> QED
    BY <2>3, <2>4 DEF Good
<1>5. \A k \in 1..n : /\ f[k - 1].done => f[k] = f[k - 1]
                      /\ ~f[k - 1].done => Sound(t, symbols, p, f[k - 1], f[k])
  <2> SUFFICES ASSUME NEW k \in 1..n
               PROVE  /\ f[k - 1].done => f[k] = f[k - 1]
                      /\ ~f[k - 1].done => Sound(t, symbols, p, f[k - 1], f[k])
    OBVIOUS
  <2>1. f[k].wrong = f[k - 1].wrong
    BY <1>1, <1>4
  <2>2. f[k - 1] \in Runs /\ f[k] = Hash!SweepStep(t, symbols, p, f[k - 1])
    BY <1>1
  <2>3. f[k - 1].done => f[k] = f[k - 1]
    BY <2>2 DEF Hash!SweepStep
  <2>4. ~f[k - 1].done /\ f[k].wrong = f[k - 1].wrong => Sound(t, symbols, p, f[k - 1], f[k])
    BY <2>2, SweepTurn, Zenon
  <2> QED
    BY <2>1, <2>3, <2>4
<1> DEFINE Fine(k) == /\ ~f[k].done => Len(f[k].reached) = k /\ f[k].at # 0
                      /\ Len(f[k].reached) <= k
                      /\ \A j \in 1..Len(f[k].reached) :
                             /\ ~f[j - 1].done
                             /\ f[j - 1].at = f[k].reached[j]
                             /\ Sound(t, symbols, p, f[j - 1], f[j])
           Good == {k \in 0..n : Fine(k)}
<1>6. 0 \in Good
  <2>1. f[0] = Starting(t.buckets[p + 1])
    BY DEF Sweeping
  <2>2. f[0].reached = <<>> /\ f[0].at = t.buckets[p + 1] /\ f[0].done = (t.buckets[p + 1] = 0)
    BY <2>1 DEF Starting
  <2>3. ~f[0].done => f[0].at # 0
    BY <2>2
  <2>4. Len(f[0].reached) = 0 /\ 1..0 = {} /\ 0 \in 0..n
    BY <1>1, <2>2
  <2> QED
    BY <2>3, <2>4
<1>7. ASSUME NEW k \in 1..n, k - 1 \in Good
      PROVE  k \in Good
  <2>1. Fine(k - 1)
    BY <1>7
  <2>2. CASE f[k - 1].done
    <3>1. f[k] = f[k - 1]
      BY <2>2, <1>5
    <3>2. Len(f[k - 1].reached) \in Nat /\ Len(f[k - 1].reached) <= k - 1
      BY <2>1, <1>1, <1>3
    <3>3. Len(f[k].reached) <= k
      BY <3>1, <3>2
    <3> QED
      BY <2>1, <2>2, <3>1, <3>3, <1>1
  <2>3. CASE ~f[k - 1].done
    <3>1. Sound(t, symbols, p, f[k - 1], f[k])
      BY <2>3, <1>5
    <3>2. Len(f[k - 1].reached) = k - 1 /\ f[k - 1].reached \in Seq(Nat) /\ f[k - 1].at \in Nat
      BY <2>1, <2>3, <1>1, <1>3
    <3>3. f[k].reached = Append(f[k - 1].reached, f[k - 1].at)
      BY <3>1 DEF Sound
    <3>4. /\ Len(f[k].reached) = k /\ f[k].reached[k] = f[k - 1].at
          /\ \A j \in 1..(k - 1) : f[k].reached[j] = f[k - 1].reached[j]
      BY <3>2, <3>3
    <3>5. ~f[k].done => f[k].at # 0
      <4>1. CASE t.gnu
        <5>1. f[k].at = f[k - 1].at + 1
          BY <3>1, <4>1 DEF Sound
        <5> QED
          BY <5>1, <3>2
      <4>2. CASE ~t.gnu
        <5>1. f[k].done = (f[k].at = 0)
          BY <3>1, <4>2 DEF Sound
        <5> QED
          BY <5>1
      <4> QED
        BY <4>1, <4>2
    <3>6. ASSUME NEW j \in 1..k
          PROVE  /\ ~f[j - 1].done
                 /\ f[j - 1].at = f[k].reached[j]
                 /\ Sound(t, symbols, p, f[j - 1], f[j])
      <4>1. CASE j = k
        BY <4>1, <2>3, <3>1, <3>4
      <4>2. CASE j # k
        <5>1. j \in 1..(k - 1)
          BY <4>2
        <5> QED
          BY <5>1, <2>1, <3>2, <3>4
      <4> QED
        BY <4>1, <4>2
    <3> QED
      BY <3>4, <3>5, <3>6
  <2> QED
    BY <2>2, <2>3
<1> HIDE DEF Fine
<1>8. \A k \in 0..n : Fine(k)
  <2> HIDE DEF Good
  <2>1. \A k \in 0..n : k \in Good
    BY <1>1, <1>6, <1>7, Upward
  <2> QED
    BY <2>1 DEF Good
<1> QED
  BY <1>4, <1>8 DEF Fine, n, Reaching

(* Two facts of arithmetic the provers want in this form.                  *)
LEMMA OneUp ==
    ASSUME NEW a \in Int, NEW n \in Nat, a \in 0..(n - 1)
    PROVE  a + 1 \in 1..n
OBVIOUS
LEMMA OneDown ==
    ASSUME NEW l \in Nat, NEW n \in Nat, l <= n, NEW m \in 1..l
    PROVE  m \in 1..n /\ m - 1 \in 0..n
OBVIOUS

(* A turn of the lookup of the i-th name.                                  *)
LookStep(t, i, at) ==
    LET word == t.chains[at - t.symoffset + 1]
    IN  IF at = 0 \/ at = i \/ at - t.symoffset + 1 \notin 1..Len(t.chains) THEN at
        ELSE IF ~t.gnu THEN word
        ELSE IF Hash!MarkedEnd(word) THEN 0 ELSE at + 1

(* One turn of a lookup leaves it at a natural number.                     *)
LEMMA LookTurn ==
    ASSUME NEW t \in Tables, NEW i, NEW at \in Nat
    PROVE  LookStep(t, i, at) \in Nat
<1>1. t.chains \in Seq(Nat) /\ t.symoffset \in Nat
  BY DEF Tables
<1> DEFINE place == at - t.symoffset + 1
<1>2. place \in 1..Len(t.chains) => t.chains[place] \in Nat
  <2> HIDE DEF place
  <2> QED
    BY <1>1
<1> QED
  BY <1>2 DEF LookStep

Looking(t, symbols, i, g) ==
    /\ g \in [0..(Len(t.chains) + 2) -> Nat]
    /\ g[0] = t.buckets[(symbols[i] % Len(t.buckets)) + 1]
    /\ \A k \in 1..(Len(t.chains) + 2) : g[k] = LookStep(t, i, g[k - 1])

(* A lookup is a run of such turns, and finds a name where it ends on it.  *)
LEMMA LookupIs ==
    ASSUME NEW t \in Tables, NEW symbols \in Seq(Nat), NEW i \in DOMAIN symbols, Len(t.buckets) > 0
    PROVE  \E g : /\ Looking(t, symbols, i, g)
                  /\ (/\ g[Len(t.chains) + 2] = i /\ i # 0
                      /\ i - t.symoffset + 1 \in 1..Len(t.chains)
                      /\ t.gnu => Hash!Marked(t.chains[i - t.symoffset + 1], TRUE)
                                      = Hash!Marked(symbols[i], TRUE))
                     => Hash!Lookup(t, symbols, i)
<1> DEFINE n == Len(t.chains) + 2
           head == t.buckets[(symbols[i] % Len(t.buckets)) + 1]
           Turns(g) == [s \in 0..n |-> IF s = 0 THEN head ELSE LookStep(t, i, g[s - 1])]
           g == CHOOSE g : g = Turns(g)
<1>1. /\ t.buckets \in Seq(Nat) /\ t.chains \in Seq(Nat) /\ n \in Nat
  BY DEF Tables
<1>2. head \in Nat
  <2>1. symbols[i] \in Nat /\ Len(t.buckets) \in Nat /\ Len(t.buckets) > 0
    BY <1>1
  <2>2. (symbols[i] % Len(t.buckets)) + 1 \in 1..Len(t.buckets)
    BY <2>1
  <2>3. \A k \in 1..Len(t.buckets) : t.buckets[k] \in Nat
    BY <1>1, SMTT(30)
  <2> QED
    BY <2>2, <2>3
<1>3. \E h : h = Turns(h)
  <2> DEFINE step == [k \in 1..n |-> [at \in Nat |-> LookStep(t, i, at)]]
  <2>1. step \in [1..n -> [Nat -> Nat]]
    BY LookTurn
  <2>2. PICK h : WalkOf(n, Nat, head, step, h)
    <3>1. n \in Nat
      BY <1>1
    <3> HIDE DEF step, n, head
    <3> QED
      BY <1>2, <2>1, <3>1, Walks, Zenon
  <2>3. ASSUME NEW k \in 1..n
        PROVE  h[k] = LookStep(t, i, h[k - 1])
    <3>1. k - 1 \in 0..n
      BY <1>1
    <3> HIDE DEF n, step
    <3>2. h[k - 1] \in Nat /\ h[k] = step[k][h[k - 1]]
      BY <2>2, <3>1 DEF WalkOf
    <3> QED
      BY <3>2 DEF step
  <2> HIDE DEF n, head
  <2>4. \A k \in 0..n : k = 0 \/ k \in 1..n
    BY <1>1
  <2>5. h = Turns(h)
    BY <2>2, <2>3, <2>4 DEF WalkOf
  <2> QED
    BY <2>5
<1>4. g = Turns(g)
  <2> HIDE DEF n, head, Turns
  <2> QED
    BY <1>3
<1>5. (/\ g[n] = i /\ i # 0
       /\ i - t.symoffset + 1 \in 1..Len(t.chains)
       /\ t.gnu => Hash!Marked(t.chains[i - t.symoffset + 1], TRUE) = Hash!Marked(symbols[i], TRUE))
      => Hash!Lookup(t, symbols, i)
  BY DEF Hash!Lookup, LookStep
<1> HIDE DEF g, head
<1>6. /\ g[0] = head
      /\ \A k \in 1..n : g[k] = LookStep(t, i, g[k - 1])
      /\ DOMAIN g = 0..n
  <2> DEFINE Turn(s) == IF s = 0 THEN head ELSE LookStep(t, i, g[s - 1])
  <2>1. g = [s \in 0..n |-> Turn(s)]
    BY <1>4
  <2>2. 0 \in 0..n /\ \A k \in 1..n : k \in 0..n /\ k # 0
    BY <1>1
  <2> HIDE DEF n, Turn
  <2>3. g[0] = Turn(0) /\ \A k \in 1..n : k # 0 /\ g[k] = Turn(k)
    BY <2>1, <2>2
  <2> QED
    BY <2>1, <2>3 DEF Turn
<1>7. \A k \in 0..n : g[k] \in Nat
  <2> DEFINE Good == {k \in 0..n : g[k] \in Nat}
  <2>1. 0 \in Good
    BY <1>1, <1>2, <1>6
  <2>2. \A k \in 1..n : k - 1 \in Good => k \in Good
    BY <1>1, <1>6, LookTurn
  <2> HIDE DEF Good, n
  <2>3. \A k \in 0..n : k \in Good
    BY <1>1, <2>1, <2>2, Upward
  <2> QED
    BY <2>3 DEF Good
<1>8. g \in [0..n -> Nat]
  BY <1>4, <1>7
<1> QED
  BY <1>5, <1>6, <1>8 DEF Looking, head

(* The lookup goes where the sweep of the name's bucket went.              *)
LEMMA LooksAlong ==
    ASSUME NEW t \in Tables, NEW symbols \in Seq(Nat), NEW i \in DOMAIN symbols,
           NEW p \in 0..(Len(t.buckets) - 1), symbols[i] % Len(t.buckets) = p,
           NEW f, Sweeping(t, symbols, p, f), f[Len(t.chains) + 2].wrong = 0,
           NEW g, Looking(t, symbols, i, g),
           NEW m \in 1..Len(f[Len(t.chains) + 2].reached),
           f[Len(t.chains) + 2].reached[m] = i
    PROVE  g[Len(t.chains) + 2] = i /\ Sound(t, symbols, p, f[m - 1], f[m]) /\ f[m - 1].at = i
<1> DEFINE n == Len(t.chains) + 2
<1>1. n \in Nat /\ t.chains \in Seq(Nat) /\ t.symoffset \in Nat /\ t.gnu \in BOOLEAN
  BY DEF Tables
<1>2. f \in [0..n -> Runs] /\ g \in [0..n -> Nat] /\ f[0] = Starting(t.buckets[p + 1])
      /\ g[0] = t.buckets[p + 1] /\ \A k \in 1..n : g[k] = LookStep(t, i, g[k - 1])
  BY DEF Sweeping, Looking
<1> HIDE DEF n
<1>3. /\ \A k \in 0..n : ~f[k].done => f[k].at # 0
      /\ \A j \in 1..Len(f[n].reached) :
             /\ ~f[j - 1].done
             /\ f[j - 1].at = f[n].reached[j]
             /\ Sound(t, symbols, p, f[j - 1], f[j])
      /\ Len(f[n].reached) <= n
  <2>1. n \in 0..n
    BY <1>1
  <2>2. \A k \in 0..n : Reaching(t, symbols, p, f, k)
    BY ReachedSoundly DEF n
  <2>3. Reaching(t, symbols, p, f, n) /\ \A k \in 0..n : ~f[k].done => f[k].at # 0
    BY <2>1, <2>2 DEF Reaching
  <2> QED
    BY <2>3 DEF Reaching
<1>4. Len(f[n].reached) \in Nat /\ m \in 1..Len(f[n].reached) /\ m \in 1..n /\ m - 1 \in 0..n
  <2>1. n \in 0..n
    BY <1>1
  <2>2. f[n].reached \in Seq(Nat)
    BY <1>2, <2>1 DEF Runs
  <2>3. m \in 1..Len(f[n].reached)
    BY DEF n
  <2>4. Len(f[n].reached) \in Nat /\ Len(f[n].reached) <= n
    BY <1>3, <2>2
  <2> QED
    BY <1>1, <2>3, <2>4, OneDown
<1>5. f[m - 1].at = i /\ Sound(t, symbols, p, f[m - 1], f[m])
  BY <1>3, <1>4 DEF n
<1>6. i \in Nat /\ i # 0
  OBVIOUS
<1>7. \A k \in 1..n : g[k - 1] = i => g[k] = i
  BY <1>2 DEF LookStep
<1> DEFINE Along == {k \in 0..(m - 1) : g[k] = f[k].at \/ g[k] = i}
<1>8. 0 \in Along
  BY <1>2, <1>4 DEF Starting
<1>9. ASSUME NEW k \in 1..(m - 1), k - 1 \in Along
      PROVE  k \in Along
  <2>1. /\ k \in 1..n /\ k - 1 \in 0..n /\ k \in 1..Len(f[n].reached) /\ k \in 0..(m - 1)
        /\ k + 1 \in 1..Len(f[n].reached) /\ (k + 1) - 1 = k
    BY <1>1, <1>4, SMTT(30)
  <2>2. ~f[k - 1].done /\ ~f[k].done /\ Sound(t, symbols, p, f[k - 1], f[k]) /\ f[k - 1].at # 0
    BY <1>3, <2>1
  <2>3. CASE g[k - 1] = i
    BY <2>3, <1>7, <2>1
  <2>4. CASE g[k - 1] = f[k - 1].at /\ g[k - 1] # i
    <3> DEFINE at == f[k - 1].at
               word == t.chains[at - t.symoffset + 1]
    <3>1. at \in Nat /\ at # 0 /\ at # i /\ at - t.symoffset + 1 \in 1..Len(t.chains)
      <4>1. at \in Nat
        BY <1>2, <2>1 DEF Runs
      <4>2. at - t.symoffset \in 0..(Len(t.chains) - 1)
        BY <2>2 DEF Sound
      <4>3. Len(t.chains) \in Nat
        BY <1>1
      <4>4. at - t.symoffset + 1 \in 1..Len(t.chains)
        <5> HIDE DEF at
        <5>1. at - t.symoffset \in Int
          BY <4>1, <1>1
        <5> QED
          BY <4>2, <4>3, <5>1, OneUp
      <4> QED
        BY <4>1, <4>4, <2>2, <2>4
    <3>2. g[k] = LookStep(t, i, at)
      BY <1>2, <2>1, <2>4
    <3>3. g[k] = (IF ~t.gnu THEN word ELSE IF Hash!MarkedEnd(word) THEN 0 ELSE at + 1)
      BY <3>1, <3>2 DEF LookStep
    <3>4. g[k] = f[k].at
      BY <3>3, <2>2 DEF Sound
    <3> QED
      BY <2>1, <3>4
  <2> QED
    BY <1>9, <2>3, <2>4
<1>10. g[m - 1] = i
  <2>1. m - 1 \in Nat /\ m - 1 \in 0..(m - 1)
    BY <1>4
  <2> HIDE DEF Along
  <2>2. m - 1 \in Along
    BY <1>8, <1>9, <2>1, Upward
  <2> QED
    BY <2>2, <1>5 DEF Along
<1>11. g[n] = i
  <2> DEFINE Good == {k \in 0..(n - (m - 1)) : g[m - 1 + k] = i}
  <2>1. n - (m - 1) \in Nat
    BY <1>1, <1>4
  <2>2. 0 \in Good
    BY <1>10, <1>4, <2>1
  <2>3. ASSUME NEW k \in 1..(n - (m - 1)), k - 1 \in Good
        PROVE  k \in Good
    <3>1. m - 1 + k \in 1..n /\ (m - 1 + k) - 1 = m - 1 + (k - 1)
      BY <1>1, <1>4
    <3>2. g[(m - 1 + k) - 1] = i
      BY <2>3, <3>1
    <3> QED
      BY <1>7, <3>1, <3>2
  <2> HIDE DEF Good
  <2>4. n - (m - 1) \in Good
    <3>1. \A k \in 0..(n - (m - 1)) : k \in Good
      BY <2>1, <2>2, <2>3, Upward
    <3> QED
      BY <2>1, <3>1
  <2> QED
    BY <2>4, <1>1, <1>4 DEF Good
<1> QED
  BY <1>5, <1>11 DEF n

(* A table whose account closes finds every name from its floor on.        *)
LEMMA ClosedFindsAll ==
    ASSUME NEW t \in Tables, NEW symbols \in Seq(Nat), Hash!AccountCloses(t, symbols),
           NEW i \in DOMAIN symbols, i >= Hash!Floor(t)
    PROVE  Hash!Lookup(t, symbols, i)
<1> DEFINE n == Len(t.chains) + 2
           runs == [p \in 0..(Len(t.buckets) - 1) |-> Hash!Swept(t, symbols, p)]
           seen == UNION {{<<p, k>> : k \in 1..Len(runs[p].reached)} : p \in DOMAIN runs}
<1>1. /\ \A p \in DOMAIN runs : runs[p].wrong = 0
      /\ {runs[x[1]].reached[x[2]] : x \in seen} = {k \in 1..Len(symbols) : k >= Hash!Floor(t)}
  BY DEF Hash!AccountCloses
<1>2. i \in {k \in 1..Len(symbols) : k >= Hash!Floor(t)}
  OBVIOUS
<1> HIDE DEF seen
<1>3. PICK x \in seen : runs[x[1]].reached[x[2]] = i
  <2> HIDE DEF runs
  <2>1. i \in {runs[x[1]].reached[x[2]] : x \in seen}
    BY <1>1, <1>2
  <2> QED
    BY <2>1
<1>4. PICK p \in 0..(Len(t.buckets) - 1) :
          /\ Hash!Swept(t, symbols, p).wrong = 0
          /\ \E m \in 1..Len(Hash!Swept(t, symbols, p).reached) :
                 Hash!Swept(t, symbols, p).reached[m] = i
  <2>1. PICK p \in DOMAIN runs : \E k \in 1..Len(runs[p].reached) : x = <<p, k>>
    BY <1>3 DEF seen
  <2>2. PICK k \in 1..Len(runs[p].reached) : x = <<p, k>>
    BY <2>1
  <2>3. runs[p] = Hash!Swept(t, symbols, p) /\ p \in 0..(Len(t.buckets) - 1)
    BY <2>1
  <2> HIDE DEF runs
  <2>4. runs[p].reached[k] = i /\ runs[p].wrong = 0
    BY <1>1, <1>3, <2>1, <2>2
  <2> QED
    BY <2>2, <2>3, <2>4
<1>13. PICK m \in 1..Len(Hash!Swept(t, symbols, p).reached) :
         Hash!Swept(t, symbols, p).reached[m] = i
  BY <1>4
<1>5. PICK f : Sweeping(t, symbols, p, f) /\ Hash!Swept(t, symbols, p) = f[n]
  BY SweptIs
<1>6. t.buckets \in Seq(Nat) /\ t.chains \in Seq(Nat) /\ t.symoffset \in Nat /\ t.gnu \in BOOLEAN
      /\ p \in Nat /\ Len(t.buckets) > 0 /\ n \in 0..n
  BY DEF Tables
<1>7. f[m - 1].at = i /\ Sound(t, symbols, p, f[m - 1], f[m])
  <2>1. f[n].wrong = 0 /\ m \in 1..Len(f[n].reached) /\ f[n].reached[m] = i
    BY <1>4, <1>5, <1>13
  <2>2. \A k \in 0..n : Reaching(t, symbols, p, f, k)
    BY <1>5, <1>6, <2>1, ReachedSoundly
  <2>3. Reaching(t, symbols, p, f, n)
    BY <1>6, <2>2
  <2> HIDE DEF n
  <2> QED
    BY <2>1, <2>3 DEF Reaching
<1>8. symbols[i] % Len(t.buckets) = p
  BY <1>7 DEF Sound
<1>9. PICK g : /\ Looking(t, symbols, i, g)
               /\ (/\ g[n] = i /\ i # 0
                   /\ i - t.symoffset + 1 \in 1..Len(t.chains)
                   /\ t.gnu => Hash!Marked(t.chains[i - t.symoffset + 1], TRUE)
                                   = Hash!Marked(symbols[i], TRUE))
                  => Hash!Lookup(t, symbols, i)
  BY <1>6, LookupIs
<1>10. g[n] = i
  BY <1>4, <1>5, <1>8, <1>9, <1>13, LooksAlong
<1>11. i \in Nat /\ i # 0 /\ i - t.symoffset + 1 \in 1..Len(t.chains)
  <2>1. i - t.symoffset \in 0..(Len(t.chains) - 1)
    BY <1>7 DEF Sound
  <2>2. i \in Nat /\ i # 0
    OBVIOUS
  <2>3. Len(t.chains) \in Nat /\ i - t.symoffset \in Int
    BY <1>6, <2>2, SMTT(30)
  <2> QED
    BY <2>1, <2>2, <2>3, OneUp
<1>12. ASSUME t.gnu
       PROVE  Hash!Marked(t.chains[i - t.symoffset + 1], TRUE) = Hash!Marked(symbols[i], TRUE)
  <2> DEFINE word == t.chains[i - t.symoffset + 1]
  <2>1. word = Hash!Marked(symbols[i], Hash!MarkedEnd(word))
    BY <1>7, <1>12 DEF Sound
  <2>2. symbols[i] \in Nat
    OBVIOUS
  <2> HIDE DEF word
  <2>3. \A w \in Nat : Hash!Marked(Hash!Marked(w, TRUE), TRUE) = Hash!Marked(w, TRUE)
                       /\ Hash!Marked(Hash!Marked(w, FALSE), TRUE) = Hash!Marked(w, TRUE)
    BY DEF Hash!Marked
  <2>4. Hash!MarkedEnd(word) \in BOOLEAN
    BY DEF Hash!MarkedEnd
  <2>5. Hash!Marked(word, TRUE) = Hash!Marked(symbols[i], TRUE)
    BY <2>1, <2>2, <2>3, <2>4
  <2> QED
    BY <2>5 DEF word
<1> QED
  BY <1>9, <1>10, <1>11, <1>12

-----------------------------------------------------------------------------
(* A table as a linker lays one down: the head of each bucket and, for each *)
(* symbol, a word that leads to the next of its bucket.                    *)
BucketOf(t, symbols, p) ==
    {i \in Hash!Floor(t)..Len(symbols) : symbols[i] % Len(t.buckets) = p}
LaterOf(t, symbols, p, i) == {j \in BucketOf(t, symbols, p) : i < j}
LeadsOn(t, symbols, p, i) ==
    /\ i - t.symoffset \in 0..(Len(t.chains) - 1)
    /\ t.gnu => /\ t.chains[i - t.symoffset + 1]
                     = Hash!Marked(symbols[i], LaterOf(t, symbols, p, i) = {})
                /\ LaterOf(t, symbols, p, i) # {} => i + 1 \in LaterOf(t, symbols, p, i)
    /\ ~t.gnu => t.chains[i - t.symoffset + 1] = Hash!HeadOf(LaterOf(t, symbols, p, i))
LaidDown(t, symbols) ==
    /\ Hash!Floor(t) \in Nat \ {0} /\ Len(t.buckets) >= 1
    /\ Len(symbols) - Hash!Floor(t) + 1 <= Len(t.chains)
    /\ \A p \in 0..(Len(t.buckets) - 1) : t.buckets[p + 1] = Hash!HeadOf(BucketOf(t, symbols, p))
    /\ \A p \in 0..(Len(t.buckets) - 1) : \A i \in BucketOf(t, symbols, p) :
         LeadsOn(t, symbols, p, i)

(* A set of symbols has a least, and none is 0.                            *)
LEMMA HeadIs ==
    ASSUME NEW S \in SUBSET (Nat \ {0})
    PROVE  /\ S = {} => Hash!HeadOf(S) = 0
           /\ S # {} => /\ Hash!HeadOf(S) \in S /\ Hash!HeadOf(S) # 0
                        /\ \A i \in S : Hash!HeadOf(S) <= i
<1>1. CASE S = {}
  BY <1>1 DEF Hash!HeadOf
<1>2. CASE S # {}
  <2>1. \E a \in S : \A b \in S : a <= b
    BY <1>2, LeastOf
  <2>2. Hash!HeadOf(S) = Hash!Least(S)
    BY <1>2 DEF Hash!HeadOf
  <2>3. Hash!Least(S) \in S /\ \A i \in S : Hash!Least(S) <= i
    BY <2>1 DEF Hash!Least
  <2> QED
    BY <1>2, <2>2, <2>3
<1> QED
  BY <1>1, <1>2

(* A marked word says whether it ends its chain.                           *)
LEMMA MarkSays ==
    ASSUME NEW h \in Nat, NEW end \in BOOLEAN
    PROVE  Hash!MarkedEnd(Hash!Marked(h, end)) = end /\ Hash!Marked(h, end) \in Nat
<1> DEFINE half == h \div 2
<1>1. half \in Nat
  OBVIOUS
<1>2. Hash!Marked(h, TRUE) = half * 2 + 1 /\ Hash!Marked(h, FALSE) = half * 2
  BY <1>1 DEF Hash!Marked
<1> HIDE DEF half
<1>3. (half * 2 + 1) % 2 = 1 /\ (half * 2) % 2 = 0 /\ half * 2 + 1 \in Nat /\ half * 2 \in Nat
  BY <1>1
<1>4. CASE end = TRUE
  <2>1. Hash!Marked(h, end) = half * 2 + 1
    BY <1>2, <1>4
  <2>2. Hash!MarkedEnd(Hash!Marked(h, end))
    BY <1>3, <2>1 DEF Hash!MarkedEnd
  <2> QED
    BY <1>3, <1>4, <2>1, <2>2 DEF Hash!MarkedEnd
<1>5. CASE end = FALSE
  <2>1. Hash!Marked(h, end) = half * 2
    BY <1>2, <1>5
  <2>2. ~Hash!MarkedEnd(Hash!Marked(h, end))
    BY <1>3, <2>1 DEF Hash!MarkedEnd
  <2> QED
    BY <1>3, <1>5, <2>1, <2>2 DEF Hash!MarkedEnd
<1> QED
  BY <1>4, <1>5

LEMMA StaysInside ==
    ASSUME NEW l \in Nat, NEW x \in 0..(l - 1)
    PROVE  ~(x < 0) /\ ~(x >= l)
OBVIOUS

(* What a sweep of bucket p has reached: the members before it, in order.  *)
ReachedBy(r) == {r.reached[j] : j \in 1..Len(r.reached)}
SweptUpTo(k, t, symbols, p, r) ==
    /\ r.wrong = 0
    /\ \A i, j \in 1..Len(r.reached) : i < j => r.reached[i] < r.reached[j]
    /\ IF r.done THEN ReachedBy(r) = BucketOf(t, symbols, p)
       ELSE /\ r.at \in BucketOf(t, symbols, p)
            /\ ReachedBy(r) = {i \in BucketOf(t, symbols, p) : i < r.at}
            /\ r.steps = k /\ k <= r.at - Hash!Floor(t)

LEMMA ReachedMore ==
    ASSUME NEW s \in Seq(Nat), NEW at \in Nat, \A j \in 1..Len(s) : s[j] < at,
           \A i, j \in 1..Len(s) : i < j => s[i] < s[j],
           NEW q, q.reached = Append(s, at)
    PROVE  /\ \A i, j \in 1..Len(q.reached) : i < j => q.reached[i] < q.reached[j]
           /\ ReachedBy(q) = {s[j] : j \in 1..Len(s)} \cup {at}
<1> DEFINE longer == Append(s, at)
           n == Len(s)
<1>1. n \in Nat /\ Len(longer) = n + 1 /\ longer[n + 1] = at /\ \A j \in 1..n : longer[j] = s[j]
  OBVIOUS
<1>2. \A j \in 1..(n + 1) : j \in 1..n \/ j = n + 1
  BY <1>1
<1>3. \A j \in 1..n : j \in 1..(n + 1) /\ s[j] \in Nat
  BY <1>1
<1> HIDE DEF longer, n
<1>4. ASSUME NEW i \in 1..(n + 1), NEW j \in 1..(n + 1), i < j
      PROVE  longer[i] < longer[j]
  <2>1. i \in 1..n
    BY <1>1, <1>2, <1>4
  <2>2. CASE j = n + 1
    BY <1>1, <2>1, <2>2 DEF n
  <2>3. CASE j \in 1..n
    BY <1>1, <1>4, <2>1, <2>3 DEF n
  <2> QED
    BY <1>2, <2>2, <2>3
<1>5. {longer[j] : j \in 1..(n + 1)} = {s[j] : j \in 1..n} \cup {at}
  <2>1. ASSUME NEW j \in 1..(n + 1)
        PROVE  longer[j] \in {s[m] : m \in 1..n} \cup {at}
    <3>1. CASE j \in 1..n
      BY <1>1, <3>1
    <3>2. CASE j = n + 1
      BY <1>1, <3>2
    <3> QED
      BY <1>2, <3>1, <3>2
  <2>2. ASSUME NEW j \in 1..n
        PROVE  s[j] \in {longer[m] : m \in 1..(n + 1)}
    <3>1. longer[j] = s[j] /\ j \in 1..(n + 1)
      BY <1>1, <1>3
    <3> QED
      BY <3>1
  <2>3. n + 1 \in 1..(n + 1)
    BY <1>1
  <2>4. at \in {longer[m] : m \in 1..(n + 1)}
    BY <1>1, <2>3
  <2> QED
    BY <2>1, <2>2, <2>4
<1>6. q.reached = longer /\ Len(q.reached) = n + 1
  BY <1>1 DEF longer
<1> QED
  BY <1>4, <1>5, <1>6 DEF ReachedBy, n

LEMMA SweepsOn ==
    ASSUME NEW t \in Tables, NEW symbols \in Seq(Nat), LaidDown(t, symbols),
           NEW p \in 0..(Len(t.buckets) - 1), NEW k \in Nat \ {0}, NEW r \in Runs,
           NEW q, q = Hash!SweepStep(t, symbols, p, r), SweptUpTo(k - 1, t, symbols, p, r)
    PROVE  SweptUpTo(k, t, symbols, p, q)
<1> DEFINE B == BucketOf(t, symbols, p)
           floor == Hash!Floor(t)
           at == r.at
           later == LaterOf(t, symbols, p, at)
           word == t.chains[at - t.symoffset + 1]
           next == IF t.gnu THEN at + 1 ELSE word
           ends == IF t.gnu THEN Hash!MarkedEnd(word) ELSE next = 0
<1>1. CASE r.done
  <2>1. q = r
    BY <1>1 DEF Hash!SweepStep
  <2> QED
    BY <1>1, <2>1 DEF SweptUpTo
<1>2. CASE ~r.done
  <2>1. /\ at \in B /\ ReachedBy(r) = {i \in B : i < at} /\ r.steps = k - 1 /\ k - 1 <= at - floor
        /\ r.wrong = 0 /\ \A i, j \in 1..Len(r.reached) : i < j => r.reached[i] < r.reached[j]
    BY <1>2 DEF SweptUpTo
  <2>2. /\ floor \in Nat \ {0} /\ Len(symbols) \in Nat /\ Len(t.chains) \in Nat
        /\ Len(symbols) - floor + 1 <= Len(t.chains) /\ t.symoffset \in Nat
        /\ at \in Nat /\ r.reached \in Seq(Nat) /\ t.gnu \in BOOLEAN
    <3>1. floor \in Nat \ {0} /\ Len(symbols) - floor + 1 <= Len(t.chains) /\ Len(symbols) \in Nat
      BY DEF LaidDown
    <3>2. t.chains \in Seq(Nat) /\ t.symoffset \in Nat /\ t.gnu \in BOOLEAN
      BY DEF Tables
    <3>3. at \in Nat /\ r.reached \in Seq(Nat)
      BY DEF Runs
    <3>4. Len(t.chains) \in Nat
      BY <3>2
    <3> QED
      BY <3>1, <3>2, <3>3, <3>4
  <2>3. at \in floor..Len(symbols) /\ symbols[at] % Len(t.buckets) = p /\ symbols[at] \in Nat
    <3>1. at \in floor..Len(symbols) /\ symbols[at] % Len(t.buckets) = p
      BY <2>1 DEF BucketOf
    <3>2. at \in 1..Len(symbols)
      BY <2>2, <3>1
    <3> QED
      BY <3>1, <3>2
  <2>4. /\ at - t.symoffset \in 0..(Len(t.chains) - 1)
        /\ t.gnu => word = Hash!Marked(symbols[at], later = {}) /\ (later # {} => at + 1 \in later)
        /\ ~t.gnu => word = Hash!HeadOf(later)
    BY <2>1 DEF LaidDown, LeadsOn
  <2>5. later \in SUBSET (Nat \ {0}) /\ later \in SUBSET B /\ \A j \in later : at < j
    BY <2>2 DEF LaterOf, BucketOf
  <2>6. B \in SUBSET Nat
    BY <2>2 DEF BucketOf
  <2>7. later = {j \in B : at < j}
    BY DEF LaterOf
  <2> HIDE DEF B, floor, at, later, word, next, ends
  <2>8. ~(r.steps > Len(t.chains) \/ at - t.symoffset < 0 \/ at - t.symoffset >= Len(t.chains)
          \/ at > Len(symbols))
    <3>1. ~(at - t.symoffset < 0) /\ ~(at - t.symoffset >= Len(t.chains))
      <4>1. Len(t.chains) \in Nat /\ at - t.symoffset \in 0..(Len(t.chains) - 1)
        BY <2>2, <2>4
      <4> QED
        BY <4>1, StaysInside
    <3>2. r.steps = k - 1 /\ k - 1 <= at - floor
      BY <2>1
    <3>3. at \in Nat /\ at <= Len(symbols)
      BY <2>2, <2>3
    <3>4. ~(r.steps > Len(t.chains)) /\ ~(at > Len(symbols))
      <4>1. \A a, l, c \in Nat, f \in Nat : a <= l /\ l - f + 1 <= c /\ k - 1 <= a - f => k - 1 < c
        OBVIOUS
      <4>2. k - 1 < Len(t.chains)
        BY <2>2, <3>2, <3>3, <4>1
      <4> QED
        BY <2>2, <3>2, <3>3, <4>2
    <3> QED
      BY <3>1, <3>4
  <2>9. t.gnu => word = Hash!Marked(symbols[at], Hash!MarkedEnd(word))
                 /\ Hash!MarkedEnd(word) = (later = {})
    <3> SUFFICES ASSUME t.gnu PROVE word = Hash!Marked(symbols[at], Hash!MarkedEnd(word))
                                    /\ Hash!MarkedEnd(word) = (later = {})
      OBVIOUS
    <3> DEFINE last == (later = {})
    <3>1. last \in BOOLEAN /\ word = Hash!Marked(symbols[at], last)
      BY <2>4
    <3> HIDE DEF last
    <3>2. Hash!MarkedEnd(word) = last
      BY <2>3, <3>1, MarkSays
    <3> QED
      BY <3>1, <3>2 DEF last
  <2>10. ends = (later = {}) /\ (later # {} => next \in later /\ \A j \in later : next <= j)
    <3>1. CASE t.gnu
      <4>1. ends = (later = {}) /\ next = at + 1
        BY <2>9, <3>1 DEF ends, next
      <4>2. later # {} => at + 1 \in later
        BY <2>4, <3>1
      <4>3. \A j \in later : at + 1 <= j
        BY <2>2, <2>5
      <4> QED
        BY <4>1, <4>2, <4>3
    <3>2. CASE ~t.gnu
      <4>1. next = Hash!HeadOf(later) /\ ends = (next = 0)
        BY <2>4, <3>2 DEF ends, next
      <4> QED
        BY <2>5, <4>1, HeadIs
    <3> QED
      BY <2>2, <3>1, <3>2
  <2>11. /\ q.at = next /\ q.steps = r.steps + 1 /\ q.reached = Append(r.reached, at)
         /\ q.wrong = 0 /\ q.done = ends
    <3> DEFINE agreed == t.gnu => word = Hash!Marked(symbols[at], Hash!MarkedEnd(word))
               placed == symbols[at] % Len(t.buckets) = p
               bad == (IF agreed THEN 0 ELSE 1) + (IF placed THEN 0 ELSE 1)
    <3>1. bad = 0
      BY <2>3, <2>9
    <3>2. q = [at |-> next, steps |-> r.steps + 1, reached |-> Append(r.reached, at),
               wrong |-> r.wrong + bad, done |-> bad > 0 \/ ends]
      BY <1>2, <2>8 DEF Hash!SweepStep, at, word, next, ends
    <3> HIDE DEF bad
    <3>3. ends \in BOOLEAN
      BY <2>10
    <3> QED
      BY <2>1, <3>1, <3>2, <3>3
  <2>12. /\ \A i, j \in 1..Len(q.reached) : i < j => q.reached[i] < q.reached[j]
         /\ ReachedBy(q) = {i \in B : i < at} \cup {at}
    <3>1. \A j \in 1..Len(r.reached) : r.reached[j] < at
      BY <2>1 DEF ReachedBy
    <3>2. ReachedBy(r) = {r.reached[j] : j \in 1..Len(r.reached)}
      BY DEF ReachedBy
    <3> DEFINE s == r.reached
    <3>3. /\ s \in Seq(Nat) /\ q.reached = Append(s, at)
          /\ \A j \in 1..Len(s) : s[j] < at
          /\ \A i, j \in 1..Len(s) : i < j => s[i] < s[j]
      BY <2>1, <2>2, <2>11, <3>1
    <3> HIDE DEF s
    <3>4. /\ \A i, j \in 1..Len(q.reached) : i < j => q.reached[i] < q.reached[j]
          /\ ReachedBy(q) = {s[j] : j \in 1..Len(s)} \cup {at}
      BY <2>2, <3>3, ReachedMore
    <3> QED
      BY <2>1, <3>2, <3>4 DEF s
  <2>13. CASE later = {}
    <3>1. q.done
      BY <2>10, <2>11, <2>13
    <3>2. \A i \in B : i < at \/ i = at
      BY <2>2, <2>6, <2>7, <2>13
    <3>3. ReachedBy(q) = B
      BY <2>1, <2>12, <3>2
    <3> QED
      BY <2>11, <2>12, <3>1, <3>3 DEF SweptUpTo, B
  <2>14. CASE later # {}
    <3>1. ~q.done /\ q.at = next /\ next \in later /\ \A j \in later : next <= j
      BY <2>10, <2>11, <2>14
    <3>2. next \in B /\ at < next /\ next \in Nat
      BY <2>5, <2>6, <3>1
    <3>3. \A i \in B : i < next <=> (i < at \/ i = at)
      <4> SUFFICES ASSUME NEW i \in B PROVE i < next <=> (i < at \/ i = at)
        OBVIOUS
      <4>1. i \in Nat
        BY <2>6
      <4>2. at < i => next <= i
        BY <2>7, <3>1
      <4> QED
        BY <2>2, <3>2, <4>1, <4>2
    <3>4. ReachedBy(q) = {i \in B : i < next}
      BY <2>1, <2>12, <3>3
    <3>5. q.steps = k /\ k <= next - floor
      BY <2>1, <2>2, <2>11, <3>2
    <3> QED
      BY <2>11, <2>12, <3>1, <3>2, <3>4, <3>5 DEF SweptUpTo, B, floor
  <2> QED
    BY <2>13, <2>14
<1> QED
  BY <1>1, <1>2 DEF Runs

(* So a sweep reaches its bucket, each of its members once.                *)
LEMMA SweepsAll ==
    ASSUME NEW t \in Tables, NEW symbols \in Seq(Nat), LaidDown(t, symbols),
           NEW p \in 0..(Len(t.buckets) - 1)
    PROVE  LET r == Hash!Swept(t, symbols, p)
           IN  /\ r.wrong = 0 /\ r.reached \in Seq(Nat)
               /\ ReachedBy(r) = BucketOf(t, symbols, p)
               /\ \A i, j \in 1..Len(r.reached) : i < j => r.reached[i] < r.reached[j]
<1> DEFINE n == Len(t.chains) + 2
           head == t.buckets[p + 1]
           B == BucketOf(t, symbols, p)
<1>1. PICK f : Sweeping(t, symbols, p, f) /\ Hash!Swept(t, symbols, p) = f[n]
  BY SweptIs
<1>2. /\ n \in Nat /\ Len(t.chains) \in Nat /\ Len(symbols) \in Nat /\ p \in Nat
      /\ Hash!Floor(t) \in Nat \ {0} /\ Len(symbols) - Hash!Floor(t) + 1 <= Len(t.chains)
  BY DEF Tables, LaidDown
<1>3. /\ f \in [0..n -> Runs] /\ f[0] = Starting(head)
      /\ \A k \in 1..n : f[k] = Hash!SweepStep(t, symbols, p, f[k - 1])
  BY <1>1 DEF Sweeping
<1> DEFINE Good == {k \in 0..n : SweptUpTo(k, t, symbols, p, f[k])}
<1>4. 0 \in Good
  <2>1. head = Hash!HeadOf(B) /\ B \in SUBSET (Nat \ {0})
    <3>1. head = Hash!HeadOf(B)
      BY DEF LaidDown
    <3>2. B \in SUBSET (Nat \ {0})
      BY <1>2 DEF BucketOf
    <3> QED
      BY <3>1, <3>2
  <2>2. /\ f[0].at = head /\ f[0].steps = 0 /\ f[0].reached = <<>> /\ f[0].wrong = 0
        /\ f[0].done = (head = 0)
    BY <1>3 DEF Starting
  <2>3. ReachedBy(f[0]) = {} /\ 1..Len(f[0].reached) = {}
    BY <2>2 DEF ReachedBy
  <2>4. CASE B = {}
    <3>1. f[0].done
      BY <2>1, <2>2, <2>4, HeadIs
    <3> QED
      BY <1>2, <2>2, <2>3, <2>4, <3>1 DEF SweptUpTo
  <2>5. CASE B # {}
    <3> HIDE DEF head
    <3>1. head \in B /\ head # 0 /\ \A i \in B : head <= i
      BY <2>1, <2>5, HeadIs
    <3>2. ~f[0].done
      BY <2>2, <3>1
    <3>3. {i \in B : i < head} = {}
      BY <2>1, <3>1
    <3>4. 0 <= head - Hash!Floor(t)
      BY <1>2, <3>1 DEF BucketOf
    <3> HIDE DEF B
    <3>5. SweptUpTo(0, t, symbols, p, f[0])
      BY <2>2, <2>3, <3>1, <3>2, <3>3, <3>4 DEF SweptUpTo, B
    <3> QED
      BY <1>2, <3>5
  <2> QED
    BY <2>4, <2>5
<1>5. ASSUME NEW k \in 1..n, k - 1 \in Good
      PROVE  k \in Good
  <2>1. k - 1 \in 0..n /\ k \in 0..n /\ k \in Nat \ {0}
    BY <1>2
  <2>2. f[k - 1] \in Runs /\ f[k] = Hash!SweepStep(t, symbols, p, f[k - 1])
    BY <1>3, <2>1
  <2>3. SweptUpTo(k - 1, t, symbols, p, f[k - 1])
    BY <1>5
  <2>4. SweptUpTo(k, t, symbols, p, f[k])
    BY <2>1, <2>2, <2>3, SweepsOn
  <2> QED
    BY <2>1, <2>4
<1>6. SweptUpTo(n, t, symbols, p, f[n])
  <2> HIDE DEF Good, n
  <2>1. \A k \in 0..n : k \in Good
    BY <1>2, <1>4, <1>5, Upward
  <2> QED
    BY <1>2, <2>1 DEF Good
<1>7. f[n] \in Runs
  <2>1. f \in [0..n -> Runs] /\ n \in 0..n
    BY <1>2, <1>3
  <2> HIDE DEF n
  <2> QED
    BY <2>1
<1>8. f[n].done
  <2> SUFFICES ASSUME ~f[n].done PROVE FALSE
    OBVIOUS
  <2>1. f[n].at \in B /\ n <= f[n].at - Hash!Floor(t)
    BY <1>6 DEF SweptUpTo
  <2>2. f[n].at \in Hash!Floor(t)..Len(symbols)
    BY <2>1 DEF BucketOf
  <2> QED
    BY <1>2, <2>1, <2>2
<1>9. f[n].reached \in Seq(Nat)
  BY <1>7 DEF Runs
<1> HIDE DEF n
<1> QED
  BY <1>1, <1>6, <1>8, <1>9 DEF SweptUpTo

(* The account of a table that a linker laid down closes.                  *)
LEMMA LaidDownCloses ==
    ASSUME NEW t \in Tables, NEW symbols \in Seq(Nat), LaidDown(t, symbols)
    PROVE  Hash!AccountCloses(t, symbols)
<1> DEFINE places == 0..(Len(t.buckets) - 1)
           runs == [p \in places |-> Hash!Swept(t, symbols, p)]
           seen == UNION {{<<p, k>> : k \in 1..Len(runs[p].reached)} : p \in DOMAIN runs}
           reached == {runs[x[1]].reached[x[2]] : x \in seen}
           named == {i \in 1..Len(symbols) : i >= Hash!Floor(t)}
           symbol == [x \in seen |-> runs[x[1]].reached[x[2]]]
<1>1. /\ Hash!Floor(t) \in Nat \ {0} /\ Len(t.buckets) \in Nat \ {0} /\ Len(symbols) \in Nat
      /\ \A i \in DOMAIN symbols : symbols[i] \in Nat
  BY DEF Tables, LaidDown
<1>2. \A p \in places : /\ runs[p].wrong = 0 /\ runs[p].reached \in Seq(Nat)
                        /\ ReachedBy(runs[p]) = BucketOf(t, symbols, p)
                        /\ \A i, j \in 1..Len(runs[p].reached) : i < j
                             => runs[p].reached[i] < runs[p].reached[j]
  BY SweepsAll
<1>3. DOMAIN runs = places
  OBVIOUS
<1> HIDE DEF runs
<1>4. \A p \in places, k \in Nat : k \in 1..Len(runs[p].reached)
        => runs[p].reached[k] \in BucketOf(t, symbols, p)
  BY <1>2 DEF ReachedBy
<1>5. \A p \in places : BucketOf(t, symbols, p)
          = {i \in Hash!Floor(t)..Len(symbols) : symbols[i] % Len(t.buckets) = p}
  BY DEF BucketOf
<1>6. ASSUME NEW x \in seen
      PROVE  \E p \in places : \E k \in 1..Len(runs[p].reached) : x = <<p, k>>
  BY <1>3
<1>7. ASSUME NEW p \in places, NEW k \in 1..Len(runs[p].reached)
      PROVE  <<p, k>> \in seen
  <2>1. <<p, k>> \in {<<p, l>> : l \in 1..Len(runs[p].reached)}
    OBVIOUS
  <2> QED
    BY <1>3, <2>1
<1> HIDE DEF seen, places
<1>8. \A i \in named : i \in DOMAIN symbols /\ i \in Hash!Floor(t)..Len(symbols)
  BY <1>1
<1>9. ASSUME NEW i \in named
      PROVE  \E x \in seen : runs[x[1]].reached[x[2]] = i
  <2> DEFINE p == symbols[i] % Len(t.buckets)
  <2>1. p \in places
    BY <1>1, <1>8 DEF places
  <2>2. i \in BucketOf(t, symbols, p)
    BY <1>8, <2>1 DEF BucketOf
  <2> HIDE DEF p
  <2>3. i \in ReachedBy(runs[p])
    BY <1>2, <2>1, <2>2
  <2>4. PICK k \in 1..Len(runs[p].reached) : runs[p].reached[k] = i
    BY <2>3 DEF ReachedBy
  <2>5. <<p, k>> \in seen /\ <<p, k>>[1] = p /\ <<p, k>>[2] = k
    BY <1>7, <2>1
  <2> QED
    BY <2>4, <2>5
<1>10. ASSUME NEW x \in seen
       PROVE  runs[x[1]].reached[x[2]] \in named
  <2> PICK p \in places : \E k \in 1..Len(runs[p].reached) : x = <<p, k>>
    BY <1>6
  <2>1. PICK k \in 1..Len(runs[p].reached) : x = <<p, k>>
    OBVIOUS
  <2>2. k \in Nat /\ x[1] = p /\ x[2] = k
    BY <1>2, <2>1
  <2>3. runs[p].reached[k] \in Hash!Floor(t)..Len(symbols)
    BY <1>4, <1>5, <2>1, <2>2
  <2> QED
    BY <1>1, <2>2, <2>3
<1>11. ASSUME NEW x \in seen, NEW y \in seen, runs[x[1]].reached[x[2]] = runs[y[1]].reached[y[2]]
       PROVE  x = y
  <2> PICK p \in places : \E k \in 1..Len(runs[p].reached) : x = <<p, k>>
    BY <1>6
  <2>1. PICK k \in 1..Len(runs[p].reached) : x = <<p, k>>
    OBVIOUS
  <2> PICK q \in places : \E l \in 1..Len(runs[q].reached) : y = <<q, l>>
    BY <1>6
  <2>2. PICK l \in 1..Len(runs[q].reached) : y = <<q, l>>
    OBVIOUS
  <2>3. k \in Nat /\ x[1] = p /\ x[2] = k
    BY <1>2, <2>1
  <2>4. l \in Nat /\ y[1] = q /\ y[2] = l
    BY <1>2, <2>2
  <2>5. /\ runs[p].reached[k] = runs[q].reached[l]
        /\ runs[p].reached[k] \in BucketOf(t, symbols, p)
        /\ runs[q].reached[l] \in BucketOf(t, symbols, q)
    BY <1>4, <1>11, <2>1, <2>2, <2>3, <2>4
  <2>6. p = q
    BY <1>5, <2>5
  <2>7. /\ k \in 1..Len(runs[p].reached) /\ l \in 1..Len(runs[p].reached)
        /\ runs[p].reached[k] = runs[p].reached[l]
    BY <2>2, <2>5, <2>6
  <2>8. \A i, j \in 1..Len(runs[p].reached) : i < j => runs[p].reached[i] < runs[p].reached[j]
    BY <1>2
  <2>9. runs[p].reached[k] \in Nat
    BY <1>1, <1>5, <2>5
  <2>10. k = l
    <3>1. ~(k < l)
      BY <2>7, <2>8, <2>9
    <3>2. ~(l < k)
      BY <2>7, <2>8, <2>9
    <3> QED
      BY <2>3, <2>4, <3>1, <3>2
  <2> QED
    BY <2>1, <2>2, <2>6, <2>10
<1>12. reached = named
  BY <1>9, <1>10
<1>13. Cardinality(seen) = Cardinality(named)
  <2> HIDE DEF named
  <2>1. symbol \in [seen -> named]
    BY <1>10
  <2>2. \A x, y \in seen : symbol[x] = symbol[y] => x = y
    BY <1>11
  <2>3. \A i \in named : \E x \in seen : symbol[x] = i
    BY <1>9
  <2> HIDE DEF symbol
  <2>4. symbol \in Bijection(seen, named)
    BY <2>1, <2>2, <2>3, Fun_IsBij
  <2>5. ExistsBijection(named, seen)
    <3>1. ExistsBijection(seen, named)
      BY <2>4, Fun_ExistsBij
    <3> QED
      BY <3>1, Fun_ExistsBijSymmetric
  <2>6. IsFiniteSet(named)
    <3>1. IsFiniteSet(1..Len(symbols))
      BY <1>1, FS_Interval
    <3>2. named \subseteq 1..Len(symbols)
      BY DEF named
    <3> QED
      BY <3>1, <3>2, FS_Subset
  <2> QED
    BY <2>5, <2>6, FS_Bijection
<1>14. \A S : Hash!Cardinality(S) = Cardinality(S)
  BY Zenon DEF Hash!Cardinality, Cardinality
<1>15. Hash!Cardinality(seen) = Hash!Cardinality(reached) /\ reached = named
  BY <1>12, <1>13, <1>14
<1> QED
  BY <1>2, <1>3, <1>15 DEF Hash!AccountCloses, runs, seen, places

(* What ld.lld writes: the heads of the buckets, and a word per symbol.    *)
EndsAt(symbols, n, i) == i = Len(symbols) \/ symbols[i] % n # symbols[i + 1] % n
HeadsOf(symbols, from, n) == [b \in 1..n |-> Hash!HeadOf(Hash!InBucket(symbols, from, n, b - 1))]
GnuTail(symbols, from, n) ==
    [i \in 1..(Len(symbols) - from + 1) |->
        Hash!Marked(symbols[from + i - 1], EndsAt(symbols, n, from + i - 1))]
SysvTail(symbols, n) ==
    [k \in 1..(Len(symbols) + 1) |->
        IF k = 1 THEN 0
        ELSE Hash!HeadOf({j \in k..Len(symbols) : symbols[j] % n = symbols[k - 1] % n})]

LEMMA HeadsAreWords ==
    ASSUME NEW symbols \in Seq(Nat), NEW from \in Nat \ {0}, NEW n \in Nat
    PROVE  HeadsOf(symbols, from, n) \in Seq(Nat) /\ Len(HeadsOf(symbols, from, n)) = n
<1>1. \A b \in 1..n : Hash!HeadOf(Hash!InBucket(symbols, from, n, b - 1)) \in Nat
  <2> SUFFICES ASSUME NEW b \in 1..n
               PROVE  Hash!HeadOf(Hash!InBucket(symbols, from, n, b - 1)) \in Nat
    OBVIOUS
  <2> DEFINE S == Hash!InBucket(symbols, from, n, b - 1)
  <2>1. S \in SUBSET (Nat \ {0})
    BY DEF Hash!InBucket
  <2> HIDE DEF S
  <2>2. (S = {} => Hash!HeadOf(S) = 0) /\ (S # {} => Hash!HeadOf(S) \in S)
    BY <2>1, HeadIs
  <2>3. Hash!HeadOf(S) \in Nat
    <3>1. CASE S = {}
      BY <2>2, <3>1
    <3>2. CASE S # {}
      <4>1. Hash!HeadOf(S) \in S
        BY <2>2, <3>2
      <4> QED
        BY <2>1, <4>1
    <3> QED
      BY <3>1, <3>2
  <2> QED
    BY <2>3 DEF S
<1>2. HeadsOf(symbols, from, n) \in [1..n -> Nat]
  BY <1>1 DEF HeadsOf
<1> QED
  BY <1>2

LEMMA GnuTailIsWords ==
    ASSUME NEW symbols \in Seq(Nat), NEW n \in Nat \ {0}, NEW from \in 1..(Len(symbols) + 1)
    PROVE  /\ GnuTail(symbols, from, n) \in Seq(Nat)
           /\ Len(GnuTail(symbols, from, n)) = Len(symbols) - from + 1
<1> DEFINE l == Len(symbols) - from + 1
<1>1. l \in Nat /\ \A i \in 1..l : from + i - 1 \in DOMAIN symbols
  OBVIOUS
<1>2. \A i \in 1..l : Hash!Marked(symbols[from + i - 1], EndsAt(symbols, n, from + i - 1)) \in Nat
  <2> SUFFICES ASSUME NEW i \in 1..l
               PROVE  Hash!Marked(symbols[from + i - 1], EndsAt(symbols, n, from + i - 1)) \in Nat
    OBVIOUS
  <2>1. symbols[from + i - 1] \in Nat
    BY <1>1
  <2>2. EndsAt(symbols, n, from + i - 1) \in BOOLEAN
    BY DEF EndsAt
  <2> QED
    BY <2>1, <2>2, MarkSays
<1>3. GnuTail(symbols, from, n) \in [1..l -> Nat]
  BY <1>2 DEF GnuTail
<1> HIDE DEF l
<1>4. GnuTail(symbols, from, n) \in Seq(Nat) /\ Len(GnuTail(symbols, from, n)) = l
  BY <1>1, <1>3
<1> QED
  BY <1>4 DEF l

LEMMA SysvTailIsWords ==
    ASSUME NEW symbols \in Seq(Nat), NEW n \in Nat \ {0}
    PROVE  /\ SysvTail(symbols, n) \in Seq(Nat)
           /\ Len(SysvTail(symbols, n)) = Len(symbols) + 1
<1> DEFINE rest(k) == {j \in k..Len(symbols) : symbols[j] % n = symbols[k - 1] % n}
<1>1. ASSUME NEW k \in 1..(Len(symbols) + 1)
      PROVE  Hash!HeadOf(rest(k)) \in Nat
  <2> DEFINE S == rest(k)
  <2>1. S \in SUBSET (Nat \ {0})
    OBVIOUS
  <2> HIDE DEF S
  <2>2. (S = {} => Hash!HeadOf(S) = 0) /\ (S # {} => Hash!HeadOf(S) \in S)
    BY <2>1, HeadIs
  <2>3. Hash!HeadOf(S) \in Nat
    <3>1. CASE S = {}
      BY <2>2, <3>1
    <3>2. CASE S # {}
      <4>1. Hash!HeadOf(S) \in S
        BY <2>2, <3>2
      <4> QED
        BY <2>1, <4>1
    <3> QED
      BY <3>1, <3>2
  <2> QED
    BY <2>3 DEF S
<1>2. SysvTail(symbols, n) \in [1..(Len(symbols) + 1) -> Nat]
  BY <1>1 DEF SysvTail
<1> QED
  BY <1>2

(* The symbols of a bucket of a .gnu.hash table stand together.            *)
LEMMA GnuLaidDown ==
    ASSUME NEW symbols \in Seq(Nat), NEW n \in Nat \ {0}, NEW from \in 1..(Len(symbols) + 1),
           Hash!Sorted(symbols, from, n), NEW t, t.gnu, t.symoffset = from,
           t.buckets = HeadsOf(symbols, from, n), t.chains = GnuTail(symbols, from, n)
    PROVE  LaidDown(t, symbols)
<1> DEFINE size == Len(symbols)
           residue(i) == symbols[i] % n
<1>1. Hash!Floor(t) = from /\ from \in Nat \ {0} /\ size \in Nat
  BY DEF Hash!Floor
<1>2. Len(t.buckets) = n /\ Len(t.chains) = size - from + 1
  BY <1>1, HeadsAreWords, GnuTailIsWords
<1>3. ASSUME NEW p \in 0..(n - 1)
      PROVE  BucketOf(t, symbols, p) = Hash!InBucket(symbols, from, n, p)
  BY <1>1, <1>2 DEF BucketOf, Hash!InBucket
<1>4. ASSUME NEW p \in 0..(n - 1)
      PROVE  t.buckets[p + 1] = Hash!HeadOf(BucketOf(t, symbols, p))
  <2>1. p + 1 \in 1..n /\ (p + 1) - 1 = p
    OBVIOUS
  <2>2. t.buckets[p + 1] = Hash!HeadOf(Hash!InBucket(symbols, from, n, (p + 1) - 1))
    BY <2>1 DEF HeadsOf
  <2> QED
    BY <1>3, <2>1, <2>2
<1>5. ASSUME NEW p \in 0..(n - 1), NEW i \in BucketOf(t, symbols, p)
      PROVE  /\ i - t.symoffset \in 0..(Len(t.chains) - 1)
             /\ t.chains[i - t.symoffset + 1]
                  = Hash!Marked(symbols[i], LaterOf(t, symbols, p, i) = {})
             /\ LaterOf(t, symbols, p, i) # {} => i + 1 \in LaterOf(t, symbols, p, i)
  <2> DEFINE later == LaterOf(t, symbols, p, i)
             at == i - from + 1
  <2>1. i \in from..size /\ residue(i) = p /\ i \in Nat
    BY <1>1, <1>2 DEF BucketOf
  <2>2. later = {j \in from..size : residue(j) = p /\ i < j}
    BY <1>1, <1>2 DEF LaterOf, BucketOf
  <2>3. at \in 1..(size - from + 1) /\ from + at - 1 = i /\ i - t.symoffset \in 0..(Len(t.chains) - 1)
    BY <1>1, <1>2, <2>1
  <2>4. t.chains[at] = Hash!Marked(symbols[i], EndsAt(symbols, n, i))
    <3>1. t.chains[at] = Hash!Marked(symbols[from + at - 1], EndsAt(symbols, n, from + at - 1))
      BY <2>3 DEF GnuTail
    <3> QED
      BY <2>3, <3>1
  <2>5. \A j \in from..size : residue(j) \in Int
    BY <1>1
  <2>6. \A j, k \in from..size : j < k => residue(j) <= residue(k)
    BY DEF Hash!Sorted
  <2>7. EndsAt(symbols, n, i) <=> (i = size \/ residue(i) # residue(i + 1))
    BY DEF EndsAt
  <2> HIDE DEF residue, later, at, size
  <2>8. later # {} => i + 1 \in later
    <3> SUFFICES ASSUME NEW j \in later PROVE i + 1 \in later
      OBVIOUS
    <3>1. j \in from..size /\ residue(j) = p /\ i < j
      BY <2>2
    <3>2. i + 1 \in from..size /\ i < i + 1 /\ (i + 1 = j \/ i + 1 < j)
      BY <1>1, <2>1, <3>1
    <3>3. residue(i) <= residue(i + 1) /\ residue(i + 1) <= residue(j)
      BY <2>1, <2>5, <2>6, <3>1, <3>2
    <3>4. residue(i + 1) = p
      BY <2>1, <2>5, <3>1, <3>2, <3>3
    <3> QED
      BY <2>2, <3>2, <3>4
  <2>9. i + 1 \in later <=> ~EndsAt(symbols, n, i)
    BY <1>1, <2>1, <2>2, <2>7
  <2>10. EndsAt(symbols, n, i) = (later = {})
    <3>1. EndsAt(symbols, n, i) \in BOOLEAN
      BY DEF EndsAt
    <3> QED
      BY <2>8, <2>9, <3>1
  <2>11. i - t.symoffset + 1 = at
    BY DEF at
  <2> QED
    BY <2>3, <2>4, <2>8, <2>10, <2>11 DEF later
<1>6. ASSUME NEW p \in 0..(n - 1), NEW i \in BucketOf(t, symbols, p)
      PROVE  LeadsOn(t, symbols, p, i)
  BY <1>5 DEF LeadsOn
<1> QED
  BY <1>1, <1>2, <1>4, <1>6 DEF LaidDown

(* Those of a .hash table are linked by index.                             *)
LEMMA SysvLaidDown ==
    ASSUME NEW symbols \in Seq(Nat), NEW n \in Nat \ {0}, NEW t, ~t.gnu, t.symoffset = 0,
           t.buckets = HeadsOf(symbols, 1, n), t.chains = SysvTail(symbols, n)
    PROVE  LaidDown(t, symbols)
<1> DEFINE size == Len(symbols)
<1>1. Hash!Floor(t) = 1 /\ size \in Nat
  BY DEF Hash!Floor
<1>2. Len(t.buckets) = n /\ Len(t.chains) = size + 1
  <2>1. 1 \in Nat \ {0} /\ n \in Nat
    OBVIOUS
  <2>2. Len(HeadsOf(symbols, 1, n)) = n
    BY <2>1, HeadsAreWords
  <2> QED
    BY <2>2, SysvTailIsWords
<1>3. ASSUME NEW p \in 0..(n - 1)
      PROVE  BucketOf(t, symbols, p) = Hash!InBucket(symbols, 1, n, p)
  BY <1>1, <1>2 DEF BucketOf, Hash!InBucket
<1>4. ASSUME NEW p \in 0..(n - 1)
      PROVE  t.buckets[p + 1] = Hash!HeadOf(BucketOf(t, symbols, p))
  <2>1. p + 1 \in 1..n /\ (p + 1) - 1 = p
    OBVIOUS
  <2>2. t.buckets[p + 1] = Hash!HeadOf(Hash!InBucket(symbols, 1, n, (p + 1) - 1))
    BY <2>1 DEF HeadsOf
  <2> QED
    BY <1>3, <2>1, <2>2
<1>5. ASSUME NEW p \in 0..(n - 1), NEW i \in BucketOf(t, symbols, p)
      PROVE  /\ i - t.symoffset \in 0..(Len(t.chains) - 1)
             /\ t.chains[i - t.symoffset + 1] = Hash!HeadOf(LaterOf(t, symbols, p, i))
  <2>1. i \in 1..size /\ symbols[i] % n = p
    BY <1>1, <1>2 DEF BucketOf
  <2>2. i - t.symoffset = i /\ i + 1 \in 1..(size + 1) /\ i + 1 # 1 /\ (i + 1) - 1 = i
    BY <1>1, <2>1
  <2>3. {j \in (i + 1)..size : symbols[j] % n = symbols[i] % n} = LaterOf(t, symbols, p, i)
    BY <1>1, <1>2, <2>1 DEF LaterOf, BucketOf
  <2>4. t.chains[i + 1]
          = Hash!HeadOf({j \in (i + 1)..size : symbols[j] % n = symbols[(i + 1) - 1] % n})
    BY <2>2 DEF SysvTail
  <2>5. t.chains[i + 1] = Hash!HeadOf(LaterOf(t, symbols, p, i))
    BY <2>2, <2>3, <2>4
  <2> QED
    BY <1>1, <1>2, <2>1, <2>2, <2>5
<1>6. ASSUME NEW p \in 0..(n - 1), NEW i \in BucketOf(t, symbols, p)
      PROVE  LeadsOn(t, symbols, p, i)
  BY <1>5 DEF LeadsOn
<1>7. Hash!Floor(t) \in Nat \ {0} /\ size - Hash!Floor(t) + 1 <= Len(t.chains) /\ Len(t.buckets) >= 1
  BY <1>1, <1>2
<1> QED
  BY <1>2, <1>4, <1>6, <1>7 DEF LaidDown

(* The words between two runs of words are read as they were written.      *)
ReadInTurn(s, u, v, w) ==
    /\ Len(s) = Len(u) + Len(v) + Len(w)
    /\ Hash!WordsAt(s, Len(u), Len(v)) = v
    /\ Hash!WordsAt(s, Len(u) + Len(v), Len(w)) = w
LEMMA Joined ==
    ASSUME NEW u \in Seq(Nat), NEW v \in Seq(Nat)
    PROVE  u \o v \in Seq(Nat) /\ Len(u \o v) = Len(u) + Len(v)
           /\ \A i \in 1..Len(u) : (u \o v)[i] = u[i]
OBVIOUS
LEMMA WordsBetween ==
    ASSUME NEW u \in Seq(Nat), NEW v \in Seq(Nat), NEW w \in Seq(Nat)
    PROVE  ReadInTurn((u \o v) \o w, u, v, w)
<1> DEFINE s == (u \o v) \o w
<1>1. /\ Len(u) \in Nat /\ Len(v) \in Nat /\ Len(w) \in Nat /\ s \in Seq(Nat)
      /\ Len(u \o v) = Len(u) + Len(v) /\ u \o v \in Seq(Nat)
      /\ Len(s) = Len(u) + Len(v) + Len(w)
  OBVIOUS
<1>2. ASSUME NEW i \in 1..Len(v)
      PROVE  s[Len(u) + i] = v[i]
  <2>1. Len(u) + i \in 1..(Len(u) + Len(v)) /\ Len(u) + i > Len(u) /\ (Len(u) + i) - Len(u) = i
    BY <1>1
  <2>2. (u \o v)[Len(u) + i] = v[i]
    BY <1>1, <2>1
  <2>3. s[Len(u) + i] = (u \o v)[Len(u) + i]
    BY <1>1, <2>1
  <2> QED
    BY <2>2, <2>3
<1>3. ASSUME NEW i \in 1..Len(w)
      PROVE  s[Len(u) + Len(v) + i] = w[i]
  <2> DEFINE x == u \o v
             l == Len(u) + Len(v)
  <2>1. x \in Seq(Nat) /\ Len(x) = l /\ l \in Nat /\ s = x \o w
    BY <1>1
  <2> HIDE DEF x, l
  <2>2. l + i \in 1..(l + Len(w)) /\ l + i > l /\ (l + i) - l = i
    BY <1>1, <2>1
  <2>3. s[l + i] = w[i]
    BY <1>1, <2>1, <2>2
  <2> QED
    BY <2>3 DEF l
<1>4. [i \in 1..Len(v) |-> s[Len(u) + i]] = v
  BY <1>1, <1>2
<1>5. [i \in 1..Len(w) |-> s[Len(u) + Len(v) + i]] = w
  BY <1>1, <1>3
<1> QED
  BY <1>1, <1>4, <1>5 DEF Hash!WordsAt, ReadInTurn

(* The walk of a section that ld.lld wrote finds the table that it laid    *)
(* down.                                                                   *)
LEMMA GnuReadsBack ==
    ASSUME NEW one \in HashFileSpace, LinkedHash(one), one.gnu
    PROVE  LET read == Hash!Walk(one.gnu, one.wide, one.words, one.size)
           IN  ~read.broken /\ LaidDown(read, one.symbols)
<1> DEFINE words == one.words
           symbols == one.symbols
           n == words[1]
           from == words[2]
           masks == words[3]
           span == IF one.wide THEN 2 ELSE 1
           bloom == [i \in 1..(masks * span) |-> 0]
           u == <<n, from, masks, 0>> \o bloom
           v == HeadsOf(symbols, from, n)
           w == GnuTail(symbols, from, n)
           read == Hash!Walk(one.gnu, one.wide, words, one.size)
<1>1. /\ words \in Seq(Nat) /\ symbols \in Seq(Nat) /\ one.wide \in BOOLEAN
      /\ Len(words) >= 4 /\ one.size = Len(words) /\ n >= 1
  BY DEF HashFileSpace, LinkedHash
<1>2. /\ from \in 1..(Len(symbols) + 1) /\ Hash!Sorted(symbols, from, n)
      /\ words = (u \o v) \o w
  BY DEF LinkedHash, Hash!LinkedGnu, HeadsOf, GnuTail, EndsAt
<1>3. n \in Nat \ {0} /\ from \in Nat \ {0} /\ masks \in Nat
  <2>1. \A i \in 1..4 : words[i] \in Nat
    BY <1>1
  <2>2. n \in Nat /\ from \in Nat /\ masks \in Nat
    BY <2>1
  <2> HIDE DEF n, from, masks
  <2>3. Len(symbols) \in Nat
    BY <1>1
  <2>4. from >= 1
    BY <1>2, <2>2, <2>3
  <2> QED
    BY <1>1, <2>2, <2>4
<1> DEFINE bits == masks * span
<1>4. bits \in Nat
  <2>1. span \in Nat
    OBVIOUS
  <2> HIDE DEF span, masks
  <2> QED
    BY <1>3, <2>1
<1> HIDE DEF words, symbols
<1>5. u \in Seq(Nat) /\ Len(u) = 4 + bits
  <2>1. <<n, from, masks, 0>> \in Seq(Nat) /\ Len(<<n, from, masks, 0>>) = 4
    <3> HIDE DEF n, from, masks
    <3> QED
      BY <1>3
  <2>2. bloom \in Seq(Nat) /\ Len(bloom) = bits
    <3>1. bloom = [i \in 1..bits |-> 0]
      OBVIOUS
    <3> HIDE DEF bits, bloom
    <3>2. bloom \in [1..bits -> Nat]
      BY <3>1
    <3> QED
      BY <1>4, <3>2
  <2> DEFINE head == <<n, from, masks, 0>>
  <2> HIDE DEF head, bits, bloom
  <2>3. u = head \o bloom
    BY DEF head
  <2>4. head \in Seq(Nat) /\ Len(head) = 4
    BY <2>1 DEF head
  <2> HIDE DEF u
  <2> QED
    <3>1. u \in Seq(Nat) /\ Len(u) = Len(head) + Len(bloom)
      BY <2>2, <2>3, <2>4, Joined
    <3> QED
      BY <2>2, <2>4, <3>1
<1>6. v \in Seq(Nat) /\ Len(v) = n
  BY <1>1, <1>3, HeadsAreWords
<1>7. w \in Seq(Nat) /\ Len(w) = Len(symbols) - from + 1 /\ Len(w) \in Nat
  <2>1. from \in 1..(Len(symbols) + 1)
    BY <1>2
  <2> HIDE DEF n, from
  <2>2. w \in Seq(Nat) /\ Len(w) = Len(symbols) - from + 1
    BY <1>1, <1>3, <2>1, GnuTailIsWords
  <2> HIDE DEF w
  <2> QED
    BY <2>2
<1> HIDE DEF u, v, w
<1>8. /\ Len(words) = Len(u) + Len(v) + Len(w)
      /\ Hash!WordsAt(words, Len(u), Len(v)) = v
      /\ Hash!WordsAt(words, Len(u) + Len(v), Len(w)) = w
  <2> HIDE DEF n, from, masks, bits
  <2>1. words = (u \o v) \o w
    BY <1>2
  <2> QED
    <3>1. u \in Seq(Nat) /\ v \in Seq(Nat) /\ w \in Seq(Nat)
      BY <1>5, <1>6, <1>7
    <3>2. ReadInTurn(words, u, v, w)
      BY <2>1, <3>1, WordsBetween
    <3> QED
      BY <3>2 DEF ReadInTurn
<1> DEFINE bloomEnd == 4 + bits
           headsEnd == bloomEnd + n
           left == one.size - headsEnd
           tail == IF left < 0 THEN 0 ELSE left
           table == [broken |-> FALSE, gnu |-> TRUE, symoffset |-> from,
                     buckets |-> Hash!WordsAt(words, bloomEnd, n),
                     chains |-> Hash!WordsAt(words, headsEnd, tail)]
           short == Len(words) < bloomEnd \/ Len(words) < headsEnd \/ Len(words) < headsEnd + tail
<1>9. read = IF short THEN Hash!Unread ELSE table
  BY <1>1 DEF Hash!Walk
<1>10. /\ bloomEnd = Len(u) /\ headsEnd = Len(u) + Len(v) /\ tail = Len(w) /\ ~short
  <2> HIDE DEF bits, n, from, masks
  <2>1. Len(u) \in Nat /\ Len(v) \in Nat /\ Len(w) \in Nat
    BY <1>5, <1>6, <1>7
  <2>2. bloomEnd = Len(u) /\ headsEnd = Len(u) + Len(v)
    BY <1>5, <1>6
  <2>3. one.size = Len(u) + Len(v) + Len(w) /\ Len(words) = Len(u) + Len(v) + Len(w)
    BY <1>1, <1>8
  <2> HIDE DEF bloomEnd, headsEnd
  <2>4. left = Len(w)
    BY <2>1, <2>2, <2>3
  <2>5. tail = Len(w)
    BY <2>1, <2>4
  <2> HIDE DEF left, tail
  <2>6. ~(Len(words) < bloomEnd) /\ ~(Len(words) < headsEnd) /\ ~(Len(words) < headsEnd + tail)
    BY <2>1, <2>2, <2>3, <2>5
  <2> QED
    BY <2>2, <2>5, <2>6
<1>11. read = table /\ table.buckets = v /\ table.chains = w
  <2>1. Hash!WordsAt(words, bloomEnd, n) = v /\ Hash!WordsAt(words, headsEnd, tail) = w
    BY <1>6, <1>8, <1>10
  <2> HIDE DEF short, bloomEnd, headsEnd, tail, n, from, read
  <2> QED
    BY <1>9, <1>10, <2>1
<1>12. ~read.broken /\ read.gnu /\ read.symoffset = from /\ read.buckets = v /\ read.chains = w
  <2> HIDE DEF read, from
  <2> QED
    BY <1>11
<1> HIDE DEF read, n, from, masks
<1>13. LaidDown(read, symbols)
  BY <1>1, <1>2, <1>3, <1>12, GnuLaidDown DEF v, w
<1> QED
  BY <1>12, <1>13 DEF read, symbols, words

LEMMA SysvReadsBack ==
    ASSUME NEW one \in HashFileSpace, LinkedHash(one), ~one.gnu
    PROVE  LET read == Hash!Walk(one.gnu, one.wide, one.words, one.size)
           IN  ~read.broken /\ LaidDown(read, one.symbols)
<1> DEFINE words == one.words
           symbols == one.symbols
           n == words[1]
           chains == words[2]
           u == <<n, Len(symbols) + 1>>
           v == HeadsOf(symbols, 1, n)
           w == SysvTail(symbols, n)
           read == Hash!Walk(one.gnu, one.wide, words, one.size)
<1>1. /\ words \in Seq(Nat) /\ symbols \in Seq(Nat)
      /\ Len(words) >= 4 /\ one.size = Len(words) /\ n >= 1
  BY DEF HashFileSpace, LinkedHash
<1>2. words = (u \o v) \o w
  BY DEF LinkedHash, Hash!LinkedSysv, HeadsOf, SysvTail
<1>3. n \in Nat \ {0}
  <2>1. \A i \in 1..4 : words[i] \in Nat
    BY <1>1
  <2> HIDE DEF words
  <2> QED
    BY <1>1, <2>1
<1> HIDE DEF words, symbols
<1>4. u \in Seq(Nat) /\ Len(u) = 2 /\ u[2] = Len(symbols) + 1 /\ Len(symbols) \in Nat
  <2> HIDE DEF n
  <2> QED
    BY <1>1, <1>3
<1>5. v \in Seq(Nat) /\ Len(v) = n
  <2>1. 1 \in Nat \ {0} /\ n \in Nat
    BY <1>3
  <2> HIDE DEF n
  <2> QED
    BY <1>1, <2>1, HeadsAreWords
<1>6. w \in Seq(Nat) /\ Len(w) = Len(symbols) + 1 /\ Len(w) \in Nat
  <2> HIDE DEF n
  <2>1. w \in Seq(Nat) /\ Len(w) = Len(symbols) + 1
    BY <1>1, <1>3, SysvTailIsWords
  <2> HIDE DEF w
  <2> QED
    BY <2>1
<1> HIDE DEF u, v, w
<1>7. /\ Len(words) = Len(u) + Len(v) + Len(w)
      /\ Hash!WordsAt(words, Len(u), Len(v)) = v
      /\ Hash!WordsAt(words, Len(u) + Len(v), Len(w)) = w
  <2> HIDE DEF n, chains
  <2> QED
    <3>1. u \in Seq(Nat) /\ v \in Seq(Nat) /\ w \in Seq(Nat)
      BY <1>4, <1>5, <1>6
    <3>2. ReadInTurn(words, u, v, w)
      BY <1>2, <3>1, WordsBetween
    <3> QED
      BY <3>2 DEF ReadInTurn
<1>8. chains = Len(w)
  <2>1. words[2] = (u \o v)[2] /\ (u \o v)[2] = u[2]
    <3> DEFINE x == u \o v
    <3>1. u \in Seq(Nat) /\ v \in Seq(Nat) /\ w \in Seq(Nat) /\ 2 \in 1..Len(u)
      BY <1>4, <1>5, <1>6
    <3>2. x \in Seq(Nat) /\ Len(x) = Len(u) + Len(v) /\ x[2] = u[2]
      BY <3>1, Joined
    <3>3. words = x \o w
      BY <1>2
    <3> HIDE DEF x
    <3>4. 2 \in 1..Len(x)
      BY <1>4, <3>1, <3>2
    <3>5. words[2] = x[2]
      BY <3>1, <3>2, <3>3, <3>4, Joined
    <3> QED
      BY <3>2, <3>5 DEF x
  <2> QED
    BY <1>4, <1>6, <2>1
<1> DEFINE table == [broken |-> FALSE, gnu |-> FALSE, symoffset |-> 0,
                     buckets |-> Hash!WordsAt(words, 2, n),
                     chains |-> Hash!WordsAt(words, 2 + n, chains)]
           short == Len(words) < 2 + n \/ Len(words) < 2 + n + chains
<1>9. read = IF short THEN Hash!Unread ELSE table
  BY <1>1 DEF Hash!Walk
<1>10. 2 + n = Len(u) + Len(v) /\ ~short
  <2> HIDE DEF n, chains
  <2> QED
    BY <1>3, <1>4, <1>5, <1>6, <1>7, <1>8
<1>11. read = table /\ table.buckets = v /\ table.chains = w
  <2>1. Hash!WordsAt(words, 2, n) = v /\ Hash!WordsAt(words, 2 + n, chains) = w
    BY <1>4, <1>5, <1>7, <1>8, <1>10
  <2> HIDE DEF short, n, chains, read
  <2> QED
    BY <1>9, <1>10, <2>1
<1>12. ~read.broken /\ ~read.gnu /\ read.symoffset = 0 /\ read.buckets = v /\ read.chains = w
  <2> HIDE DEF read
  <2> QED
    BY <1>11
<1> HIDE DEF read, n
<1>13. LaidDown(read, symbols)
  BY <1>1, <1>3, <1>12, SysvLaidDown DEF v, w
<1> QED
  BY <1>12, <1>13 DEF read, symbols, words

(* So the account of a section as ld.lld wrote it closes.                  *)
LEMMA LinkedCloses ==
    ASSUME NEW one \in HashFileSpace, LinkedHash(one)
    PROVE  LET read == Hash!Walk(one.gnu, one.wide, one.words, one.size)
           IN  ~read.broken /\ Hash!AccountCloses(read, one.symbols)
<1> DEFINE read == Hash!Walk(one.gnu, one.wide, one.words, one.size)
<1>1. ~read.broken /\ LaidDown(read, one.symbols)
  BY GnuReadsBack, SysvReadsBack
<1>2. read \in Tables
  BY <1>1, WalkReads
<1>3. one.symbols \in Seq(Nat)
  BY DEF HashFileSpace
<1> HIDE DEF read
<1>4. Hash!AccountCloses(read, one.symbols)
  BY <1>1, <1>2, <1>3, LaidDownCloses
<1> QED
  BY <1>1, <1>4 DEF read

-----------------------------------------------------------------------------
(* Notes and property chains.                                              *)
LEMMA RoundedUp ==
    ASSUME NEW length \in Nat
    PROVE  /\ Notes!Rounded(length) \in Nat /\ Notes!Rounded(length) >= length
           /\ Notes!Rounded(length) < length + 4
           /\ Notes!Rounded(length) % 4 = 0
BY DEF Notes!Rounded

(* A note takes its three words at least.                                  *)
LEMMA NoteTakes ==
    ASSUME NEW note \in NoteRecords
    PROVE  Notes!NoteBytes(note) \in Nat /\ Notes!NoteBytes(note) >= 12
<1>1. note.namesz \in Nat /\ note.descsz \in Nat
  BY DEF NoteRecords
<1>2. Notes!Rounded(note.namesz) \in Nat /\ Notes!Rounded(note.descsz) \in Nat
  BY <1>1, RoundedUp
<1> QED
  BY <1>2 DEF Notes!NoteBytes

(* The bytes before each note, as the sum they are.                        *)
LEMMA BytesAre ==
    ASSUME NEW notes \in Seq(NoteRecords)
    PROVE  /\ Notes!BytesBefore(notes) \in [0..Len(notes) -> Nat]
           /\ Notes!BytesBefore(notes)[0] = 0
           /\ \A k \in 1..Len(notes) :
                  Notes!BytesBefore(notes)[k]
                      = Notes!BytesBefore(notes)[k - 1] + Notes!NoteBytes(notes[k])
<1> DEFINE n == Len(notes)
           Turns(f) == [k \in 0..n |-> IF k = 0 THEN 0 ELSE f[k - 1] + Notes!NoteBytes(notes[k])]
           step == [k \in 1..n |-> [r \in Nat |-> r + Notes!NoteBytes(notes[k])]]
           f == CHOOSE f : f = Turns(f)
<1>1. n \in Nat /\ \A k \in 1..n : notes[k] \in NoteRecords
  OBVIOUS
<1>2. step \in [1..n -> [Nat -> Nat]]
  BY <1>1, NoteTakes
<1>3. \E g : g = Turns(g)
  <2>1. PICK g : WalkOf(n, Nat, 0, step, g)
    <3> HIDE DEF step, n
    <3> QED
      BY <1>1, <1>2, Walks
  <2>2. \A k \in 1..n : k - 1 \in 0..n
    BY <1>1
  <2>3. ASSUME NEW k \in 1..n
        PROVE  g[k] = g[k - 1] + Notes!NoteBytes(notes[k])
    <3> HIDE DEF n, step
    <3>1. g[k - 1] \in Nat /\ g[k] = step[k][g[k - 1]]
      BY <2>1, <2>2 DEF WalkOf
    <3> QED
      BY <3>1 DEF step
  <2> HIDE DEF n
  <2>4. \A k \in 0..n : k = 0 \/ k \in 1..n
    BY <1>1
  <2>5. g = Turns(g)
    BY <2>1, <2>3, <2>4 DEF WalkOf
  <2> QED
    BY <2>5
<1>4. f = Turns(f)
  <2> HIDE DEF n, Turns
  <2> QED
    BY <1>3
<1>5. Notes!BytesBefore(notes) = f
  BY DEF Notes!BytesBefore
<1> HIDE DEF f
<1>6. \A k \in 1..n : k \in 0..n /\ k # 0
  OBVIOUS
<1>7. f[0] = 0 /\ \A k \in 1..n : f[k] = f[k - 1] + Notes!NoteBytes(notes[k])
  BY <1>4, <1>6
<1>8. DOMAIN f = 0..n /\ f = [k \in 0..n |-> f[k]]
  BY <1>4
<1>9. WalkOf(n, Nat, 0, step, f)
  <2>1. \A k \in 1..n : f[k - 1] \in Nat => f[k] = step[k][f[k - 1]]
    BY <1>7
  <2> HIDE DEF n, step
  <2> QED
    BY <1>1, <1>2, <1>7, <1>8, <2>1, Walked
<1> QED
  BY <1>5, <1>7, <1>9 DEF WalkOf

(* A turn of the reading of notes, at the k-th.                            *)
NoteReadings == [where : Nat, found : Seq(NoteRecords), why : {"", "runs past", "stops"}]
NoteStep(note, limit, r) ==
    LET end == r.where + Notes!NoteBytes(note)
    IN  IF r.why # "" \/ r.where + 12 > limit THEN r
        ELSE IF end > limit THEN [r EXCEPT !.why = "runs past"]
        ELSE [where |-> end, found |-> Append(r.found, note), why |-> ""]
NoteBegin == [where |-> 0, found |-> <<>>, why |-> ""]
NoteWalk(notes, limit, f) ==
    /\ f \in [0..Len(notes) -> NoteReadings]
    /\ f[0] = NoteBegin
    /\ \A k \in 1..Len(notes) : f[k] = NoteStep(notes[k], limit, f[k - 1])

(* A turn leaves a reading a reading.                                      *)
LEMMA NoteTurn ==
    ASSUME NEW note \in NoteRecords, NEW limit \in Nat, NEW r \in NoteReadings
    PROVE  NoteStep(note, limit, r) \in NoteReadings
<1> DEFINE stopped == [r EXCEPT !.why = "runs past"]
           longer == [where |-> r.where + Notes!NoteBytes(note),
                      found |-> Append(r.found, note), why |-> ""]
<1>1. r.where \in Nat
  BY DEF NoteReadings
<1>2. r.found \in Seq(NoteRecords)
  BY DEF NoteReadings
<1>3. r.where + Notes!NoteBytes(note) \in Nat
  <2>1. Notes!NoteBytes(note) \in Nat
    BY NoteTakes
  <2> QED
    BY <1>1, <2>1
<1>4. Append(r.found, note) \in Seq(NoteRecords)
  BY <1>2
<1>5. longer \in NoteReadings
  BY <1>3, <1>4 DEF NoteReadings
<1>6. stopped \in NoteReadings
  BY DEF NoteReadings
<1>7. NoteStep(note, limit, r) \in {r, stopped, longer}
  BY DEF NoteStep
<1> QED
  BY <1>5, <1>6, <1>7

(* notes_in is a run of such turns.                                        *)
LEMMA NotesRead ==
    ASSUME NEW notes \in Seq(NoteRecords), NEW limit \in Nat
    PROVE  \E f : /\ NoteWalk(notes, limit, f)
                  /\ Notes!NotesIn(notes, limit) =
                       IF f[Len(notes)].why = "" /\ f[Len(notes)].where # limit
                       THEN [f[Len(notes)] EXCEPT !.why = "stops"] ELSE f[Len(notes)]
<1> DEFINE n == Len(notes)
           begin == [where |-> 0, found |-> <<>>, why |-> ""]
           Turns(f) == [k \in 0..n |-> IF k = 0 THEN begin ELSE NoteStep(notes[k], limit, f[k - 1])]
           step == [k \in 1..n |-> [r \in NoteReadings |-> NoteStep(notes[k], limit, r)]]
           f == CHOOSE f : f = Turns(f)
<1>1. n \in Nat /\ \A k \in 1..n : notes[k] \in NoteRecords /\ k - 1 \in 0..n /\ k \in 0..n /\ k # 0
  OBVIOUS
<1>2. step \in [1..n -> [NoteReadings -> NoteReadings]]
  BY <1>1, NoteTurn
<1>3. begin \in NoteReadings
  BY DEF NoteReadings
<1>4. \E g : g = Turns(g)
  <2> HIDE DEF begin
  <2>1. PICK g : WalkOf(n, NoteReadings, begin, step, g)
    <3> HIDE DEF step, n
    <3> QED
      BY <1>1, <1>2, <1>3, Walks
  <2>2. ASSUME NEW k \in 1..n
        PROVE  g[k] = NoteStep(notes[k], limit, g[k - 1])
    <3> HIDE DEF n, step
    <3>1. g[k - 1] \in NoteReadings /\ g[k] = step[k][g[k - 1]]
      BY <1>1, <2>1 DEF WalkOf
    <3> QED
      BY <3>1 DEF step
  <2> HIDE DEF n
  <2>3. \A k \in 0..n : k = 0 \/ k \in 1..n
    BY <1>1
  <2>4. g = Turns(g)
    BY <2>1, <2>2, <2>3 DEF WalkOf
  <2> QED
    BY <2>4
<1>5. f = Turns(f)
  <2> HIDE DEF n, Turns
  <2> QED
    BY <1>4
<1>6. Notes!NotesIn(notes, limit) =
          IF f[n].why = "" /\ f[n].where # limit THEN [f[n] EXCEPT !.why = "stops"] ELSE f[n]
  BY DEF Notes!NotesIn, NoteStep
<1> HIDE DEF f, begin
<1>7. f[0] = begin /\ \A k \in 1..n : f[k] = NoteStep(notes[k], limit, f[k - 1])
  BY <1>1, <1>5
<1>8. DOMAIN f = 0..n /\ f = [k \in 0..n |-> f[k]]
  BY <1>5
<1>9. WalkOf(n, NoteReadings, begin, step, f)
  <2>1. \A k \in 1..n : f[k - 1] \in NoteReadings => f[k] = step[k][f[k - 1]]
    BY <1>7
  <2> HIDE DEF n, step
  <2> QED
    BY <1>1, <1>2, <1>3, <1>7, <1>8, <2>1, Walked
<1>10. NoteWalk(notes, limit, f)
  BY <1>7, <1>9 DEF WalkOf, NoteWalk, NoteBegin, begin
<1> QED
  BY <1>6, <1>10

Over(r, limit) == r.why # "" \/ r.where + 12 > limit
Begins(found, notes) == Len(found) <= Len(notes) /\ \A j \in 1..Len(found) : found[j] = notes[j]
ReadUpTo(k, notes, limit, r) ==
    /\ Begins(r.found, notes)
    /\ Over(r, limit) \/ Len(r.found) = k

(* One more item of a sequence that began as another does.                 *)
LEMMA Longer ==
    ASSUME NEW S, NEW notes \in Seq(S), NEW k \in 1..Len(notes),
           NEW found \in Seq(S), Begins(found, notes), Len(found) = k - 1
    PROVE  /\ Append(found, notes[k]) \in Seq(S)
           /\ Begins(Append(found, notes[k]), notes)
           /\ Len(Append(found, notes[k])) = k
<1>1. notes[k] \in S
  OBVIOUS
<1> DEFINE e == notes[k]
<1>2. e \in S /\ e = notes[k]
  BY <1>1
<1> HIDE DEF e
<1>3. /\ Append(found, e) \in Seq(S) /\ Len(Append(found, e)) = k
      /\ \A j \in 1..k : Append(found, e)[j] = IF j <= k - 1 THEN found[j] ELSE e
  BY <1>2
<1>4. \A j \in 1..k : Append(found, e)[j] = notes[j]
  <2> SUFFICES ASSUME NEW j \in 1..k
               PROVE  Append(found, e)[j] = notes[j]
    OBVIOUS
  <2>1. CASE j = k
    BY <1>2, <1>3, <2>1
  <2>2. CASE j # k
    <3>1. j \in 1..Len(found) /\ j <= k - 1
      BY <2>2
    <3> QED
      BY <1>3, <3>1 DEF Begins
  <2> QED
    BY <2>1, <2>2
<1>5. Begins(Append(found, e), notes)
  BY <1>3, <1>4 DEF Begins
<1> QED
  BY <1>3, <1>5 DEF e

(* A beginning as long as the whole is the whole.                          *)
LEMMA AllOfIt ==
    ASSUME NEW S, NEW notes \in Seq(S), NEW found \in Seq(S), Begins(found, notes),
           Len(found) = Len(notes)
    PROVE  found = notes
<1>1. \A j \in 1..Len(notes) : found[j] = notes[j]
  BY DEF Begins
<1> QED
  BY <1>1

(* A turn reads one more note, or none ever after.                         *)
LEMMA OneNote ==
    ASSUME NEW notes \in Seq(NoteRecords), NEW limit \in Nat, NEW k \in 1..Len(notes),
           NEW r \in NoteReadings, ReadUpTo(k - 1, notes, limit, r)
    PROVE  ReadUpTo(k, notes, limit, NoteStep(notes[k], limit, r))
<1> DEFINE stopped == [r EXCEPT !.why = "runs past"]
           longer == [where |-> r.where + Notes!NoteBytes(notes[k]),
                      found |-> Append(r.found, notes[k]), why |-> ""]
<1>1. CASE Over(r, limit)
  <2>1. NoteStep(notes[k], limit, r) = r
    BY <1>1 DEF NoteStep, Over
  <2> QED
    BY <1>1, <2>1 DEF ReadUpTo
<1>2. CASE ~Over(r, limit)
  <2>1. NoteStep(notes[k], limit, r) \in {stopped, longer}
    BY <1>2 DEF NoteStep, Over
  <2>2. ReadUpTo(k, notes, limit, stopped)
    <3>1. stopped.why = "runs past" /\ stopped.found = r.found
      BY DEF NoteReadings
    <3> HIDE DEF stopped
    <3> QED
      BY <3>1 DEF ReadUpTo, Over
  <2>3. ReadUpTo(k, notes, limit, longer)
    <3>1. longer.found = Append(r.found, notes[k])
      OBVIOUS
    <3>2. r.found \in Seq(NoteRecords)
      BY DEF NoteReadings
    <3>3. Begins(r.found, notes) /\ Len(r.found) = k - 1
      BY <1>2 DEF ReadUpTo
    <3>4. Begins(longer.found, notes) /\ Len(longer.found) = k
      BY <3>1, <3>2, <3>3, Longer
    <3> HIDE DEF longer
    <3> QED
      BY <3>4 DEF ReadUpTo
  <2> HIDE DEF stopped, longer
  <2> QED
    BY <2>1, <2>2, <2>3
<1> QED
  BY <1>1, <1>2

(* What is read is the beginning of what was written, whatever the limit.  *)
LEMMA ReadFromTheStart ==
    ASSUME NEW notes \in Seq(NoteRecords), NEW limit \in Nat
    PROVE  /\ Notes!NotesIn(notes, limit).found \in Seq(NoteRecords)
           /\ Begins(Notes!NotesIn(notes, limit).found, notes)
<1> DEFINE n == Len(notes)
<1>1. PICK f : /\ NoteWalk(notes, limit, f)
               /\ Notes!NotesIn(notes, limit) =
                    IF f[n].why = "" /\ f[n].where # limit
                    THEN [f[n] EXCEPT !.why = "stops"] ELSE f[n]
  BY NotesRead
<1>2. n \in Nat /\ n \in 0..n /\ \A k \in 1..n : k - 1 \in 0..n /\ k \in 0..n
  OBVIOUS
<1>3. \A k \in 0..n : f[k] \in NoteReadings
  BY <1>1 DEF NoteWalk
<1> DEFINE Good == {k \in 0..n : ReadUpTo(k, notes, limit, f[k])}
<1>4. 0 \in Good
  <2>1. f[0] = NoteBegin /\ NoteBegin.found = <<>>
    BY <1>1 DEF NoteWalk, NoteBegin
  <2>2. f[0].found = <<>>
    BY <2>1
  <2>3. Len(f[0].found) = 0
    BY <2>2
  <2>4. Begins(f[0].found, notes)
    BY <1>2, <2>3 DEF Begins
  <2> QED
    BY <1>2, <2>3, <2>4 DEF ReadUpTo
<1>5. ASSUME NEW k \in 1..n, k - 1 \in Good
      PROVE  k \in Good
  <2>1. f[k] = NoteStep(notes[k], limit, f[k - 1]) /\ k - 1 \in 0..n /\ k \in 0..n
    BY <1>1, <1>2 DEF NoteWalk
  <2>2. ReadUpTo(k - 1, notes, limit, f[k - 1]) /\ f[k - 1] \in NoteReadings
    BY <1>3, <1>5, <2>1
  <2>3. ReadUpTo(k, notes, limit, f[k])
    BY <2>1, <2>2, OneNote
  <2> QED
    BY <2>1, <2>3
<1>6. n \in Good
  <2> HIDE DEF Good
  <2>1. \A k \in 0..n : k \in Good
    BY <1>2, <1>4, <1>5, Upward
  <2> QED
    BY <1>2, <2>1
<1>7. Notes!NotesIn(notes, limit).found = f[n].found
  <2>1. f[n] \in NoteReadings
    BY <1>2, <1>3
  <2> DEFINE r == f[n]
             stopped == [r EXCEPT !.why = "stops"]
  <2>2. stopped.found = r.found
    BY <2>1 DEF NoteReadings
  <2>3. Notes!NotesIn(notes, limit) \in {r, stopped}
    BY <1>1
  <2> HIDE DEF stopped, r
  <2>4. Notes!NotesIn(notes, limit).found = r.found
    BY <2>2, <2>3
  <2> QED
    BY <2>4 DEF r
<1>8. f[n].found \in Seq(NoteRecords)
  BY <1>2, <1>3 DEF NoteReadings
<1>9. Begins(f[n].found, notes)
  BY <1>6 DEF ReadUpTo
<1> QED
  BY <1>7, <1>8, <1>9

(* Where the notes are taken to end where they do, all of them are read.   *)
LEMMA ReadWhole ==
    ASSUME NEW notes \in Seq(NoteRecords), NEW limit \in Nat, limit = Notes!TotalBytes(notes)
    PROVE  Notes!NotesIn(notes, limit).found = notes /\ Notes!NotesIn(notes, limit).why = ""
<1> DEFINE n == Len(notes)
           bytes == Notes!BytesBefore(notes)
<1>1. /\ bytes \in [0..n -> Nat] /\ bytes[0] = 0
      /\ \A k \in 1..n : bytes[k] = bytes[k - 1] + Notes!NoteBytes(notes[k])
  BY BytesAre
<1>2. n \in Nat /\ n \in 0..n
      /\ \A k \in 1..n : k - 1 \in 0..n /\ k \in 0..n /\ notes[k] \in NoteRecords
  OBVIOUS
<1>3. limit = bytes[n]
  BY DEF Notes!TotalBytes
<1> HIDE DEF bytes, n
<1>4. \A k \in 0..n : bytes[k] \in Nat
  BY <1>1
<1>5. ASSUME NEW k \in 1..n
      PROVE  bytes[k - 1] + 12 <= bytes[k]
  <2>1. Notes!NoteBytes(notes[k]) \in Nat /\ Notes!NoteBytes(notes[k]) >= 12
    BY <1>2, NoteTakes
  <2>2. bytes[k] = bytes[k - 1] + Notes!NoteBytes(notes[k]) /\ bytes[k - 1] \in Nat
    BY <1>1, <1>2, <1>4
  <2> QED
    BY <2>1, <2>2
<1>6. \A k \in 0..n : bytes[k] <= limit
  <2> DEFINE Good == {k \in 0..n : bytes[n - k] <= limit}
  <2>1. 0 \in Good
    <3>1. n - 0 = n /\ 0 \in 0..n
      BY <1>2
    <3>2. bytes[n - 0] <= limit
      BY <1>3, <3>1
    <3> QED
      BY <3>1, <3>2
  <2>2. ASSUME NEW k \in 1..n, k - 1 \in Good
        PROVE  k \in Good
    <3>1. n - (k - 1) \in 1..n /\ (n - (k - 1)) - 1 = n - k /\ n - k \in 0..n
          /\ n - (k - 1) \in 0..n /\ k \in 0..n
      BY <1>2
    <3>2. bytes[n - (k - 1)] <= limit
      BY <2>2
    <3>3. bytes[n - k] + 12 <= bytes[n - (k - 1)]
      BY <1>5, <3>1
    <3>4. bytes[n - (k - 1)] \in Nat /\ bytes[n - k] \in Nat
      BY <1>4, <3>1
    <3>5. bytes[n - k] <= limit
      BY <3>2, <3>3, <3>4
    <3> QED
      BY <3>1, <3>5
  <2>3. \A k \in 0..n : k \in Good
    <3> HIDE DEF Good
    <3> QED
      BY <1>2, <2>1, <2>2, Upward
  <2>4. ASSUME NEW k \in 0..n
        PROVE  bytes[k] <= limit
    <3>1. n - k \in 0..n /\ n - (n - k) = k
      BY <1>2
    <3>2. bytes[n - (n - k)] <= limit
      BY <2>3, <3>1
    <3> QED
      BY <3>1, <3>2
  <2> QED
    BY <2>4
<1>7. PICK f : /\ NoteWalk(notes, limit, f)
               /\ Notes!NotesIn(notes, limit) =
                    IF f[n].why = "" /\ f[n].where # limit
                    THEN [f[n] EXCEPT !.why = "stops"] ELSE f[n]
  BY NotesRead DEF n
<1>8. \A k \in 0..n : f[k] \in NoteReadings
  BY <1>7 DEF NoteWalk, n
<1> DEFINE Good == {k \in 0..n : f[k].why = "" /\ f[k].where = bytes[k] /\ Len(f[k].found) = k}
<1>9. 0 \in Good
  <2>1. f[0] = NoteBegin
    BY <1>7 DEF NoteWalk
  <2>2. NoteBegin.where = 0 /\ NoteBegin.why = "" /\ Len(NoteBegin.found) = 0
    BY DEF NoteBegin
  <2>3. f[0].why = "" /\ f[0].where = bytes[0] /\ Len(f[0].found) = 0
    BY <1>1, <2>1, <2>2
  <2>4. 0 \in 0..n
    BY <1>2
  <2> QED
    BY <2>3, <2>4, Zenon
<1>10. ASSUME NEW k \in 1..n, k - 1 \in Good
       PROVE  k \in Good
  <2> DEFINE r == f[k - 1]
             e == notes[k]
  <2>1. f[k] = NoteStep(e, limit, r)
    BY <1>7 DEF NoteWalk, n
  <2>2. r \in NoteReadings /\ e \in NoteRecords /\ k \in 0..n /\ k - 1 \in 0..n
    BY <1>2, <1>8
  <2>3. r.why = ""
    BY <1>10
  <2>4. r.where = bytes[k - 1]
    BY <1>10
  <2>5. Len(r.found) = k - 1
    BY <1>10
  <2>6. bytes[k] = bytes[k - 1] + Notes!NoteBytes(e)
    BY <1>1
  <2> DEFINE p == bytes[k - 1]
             q == bytes[k]
  <2>7. p \in Nat /\ q \in Nat /\ p + 12 <= q /\ q <= limit
    BY <1>4, <1>5, <1>6, <2>2
  <2>8. r.where + 12 = p + 12 /\ r.where + Notes!NoteBytes(e) = q
    BY <2>4, <2>6
  <2> HIDE DEF r, e, p, q
  <2>9. ~(p + 12 > limit) /\ ~(q > limit)
    BY <2>7
  <2> DEFINE whole == [where |-> q, found |-> Append(r.found, e), why |-> ""]
  <2>10. NoteStep(e, limit, r) = whole
    BY <2>3, <2>8, <2>9 DEF NoteStep
  <2>11. whole.where = q /\ whole.why = "" /\ whole.found = Append(r.found, e)
    OBVIOUS
  <2>12. r.found \in Seq(NoteRecords)
    BY <2>2 DEF NoteReadings
  <2>13. Len(Append(r.found, e)) = k
    BY <2>2, <2>5, <2>12
  <2> HIDE DEF whole
  <2>14. f[k].why = "" /\ f[k].where = q /\ Len(f[k].found) = k
    BY <2>1, <2>10, <2>11, <2>13
  <2> QED
    BY <2>2, <2>14 DEF q
<1>11. f[n].why = "" /\ f[n].where = bytes[n] /\ Len(f[n].found) = n
  <2> HIDE DEF Good
  <2>1. \A k \in 0..n : k \in Good
    BY <1>2, <1>9, <1>10, Upward
  <2>2. n \in Good
    BY <1>2, <2>1
  <2> QED
    BY <2>2 DEF Good
<1>12. Notes!NotesIn(notes, limit) = f[n]
  BY <1>3, <1>7, <1>11
<1>13. f[n].found = notes
  <2>1. f[n].found \in Seq(NoteRecords) /\ Begins(f[n].found, notes)
    BY <1>12, ReadFromTheStart
  <2> QED
    BY <1>11, <2>1, AllOfIt DEF n
<1> QED
  BY <1>11, <1>12, <1>13

(* Where a linker puts the entries of a property chain.                    *)
After(at, size, align) == at + 8 + size + ((-(at + 8 + size)) % align)
(* What a linker makes of the end of an entry.                             *)
LEMMA AfterAn ==
    ASSUME NEW at \in Nat, NEW size \in Nat, NEW align \in {4, 8}
    PROVE  /\ After(at, size, align) \in Nat
           /\ After(at, size, align) >= at + 8 + size
           /\ align = 4 /\ at % 4 = 0 =>
                 After(at, size, align) = at + 8 + Notes!Rounded(size)
                 /\ After(at, size, align) % 4 = 0
           /\ at = 0 => 8 + Notes!Rounded(size) <= After(at, size, align)
                        /\ After(at, size, align) < 8 + Notes!Rounded(size) + 8
<1>1. CASE align = 4
  BY <1>1 DEF After, Notes!Rounded
<1>2. CASE align = 8
  BY <1>2 DEF After, Notes!Rounded
<1> QED
  BY <1>1, <1>2

(* The places of the entries, as the recursion they are.                   *)
LEMMA EntriesAre ==
    ASSUME NEW sizes \in Seq(Nat), NEW align \in {4, 8}
    PROVE  /\ Notes!EntriesAt(sizes, align) \in [0..Len(sizes) -> Nat]
           /\ Notes!EntriesAt(sizes, align)[0] = 0
           /\ \A k \in 1..Len(sizes) :
                  Notes!EntriesAt(sizes, align)[k]
                      = After(Notes!EntriesAt(sizes, align)[k - 1], sizes[k], align)
<1> DEFINE n == Len(sizes)
           Turns(f) == [k \in 0..n |-> IF k = 0 THEN 0 ELSE After(f[k - 1], sizes[k], align)]
           step == [k \in 1..n |-> [r \in Nat |-> After(r, sizes[k], align)]]
           f == CHOOSE f : f = Turns(f)
<1>1. n \in Nat /\ \A k \in 1..n : sizes[k] \in Nat
  OBVIOUS
<1>2. step \in [1..n -> [Nat -> Nat]]
  BY <1>1, AfterAn
<1>3. \E g : g = Turns(g)
  <2>1. PICK g : WalkOf(n, Nat, 0, step, g)
    <3> HIDE DEF step, n
    <3> QED
      BY <1>1, <1>2, Walks
  <2>2. \A k \in 1..n : k - 1 \in 0..n
    BY <1>1
  <2>3. ASSUME NEW k \in 1..n
        PROVE  g[k] = After(g[k - 1], sizes[k], align)
    <3> HIDE DEF n, step
    <3>1. g[k - 1] \in Nat /\ g[k] = step[k][g[k - 1]]
      BY <2>1, <2>2 DEF WalkOf
    <3> QED
      BY <3>1 DEF step
  <2> HIDE DEF n
  <2>4. \A k \in 0..n : k = 0 \/ k \in 1..n
    BY <1>1
  <2>5. g = Turns(g)
    BY <2>1, <2>3, <2>4 DEF WalkOf
  <2> QED
    BY <2>5
<1>4. f = Turns(f)
  <2> HIDE DEF n, Turns
  <2> QED
    BY <1>3
<1>5. Notes!EntriesAt(sizes, align) = f
  BY DEF Notes!EntriesAt, After
<1> HIDE DEF f
<1>6. \A k \in 1..n : k \in 0..n /\ k # 0
  OBVIOUS
<1>7. f[0] = 0 /\ \A k \in 1..n : f[k] = After(f[k - 1], sizes[k], align)
  BY <1>4, <1>6, SMTT(30)
<1>8. DOMAIN f = 0..n /\ f = [k \in 0..n |-> f[k]]
  BY <1>4
<1>9. WalkOf(n, Nat, 0, step, f)
  <2>1. \A k \in 1..n : f[k - 1] \in Nat => f[k] = step[k][f[k - 1]]
    BY <1>7
  <2> HIDE DEF n, step
  <2> QED
    BY <1>1, <1>2, <1>7, <1>8, <2>1, Walked
<1> QED
  BY <1>5, <1>7, <1>9 DEF WalkOf

(* No two of them are at one place, and eight bytes at least come before   *)
(* the next.                                                               *)
LEMMA EntriesApart ==
    ASSUME NEW sizes \in Seq(Nat), NEW align \in {4, 8}, NEW at,
           at = Notes!EntriesAt(sizes, align), NEW j \in 0..Len(sizes), NEW i \in 0..Len(sizes),
           i <= j
    PROVE  at[i] \in Nat /\ at[j] \in Nat /\ at[i] + 8 * (j - i) <= at[j]
<1> DEFINE n == Len(sizes)
           Good == {k \in 0..n : k >= i => at[i] + 8 * (k - i) <= at[k]}
<1>1. /\ at \in [0..n -> Nat] /\ at[0] = 0
      /\ \A k \in 1..n : at[k] = After(at[k - 1], sizes[k], align)
  BY EntriesAre
<1>2. n \in Nat /\ \A k \in 1..n : sizes[k] \in Nat /\ k - 1 \in 0..n /\ k \in 0..n
  OBVIOUS
<1>3. 0 \in Good
  <2>1. 0 >= i => i = 0 /\ 0 - i = 0
    BY <1>2
  <2>2. at[i] \in Nat
    BY <1>1
  <2>3. 0 >= i => at[i] + 8 * (0 - i) <= at[0]
    BY <2>1, <2>2
  <2> QED
    BY <1>2, <2>3
<1>4. ASSUME NEW k \in 1..n, k - 1 \in Good
      PROVE  k \in Good
  <2>1. at[k] \in Nat /\ at[k - 1] \in Nat /\ at[i] \in Nat /\ at[k - 1] + 8 <= at[k]
    <3>1. at[k - 1] \in Nat /\ sizes[k] \in Nat
      BY <1>1, <1>2
    <3> DEFINE p == at[k - 1]
               size == sizes[k]
    <3>2. at[k] = After(p, size, align) /\ p \in Nat /\ size \in Nat
      BY <1>1, <3>1
    <3> HIDE DEF p, size
    <3>3. After(p, size, align) \in Nat /\ After(p, size, align) >= p + 8 + size
      BY <3>2, AfterAn
    <3>4. at[k] \in Nat /\ p + 8 <= at[k]
      BY <3>2, <3>3
    <3>5. at[i] \in Nat
      BY <1>1
    <3> QED
      BY <3>1, <3>4, <3>5 DEF p
  <2>2. k - 1 >= i => at[i] + 8 * ((k - 1) - i) <= at[k - 1]
    BY <1>4
  <2>3. k >= i => at[i] + 8 * (k - i) <= at[k]
    <3>1. CASE k - 1 >= i
      <4>1. 8 * ((k - 1) - i) + 8 = 8 * (k - i)
        BY <1>2
      <4> QED
        BY <2>1, <2>2, <3>1, <4>1, SMTT(30)
    <3>2. CASE ~(k - 1 >= i) /\ k >= i
      <4>1. k = i
        BY <1>2, <3>2
      <4> QED
        BY <2>1, <4>1
    <3> QED
      BY <3>1, <3>2
  <2> QED
    BY <1>2, <2>3
<1>5. j \in Good
  <2> HIDE DEF Good
  <2>1. \A k \in 0..n : k \in Good
    BY <1>2, <1>3, <1>4, Upward
  <2> QED
    BY <2>1
<1> QED
  BY <1>1, <1>5

(* What is stated at an entry's place is the entry's size.                 *)
LEMMA EntrySize ==
    ASSUME NEW sizes \in Seq(Nat), NEW align \in {4, 8}, NEW k \in 1..Len(sizes)
    PROVE  /\ Notes!EntriesAt(sizes, align)[k - 1] \in DOMAIN Notes!WrittenEntries(sizes, align)
           /\ Notes!WrittenEntries(sizes, align)[Notes!EntriesAt(sizes, align)[k - 1]] = sizes[k]
<1> DEFINE n == Len(sizes)
           at == Notes!EntriesAt(sizes, align)
           Here(p) == CHOOSE i \in 1..n : at[i - 1] = p
<1>1. n \in Nat /\ DOMAIN sizes = 1..n /\ \A i \in 1..n : i - 1 \in 0..n
  OBVIOUS
<1>2. Notes!WrittenEntries(sizes, align) = [p \in {at[i - 1] : i \in 1..n} |-> sizes[Here(p)]]
  BY <1>1 DEF Notes!WrittenEntries
<1>3. at = Notes!EntriesAt(sizes, align)
  OBVIOUS
<1> HIDE DEF at
<1>4. ASSUME NEW i \in 1..n, NEW j \in 1..n, i < j
      PROVE  at[i - 1] < at[j - 1]
  <2> DEFINE p == i - 1
             q == j - 1
  <2>1. p \in 0..n /\ q \in 0..n /\ p <= q /\ q - p \in Nat \ {0}
    BY <1>1, <1>4
  <2> HIDE DEF p, q
  <2>2. at[p] \in Nat /\ at[q] \in Nat /\ at[p] + 8 * (q - p) <= at[q]
    BY <1>3, <2>1, EntriesApart
  <2>3. at[p] < at[q]
    BY <2>1, <2>2
  <2> QED
    BY <2>3 DEF p, q
<1>5. \A i \in 1..n : at[i - 1] = at[k - 1] => i = k
  <2> SUFFICES ASSUME NEW i \in 1..n, at[i - 1] = at[k - 1], i # k
               PROVE  FALSE
    OBVIOUS
  <2>1. \A j \in 1..n : at[j - 1] \in Nat
    BY <1>1, <1>3, EntriesAre
  <2>2. i < k \/ k < i
    BY <1>1
  <2>3. at[i - 1] < at[k - 1] \/ at[k - 1] < at[i - 1]
    BY <1>4, <2>2
  <2> QED
    BY <2>1, <2>3
<1>6. Here(at[k - 1]) = k
  BY <1>5
<1> HIDE DEF Here
<1> QED
  BY <1>2, <1>6 DEF at

(* Entries placed by four lie on multiples of four.                        *)
LEMMA InFours ==
    ASSUME NEW sizes \in Seq(Nat), NEW k \in 0..Len(sizes)
    PROVE  Notes!EntriesAt(sizes, 4)[k] % 4 = 0
<1> DEFINE n == Len(sizes)
           at == Notes!EntriesAt(sizes, 4)
           Good == {i \in 0..n : at[i] % 4 = 0}
<1>1. /\ at \in [0..n -> Nat] /\ at[0] = 0
      /\ \A i \in 1..n : at[i] = After(at[i - 1], sizes[i], 4)
  BY EntriesAre
<1>2. n \in Nat /\ \A i \in 1..n : sizes[i] \in Nat /\ i - 1 \in 0..n /\ i \in 0..n
  OBVIOUS
<1> HIDE DEF at
<1>3. 0 \in Good
  BY <1>1, <1>2
<1>4. ASSUME NEW i \in 1..n, i - 1 \in Good
      PROVE  i \in Good
  <2> DEFINE p == at[i - 1]
             size == sizes[i]
  <2>1. p \in Nat /\ size \in Nat /\ p % 4 = 0 /\ at[i] = After(p, size, 4)
    BY <1>1, <1>2, <1>4
  <2> HIDE DEF p, size
  <2>2. After(p, size, 4) % 4 = 0
    BY <2>1, AfterAn
  <2> QED
    BY <1>2, <2>1, <2>2
<1>5. k \in Good
  <2> HIDE DEF Good
  <2>1. \A i \in 0..n : i \in Good
    BY <1>2, <1>3, <1>4, Upward
  <2> QED
    BY <2>1
<1> QED
  BY <1>5 DEF at

(* A turn of the reading of a property chain.                              *)
Chains == [where : Nat, got : Seq(Int)]
ChainBegin == [where |-> 0, got |-> <<>>]
ChainStep(starts, limit, r) ==
    IF r.where + 8 > limit THEN r
    ELSE IF r.where \notin DOMAIN starts
    THEN [where |-> limit, got |-> Append(r.got, Notes!Astray)]
    ELSE [where |-> r.where + 8 + Notes!Rounded(starts[r.where]),
          got |-> Append(r.got, starts[r.where])]
ChainWalk(starts, limit, n, f) ==
    /\ f \in [0..n -> Chains]
    /\ f[0] = ChainBegin
    /\ \A k \in 1..n : f[k] = ChainStep(starts, limit, f[k - 1])

(* A turn leaves a chain a chain.                                          *)
LEMMA ChainTurn ==
    ASSUME NEW starts, NEW limit \in Nat, \A p \in DOMAIN starts : starts[p] \in Nat,
           NEW r \in Chains
    PROVE  ChainStep(starts, limit, r) \in Chains
<1> DEFINE astray == [where |-> limit, got |-> Append(r.got, Notes!Astray)]
           next == [where |-> r.where + 8 + Notes!Rounded(starts[r.where]),
                    got |-> Append(r.got, starts[r.where])]
<1>1. r.where \in Nat
  BY DEF Chains
<1>2. r.got \in Seq(Int)
  BY DEF Chains
<1>3. astray \in Chains
  <2>1. Notes!Astray \in Int
    BY DEF Notes!Astray
  <2>2. Append(r.got, Notes!Astray) \in Seq(Int)
    BY <1>2, <2>1
  <2> QED
    BY <2>2 DEF Chains
<1>4. ASSUME r.where \in DOMAIN starts
      PROVE  next \in Chains
  <2> DEFINE size == starts[r.where]
  <2>1. size \in Nat
    BY <1>4
  <2> HIDE DEF size
  <2>2. Notes!Rounded(size) \in Nat
    BY <2>1, RoundedUp
  <2>3. r.where + 8 + Notes!Rounded(size) \in Nat
    BY <1>1, <2>2
  <2>4. Append(r.got, size) \in Seq(Int)
    BY <1>2, <2>1
  <2>5. [where |-> r.where + 8 + Notes!Rounded(size), got |-> Append(r.got, size)] \in Chains
    BY <2>3, <2>4 DEF Chains
  <2> QED
    BY <2>5 DEF size
<1>5. CASE r.where + 8 > limit
  BY <1>5 DEF ChainStep
<1>6. CASE ~(r.where + 8 > limit) /\ r.where \notin DOMAIN starts
  <2>1. ChainStep(starts, limit, r) = astray
    BY <1>6 DEF ChainStep
  <2> QED
    BY <1>3, <2>1
<1>7. CASE ~(r.where + 8 > limit) /\ r.where \in DOMAIN starts
  <2>1. ChainStep(starts, limit, r) = next
    BY <1>7 DEF ChainStep
  <2> QED
    BY <1>4, <1>7, <2>1
<1> QED
  BY <1>5, <1>6, <1>7

(* property_entries is a run of such turns.                                *)
LEMMA ChainRead ==
    ASSUME NEW starts, NEW limit \in Nat, \A p \in DOMAIN starts : starts[p] \in Nat,
           NEW n, n = limit \div 8
    PROVE  /\ n \in Nat
           /\ \E f : ChainWalk(starts, limit, n, f)
                     /\ Notes!PropertyEntries(starts, limit) = f[n].got
<1> DEFINE Turns(f) == [k \in 0..n |-> IF k = 0 THEN ChainBegin ELSE ChainStep(starts, limit, f[k - 1])]
           step == [k \in 1..n |-> [r \in Chains |-> ChainStep(starts, limit, r)]]
           f == CHOOSE f : f = Turns(f)
<1>1. n \in Nat
  OBVIOUS
<1>2. \A k \in 1..n : k - 1 \in 0..n /\ k \in 0..n /\ k # 0
  BY <1>1
<1>3. step \in [1..n -> [Chains -> Chains]]
  BY ChainTurn
<1>4. ChainBegin \in Chains
  BY DEF Chains, ChainBegin
<1>5. \E g : g = Turns(g)
  <2>1. PICK g : WalkOf(n, Chains, ChainBegin, step, g)
    <3> HIDE DEF step
    <3> QED
      BY <1>1, <1>3, <1>4, Walks
  <2>2. ASSUME NEW k \in 1..n
        PROVE  g[k] = ChainStep(starts, limit, g[k - 1])
    <3> HIDE DEF step
    <3>1. g[k - 1] \in Chains /\ g[k] = step[k][g[k - 1]]
      BY <1>2, <2>1 DEF WalkOf
    <3> QED
      BY <3>1 DEF step
  <2>3. \A k \in 0..n : k = 0 \/ k \in 1..n
    BY <1>1
  <2>4. g = Turns(g)
    BY <2>1, <2>2, <2>3 DEF WalkOf
  <2> QED
    BY <2>4
<1>6. f = Turns(f)
  <2> HIDE DEF Turns
  <2> QED
    BY <1>5
<1>7. Notes!PropertyEntries(starts, limit) = f[n].got
  BY DEF Notes!PropertyEntries, ChainStep, ChainBegin
<1> HIDE DEF f
<1>8. f[0] = ChainBegin /\ \A k \in 1..n : f[k] = ChainStep(starts, limit, f[k - 1])
  BY <1>1, <1>2, <1>6
<1>9. DOMAIN f = 0..n /\ f = [k \in 0..n |-> f[k]]
  BY <1>6
<1>10. WalkOf(n, Chains, ChainBegin, step, f)
  <2>1. \A k \in 1..n : f[k - 1] \in Chains => f[k] = step[k][f[k - 1]]
    BY <1>8
  <2> HIDE DEF step
  <2> QED
    BY <1>1, <1>3, <1>4, <1>8, <1>9, <2>1, Walked
<1>11. ChainWalk(starts, limit, n, f)
  BY <1>8, <1>10 DEF WalkOf, ChainWalk
<1> QED
  BY <1>1, <1>7, <1>11

(* A chain written in fours, or of one entry, is read as it was written.   *)
ChainUpTo(k, sizes, at, limit, r) ==
    /\ Begins(r.got, sizes)
    /\ IF k < Len(sizes) THEN Len(r.got) = k /\ r.where = at[k]
       ELSE Len(r.got) = Len(sizes) /\ r.where + 8 > limit
(* A turn reads one more entry, or none when all are read.                 *)
LEMMA ChainReadsOn ==
    ASSUME NEW sizes \in Seq(Nat), NEW align \in {4, 8}, align = 4 \/ Len(sizes) <= 1,
           NEW at, at = Notes!EntriesAt(sizes, align), NEW limit, limit = at[Len(sizes)],
           NEW k \in Nat \ {0}, NEW r \in Chains, ChainUpTo(k - 1, sizes, at, limit, r)
    PROVE  ChainUpTo(k, sizes, at, limit,
                     ChainStep(Notes!WrittenEntries(sizes, align), limit, r))
<1> DEFINE n == Len(sizes)
           starts == Notes!WrittenEntries(sizes, align)
<1>1. n \in Nat
  OBVIOUS
<1>2. r.where \in Nat
  BY DEF Chains
<1>3. r.got \in Seq(Int)
  BY DEF Chains
<1>4. CASE k > n
  <2>1. ~(k - 1 < n) /\ ~(k < n)
    BY <1>1, <1>4
  <2>2. Begins(r.got, sizes) /\ Len(r.got) = n /\ r.where + 8 > limit
    BY <2>1 DEF ChainUpTo
  <2>3. ChainStep(starts, limit, r) = r
    BY <2>2 DEF ChainStep
  <2>4. ChainUpTo(k, sizes, at, limit, r)
    BY <2>1, <2>2 DEF ChainUpTo
  <2> QED
    BY <2>3, <2>4
<1>5. CASE k <= n
  <2>1. k - 1 < n /\ k \in 1..n /\ k - 1 \in 0..n /\ k \in 0..n /\ n \in 0..n /\ k - 1 <= n
    BY <1>1, <1>5
  <2>2. Begins(r.got, sizes) /\ Len(r.got) = k - 1 /\ r.where = at[k - 1]
    BY <2>1 DEF ChainUpTo
  <2> DEFINE p == at[k - 1]
             size == sizes[k]
  <2>3. p \in DOMAIN starts /\ starts[p] = size
    BY <2>1, EntrySize
  <2>4. p \in Nat /\ limit \in Nat /\ p + 8 * (n - (k - 1)) <= limit
    BY <2>1, EntriesApart
  <2>5. size \in Nat /\ size \in Int
    BY <2>1
  <2>6. at[k] = After(p, size, align)
    BY <2>1, EntriesAre
  <2>7. r.where = p
    BY <2>2
  <2> DEFINE next == [where |-> p + 8 + Notes!Rounded(size), got |-> Append(r.got, size)]
  <2>8. ChainStep(starts, limit, r) = next
    <3>1. ~(p + 8 > limit)
      BY <1>1, <2>1, <2>4
    <3> HIDE DEF p, size, starts
    <3>2. ~(r.where + 8 > limit) /\ r.where \in DOMAIN starts /\ starts[r.where] = size
      BY <2>3, <2>7, <3>1
    <3> QED
      BY <2>7, <3>2 DEF ChainStep
  <2>9. next.where = p + 8 + Notes!Rounded(size) /\ next.got = Append(r.got, size)
    OBVIOUS
  <2>10. Begins(next.got, sizes) /\ Len(next.got) = k
    <3>1. sizes \in Seq(Int)
      OBVIOUS
    <3> QED
      BY <1>3, <2>1, <2>2, <2>9, <3>1, Longer
  <2>11. Notes!Rounded(size) \in Nat
    BY <2>5, RoundedUp
  <2>12. align = 4 => next.where = at[k]
    <3> SUFFICES ASSUME align = 4 PROVE next.where = at[k]
      OBVIOUS
    <3>1. p % 4 = 0
      BY <2>1, InFours
    <3> HIDE DEF p, size, next
    <3>2. After(p, size, 4) = p + 8 + Notes!Rounded(size)
      BY <2>4, <2>5, <3>1, AfterAn
    <3> QED
      BY <2>6, <2>9, <3>2
  <2>13. CASE k < n
    <3>1. align = 4
      BY <1>1, <2>1, <2>13
    <3> HIDE DEF next, starts
    <3>2. next.where = at[k]
      BY <2>12, <3>1
    <3>3. ChainUpTo(k, sizes, at, limit, next)
      BY <2>10, <2>13, <3>2 DEF ChainUpTo
    <3> QED
      BY <2>8, <3>3 DEF starts
  <2>14. CASE ~(k < n)
    <3>1. k = n
      BY <1>1, <2>1, <2>14
    <3>2. next.where + 8 > limit
      <4>1. CASE align = 4
        <5>1. next.where = limit
          BY <2>12, <3>1, <4>1
        <5> HIDE DEF next
        <5> QED
          BY <2>4, <5>1
      <4>2. CASE align # 4
        <5>1. k = 1 /\ align = 8 /\ p = 0
          <6>1. k = 1 /\ align = 8 /\ at[0] = 0
            BY <1>1, <2>1, <3>1, <4>2, EntriesAre
          <6> QED
            BY <6>1
        <5> HIDE DEF p, size, next
        <5>2. After(p, size, align) < 8 + Notes!Rounded(size) + 8
          BY <2>5, <5>1, AfterAn
        <5>3. limit = After(p, size, align)
          BY <2>6, <3>1
        <5> QED
          BY <2>4, <2>9, <2>11, <5>1, <5>2, <5>3
      <4> QED
        BY <4>1, <4>2
    <3> HIDE DEF next, starts
    <3>3. Len(next.got) = Len(sizes)
      BY <2>10, <3>1
    <3>4. ChainUpTo(k, sizes, at, limit, next)
      BY <2>10, <2>14, <3>2, <3>3 DEF ChainUpTo
    <3> QED
      BY <2>8, <3>4 DEF starts
  <2> QED
    BY <2>13, <2>14
<1> QED
  BY <1>1, <1>4, <1>5

(* So the entries read are the ones written.                               *)
LEMMA ChainReadAsWritten ==
    ASSUME NEW sizes \in Seq(Nat), NEW align \in {4, 8}, align = 4 \/ Len(sizes) <= 1
    PROVE  Notes!PropertyEntries(Notes!WrittenEntries(sizes, align),
                                 Notes!WrittenBytes(sizes, align)) = sizes
<1> DEFINE n == Len(sizes)
           at == Notes!EntriesAt(sizes, align)
           starts == Notes!WrittenEntries(sizes, align)
           limit == at[n]
           turns == limit \div 8
<1>1. n \in Nat /\ n \in 0..n /\ 0 \in 0..n /\ 0 <= n /\ n - 0 = n
  OBVIOUS
<1>2. at = Notes!EntriesAt(sizes, align) /\ limit = Notes!WrittenBytes(sizes, align)
  BY DEF Notes!WrittenBytes
<1>3. limit \in Nat /\ at[0] = 0 /\ n <= turns /\ turns \in Nat
  <2>1. at[0] = 0 /\ at[0] \in Nat /\ limit \in Nat /\ at[0] + 8 * (n - 0) <= limit
    BY <1>1, EntriesApart, EntriesAre
  <2> HIDE DEF at, limit, n
  <2>2. 8 * n <= limit
    BY <1>1, <2>1
  <2>3. n <= turns /\ turns \in Nat
    BY <1>1, <2>1, <2>2
  <2> QED
    BY <2>1, <2>3
<1>4. \A p \in DOMAIN starts : starts[p] \in Nat
  <2>1. \A p \in DOMAIN starts : \E k \in 1..n : p = at[k - 1]
    <3>1. DOMAIN sizes = 1..n
      OBVIOUS
    <3> HIDE DEF n, at
    <3> QED
      BY <3>1 DEF Notes!WrittenEntries, at
  <2>2. \A k \in 1..n : starts[at[k - 1]] \in Nat
    BY EntrySize
  <2> HIDE DEF starts, at, n
  <2> QED
    BY <2>1, <2>2
<1>5. PICK f : ChainWalk(starts, limit, turns, f) /\ Notes!PropertyEntries(starts, limit) = f[turns].got
  <2> HIDE DEF starts, limit
  <2> QED
    BY <1>3, <1>4, ChainRead
<1> DEFINE Good == {k \in 0..turns : ChainUpTo(k, sizes, at, limit, f[k])}
<1>6. \A k \in 0..turns : f[k] \in Chains
  BY <1>5 DEF ChainWalk
<1>7. 0 \in Good
  <2>1. f[0] = ChainBegin
    BY <1>5 DEF ChainWalk
  <2>2. ChainBegin.where = 0 /\ ChainBegin.got = <<>>
    BY DEF ChainBegin
  <2>3. Len(ChainBegin.got) = 0
    BY <2>2
  <2>4. Begins(ChainBegin.got, sizes)
    BY <1>1, <2>3 DEF Begins
  <2>5. ChainUpTo(0, sizes, at, limit, ChainBegin)
    <3>1. CASE n = 0
      <4>1. limit = 0
        BY <1>3, <3>1
      <4> HIDE DEF limit, at
      <4> QED
        BY <2>2, <2>3, <2>4, <3>1, <4>1 DEF ChainUpTo
    <3>2. CASE n # 0
      <4>1. 0 < n
        BY <1>1, <3>2
      <4> HIDE DEF limit, at
      <4> QED
        BY <1>3, <2>2, <2>3, <2>4, <4>1 DEF ChainUpTo
    <3> QED
      BY <3>1, <3>2
  <2>6. 0 \in 0..turns
    BY <1>3
  <2> HIDE DEF limit, at, turns
  <2> QED
    BY <2>1, <2>5, <2>6
<1>8. ASSUME NEW k \in 1..turns, k - 1 \in Good
      PROVE  k \in Good
  <2>1. k \in Nat \ {0} /\ k - 1 \in 0..turns /\ k \in 0..turns
    BY <1>3
  <2>2. f[k] = ChainStep(starts, limit, f[k - 1]) /\ f[k - 1] \in Chains
    BY <1>5, <1>6, <2>1 DEF ChainWalk
  <2>3. ChainUpTo(k - 1, sizes, at, limit, f[k - 1])
    BY <1>8
  <2> HIDE DEF turns
  <2>4. ChainUpTo(k, sizes, at, limit, f[k])
    BY <1>2, <2>1, <2>2, <2>3, ChainReadsOn
  <2> QED
    BY <2>1, <2>4
<1>9. turns \in Good
  <2> HIDE DEF Good, turns
  <2>1. \A k \in 0..turns : k \in Good
    BY <1>3, <1>7, <1>8, Upward
  <2> QED
    BY <1>3, <2>1
<1>10. ChainUpTo(turns, sizes, at, limit, f[turns])
  BY <1>9
<1>11. f[turns].got = sizes
  <2>1. ~(turns < n)
    BY <1>1, <1>3
  <2> HIDE DEF turns, at, limit
  <2>2. Begins(f[turns].got, sizes) /\ Len(f[turns].got) = Len(sizes)
    BY <1>10, <2>1 DEF ChainUpTo
  <2>3. f[turns] \in Chains
    BY <1>3, <1>6
  <2>4. f[turns].got \in Seq(Int)
    BY <2>3 DEF Chains
  <2>5. sizes \in Seq(Int)
    OBVIOUS
  <2> QED
    BY <2>2, <2>4, <2>5, AllOfIt
<1> QED
  BY <1>2, <1>5, <1>11

-----------------------------------------------------------------------------
(* A function that goes up by d at every step is up by d at any later one. *)
LEMMA Climbs ==
    ASSUME NEW n \in Nat, NEW g \in [0..n -> Nat], NEW d \in Nat,
           \A k \in 1..n : g[k - 1] + d <= g[k], NEW i \in 0..n
    PROVE  \A j \in 0..n : i < j => g[i] + d <= g[j]
<1> DEFINE Good == {k \in 0..n : i < k => g[i] + d <= g[k]}
<1>1. \A k \in 1..n : k - 1 \in 0..n /\ k \in 0..n
  OBVIOUS
<1>2. 0 \in Good
  OBVIOUS
<1>3. ASSUME NEW k \in 1..n, k - 1 \in Good
      PROVE  k \in Good
  <2> SUFFICES ASSUME i < k PROVE g[i] + d <= g[k]
    BY <1>1
  <2>1. g[i] \in Nat /\ g[k - 1] \in Nat /\ g[k] \in Nat /\ g[k - 1] + d <= g[k]
    BY <1>1
  <2>2. CASE i = k - 1
    BY <2>1, <2>2
  <2>3. CASE i # k - 1
    <3>1. i < k - 1
      BY <2>3
    <3>2. g[i] + d <= g[k - 1]
      BY <1>3, <3>1
    <3> QED
      BY <2>1, <3>2
  <2> QED
    BY <2>2, <2>3
<1>4. \A k \in 0..n : k \in Good
  <2> HIDE DEF Good
  <2> QED
    BY <1>2, <1>3, Upward
<1> QED
  BY <1>4

(* The names before each record, as the sum they are.                      *)
LEMMA NamesAreBefore ==
    ASSUME NEW records \in VersionTables
    PROVE  /\ Versions!NamesBefore(records) \in [0..Len(records) -> Nat]
           /\ Versions!NamesBefore(records)[0] = 0
           /\ \A k \in 1..Len(records) :
                  Versions!NamesBefore(records)[k]
                      = Versions!NamesBefore(records)[k - 1] + Len(records[k])
<1> DEFINE n == Len(records)
           Turns(f) == [k \in 0..n |-> IF k = 0 THEN 0 ELSE f[k - 1] + Len(records[k])]
           step == [k \in 1..n |-> [r \in Nat |-> r + Len(records[k])]]
           f == CHOOSE f : f = Turns(f)
<1>1. n \in Nat /\ \A k \in 1..n : Len(records[k]) \in Nat
  BY DEF VersionTables
<1>2. step \in [1..n -> [Nat -> Nat]]
  BY <1>1
<1>3. \E g : g = Turns(g)
  <2>1. PICK g : WalkOf(n, Nat, 0, step, g)
    <3> HIDE DEF step, n
    <3> QED
      BY <1>1, <1>2, Walks
  <2>2. \A k \in 1..n : k - 1 \in 0..n
    BY <1>1
  <2>3. ASSUME NEW k \in 1..n
        PROVE  g[k] = g[k - 1] + Len(records[k])
    <3> HIDE DEF n, step
    <3>1. g[k - 1] \in Nat /\ g[k] = step[k][g[k - 1]]
      BY <2>1, <2>2 DEF WalkOf
    <3> QED
      BY <3>1 DEF step
  <2> HIDE DEF n
  <2>4. \A k \in 0..n : k = 0 \/ k \in 1..n
    BY <1>1
  <2>5. g = Turns(g)
    BY <2>1, <2>3, <2>4 DEF WalkOf
  <2> QED
    BY <2>5
<1>4. f = Turns(f)
  <2> HIDE DEF n, Turns
  <2> QED
    BY <1>3
<1>5. Versions!NamesBefore(records) = f
  BY DEF Versions!NamesBefore
<1> HIDE DEF f
<1>6. \A k \in 1..n : k \in 0..n /\ k # 0
  OBVIOUS
<1>7. f[0] = 0 /\ \A k \in 1..n : f[k] = f[k - 1] + Len(records[k])
  BY <1>1, <1>4, <1>6
<1>8. DOMAIN f = 0..n /\ f = [k \in 0..n |-> f[k]]
  BY <1>4
<1>9. WalkOf(n, Nat, 0, step, f)
  <2>1. \A k \in 1..n : f[k - 1] \in Nat => f[k] = step[k][f[k - 1]]
    BY <1>7
  <2> HIDE DEF n, step
  <2> QED
    BY <1>1, <1>2, <1>7, <1>8, <2>1, Walked
<1> QED
  BY <1>5, <1>7, <1>9 DEF WalkOf

-----------------------------------------------------------------------------
(* Where a linker puts version records and their names.                    *)
Sizes(recordSize, auxSize) ==
    \/ recordSize = 5 /\ auxSize = 2
    \/ recordSize = 4 /\ auxSize = 4

(* A record ends before the next begins, and the last inside the section.  *)
LEMMA RecordsApart ==
    ASSUME NEW records \in VersionTables, NEW spread \in BOOLEAN, NEW rw, NEW aw, Sizes(rw, aw),
           NEW k \in 1..Len(records)
    PROVE  LET At(i) == Versions!RecordAt(records, spread, rw, aw, i)
               stop == Versions!Linked(records, spread, rw, aw).stop
           IN  /\ At(k) \in Nat /\ (k = 1 => At(k) = 0) /\ stop \in Nat
               /\ k < Len(records) => At(k) + rw <= At(k + 1)
               /\ k = Len(records) => At(k) + rw <= stop
<1> DEFINE b == Versions!NamesBefore(records)
           n == Len(records)
           p == b[k - 1]
           q == b[k]
           z == b[n]
           m == Len(records[k])
           stop == Versions!Linked(records, spread, rw, aw).stop
<1>1. n \in Nat /\ k - 1 \in 0..n /\ k \in 0..n /\ n \in 0..n /\ (k + 1) - 1 = k
  BY DEF VersionTables
<1>2. p \in Nat /\ q \in Nat /\ z \in Nat /\ m \in Nat /\ q = p + m /\ (k = 1 => p = 0)
  <2>1. p \in Nat /\ q \in Nat /\ z \in Nat
    BY <1>1, NamesAreBefore
  <2>2. q = p + m
    BY NamesAreBefore
  <2>3. m \in Nat
    BY DEF VersionTables
  <2>4. k = 1 => p = 0
    BY NamesAreBefore
  <2> QED
    BY <2>1, <2>2, <2>3, <2>4
<1>3. Versions!RecordAt(records, spread, rw, aw, k) = (k - 1) * rw + (IF spread THEN 0 ELSE p * aw)
  BY DEF Versions!RecordAt
<1>4. Versions!RecordAt(records, spread, rw, aw, k + 1) = k * rw + (IF spread THEN 0 ELSE q * aw)
  BY <1>1 DEF Versions!RecordAt
<1>5. stop = n * rw + z * aw
  BY DEF Versions!Linked
<1>6. k = n => q = z
  OBVIOUS
<1> HIDE DEF b, n, p, q, z, m, stop
<1> DEFINE Here == Versions!RecordAt(records, spread, rw, aw, k)
           There == Versions!RecordAt(records, spread, rw, aw, k + 1)
<1>7. /\ Here \in Nat /\ (k = 1 => Here = 0) /\ stop \in Nat
      /\ Here + rw <= There
      /\ k = n => Here + rw <= stop
  <2> HIDE DEF Here, There
  <2>1. CASE rw = 5 /\ aw = 2
    BY <1>1, <1>2, <1>3, <1>4, <1>5, <1>6, <2>1 DEF Here, There
  <2>2. CASE rw = 4 /\ aw = 4
    BY <1>1, <1>2, <1>3, <1>4, <1>5, <1>6, <2>2 DEF Here, There
  <2> QED
    BY <2>1, <2>2 DEF Sizes
<1> QED
  BY <1>7 DEF n, stop

(* A product the provers want in this form.                                *)
LEMMA NoneOfIt == ASSUME NEW x \in Nat PROVE (1 - 1) * x = 0
OBVIOUS

(* The names of a record come before the next one's, inside the section.   *)
LEMMA NamesApart ==
    ASSUME NEW records \in VersionTables, NEW spread \in BOOLEAN, NEW rw, NEW aw, Sizes(rw, aw),
           NEW k \in 1..Len(records)
    PROVE  LET Aux(i, j) == Versions!AuxAt(records, spread, rw, aw, i, j)
               m == Len(records[k])
               stop == Versions!Linked(records, spread, rw, aw).stop
           IN  /\ m \in Nat \ {0} /\ Aux(k, 1) \in Nat
               /\ \A j \in Nat \ {0} : Aux(k, j) = Aux(k, 1) + (j - 1) * aw
               /\ k < Len(records) => Aux(k, m + 1) <= Aux(k + 1, 1)
               /\ k = Len(records) => Aux(k, m + 1) <= stop
<1> DEFINE b == Versions!NamesBefore(records)
           n == Len(records)
           p == b[k - 1]
           q == b[k]
           z == b[n]
           m == Len(records[k])
           stop == Versions!Linked(records, spread, rw, aw).stop
<1>1. n \in Nat /\ k - 1 \in 0..n /\ k \in 0..n /\ n \in 0..n /\ (k + 1) - 1 = k
  BY DEF VersionTables
<1>2. p \in Nat /\ q \in Nat /\ z \in Nat /\ q = p + m
  <2>1. p \in Nat /\ q \in Nat /\ z \in Nat
    BY <1>1, NamesAreBefore
  <2>2. q = p + m
    BY NamesAreBefore
  <2> QED
    BY <2>1, <2>2
<1>3. m \in Nat \ {0}
  <2>1. records[k] \in Seq(STRING) /\ records[k] # <<>>
    BY DEF VersionTables
  <2> QED
    BY <2>1
<1>4. \A j \in Nat : Versions!AuxAt(records, spread, rw, aw, k, j) =
         (IF spread THEN n * rw + p * aw ELSE (k - 1) * rw + p * aw + rw) + (j - 1) * aw
  BY DEF Versions!AuxAt, Versions!RecordAt
<1>5. Versions!AuxAt(records, spread, rw, aw, k + 1, 1) =
         (IF spread THEN n * rw + q * aw ELSE k * rw + q * aw + rw) + (1 - 1) * aw
  BY <1>1 DEF Versions!AuxAt, Versions!RecordAt
<1>6. stop = n * rw + z * aw
  BY DEF Versions!Linked
<1>7. k = n => q = z
  OBVIOUS
<1> HIDE DEF b, n, p, q, z, m, stop
<1> DEFINE Aux(j) == Versions!AuxAt(records, spread, rw, aw, k, j)
           Next1 == Versions!AuxAt(records, spread, rw, aw, k + 1, 1)
<1>8. /\ Aux(1) \in Nat
      /\ \A j \in Nat \ {0} : Aux(j) = Aux(1) + (j - 1) * aw
      /\ Aux(m + 1) <= Next1
      /\ k = n => Aux(m + 1) <= stop
  <2> DEFINE base == IF spread THEN n * rw + p * aw ELSE (k - 1) * rw + p * aw + rw
             next == IF spread THEN n * rw + q * aw ELSE k * rw + q * aw + rw
  <2>1. rw \in Nat /\ aw \in Nat
    BY DEF Sizes
  <2>2. /\ base \in Nat /\ base + m * aw <= next /\ next \in Nat
        /\ k = n => base + m * aw <= stop
    <3>1. CASE rw = 5 /\ aw = 2
      BY <1>1, <1>2, <1>3, <1>6, <1>7, <3>1
    <3>2. CASE rw = 4 /\ aw = 4
      BY <1>1, <1>2, <1>3, <1>6, <1>7, <3>2
    <3> QED
      BY <3>1, <3>2 DEF Sizes
  <2>3. \A j \in Nat : Aux(j) = base + (j - 1) * aw
    BY <1>4
  <2>4. Next1 = next + (1 - 1) * aw
    BY <1>5
  <2>5. (1 - 1) * aw = 0
    BY <2>1, NoneOfIt
  <2>6. m \in Nat /\ (m + 1) - 1 = m /\ m + 1 \in Nat
    BY <1>3
  <2> HIDE DEF Aux, Next1, base, next
  <2>7. Aux(1) = base
    <3>1. Aux(1) = base + (1 - 1) * aw
      BY <2>3
    <3>2. Aux(1) = base + 0
      BY <2>5, <3>1
    <3> QED
      BY <2>2, <3>2
  <2>8. Aux(m + 1) = base + m * aw
    <3>1. Aux(m + 1) = base + ((m + 1) - 1) * aw
      BY <2>3, <2>6
    <3> QED
      BY <2>6, <3>1
  <2>9. Next1 = next
    <3>1. Next1 = next + 0
      BY <2>4, <2>5
    <3> QED
      BY <2>2, <3>1
  <2>10. Aux(1) = base /\ Aux(m + 1) = base + m * aw /\ Next1 = next
    BY <2>7, <2>8, <2>9
  <2>11. \A j \in Nat \ {0} : Aux(j) = Aux(1) + (j - 1) * aw
    BY <2>3, <2>10
  <2> QED
    BY <2>2, <2>10, <2>11
<1> QED
  BY <1>3, <1>8 DEF n, stop, m

(* So a later record lies further on,                                      *)
LEMMA RecordsClimb ==
    ASSUME NEW records \in VersionTables, NEW spread \in BOOLEAN, NEW rw, NEW aw, Sizes(rw, aw),
           NEW i \in 1..Len(records), NEW j \in 1..Len(records), i < j
    PROVE  /\ Versions!RecordAt(records, spread, rw, aw, i) \in Nat
           /\ Versions!RecordAt(records, spread, rw, aw, j) \in Nat
           /\ Versions!RecordAt(records, spread, rw, aw, i)
                  < Versions!RecordAt(records, spread, rw, aw, j)
<1> DEFINE n == Len(records)
           At(k) == Versions!RecordAt(records, spread, rw, aw, k)
           g == [x \in 0..(n - 1) |-> At(x + 1)]
<1>1. n \in Nat /\ n - 1 \in Nat /\ \A x \in 0..(n - 1) : x + 1 \in 1..n
  BY DEF VersionTables
<1>2. \A k \in 1..n : At(k) \in Nat /\ (k < n => At(k) + rw <= At(k + 1))
  BY RecordsApart
<1> HIDE DEF At
<1>3. g \in [0..(n - 1) -> Nat]
  BY <1>1, <1>2
<1>4. ASSUME NEW k \in 1..(n - 1)
      PROVE  g[k - 1] + 1 <= g[k]
  <2>1. k \in 1..n /\ k < n /\ k - 1 \in 0..(n - 1) /\ k \in 0..(n - 1) /\ (k - 1) + 1 = k
          /\ k + 1 \in 1..n
    BY <1>1
  <2>2. At(k) + rw <= At(k + 1) /\ At(k) \in Nat /\ At(k + 1) \in Nat
    BY <1>2, <2>1
  <2>3. g[k - 1] = At(k) /\ g[k] = At(k + 1)
    BY <2>1
  <2>4. rw \in Nat /\ rw >= 1
    BY DEF Sizes
  <2> HIDE DEF g
  <2> QED
    BY <2>2, <2>3, <2>4
<1>5. i - 1 \in 0..(n - 1) /\ j - 1 \in 0..(n - 1) /\ i - 1 < j - 1 /\ (i - 1) + 1 = i
        /\ (j - 1) + 1 = j
  BY <1>1
<1>6. g[i - 1] = At(i) /\ g[j - 1] = At(j)
  BY <1>5
<1>7. g[i - 1] + 1 <= g[j - 1]
  <2> HIDE DEF g, n
  <2> QED
    BY <1>1, <1>3, <1>4, <1>5, Climbs
<1>8. At(i) \in Nat /\ At(j) \in Nat /\ At(i) < At(j)
  <2> HIDE DEF g
  <2>1. At(i) \in Nat /\ At(j) \in Nat
    BY <1>2
  <2> QED
    BY <1>6, <1>7, <2>1
<1> QED
  BY <1>8 DEF At

(* and a later record's names after an earlier one's.                      *)
LEMMA NamesClimb ==
    ASSUME NEW records \in VersionTables, NEW spread \in BOOLEAN, NEW rw, NEW aw, Sizes(rw, aw),
           NEW i \in 1..Len(records), NEW j \in 1..Len(records), i < j
    PROVE  Versions!AuxAt(records, spread, rw, aw, i, Len(records[i]) + 1)
               <= Versions!AuxAt(records, spread, rw, aw, j, 1)
<1> DEFINE n == Len(records)
           First(k) == Versions!AuxAt(records, spread, rw, aw, k, 1)
           End(k) == Versions!AuxAt(records, spread, rw, aw, k, Len(records[k]) + 1)
           g == [x \in 0..(n - 1) |-> First(x + 1)]
<1>1. n \in Nat /\ n - 1 \in Nat /\ \A x \in 0..(n - 1) : x + 1 \in 1..n
  BY DEF VersionTables
<1>2. ASSUME NEW k \in 1..n
      PROVE  /\ First(k) \in Nat /\ End(k) \in Nat /\ First(k) <= End(k)
             /\ k < n => End(k) <= First(k + 1)
  <2> DEFINE m == Len(records[k])
  <2>1. /\ m \in Nat \ {0} /\ First(k) \in Nat
        /\ k < n => End(k) <= First(k + 1)
    BY NamesApart
  <2>2. End(k) = First(k) + ((m + 1) - 1) * aw
    <3>1. m + 1 \in Nat \ {0}
      BY <2>1
    <3> QED
      BY <3>1, NamesApart
  <2>3. (m + 1) - 1 = m /\ aw \in Nat
    BY <2>1 DEF Sizes
  <2> HIDE DEF m, First, End
  <2>4. End(k) = First(k) + m * aw
    BY <2>2, <2>3
  <2>5. m * aw \in Nat
    BY <2>1, <2>3
  <2>6. End(k) \in Nat /\ First(k) <= End(k)
    BY <2>1, <2>4, <2>5
  <2> QED
    BY <2>1, <2>6
<1> HIDE DEF First, End
<1>3. g \in [0..(n - 1) -> Nat]
  BY <1>1, <1>2
<1>4. ASSUME NEW k \in 1..(n - 1)
      PROVE  g[k - 1] + 0 <= g[k]
  <2>1. k \in 1..n /\ k < n /\ k - 1 \in 0..(n - 1) /\ k \in 0..(n - 1) /\ (k - 1) + 1 = k
          /\ k + 1 \in 1..n
    BY <1>1
  <2>2. First(k) <= End(k) /\ End(k) <= First(k + 1) /\ First(k) \in Nat /\ End(k) \in Nat
        /\ First(k + 1) \in Nat
    BY <1>2, <2>1
  <2>3. g[k - 1] = First(k) /\ g[k] = First(k + 1)
    BY <2>1
  <2> HIDE DEF g
  <2> QED
    BY <2>2, <2>3
<1>5. i \in 0..(n - 1) /\ j - 1 \in 0..(n - 1) /\ i <= j - 1 /\ (j - 1) + 1 = j /\ i < n
  BY <1>1
<1>6. g[i] = First(i + 1) /\ g[j - 1] = First(j)
  BY <1>5
<1>7. g[i] <= g[j - 1]
  <2>1. g[i] \in Nat
    BY <1>3, <1>5
  <2>2. CASE i = j - 1
    BY <2>1, <2>2
  <2>3. CASE i # j - 1
    <3>1. i < j - 1
      BY <1>5, <2>3
    <3> HIDE DEF g, n
    <3>2. g[i] + 0 <= g[j - 1]
      BY <1>1, <1>3, <1>4, <1>5, <3>1, Climbs
    <3> QED
      BY <2>1, <3>2
  <2> QED
    BY <2>2, <2>3
<1>8. End(i) <= First(j)
  <2> HIDE DEF g
  <2>1. End(i) <= First(i + 1) /\ End(i) \in Nat /\ First(j) \in Nat
    BY <1>2, <1>5
  <2>2. First(i + 1) \in Nat
    <3>1. i + 1 \in 1..n
      BY <1>1, <1>5
    <3> QED
      BY <1>2, <3>1
  <2> QED
    BY <1>6, <1>7, <2>1, <2>2
<1> QED
  BY <1>8 DEF First, End

(* What a linker's table has at each record and at each name.              *)
HeadsAt(heads, records, spread, rw, aw) ==
    LET At(k) == Versions!RecordAt(records, spread, rw, aw, k)
        n == Len(records)
    IN  /\ DOMAIN heads = {At(k) : k \in 1..n}
        /\ \A k \in 1..n : heads[At(k)] =
             [count |-> Len(records[k]),
              aux |-> Versions!AuxAt(records, spread, rw, aw, k, 1) - At(k),
              next |-> IF k = n THEN 0 ELSE At(k + 1) - At(k)]
LEMMA HeadsAre ==
    ASSUME NEW records \in VersionTables, NEW spread \in BOOLEAN, NEW rw, NEW aw, Sizes(rw, aw)
    PROVE  HeadsAt(Versions!Linked(records, spread, rw, aw).heads, records, spread, rw, aw)
<1> DEFINE heads == Versions!Linked(records, spread, rw, aw).heads
           n == Len(records)
           At(k) == Versions!RecordAt(records, spread, rw, aw, k)
           Aux(k) == Versions!AuxAt(records, spread, rw, aw, k, 1)
           Which(at) == CHOOSE i \in 1..n : At(i) = at
           RecordHead(k, at) == [count |-> Len(records[k]), aux |-> Aux(k) - at,
                           next |-> IF k = n THEN 0 ELSE At(k + 1) - at]
<1>1. heads = [at \in {At(k) : k \in 1..n} |-> RecordHead(Which(at), at)]
  BY DEF Versions!Linked
<1>2. ASSUME NEW k \in 1..n
      PROVE  Which(At(k)) = k
  <2>1. \A i \in 1..n : At(i) = At(k) => i = k
    <3> SUFFICES ASSUME NEW i \in 1..n, At(i) = At(k), i # k PROVE FALSE
      OBVIOUS
    <3>1. i < k \/ k < i
      OBVIOUS
    <3>2. At(i) \in Nat /\ At(k) \in Nat /\ (At(i) < At(k) \/ At(k) < At(i))
      BY <3>1, RecordsClimb
    <3> HIDE DEF At
    <3> QED
      BY <3>2
  <2> HIDE DEF At
  <2> QED
    BY <2>1
<1> HIDE DEF Which, heads
<1>3. \A k \in 1..n : heads[At(k)] = RecordHead(k, At(k))
  <2> HIDE DEF RecordHead, At, n
  <2> QED
    BY <1>1, <1>2
<1>4. DOMAIN heads = {At(k) : k \in 1..n}
  BY <1>1
<1> QED
  BY <1>3, <1>4 DEF HeadsAt, heads

(* What a linker wrote at the place of each name.                          *)
LEMMA NamesAre ==
    ASSUME NEW records \in VersionTables, NEW spread \in BOOLEAN, NEW rw, NEW aw, Sizes(rw, aw),
           NEW names, names = Versions!Linked(records, spread, rw, aw).names
    PROVE  LET Aux(k, j) == Versions!AuxAt(records, spread, rw, aw, k, j)
               n == Len(records)
           IN  /\ \A at \in DOMAIN names : \E k \in 1..n : \E j \in 1..Len(records[k]) : at = Aux(k, j)
               /\ \A k \in 1..n : \A j \in 1..Len(records[k]) :
                    /\ Aux(k, j) \in DOMAIN names
                    /\ names[Aux(k, j)] = [version |-> records[k][j],
                                           next |-> IF j = Len(records[k]) THEN 0 ELSE aw]
<1> DEFINE n == Len(records)
           Aux(k, j) == Versions!AuxAt(records, spread, rw, aw, k, j)
           Record(at) == CHOOSE i \in 1..n : \E j \in DOMAIN records[i] : Aux(i, j) = at
           Item(k, at) == CHOOSE i \in DOMAIN records[k] : Aux(k, i) = at
           Name(k, j) == [version |-> records[k][j], next |-> IF j = Len(records[k]) THEN 0 ELSE aw]
           Places == UNION {{Aux(k, j) : j \in DOMAIN records[k]} : k \in 1..n}
<1>1. names = [at \in Places |-> Name(Record(at), Item(Record(at), at))]
  BY DEF Versions!Linked
<1>2. \A k \in 1..n : DOMAIN records[k] = 1..Len(records[k]) /\ Len(records[k]) \in Nat
  BY DEF VersionTables
<1>3. ASSUME NEW k \in 1..n, NEW j \in 1..Len(records[k])
      PROVE  /\ Aux(k, j) \in Nat /\ Aux(k, 1) <= Aux(k, j)
             /\ Aux(k, j) < Aux(k, Len(records[k]) + 1) /\ Aux(k, Len(records[k]) + 1) \in Nat
             /\ \A i \in 1..Len(records[k]) : Aux(k, i) = Aux(k, j) => i = j
  <2> DEFINE m == Len(records[k])
             first == Aux(k, 1)
  <2>1. m \in Nat /\ first \in Nat /\ \A i \in Nat \ {0} : Aux(k, i) = first + (i - 1) * aw
    BY NamesApart
  <2>2. aw = 2 \/ aw = 4
    BY DEF Sizes
  <2>3. j \in Nat \ {0} /\ m + 1 \in Nat \ {0} /\ j <= m
    BY <2>1
  <2> HIDE DEF m, Aux, first
  <2>4. Aux(k, j) = first + (j - 1) * aw /\ Aux(k, m + 1) = first + ((m + 1) - 1) * aw
    BY <2>1, <2>3
  <2>5. Aux(k, j) \in Nat /\ first <= Aux(k, j) /\ Aux(k, j) < Aux(k, m + 1) /\ Aux(k, m + 1) \in Nat
    <3>1. (m + 1) - 1 = m /\ j - 1 \in Nat /\ j - 1 < m
      BY <2>1, <2>3
    <3>2. Aux(k, m + 1) = first + m * aw
      BY <2>4, <3>1
    <3> DEFINE l == j - 1
    <3>3. l \in Nat /\ l < m /\ Aux(k, j) = first + l * aw
      BY <2>4, <3>1
    <3> HIDE DEF l
    <3>4. CASE aw = 2
      <4>1. Aux(k, j) = first + l * 2 /\ Aux(k, m + 1) = first + m * 2
        BY <3>2, <3>3, <3>4
      <4> DEFINE x == l * 2
                 y == m * 2
      <4>2. x \in Nat /\ y \in Nat /\ x < y
        BY <2>1, <3>3
      <4>3. Aux(k, j) = first + x /\ Aux(k, m + 1) = first + y
        BY <4>1
      <4> HIDE DEF x, y
      <4> QED
        BY <2>1, <4>2, <4>3
    <3>5. CASE aw = 4
      <4>1. Aux(k, j) = first + l * 4 /\ Aux(k, m + 1) = first + m * 4
        BY <3>2, <3>3, <3>5
      <4> DEFINE x == l * 4
                 y == m * 4
      <4>2. x \in Nat /\ y \in Nat /\ x < y
        BY <2>1, <3>3
      <4>3. Aux(k, j) = first + x /\ Aux(k, m + 1) = first + y
        BY <4>1
      <4> HIDE DEF x, y
      <4> QED
        BY <2>1, <4>2, <4>3
    <3> QED
      BY <2>2, <3>4, <3>5
  <2>6. ASSUME NEW i \in 1..m, Aux(k, i) = Aux(k, j)
        PROVE  i = j
    <3>1. i \in Nat \ {0}
      BY <2>1
    <3>2. first + (i - 1) * aw = first + (j - 1) * aw
      BY <2>1, <2>4, <2>6, <3>1
    <3>3. CASE aw = 2
      BY <2>1, <2>3, <3>1, <3>2, <3>3
    <3>4. CASE aw = 4
      BY <2>1, <2>3, <3>1, <3>2, <3>4
    <3> QED
      BY <2>2, <3>3, <3>4
  <2> QED
    BY <2>5, <2>6 DEF m, first
<1>4. ASSUME NEW k \in 1..n, NEW j \in 1..Len(records[k]),
             NEW i \in 1..n, NEW l \in 1..Len(records[i]), Aux(i, l) = Aux(k, j)
      PROVE  i = k
  <2>1. /\ Aux(k, j) \in Nat /\ Aux(k, 1) <= Aux(k, j) /\ Aux(k, j) < Aux(k, Len(records[k]) + 1)
        /\ Aux(i, l) \in Nat /\ Aux(i, 1) <= Aux(i, l) /\ Aux(i, l) < Aux(i, Len(records[i]) + 1)
        /\ Aux(k, Len(records[k]) + 1) \in Nat /\ Aux(i, Len(records[i]) + 1) \in Nat
    BY <1>3
  <2>2. Aux(i, 1) \in Nat /\ Aux(k, 1) \in Nat
    BY NamesApart
  <2>3. i < k => Aux(i, Len(records[i]) + 1) <= Aux(k, 1)
    BY NamesClimb
  <2>4. k < i => Aux(k, Len(records[k]) + 1) <= Aux(i, 1)
    BY NamesClimb
  <2> HIDE DEF Aux
  <2> QED
    BY <1>4, <2>1, <2>2, <2>3, <2>4, SMTT(30)
<1>5. ASSUME NEW k \in 1..n, NEW j \in 1..Len(records[k])
      PROVE  Aux(k, j) \in DOMAIN names /\ names[Aux(k, j)] = Name(k, j)
  <2> DEFINE at == Aux(k, j)
  <2>1. Record(at) = k
    <3>1. k \in 1..n /\ \E l \in DOMAIN records[k] : Aux(k, l) = at
      BY <1>2
    <3>2. \A i \in 1..n : (\E l \in DOMAIN records[i] : Aux(i, l) = at) => i = k
      BY <1>2, <1>4
    <3> HIDE DEF Aux, at
    <3> QED
      BY <3>1, <3>2
  <2>2. Item(k, at) = j
    <3>1. j \in DOMAIN records[k] /\ \A i \in DOMAIN records[k] : Aux(k, i) = at => i = j
      BY <1>2, <1>3
    <3> HIDE DEF Aux
    <3> QED
      BY <3>1
  <2>3. at \in Places
    BY <1>2, SMTT(30)
  <2> HIDE DEF Record, Item, Places, Name, at
  <2>4. names[at] = Name(k, j) /\ at \in DOMAIN names
    BY <1>1, <2>1, <2>2, <2>3
  <2> QED
    BY <2>4 DEF at
<1>6. \A at \in DOMAIN names : \E k \in 1..n : \E j \in 1..Len(records[k]) : at = Aux(k, j)
  <2>1. DOMAIN names = Places
    BY <1>1
  <2> HIDE DEF Aux, n
  <2> QED
    BY <1>2, <2>1
<1> QED
  BY <1>5, <1>6

(* A turn of the reading of one record's names.                            *)
NameReadings == [at : Nat, got : Seq(STRING), done : BOOLEAN]
NameStep(table, aw, r) ==
    IF r.done \/ r.at + aw > table.stop \/ r.at \notin DOMAIN table.names
    THEN [r EXCEPT !.done = TRUE]
    ELSE [at |-> r.at + table.names[r.at].next, got |-> Append(r.got, table.names[r.at].version),
          done |-> table.names[r.at].next = 0]
NameBegin(from) == [at |-> from, got |-> <<>>, done |-> FALSE]
NameWalk(table, from, limit, aw, f) ==
    /\ f \in [0..limit -> NameReadings]
    /\ f[0] = NameBegin(from)
    /\ \A s \in 1..limit : f[s] = NameStep(table, aw, f[s - 1])

(* The names of a table are what a linker wrote, and so is its end.        *)
NamesAsLinked(table, records, spread, rw, aw) ==
    /\ table.names = Versions!Linked(records, spread, rw, aw).names
    /\ table.stop = Versions!Linked(records, spread, rw, aw).stop

(* A turn leaves a reading of names one.                                   *)
LEMMA NameTurn ==
    ASSUME NEW records \in VersionTables, NEW spread \in BOOLEAN, NEW rw, NEW aw, Sizes(rw, aw),
           NEW table, NamesAsLinked(table, records, spread, rw, aw), NEW r \in NameReadings
    PROVE  NameStep(table, aw, r) \in NameReadings
<1> DEFINE one == table.names[r.at]
           stopped == [r EXCEPT !.done = TRUE]
           longer == [at |-> r.at + one.next, got |-> Append(r.got, one.version), done |-> one.next = 0]
<1>1. r.at \in Nat /\ r.got \in Seq(STRING)
  BY DEF NameReadings
<1>2. stopped \in NameReadings
  BY DEF NameReadings
<1>3. ASSUME r.at \in DOMAIN table.names
      PROVE  longer \in NameReadings
  <2>1. PICK k \in 1..Len(records) : \E j \in 1..Len(records[k]) :
            r.at = Versions!AuxAt(records, spread, rw, aw, k, j)
    BY <1>3, NamesAre DEF NamesAsLinked
  <2>2. PICK j \in 1..Len(records[k]) : r.at = Versions!AuxAt(records, spread, rw, aw, k, j)
    BY <2>1
  <2>3. one = [version |-> records[k][j], next |-> IF j = Len(records[k]) THEN 0 ELSE aw]
    BY <2>2, NamesAre DEF NamesAsLinked
  <2>4. records[k][j] \in STRING
    BY DEF VersionTables
  <2>5. one.next \in Nat /\ one.version \in STRING
    BY <2>3, <2>4 DEF Sizes
  <2> HIDE DEF one
  <2>6. r.at + one.next \in Nat /\ Append(r.got, one.version) \in Seq(STRING)
    BY <1>1, <2>5
  <2> QED
    BY <2>6 DEF NameReadings
<1>4. \/ NameStep(table, aw, r) = stopped
      \/ r.at \in DOMAIN table.names /\ NameStep(table, aw, r) = longer
  BY DEF NameStep
<1> QED
  BY <1>2, <1>3, <1>4

(* The reading of one record's names is a run of such turns.               *)
LEMMA NamesWalked ==
    ASSUME NEW records \in VersionTables, NEW spread \in BOOLEAN, NEW rw, NEW aw, Sizes(rw, aw),
           NEW table, NamesAsLinked(table, records, spread, rw, aw),
           NEW from \in Nat, NEW limit \in Nat
    PROVE  \E f : /\ NameWalk(table, from, limit, aw, f)
                  /\ Versions!NamesOf(table, from, limit, aw) = f[limit].got
<1> DEFINE n == limit
           begin == [at |-> from, got |-> <<>>, done |-> FALSE]
           Turns(f) == [s \in 0..n |-> IF s = 0 THEN begin ELSE NameStep(table, aw, f[s - 1])]
           step == [s \in 1..n |-> [r \in NameReadings |-> NameStep(table, aw, r)]]
           f == CHOOSE f : f = Turns(f)
<1>1. n \in Nat /\ \A s \in 1..n : s - 1 \in 0..n /\ s \in 0..n /\ s # 0
  OBVIOUS
<1>2. step \in [1..n -> [NameReadings -> NameReadings]]
  BY NameTurn
<1>3. begin \in NameReadings
  BY DEF NameReadings
<1>4. \E g : g = Turns(g)
  <2> HIDE DEF begin
  <2>1. PICK g : WalkOf(n, NameReadings, begin, step, g)
    <3> HIDE DEF step, n
    <3> QED
      BY <1>1, <1>2, <1>3, Walks
  <2>2. ASSUME NEW s \in 1..n
        PROVE  g[s] = NameStep(table, aw, g[s - 1])
    <3> HIDE DEF n, step
    <3>1. g[s - 1] \in NameReadings /\ g[s] = step[s][g[s - 1]]
      BY <1>1, <2>1 DEF WalkOf
    <3> QED
      BY <3>1 DEF step
  <2> HIDE DEF n
  <2>3. \A s \in 0..n : s = 0 \/ s \in 1..n
    BY <1>1
  <2>4. g = Turns(g)
    BY <2>1, <2>2, <2>3 DEF WalkOf
  <2> QED
    BY <2>4
<1>5. f = Turns(f)
  <2> HIDE DEF n, Turns
  <2> QED
    BY <1>4
<1>6. Versions!NamesOf(table, from, limit, aw) = f[n].got
  BY DEF Versions!NamesOf, NameStep
<1> HIDE DEF f, begin
<1>7. f[0] = begin /\ \A s \in 1..n : f[s] = NameStep(table, aw, f[s - 1])
  BY <1>1, <1>5
<1>8. DOMAIN f = 0..n /\ f = [s \in 0..n |-> f[s]]
  BY <1>5
<1>9. WalkOf(n, NameReadings, begin, step, f)
  <2>1. \A s \in 1..n : f[s - 1] \in NameReadings => f[s] = step[s][f[s - 1]]
    BY <1>7
  <2> HIDE DEF n, step
  <2> QED
    BY <1>1, <1>2, <1>3, <1>7, <1>8, <2>1, Walked
<1>10. NameWalk(table, from, limit, aw, f)
  BY <1>7, <1>9 DEF WalkOf, NameWalk, NameBegin, begin
<1> QED
  BY <1>6, <1>10

(* What has been read of a record's names after s turns.                   *)
NamesUpTo(s, names, first, aw, r) ==
    /\ Begins(r.got, names) /\ Len(r.got) = s
    /\ s < Len(names) => ~r.done /\ r.at = first + s * aw

(* Where a record's names begin and end.                                   *)
LEMMA NamesEnd ==
    ASSUME NEW records \in VersionTables, NEW spread \in BOOLEAN, NEW rw, NEW aw, Sizes(rw, aw),
           NEW k \in 1..Len(records)
    PROVE  LET First == Versions!AuxAt(records, spread, rw, aw, k, 1)
               End == Versions!AuxAt(records, spread, rw, aw, k, Len(records[k]) + 1)
           IN  First \in Nat /\ End \in Nat /\ First <= End
<1> DEFINE m == Len(records[k])
           Aux(j) == Versions!AuxAt(records, spread, rw, aw, k, j)
<1>1. m \in Nat /\ m + 1 \in Nat \ {0} /\ (m + 1) - 1 = m
  BY DEF VersionTables
<1>2. Aux(1) \in Nat /\ \A j \in Nat \ {0} : Aux(j) = Aux(1) + (j - 1) * aw
  BY NamesApart
<1>3. m * aw \in Nat
  BY <1>1 DEF Sizes
<1> HIDE DEF Aux, m
<1>4. Aux(m + 1) = Aux(1) + m * aw
  BY <1>1, <1>2
<1> DEFINE span == m * aw
<1> HIDE DEF span
<1>5. Aux(1) \in Nat /\ Aux(m + 1) \in Nat /\ Aux(1) <= Aux(m + 1)
  BY <1>2, <1>3, <1>4 DEF span
<1> QED
  BY <1>5 DEF Aux, m

(* A turn reads one more name of the record.                               *)
LEMMA OneName ==
    ASSUME NEW records \in VersionTables, NEW spread \in BOOLEAN, NEW rw, NEW aw, Sizes(rw, aw),
           NEW table, NamesAsLinked(table, records, spread, rw, aw),
           NEW k \in 1..Len(records), NEW s \in 1..Len(records[k]), NEW r \in NameReadings,
           NamesUpTo(s - 1, records[k], Versions!AuxAt(records, spread, rw, aw, k, 1), aw, r)
    PROVE  NamesUpTo(s, records[k], Versions!AuxAt(records, spread, rw, aw, k, 1), aw,
                     NameStep(table, aw, r))
<1> DEFINE names == records[k]
           m == Len(names)
           Aux(j) == Versions!AuxAt(records, spread, rw, aw, k, j)
           first == Aux(1)
           stop == table.stop
           one == table.names[r.at]
<1>1. names \in Seq(STRING) /\ m \in Nat /\ s \in Nat \ {0} /\ s <= m /\ s - 1 \in Nat /\ s - 1 < m
      /\ m + 1 \in Nat \ {0} /\ (m + 1) - 1 = m
  BY DEF VersionTables
<1>2. ~r.done /\ r.at = first + (s - 1) * aw /\ Begins(r.got, names) /\ Len(r.got) = s - 1
  BY <1>1 DEF NamesUpTo
<1>3. first \in Nat /\ r.at = Aux(s) /\ Aux(m + 1) = first + m * aw
  <2>1. Aux(1) \in Nat /\ \A j \in Nat \ {0} : Aux(j) = Aux(1) + (j - 1) * aw
    BY NamesApart
  <2> HIDE DEF Aux, m
  <2> QED
    BY <1>1, <1>2, <2>1
<1>4. Aux(m + 1) <= stop /\ stop \in Nat
  <2>1. stop = Versions!Linked(records, spread, rw, aw).stop
    BY DEF NamesAsLinked
  <2>2. stop \in Nat
    <3>1. Versions!Linked(records, spread, rw, aw).stop \in Nat
      BY RecordsApart
    <3> QED
      BY <2>1, <3>1
  <2>3. CASE k = Len(records)
    <3>1. Aux(m + 1) <= Versions!Linked(records, spread, rw, aw).stop
      BY <2>3, NamesApart
    <3> QED
      BY <2>1, <2>2, <3>1
  <2>4. CASE k # Len(records)
    <3> DEFINE l == Len(records)
               End(i) == Versions!AuxAt(records, spread, rw, aw, i, Len(records[i]) + 1)
               First(i) == Versions!AuxAt(records, spread, rw, aw, i, 1)
    <3>1. l \in 1..Len(records) /\ k < l /\ l = Len(records)
      BY <2>4 DEF VersionTables
    <3> HIDE DEF l
    <3>2. End(k) <= First(l)
      BY <3>1, NamesClimb
    <3>3. End(l) <= Versions!Linked(records, spread, rw, aw).stop
      BY <3>1, NamesApart
    <3>4. First(l) \in Nat /\ End(l) \in Nat /\ First(l) <= End(l)
      BY <3>1, NamesEnd
    <3>5. End(k) = Aux(m + 1)
      OBVIOUS
    <3>6. m * aw \in Nat
      BY <1>1 DEF Sizes
    <3> HIDE DEF End, First, Aux, l, stop, m, first
    <3>7. End(l) <= stop
      BY <2>1, <3>3
    <3>8. End(k) \in Nat
      BY <1>3, <3>5, <3>6
    <3> QED
      BY <2>2, <3>2, <3>4, <3>5, <3>7, <3>8
  <2> QED
    BY <2>2, <2>3, <2>4
<1>5. r.at \in DOMAIN table.names /\ one = [version |-> names[s], next |-> IF s = m THEN 0 ELSE aw]
  <2>1. /\ Aux(s) \in DOMAIN table.names
        /\ table.names[Aux(s)] = [version |-> names[s], next |-> IF s = m THEN 0 ELSE aw]
    BY NamesAre DEF NamesAsLinked
  <2> HIDE DEF Aux
  <2> QED
    BY <1>3, <2>1
<1> HIDE DEF Aux, m, stop, first
<1>6. r.at + aw <= stop
  <2> DEFINE l == s - 1
  <2>1. l \in Nat /\ l < m /\ r.at = first + l * aw
    BY <1>1, <1>2
  <2> HIDE DEF l
  <2>2. CASE aw = 2
    <3>1. r.at = first + l * 2 /\ Aux(m + 1) = first + m * 2
      BY <1>3, <2>1, <2>2
    <3>2. l * 2 \in Nat /\ m * 2 \in Nat /\ l * 2 + 2 <= m * 2
      BY <1>1, <2>1
    <3> QED
      BY <1>3, <1>4, <2>2, <3>1, <3>2
  <2>3. CASE aw = 4
    <3>1. r.at = first + l * 4 /\ Aux(m + 1) = first + m * 4
      BY <1>3, <2>1, <2>3
    <3>2. l * 4 \in Nat /\ m * 4 \in Nat /\ l * 4 + 4 <= m * 4
      BY <1>1, <2>1
    <3> QED
      BY <1>3, <1>4, <2>3, <3>1, <3>2
  <2> QED
    BY <2>2, <2>3 DEF Sizes
<1>7. NameStep(table, aw, r) = [at |-> r.at + one.next, got |-> Append(r.got, one.version),
                                done |-> one.next = 0]
  <2>1. ~(r.done \/ r.at + aw > table.stop \/ r.at \notin DOMAIN table.names)
    <3>1. r.at \in Nat /\ aw \in Nat
      BY DEF NameReadings, Sizes
    <3> QED
      BY <1>2, <1>4, <1>5, <1>6, <3>1 DEF stop
  <2> HIDE DEF one
  <2> QED
    BY <2>1 DEF NameStep, one
<1>8. one.version = names[s] /\ one.next = IF s = m THEN 0 ELSE aw
  BY <1>5
<1> DEFINE next == NameStep(table, aw, r)
<1>9. next.at = r.at + one.next /\ next.got = Append(r.got, names[s]) /\ next.done = (one.next = 0)
  BY <1>7, <1>8
<1> HIDE DEF next, one
<1>10. Begins(next.got, names) /\ Len(next.got) = s
  <2>1. r.got \in Seq(STRING)
    BY DEF NameReadings
  <2> HIDE DEF names
  <2> QED
    BY <1>1, <1>2, <1>9, <2>1, Longer DEF m
<1>11. ASSUME s < m
       PROVE  ~next.done /\ next.at = first + s * aw
  <2>1. one.next = aw /\ aw # 0
    BY <1>1, <1>8, <1>11 DEF Sizes
  <2>2. first + (s - 1) * aw + aw = first + s * aw
    <3>1. CASE aw = 2
      BY <1>1, <1>3, <3>1
    <3>2. CASE aw = 4
      BY <1>1, <1>3, <3>2
    <3> QED
      BY <3>1, <3>2 DEF Sizes
  <2> QED
    BY <1>2, <1>9, <2>1, <2>2
<1> QED
  BY <1>10, <1>11 DEF NamesUpTo, next, first, Aux, m

(* A record's names are read whole when as many are asked for as there are. *)
LEMMA NamesReadWhole ==
    ASSUME NEW records \in VersionTables, NEW spread \in BOOLEAN, NEW rw, NEW aw, Sizes(rw, aw),
           NEW table, NamesAsLinked(table, records, spread, rw, aw), NEW k \in 1..Len(records)
    PROVE  Versions!NamesOf(table, Versions!AuxAt(records, spread, rw, aw, k, 1),
                            Len(records[k]), aw) = records[k]
<1> DEFINE names == records[k]
           m == Len(names)
           first == Versions!AuxAt(records, spread, rw, aw, k, 1)
<1>1. names \in Seq(STRING) /\ m \in Nat
  BY DEF VersionTables
<1>2. first \in Nat
  BY NamesApart
<1>3. PICK f : NameWalk(table, first, m, aw, f) /\ Versions!NamesOf(table, first, m, aw) = f[m].got
  <2> HIDE DEF first, m
  <2> QED
    BY <1>1, <1>2, NamesWalked
<1> DEFINE Good == {s \in 0..m : NamesUpTo(s, names, first, aw, f[s])}
<1>4. 0 \in Good
  <2>1. f[0] = [at |-> first, got |-> <<>>, done |-> FALSE]
    BY <1>3 DEF NameWalk, NameBegin
  <2>2. f[0].at = first + 0 * aw
    <3>1. 0 * aw = 0
      BY DEF Sizes
    <3> HIDE DEF first
    <3> QED
      BY <1>2, <2>1, <3>1
  <2>3. Begins(f[0].got, names) /\ Len(f[0].got) = 0 /\ ~f[0].done
    <3>1. f[0].got = <<>> /\ f[0].done = FALSE
      BY <2>1
    <3> HIDE DEF names
    <3> QED
      BY <1>1, <3>1 DEF Begins, m
  <2> QED
    BY <1>1, <2>2, <2>3 DEF NamesUpTo
<1>5. ASSUME NEW s \in 1..m, s - 1 \in Good
      PROVE  s \in Good
  <2>1. f[s - 1] \in NameReadings /\ f[s] = NameStep(table, aw, f[s - 1])
    <3>1. s - 1 \in 0..m
      BY <1>1
    <3> HIDE DEF first, m
    <3> QED
      BY <1>3, <3>1 DEF NameWalk
  <2>2. NamesUpTo(s - 1, names, first, aw, f[s - 1])
    BY <1>5
  <2>3. NamesUpTo(s, names, first, aw, f[s])
    BY <2>1, <2>2, OneName
  <2> QED
    BY <1>1, <2>3
<1>6. m \in Good
  <2> HIDE DEF Good, m
  <2>1. \A s \in 0..m : s \in Good
    BY <1>1, <1>4, <1>5, Upward
  <2> QED
    BY <1>1, <2>1
<1>7. f[m].got \in Seq(STRING)
  <2> HIDE DEF m, first
  <2> QED
    BY <1>1, <1>3 DEF NameWalk, NameReadings
<1>8. Begins(f[m].got, names) /\ Len(f[m].got) = m
  BY <1>6 DEF NamesUpTo
<1>9. f[m].got = names
  <2>1. \A s \in 1..m : f[m].got[s] = names[s]
    BY <1>8 DEF Begins
  <2> HIDE DEF names
  <2> QED
    BY <1>1, <1>7, <1>8, AllOfIt DEF m
<1> QED
  BY <1>3, <1>9

(* A turn of the reading of the records.                                   *)
RecordReadings == [at : Nat, got : Seq(Seq(STRING)), done : BOOLEAN]
RecordStep(table, rw, aw, least, r) ==
    IF r.done \/ r.at + rw > table.stop \/ r.at \notin DOMAIN table.heads
    THEN [r EXCEPT !.done = TRUE]
    ELSE [at |-> r.at + table.heads[r.at].next,
          got |-> Append(r.got, Versions!NamesOf(table, r.at + table.heads[r.at].aux,
                                     Versions!Max({table.heads[r.at].count, least}), aw)),
          done |-> table.heads[r.at].next = 0]
RecordBegin == [at |-> 0, got |-> <<>>, done |-> FALSE]
RecordWalk(table, rw, aw, least, f) ==
    /\ f \in [0..(table.stop + 1) -> RecordReadings]
    /\ f[0] = RecordBegin
    /\ \A s \in 1..(table.stop + 1) : f[s] = RecordStep(table, rw, aw, least, f[s - 1])

(* A table as a linker wrote it but for the distances between its records. *)
BarLinks(table, records, spread, rw, aw) ==
    LET heads == Versions!Linked(records, spread, rw, aw).heads
    IN  /\ NamesAsLinked(table, records, spread, rw, aw)
        /\ DOMAIN table.heads = DOMAIN heads
        /\ \A at \in DOMAIN heads : /\ table.heads[at].count = heads[at].count
                                    /\ table.heads[at].aux = heads[at].aux
                                    /\ table.heads[at].next \in Nat

(* The greater of two.                                                     *)
LEMMA GreaterOf ==
    ASSUME NEW m \in Nat, NEW l \in Nat, l <= m
    PROVE  Versions!Max({m, l}) = m
<1>1. m \in {m, l} /\ \A y \in {m, l} : m >= y
  OBVIOUS
<1>2. \A x \in {m, l} : (\A y \in {m, l} : x >= y) => x = m
  OBVIOUS
<1> QED
  BY <1>1, <1>2 DEF Versions!Max

(* A turn reads the record it stands at, names and all, or ends the walk.  *)
LEMMA RecordTurn ==
    ASSUME NEW records \in VersionTables, NEW spread \in BOOLEAN, NEW rw, NEW aw, Sizes(rw, aw),
           NEW table, BarLinks(table, records, spread, rw, aw), NEW least \in {0, 1},
           NEW r \in RecordReadings, NEW q, q = RecordStep(table, rw, aw, least, r)
    PROVE  /\ q \in RecordReadings
           /\ \/ q = [r EXCEPT !.done = TRUE]
                 /\ (r.done \/ r.at + rw > table.stop \/ r.at \notin DOMAIN table.heads)
              \/ /\ ~r.done
                 /\ \E k \in 1..Len(records) :
                      LET here == Versions!RecordAt(records, spread, rw, aw, k)
                      IN  /\ r.at = here
                          /\ q.got = Append(r.got, records[k])
                          /\ q.at = here + table.heads[here].next
                          /\ table.heads[here].next \in Nat
                          /\ q.done = (table.heads[here].next = 0)
<1> DEFINE linked == Versions!Linked(records, spread, rw, aw)
           At(k) == Versions!RecordAt(records, spread, rw, aw, k)
           First(k) == Versions!AuxAt(records, spread, rw, aw, k, 1)
           refused == r.done \/ r.at + rw > table.stop \/ r.at \notin DOMAIN table.heads
           one == table.heads[r.at]
           names == Versions!NamesOf(table, r.at + one.aux, Versions!Max({one.count, least}), aw)
<1>1. r.at \in Nat /\ r.got \in Seq(Seq(STRING))
  BY DEF RecordReadings
<1>2. CASE refused
  <2>1. q = [r EXCEPT !.done = TRUE]
    BY <1>2 DEF RecordStep
  <2>2. q \in RecordReadings
    BY <2>1 DEF RecordReadings
  <2> QED
    BY <1>2, <2>1, <2>2
<1>3. CASE ~refused
  <2>1. ~r.done /\ r.at \in DOMAIN table.heads
    BY <1>3
  <2>2. q = [at |-> r.at + one.next, got |-> Append(r.got, names), done |-> one.next = 0]
    <3>1. ~(r.done \/ r.at + rw > table.stop \/ r.at \notin DOMAIN table.heads)
      BY <1>3
    <3> HIDE DEF refused
    <3> QED
      BY <3>1 DEF RecordStep
  <2>3. r.at \in DOMAIN linked.heads
    BY <2>1 DEF BarLinks
  <2>4. /\ DOMAIN linked.heads = {At(k) : k \in 1..Len(records)}
        /\ \A k \in 1..Len(records) : linked.heads[At(k)] =
             [count |-> Len(records[k]), aux |-> First(k) - At(k),
              next |-> IF k = Len(records) THEN 0 ELSE At(k + 1) - At(k)]
    <3>1. HeadsAt(linked.heads, records, spread, rw, aw)
      BY HeadsAre
    <3> HIDE DEF linked
    <3> QED
      BY <3>1 DEF HeadsAt
  <2> HIDE DEF linked, At, First, names, one
  <2>5. PICK k \in 1..Len(records) : r.at = At(k)
    BY <2>3, <2>4
  <2>6. linked.heads[r.at] = [count |-> Len(records[k]), aux |-> First(k) - At(k),
                              next |-> IF k = Len(records) THEN 0 ELSE At(k + 1) - At(k)]
    BY <2>4, <2>5
  <2>7. linked.heads[r.at].count = Len(records[k]) /\ linked.heads[r.at].aux = First(k) - At(k)
    BY <2>6
  <2>8. one.count = Len(records[k]) /\ one.aux = First(k) - At(k) /\ one.next \in Nat
    BY <2>3, <2>7 DEF BarLinks, linked, one
  <2>9. r.at + one.aux = First(k)
    <3>1. First(k) \in Nat
      BY NamesApart DEF First
    <3> QED
      BY <1>1, <2>5, <2>8, <3>1
  <2>10. Versions!Max({one.count, least}) = Len(records[k])
    <3>1. Len(records[k]) \in Nat /\ least \in Nat /\ least <= Len(records[k])
      <4>1. Len(records[k]) \in Nat \ {0}
        BY NamesApart
      <4> QED
        BY <4>1
    <3> QED
      BY <2>8, <3>1, GreaterOf
  <2>11. names = records[k]
    <3>1. names = Versions!NamesOf(table, First(k), Len(records[k]), aw)
      BY <2>9, <2>10 DEF names
    <3>2. NamesAsLinked(table, records, spread, rw, aw)
      BY DEF BarLinks
    <3> QED
      BY <3>1, <3>2, NamesReadWhole DEF First
  <2>12. records[k] \in Seq(STRING)
    BY DEF VersionTables
  <2>13. q.at = r.at + one.next /\ q.got = Append(r.got, records[k]) /\ q.done = (one.next = 0)
    BY <2>2, <2>11
  <2>14. q \in RecordReadings
    <3>1. r.at + one.next \in Nat /\ Append(r.got, records[k]) \in Seq(Seq(STRING))
      BY <1>1, <2>8, <2>12
    <3>2. q = [at |-> r.at + one.next, got |-> Append(r.got, records[k]), done |-> one.next = 0]
      BY <2>2, <2>11
    <3> QED
      BY <3>1, <3>2 DEF RecordReadings
  <2>15. /\ r.at = At(k) /\ q.got = Append(r.got, records[k])
         /\ q.at = At(k) + table.heads[At(k)].next
         /\ table.heads[At(k)].next \in Nat
         /\ q.done = (table.heads[At(k)].next = 0)
    BY <2>5, <2>8, <2>13 DEF one
  <2> HIDE DEF refused
  <2> QED
    BY <2>1, <2>14, <2>15 DEF At
<1> QED
  BY <1>2, <1>3

(* The reading of the records is a run of such turns.                      *)
LEMMA RecordsWalked ==
    ASSUME NEW records \in VersionTables, NEW spread \in BOOLEAN, NEW rw, NEW aw, Sizes(rw, aw),
           NEW table, BarLinks(table, records, spread, rw, aw), NEW least \in {0, 1}
    PROVE  /\ table.stop \in Nat
           /\ \E f : /\ RecordWalk(table, rw, aw, least, f)
                     /\ Versions!Records(table, rw, aw, least) = f[table.stop + 1].got
<1> DEFINE n == table.stop + 1
           begin == [at |-> 0, got |-> <<>>, done |-> FALSE]
           Turns(f) == [s \in 0..n |-> IF s = 0 THEN begin ELSE RecordStep(table, rw, aw, least, f[s - 1])]
           step == [s \in 1..n |-> [r \in RecordReadings |-> RecordStep(table, rw, aw, least, r)]]
           f == CHOOSE f : f = Turns(f)
<1>1. table.stop \in Nat /\ n \in Nat
  <2>1. table.stop = Versions!Linked(records, spread, rw, aw).stop
    BY DEF BarLinks, NamesAsLinked
  <2>2. Versions!Linked(records, spread, rw, aw).stop \in Nat
    <3> DEFINE b == Versions!NamesBefore(records)[Len(records)]
    <3>1. Versions!Linked(records, spread, rw, aw).stop = Len(records) * rw + b * aw
      BY DEF Versions!Linked
    <3>2. b \in Nat /\ Len(records) \in Nat
      BY NamesAreBefore DEF VersionTables
    <3>3. Len(records) * rw \in Nat /\ b * aw \in Nat
      BY <3>2 DEF Sizes
    <3> QED
      BY <3>1, <3>3
  <2> QED
    BY <2>1, <2>2
<1>2. n \in Nat /\ \A s \in 1..n : s - 1 \in 0..n /\ s \in 0..n /\ s # 0
  BY <1>1
<1>3. step \in [1..n -> [RecordReadings -> RecordReadings]]
  BY RecordTurn
<1>4. begin \in RecordReadings
  BY DEF RecordReadings
<1>5. \E g : g = Turns(g)
  <2> HIDE DEF begin
  <2>1. PICK g : WalkOf(n, RecordReadings, begin, step, g)
    <3> HIDE DEF step, n
    <3> QED
      BY <1>2, <1>3, <1>4, Walks
  <2>2. ASSUME NEW s \in 1..n
        PROVE  g[s] = RecordStep(table, rw, aw, least, g[s - 1])
    <3> HIDE DEF n, step
    <3>1. g[s - 1] \in RecordReadings /\ g[s] = step[s][g[s - 1]]
      BY <1>2, <2>1 DEF WalkOf
    <3> QED
      BY <3>1 DEF step
  <2> HIDE DEF n
  <2>3. \A s \in 0..n : s = 0 \/ s \in 1..n
    BY <1>2
  <2>4. g = Turns(g)
    BY <2>1, <2>2, <2>3 DEF WalkOf
  <2> QED
    BY <2>4
<1>6. f = Turns(f)
  <2> HIDE DEF n, Turns
  <2> QED
    BY <1>5
<1>7. Versions!Records(table, rw, aw, least) = f[n].got
  BY DEF Versions!Records, RecordStep
<1> HIDE DEF f, begin
<1>8. f[0] = begin /\ \A s \in 1..n : f[s] = RecordStep(table, rw, aw, least, f[s - 1])
  BY <1>2, <1>6
<1>9. DOMAIN f = 0..n /\ f = [s \in 0..n |-> f[s]]
  BY <1>6
<1>10. WalkOf(n, RecordReadings, begin, step, f)
  <2>1. \A s \in 1..n : f[s - 1] \in RecordReadings => f[s] = step[s][f[s - 1]]
    BY <1>8
  <2> HIDE DEF n, step
  <2> QED
    BY <1>2, <1>3, <1>4, <1>8, <1>9, <2>1, Walked
<1>11. RecordWalk(table, rw, aw, least, f)
  BY <1>8, <1>10 DEF WalkOf, RecordWalk, RecordBegin, begin
<1> QED
  BY <1>1, <1>7, <1>11

(* Records are put one after the other, so what lies past one is a later.  *)
LEMMA Onward ==
    ASSUME NEW records \in VersionTables, NEW spread \in BOOLEAN, NEW rw, NEW aw, Sizes(rw, aw),
           NEW k \in 1..Len(records), NEW j \in 1..Len(records)
    PROVE  LET At(i) == Versions!RecordAt(records, spread, rw, aw, i)
           IN  /\ At(k) \in Nat /\ At(j) \in Nat
               /\ At(k) < At(j) => k < j
               /\ At(k) = At(j) => k = j
               /\ At(k) <= At(j) => k <= j
<1> DEFINE At(i) == Versions!RecordAt(records, spread, rw, aw, i)
<1>1. At(k) \in Nat /\ At(j) \in Nat
  BY RecordsApart
<1>2. k < j => At(k) < At(j)
  BY RecordsClimb
<1>3. j < k => At(j) < At(k)
  BY RecordsClimb
<1>4. k \in Nat /\ j \in Nat
  OBVIOUS
<1> HIDE DEF At
<1>5. (At(k) < At(j) => k < j) /\ (At(k) = At(j) => k = j) /\ (At(k) <= At(j) => k <= j)
  BY <1>1, <1>2, <1>3, <1>4
<1> QED
  BY <1>1, <1>5 DEF At

(* A record lies inside the section, which has a word for each at least.   *)
LEMMA RecordFits ==
    ASSUME NEW records \in VersionTables, NEW spread \in BOOLEAN, NEW rw, NEW aw, Sizes(rw, aw),
           NEW k \in 1..Len(records)
    PROVE  LET stop == Versions!Linked(records, spread, rw, aw).stop
           IN  /\ stop \in Nat /\ Len(records) <= stop
               /\ Versions!RecordAt(records, spread, rw, aw, k) + rw <= stop
<1> DEFINE stop == Versions!Linked(records, spread, rw, aw).stop
           n == Len(records)
           At(i) == Versions!RecordAt(records, spread, rw, aw, i)
           b == Versions!NamesBefore(records)[n]
<1>1. n \in Nat /\ n \in 1..n /\ stop \in Nat /\ At(n) \in Nat /\ At(n) + rw <= stop
  <2>1. n \in Nat /\ n \in 1..n
    BY DEF VersionTables
  <2> QED
    BY <2>1, RecordsApart
<1>2. At(k) \in Nat /\ (k < n => At(k) < At(n))
  BY <1>1, RecordsClimb, RecordsApart
<1>3. n <= stop
  <2>1. stop = n * rw + b * aw
    BY DEF Versions!Linked
  <2>2. b \in Nat
    BY <1>1, NamesAreBefore
  <2> HIDE DEF b, n, stop
  <2>3. CASE rw = 5 /\ aw = 2
    BY <1>1, <2>1, <2>2, <2>3
  <2>4. CASE rw = 4 /\ aw = 4
    BY <1>1, <2>1, <2>2, <2>4
  <2> QED
    BY <2>3, <2>4 DEF Sizes
<1>4. At(k) + rw <= stop
  <2>1. rw \in Nat /\ (k < n \/ k = n)
    BY <1>1 DEF Sizes
  <2>2. CASE k = n
    BY <1>1, <2>2
  <2>3. CASE k < n
    <3>1. At(k) < At(n)
      BY <1>2, <2>3
    <3> HIDE DEF At, stop, n
    <3> QED
      BY <1>1, <1>2, <2>1, <3>1
  <2> QED
    BY <2>1, <2>2, <2>3
<1> QED
  BY <1>1, <1>3, <1>4

(* A walk has read the first records as they are and stands before the     *)
(* next, or it has left one out and will never make up for it.             *)
Beyond(r, c, records, spread, rw, aw) ==
    r.done \/ \A k \in 1..Len(records) : r.at <= Versions!RecordAt(records, spread, rw, aw, k) => c < k
Kept(r, records, spread, rw, aw) ==
    Begins(r.got, records) /\ Beyond(r, Len(r.got), records, spread, rw, aw)
Lost(r, records, spread, rw, aw) ==
    Len(r.got) < Len(records) /\ Beyond(r, Len(r.got) + 1, records, spread, rw, aw)

(* A turn never makes up for what was left out.                            *)
LEMMA KeptOrLost ==
    ASSUME NEW records \in VersionTables, NEW spread \in BOOLEAN, NEW rw, NEW aw, Sizes(rw, aw),
           NEW table, BarLinks(table, records, spread, rw, aw), NEW least \in {0, 1},
           NEW r \in RecordReadings, NEW q, q = RecordStep(table, rw, aw, least, r),
           Kept(r, records, spread, rw, aw) \/ Lost(r, records, spread, rw, aw)
    PROVE  Kept(q, records, spread, rw, aw) \/ Lost(q, records, spread, rw, aw)
<1> DEFINE n == Len(records)
           At(i) == Versions!RecordAt(records, spread, rw, aw, i)
           c == Len(r.got)
<1>1. /\ q \in RecordReadings
      /\ \/ q = [r EXCEPT !.done = TRUE]
         \/ /\ ~r.done
            /\ \E k \in 1..n : /\ r.at = At(k)
                               /\ q.got = Append(r.got, records[k])
                               /\ q.at = At(k) + table.heads[At(k)].next
                               /\ table.heads[At(k)].next \in Nat
                               /\ q.done = (table.heads[At(k)].next = 0)
  BY RecordTurn, SMTT(30)
<1>2. CASE q = [r EXCEPT !.done = TRUE]
  <2>1. q.done /\ q.got = r.got
    BY <1>2 DEF RecordReadings
  <2> QED
    BY <2>1 DEF Kept, Lost, Beyond
<1>3. CASE ~r.done /\ \E k \in 1..n : /\ r.at = At(k)
                                      /\ q.got = Append(r.got, records[k])
                                      /\ q.at = At(k) + table.heads[At(k)].next
                                      /\ table.heads[At(k)].next \in Nat
                                      /\ q.done = (table.heads[At(k)].next = 0)
  <2>1. PICK k \in 1..n : /\ r.at = At(k)
                          /\ q.got = Append(r.got, records[k])
                          /\ q.at = At(k) + table.heads[At(k)].next
                          /\ table.heads[At(k)].next \in Nat
                          /\ q.done = (table.heads[At(k)].next = 0)
    BY <1>3
  <2>2. n \in Nat /\ r.got \in Seq(Seq(STRING)) /\ c \in Nat /\ records[k] \in Seq(STRING)
        /\ records \in Seq(Seq(STRING)) /\ At(k) \in Nat
    <3>1. At(k) \in Nat
      BY RecordsApart
    <3> QED
      BY <3>1 DEF RecordReadings, VersionTables
  <2>3. Len(q.got) = c + 1
    BY <2>1, <2>2
  <2> DEFINE w == table.heads[At(k)].next
  <2>4. ASSUME ~q.done, NEW j \in 1..n, q.at <= At(j)
        PROVE  k < j
    <3>1. At(k) \in Nat /\ At(j) \in Nat /\ (At(k) < At(j) => k < j)
      BY Onward
    <3>2. w \in Nat /\ w # 0 /\ q.at = At(k) + w
      BY <2>1, <2>4
    <3> HIDE DEF At, w
    <3> QED
      BY <2>4, <3>1, <3>2
  <2>5. CASE Kept(r, records, spread, rw, aw)
    <3>1. c < k /\ Begins(r.got, records)
      <4>1. \A i \in 1..n : r.at <= At(i) => c < i
        BY <1>3, <2>5 DEF Kept, Beyond
      <4>2. r.at <= At(k)
        <5> HIDE DEF At
        <5> QED BY <2>1, <2>2
      <4> QED
        BY <2>5, <4>1, <4>2 DEF Kept
    <3>2. CASE k = c + 1
      <4>1. Begins(q.got, records)
        <5>1. Len(r.got) = k - 1
          BY <2>2, <3>2
        <5> QED
          BY <2>1, <2>2, <3>1, <5>1, Longer
      <4>2. Beyond(q, Len(q.got), records, spread, rw, aw)
        <5>1. q.done \/ \A j \in 1..n : q.at <= At(j) => Len(q.got) < j
          BY <2>3, <2>4, <3>2
        <5> QED
          BY <5>1 DEF Beyond
      <4> QED
        BY <4>1, <4>2 DEF Kept
    <3>3. CASE k # c + 1
      <4>1. c + 1 < k /\ k <= n
        <5>1. c \in Nat /\ n \in Nat /\ k \in 1..n /\ c < k /\ k # c + 1
          BY <2>2, <3>1, <3>3
        <5> HIDE DEF c, n
        <5> QED
          BY <5>1
      <4>2. q.done \/ \A j \in 1..n : q.at <= At(j) => Len(q.got) + 1 < j
        <5> SUFFICES ASSUME ~q.done, NEW j \in 1..n, q.at <= At(j) PROVE Len(q.got) + 1 < j
          OBVIOUS
        <5>1. k < j
          BY <2>4
        <5> HIDE DEF c, n
        <5> QED
          BY <2>2, <2>3, <4>1, <5>1
      <4>3. Len(q.got) < n
        BY <2>2, <2>3, <4>1
      <4> QED
        BY <4>2, <4>3 DEF Lost, Beyond
    <3> QED
      BY <3>2, <3>3
  <2>6. CASE Lost(r, records, spread, rw, aw)
    <3>1. c + 1 < k /\ k <= n
      <4>1. \A i \in 1..n : r.at <= At(i) => c + 1 < i
        BY <1>3, <2>6 DEF Lost, Beyond
      <4>2. r.at <= At(k)
        <5> HIDE DEF At
        <5> QED BY <2>1, <2>2
      <4> QED
        BY <2>2, <4>1, <4>2
    <3>2. q.done \/ \A j \in 1..n : q.at <= At(j) => Len(q.got) + 1 < j
      <4> SUFFICES ASSUME ~q.done, NEW j \in 1..n, q.at <= At(j) PROVE Len(q.got) + 1 < j
        OBVIOUS
      <4>1. k < j
        BY <2>4
      <4> HIDE DEF c, n
      <4> QED
        BY <2>2, <2>3, <3>1, <4>1
    <3>3. Len(q.got) < n
      BY <2>2, <2>3, <3>1
    <3> QED
      BY <3>2, <3>3 DEF Lost, Beyond
  <2> QED
    BY <2>5, <2>6
<1> QED
  BY <1>1, <1>2, <1>3

(* Whatever the distances have become, a walk that reaches as many records *)
(* as there are has read each of them, once and with its own names.        *)
LEMMA AsManyIsAll ==
    ASSUME NEW records \in VersionTables, NEW spread \in BOOLEAN, NEW rw, NEW aw, Sizes(rw, aw),
           NEW table, BarLinks(table, records, spread, rw, aw), NEW least \in {0, 1},
           records = <<>> \/ Len(Versions!Records(table, rw, aw, least)) = Len(records)
    PROVE  Versions!Records(table, rw, aw, least) = records
<1> DEFINE n == table.stop + 1
           Either(r) == Kept(r, records, spread, rw, aw) \/ Lost(r, records, spread, rw, aw)
<1>1. n \in Nat
  BY RecordsWalked
<1>2. PICK f : /\ RecordWalk(table, rw, aw, least, f)
               /\ Versions!Records(table, rw, aw, least) = f[n].got
  BY RecordsWalked
<1> DEFINE Good == {s \in 0..n : Either(f[s])}
<1>3. 0 \in Good
  <2>1. f[0] = [at |-> 0, got |-> <<>>, done |-> FALSE]
    BY <1>2 DEF RecordWalk, RecordBegin
  <2>2. f[0].got = <<>> /\ Len(f[0].got) = 0
    BY <2>1
  <2>3. Begins(f[0].got, records)
    <3>1. Len(records) \in Nat
      BY DEF VersionTables
    <3> QED
      BY <2>2, <3>1 DEF Begins
  <2>4. Kept(f[0], records, spread, rw, aw)
    BY <2>2, <2>3 DEF Kept, Beyond
  <2> QED
    BY <1>1, <2>4
<1>4. ASSUME NEW s \in 1..n, s - 1 \in Good
      PROVE  s \in Good
  <2>1. f[s - 1] \in RecordReadings /\ f[s] = RecordStep(table, rw, aw, least, f[s - 1])
    <3>1. s - 1 \in 0..n
      BY <1>1
    <3> QED
      BY <1>2, <3>1 DEF RecordWalk
  <2>2. Either(f[s - 1])
    BY <1>4
  <2>3. Either(f[s])
    BY <2>1, <2>2, KeptOrLost
  <2> QED
    BY <1>1, <2>3
<1>5. Either(f[n])
  <2> HIDE DEF Good, n
  <2>1. \A s \in 0..n : s \in Good
    BY <1>1, <1>3, <1>4, Upward
  <2> QED
    BY <1>1, <2>1 DEF Good
<1>6. f[n].got \in Seq(Seq(STRING))
  <2>1. f[n] \in RecordReadings
    <3>1. n \in 0..n
      BY <1>1
    <3> QED
      BY <1>2, <3>1 DEF RecordWalk
  <2> QED
    BY <2>1 DEF RecordReadings
<1> HIDE DEF n
<1>7. Begins(f[n].got, records) /\ Len(f[n].got) = Len(records)
  <2> DEFINE l == Len(f[n].got)
             m == Len(records)
  <2>1. (m = 0 \/ l = m) /\ m \in Nat /\ l \in Nat
    BY <1>2, <1>6 DEF VersionTables
  <2>2. ~(l < m)
    BY <2>1
  <2>3. ~Lost(f[n], records, spread, rw, aw)
    BY <2>2 DEF Lost
  <2>4. Begins(f[n].got, records)
    BY <1>5, <2>3 DEF Kept
  <2>5. l <= m
    BY <2>4 DEF Begins
  <2> QED
    BY <2>1, <2>4, <2>5
<1>8. records \in Seq(Seq(STRING))
  BY DEF VersionTables
<1> QED
  BY <1>2, <1>6, <1>7, <1>8, AllOfIt

(* A table whose distances are a linker's is read whole.                   *)
WholeSoFar(s, r, records, spread, rw, aw) ==
    /\ Begins(r.got, records)
    /\ IF s < Len(records)
       THEN ~r.done /\ Len(r.got) = s /\ r.at = Versions!RecordAt(records, spread, rw, aw, s + 1)
       ELSE Len(r.got) = Len(records) /\ (r.done \/ records = <<>>)
AsLinked(table, records, spread, rw, aw) ==
    /\ NamesAsLinked(table, records, spread, rw, aw)
    /\ table.heads = Versions!Linked(records, spread, rw, aw).heads

(* A linker's distances lead from each record to the next.                 *)
LEMMA LinksAre ==
    ASSUME NEW records \in VersionTables, NEW spread \in BOOLEAN, NEW rw, NEW aw, Sizes(rw, aw),
           NEW table, AsLinked(table, records, spread, rw, aw)
    PROVE  /\ BarLinks(table, records, spread, rw, aw)
           /\ \A k \in 1..Len(records) :
                LET here == Versions!RecordAt(records, spread, rw, aw, k)
                IN  /\ here \in DOMAIN table.heads
                    /\ table.heads[here].next =
                         IF k = Len(records) THEN 0
                         ELSE Versions!RecordAt(records, spread, rw, aw, k + 1) - here
<1> DEFINE heads == Versions!Linked(records, spread, rw, aw).heads
           At(i) == Versions!RecordAt(records, spread, rw, aw, i)
           n == Len(records)
<1>1. HeadsAt(heads, records, spread, rw, aw)
  BY HeadsAre
<1>2. table.heads = heads /\ NamesAsLinked(table, records, spread, rw, aw)
  BY DEF AsLinked
<1> HIDE DEF heads
<1>3. DOMAIN heads = {At(k) : k \in 1..n}
  BY <1>1 DEF HeadsAt
<1>4. ASSUME NEW k \in 1..n
      PROVE  /\ At(k) \in DOMAIN heads
             /\ heads[At(k)].next = IF k = n THEN 0 ELSE At(k + 1) - At(k)
  <2>1. heads[At(k)] = [count |-> Len(records[k]),
                        aux |-> Versions!AuxAt(records, spread, rw, aw, k, 1) - At(k),
                        next |-> IF k = n THEN 0 ELSE At(k + 1) - At(k)]
    BY <1>1 DEF HeadsAt
  <2> HIDE DEF At
  <2> QED
    BY <1>3, <2>1
<1>5. ASSUME NEW at \in DOMAIN heads
      PROVE  heads[at].next \in Nat
  <2>1. PICK k \in 1..n : at = At(k)
    <3> HIDE DEF At
    <3> QED
      BY <1>3
  <2>2. At(k) \in Nat /\ (k < n => At(k) + rw <= At(k + 1)) /\ (k < n => At(k + 1) \in Nat)
    <3>1. At(k) \in Nat /\ (k < n => At(k) + rw <= At(k + 1))
      BY RecordsApart
    <3>2. k < n => k + 1 \in 1..n
      BY DEF VersionTables
    <3>3. k < n => At(k + 1) \in Nat
      BY <3>2, RecordsApart
    <3> QED
      BY <3>1, <3>3
  <2>3. heads[At(k)].next = IF k = n THEN 0 ELSE At(k + 1) - At(k)
    BY <1>4
  <2>4. k = n \/ k < n
    BY DEF VersionTables
  <2>5. rw \in Nat
    BY DEF Sizes
  <2> HIDE DEF At, n
  <2> QED
    BY <2>1, <2>2, <2>3, <2>4, <2>5
<1>6. BarLinks(table, records, spread, rw, aw)
  BY <1>2, <1>5 DEF BarLinks, heads
<1> QED
  BY <1>2, <1>4, <1>6

(* A turn along them reads one more record, or none when all are read.     *)
LEMMA WholeOn ==
    ASSUME NEW records \in VersionTables, NEW spread \in BOOLEAN, NEW rw, NEW aw, Sizes(rw, aw),
           NEW table, AsLinked(table, records, spread, rw, aw), NEW least \in {0, 1},
           NEW s \in Nat \ {0}, NEW r \in RecordReadings, NEW q,
                 q = RecordStep(table, rw, aw, least, r),
           WholeSoFar(s - 1, r, records, spread, rw, aw)
    PROVE  WholeSoFar(s, q, records, spread, rw, aw)
<1> DEFINE n == Len(records)
           At(i) == Versions!RecordAt(records, spread, rw, aw, i)
<1>1. BarLinks(table, records, spread, rw, aw)
  BY LinksAre
<1>2. /\ q \in RecordReadings
      /\ \/ /\ q = [r EXCEPT !.done = TRUE]
            /\ r.done \/ r.at + rw > table.stop \/ r.at \notin DOMAIN table.heads
         \/ /\ ~r.done
            /\ \E k \in 1..n : /\ r.at = At(k)
                               /\ q.got = Append(r.got, records[k])
                               /\ q.at = At(k) + table.heads[At(k)].next
                               /\ table.heads[At(k)].next \in Nat
                               /\ q.done = (table.heads[At(k)].next = 0)
  BY <1>1, RecordTurn, SMTT(30)
<1>3. n \in Nat /\ records \in Seq(Seq(STRING)) /\ r.got \in Seq(Seq(STRING))
  BY DEF VersionTables, RecordReadings
<1>4. CASE s - 1 < n
  <2>1. s \in 1..n /\ (s - 1) + 1 = s
    BY <1>3, <1>4
  <2>2. ~r.done /\ Len(r.got) = s - 1 /\ r.at = At(s) /\ Begins(r.got, records)
    BY <1>4, <2>1 DEF WholeSoFar
  <2>3. At(s) \in DOMAIN table.heads /\ At(s) + rw <= table.stop /\ At(s) \in Nat /\ table.stop \in Nat
    <3>1. At(s) \in DOMAIN table.heads
      BY <2>1, LinksAre
    <3>2. table.stop = Versions!Linked(records, spread, rw, aw).stop
      BY DEF AsLinked, NamesAsLinked
    <3>3. At(s) + rw <= table.stop /\ table.stop \in Nat
      BY <2>1, <3>2, RecordFits
    <3>4. At(s) \in Nat
      BY <2>1, RecordsApart
    <3> QED
      BY <3>1, <3>3, <3>4
  <2>4. ~(r.done \/ r.at + rw > table.stop \/ r.at \notin DOMAIN table.heads)
    <3>1. rw \in Nat
      BY DEF Sizes
    <3> HIDE DEF At
    <3> QED
      BY <2>2, <2>3, <3>1
  <2>5. PICK k \in 1..n : /\ r.at = At(k)
                          /\ q.got = Append(r.got, records[k])
                          /\ q.at = At(k) + table.heads[At(k)].next
                          /\ q.done = (table.heads[At(k)].next = 0)
    BY <1>2, <2>4
  <2>6. k = s
    <3>1. At(k) = At(s) => k = s
      BY <2>1, Onward
    <3> QED
      BY <2>2, <2>5, <3>1
  <2>7. Begins(q.got, records) /\ Len(q.got) = s
    BY <1>3, <2>1, <2>2, <2>5, <2>6, Longer
  <2>8. table.heads[At(s)].next = IF s = n THEN 0 ELSE At(s + 1) - At(s)
    BY <2>1, LinksAre
  <2>9. CASE s = n
    <3>1. q.done
      BY <2>5, <2>6, <2>8, <2>9
    <3> QED
      BY <1>3, <2>7, <2>9, <3>1 DEF WholeSoFar
  <2>10. CASE s # n
    <3>1. s < n /\ s + 1 \in 1..n
      BY <1>3, <2>1, <2>10
    <3>2. At(s + 1) \in Nat /\ At(s) < At(s + 1)
      BY <2>1, <3>1, RecordsClimb
    <3>3. q.at = At(s) + (At(s + 1) - At(s)) /\ q.done = (At(s + 1) - At(s) = 0)
      BY <2>5, <2>6, <2>8, <2>10
    <3>4. q.at = At(s + 1) /\ ~q.done
      <4> DEFINE x == At(s)
                 y == At(s + 1)
      <4>1. x \in Nat /\ y \in Nat /\ x < y /\ q.at = x + (y - x) /\ q.done = (y - x = 0)
        BY <2>3, <3>2, <3>3
      <4> HIDE DEF x, y
      <4>2. q.at = y
        BY <4>1
      <4>3. y - x # 0
        BY <4>1
      <4> QED
        BY <4>1, <4>2, <4>3 DEF y
    <3> QED
      BY <2>7, <3>1, <3>4 DEF WholeSoFar
  <2> QED
    BY <2>9, <2>10
<1>5. CASE ~(s - 1 < n)
  <2>1. Len(r.got) = n /\ (r.done \/ records = <<>>) /\ Begins(r.got, records)
    BY <1>5 DEF WholeSoFar
  <2>2. q.got = r.got /\ q.done
    <3>1. q = [r EXCEPT !.done = TRUE]
      <4>1. records = <<>> => 1..n = {}
        OBVIOUS
      <4> QED
        BY <1>2, <2>1, <4>1
    <3> QED
      BY <3>1 DEF RecordReadings
  <2>3. ~(s < n)
    BY <1>3, <1>5
  <2> QED
    BY <2>1, <2>2, <2>3 DEF WholeSoFar
<1> QED
  BY <1>4, <1>5

(* So all are read.                                                        *)
LEMMA LinkedReadWhole ==
    ASSUME NEW records \in VersionTables, NEW spread \in BOOLEAN, NEW rw, NEW aw, Sizes(rw, aw),
           NEW table, AsLinked(table, records, spread, rw, aw), NEW least \in {0, 1}
    PROVE  Versions!Records(table, rw, aw, least) = records
<1> DEFINE n == table.stop + 1
           Whole(s, r) == WholeSoFar(s, r, records, spread, rw, aw)
<1>1. BarLinks(table, records, spread, rw, aw)
  BY LinksAre
<1>2. n \in Nat
  BY <1>1, RecordsWalked
<1>3. PICK f : /\ RecordWalk(table, rw, aw, least, f)
               /\ Versions!Records(table, rw, aw, least) = f[n].got
  BY <1>1, RecordsWalked
<1>4. records \in Seq(Seq(STRING)) /\ Len(records) \in Nat
  BY DEF VersionTables
<1> DEFINE Good == {s \in 0..n : Whole(s, f[s])}
<1>5. 0 \in Good
  <2>1. f[0] = [at |-> 0, got |-> <<>>, done |-> FALSE]
    BY <1>3 DEF RecordWalk, RecordBegin
  <2>2. f[0].got = <<>> /\ Len(f[0].got) = 0 /\ f[0].at = 0 /\ ~f[0].done
    BY <2>1
  <2>3. Begins(f[0].got, records)
    BY <1>4, <2>2 DEF Begins
  <2>4. CASE 0 < Len(records)
    <3>1. 1 \in 1..Len(records) /\ 0 + 1 = 1
      BY <1>4, <2>4
    <3>2. Versions!RecordAt(records, spread, rw, aw, 1) = 0
      BY <3>1, RecordsApart
    <3> QED
      BY <1>2, <2>2, <2>3, <2>4, <3>1, <3>2 DEF WholeSoFar
  <2>5. CASE ~(0 < Len(records))
    <3>1. Len(records) = 0 /\ records = <<>>
      BY <1>4, <2>5
    <3> QED
      BY <1>2, <2>2, <2>3, <2>5, <3>1 DEF WholeSoFar
  <2> QED
    BY <2>4, <2>5
<1>6. ASSUME NEW s \in 1..n, s - 1 \in Good
      PROVE  s \in Good
  <2>1. f[s - 1] \in RecordReadings /\ f[s] = RecordStep(table, rw, aw, least, f[s - 1])
    <3>1. s - 1 \in 0..n
      BY <1>2
    <3> QED
      BY <1>3, <3>1 DEF RecordWalk
  <2>2. Whole(s - 1, f[s - 1]) /\ s \in Nat \ {0}
    BY <1>2, <1>6
  <2>3. Whole(s, f[s])
    BY <2>1, <2>2, WholeOn
  <2> QED
    BY <1>2, <2>3
<1>7. Whole(n, f[n])
  <2> HIDE DEF Good, n
  <2>1. \A s \in 0..n : s \in Good
    BY <1>2, <1>5, <1>6, Upward
  <2> QED
    BY <1>2, <2>1 DEF Good
<1>8. f[n].got \in Seq(Seq(STRING))
  <2>1. f[n] \in RecordReadings
    <3>1. n \in 0..n
      BY <1>2
    <3> QED
      BY <1>3, <3>1 DEF RecordWalk
  <2> QED
    BY <2>1 DEF RecordReadings
<1>9. ~(n < Len(records))
  <2>1. table.stop = Versions!Linked(records, spread, rw, aw).stop
    BY DEF AsLinked, NamesAsLinked
  <2>2. CASE records = <<>>
    BY <1>2, <2>2
  <2>3. CASE records # <<>>
    <3>1. 1 \in 1..Len(records)
      BY <1>4, <2>3
    <3>2. table.stop \in Nat /\ Len(records) <= table.stop
      BY <2>1, <3>1, RecordFits
    <3> QED
      BY <1>4, <3>2
  <2> QED
    BY <2>2, <2>3
<1> HIDE DEF n
<1>10. Begins(f[n].got, records) /\ Len(f[n].got) = Len(records)
  BY <1>7, <1>9 DEF WholeSoFar
<1> QED
  BY <1>3, <1>8, <1>10, <1>4, AllOfIt

(* A version file as its changes leave it: a linker's but for the distances *)
(* between its records and the count it claims, and at first a linker's.   *)
LinkTable(linked, heads, claimed) ==
    [stop |-> linked.stop, claimed |-> claimed, heads |-> heads, names |-> linked.names]
KeepsAllBarLinks(one, changes, sort, records, linked) ==
    \E heads \in [DOMAIN linked.heads -> [count : Nat, aux : Int, next : Nat]], claimed \in Nat :
        /\ one = [sort |-> sort, records |-> records, table |-> LinkTable(linked, heads, claimed)]
        /\ \A at \in DOMAIN linked.heads : /\ heads[at].count = linked.heads[at].count
                                           /\ heads[at].aux = linked.heads[at].aux
        /\ changes = 0 => heads = linked.heads /\ claimed = Len(records)
        /\ changes = 1 => heads = linked.heads \/ claimed = Len(records)
VersionFileStands(one, changes) ==
    \E sort \in {"definitions", "needs"}, records \in VersionTables, spread \in BOOLEAN :
        KeepsAllBarLinks(one, changes, sort, records,
                         Versions!Linked(records, spread, RecordSize(sort), AuxSize(sort)))

(* The sizes of the two sorts of record.                                   *)
LEMMA SizesAre ==
    ASSUME NEW sort \in {"definitions", "needs"}
    PROVE  Sizes(RecordSize(sort), AuxSize(sort))
BY DEF Sizes, RecordSize, AuxSize, Versions!DefSize, Versions!DefAuxSize, Versions!NeedSize,
       Versions!NeedAuxSize

(* It is one as it was written,                                            *)
LEMMA LinkedFileStands ==
    ASSUME NEW sort \in {"definitions", "needs"}, NEW records \in VersionTables, NEW spread \in BOOLEAN
    PROVE  VersionFileStands(LinkedFile(sort, records, spread), 0)
<1> DEFINE rw == RecordSize(sort)
           aw == AuxSize(sort)
           linked == Versions!Linked(records, spread, rw, aw)
           At(i) == Versions!RecordAt(records, spread, rw, aw, i)
           First(i) == Versions!AuxAt(records, spread, rw, aw, i, 1)
           n == Len(records)
<1>1. Sizes(rw, aw)
  BY SizesAre
<1>2. HeadsAt(linked.heads, records, spread, rw, aw)
  BY <1>1, HeadsAre
<1>3. n \in Nat /\ linked.claimed = n /\ linked = LinkTable(linked, linked.heads, n)
  BY DEF VersionTables, LinkTable, Versions!Linked
<1>4. linked.heads = [at \in DOMAIN linked.heads |-> linked.heads[at]]
  BY DEF Versions!Linked
<1>5. LinkedFile(sort, records, spread) = [sort |-> sort, records |-> records, table |-> linked]
  BY DEF LinkedFile
<1> HIDE DEF linked, rw, aw
<1>6. ASSUME NEW at \in DOMAIN linked.heads
      PROVE  linked.heads[at] \in [count : Nat, aux : Int, next : Nat]
  <2>1. DOMAIN linked.heads = {At(k) : k \in 1..n}
    BY <1>2 DEF HeadsAt
  <2>2. PICK k \in 1..n : at = At(k)
    <3> HIDE DEF At, n
    <3> QED
      BY <2>1
  <2>3. linked.heads[At(k)] = [count |-> Len(records[k]), aux |-> First(k) - At(k),
                               next |-> IF k = n THEN 0 ELSE At(k + 1) - At(k)]
    BY <1>2 DEF HeadsAt
  <2>4. Len(records[k]) \in Nat /\ First(k) \in Nat
    <3>1. Len(records[k]) \in Nat \ {0} /\ First(k) \in Nat
      BY <1>1, NamesApart
    <3> QED
      BY <3>1
  <2>5. At(k) \in Nat /\ (k < n => At(k) + rw <= At(k + 1))
    BY <1>1, RecordsApart
  <2>6. k < n => At(k + 1) \in Nat
    <3>1. k < n => k + 1 \in 1..n
      BY <1>3
    <3> QED
      BY <1>1, <3>1, RecordsApart
  <2>7. k \in Nat /\ k <= n /\ rw \in Nat
    BY <1>1, <1>3 DEF Sizes
  <2> HIDE DEF At, First, n
  <2>8. First(k) - At(k) \in Int /\ (IF k = n THEN 0 ELSE At(k + 1) - At(k)) \in Nat
    BY <1>3, <2>4, <2>5, <2>6, <2>7
  <2> QED
    BY <2>2, <2>3, <2>4, <2>8
<1>7. linked.heads \in [DOMAIN linked.heads -> [count : Nat, aux : Int, next : Nat]]
  BY <1>4, <1>6
<1> DEFINE one == LinkedFile(sort, records, spread)
           heads == linked.heads
<1>8. one = [sort |-> sort, records |-> records, table |-> LinkTable(linked, heads, n)]
  BY <1>3, <1>5
<1> HIDE DEF one, heads
<1>9. KeepsAllBarLinks(one, 0, sort, records, linked)
  <2>1. /\ heads \in [DOMAIN linked.heads -> [count : Nat, aux : Int, next : Nat]]
        /\ heads = linked.heads
    BY <1>7 DEF heads
  <2> QED
    BY <1>3, <1>8, <2>1 DEF KeepsAllBarLinks
<1> QED
  BY <1>9 DEF VersionFileStands, linked, rw, aw, one

(* with another distance,                                                  *)
LEMMA RelinkedStands ==
    ASSUME NEW one, NEW changes \in Nat, VersionFileStands(one, changes),
           NEW at \in DOMAIN one.table.heads, NEW w \in Nat
    PROVE  VersionFileStands([one EXCEPT !.table.heads[at].next = w], changes + 1)
<1>1. PICK sort \in {"definitions", "needs"}, records \in VersionTables, spread \in BOOLEAN :
         KeepsAllBarLinks(one, changes, sort, records,
                          Versions!Linked(records, spread, RecordSize(sort), AuxSize(sort)))
  BY DEF VersionFileStands
<1> DEFINE linked == Versions!Linked(records, spread, RecordSize(sort), AuxSize(sort))
<1> HIDE DEF linked
<1>2. PICK heads \in [DOMAIN linked.heads -> [count : Nat, aux : Int, next : Nat]], claimed \in Nat :
              /\ one = [sort |-> sort, records |-> records, table |-> LinkTable(linked, heads, claimed)]
              /\ \A a \in DOMAIN linked.heads : /\ heads[a].count = linked.heads[a].count
                                                /\ heads[a].aux = linked.heads[a].aux
              /\ changes = 0 => heads = linked.heads /\ claimed = Len(records)
              /\ changes = 1 => heads = linked.heads \/ claimed = Len(records)
  BY <1>1 DEF KeepsAllBarLinks, linked
<1> DEFINE relinked == [heads EXCEPT ![at].next = w]
           new == [one EXCEPT !.table.heads[at].next = w]
<1>3. one.table = LinkTable(linked, heads, claimed) /\ one.table.heads = heads
  BY <1>2 DEF LinkTable
<1>4. at \in DOMAIN linked.heads /\ heads[at] \in [count : Nat, aux : Int, next : Nat]
  BY <1>3
<1>5. new = [sort |-> sort, records |-> records, table |-> LinkTable(linked, relinked, claimed)]
  <2>1. [one.table EXCEPT !.heads = relinked] = LinkTable(linked, relinked, claimed)
    <3> HIDE DEF relinked
    <3> QED
      BY <1>3 DEF LinkTable
  <2>2. new = [one EXCEPT !.table = [one.table EXCEPT !.heads = relinked]]
    BY <1>3
  <2> HIDE DEF relinked, new
  <2> QED
    BY <1>2, <2>1, <2>2
<1>6. relinked \in [DOMAIN linked.heads -> [count : Nat, aux : Int, next : Nat]]
  <2>1. [heads[at] EXCEPT !.next = w] \in [count : Nat, aux : Int, next : Nat]
    BY <1>4
  <2>2. relinked = [heads EXCEPT ![at] = [heads[at] EXCEPT !.next = w]]
    OBVIOUS
  <2> HIDE DEF relinked
  <2> QED
    BY <1>4, <2>1, <2>2
<1>7. ASSUME NEW a \in DOMAIN linked.heads
      PROVE  relinked[a].count = linked.heads[a].count /\ relinked[a].aux = linked.heads[a].aux
  <2>1. heads[a].count = linked.heads[a].count /\ heads[a].aux = linked.heads[a].aux
        /\ heads[a] \in [count : Nat, aux : Int, next : Nat]
    BY <1>2
  <2>2. relinked[a].count = heads[a].count /\ relinked[a].aux = heads[a].aux
    BY <2>1
  <2> QED
    BY <2>1, <2>2
<1> DEFINE after == changes + 1
<1>8. /\ after # 0
      /\ after = 1 => claimed = Len(records)
  BY <1>2
<1> HIDE DEF relinked, new, after
<1>9. KeepsAllBarLinks(new, after, sort, records, linked)
  BY <1>5, <1>6, <1>7, <1>8 DEF KeepsAllBarLinks
<1>10. VersionFileStands(new, after)
  BY <1>9 DEF VersionFileStands, linked
<1> QED
  BY <1>10 DEF new, after

(* and with another count.                                                 *)
LEMMA RecountedStands ==
    ASSUME NEW one, NEW changes \in Nat, VersionFileStands(one, changes), NEW c \in Nat
    PROVE  VersionFileStands([one EXCEPT !.table.claimed = c], changes + 1)
<1>1. PICK sort \in {"definitions", "needs"}, records \in VersionTables, spread \in BOOLEAN :
         KeepsAllBarLinks(one, changes, sort, records,
                          Versions!Linked(records, spread, RecordSize(sort), AuxSize(sort)))
  BY DEF VersionFileStands
<1> DEFINE linked == Versions!Linked(records, spread, RecordSize(sort), AuxSize(sort))
<1> HIDE DEF linked
<1>2. PICK heads \in [DOMAIN linked.heads -> [count : Nat, aux : Int, next : Nat]], claimed \in Nat :
              /\ one = [sort |-> sort, records |-> records, table |-> LinkTable(linked, heads, claimed)]
              /\ \A a \in DOMAIN linked.heads : /\ heads[a].count = linked.heads[a].count
                                                /\ heads[a].aux = linked.heads[a].aux
              /\ changes = 0 => heads = linked.heads /\ claimed = Len(records)
              /\ changes = 1 => heads = linked.heads \/ claimed = Len(records)
  BY <1>1 DEF KeepsAllBarLinks, linked
<1> DEFINE new == [one EXCEPT !.table.claimed = c]
<1>3. one.table = LinkTable(linked, heads, claimed)
  BY <1>2
<1>4. new = [sort |-> sort, records |-> records, table |-> LinkTable(linked, heads, c)]
  <2>1. [one.table EXCEPT !.claimed = c] = LinkTable(linked, heads, c)
    BY <1>3 DEF LinkTable
  <2>2. new = [one EXCEPT !.table = [one.table EXCEPT !.claimed = c]]
    OBVIOUS
  <2> HIDE DEF new
  <2> QED
    BY <1>2, <2>1, <2>2
<1> DEFINE after == changes + 1
<1>5. /\ after # 0
      /\ after = 1 => heads = linked.heads
  BY <1>2
<1> HIDE DEF new, after
<1>6. KeepsAllBarLinks(new, after, sort, records, linked)
  BY <1>2, <1>4, <1>5 DEF KeepsAllBarLinks
<1>7. VersionFileStands(new, after)
  BY <1>6 DEF VersionFileStands, linked
<1> QED
  BY <1>7 DEF new, after

(* What such a file reads as.                                              *)
LEMMA VersionsStand ==
    ASSUME kind = "versions", damaged \in Nat, VersionFileStands(file, damaged)
    PROVE  VersionsWholeOrRefused
<1>1. PICK sort \in {"definitions", "needs"}, records \in VersionTables, spread \in BOOLEAN :
         KeepsAllBarLinks(file, damaged, sort, records,
                          Versions!Linked(records, spread, RecordSize(sort), AuxSize(sort)))
  BY DEF VersionFileStands
<1> DEFINE rw == RecordSize(sort)
           aw == AuxSize(sort)
           linked == Versions!Linked(records, spread, rw, aw)
           least == IF sort = "definitions" THEN 1 ELSE 0
           table == file.table
           got == Versions!Records(table, rw, aw, least)
<1> HIDE DEF linked
<1>2. PICK heads \in [DOMAIN linked.heads -> [count : Nat, aux : Int, next : Nat]], claimed \in Nat :
              /\ file
                   = [sort |-> sort, records |-> records, table |-> LinkTable(linked, heads, claimed)]
              /\ \A a \in DOMAIN linked.heads : /\ heads[a].count = linked.heads[a].count
                                                /\ heads[a].aux = linked.heads[a].aux
              /\ damaged = 0 => heads = linked.heads /\ claimed = Len(records)
              /\ damaged = 1 => heads = linked.heads \/ claimed = Len(records)
  BY <1>1 DEF KeepsAllBarLinks, linked
<1>3. /\ file.sort = sort /\ file.records = records /\ table = LinkTable(linked, heads, claimed)
      /\ table.stop = linked.stop /\ table.names = linked.names /\ table.heads = heads
      /\ table.claimed = claimed
  <2>1. file.sort = sort /\ file.records = records /\ table = LinkTable(linked, heads, claimed)
    BY <1>2
  <2> HIDE DEF table
  <2> QED
    BY <2>1 DEF LinkTable
<1>4. Sizes(rw, aw) /\ least \in {0, 1}
  BY SizesAre
<1>5. VersionsRead = Versions!Held(table, got)
  <2>1. CASE sort = "definitions"
    <3>1. VersionsRead = Versions!VerDefs(table)
      BY <1>3, <2>1 DEF VersionsRead
    <3>2. got = Versions!Records(table, Versions!DefSize, Versions!DefAuxSize, 1)
      BY <2>1 DEF RecordSize, AuxSize
    <3> HIDE DEF got, table
    <3> QED
      BY <3>1, <3>2 DEF Versions!VerDefs
  <2>2. CASE sort # "definitions"
    <3>1. VersionsRead = Versions!VerNeeds(table)
      BY <1>3, <2>2 DEF VersionsRead
    <3>2. got = Versions!Records(table, Versions!NeedSize, Versions!NeedAuxSize, 0)
      BY <2>2 DEF RecordSize, AuxSize
    <3> HIDE DEF got, table
    <3> QED
      BY <3>1, <3>2 DEF Versions!VerNeeds
  <2> QED
    BY <2>1, <2>2
<1> HIDE DEF table, rw, aw, least
<1>6. BarLinks(table, records, spread, rw, aw)
  <2>1. NamesAsLinked(table, records, spread, rw, aw)
    BY <1>3 DEF NamesAsLinked, linked
  <2>2. DOMAIN heads = DOMAIN linked.heads /\ \A at \in DOMAIN linked.heads : heads[at].next \in Nat
    OBVIOUS
  <2> QED
    BY <1>2, <1>3, <2>1, <2>2 DEF BarLinks, linked
<1>7. heads = linked.heads => got = records
  <2>1. heads = linked.heads => AsLinked(table, records, spread, rw, aw)
    BY <1>3, <1>6 DEF AsLinked, BarLinks, linked
  <2> QED
    BY <1>4, <2>1, LinkedReadWhole
<1>8. records = <<>> \/ Len(got) = Len(records) => got = records
  BY <1>4, <1>6, AsManyIsAll
<1> HIDE DEF got
<1>9. VersionsRead = IF claimed # 0 /\ claimed # Len(got) THEN [refused |-> TRUE]
                     ELSE [refused |-> FALSE, records |-> got]
  BY <1>3, <1>5 DEF Versions!Held, Versions!Refused, Versions!Nothing
<1>10. damaged = 0 => ~VersionsRead.refused
  <2>1. damaged = 0 => got = records /\ claimed = Len(records)
    BY <1>2, <1>7
  <2> QED
    BY <1>9, <2>1
<1>11. ASSUME damaged <= 1 \/ claimed = Len(records), ~VersionsRead.refused
       PROVE  VersionsRead.records = records
  <2>1. ~(claimed # 0 /\ claimed # Len(got))
    BY <1>9, <1>11
  <2>2. VersionsRead.records = got
    BY <1>9, <2>1
  <2>3. heads = linked.heads \/ claimed = Len(records)
    <3>1. damaged <= 1 => damaged = 0 \/ damaged = 1
      OBVIOUS
    <3> QED
      BY <1>2, <1>11, <3>1
  <2>4. ASSUME claimed = Len(records)
        PROVE  got = records
    <3>1. CASE claimed = 0
      <4>1. records = <<>>
        <5>1. records \in Seq(Seq(STRING)) /\ Len(records) = 0
          BY <2>4, <3>1 DEF VersionTables
        <5> QED
          BY <5>1
      <4> QED
        BY <1>8, <4>1
    <3>2. CASE claimed # 0
      BY <1>8, <2>1, <2>4, <3>2
    <3> QED
      BY <3>1, <3>2
  <2> QED
    BY <1>7, <2>2, <2>3, <2>4
<1> QED
  BY <1>3, <1>10, <1>11 DEF VersionsWholeOrRefused, table

(* What a file is worth as it was written: a symbol, agreed on.            *)
LEMMA SymbolKeepsItsVersion ==
    ASSUME NEW one \in SymbolFileSpace, kind = "symbol", file = one,
           damaged = 0 => one.word = one.linked
    PROVE  SymbolsKeepTheirVersion
<1> DEFINE plain == one.word % Versions!HighBit
           given == one.linked % Versions!HighBit
           listed == [index |-> given, name |-> Reached(one.linked)]
           row == Versions!SymbolRow(one.word, Reached(one.word))
           agrees == Versions!SymbolAgrees(one.word, Reached(one.word), listed, listed)
<1>1. plain = given => Reached(one.word) = Reached(one.linked)
  BY DEF Reached
<1>2. agrees => plain = given
  BY DEF Versions!SymbolAgrees
<1>3. plain = given => agrees
  BY <1>1 DEF Versions!SymbolAgrees
<1>4. row.index = plain /\ row.name = Reached(one.word)
  BY DEF Versions!SymbolRow
<1>5. damaged = 0 => plain = given
  OBVIOUS
<1>6. listed.index = given /\ listed.name = Reached(one.linked)
  OBVIOUS
<1>7. (damaged = 0 => agrees) /\ (agrees => row.index = listed.index /\ row.name = listed.name)
  <2> HIDE DEF plain, given, listed, row, agrees
  <2> QED
    BY <1>1, <1>2, <1>3, <1>4, <1>5, <1>6
<1> QED
  BY <1>7 DEF SymbolsKeepTheirVersion

(* The count of the Notes module is the count of this one.                 *)
LEMMA NotesCounted == ASSUME NEW S PROVE Notes!Cardinality(S) = Cardinality(S)
BY Zenon DEF Notes!Cardinality, Cardinality

(* Notes: an accepted reading left none out.                               *)
LEMMA NotesStand ==
    ASSUME NEW notes \in Seq(NoteRecords), NEW limit \in Nat, NEW written \in BOOLEAN,
           written => limit = Notes!TotalBytes(notes),
           Cardinality(Notes!Listing(notes)) = Len(notes)
    PROVE  LET read == Notes!NotesIn(notes, limit)
               listing == Notes!Listing(notes)
               agreed == Notes!Agreed(read, listing, listing)
           IN  (written => agreed) /\ (agreed => read.found = notes)
<1> DEFINE read == Notes!NotesIn(notes, limit)
           listing == Notes!Listing(notes)
           agreed == Notes!Agreed(read, listing, listing)
<1>1. ASSUME written
      PROVE  agreed
  <2>1. limit = Notes!TotalBytes(notes)
    BY <1>1
  <2>2. read.found = notes /\ read.why = ""
    BY <2>1, ReadWhole
  <2>3. CASE notes = <<>>
    <3>1. DOMAIN notes = {}
      BY <2>3
    <3>2. listing = {}
      BY <3>1 DEF Notes!Listing
    <3> HIDE DEF read, listing
    <3> QED
      BY <2>2, <2>3, <3>2 DEF Notes!Agreed
  <2>4. CASE notes # <<>>
    <3>1. Notes!Listing(read.found) = listing
      BY <2>2
    <3> HIDE DEF read, listing
    <3>2. Cardinality(listing) = Len(read.found)
      BY <2>2 DEF listing
    <3>3. read.found # <<>> /\ read.why = ""
      BY <2>2, <2>4
    <3> QED
      BY <3>1, <3>2, <3>3, NotesCounted, Zenon DEF Notes!Agreed
  <2> QED
    BY <2>3, <2>4
<1>2. ASSUME agreed
      PROVE  read.found = notes
  <2>1. read.found \in Seq(NoteRecords) /\ Begins(read.found, notes)
    BY ReadFromTheStart
  <2>2. CASE read.found = <<>>
    <3>1. listing = {}
      BY <1>2, <2>2 DEF Notes!Agreed
    <3>2. Len(notes) = 0
      BY <3>1, FS_EmptySet
    <3> QED
      BY <2>2, <3>2
  <2>3. CASE read.found # <<>>
    <3>1. Cardinality(listing) = Len(read.found)
      <4> HIDE DEF read, listing
      <4> QED
        BY <1>2, <2>3, NotesCounted, Zenon DEF Notes!Agreed
    <3>2. Len(read.found) = Len(notes)
      BY <3>1
    <3> HIDE DEF read
    <3> QED
      BY <2>1, <3>2, AllOfIt
  <2> QED
    BY <2>2, <2>3
<1> QED
  BY <1>1, <1>2

-----------------------------------------------------------------------------
(* Headers read alike: the offset tables the scripts read ELF headers by   *)
(* differ only in the fields they leave out, and a table of numbers taken  *)
(* in order from a set is the same whichever fields are kept of it.        *)

(* A read at the place of a field, where no two fields share one.          *)
LEMMA ReadsField ==
    ASSUME NEW record, NEW fields, NEW f \in DOMAIN fields,
           \A g \in DOMAIN fields : fields[g] = fields[f] => g = f
    PROVE  Elf!At(record, fields, fields[f]) = record[f]
BY DEF Elf!At

(* So a table read at the places of fields of its own class is the table's *)
(* own fields.                                                             *)
LEMMA ReadsTable ==
    ASSUME NEW table, NEW fields, NEW places, DOMAIN places \subseteq DOMAIN fields,
           \A f \in DOMAIN places : places[f] = fields[f],
           \A f \in DOMAIN fields, g \in DOMAIN fields : fields[g] = fields[f] => g = f
    PROVE  Elf!ReadTable(table, fields, places) = Only(table, DOMAIN places)
<1>1. ASSUME NEW i \in DOMAIN table, NEW f \in DOMAIN places
      PROVE  Elf!At(table[i], fields, places[f]) = table[i][f]
  BY ReadsField
<1> QED
  BY <1>1 DEF Elf!ReadTable, Only

(* No two fields of a record share a place, in either class.               *)
LEMMA FieldsApart ==
    ASSUME NEW wide \in BOOLEAN
    PROVE  /\ \A f \in DOMAIN Elf!SectionFields(wide), g \in DOMAIN Elf!SectionFields(wide) :
                Elf!SectionFields(wide)[g] = Elf!SectionFields(wide)[f] => g = f
           /\ \A f \in DOMAIN Elf!SegmentFields(wide), g \in DOMAIN Elf!SegmentFields(wide) :
                Elf!SegmentFields(wide)[g] = Elf!SegmentFields(wide)[f] => g = f
<1>1. CASE wide
  BY <1>1 DEF Elf!SectionFields, Elf!SegmentFields
<1>2. CASE ~wide
  BY <1>2 DEF Elf!SectionFields, Elf!SegmentFields
<1> QED
  BY <1>1, <1>2

(* The numbers of I up to n, in order, are numbers of I.                   *)
LEMMA InOrderIs ==
    ASSUME NEW n \in Nat, NEW I, I \subseteq 1..n
    PROVE  Elf!InOrder(I, n) \in Seq(I)
<1> DEFINE body(f) == [k \in 0..n |-> IF k = 0 THEN <<>>
                                     ELSE IF k \in I THEN Append(f[k - 1], k) ELSE f[k - 1]]
           order == CHOOSE f : f = body(f)
<1>1. Elf!InOrder(I, n) = order[n]
  BY DEF Elf!InOrder
<1> DEFINE step == [k \in 1..n |-> [s \in Seq(I) |-> IF k \in I THEN Append(s, k) ELSE s]]
<1>2. step \in [1..n -> [Seq(I) -> Seq(I)]]
  OBVIOUS
<1>3. <<>> \in Seq(I)
  OBVIOUS
<1>4. \E g : WalkOf(n, Seq(I), <<>>, step, g)
  <2> HIDE DEF step
  <2> QED
    BY <1>2, <1>3, Walks
<1>5. PICK g : WalkOf(n, Seq(I), <<>>, step, g)
  BY <1>4
<1>6. g = body(g)
  <2>1. g \in [0..n -> Seq(I)] /\ g[0] = <<>> /\ \A k \in 1..n : g[k] = step[k][g[k - 1]]
    BY <1>5 DEF WalkOf
  <2>2. ASSUME NEW k \in 0..n
        PROVE  g[k] = IF k = 0 THEN <<>> ELSE IF k \in I THEN Append(g[k - 1], k) ELSE g[k - 1]
    <3>1. CASE k = 0
      BY <2>1, <3>1
    <3>2. CASE k # 0
      <4>1. k \in 1..n /\ k - 1 \in 0..n
        BY <3>2
      <4> QED
        BY <2>1, <4>1
    <3> QED
      BY <3>1, <3>2
  <2> QED
    BY <2>1, <2>2
<1>7. order = body(order)
  <2> HIDE DEF body
  <2> QED
    BY <1>6
<1>8. WalkOf(n, Seq(I), <<>>, step, order)
  <2>1. DOMAIN order = 0..n /\ order = [k \in 0..n |-> order[k]] /\ order[0] = <<>>
    <3> HIDE DEF order
    <3>1. 0 \in 0..n
      OBVIOUS
    <3> QED
      BY <1>7, <3>1
  <2>2. ASSUME NEW k \in 1..n, order[k - 1] \in Seq(I)
        PROVE  order[k] = step[k][order[k - 1]]
    <3>1. k \in 0..n /\ k # 0
      OBVIOUS
    <3>2. order[k] = IF k \in I THEN Append(order[k - 1], k) ELSE order[k - 1]
      <4> HIDE DEF order
      <4> QED
        BY <1>7, <3>1
    <3> HIDE DEF order
    <3> QED
      BY <2>2, <3>2
  <2> HIDE DEF order, step
  <2> QED
    BY <1>2, <1>3, <2>1, <2>2, Walked
<1> QED
  <2>1. n \in 0..n
    OBVIOUS
  <2> HIDE DEF order, step
  <2> QED
    BY <1>1, <1>8, <2>1 DEF WalkOf

(* Two tables of one length have those of I at the same places.            *)
LEMMA ThoseAlike ==
    ASSUME NEW s, NEW t, Len(s) \in Nat, DOMAIN s = 1..Len(s), Len(t) = Len(s), DOMAIN t = DOMAIN s,
           NEW I, I \subseteq DOMAIN s
    PROVE  /\ DOMAIN Elf!Those(s, I) = DOMAIN Elf!Those(t, I)
           /\ (Elf!Those(s, I) = <<>>) = (Elf!Those(t, I) = <<>>)
           /\ \A k \in DOMAIN Elf!Those(s, I) :
                \E i \in I : Elf!Those(s, I)[k] = s[i] /\ Elf!Those(t, I)[k] = t[i]
<1>1. Elf!InOrder(I, Len(s)) \in Seq(I)
  BY InOrderIs
<1> DEFINE order == Elf!InOrder(I, Len(s))
<1>2. Elf!Those(s, I) = [k \in DOMAIN order |-> s[order[k]]]
      /\ Elf!Those(t, I) = [k \in DOMAIN order |-> t[order[k]]]
  BY DEF Elf!Those
<1>3. order \in Seq(I)
  BY <1>1
<1> HIDE DEF order
<1>4. \A k \in DOMAIN order : order[k] \in I
  BY <1>3
<1>5. (Elf!Those(s, I) = <<>>) = (DOMAIN order = {}) /\ (Elf!Those(t, I) = <<>>) = (DOMAIN order = {})
  BY <1>2
<1> QED
  BY <1>2, <1>4, <1>5

(* What each script reads of the section headers.                          *)
LEMMA SectionsReadAlike ==
    ASSUME NEW one \in ElfFileSpace
    PROVE  /\ Elf!HashSections(one) = Only(one.sections, {"name", "offset", "size"})
           /\ Elf!SymverSections(one) = Only(one.sections, {"name", "offset", "size"})
           /\ Elf!ImageSections(one) = Only(one.sections, {"name", "offset", "size"})
           /\ one.wide => Elf!NoteSectionRecords(one) = Only(one.sections, {"name", "offset", "size"})
<1> DEFINE fields == Elf!SectionFields(one.wide)
           places == [name |-> 0, offset |-> IF one.wide THEN 24 ELSE 16,
                      size |-> IF one.wide THEN 32 ELSE 20]
<1>1. one.wide \in BOOLEAN
  BY DEF ElfFileSpace
<1>2. DOMAIN places = {"name", "offset", "size"}
  OBVIOUS
<1>3. /\ DOMAIN places \subseteq DOMAIN fields
      /\ \A f \in DOMAIN places : places[f] = fields[f]
  BY <1>1 DEF Elf!SectionFields
<1>4. \A f \in DOMAIN fields, g \in DOMAIN fields : fields[g] = fields[f] => g = f
  BY <1>1, FieldsApart
<1>5. Elf!ReadTable(one.sections, fields, places) = Only(one.sections, {"name", "offset", "size"})
  <2> HIDE DEF fields, places
  <2> QED
    BY <1>2, <1>3, <1>4, ReadsTable
<1>6. one.wide => places = [name |-> 0, offset |-> 24, size |-> 32]
  OBVIOUS
<1>7. Elf!ReadSections(one, places) = Only(one.sections, {"name", "offset", "size"})
  BY <1>5 DEF Elf!ReadSections
<1> QED
  BY <1>6, <1>7 DEF Elf!HashSections, Elf!SymverSections, Elf!ImageSections, Elf!NoteSectionRecords

(* What each script reads of the program headers.                          *)
LEMMA SegmentsReadAlike ==
    ASSUME NEW one \in ElfFileSpace
    PROVE  /\ Elf!DynamicSegments(one) = Only(one.segments, {"type", "offset", "vaddr", "filesz"})
           /\ Elf!SymverLoads(one) = Only(one.segments, {"type", "offset", "vaddr", "filesz"})
           /\ Elf!SegmentRecords(one) =
                Only(one.segments, {"type", "flags", "offset", "vaddr", "filesz", "memsz"})
           /\ Elf!ReadSegments(one, IF one.wide THEN [type |-> 0, offset |-> 8, filesz |-> 32]
                                    ELSE [type |-> 0, offset |-> 4, filesz |-> 16])
                = Only(one.segments, {"type", "offset", "filesz"})
<1> DEFINE fields == Elf!SegmentFields(one.wide)
           four == IF one.wide THEN [type |-> 0, offset |-> 8, vaddr |-> 16, filesz |-> 32]
                   ELSE [type |-> 0, offset |-> 4, vaddr |-> 8, filesz |-> 16]
           six == IF one.wide
                  THEN [type |-> 0, flags |-> 4, offset |-> 8, vaddr |-> 16, filesz |-> 32, memsz |-> 40]
                  ELSE [type |-> 0, flags |-> 24, offset |-> 4, vaddr |-> 8, filesz |-> 16, memsz |-> 20]
           three == IF one.wide THEN [type |-> 0, offset |-> 8, filesz |-> 32]
                    ELSE [type |-> 0, offset |-> 4, filesz |-> 16]
<1>1. one.wide \in BOOLEAN
  BY DEF ElfFileSpace
<1>2. \A f \in DOMAIN fields, g \in DOMAIN fields : fields[g] = fields[f] => g = f
  BY <1>1, FieldsApart
<1>3. Elf!ReadSegments(one, four) = Only(one.segments, {"type", "offset", "vaddr", "filesz"})
  <2>1. DOMAIN four = {"type", "offset", "vaddr", "filesz"}
    BY <1>1
  <2>2. DOMAIN four \subseteq DOMAIN fields /\ \A f \in DOMAIN four : four[f] = fields[f]
    BY <1>1 DEF Elf!SegmentFields
  <2> HIDE DEF fields, four
  <2>3. Elf!ReadTable(one.segments, fields, four) = Only(one.segments, DOMAIN four)
    BY <1>2, <2>2, ReadsTable
  <2> QED
    BY <2>1, <2>3 DEF Elf!ReadSegments, fields
<1>4. Elf!ReadSegments(one, six) =
        Only(one.segments, {"type", "flags", "offset", "vaddr", "filesz", "memsz"})
  <2>1. DOMAIN six = {"type", "flags", "offset", "vaddr", "filesz", "memsz"}
    BY <1>1
  <2>2. DOMAIN six \subseteq DOMAIN fields /\ \A f \in DOMAIN six : six[f] = fields[f]
    BY <1>1 DEF Elf!SegmentFields
  <2> HIDE DEF fields, six
  <2>3. Elf!ReadTable(one.segments, fields, six) = Only(one.segments, DOMAIN six)
    BY <1>2, <2>2, ReadsTable
  <2> QED
    BY <2>1, <2>3 DEF Elf!ReadSegments, fields
<1>5. Elf!ReadSegments(one, three) = Only(one.segments, {"type", "offset", "filesz"})
  <2>1. DOMAIN three = {"type", "offset", "filesz"}
    BY <1>1
  <2>2. DOMAIN three \subseteq DOMAIN fields /\ \A f \in DOMAIN three : three[f] = fields[f]
    BY <1>1 DEF Elf!SegmentFields
  <2> HIDE DEF fields, three
  <2>3. Elf!ReadTable(one.segments, fields, three) = Only(one.segments, DOMAIN three)
    BY <1>2, <2>2, ReadsTable
  <2> QED
    BY <2>1, <2>3 DEF Elf!ReadSegments, fields
<1> QED
  BY <1>3, <1>4, <1>5 DEF Elf!DynamicSegments, Elf!SymverLoads, Elf!SegmentRecords

(* An address is found at one place in a file whichever fields of its      *)
(* segments have been read.                                                *)
LEMMA FoundAlike ==
    ASSUME NEW s \in Seq(ProgramHeaders), NEW address
    PROVE  Elf!ToOffset(Only(s, {"type", "offset", "vaddr", "filesz"}), address)
             = Elf!ToOffset(s, address)
<1> DEFINE t == Only(s, {"type", "offset", "vaddr", "filesz"})
           Holding(r) == {i \in DOMAIN r : /\ r[i].type = "load" /\ r[i].vaddr <= address
                                            /\ address < r[i].vaddr + r[i].filesz}
<1>1. DOMAIN t = DOMAIN s /\ \A i \in DOMAIN s : /\ t[i].type = s[i].type /\ t[i].offset = s[i].offset
                                                /\ t[i].vaddr = s[i].vaddr /\ t[i].filesz = s[i].filesz
  BY DEF Only
<1> HIDE DEF t
<1>2. Holding(t) = Holding(s) /\ Holding(s) \in SUBSET Nat
  BY <1>1
<1> DEFINE first == CHOOSE i \in Holding(s) : \A j \in Holding(s) : i <= j
<1>3. CASE Holding(s) # {}
  <2>1. \E i \in Holding(s) : \A j \in Holding(s) : i <= j
    <3> HIDE DEF Holding
    <3> QED
      BY <1>2, <1>3, LeastOf
  <2>2. first \in Holding(s)
    <3> HIDE DEF Holding
    <3> QED
      BY <2>1
  <2>3. first \in DOMAIN s
    BY <2>2
  <2>4. t[first].offset = s[first].offset /\ t[first].vaddr = s[first].vaddr
    <3> HIDE DEF first
    <3> QED
      BY <1>1, <2>3
  <2>5. Elf!ToOffset(s, address) = s[first].offset + (address - s[first].vaddr)
    BY <1>3, Zenon DEF Elf!ToOffset
  <2>6. Elf!ToOffset(t, address) = t[first].offset + (address - t[first].vaddr)
    <3>1. Elf!ToOffset(t, address) = IF Holding(t) = {} THEN Elf!None
             ELSE t[CHOOSE i \in Holding(t) : \A j \in Holding(t) : i <= j].offset
                  + (address - t[CHOOSE i \in Holding(t) : \A j \in Holding(t) : i <= j].vaddr)
      BY Zenon DEF Elf!ToOffset
    <3> HIDE DEF Holding
    <3> QED
      BY <3>1, <1>2, <1>3, Zenon
  <2> HIDE DEF first
  <2> QED
    BY <2>4, <2>5, <2>6 DEF t
<1>4. CASE Holding(s) = {}
  <2>1. Elf!ToOffset(s, address) = Elf!None
    BY <1>4, Zenon DEF Elf!ToOffset
  <2>2. Elf!ToOffset(t, address) = Elf!None
    <3>1. Holding(t) = {}
      <4> HIDE DEF Holding
      <4> QED
        BY <1>2, <1>4
    <3> QED
      BY <3>1, Zenon DEF Elf!ToOffset
  <2> QED
    BY <2>1, <2>2 DEF t
<1> QED
  BY <1>3, <1>4

(* The notes are looked for where the segments of notes say they are.      *)
LEMMA NotesBySegment ==
    ASSUME NEW one \in ElfFileSpace,
           NEW held, held = Elf!Those(one.segments,
                                      {i \in DOMAIN one.segments : one.segments[i].type = "note"})
    PROVE  /\ (Elf!NoteSegments(one) = <<>>) = (held = <<>>)
           /\ held # <<>> =>
                Elf!NotePlaces(one) = [i \in DOMAIN held |-> <<held[i].offset, held[i].filesz>>]
<1> DEFINE s == one.segments
           t == Only(s, {"type", "offset", "filesz"})
           I == {i \in DOMAIN s : s[i].type = "note"}
           read == Elf!NoteSegments(one)
<1>1. s \in Seq(ProgramHeaders)
  BY DEF ElfFileSpace
<1>2. /\ DOMAIN t = DOMAIN s
      /\ \A i \in DOMAIN s : t[i].type = s[i].type /\ t[i].offset = s[i].offset
           /\ t[i].filesz = s[i].filesz
  BY DEF Only
<1>3. t \in Seq({t[i] : i \in DOMAIN s})
  <2>1. t = [i \in 1..Len(s) |-> t[i]] /\ Len(s) \in Nat /\ DOMAIN s = 1..Len(s)
    BY <1>1 DEF Only
  <2> HIDE DEF t, s
  <2> QED
    BY <2>1
<1>4. Len(t) = Len(s) /\ Len(s) \in Nat /\ DOMAIN s = 1..Len(s)
  <2> HIDE DEF t
  <2> QED
    BY <1>1, <1>2, <1>3
<1>5. {i \in DOMAIN t : t[i].type = "note"} = I
  <2> HIDE DEF t
  <2> QED
    BY <1>2
<1>6. read = Elf!Those(t, I)
  <2>1. Elf!ReadSegments(one, IF one.wide THEN [type |-> 0, offset |-> 8, filesz |-> 32]
                              ELSE [type |-> 0, offset |-> 4, filesz |-> 16]) = t
    BY SegmentsReadAlike
  <2>2. read = Elf!Those(t, {i \in DOMAIN t : t[i].type = "note"})
    <3> HIDE DEF t
    <3> QED
      BY <2>1 DEF Elf!NoteSegments
  <2> QED
    BY <2>2, <1>5
<1>7. held = Elf!Those(s, I)
  OBVIOUS
<1>8. /\ DOMAIN held = DOMAIN read
      /\ (held = <<>>) = (read = <<>>)
      /\ \A k \in DOMAIN held : \E i \in I : held[k] = s[i] /\ read[k] = t[i]
  <2>1. I \subseteq DOMAIN s
    OBVIOUS
  <2> HIDE DEF I, s, t, read
  <2>2. /\ DOMAIN Elf!Those(s, I) = DOMAIN Elf!Those(t, I)
        /\ (Elf!Those(s, I) = <<>>) = (Elf!Those(t, I) = <<>>)
        /\ \A k \in DOMAIN Elf!Those(s, I) :
             \E i \in I : Elf!Those(s, I)[k] = s[i] /\ Elf!Those(t, I)[k] = t[i]
    BY <1>2, <1>4, <2>1, ThoseAlike
  <2> QED
    BY <1>6, <1>7, <2>2
<1>9. \A k \in DOMAIN held : read[k].offset = held[k].offset /\ read[k].filesz = held[k].filesz
  <2> HIDE DEF s, t, read
  <2> QED
    BY <1>2, <1>8
<1>10. ASSUME held # <<>>
       PROVE  Elf!NotePlaces(one) = [i \in DOMAIN held |-> <<held[i].offset, held[i].filesz>>]
  <2>1. Elf!NotePlaces(one) = [i \in DOMAIN read |-> <<read[i].offset, read[i].filesz>>]
    BY <1>8, <1>10 DEF Elf!NotePlaces
  <2> HIDE DEF read
  <2> QED
    BY <2>1, <1>8, <1>9
<1> QED
  BY <1>8, <1>10

(* Without any, a wide file's are looked for in the sections named so.     *)
LEMMA NotesBySection ==
    ASSUME NEW one \in ElfFileSpace, one.wide, one.shstrndx + 1 \in DOMAIN one.sections,
           Elf!NoteSegments(one) = <<>>,
           NEW named, named = Elf!Those(one.sections,
                                        {i \in DOMAIN one.sections : one.sections[i].name = "note"})
    PROVE  Elf!NotePlaces(one) = [i \in DOMAIN named |-> <<named[i].offset, named[i].size>>]
<1> DEFINE s == one.sections
           records == Elf!NoteSectionRecords(one)
           t == [i \in DOMAIN records |-> [records[i] EXCEPT !.name = Elf!Named(one, records, i)]]
           I == {i \in DOMAIN s : s[i].name = "note"}
           read == Elf!NoteSections(one)
<1>1. s \in Seq(SectionHeaders)
  BY DEF ElfFileSpace
<1>2. /\ DOMAIN records = DOMAIN s
      /\ \A i \in DOMAIN s : records[i] = [f \in {"name", "offset", "size"} |-> s[i][f]]
  <2>1. records = Only(s, {"name", "offset", "size"})
    BY SectionsReadAlike
  <2> HIDE DEF records, s
  <2> QED
    BY <2>1 DEF Only
<1> HIDE DEF records
<1>3. ASSUME NEW i \in DOMAIN s
      PROVE  Elf!Named(one, records, i) = s[i].name
  <2> DEFINE index == one.shstrndx + 1
  <2>1. index \in DOMAIN s
    OBVIOUS
  <2>2. records[index] = [f \in {"name", "offset", "size"} |-> s[index][f]]
    BY <1>2, <2>1
  <2>3. records[i] = [f \in {"name", "offset", "size"} |-> s[i][f]]
    BY <1>2, <1>3
  <2>4. records[index].offset = s[index].offset /\ records[i].name = s[i].name
    BY <2>2, <2>3
  <2> QED
    BY <2>4 DEF Elf!Named
<1>4. /\ DOMAIN t = DOMAIN s
      /\ \A i \in DOMAIN s : t[i].name = s[i].name /\ t[i].offset = s[i].offset /\ t[i].size = s[i].size
  <2>1. ASSUME NEW i \in DOMAIN s
        PROVE  t[i].name = s[i].name /\ t[i].offset = s[i].offset /\ t[i].size = s[i].size
    <3>1. t[i] = [records[i] EXCEPT !.name = s[i].name]
      BY <1>2, <1>3
    <3>2. records[i] = [f \in {"name", "offset", "size"} |-> s[i][f]]
      BY <1>2
    <3> HIDE DEF t, s
    <3> QED
      BY <3>1, <3>2
  <2>2. DOMAIN t = DOMAIN s
    BY <1>2
  <2> HIDE DEF t, s
  <2> QED
    BY <2>1, <2>2
<1>5. t \in Seq({t[i] : i \in DOMAIN s})
  <2>1. t = [i \in 1..Len(s) |-> t[i]] /\ Len(s) \in Nat /\ DOMAIN s = 1..Len(s)
    BY <1>1, <1>2
  <2> HIDE DEF t, s
  <2> QED
    BY <2>1
<1>6. Len(t) = Len(s) /\ Len(s) \in Nat /\ DOMAIN s = 1..Len(s)
  <2> HIDE DEF t
  <2> QED
    BY <1>1, <1>4, <1>5
<1>7. {i \in DOMAIN t : t[i].name = "note"} = I
  <2> HIDE DEF t
  <2> QED
    BY <1>4
<1>8. read = Elf!Those(t, I)
  <2>1. read = Elf!Those(t, {i \in DOMAIN t : t[i].name = "note"})
    BY <1>2 DEF Elf!NoteSections, records
  <2> QED
    BY <2>1, <1>7
<1>9. named = Elf!Those(s, I)
  OBVIOUS
<1>10. /\ DOMAIN named = DOMAIN read
       /\ \A k \in DOMAIN named : \E i \in I : named[k] = s[i] /\ read[k] = t[i]
  <2>1. I \subseteq DOMAIN s
    OBVIOUS
  <2> HIDE DEF I, s, t, read
  <2>2. /\ DOMAIN Elf!Those(s, I) = DOMAIN Elf!Those(t, I)
        /\ \A k \in DOMAIN Elf!Those(s, I) :
             \E i \in I : Elf!Those(s, I)[k] = s[i] /\ Elf!Those(t, I)[k] = t[i]
    BY <1>4, <1>6, <2>1, ThoseAlike
  <2> QED
    BY <1>8, <1>9, <2>2
<1>11. \A k \in DOMAIN named : read[k].offset = named[k].offset /\ read[k].size = named[k].size
  <2> HIDE DEF s, t, read
  <2> QED
    BY <1>4, <1>10
<1>12. Elf!NotePlaces(one) = [i \in DOMAIN read |-> <<read[i].offset, read[i].size>>]
  BY DEF Elf!NotePlaces
<1> HIDE DEF read
<1> QED
  BY <1>10, <1>11, <1>12, Zenon

(* A file of ELF headers is read alike.                                   *)
LEMMA ElfReadsAlike ==
    ASSUME file \in ElfFileSpace, file.shstrndx + 1 \in DOMAIN file.sections
    PROVE  HeadersReadAlike
<1> DEFINE sections == Only(file.sections, {"name", "offset", "size"})
           loads == Only(file.segments, {"type", "offset", "vaddr", "filesz"})
           table == file.sections[1].offset
           held == Elf!Those(file.segments, {i \in DOMAIN file.segments : file.segments[i].type = "note"})
           named == Elf!Those(file.sections, {i \in DOMAIN file.sections : file.sections[i].name = "note"})
<1>1. /\ file.sections \in Seq(SectionHeaders) /\ file.segments \in Seq(ProgramHeaders)
      /\ file.shstrndx \in Nat /\ file.address \in Nat \cup {Elf!None}
  BY DEF ElfFileSpace
<1>2. /\ Elf!HashSections(file) = sections /\ Elf!SymverSections(file) = sections
      /\ Elf!ImageSections(file) = sections
  BY SectionsReadAlike
<1>3. /\ Elf!DynamicSegments(file) = loads /\ Elf!SymverLoads(file) = loads
      /\ Only(Elf!SegmentRecords(file), {"type", "offset", "vaddr", "filesz"}) = loads
  <2>1. /\ Elf!DynamicSegments(file) = loads /\ Elf!SymverLoads(file) = loads
        /\ Elf!SegmentRecords(file) =
             Only(file.segments, {"type", "flags", "offset", "vaddr", "filesz", "memsz"})
    BY SegmentsReadAlike
  <2> QED
    BY <2>1 DEF Only
<1>4. table \in Nat
  <2>1. 1 \in DOMAIN file.sections
    BY <1>1
  <2>2. file.sections[1] \in SectionHeaders
    BY <1>1, <2>1
  <2> QED
    BY <2>2 DEF SectionHeaders
<1>5. ASSUME Elf!TableAt(table, Elf!SymverLoads(file), file.address) = "read"
      PROVE  Elf!ToOffset(file.segments, file.address) \in {table, Elf!None}
  <2> DEFINE found == Elf!ToOffset(file.segments, file.address)
  <2>1. Elf!ToOffset(loads, file.address) = found
    BY <1>1, FoundAlike
  <2>2. Elf!TableAt(table, loads, file.address) = "read"
    BY <1>3, <1>5
  <2>3. CASE file.address = Elf!None
    <3>1. \A i \in DOMAIN file.segments : ~(file.segments[i].vaddr <= file.address)
      <4>1. ASSUME NEW i \in DOMAIN file.segments
            PROVE  ~(file.segments[i].vaddr <= file.address)
        <5>1. file.segments[i] \in ProgramHeaders
          BY <1>1
        <5>2. file.segments[i].vaddr \in Nat
          BY <5>1 DEF ProgramHeaders
        <5> QED
          BY <5>2, <2>3 DEF Elf!None
      <4> QED
        BY <4>1
    <3>2. {i \in DOMAIN file.segments :
             /\ file.segments[i].type = "load" /\ file.segments[i].vaddr <= file.address
             /\ file.address < file.segments[i].vaddr + file.segments[i].filesz} = {}
      BY <3>1
    <3> QED
      BY <3>2, Zenon DEF Elf!ToOffset
  <2>4. CASE file.address # Elf!None
    <3> HIDE DEF table, found, loads
    <3>1. table # Elf!None
      BY <1>4 DEF Elf!None
    <3>2. found = Elf!None \/ found = table
      BY <2>1, <2>2, <2>4, <3>1 DEF Elf!TableAt
    <3> QED
      BY <3>2 DEF found
  <2> QED
    BY <2>3, <2>4
<1>6. held # <<>> => Elf!NotePlaces(file) = [i \in DOMAIN held |-> <<held[i].offset, held[i].filesz>>]
  BY NotesBySegment
<1>7. held = <<>> /\ file.wide =>
        Elf!NotePlaces(file) = [i \in DOMAIN named |-> <<named[i].offset, named[i].size>>]
  BY NotesBySegment, NotesBySection
<1> QED
  BY <1>2, <1>3, <1>5, <1>6, <1>7, Zenon DEF HeadersReadAlike

-----------------------------------------------------------------------------
(* A file stays one of its format whatever changes in it, and while nothing *)
(* has, it is as it was written.                                           *)
ElfFileStands(f) == f \in ElfFileSpace /\ f.shstrndx + 1 \in DOMAIN f.sections
FilesStand ==
    /\ damaged \in Nat
    /\ kind = "hash" => file \in HashFileSpace /\ (damaged = 0 => LinkedHash(file))
    /\ kind = "versions" => VersionFileStands(file, damaged)
    /\ kind = "symbol" => file \in SymbolFileSpace /\ (damaged = 0 => file.word = file.linked)
    /\ kind = "notes" => file \in NoteFileSpace
                         /\ (damaged = 0 => file.limit = Notes!TotalBytes(file.notes))
    /\ kind = "elf" => ElfFileStands(file)
    /\ kind = "boxes" => BoxFileStands(file) /\ (damaged = 0 => LaidOut(file))
    /\ kind = "compound" => CompoundFileStands(file) /\ (damaged = 0 => Saved(file))

(* As written, a file is one of its format.                                *)
LEMMA FilesStandAtFirst == Init => FilesStand
<1> SUFFICES ASSUME Init PROVE FilesStand
  OBVIOUS
<1>1. damaged = 0
  BY DEF Init
<1>2. kind = "hash" => file \in HashFileSpace /\ LinkedHash(file)
  BY HashFilesAssumption, Zenon DEF Init
<1>3. kind = "symbol" => file \in SymbolFiles
  BY Zenon DEF Init
<1>4. kind = "notes" => file \in NoteFiles
  BY Zenon DEF Init
<1>5. kind = "symbol" => file \in SymbolFileSpace /\ file.word = file.linked
  BY <1>3, SymbolFilesAssumption
<1>6. kind = "notes" => file \in NoteFileSpace /\ file.limit = Notes!TotalBytes(file.notes)
  BY <1>4, NoteFilesAssumption
<1>7. kind = "versions" => file \in VersionFiles
  BY Zenon DEF Init
<1>8. kind = "versions" => VersionFileStands(file, 0)
  <2> SUFFICES ASSUME kind = "versions" PROVE VersionFileStands(file, 0)
    OBVIOUS
  <2>1. /\ file.records \in VersionTables
        /\ \E sort \in {"definitions", "needs"}, spread \in BOOLEAN :
              file = LinkedFile(sort, file.records, spread)
    BY <1>7, VersionFilesAssumption
  <2> QED
    BY <2>1, LinkedFileStands
<1>9. kind = "elf" => file \in ElfFiles
  BY Zenon DEF Init
<1>10. kind = "elf" => ElfFileStands(file)
  BY <1>9, ElfFilesAssumption DEF ElfFileStands
<1>11. kind = "boxes" => file \in BoxFiles
  BY Zenon DEF Init
<1>12. kind = "boxes" => BoxFileStands(file) /\ LaidOut(file)
  BY <1>11, BoxFilesAssumption
<1>13. kind = "compound" => file \in CompoundFiles
  BY Zenon DEF Init
<1>14. kind = "compound" => CompoundFileStands(file) /\ Saved(file)
  BY <1>13, CompoundFilesAssumption
<1> QED
  BY <1>1, <1>2, <1>5, <1>6, <1>8, <1>10, <1>12, <1>14 DEF FilesStand

(* A header of another kind or of another length is a header still, and a  *)
(* file of headers one of headers.                                         *)
LEMMA RestatedStands ==
    ASSUME NEW one, BoxFileStands(one), NEW at \in DOMAIN one.heads, NEW head \in PieceHeaders(one.walk)
    PROVE  BoxFileStands([one EXCEPT !.heads[at] = head])
<1> DEFINE heads == [one.heads EXCEPT ![at] = head]
           two == [one EXCEPT !.heads[at] = head]
<1>1. one.heads \in [DOMAIN one.heads -> PieceHeaders(one.walk)] /\ DOMAIN one.heads \subseteq Nat
  BY DEF BoxFileStands
<1>2. heads \in [DOMAIN one.heads -> PieceHeaders(one.walk)] /\ DOMAIN heads = DOMAIN one.heads
  BY <1>1
<1>3. one = [walk |-> one.walk, stray |-> one.stray, length |-> one.length, heads |-> one.heads,
             held |-> one.held]
  BY DEF BoxFileStands
<1> HIDE DEF heads
<1>4. two = [walk |-> one.walk, stray |-> one.stray, length |-> one.length, heads |-> heads,
             held |-> one.held]
  BY <1>3 DEF heads
<1> HIDE DEF two
<1>5. /\ two.walk = one.walk /\ two.stray = one.stray /\ two.length = one.length
      /\ two.heads = heads /\ two.held = one.held
  BY <1>4
<1>6. one.stray \in PieceHeaders(one.walk) /\ one.length \in Nat
  BY DEF BoxFileStands
<1>7. BoxFileStands(two)
  BY <1>1, <1>2, <1>4, <1>5, <1>6 DEF BoxFileStands
<1> QED
  BY <1>7 DEF two

(* And headers of sections or segments that moved are headers.             *)
LEMMA MovedStands ==
    ASSUME NEW one, ElfFileStands(one), NEW w \in Nat
    PROVE  /\ \A i \in DOMAIN one.sections : ElfFileStands([one EXCEPT !.sections[i].offset = w])
           /\ \A i \in DOMAIN one.segments : ElfFileStands([one EXCEPT !.segments[i].vaddr = w])
<1>1. /\ one \in ElfFileSpace /\ one.shstrndx + 1 \in DOMAIN one.sections
      /\ one.sections \in Seq(SectionHeaders) /\ one.segments \in Seq(ProgramHeaders)
  BY DEF ElfFileStands, ElfFileSpace
<1>2. ASSUME NEW i \in DOMAIN one.sections
      PROVE  ElfFileStands([one EXCEPT !.sections[i].offset = w])
  <2> DEFINE sections == [one.sections EXCEPT ![i].offset = w]
  <2>1. one.sections[i] \in SectionHeaders
    BY <1>1
  <2>2. [one.sections[i] EXCEPT !.offset = w] \in SectionHeaders
    BY <2>1 DEF SectionHeaders
  <2>3. sections \in Seq(SectionHeaders) /\ DOMAIN sections = DOMAIN one.sections
    BY <1>1, <2>2
  <2> HIDE DEF sections
  <2>4. [one EXCEPT !.sections = sections] \in ElfFileSpace
    BY <1>1, <2>3 DEF ElfFileSpace
  <2>5. ElfFileStands([one EXCEPT !.sections = sections])
    BY <1>1, <2>3, <2>4 DEF ElfFileStands, ElfFileSpace
  <2> QED
    BY <2>5 DEF sections
<1>3. ASSUME NEW i \in DOMAIN one.segments
      PROVE  ElfFileStands([one EXCEPT !.segments[i].vaddr = w])
  <2> DEFINE segments == [one.segments EXCEPT ![i].vaddr = w]
  <2>1. one.segments[i] \in ProgramHeaders
    BY <1>1
  <2>2. [one.segments[i] EXCEPT !.vaddr = w] \in ProgramHeaders
    BY <2>1 DEF ProgramHeaders
  <2>3. segments \in Seq(ProgramHeaders)
    BY <1>1, <2>2
  <2> HIDE DEF segments
  <2>4. [one EXCEPT !.segments = segments] \in ElfFileSpace
    BY <1>1, <2>3 DEF ElfFileSpace
  <2>5. ElfFileStands([one EXCEPT !.segments = segments])
    BY <1>1, <2>4 DEF ElfFileStands, ElfFileSpace
  <2> QED
    BY <2>5 DEF segments
<1> QED
  BY <1>2, <1>3

(* And a compound file with another word in a sector, or an entry that     *)
(* starts elsewhere, is a compound file.                                   *)
LEMMA RepagedStands ==
    ASSUME NEW one, CompoundFileStands(one), NEW s \in DOMAIN one.pages,
           NEW page \in [1..Compound!PerSector -> Int]
    PROVE  CompoundFileStands([one EXCEPT !.pages[s] = page])
<1> DEFINE pages == [one.pages EXCEPT ![s] = page]
           two == [one EXCEPT !.pages[s] = page]
<1>1. /\ DOMAIN one.pages \subseteq Nat
      /\ one.pages \in [DOMAIN one.pages -> [1..Compound!PerSector -> Int]]
  BY DEF CompoundFileStands
<1>2. DOMAIN pages = DOMAIN one.pages /\ pages \in [DOMAIN one.pages -> [1..Compound!PerSector -> Int]]
  BY <1>1
<1>3. one = [pages |-> one.pages, slots |-> one.slots, difat |-> one.difat,
             directory |-> one.directory, mini |-> one.mini, cutoff |-> one.cutoff,
             root |-> one.root, entries |-> one.entries, parts |-> one.parts]
  BY DEF CompoundFileStands
<1> HIDE DEF pages
<1>4. two = [pages |-> pages, slots |-> one.slots, difat |-> one.difat,
             directory |-> one.directory, mini |-> one.mini, cutoff |-> one.cutoff,
             root |-> one.root, entries |-> one.entries, parts |-> one.parts]
  BY <1>3 DEF pages
<1> HIDE DEF two
<1>5. /\ two.pages = pages /\ two.slots = one.slots /\ two.difat = one.difat
      /\ two.directory = one.directory /\ two.mini = one.mini /\ two.cutoff = one.cutoff
      /\ two.root = one.root /\ two.entries = one.entries /\ two.parts = one.parts
  BY <1>4
<1>6. /\ one.slots \in Seq(Int) /\ {one.difat, one.directory, one.mini} \subseteq Int
      /\ one.cutoff \in Nat /\ one.root \in DirectoryEntries /\ one.entries \in Seq(DirectoryEntries)
  BY DEF CompoundFileStands
<1>7. CompoundFileStands(two)
  BY <1>1, <1>2, <1>4, <1>5, <1>6 DEF CompoundFileStands
<1> QED
  BY <1>7 DEF two
LEMMA ReenteredStands ==
    ASSUME NEW one, CompoundFileStands(one), NEW i \in DOMAIN one.entries,
           NEW entry \in DirectoryEntries
    PROVE  CompoundFileStands([one EXCEPT !.entries[i] = entry])
<1> DEFINE entries == [one.entries EXCEPT ![i] = entry]
           two == [one EXCEPT !.entries[i] = entry]
<1>1. one.entries \in Seq(DirectoryEntries)
  BY DEF CompoundFileStands
<1>2. entries \in Seq(DirectoryEntries)
  BY <1>1
<1>3. one = [pages |-> one.pages, slots |-> one.slots, difat |-> one.difat,
             directory |-> one.directory, mini |-> one.mini, cutoff |-> one.cutoff,
             root |-> one.root, entries |-> one.entries, parts |-> one.parts]
  BY DEF CompoundFileStands
<1> HIDE DEF entries
<1>4. two = [pages |-> one.pages, slots |-> one.slots, difat |-> one.difat,
             directory |-> one.directory, mini |-> one.mini, cutoff |-> one.cutoff,
             root |-> one.root, entries |-> entries, parts |-> one.parts]
  BY <1>3 DEF entries
<1> HIDE DEF two
<1>5. /\ two.pages = one.pages /\ two.slots = one.slots /\ two.difat = one.difat
      /\ two.directory = one.directory /\ two.mini = one.mini /\ two.cutoff = one.cutoff
      /\ two.root = one.root /\ two.entries = entries /\ two.parts = one.parts
  BY <1>4
<1>6. /\ DOMAIN one.pages \subseteq Nat
      /\ one.pages \in [DOMAIN one.pages -> [1..Compound!PerSector -> Int]]
      /\ one.slots \in Seq(Int) /\ {one.difat, one.directory, one.mini} \subseteq Int
      /\ one.cutoff \in Nat /\ one.root \in DirectoryEntries
  BY DEF CompoundFileStands
<1>7. CompoundFileStands(two)
  BY <1>2, <1>4, <1>5, <1>6 DEF CompoundFileStands
<1> QED
  BY <1>7 DEF two

(* No change makes it anything else.                                       *)
LEMMA FilesStandOn == FilesStand /\ [Next]_vars => FilesStand'
<1> SUFFICES ASSUME FilesStand, [Next]_vars PROVE FilesStand'
  OBVIOUS
<1>1. damaged \in Nat
  BY DEF FilesStand
<1>2. ASSUME NEW one, Changes(one), kind = "script"
      PROVE  FilesStand'
  BY <1>1, <1>2 DEF FilesStand, Changes
<1>3. CASE Rewords
  <2>1. PICK i \in DOMAIN file.words, w \in Words : Changes([file EXCEPT !.words[i] = w])
    BY <1>3 DEF Rewords
  <2>2. kind = "hash" /\ file \in HashFileSpace
    BY <1>3 DEF Rewords, FilesStand
  <2>3. w \in Nat
    BY WordsAssumption
  <2>4. file.words \in Seq(Nat) /\ i \in 1..Len(file.words)
    BY <2>2 DEF HashFileSpace
  <2>5. [file.words EXCEPT ![i] = w] \in Seq(Nat)
    BY <2>3, <2>4
  <2>6. [file EXCEPT !.words[i] = w] \in HashFileSpace
    BY <2>2, <2>5 DEF HashFileSpace
  <2>7. file' = [file EXCEPT !.words[i] = w] /\ kind' = kind /\ damaged' = damaged + 1
    BY <2>1 DEF Changes
  <2> QED
    BY <1>1, <2>2, <2>6, <2>7 DEF FilesStand
<1>4. CASE Resizes
  <2>1. PICK size \in 0..(Len(file.words) + 1) : Changes([file EXCEPT !.size = size])
    BY <1>4 DEF Resizes
  <2>2. kind = "hash" /\ file \in HashFileSpace
    BY <1>4 DEF Resizes, FilesStand
  <2>3. size \in Nat
    OBVIOUS
  <2>4. [file EXCEPT !.size = size] \in HashFileSpace
    BY <2>2, <2>3 DEF HashFileSpace
  <2>5. file' = [file EXCEPT !.size = size] /\ kind' = kind /\ damaged' = damaged + 1
    BY <2>1 DEF Changes
  <2> QED
    BY <1>1, <2>2, <2>4, <2>5 DEF FilesStand
<1>5. CASE Reversions
  <2>1. PICK w \in 0..15 : Changes([file EXCEPT !.word = w])
    BY <1>5 DEF Reversions
  <2>2. kind = "symbol" /\ file \in SymbolFileSpace
    BY <1>5 DEF Reversions, FilesStand
  <2>3. w \in Nat
    OBVIOUS
  <2>4. [file EXCEPT !.word = w] \in SymbolFileSpace
    BY <2>2, <2>3 DEF SymbolFileSpace
  <2>5. file' = [file EXCEPT !.word = w] /\ kind' = kind /\ damaged' = damaged + 1
    BY <2>1 DEF Changes
  <2> QED
    BY <1>1, <2>2, <2>4, <2>5 DEF FilesStand
<1>6. CASE Shortens
  <2>1. PICK limit \in 0..file.limit : Changes([file EXCEPT !.limit = limit])
    BY <1>6 DEF Shortens
  <2>2. kind = "notes" /\ file \in NoteFileSpace
    BY <1>6 DEF Shortens, FilesStand
  <2>3. limit \in Nat
    OBVIOUS
  <2>4. [file EXCEPT !.limit = limit] \in NoteFileSpace
    BY <2>2, <2>3 DEF NoteFileSpace
  <2>5. file' = [file EXCEPT !.limit = limit] /\ kind' = kind /\ damaged' = damaged + 1
    BY <2>1 DEF Changes
  <2> QED
    BY <1>1, <2>2, <2>4, <2>5 DEF FilesStand
<1>7. CASE Relinks
  <2>1. PICK at \in DOMAIN file.table.heads, w \in Words :
          Changes([file EXCEPT !.table.heads[at].next = w])
    BY <1>7 DEF Relinks
  <2>2. kind = "versions" /\ VersionFileStands(file, damaged)
    BY <1>7 DEF Relinks, FilesStand
  <2>3. w \in Nat
    BY WordsAssumption
  <2>4. VersionFileStands([file EXCEPT !.table.heads[at].next = w], damaged + 1)
    BY <1>1, <2>2, <2>3, RelinkedStands
  <2>5. /\ file' = [file EXCEPT !.table.heads[at].next = w]
        /\ kind' = kind /\ damaged' = damaged + 1
    BY <2>1 DEF Changes
  <2> QED
    BY <1>1, <2>2, <2>4, <2>5 DEF FilesStand
<1>8. CASE Recounts
  <2>1. PICK n \in Words : Changes([file EXCEPT !.table.claimed = n])
    BY <1>8 DEF Recounts
  <2>2. kind = "versions" /\ VersionFileStands(file, damaged)
    BY <1>8 DEF Recounts, FilesStand
  <2>3. n \in Nat
    BY WordsAssumption
  <2>4. VersionFileStands([file EXCEPT !.table.claimed = n], damaged + 1)
    BY <1>1, <2>2, <2>3, RecountedStands
  <2>5. file' = [file EXCEPT !.table.claimed = n] /\ kind' = kind /\ damaged' = damaged + 1
    BY <2>1 DEF Changes
  <2> QED
    BY <1>1, <2>2, <2>4, <2>5 DEF FilesStand
<1>9. CASE MovesSection \/ MovesSegment
  <2>1. kind = "elf" /\ ElfFileStands(file)
    BY <1>9 DEF MovesSection, MovesSegment, FilesStand
  <2>2. PICK one : Changes(one) /\ ElfFileStands(one)
    <3>1. \A w \in Words : w \in Nat
      BY WordsAssumption
    <3> QED
      BY <1>9, <2>1, <3>1, MovedStands DEF MovesSection, MovesSegment
  <2>3. file' = one /\ kind' = kind /\ damaged' = damaged + 1
    BY <2>2 DEF Changes
  <2> QED
    BY <1>1, <2>1, <2>2, <2>3 DEF FilesStand
<1>10. CASE Restates \/ Reforms
  <2>1. kind = "boxes" /\ BoxFileStands(file)
    BY <1>10 DEF Restates, Reforms, FilesStand
  <2>2. PICK at \in DOMAIN file.heads, head \in PieceHeaders(file.walk) :
          Changes([file EXCEPT !.heads[at] = head])
    <3>1. /\ file.length \in Nat
          /\ \A at \in DOMAIN file.heads : file.heads[at] \in PieceHeaders(file.walk)
      BY <2>1 DEF BoxFileStands
    <3>2. CASE Restates
      <4>1. PICK at \in DOMAIN file.heads, w \in 0..file.length :
              Changes([file EXCEPT !.heads[at].size = w])
        BY <3>2 DEF Restates
      <4>2. [file.heads[at] EXCEPT !.size = w] \in PieceHeaders(file.walk)
        BY <3>1 DEF PieceHeaders
      <4> QED
        BY <4>1, <4>2
    <3>3. CASE Reforms
      <4>1. PICK at \in DOMAIN file.heads, form \in Forms(file.walk) :
              Changes([file EXCEPT !.heads[at].form = form])
        BY <3>3 DEF Reforms
      <4>2. [file.heads[at] EXCEPT !.form = form] \in PieceHeaders(file.walk)
        BY <3>1 DEF PieceHeaders
      <4> QED
        BY <4>1, <4>2
    <3> QED
      BY <1>10, <3>2, <3>3
  <2>3. BoxFileStands([file EXCEPT !.heads[at] = head])
    BY <2>1, RestatedStands
  <2>4. /\ file' = [file EXCEPT !.heads[at] = head] /\ kind' = kind /\ damaged' = damaged + 1
    BY <2>2 DEF Changes
  <2> QED
    BY <1>1, <2>1, <2>3, <2>4 DEF FilesStand
<1>11. CASE Rechains \/ Restarts
  <2>1. kind = "compound" /\ CompoundFileStands(file)
    BY <1>11 DEF Rechains, Restarts, FilesStand
  <2>2. \A w \in DOMAIN file.pages \cup Compound!Finished : w \in Int
    BY <2>1 DEF CompoundFileStands, Compound!Finished, Compound!End, Compound!Free
  <2>3. PICK one : Changes(one) /\ CompoundFileStands(one)
    <3>1. CASE Rechains
      <4>1. PICK s \in DOMAIN file.pages, i \in 1..Compound!PerSector,
                 w \in DOMAIN file.pages \cup Compound!Finished :
              Changes([file EXCEPT !.pages[s][i] = w])
        BY <3>1 DEF Rechains
      <4>2. [file.pages[s] EXCEPT ![i] = w] \in [1..Compound!PerSector -> Int]
        BY <2>1, <2>2 DEF CompoundFileStands
      <4>3. CompoundFileStands([file EXCEPT !.pages[s] = [file.pages[s] EXCEPT ![i] = w]])
        BY <2>1, <4>2, RepagedStands
      <4> QED
        BY <4>1, <4>3
    <3>2. CASE Restarts
      <4>1. PICK i \in DOMAIN file.entries, s \in DOMAIN file.pages \cup Compound!Finished :
              Changes([file EXCEPT !.entries[i].start = s])
        BY <3>2 DEF Restarts
      <4>2. file.entries[i] \in DirectoryEntries
        BY <2>1 DEF CompoundFileStands
      <4>3. [file.entries[i] EXCEPT !.start = s] \in DirectoryEntries
        BY <2>2, <4>2 DEF DirectoryEntries
      <4>4. CompoundFileStands([file EXCEPT !.entries[i] = [file.entries[i] EXCEPT !.start = s]])
        BY <2>1, <4>3, ReenteredStands
      <4> QED
        BY <4>1, <4>4
    <3> QED
      BY <1>11, <3>1, <3>2
  <2>4. file' = one /\ kind' = kind /\ damaged' = damaged + 1
    BY <2>3 DEF Changes
  <2> QED
    BY <1>1, <2>1, <2>3, <2>4 DEF FilesStand
<1>13. CASE Misreads
  <2>1. kind = "script"
    BY <1>13 DEF Misreads
  <2>2. \E one : Changes(one)
    BY <1>13, Zenon DEF Misreads
  <2> QED
    BY <1>2, <2>1, <2>2
<1>12. CASE UNCHANGED vars
  BY <1>12 DEF vars, FilesStand
<1> QED
  BY <1>3, <1>4, <1>5, <1>6, <1>7, <1>8, <1>9, <1>10, <1>11, <1>12, <1>13 DEF Next

(* So it is one of its format always.                                      *)
LEMMA FilesAlwaysStand == Spec => []FilesStand
BY FilesStandAtFirst, FilesStandOn, PTL DEF Spec

(* A hash section, of either format and with whatever words in it, whose   *)
(* account closes in make-hash-fixtures.py's check holds every name it is  *)
(* to hold where a loader's lookup finds it.                               *)
THEOREM ClosedTablesAlwaysFindEveryName == Spec => []ClosedTablesFindEveryName
<1>1. FilesStand => ClosedTablesFindEveryName
  <2> SUFFICES ASSUME FilesStand, kind = "hash", HashCloses,
                      NEW i \in DOMAIN file.symbols, i >= Hash!Floor(HashRead)
               PROVE  Hash!Lookup(HashRead, file.symbols, i)
    BY DEF ClosedTablesFindEveryName
  <2>1. file \in HashFileSpace
    BY DEF FilesStand
  <2>2. ~HashRead.broken /\ Hash!AccountCloses(HashRead, file.symbols)
    BY DEF HashCloses
  <2>3. HashRead \in Tables
    BY <2>1, <2>2, WalkReads DEF HashRead
  <2>4. file.symbols \in Seq(Nat)
    BY <2>1 DEF HashFileSpace
  <2> QED
    BY <2>2, <2>3, <2>4, ClosedFindsAll
<1> QED
  BY <1>1, FilesAlwaysStand, PTL

(* A hash section as ld.lld wrote it, of either format, is read whole and  *)
(* its account closes in make-hash-fixtures.py's check, for any number of  *)
(* names, buckets and mask words: no fixture that is right is refused.     *)
THEOREM LinkersTablesAlwaysClose == Spec => []LinkersTablesClose
<1>1. FilesStand => LinkersTablesClose
  <2> SUFFICES ASSUME FilesStand, kind = "hash", damaged = 0 PROVE HashCloses
    BY DEF LinkersTablesClose
  <2>1. file \in HashFileSpace /\ LinkedHash(file)
    BY DEF FilesStand
  <2> QED
    BY <2>1, LinkedCloses DEF HashCloses, HashRead
<1> QED
  BY <1>1, FilesAlwaysStand, PTL

(* A symbol row that both listings agree with in make-symver-fixtures.py   *)
(* states the index and the name the symbol was linked to, whatever the    *)
(* file defines and needs and whatever the row's word has become.          *)
THEOREM SymbolsAlwaysKeepTheirVersion == Spec => []SymbolsKeepTheirVersion
<1>1. FilesStand => SymbolsKeepTheirVersion
  <2>1. CASE kind = "symbol"
    BY <2>1, SymbolKeepsItsVersion DEF FilesStand
  <2>2. CASE kind # "symbol"
    BY <2>2 DEF SymbolsKeepTheirVersion
  <2> QED
    BY <2>1, <2>2
<1> QED
  BY <1>1, FilesAlwaysStand, PTL

(* The version records of a file that ld.lld wrote, read after any number  *)
(* of their distances have changed, or the count the dynamic table states  *)
(* has, or nothing: make-symver-fixtures.py reads them whole, each record  *)
(* once and with its own names, or refuses the file; as written, it never  *)
(* refuses it.                                                             *)
THEOREM VersionsAlwaysWholeOrRefused == Spec => []VersionsWholeOrRefused
<1>1. FilesStand => VersionsWholeOrRefused
  <2>1. CASE kind = "versions"
    BY <2>1, VersionsStand DEF FilesStand
  <2>2. CASE kind # "versions"
    BY <2>2 DEF VersionsWholeOrRefused
  <2> QED
    BY <2>1, <2>2
<1> QED
  BY <1>1, FilesAlwaysStand, PTL

(* What make-note-fixtures.py takes for the notes of a file are all of     *)
(* them, when it accepts them at all, and they are accepted as written;    *)
(* and a property chain written in fours, or of one entry, is read as it   *)
(* is, however long.                                                       *)
THEOREM NotesAlwaysAccountedFor == Spec => []NotesAccountedFor
<1>1. FilesStand => NotesAccountedFor
  <2> SUFFICES ASSUME FilesStand, kind = "notes" PROVE NotesAccountedFor
    BY DEF NotesAccountedFor
  <2> DEFINE notes == file.notes
             limit == file.limit
             sizes == file.properties
             align == file.align
             written == (damaged = 0)
  <2>1. /\ notes \in Seq(NoteRecords) /\ limit \in Nat /\ sizes \in Seq(Nat) /\ align \in {4, 8}
        /\ written => limit = Notes!TotalBytes(notes)
    BY DEF FilesStand, NoteFileSpace
  <2>2. written \in BOOLEAN
    OBVIOUS
  <2>3. Cardinality(Notes!Listing(notes)) = Len(notes) =>
          LET read == Notes!NotesIn(notes, limit)
              listing == Notes!Listing(notes)
              agreed == Notes!Agreed(read, listing, listing)
          IN  (written => agreed) /\ (agreed => read.found = notes)
    <3> HIDE DEF notes, limit, written
    <3> QED
      BY <2>1, <2>2, NotesStand
  <2>4. align = 4 \/ Len(sizes) <= 1 =>
          Notes!PropertyEntries(Notes!WrittenEntries(sizes, align),
                                Notes!WrittenBytes(sizes, align)) = sizes
    <3> HIDE DEF sizes, align
    <3> QED
      BY <2>1, ChainReadAsWritten
  <2> QED
    BY <2>3, <2>4, Zenon DEF NotesAccountedFor
<1> QED
  BY <1>1, FilesAlwaysStand, PTL

(* However many sections and segments a file has and wherever its headers  *)
(* say they are, in both classes: the scripts that read the headers for    *)
(* themselves read the same ones, take a version table only where its      *)
(* section and the dynamic table name the same byte, and look at the notes *)
(* of the segments, or of the sections where no segment holds any.         *)
THEOREM HeadersAlwaysReadAlike == Spec => []HeadersReadAlike
<1>1. FilesStand => HeadersReadAlike
  <2>1. CASE kind = "elf"
    BY <2>1, ElfReadsAlike DEF FilesStand, ElfFileStands
  <2>2. CASE kind # "elf"
    BY <2>2 DEF HeadersReadAlike
  <2> QED
    BY <2>1, <2>2
<1> QED
  BY <1>1, FilesAlwaysStand, PTL

(* What the readings agree on.  A reading's column is seen by a check that  *)
(* holds this reading to another one in it; a script's lists are backed if  *)
(* none of the columns on one word is compared, no reading is held to       *)
(* itself, and whatever is published is seen or is on one word.             *)
Seen(compares, column, a) == \E x \in compares : x.column = column /\ a \in {x.a, x.b}
Backed(compares, publishes, alone) ==
    /\ \A x \in compares : x.column \notin alone /\ x.a # x.b
    /\ \A p \in publishes : /\ p = [column |-> p.column, a |-> p.a]
                            /\ p.column \in alone \/ Seen(compares, p.column, p.a)

(* A comparison among those made sees its column in both of its readings.   *)
LEMMA HeldSeen ==
    ASSUME NEW a, NEW bs, NEW columns, NEW c \in columns, NEW b \in bs, NEW C,
           \A x \in Agree!Held(a, bs, columns) : x \in C
    PROVE  Seen(C, c, a) /\ Seen(C, c, b)
<1> DEFINE x == [column |-> c, a |-> a, b |-> b]
<1>1. x \in Agree!Held(a, bs, columns)
  BY DEF Agree!Held
<1>2. x \in C /\ x.column = c /\ x.a = a /\ x.b = b
  BY <1>1
<1> QED
  BY <1>2 DEF Seen
(* What a reading publishes is backed column by column.                     *)
LEMMA GivenSeen ==
    ASSUME NEW a, NEW columns, NEW C, NEW O, \A c \in columns : c \in O \/ Seen(C, c, a),
           NEW p \in Agree!From(a, columns)
    PROVE  /\ p = [column |-> p.column, a |-> p.a]
           /\ p.column \in O \/ Seen(C, p.column, p.a)
  BY DEF Agree!From

(* The lists of the script for the hash tables are backed.                  *)
LEMMA HashBacked == Backed(Agree!HashCompares, Agree!HashPublishes, Agree!HashOnOneWord)
<1> DEFINE C == Agree!HashCompares
           O == Agree!HashOnOneWord
<1>1. ASSUME NEW x \in C PROVE x.column \notin O /\ x.a # x.b
  BY DEF Agree!HashCompares, Agree!Held, Agree!HashOnOneWord
<1>2. ASSUME NEW c \in {"buckets", "symoffset", "masks", "heads", "bloom", "sysv_chains"}
      PROVE  Seen(C, c, "walk")
  BY HeldSeen DEF Agree!HashCompares
<1>3. ASSUME NEW c \in {"chains"}
      PROVE  Seen(C, c, "walk")
  BY HeldSeen DEF Agree!HashCompares
<1>4. ASSUME NEW c \in {"tables", "off", "bytes", "info"}
      PROVE  Seen(C, c, "walk")
  BY HeldSeen DEF Agree!HashCompares
<1>5. ASSUME NEW c \in {"chainwords", "reached"}
      PROVE  Seen(C, c, "walk")
  BY HeldSeen DEF Agree!HashCompares
<1>6. \A c \in {"tables", "bits", "off", "bytes", "info", "buckets", "chains", "sysv_chains",
                "symoffset", "masks", "heads", "reached"} :
        c \in O \/ Seen(C, c, "walk")
  BY <1>2, <1>3, <1>4, <1>5, SMT DEF Agree!HashOnOneWord
<1>7. \A c \in {"symbols", "names"} :
        c \in O \/ Seen(C, c, "dynsym")
  BY DEF Agree!HashOnOneWord
<1> QED
  BY <1>1, <1>6, <1>7, GivenSeen, Zenon DEF Backed, Agree!HashPublishes
(* The lists of the script for the symbol versions are backed.              *)
LEMMA SymverBacked == Backed(Agree!SymverCompares, Agree!SymverPublishes, Agree!SymverOnOneWord)
<1> DEFINE C == Agree!SymverCompares
           O == Agree!SymverOnOneWord
<1>1. ASSUME NEW x \in C PROVE x.column \notin O /\ x.a # x.b
  BY DEF Agree!SymverCompares, Agree!Held, Agree!SymverOnOneWord
<1>2. ASSUME NEW c \in {"counts", "symbol_index", "symbol_name", "def_index", "def_name",
                      "def_base", "need_file", "need_name", "need_index"}
      PROVE  Seen(C, c, "walk")
  BY HeldSeen DEF Agree!SymverCompares
<1>3. ASSUME NEW c \in {"def_count"}
      PROVE  Seen(C, c, "walk")
  BY HeldSeen DEF Agree!SymverCompares
<1>4. ASSUME NEW c \in {"def_hash", "need_hash"}
      PROVE  Seen(C, c, "walk")
  BY HeldSeen DEF Agree!SymverCompares
<1>5. ASSUME NEW c \in {"place"}
      PROVE  Seen(C, c, "walk")
  BY HeldSeen DEF Agree!SymverCompares
<1>6. \A c \in {"counts", "place", "bits", "symbol_index", "symbol_name", "local_name",
                "symbol_hidden", "def_index", "def_hash", "def_base", "def_name", "def_count",
                "def_version", "need_file", "need_name", "need_hash", "need_index", "need_flags",
                "need_version"} :
        c \in O \/ Seen(C, c, "walk")
  BY <1>2, <1>3, <1>4, <1>5, SMT DEF Agree!SymverOnOneWord
<1> QED
  BY <1>1, <1>6, GivenSeen, Zenon DEF Backed, Agree!SymverPublishes
(* The lists of the script for the notes are backed.                        *)
LEMMA NoteBacked == Backed(Agree!NoteCompares, Agree!NotePublishes, Agree!NoteOnOneWord)
<1> DEFINE C == Agree!NoteCompares
           O == Agree!NoteOnOneWord
<1>1. ASSUME NEW x \in C PROVE x.column \notin O /\ x.a # x.b
  BY DEF Agree!NoteCompares, Agree!Held, Agree!NoteOnOneWord
<1>2. ASSUME NEW c \in {"entries", "owner", "descsz"}
      PROVE  Seen(C, c, "walk") /\ Seen(C, c, "readelf")
  BY HeldSeen DEF Agree!NoteCompares
<1>3. ASSUME NEW c \in {"word", "text"}
      PROVE  Seen(C, c, "readelf")
  BY HeldSeen DEF Agree!NoteCompares
<1>4. \A c \in {"entries", "bits", "walked", "place", "namesz", "descsz", "type", "owner",
                "prop_type", "prop_bytes", "prop_value"} :
        c \in O \/ Seen(C, c, "walk")
  BY <1>2, SMT DEF Agree!NoteOnOneWord
<1>5. \A c \in {"word", "text"} :
        c \in O \/ Seen(C, c, "readelf")
  BY <1>3, SMT DEF Agree!NoteOnOneWord
<1> QED
  BY <1>1, <1>4, <1>5, GivenSeen, Zenon DEF Backed, Agree!NotePublishes
(* The lists of the script for the dynamic table are backed.                *)
LEMMA DynamicBacked == Backed(Agree!DynamicCompares, Agree!DynamicPublishes, Agree!DynamicOnOneWord)
<1> DEFINE C == Agree!DynamicCompares
           O == Agree!DynamicOnOneWord
<1>1. ASSUME NEW x \in C PROVE x.column \notin O /\ x.a # x.b
  BY DEF Agree!DynamicCompares, Agree!Held, Agree!DynamicOnOneWord
<1>2. ASSUME NEW c \in {"entries", "tag"}
      PROVE  Seen(C, c, "walk") /\ Seen(C, c, "readelf")
  BY HeldSeen DEF Agree!DynamicCompares
<1>3. ASSUME NEW c \in {"value", "text"}
      PROVE  Seen(C, c, "walk") /\ Seen(C, c, "readelf")
  BY HeldSeen DEF Agree!DynamicCompares
<1>4. ASSUME NEW c \in {"name", "word", "text"}
      PROVE  Seen(C, c, "readelf")
  BY HeldSeen DEF Agree!DynamicCompares
<1>5. \A c \in {"entries", "width", "bits", "segment", "tag", "value", "worded_value", "text",
                "unquoted_text"} :
        c \in O \/ Seen(C, c, "walk")
  BY <1>2, <1>3, SMT DEF Agree!DynamicOnOneWord
<1>6. \A c \in {"name", "word"} :
        c \in O \/ Seen(C, c, "readelf")
  BY <1>4, SMT DEF Agree!DynamicOnOneWord
<1> QED
  BY <1>1, <1>5, <1>6, GivenSeen, Zenon DEF Backed, Agree!DynamicPublishes
(* The lists of the script for the segments are backed.                     *)
LEMMA SegmentBacked == Backed(Agree!SegmentCompares, Agree!SegmentPublishes, Agree!SegmentOnOneWord)
<1> DEFINE C == Agree!SegmentCompares
           O == Agree!SegmentOnOneWord
<1>1. ASSUME NEW x \in C PROVE x.column \notin O /\ x.a # x.b
  BY DEF Agree!SegmentCompares, Agree!Held, Agree!SegmentOnOneWord
<1>2. ASSUME NEW c \in {"count", "off", "vaddr", "paddr", "filesz", "memsz", "align", "flags"}
      PROVE  Seen(C, c, "walk") /\ Seen(C, c, "readelf")
  BY HeldSeen DEF Agree!SegmentCompares
<1>3. ASSUME NEW c \in {"type"}
      PROVE  Seen(C, c, "walk")
  BY HeldSeen DEF Agree!SegmentCompares
<1>4. ASSUME NEW c \in {"name"}
      PROVE  Seen(C, c, "readelf")
  BY HeldSeen DEF Agree!SegmentCompares
<1>5. \A c \in {"count", "type", "off", "vaddr", "paddr", "filesz", "memsz", "flags", "align",
                "bits", "file_size"} :
        c \in O \/ Seen(C, c, "walk")
  BY <1>2, <1>3, SMT DEF Agree!SegmentOnOneWord
<1>6. \A c \in {"name"} :
        c \in O \/ Seen(C, c, "readelf")
  BY <1>4, SMT DEF Agree!SegmentOnOneWord
<1> QED
  BY <1>1, <1>5, <1>6, GivenSeen, Zenon DEF Backed, Agree!SegmentPublishes
(* The lists of the script for the relocations of objects are backed.       *)
LEMMA ElfRelocBacked ==
    Backed(Agree!ElfRelocCompares, Agree!ElfRelocPublishes, Agree!ElfRelocOnOneWord)
<1> DEFINE C == Agree!ElfRelocCompares
           O == Agree!ElfRelocOnOneWord
<1>1. ASSUME NEW x \in C PROVE x.column \notin O /\ x.a # x.b
  BY DEF Agree!ElfRelocCompares, Agree!Held, Agree!ElfRelocOnOneWord
<1>2. ASSUME NEW c \in {"count", "offset", "symbol", "addend"}
      PROVE  Seen(C, c, "readelf")
  BY HeldSeen DEF Agree!ElfRelocCompares
<1>3. ASSUME NEW c \in {"table", "type_name"}
      PROVE  Seen(C, c, "readelf")
  BY HeldSeen DEF Agree!ElfRelocCompares
<1>4. \A c \in {"count", "offset", "type", "type_name", "lone_type_name", "symbol",
                "unnamed_symbol", "symbolic", "addend", "table", "section", "machine", "bits",
                "file_size"} :
        c \in O \/ Seen(C, c, "readelf")
  BY <1>2, <1>3, SMT DEF Agree!ElfRelocOnOneWord
<1> QED
  BY <1>1, <1>4, GivenSeen, Zenon DEF Backed, Agree!ElfRelocPublishes
(* The lists of the script for the exports are backed.                      *)
LEMMA ExportBacked == Backed(Agree!ExportCompares, Agree!ExportPublishes, Agree!ExportOnOneWord)
<1> DEFINE C == Agree!ExportCompares
           O == Agree!ExportOnOneWord
<1>1. ASSUME NEW x \in C PROVE x.column \notin O /\ x.a # x.b
  BY DEF Agree!ExportCompares, Agree!Held, Agree!ExportOnOneWord
<1>2. ASSUME NEW c \in {"slots", "ordinal", "hole"}
      PROVE  Seen(C, c, "walk")
  BY HeldSeen DEF Agree!ExportCompares
<1>3. ASSUME NEW c \in {"rva", "size", "dll", "base", "functions", "names", "section", "hint",
                      "tables"}
      PROVE  Seen(C, c, "walk")
  BY HeldSeen DEF Agree!ExportCompares
<1>4. ASSUME NEW c \in {"name", "slot_rva", "forward"}
      PROVE  Seen(C, c, "walk")
  BY HeldSeen DEF Agree!ExportCompares
<1>5. \A c \in {"rva", "size", "offset", "section", "dll", "base", "functions", "names",
                "ordinal", "name", "hole", "forward", "hint", "slot_rva", "address",
                "slot_offset", "slot_section", "tables", "characteristics", "stamp",
                "image_base", "file_size"} :
        c \in O \/ Seen(C, c, "walk")
  BY <1>2, <1>3, <1>4, SMT DEF Agree!ExportOnOneWord
<1> QED
  BY <1>1, <1>5, GivenSeen, Zenon DEF Backed, Agree!ExportPublishes
(* The lists of the script for the imports are backed.                      *)
LEMMA ImportBacked == Backed(Agree!ImportCompares, Agree!ImportPublishes, Agree!ImportOnOneWord)
<1> DEFINE C == Agree!ImportCompares
           O == Agree!ImportOnOneWord
<1>1. ASSUME NEW x \in C PROVE x.column \notin O /\ x.a # x.b
  BY DEF Agree!ImportCompares, Agree!Held, Agree!ImportOnOneWord
<1>2. ASSUME NEW c \in {"dll", "ilt", "iat", "thunks", "name", "hint", "ordinal"}
      PROVE  Seen(C, c, "walk")
  BY HeldSeen DEF Agree!ImportCompares
<1>3. ASSUME NEW c \in {"slot"}
      PROVE  Seen(C, c, "walk")
  BY HeldSeen DEF Agree!ImportCompares
<1>4. \A c \in {"directory_rva", "directory_size", "directory_offset", "directory_section",
                "dll", "ilt", "ilt_absent", "iat", "names_from", "stamp", "chain", "thunks",
                "name", "hint", "ordinal", "slot", "thunk", "wide", "plus", "file_size"} :
        c \in O \/ Seen(C, c, "walk")
  BY <1>2, <1>3, SMT DEF Agree!ImportOnOneWord
<1> QED
  BY <1>1, <1>4, GivenSeen, Zenon DEF Backed, Agree!ImportPublishes
(* The lists of the script for the resources are backed.                    *)
LEMMA ResourceBacked ==
    Backed(Agree!ResourceCompares, Agree!ResourcePublishes, Agree!ResourceOnOneWord)
<1> DEFINE C == Agree!ResourceCompares
           O == Agree!ResourceOnOneWord
<1>1. ASSUME NEW x \in C PROVE x.column \notin O /\ x.a # x.b
  BY DEF Agree!ResourceCompares, Agree!Held, Agree!ResourceOnOneWord
<1>2. ASSUME NEW c \in {"bodies", "rva", "codepage"}
      PROVE  Seen(C, c, "walk") /\ Seen(C, c, "llvm")
  BY HeldSeen DEF Agree!ResourceCompares
<1>3. ASSUME NEW c \in {"type", "name", "language", "size"}
      PROVE  Seen(C, c, "walk") /\ Seen(C, c, "llvm")
  BY HeldSeen DEF Agree!ResourceCompares
<1>4. ASSUME NEW c \in {"type", "name", "language", "size"}
      PROVE  Seen(C, c, "walk") /\ Seen(C, c, "windows")
  BY HeldSeen DEF Agree!ResourceCompares
<1>5. ASSUME NEW c \in {"offset"}
      PROVE  Seen(C, c, "walk") /\ Seen(C, c, "windows")
  BY HeldSeen DEF Agree!ResourceCompares
<1>6. \A c \in {"bodies", "type", "name", "language", "rva", "size", "codepage", "offset",
                "directory", "machine", "wide", "identifier_sort", "quotes", "file_size"} :
        c \in O \/ Seen(C, c, "walk")
  BY <1>2, <1>3, <1>5, SMT DEF Agree!ResourceOnOneWord
<1>7. \A c \in {"type", "name", "language", "rva", "size", "codepage", "type_word", "name_word"} :
        c \in O \/ Seen(C, c, "llvm")
  BY <1>2, <1>3, SMT DEF Agree!ResourceOnOneWord
<1>8. \A c \in {"size", "other_types"} :
        c \in O \/ Seen(C, c, "windows")
  BY <1>4, SMT DEF Agree!ResourceOnOneWord
<1> QED
  BY <1>1, <1>6, <1>7, <1>8, GivenSeen, Zenon DEF Backed, Agree!ResourcePublishes
(* The lists of the script for the version resource are backed.             *)
LEMMA VersionBacked == Backed(Agree!VersionCompares, Agree!VersionPublishes, Agree!VersionOnOneWord)
<1> DEFINE C == Agree!VersionCompares
           O == Agree!VersionOnOneWord
<1>1. ASSUME NEW x \in C PROVE x.column \notin O /\ x.a # x.b
  BY DEF Agree!VersionCompares, Agree!Held, Agree!VersionOnOneWord
<1>2. ASSUME NEW c \in {"fixed", "tables", "key", "value"}
      PROVE  Seen(C, c, "walk") /\ Seen(C, c, "version_dll")
  BY HeldSeen DEF Agree!VersionCompares
<1>3. \A c \in {"fixed", "tables", "string_count", "key", "value", "body_size"} :
        c \in O \/ Seen(C, c, "walk")
  BY <1>2, SMT DEF Agree!VersionOnOneWord
<1>4. \A c \in {"block_size"} :
        c \in O \/ Seen(C, c, "version_dll")
  BY DEF Agree!VersionOnOneWord
<1> QED
  BY <1>1, <1>3, <1>4, GivenSeen, Zenon DEF Backed, Agree!VersionPublishes
(* The lists of the script for the thread-local storage are backed.         *)
LEMMA TlsBacked == Backed(Agree!TlsCompares, Agree!TlsPublishes, Agree!TlsOnOneWord)
<1> DEFINE C == Agree!TlsCompares
           O == Agree!TlsOnOneWord
<1>1. ASSUME NEW x \in C PROVE x.column \notin O /\ x.a # x.b
  BY DEF Agree!TlsCompares, Agree!Held, Agree!TlsOnOneWord
<1>2. ASSUME NEW c \in {"start", "end", "index", "callbacks", "zero", "char"}
      PROVE  Seen(C, c, "walk") /\ Seen(C, c, "llvm")
  BY HeldSeen DEF Agree!TlsCompares
<1>3. ASSUME NEW c \in {"directory_rva", "bits", "base", "callback_count"}
      PROVE  Seen(C, c, "walk")
  BY HeldSeen DEF Agree!TlsCompares
<1>4. ASSUME NEW c \in {"named_callback"}
      PROVE  Seen(C, c, "walk")
  BY HeldSeen DEF Agree!TlsCompares
<1>5. ASSUME NEW c \in {"export_name"}
      PROVE  Seen(C, c, "llvm")
  BY HeldSeen DEF Agree!TlsCompares
<1>6. \A c \in {"start", "end", "index", "callbacks", "zero", "char", "directory_rva",
                "directory_offset", "directory_size", "bits", "base", "callback_count",
                "named_callback", "anonymous_callback", "placed_offset", "placed_section"} :
        c \in O \/ Seen(C, c, "walk")
  BY <1>2, <1>3, <1>4, SMT DEF Agree!TlsOnOneWord
<1>7. \A c \in {"export_name"} :
        c \in O \/ Seen(C, c, "llvm")
  BY <1>5, SMT DEF Agree!TlsOnOneWord
<1> QED
  BY <1>1, <1>6, <1>7, GivenSeen, Zenon DEF Backed, Agree!TlsPublishes
(* The lists of the script for the debug directory are backed.              *)
LEMMA DebugBacked == Backed(Agree!DebugCompares, Agree!DebugPublishes, Agree!DebugOnOneWord)
<1> DEFINE C == Agree!DebugCompares
           O == Agree!DebugOnOneWord
<1>1. ASSUME NEW x \in C PROVE x.column \notin O /\ x.a # x.b
  BY DEF Agree!DebugCompares, Agree!Held, Agree!DebugOnOneWord
<1>2. ASSUME NEW c \in {"entries", "type", "time", "size", "rva", "ptr", "major", "minor", "guid"}
      PROVE  Seen(C, c, "walk") /\ Seen(C, c, "llvm")
  BY HeldSeen DEF Agree!DebugCompares
<1>3. ASSUME NEW c \in {"cv_body", "sig", "age", "path"}
      PROVE  Seen(C, c, "walk")
  BY HeldSeen DEF Agree!DebugCompares
<1>4. ASSUME NEW c \in {"type_word"}
      PROVE  Seen(C, c, "llvm")
  BY HeldSeen DEF Agree!DebugCompares
<1>5. \A c \in {"entries", "type", "time", "size", "rva", "ptr", "major", "minor", "guid",
                "cv_body", "other_body", "sig", "age", "path", "unterminated_path", "cv",
                "directory_rva", "directory_size", "directory_offset"} :
        c \in O \/ Seen(C, c, "walk")
  BY <1>2, <1>3, SMT DEF Agree!DebugOnOneWord
<1>6. \A c \in {"type_word"} :
        c \in O \/ Seen(C, c, "llvm")
  BY <1>4, SMT DEF Agree!DebugOnOneWord
<1> QED
  BY <1>1, <1>5, <1>6, GivenSeen, Zenon DEF Backed, Agree!DebugPublishes
(* The lists of the script for the base relocations are backed.             *)
LEMMA RelocBacked == Backed(Agree!RelocCompares, Agree!RelocPublishes, Agree!RelocOnOneWord)
<1> DEFINE C == Agree!RelocCompares
           O == Agree!RelocOnOneWord
<1>1. ASSUME NEW x \in C PROVE x.column \notin O /\ x.a # x.b
  BY DEF Agree!RelocCompares, Agree!Held, Agree!RelocOnOneWord
<1>2. ASSUME NEW c \in {"count", "rva", "pairing"}
      PROVE  Seen(C, c, "pefile") /\ Seen(C, c, "llvm")
  BY HeldSeen DEF Agree!RelocCompares
<1>3. \A c \in {"count", "rva", "type", "directory_rva", "directory_size", "directory_offset",
                "directory_section", "blocks", "page", "block_size", "fixup_offset",
                "fixup_section", "file_size"} :
        c \in O \/ Seen(C, c, "pefile")
  BY <1>2, SMT DEF Agree!RelocOnOneWord
<1>4. \A c \in {"type_name"} :
        c \in O \/ Seen(C, c, "llvm")
  BY DEF Agree!RelocOnOneWord
<1> QED
  BY <1>1, <1>3, <1>4, GivenSeen, Zenon DEF Backed, Agree!RelocPublishes
(* The lists of the script for sections and strings are backed.             *)
LEMMA ImageBacked == Backed(Agree!ImageCompares, Agree!ImagePublishes, Agree!ImageOnOneWord)
<1> DEFINE C == Agree!ImageCompares
           O == Agree!ImageOnOneWord
<1>1. ASSUME NEW x \in C PROVE x.column \notin O /\ x.a # x.b
  BY DEF Agree!ImageCompares, Agree!Held, Agree!ImageOnOneWord
<1>2. ASSUME NEW c \in {"section_start", "section_length", "image_address", "header_tables",
                      "load_offset"}
      PROVE  Seen(C, c, "walk")
  BY HeldSeen DEF Agree!ImageCompares
<1>3. ASSUME NEW c \in {"string_offset", "string_length", "string_text"}
      PROVE  Seen(C, c, "walk")
  BY HeldSeen DEF Agree!ImageCompares
<1>4. \A c \in {"section_start", "section_length", "image_address", "string_offset",
                "string_length", "string_text", "string_address", "string_section",
                "elf_address", "unnamed_region", "regions", "claimed", "unloaded",
                "string_count", "scanned", "kind", "name", "header_tables", "load_offset",
                "load_end", "header_fields", "file_size"} :
        c \in O \/ Seen(C, c, "walk")
  BY <1>2, <1>3, SMT DEF Agree!ImageOnOneWord
<1> QED
  BY <1>1, <1>4, GivenSeen, Zenon DEF Backed, Agree!ImagePublishes
(* The lists of the script for the Mach-O files are backed.                 *)
LEMMA MachoBacked == Backed(Agree!MachoCompares, Agree!MachoPublishes, Agree!MachoOnOneWord)
<1> DEFINE C == Agree!MachoCompares
           O == Agree!MachoOnOneWord
<1>1. ASSUME NEW x \in C PROVE x.column \notin O /\ x.a # x.b
  BY DEF Agree!MachoCompares, Agree!Held, Agree!MachoOnOneWord
<1>2. ASSUME NEW c \in {"sections", "section_name", "section_size", "code"}
      PROVE  Seen(C, c, "walk") /\ Seen(C, c, "objdump")
  BY HeldSeen DEF Agree!MachoCompares
<1>3. ASSUME NEW c \in {"symbol_name", "symbol_value", "symbol_section", "symbol_scope"}
      PROVE  Seen(C, c, "walk")
  BY HeldSeen DEF Agree!MachoCompares
<1>4. ASSUME NEW c \in {"fixups", "fixup_address", "fixup_bytes", "pcrel", "extern", "symbol",
                      "symbol_index", "pairing"}
      PROVE  Seen(C, c, "walk") /\ Seen(C, c, "readobj")
  BY HeldSeen DEF Agree!MachoCompares
<1>5. ASSUME NEW c \in {"type_name"}
      PROVE  Seen(C, c, "readobj") /\ Seen(C, c, "objdump")
  BY HeldSeen DEF Agree!MachoCompares
<1>6. \A c \in {"sections", "section_name", "section_size", "code", "section_offset",
                "data_kind", "section_segment", "symbol_name", "symbol_value", "symbol_section",
                "symbol_scope", "unplaced_symbol", "fixups", "fixup_address", "fixup_bytes",
                "pcrel", "extern", "symbol", "symbol_index", "type", "local_index", "scattered",
                "bits"} :
        c \in O \/ Seen(C, c, "walk")
  BY <1>2, <1>3, <1>4, SMT DEF Agree!MachoOnOneWord
<1>7. \A c \in {"type_name"} :
        c \in O \/ Seen(C, c, "readobj")
  BY <1>5, SMT DEF Agree!MachoOnOneWord
<1>8. \A c \in {"section_word"} :
        c \in O \/ Seen(C, c, "objdump")
  BY DEF Agree!MachoOnOneWord
<1> QED
  BY <1>1, <1>6, <1>7, <1>8, GivenSeen, Zenon DEF Backed, Agree!MachoPublishes
(* The lists of the script for the COFF objects are backed.                 *)
LEMMA CoffBacked == Backed(Agree!CoffCompares, Agree!CoffPublishes, Agree!CoffOnOneWord)
<1> DEFINE C == Agree!CoffCompares
           O == Agree!CoffOnOneWord
<1>1. ASSUME NEW x \in C PROVE x.column \notin O /\ x.a # x.b
  BY DEF Agree!CoffCompares, Agree!Held, Agree!CoffOnOneWord
<1>2. ASSUME NEW c \in {"sections", "section_name", "section_size", "section_offset",
                      "symbol_name", "symbol_value", "symbol_section", "symbol_type",
                      "symbol_class", "fixups", "fixup_section", "fixup_offset", "type",
                      "fixup_symbol"}
      PROVE  Seen(C, c, "walk") /\ Seen(C, c, "objdump")
  BY HeldSeen DEF Agree!CoffCompares
<1>3. \A c \in {"machine", "sections", "section_name", "section_size", "section_offset",
                "characteristics", "section_header", "headers", "name_offset", "broken",
                "symbol_name", "symbol_value", "symbol_section", "symbol_type", "symbol_class",
                "symbol_aux", "file_symbol", "unlisted_symbol", "fixups", "fixup_section",
                "fixup_offset", "type", "fixup_symbol", "file_size"} :
        c \in O \/ Seen(C, c, "walk")
  BY <1>2, SMT DEF Agree!CoffOnOneWord
<1>4. \A c \in {"sections", "section_name", "section_size", "section_offset", "symbol_name",
                "symbol_value", "symbol_section", "symbol_type", "symbol_class", "fixups",
                "fixup_section", "fixup_offset", "type", "fixup_symbol", "architecture", "flags",
                "aux"} :
        c \in O \/ Seen(C, c, "objdump")
  BY <1>2, SMT DEF Agree!CoffOnOneWord
<1> QED
  BY <1>1, <1>3, <1>4, GivenSeen, Zenon DEF Backed, Agree!CoffPublishes
(* The lists of the script for the type records are backed.                 *)
LEMMA CodeviewBacked ==
    Backed(Agree!CodeviewCompares, Agree!CodeviewPublishes, Agree!CodeviewOnOneWord)
<1> DEFINE C == Agree!CodeviewCompares
           O == Agree!CodeviewOnOneWord
<1>1. ASSUME NEW x \in C PROVE x.column \notin O /\ x.a # x.b
  BY DEF Agree!CodeviewCompares, Agree!Held, Agree!CodeviewOnOneWord
<1>2. ASSUME NEW c \in {"named_kind", "type_name", "record_bytes", "member_name", "member_offset",
                      "enumerator"}
      PROVE  Seen(C, c, "walk") /\ Seen(C, c, "pdbutil")
  BY HeldSeen DEF Agree!CodeviewCompares
<1>3. \A c \in {"records", "header", "index", "named_kind", "type_name", "member_name",
                "member_offset", "enumerator", "member_type", "other_kind", "arguments",
                "target", "count", "size", "options", "attributes", "array", "stream_place",
                "file_size"} :
        c \in O \/ Seen(C, c, "walk")
  BY <1>2, SMT DEF Agree!CodeviewOnOneWord
<1>4. \A c \in {"primitive", "text"} :
        c \in O \/ Seen(C, c, "pdbutil")
  BY DEF Agree!CodeviewOnOneWord
<1> QED
  BY <1>1, <1>3, <1>4, GivenSeen, Zenon DEF Backed, Agree!CodeviewPublishes
(* The lists of the script for the PDB files are backed.                    *)
LEMMA PdbBacked == Backed(Agree!PdbCompares, Agree!PdbPublishes, Agree!PdbOnOneWord)
<1> DEFINE C == Agree!PdbCompares
           O == Agree!PdbOnOneWord
<1>1. ASSUME NEW x \in C PROVE x.column \notin O /\ x.a # x.b
  BY DEF Agree!PdbCompares, Agree!CodeviewCompares, Agree!Held, Agree!PdbOnOneWord,
         Agree!CodeviewOnOneWord
<1>2. ASSUME NEW c \in {"named_kind", "type_name", "record_bytes", "member_name", "member_offset",
                      "enumerator"}
      PROVE  Seen(C, c, "walk") /\ Seen(C, c, "pdbutil")
  BY HeldSeen DEF Agree!PdbCompares, Agree!CodeviewCompares
<1>3. ASSUME NEW c \in {"page", "blocks", "streams", "stream_size", "stream_blocks", "stream_name",
                      "signature", "age", "types", "type_bytes", "has"}
      PROVE  Seen(C, c, "walk") /\ Seen(C, c, "pdbutil")
  BY HeldSeen DEF Agree!PdbCompares, Agree!CodeviewCompares
<1>4. \A c \in {"records", "header", "index", "named_kind", "type_name", "member_name",
                "member_offset", "enumerator", "member_type", "other_kind", "arguments",
                "target", "count", "size", "options", "attributes", "array", "stream_place",
                "file_size"} :
        c \in O \/ Seen(C, c, "walk")
  BY <1>2, SMT DEF Agree!PdbOnOneWord, Agree!CodeviewOnOneWord
<1>5. \A c \in {"primitive", "text"} :
        c \in O \/ Seen(C, c, "pdbutil")
  BY DEF Agree!PdbOnOneWord, Agree!CodeviewOnOneWord
<1>6. \A c \in {"page", "blocks", "free", "streams", "directory", "stream_size", "stream_blocks",
                "stream_name", "version", "signature", "age", "guid", "features", "types",
                "type_bytes", "first_and_last", "has", "has_pdb", "magic", "type_header",
                "unprinted_line"} :
        c \in O \/ Seen(C, c, "walk")
  BY <1>3, SMT DEF Agree!PdbOnOneWord, Agree!CodeviewOnOneWord
<1> QED
  BY <1>1, <1>4, <1>5, <1>6, GivenSeen, Zenon
     DEF Backed, Agree!PdbPublishes, Agree!CodeviewPublishes
(* The lists of the script for the HEIF files are backed.                   *)
LEMMA HeifBacked == Backed(Agree!HeifCompares, Agree!HeifPublishes, Agree!HeifOnOneWord)
<1> DEFINE C == Agree!HeifCompares
           O == Agree!HeifOnOneWord
<1>1. ASSUME NEW x \in C PROVE x.column \notin O /\ x.a # x.b
  BY DEF Agree!HeifCompares, Agree!Held, Agree!HeifOnOneWord
<1>2. ASSUME NEW c \in {"coded", "visible", "deepest", "primaries", "transfer", "matrix", "range"}
      PROVE  Seen(C, c, "walk") /\ Seen(C, c, "pillow")
  BY HeldSeen DEF Agree!HeifCompares
<1>3. \A c \in {"coded", "coded_under_a_crop", "visible", "deepest", "other_depths", "primaries",
                "transfer", "matrix", "range", "boxes", "brand", "compat", "handler", "items",
                "primary", "descs", "data", "box", "crop_divisors", "channels", "lone_colour",
                "broken", "file_size"} :
        c \in O \/ Seen(C, c, "walk")
  BY <1>2, SMT DEF Agree!HeifOnOneWord
<1>4. \A c \in {"coded", "visible", "deepest", "primaries", "transfer", "matrix", "range",
                "frames", "chroma", "mimetype", "primary"} :
        c \in O \/ Seen(C, c, "pillow")
  BY <1>2, SMT DEF Agree!HeifOnOneWord
<1> QED
  BY <1>1, <1>3, <1>4, GivenSeen, Zenon DEF Backed, Agree!HeifPublishes
(* The lists of the script for the Photoshop files are backed.              *)
LEMMA PsdBacked == Backed(Agree!PsdCompares, Agree!PsdPublishes, Agree!PsdOnOneWord)
<1> DEFINE C == Agree!PsdCompares
           O == Agree!PsdOnOneWord
<1>1. ASSUME NEW x \in C PROVE x.column \notin O /\ x.a # x.b
  BY DEF Agree!PsdCompares, Agree!Held, Agree!PsdOnOneWord
<1>2. ASSUME NEW c \in {"size", "resource_ids"}
      PROVE  Seen(C, c, "walk") /\ Seen(C, c, "psd_tools")
  BY HeldSeen DEF Agree!PsdCompares
<1>3. ASSUME NEW c \in {"size", "resource_ids"}
      PROVE  Seen(C, c, "walk") /\ Seen(C, c, "pillow")
  BY HeldSeen DEF Agree!PsdCompares
<1>4. ASSUME NEW c \in {"channels", "mode", "mode_name", "resource_names"}
      PROVE  Seen(C, c, "walk") /\ Seen(C, c, "psd_tools")
  BY HeldSeen DEF Agree!PsdCompares
<1>5. ASSUME NEW c \in {"resource_sizes"}
      PROVE  Seen(C, c, "walk") /\ Seen(C, c, "pillow")
  BY HeldSeen DEF Agree!PsdCompares
<1>6. ASSUME NEW c \in {"layers"}
      PROVE  Seen(C, c, "psd_tools") /\ Seen(C, c, "pillow")
  BY HeldSeen DEF Agree!PsdCompares
<1>7. \A c \in {"size", "channels", "mode", "mode_name", "resource_ids", "resource_names",
                "resource_sizes", "version", "reserved", "depth", "sections", "resource_label",
                "resource_place", "compression", "payload", "cut_document", "tables",
                "file_size"} :
        c \in O \/ Seen(C, c, "walk")
  BY <1>2, <1>4, <1>5, SMT DEF Agree!PsdOnOneWord
<1>8. \A c \in {"size", "channels", "mode", "mode_name", "resource_ids", "layers", "layer_names",
                "version", "depth"} :
        c \in O \/ Seen(C, c, "psd_tools")
  BY <1>2, <1>4, <1>6, SMT DEF Agree!PsdOnOneWord
<1>9. \A c \in {"size", "resource_ids", "resource_sizes", "layers", "pillow_mode",
                "resource_label"} :
        c \in O \/ Seen(C, c, "pillow")
  BY <1>3, <1>5, <1>6, SMT DEF Agree!PsdOnOneWord
<1> QED
  BY <1>1, <1>7, <1>8, <1>9, GivenSeen, Zenon DEF Backed, Agree!PsdPublishes
(* The lists of the script for the OpenPGP files are backed.                *)
LEMMA PgpBacked == Backed(Agree!PgpCompares, Agree!PgpPublishes, Agree!PgpOnOneWord)
<1> DEFINE C == Agree!PgpCompares
           O == Agree!PgpOnOneWord
<1>1. ASSUME NEW x \in C PROVE x.column \notin O /\ x.a # x.b
  BY DEF Agree!PgpCompares, Agree!Held, Agree!PgpOnOneWord
<1>2. ASSUME NEW c \in {"offset", "tag", "tag_name", "header_length", "payload_length",
                      "indeterminate", "signature_class", "signature_hash", "user",
                      "literal_name", "literal_body", "key", "session_key"}
      PROVE  Seen(C, c, "walk") /\ Seen(C, c, "gpg")
  BY HeldSeen DEF Agree!PgpCompares
<1>3. \A c \in {"packets", "kind", "format", "ctb", "offset", "tag", "tag_name", "unnamed_tag",
                "header_length", "payload_length", "indeterminate", "signature_version",
                "signature_class", "signature_key", "signature_hash", "user", "literal_name",
                "literal_body", "literal_fields", "key", "session_key", "descend", "ends",
                "file_size"} :
        c \in O \/ Seen(C, c, "walk")
  BY <1>2, SMT DEF Agree!PgpOnOneWord
<1>4. \A c \in {"offset", "tag", "tag_name", "header_length", "payload_length", "indeterminate",
                "ctb", "flags", "detail", "printed"} :
        c \in O \/ Seen(C, c, "gpg")
  BY <1>2, SMT DEF Agree!PgpOnOneWord
<1> QED
  BY <1>1, <1>3, <1>4, GivenSeen, Zenon DEF Backed, Agree!PgpPublishes
(* The lists of the script for the Arrow files are backed.                  *)
LEMMA ArrowBacked == Backed(Agree!ArrowCompares, Agree!ArrowPublishes, Agree!ArrowOnOneWord)
<1> DEFINE C == Agree!ArrowCompares
           O == Agree!ArrowOnOneWord
<1>1. ASSUME NEW x \in C PROVE x.column \notin O /\ x.a # x.b
  BY DEF Agree!ArrowCompares, Agree!Held, Agree!ArrowOnOneWord
<1>2. ASSUME NEW c \in {"messages", "head", "meta", "body", "version", "next", "rows", "nodes",
                      "field_name", "nullable"}
      PROVE  Seen(C, c, "walk") /\ Seen(C, c, "pyarrow")
  BY HeldSeen DEF Agree!ArrowCompares
<1>3. ASSUME NEW c \in {"block_at", "block_meta", "block_body", "dictionary_at", "dictionaries"}
      PROVE  Seen(C, c, "walk") /\ Seen(C, c, "footer")
  BY HeldSeen DEF Agree!ArrowCompares
<1>4. ASSUME NEW c \in {"batches", "footer_name"}
      PROVE  Seen(C, c, "footer") /\ Seen(C, c, "pyarrow")
  BY HeldSeen DEF Agree!ArrowCompares
<1>5. ASSUME NEW c \in {"codec"}
      PROVE  Seen(C, c, "walk")
  BY HeldSeen DEF Agree!ArrowCompares
<1>6. \A c \in {"messages", "head", "at", "meta", "body", "version", "next", "rows", "nodes",
                "field_name", "nullable", "field_type", "children", "buffers", "codec",
                "later_codec", "frame", "dictionary", "endianness", "framing", "ends",
                "file_size", "first_and_last_bytes"} :
        c \in O \/ Seen(C, c, "walk")
  BY <1>2, <1>5, SMT DEF Agree!ArrowOnOneWord
<1>7. \A c \in {"block_at", "block_meta", "block_body", "dictionary_at", "dictionaries",
                "batches", "footer_name", "footer_place", "footer_version", "footer_field",
                "dictionary_size"} :
        c \in O \/ Seen(C, c, "footer")
  BY <1>3, <1>4, SMT DEF Agree!ArrowOnOneWord
<1>8. \A c \in {"messages", "head", "meta", "body", "version", "next", "rows", "nodes",
                "field_name", "nullable", "batches", "all_rows", "version_name", "types",
                "schema"} :
        c \in O \/ Seen(C, c, "pyarrow")
  BY <1>2, <1>4, SMT DEF Agree!ArrowOnOneWord
<1> QED
  BY <1>1, <1>6, <1>7, <1>8, GivenSeen, Zenon DEF Backed, Agree!ArrowPublishes
(* The lists of the script for the Parquet files are backed.                *)
LEMMA ParquetBacked == Backed(Agree!ParquetCompares, Agree!ParquetPublishes, Agree!ParquetOnOneWord)
<1> DEFINE C == Agree!ParquetCompares
           O == Agree!ParquetOnOneWord
<1>1. ASSUME NEW x \in C PROVE x.column \notin O /\ x.a # x.b
  BY DEF Agree!ParquetCompares, Agree!Held, Agree!ParquetOnOneWord
<1>2. ASSUME NEW c \in {"footer_length", "version", "rows", "created", "groups", "schema",
                      "column_name", "group_rows", "group_bytes", "group_columns", "path",
                      "values", "compressed", "uncompressed", "codec", "type", "data_page",
                      "dictionary_page", "nulls", "encoding_count"}
      PROVE  Seen(C, c, "walk") /\ Seen(C, c, "pyarrow")
  BY HeldSeen DEF Agree!ParquetCompares
<1>3. ASSUME NEW c \in {"consumed"}
      PROVE  Seen(C, c, "walk")
  BY HeldSeen DEF Agree!ParquetCompares
<1>4. \A c \in {"footer_at", "footer_length", "consumed", "version", "rows", "created", "groups",
                "schema", "leaves", "column_name", "column_type", "column_length", "repetition",
                "children", "converted", "group_rows", "group_bytes", "group_columns", "path",
                "values", "compressed", "uncompressed", "codec", "type", "encodings",
                "data_page", "dictionary_page", "nulls", "unconfirmed_nulls", "min", "max",
                "file_size"} :
        c \in O \/ Seen(C, c, "walk")
  BY <1>2, <1>3, SMT DEF Agree!ParquetOnOneWord
<1>5. \A c \in {"codec", "type"} :
        c \in O \/ Seen(C, c, "pyarrow")
  BY <1>2, SMT DEF Agree!ParquetOnOneWord
<1> QED
  BY <1>1, <1>4, <1>5, GivenSeen, Zenon DEF Backed, Agree!ParquetPublishes
(* The lists of the script for the ONNX models are backed.                  *)
LEMMA OnnxBacked == Backed(Agree!OnnxCompares, Agree!OnnxPublishes, Agree!OnnxOnOneWord)
<1> DEFINE C == Agree!OnnxCompares
           O == Agree!OnnxOnOneWord
<1>1. ASSUME NEW x \in C PROVE x.column \notin O /\ x.a # x.b
  BY DEF Agree!OnnxCompares, Agree!Held, Agree!OnnxOnOneWord
<1>2. ASSUME NEW c \in {"size", "nodes", "tensors", "inputs", "outputs", "ir", "producer",
                      "producer_version", "domain", "model_version", "doc", "opset",
                      "graph_name", "region", "op", "node_name", "node_inputs", "node_outputs",
                      "value_type", "value_dims", "tensor_type", "tensor_name", "tensor_dims",
                      "raw", "data_counts", "location"}
      PROVE  Seen(C, c, "walk") /\ Seen(C, c, "onnx")
  BY HeldSeen DEF Agree!OnnxCompares
<1>3. ASSUME NEW c \in {"element_name"}
      PROVE  Seen(C, c, "onnx")
  BY HeldSeen DEF Agree!OnnxCompares
<1>4. \A c \in {"size", "nodes", "tensors", "inputs", "outputs", "ir", "producer",
                "producer_version", "domain", "model_version", "doc", "opset", "graph_name",
                "op", "node_name", "node_inputs", "node_outputs", "value_name", "value_type",
                "value_dims", "tensor_type", "tensor_name", "tensor_dims", "raw", "data_counts",
                "location", "first_bytes"} :
        c \in O \/ Seen(C, c, "walk")
  BY <1>2, SMT DEF Agree!OnnxOnOneWord
<1>5. \A c \in {"element_name"} :
        c \in O \/ Seen(C, c, "onnx")
  BY <1>3, SMT DEF Agree!OnnxOnOneWord
<1> QED
  BY <1>1, <1>4, <1>5, GivenSeen, Zenon DEF Backed, Agree!OnnxPublishes
(* The lists of the script for the DER files are backed.                    *)
LEMMA DerBacked == Backed(Agree!DerCompares, Agree!DerPublishes, Agree!DerOnOneWord)
<1> DEFINE C == Agree!DerCompares
           O == Agree!DerOnOneWord
<1>1. ASSUME NEW x \in C PROVE x.column \notin O /\ x.a # x.b
  BY DEF Agree!DerCompares, Agree!Held, Agree!DerOnOneWord
<1>2. ASSUME NEW c \in {"objects", "offset", "depth", "header_length", "length", "form", "oid",
                      "oid_name", "not_before", "not_after"}
      PROVE  Seen(C, c, "walk") /\ Seen(C, c, "asn1parse")
  BY HeldSeen DEF Agree!DerCompares
<1>3. ASSUME NEW c \in {"version", "serial", "signature", "public_key", "bits"}
      PROVE  Seen(C, c, "walk") /\ Seen(C, c, "x509")
  BY HeldSeen DEF Agree!DerCompares
<1>4. \A c \in {"objects", "offset", "depth", "header_length", "length", "form", "oid",
                "oid_name", "not_before", "not_after", "version", "serial", "signature",
                "public_key", "bits", "unprinted_field", "name_value", "name_type", "name_count",
                "tag", "point", "end", "file_size"} :
        c \in O \/ Seen(C, c, "walk")
  BY <1>2, <1>3, SMT DEF Agree!DerOnOneWord
<1>5. \A c \in {"objects", "offset", "depth", "header_length", "length", "form", "oid_name",
                "not_before", "not_after", "tag_name", "other_value"} :
        c \in O \/ Seen(C, c, "asn1parse")
  BY <1>2, SMT DEF Agree!DerOnOneWord
<1>6. \A c \in {"version", "serial", "signature", "public_key", "bits", "name_line", "time_line"} :
        c \in O \/ Seen(C, c, "x509")
  BY <1>3, SMT DEF Agree!DerOnOneWord
<1> QED
  BY <1>1, <1>4, <1>5, <1>6, GivenSeen, Zenon DEF Backed, Agree!DerPublishes
(* The lists of the script for the schemas are backed.                      *)
LEMMA XsdBacked == Backed(Agree!XsdCompares, Agree!XsdPublishes, Agree!XsdOnOneWord)
<1> DEFINE C == Agree!XsdCompares
           O == Agree!XsdOnOneWord
<1>1. ASSUME NEW x \in C PROVE x.column \notin O /\ x.a # x.b
  BY DEF Agree!XsdCompares, Agree!Held, Agree!XsdOnOneWord
<1>2. ASSUME NEW c \in {"globals", "target"}
      PROVE  Seen(C, c, "tree") /\ Seen(C, c, "xmlschema")
  BY HeldSeen DEF Agree!XsdCompares
<1>3. ASSUME NEW c \in {"valid"}
      PROVE  Seen(C, c, "xmlschema")
  BY HeldSeen DEF Agree!XsdCompares
<1>4. ASSUME NEW c \in {"valid"}
      PROVE  Seen(C, c, "xerces")
  BY HeldSeen DEF Agree!XsdCompares
<1>5. \A c \in {"globals", "target", "refused_globals", "refused_target", "pieces", "imports",
                "includes", "annotations", "unknown", "nodes", "forms", "detail", "doc",
                "location", "file_size"} :
        c \in O \/ Seen(C, c, "tree")
  BY <1>2, SMT DEF Agree!XsdOnOneWord
<1>6. \A c \in {"globals", "target", "valid", "imports", "includes", "complaint"} :
        c \in O \/ Seen(C, c, "xmlschema")
  BY <1>2, <1>3, SMT DEF Agree!XsdOnOneWord
<1>7. \A c \in {"valid", "warnings", "complaint"} :
        c \in O \/ Seen(C, c, "xerces")
  BY <1>4, SMT DEF Agree!XsdOnOneWord
<1> QED
  BY <1>1, <1>5, <1>6, <1>7, GivenSeen, Zenon DEF Backed, Agree!XsdPublishes
(* The lists of the script for the compound files are backed.               *)
LEMMA CfbBacked == Backed(Agree!CfbCompares, Agree!CfbPublishes, Agree!CfbOnOneWord)
<1> DEFINE C == Agree!CfbCompares
           O == Agree!CfbOnOneWord
<1>1. ASSUME NEW x \in C PROVE x.column \notin O /\ x.a # x.b
  BY DEF Agree!CfbCompares, Agree!Held, Agree!CfbOnOneWord
<1>2. ASSUME NEW c \in {"sector", "mini_sector", "first_directory", "stated_fat_sectors",
                      "stream_name", "stream_size"}
      PROVE  Seen(C, c, "walk") /\ Seen(C, c, "olefile")
  BY HeldSeen DEF Agree!CfbCompares
<1>3. \A c \in {"sector", "mini_sector", "fat_sectors", "stream_name", "stream_size", "version",
                "difat_sectors", "directory_sectors", "mini_fat_sectors", "all_sectors", "root",
                "storage", "start", "where", "sectors_held", "counts", "collisions", "hint",
                "file_size"} :
        c \in O \/ Seen(C, c, "walk")
  BY <1>2, SMT DEF Agree!CfbOnOneWord
<1>4. \A c \in {"stream_name"} :
        c \in O \/ Seen(C, c, "olefile")
  BY <1>2, SMT DEF Agree!CfbOnOneWord
<1> QED
  BY <1>1, <1>3, <1>4, GivenSeen, Zenon DEF Backed, Agree!CfbPublishes

(* The lists of every script are backed.                                    *)
LEMMA EveryScriptBacked ==
    ASSUME NEW s \in DOMAIN Agree!Scripts
    PROVE  Backed(Agree!Scripts[s].compares, Agree!Scripts[s].publishes, Agree!Scripts[s].onOneWord)
<1>1. CASE s = "hash"
  BY <1>1, HashBacked DEF Agree!Scripts
<1>2. CASE s = "symver"
  BY <1>2, SymverBacked DEF Agree!Scripts
<1>3. CASE s = "note"
  BY <1>3, NoteBacked DEF Agree!Scripts
<1>4. CASE s = "dynamic"
  BY <1>4, DynamicBacked DEF Agree!Scripts
<1>5. CASE s = "segment"
  BY <1>5, SegmentBacked DEF Agree!Scripts
<1>6. CASE s = "elf_reloc"
  BY <1>6, ElfRelocBacked DEF Agree!Scripts
<1>7. CASE s = "export"
  BY <1>7, ExportBacked DEF Agree!Scripts
<1>8. CASE s = "import"
  BY <1>8, ImportBacked DEF Agree!Scripts
<1>9. CASE s = "resource"
  BY <1>9, ResourceBacked DEF Agree!Scripts
<1>10. CASE s = "version"
  BY <1>10, VersionBacked DEF Agree!Scripts
<1>11. CASE s = "tls"
  BY <1>11, TlsBacked DEF Agree!Scripts
<1>12. CASE s = "debug"
  BY <1>12, DebugBacked DEF Agree!Scripts
<1>13. CASE s = "reloc"
  BY <1>13, RelocBacked DEF Agree!Scripts
<1>14. CASE s = "image"
  BY <1>14, ImageBacked DEF Agree!Scripts
<1>15. CASE s = "macho"
  BY <1>15, MachoBacked DEF Agree!Scripts
<1>16. CASE s = "coff"
  BY <1>16, CoffBacked DEF Agree!Scripts
<1>17. CASE s = "codeview"
  BY <1>17, CodeviewBacked DEF Agree!Scripts
<1>18. CASE s = "pdb"
  BY <1>18, PdbBacked DEF Agree!Scripts
<1>19. CASE s = "heif"
  BY <1>19, HeifBacked DEF Agree!Scripts
<1>20. CASE s = "psd"
  BY <1>20, PsdBacked DEF Agree!Scripts
<1>21. CASE s = "pgp"
  BY <1>21, PgpBacked DEF Agree!Scripts
<1>22. CASE s = "arrow"
  BY <1>22, ArrowBacked DEF Agree!Scripts
<1>23. CASE s = "parquet"
  BY <1>23, ParquetBacked DEF Agree!Scripts
<1>24. CASE s = "onnx"
  BY <1>24, OnnxBacked DEF Agree!Scripts
<1>25. CASE s = "der"
  BY <1>25, DerBacked DEF Agree!Scripts
<1>26. CASE s = "xsd"
  BY <1>26, XsdBacked DEF Agree!Scripts
<1>27. CASE s = "cfb"
  BY <1>27, CfbBacked DEF Agree!Scripts
<1> QED
  BY <1>1, <1>2, <1>3, <1>4, <1>5, <1>6, <1>7, <1>8, <1>9, <1>10, <1>11, <1>12, <1>13, <1>14,
     <1>15, <1>16, <1>17, <1>18, <1>19, <1>20, <1>21, <1>22, <1>23, <1>24, <1>25, <1>26, <1>27
         DEF Agree!Scripts

(* In the files of every script, however many of its readings have become   *)
(* wrong and in however many columns: a wrong value gets into the probe     *)
(* past the script's check only with a second reading that is wrong in the  *)
(* same column - or in a column on one word, where it gets past by itself.  *)
THEOREM MisreadingsAlwaysStayOut == Spec => []MisreadingsStayOut
<1> DEFINE Inv == kind = "script" => file.script \in DOMAIN Agree!Scripts
<1>1. Init => Inv
  BY DEF Init
<1>2. Inv /\ [Next]_vars => Inv'
  <2> SUFFICES ASSUME Inv, [Next]_vars PROVE Inv'
    OBVIOUS
  <2>1. CASE Misreads
    <3>1. PICK one : Changes([file EXCEPT !.wrong = @ \cup {one}])
      BY <2>1 DEF Misreads
    <3>2. file' = [file EXCEPT !.wrong = file.wrong \cup {one}] /\ kind' = kind
      BY <3>1 DEF Changes
    <3>3. file'.script = file.script
      BY <3>2
    <3> QED
      BY <3>2, <3>3
  <2>2. CASE UNCHANGED vars
    BY <2>2 DEF vars
  <2>3. CASE Next /\ ~Misreads
    <3>1. kind' = kind /\ kind # "script"
      BY <2>3, Zenon DEF Next, Rewords, Resizes, Relinks, Recounts, Reversions, Shortens, MovesSection,
         MovesSegment, Restates, Reforms, Rechains, Restarts, Changes
    <3> QED
      BY <3>1
  <2> QED
    BY <2>1, <2>2, <2>3
<1>3. Inv => MisreadingsStayOut
  <2> SUFFICES ASSUME Inv, kind = "script" PROVE MisreadingsStayOut
    BY DEF MisreadingsStayOut
  <2> DEFINE C == Agree!Scripts[file.script].compares
             P == Agree!Scripts[file.script].publishes
             O == Agree!Scripts[file.script].onOneWord
             W == file.wrong
  <2>1. Backed(C, P, O)
    BY EveryScriptBacked
  <2> SUFFICES ASSUME NEW p \in P \cap W
               PROVE  IF p.column \in O THEN Passes(C, {p})
                      ELSE Passes(C, W) => \E q \in W : q.column = p.column /\ q.a # p.a
    BY DEF MisreadingsStayOut
  <2> HIDE DEF C, P, O, W
  <2>2. ASSUME p.column \in O PROVE Passes(C, {p})
    <3>1. ASSUME NEW c \in C
          PROVE  [column |-> c.column, a |-> c.a] # p /\ [column |-> c.column, a |-> c.b] # p
      BY <2>1, <2>2 DEF Backed
    <3> QED
      BY <3>1 DEF Passes
  <2>3. ASSUME p.column \notin O, Passes(C, W)
        PROVE  \E q \in W : q.column = p.column /\ q.a # p.a
    <3>1. p = [column |-> p.column, a |-> p.a] /\ Seen(C, p.column, p.a)
      BY <2>1, <2>3 DEF Backed
    <3>2. PICK c \in C : c.column = p.column /\ p.a \in {c.a, c.b}
      BY <3>1 DEF Seen
    <3>3. [column |-> c.column, a |-> c.a] \in W <=> [column |-> c.column, a |-> c.b] \in W
      BY <2>3 DEF Passes
    <3>4. c.a # c.b
      BY <2>1 DEF Backed
    <3>5. CASE p.a = c.a
      <4>1. [column |-> c.column, a |-> c.b] \in W
        BY <3>1, <3>2, <3>3, <3>5
      <4> QED
        BY <3>2, <3>4, <3>5, <4>1
    <3>6. CASE p.a = c.b
      <4>1. [column |-> c.column, a |-> c.a] \in W
        BY <3>1, <3>2, <3>3, <3>6
      <4> QED
        BY <3>2, <3>4, <3>6, <4>1
    <3> QED
      BY <3>2, <3>5, <3>6
  <2> QED
    BY <2>2, <2>3
<1> QED
  BY <1>1, <1>2, <1>3, PTL DEF Spec
===============================================================================
