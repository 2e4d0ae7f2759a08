--------------------------- MODULE ContainerProofs ---------------------------
(***************************************************************************)
(* What the walks of two kinds of container account for: those of Boxes in *)
(* files of every length, with any headers written anywhere in them and    *)
(* any nesting, and that of CompoundFile in files of any sectors, tables   *)
(* and directory.                                                          *)
(***************************************************************************)
EXTENDS ReadersProofs

(* What holds at a place whenever it holds at every place of a smaller     *)
(* measure holds everywhere.                                               *)
LEMMA ByMeasure ==
    ASSUME NEW A, NEW m \in [A -> Nat], NEW Good,
           \A a \in A : (\A b \in A : m[b] < m[a] => b \in Good) => a \in Good
    PROVE  \A a \in A : a \in Good
<1> SUFFICES ASSUME NEW a \in A PROVE a \in Good
  OBVIOUS
<1> DEFINE Till == {n \in 0..(m[a] + 1) : \A b \in A : m[b] < n => b \in Good}
<1>1. m[a] \in Nat /\ m[a] + 1 \in Nat
  OBVIOUS
<1>2. 0 \in Till
  <2>1. \A b \in A : ~(m[b] < 0)
    OBVIOUS
  <2> QED
    BY <1>1, <2>1
<1>3. ASSUME NEW n \in 1..(m[a] + 1), n - 1 \in Till
      PROVE  n \in Till
  <2>1. ASSUME NEW b \in A, m[b] < n
        PROVE  b \in Good
    <3>1. \A c \in A : m[c] < m[b] => m[c] < n - 1
      BY <2>1, <1>1
    <3>2. \A c \in A : m[c] < n - 1 => c \in Good
      BY <1>3
    <3> QED
      BY <3>1, <3>2
  <2> QED
    BY <2>1, <1>1
<1>4. m[a] + 1 \in Till
  <2> HIDE DEF Till
  <2>1. \A n \in 0..(m[a] + 1) : n \in Till
    BY <1>1, <1>2, <1>3, Upward
  <2> QED
    BY <2>1, <1>1
<1> QED
  BY <1>1, <1>4

(* A function on A that does what `step` says at every place of a measure  *)
(* below n; two of them agree on those places.                             *)
Does(A, S, m, step, n, f) == f \in [A -> S] /\ \A a \in A : m[a] < n => f[a] = step[a][f]
Narrows(A, S, m, step) ==
    \A a \in A : \A g, h \in [A -> S] :
        (\A b \in A : m[b] < m[a] => g[b] = h[b]) => step[a][g] = step[a][h]
LEMMA DoesAlike ==
    ASSUME NEW A, NEW S, NEW m \in [A -> Nat], NEW step, Narrows(A, S, m, step),
           NEW n \in Nat, NEW f, NEW g, Does(A, S, m, step, n, f), Does(A, S, m, step, n, g)
    PROVE  \A a \in A : m[a] < n => f[a] = g[a]
<1> DEFINE Good == {a \in A : m[a] < n => f[a] = g[a]}
<1>1. ASSUME NEW a \in A, \A b \in A : m[b] < m[a] => b \in Good
      PROVE  a \in Good
  <2> SUFFICES ASSUME m[a] < n PROVE f[a] = g[a]
    OBVIOUS
  <2>1. ASSUME NEW b \in A, m[b] < m[a]
        PROVE  f[b] = g[b]
    <3>1. m[b] \in Nat /\ m[a] \in Nat
      OBVIOUS
    <3>2. m[b] < n
      BY <2>1, <3>1
    <3> QED
      BY <1>1, <2>1, <3>2
  <2>2. step[a][f] = step[a][g]
    <3>1. f \in [A -> S] /\ g \in [A -> S]
      BY DEF Does
    <3> QED
      BY <2>1, <3>1 DEF Narrows
  <2> QED
    BY <2>2 DEF Does
<1>2. \A a \in A : a \in Good
  <2> HIDE DEF Good
  <2> QED
    BY <1>1, ByMeasure
<1> QED
  BY <1>2

(* There is one for every n.                                               *)
LEMMA DoesUpTo ==
    ASSUME NEW A, NEW S, NEW s \in S, NEW m \in [A -> Nat], NEW step \in [A -> [[A -> S] -> S]],
           Narrows(A, S, m, step), NEW n \in Nat
    PROVE  \E f : Does(A, S, m, step, n, f)
<1> DEFINE Good == {k \in 0..n : \E f : Does(A, S, m, step, k, f)}
<1>1. 0 \in Good
  <2>1. \A a \in A : ~(m[a] < 0)
    OBVIOUS
  <2>2. Does(A, S, m, step, 0, [a \in A |-> s])
    BY <2>1 DEF Does
  <2> QED
    BY <2>2
<1>2. ASSUME NEW k \in 1..n, k - 1 \in Good
      PROVE  k \in Good
  <2>1. PICK f : Does(A, S, m, step, k - 1, f)
    BY <1>2
  <2> DEFINE g == [a \in A |-> step[a][f]]
  <2>2. f \in [A -> S] /\ g \in [A -> S] /\ \A a \in A : g[a] = step[a][f]
    BY <2>1 DEF Does
  <2>3. ASSUME NEW a \in A, m[a] < k
        PROVE  g[a] = step[a][g]
    <3>1. ASSUME NEW b \in A, m[b] < m[a]
          PROVE  f[b] = g[b]
      <4>1. m[b] \in Nat /\ m[a] \in Nat
        OBVIOUS
      <4>2. m[b] < k - 1
        BY <2>3, <3>1, <4>1
      <4> HIDE DEF g
      <4> QED
        BY <2>1, <2>2, <4>2 DEF Does
    <3> HIDE DEF g
    <3>2. step[a][f] = step[a][g]
      BY <2>2, <3>1 DEF Narrows
    <3> QED
      BY <2>2, <3>2
  <2>4. Does(A, S, m, step, k, g)
    <3> HIDE DEF g
    <3> QED
      BY <2>2, <2>3 DEF Does
  <2> HIDE DEF g
  <2> QED
    BY <2>4
<1>3. \A k \in 0..n : k \in Good
  <2> HIDE DEF Good
  <2> QED
    BY <1>1, <1>2, Upward
<1>4. n \in 0..n
  OBVIOUS
<1> QED
  BY <1>3, <1>4

(* A recursion that at every place looks only at places of a smaller       *)
(* measure has a function that satisfies it.                               *)
Recurs(A, S, s, m, step) ==
    /\ s \in S /\ m \in [A -> Nat] /\ step \in [A -> [[A -> S] -> S]]
    /\ Narrows(A, S, m, step)
Solves(A, S, step, f) == f \in [A -> S] /\ \A a \in A : f[a] = step[a][f]
LEMMA Recursion ==
    ASSUME NEW A, NEW S, NEW s, NEW m, NEW step, Recurs(A, S, s, m, step)
    PROVE  \E f : Solves(A, S, step, f)
<1>0. /\ s \in S /\ m \in [A -> Nat] /\ step \in [A -> [[A -> S] -> S]]
      /\ Narrows(A, S, m, step)
  BY DEF Recurs
<1> DEFINE Near(n) == CHOOSE g : Does(A, S, m, step, n, g)
           f == [a \in A |-> Near(m[a] + 1)[a]]
<1>1. \A n \in Nat : Does(A, S, m, step, n, Near(n))
  <2>1. ASSUME NEW n \in Nat
        PROVE  \E g : Does(A, S, m, step, n, g)
    BY <1>0, DoesUpTo
  <2> QED
    BY <2>1
<1> HIDE DEF Near
<1>2. \A a \in A : m[a] \in Nat /\ m[a] + 1 \in Nat /\ m[a] < m[a] + 1
  BY <1>0
<1>3. f \in [A -> S]
  BY <1>1, <1>2 DEF Does
<1>4. \A a \in A : f[a] = Near(m[a] + 1)[a]
  OBVIOUS
<1> HIDE DEF f
<1>5. ASSUME NEW a \in A
      PROVE  f[a] = step[a][f]
  <2> DEFINE g == Near(m[a] + 1)
  <2>1. Does(A, S, m, step, m[a] + 1, g)
    BY <1>1, <1>2
  <2>2. g[a] = step[a][g]
    BY <2>1, <1>2 DEF Does
  <2>3. ASSUME NEW b \in A, m[b] < m[a]
        PROVE  g[b] = f[b]
    <3> DEFINE h == Near(m[b] + 1)
    <3>1. Does(A, S, m, step, m[b] + 1, h)
      BY <1>1, <1>2
    <3> HIDE DEF h, g
    <3>2. Does(A, S, m, step, m[b] + 1, g)
      <4>1. \A c \in A : m[c] < m[b] + 1 => m[c] < m[a] + 1
        BY <1>2, <2>3
      <4> QED
        BY <2>1, <4>1 DEF Does
    <3>3. g[b] = h[b]
      BY <1>0, <1>2, <3>1, <3>2, DoesAlike
    <3> QED
      BY <1>4, <3>3 DEF h
  <2>4. step[a][g] = step[a][f]
    <3>1. g \in [A -> S]
      BY <2>1 DEF Does
    <3> HIDE DEF g
    <3> QED
      BY <1>0, <1>3, <2>3, <3>1 DEF Narrows
  <2> QED
    BY <1>4, <2>2, <2>4
<1> QED
  BY <1>3, <1>5 DEF Solves

-----------------------------------------------------------------------------
PieceRows == [kind : STRING, at : Nat, size : Nat, depth : Nat, head : Nat]
RowReadings == [rows : Seq(PieceRows), broken : Nat]

(* Two runs of rows, one after the other.                                  *)
AreJoined(S, u, v, w) ==
    /\ w \in Seq(S) /\ Len(w) = Len(u) + Len(v)
    /\ \A i \in 1..Len(u) : w[i] = u[i]
    /\ \A i \in 1..Len(v) : w[i + Len(u)] = v[i]
LEMMA TwoJoined ==
    ASSUME NEW S, NEW u \in Seq(S), NEW v \in Seq(S)
    PROVE  AreJoined(S, u, v, u \o v)
BY DEF AreJoined

(* The rows of a piece, of what is in it and of what comes later.          *)
LEMMA JoinedRows ==
    ASSUME NEW S, NEW row \in S, NEW inner \in Seq(S), NEW later \in Seq(S)
    PROVE  LET rows == <<row>> \o inner \o later
           IN  /\ rows \in Seq(S)
               /\ Len(rows) = 1 + Len(inner) + Len(later)
               /\ rows[1] = row
               /\ \A i \in 1..Len(inner) : rows[i + 1] = inner[i]
               /\ \A i \in 1..Len(later) : rows[i + 1 + Len(inner)] = later[i]
               /\ \A i \in 1..Len(rows) : \/ i = 1
                                          \/ i - 1 \in 1..Len(inner)
                                          \/ i - 1 - Len(inner) \in 1..Len(later)
               /\ ToSet(rows) = {row} \cup ToSet(inner) \cup ToSet(later)
<1> DEFINE rows == <<row>> \o inner \o later
           first == <<row>> \o inner
<1>0. Len(inner) \in Nat /\ Len(later) \in Nat
  OBVIOUS
<1>1. /\ first \in Seq(S) /\ Len(first) = 1 + Len(inner) /\ first[1] = row
      /\ \A i \in 1..Len(inner) : first[i + 1] = inner[i]
  OBVIOUS
<1>2. rows = first \o later
  OBVIOUS
<1>3. /\ rows \in Seq(S) /\ Len(rows) = 1 + Len(inner) + Len(later)
      /\ \A i \in 1..(1 + Len(inner)) : rows[i] = first[i]
      /\ \A i \in 1..Len(later) : rows[i + (1 + Len(inner))] = later[i]
  <2> HIDE DEF first, rows
  <2>1. first \in Seq(S)
    BY <1>1
  <2>2. AreJoined(S, first, later, rows)
    BY <1>2, <2>1, TwoJoined
  <2> QED
    BY <1>1, <2>2 DEF AreJoined
<1> HIDE DEF first, rows
<1>4. rows[1] = row
  BY <1>0, <1>1, <1>3
<1>5. \A i \in 1..Len(inner) : rows[i + 1] = inner[i]
  BY <1>0, <1>1, <1>3
<1>6. \A i \in 1..Len(later) : rows[i + 1 + Len(inner)] = later[i]
  <2>1. ASSUME NEW i \in 1..Len(later) PROVE i + 1 + Len(inner) = i + (1 + Len(inner))
    BY <1>0
  <2> QED
    BY <1>3, <2>1
<1>7. \A i \in 1..Len(rows) : \/ i = 1
                             \/ i - 1 \in 1..Len(inner)
                             \/ i - 1 - Len(inner) \in 1..Len(later)
  BY <1>0, <1>3
<1>8. ToSet(rows) = {row} \cup ToSet(inner) \cup ToSet(later)
  <2>1. DOMAIN rows = 1..Len(rows) /\ DOMAIN inner = 1..Len(inner) /\ DOMAIN later = 1..Len(later)
    BY <1>3
  <2>2. ASSUME NEW i \in DOMAIN rows
        PROVE  rows[i] \in {row} \cup ToSet(inner) \cup ToSet(later)
    <3>1. CASE i = 1
      BY <3>1, <1>4
    <3>2. CASE i - 1 \in 1..Len(inner)
      <4>1. i = (i - 1) + 1
        BY <2>1
      <4>2. rows[i] = inner[i - 1]
        BY <3>2, <4>1, <1>5
      <4> QED
        BY <3>2, <4>2, <2>1 DEF ToSet
    <3>3. CASE i - 1 - Len(inner) \in 1..Len(later)
      <4>1. i = (i - 1 - Len(inner)) + 1 + Len(inner)
        BY <2>1, <1>0
      <4>2. rows[i] = later[i - 1 - Len(inner)]
        BY <3>3, <4>1, <1>6
      <4> QED
        BY <3>3, <4>2, <2>1 DEF ToSet
    <3> QED
      BY <2>1, <3>1, <3>2, <3>3, <1>7
  <2>3. row \in ToSet(rows)
    <3>1. 1 \in DOMAIN rows
      BY <2>1, <1>3, <1>0
    <3> QED
      BY <3>1, <1>4 DEF ToSet
  <2>4. ASSUME NEW i \in DOMAIN inner
        PROVE  inner[i] \in ToSet(rows)
    <3>1. i + 1 \in DOMAIN rows /\ rows[i + 1] = inner[i]
      BY <2>1, <1>3, <1>0, <1>5
    <3> QED
      BY <3>1 DEF ToSet
  <2>5. ASSUME NEW i \in DOMAIN later
        PROVE  later[i] \in ToSet(rows)
    <3>1. i + 1 + Len(inner) \in DOMAIN rows /\ rows[i + 1 + Len(inner)] = later[i]
      BY <2>1, <1>3, <1>0, <1>6
    <3> QED
      BY <3>1 DEF ToSet
  <2>6. ToSet(rows) \subseteq {row} \cup ToSet(inner) \cup ToSet(later)
    BY <2>2 DEF ToSet
  <2>7. ToSet(inner) \subseteq ToSet(rows) /\ ToSet(later) \subseteq ToSet(rows)
    BY <2>4, <2>5 DEF ToSet
  <2> QED
    BY <2>3, <2>6, <2>7
<1> QED
  BY <1>3, <1>4, <1>5, <1>6, <1>7, <1>8 DEF rows

(* They are in file order if each part is and the parts are.               *)
LEMMA JoinedInOrder ==
    ASSUME NEW row \in PieceRows, NEW inner \in Seq(PieceRows), NEW later \in Seq(PieceRows),
           NEW to \in Nat, row.at < to,
           InFileOrder(inner), \A r \in ToSet(inner) : row.at < r.at /\ r.at < to,
           InFileOrder(later), \A r \in ToSet(later) : to <= r.at
    PROVE  InFileOrder(<<row>> \o inner \o later)
<1> DEFINE rows == <<row>> \o inner \o later
           n == Len(inner)
<1>1. /\ rows \in Seq(PieceRows) /\ Len(rows) = 1 + n + Len(later) /\ rows[1] = row
      /\ \A i \in 1..n : rows[i + 1] = inner[i]
      /\ \A i \in 1..Len(later) : rows[i + 1 + n] = later[i]
      /\ \A i \in 1..Len(rows) : \/ i = 1 \/ i - 1 \in 1..n \/ i - 1 - n \in 1..Len(later)
  BY JoinedRows
<1>2. /\ n \in Nat /\ Len(later) \in Nat
      /\ DOMAIN rows = 1..Len(rows) /\ DOMAIN inner = 1..n /\ DOMAIN later = 1..Len(later)
  BY <1>1
<1>3. row.at \in Nat /\ \A r \in PieceRows : r.at \in Nat
  BY DEF PieceRows
<1> HIDE DEF rows, n
<1>4. ASSUME NEW i \in 1..n
      PROVE  /\ inner[i] \in ToSet(inner) /\ inner[i].at \in Nat
             /\ row.at < inner[i].at /\ inner[i].at < to
  <2>1. inner[i] \in ToSet(inner) /\ inner[i] \in PieceRows
    BY <1>2 DEF ToSet
  <2> QED
    BY <2>1, <1>3
<1>5. ASSUME NEW i \in 1..Len(later)
      PROVE  later[i].at \in Nat /\ to <= later[i].at
  <2>1. later[i] \in ToSet(later) /\ later[i] \in PieceRows
    BY <1>2 DEF ToSet
  <2> QED
    BY <2>1, <1>3
<1>6. ASSUME NEW i \in DOMAIN rows, NEW j \in DOMAIN rows, i < j
      PROVE  rows[i].at < rows[j].at
  <2>1. CASE j - 1 \in 1..n
    <3>1. j = (j - 1) + 1
      BY <1>2
    <3>2. rows[j] = inner[j - 1]
      BY <2>1, <3>1, <1>1
    <3>3. CASE i = 1
      BY <3>2, <3>3, <2>1, <1>1, <1>4
    <3>4. CASE i - 1 \in 1..n
      <4>1. i = (i - 1) + 1
        BY <1>2
      <4>2. rows[i] = inner[i - 1]
        BY <3>4, <4>1, <1>1
      <4>3. i - 1 < j - 1
        BY <1>6, <1>2, <1>1
      <4> QED
        BY <2>1, <3>2, <3>4, <4>2, <4>3, <1>2 DEF InFileOrder
    <3> QED
      BY <3>3, <3>4, <2>1, <1>1, <1>2, <1>6
  <2>2. CASE j - 1 - n \in 1..Len(later)
    <3>1. j = (j - 1 - n) + 1 + n
      BY <1>2
    <3>2. rows[j] = later[j - 1 - n]
      BY <2>2, <3>1, <1>1
    <3>3. to <= rows[j].at /\ rows[j].at \in Nat
      BY <3>2, <2>2, <1>5
    <3>4. CASE i = 1
      BY <3>3, <3>4, <1>1, <1>3
    <3>5. CASE i - 1 \in 1..n
      <4>1. i = (i - 1) + 1
        BY <1>2
      <4>2. rows[i] = inner[i - 1]
        BY <3>5, <4>1, <1>1
      <4> QED
        BY <3>3, <3>5, <4>2, <1>4
    <3>6. CASE i - 1 - n \in 1..Len(later)
      <4>1. i = (i - 1 - n) + 1 + n
        BY <1>2
      <4>2. rows[i] = later[i - 1 - n]
        BY <3>6, <4>1, <1>1
      <4>3. i - 1 - n < j - 1 - n
        BY <1>6, <1>2, <1>1
      <4> QED
        BY <2>2, <3>2, <3>6, <4>2, <4>3, <1>2 DEF InFileOrder
    <3> QED
      BY <3>4, <3>5, <3>6, <1>1, <1>2
  <2>3. j # 1
    BY <1>6, <1>1, <1>2
  <2> QED
    BY <2>1, <2>2, <2>3, <1>1, <1>2
<1> QED
  BY <1>6 DEF InFileOrder, rows

(* A piece before pieces that tile the rest tiles with them, whatever is   *)
(* nested deeper in it.                                                    *)
LEMMA JoinedTile ==
    ASSUME NEW row \in PieceRows, NEW In \in SUBSET PieceRows, NEW La \in SUBSET PieceRows,
           NEW to \in Nat, row.size > 0,
           \A r \in In : r.depth # row.depth,
           Tiles({r \in La : r.depth = row.depth}, row.at + row.size, to)
    PROVE  Tiles({r \in {row} \cup In \cup La : r.depth = row.depth}, row.at, to)
<1> DEFINE R == {r \in {row} \cup In \cup La : r.depth = row.depth}
           L == {r \in La : r.depth = row.depth}
<1>1. R = {row} \cup L
  OBVIOUS
<1>2. L \subseteq PieceRows /\ row \in PieceRows
  OBVIOUS
<1>3. Tiles(L, row.at + row.size, to)
  OBVIOUS
<1> HIDE DEF R, L
<1>4. \A r \in L : r.at \in Nat /\ r.size \in Nat
  BY <1>2 DEF PieceRows
<1>5. row.at \in Nat /\ row.size \in Nat
  BY DEF PieceRows
<1>6. Tiles({row} \cup L, row.at, to)
  BY <1>3, <1>4, <1>5 DEF Tiles
<1> QED
  BY <1>1, <1>6 DEF R

(* How far behind its header a row begins to hold others.                  *)
AreSkips(skips) == skips \in [DOMAIN skips -> Nat]
Skip(skips, row) == IF row.kind \in DOMAIN skips THEN skips[row.kind] ELSE 0
From(skips, row) == row.at + row.head + Skip(skips, row)
LEMMA FromIs ==
    ASSUME NEW skips, AreSkips(skips), NEW row \in PieceRows
    PROVE  /\ From(skips, row) \in Nat /\ row.at + row.head <= From(skips, row)
           /\ row.kind \in DOMAIN skips => HoldsFrom(skips, row) = From(skips, row)
<1>1. Skip(skips, row) \in Nat
  BY DEF AreSkips, Skip
<1>2. row.at \in Nat /\ row.head \in Nat
  BY DEF PieceRows
<1>3. row.kind \in DOMAIN skips => Skip(skips, row) = skips[row.kind]
  BY DEF Skip
<1> QED
  BY <1>1, <1>2, <1>3 DEF From, HoldsFrom

(* What is in the holders among them tiles those.                          *)
LEMMA JoinedHolders ==
    ASSUME NEW skips, AreSkips(skips),
           NEW row \in PieceRows, NEW In \in SUBSET PieceRows, NEW La \in SUBSET PieceRows,
           row.head > 0, row.head <= row.size,
           \A r \in In : /\ From(skips, row) <= r.at /\ r.size > 0
                         /\ r.at + r.size <= row.at + row.size /\ row.depth + 1 <= r.depth,
           \A r \in La : row.at + row.size <= r.at /\ r.size > 0,
           HoldersTile(In, skips), HoldersTile(La, skips),
           row.kind \in DOMAIN skips =>
              Tiles({r \in In : r.depth = row.depth + 1}, From(skips, row), row.at + row.size)
    PROVE  HoldersTile({row} \cup In \cup La, skips)
<1> DEFINE R == {row} \cup In \cup La
<1>1. \A r \in R : r.at \in Nat /\ r.size \in Nat /\ r.depth \in Nat /\ r.head \in Nat
  BY DEF PieceRows
<1> SUFFICES ASSUME NEW s \in R, s.kind \in DOMAIN skips
             PROVE  Tiles(Inside(R, skips, s), HoldsFrom(skips, s), s.at + s.size)
  BY DEF HoldersTile
<1>0. /\ HoldsFrom(skips, s) = From(skips, s) /\ From(skips, s) \in Nat
      /\ s.at + s.head <= From(skips, s)
  <2>1. s \in PieceRows
    OBVIOUS
  <2> QED
    BY ONLY <2>1, AreSkips(skips), s.kind \in DOMAIN skips, FromIs
<1>2. CASE s = row
  <2>1. \A r \in In : r.at < row.at + row.size
    BY <1>1
  <2>2. Inside(R, skips, row) = {r \in In : r.depth = row.depth + 1}
    BY <1>0, <1>1, <1>2, <2>1 DEF Inside, AtDepth
  <2> HIDE DEF R
  <2> QED
    BY <1>0, <1>2, <2>2
<1>3. CASE s \in In
  <2>1. Inside(R, skips, s) = Inside(In, skips, s)
    BY <1>0, <1>1, <1>3 DEF Inside, AtDepth
  <2> HIDE DEF R
  <2> QED
    BY <1>3, <2>1 DEF HoldersTile
<1>4. CASE s \in La
  <2>1. Inside(R, skips, s) = Inside(La, skips, s)
    BY <1>0, <1>1, <1>4 DEF Inside, AtDepth
  <2> HIDE DEF R
  <2> QED
    BY <1>4, <2>1 DEF HoldersTile
<1> QED
  BY <1>2, <1>3, <1>4

(* A walk that goes into holders has, wherever it ends without a complaint, *)
(* nothing more to read or a piece, what is in it and the rest.            *)
PlaceIn(skips, row) == Boxes!Place(From(skips, row), row.at + row.size, row.depth + 1)
PlaceAfter(row, p) == Boxes!Place(row.at + row.size, p.stop, p.depth)
Takes(skips, W, p, row) ==
    /\ row.at = p.at /\ row.depth = p.depth
    /\ row.head > 0 /\ row.head <= row.size /\ row.at + row.size <= p.stop
    /\ W[PlaceAfter(row, p)].broken = 0
    /\ row.kind \notin DOMAIN skips => W[p].rows = <<row>> \o <<>> \o W[PlaceAfter(row, p)].rows
    /\ row.kind \in DOMAIN skips =>
         /\ From(skips, row) <= row.at + row.size
         /\ W[PlaceIn(skips, row)].broken = 0
         /\ W[p].rows = <<row>> \o W[PlaceIn(skips, row)].rows \o W[PlaceAfter(row, p)].rows
GoesOn(skips, W, p) == \/ p.at = p.stop /\ W[p].rows = <<>>
                \/ \E row \in PieceRows : Takes(skips, W, p, row)
Fine(skips, rows, p) ==
    /\ InFileOrder(rows)
    /\ \A r \in ToSet(rows) : /\ p.at <= r.at /\ r.size > 0 /\ r.at + r.size <= p.stop
                              /\ p.depth <= r.depth
    /\ Tiles({r \in ToSet(rows) : r.depth = p.depth}, p.at, p.stop)
    /\ HoldersTile(ToSet(rows), skips)

(* A row ahead of what a walk finds inside it and after it.                *)
LEMMA JoinedFine ==
    ASSUME NEW skips, AreSkips(skips),
           NEW p \in Boxes!Places, NEW row \in PieceRows,
           NEW inner \in Seq(PieceRows), NEW later \in Seq(PieceRows),
           row.at = p.at, row.depth = p.depth,
           row.head > 0, row.head <= row.size, row.at + row.size <= p.stop,
           row.kind \notin DOMAIN skips => inner = <<>>,
           row.kind \in DOMAIN skips => Fine(skips, inner, PlaceIn(skips, row)),
           Fine(skips, later, PlaceAfter(row, p))
    PROVE  Fine(skips, <<row>> \o inner \o later, p)
<1> DEFINE rows == <<row>> \o inner \o later
           In == ToSet(inner)
           La == ToSet(later)
           mid == row.at + row.size
<1>1. /\ row.at \in Nat /\ row.size \in Nat /\ row.depth \in Nat /\ row.head \in Nat
      /\ p.at \in Nat /\ p.stop \in Nat /\ p.depth \in Nat /\ mid \in Nat /\ row.at < mid
  BY DEF PieceRows, Boxes!Places
<1>2. /\ In \in SUBSET PieceRows /\ La \in SUBSET PieceRows
      /\ \A r \in PieceRows : r.at \in Nat /\ r.size \in Nat /\ r.depth \in Nat /\ r.head \in Nat
  <2>1. \A r \in PieceRows : r.at \in Nat /\ r.size \in Nat /\ r.depth \in Nat /\ r.head \in Nat
    BY DEF PieceRows
  <2>2. In \in SUBSET PieceRows /\ La \in SUBSET PieceRows
    BY DEF ToSet
  <2> QED
    BY <2>1, <2>2
<1>3. ToSet(rows) = {row} \cup In \cup La /\ rows \in Seq(PieceRows)
  BY JoinedRows
<1>4. /\ PlaceIn(skips, row).at = From(skips, row) /\ PlaceIn(skips, row).stop = mid
      /\ PlaceIn(skips, row).depth = row.depth + 1
  BY DEF PlaceIn, Boxes!Place
<1>5. PlaceAfter(row, p).at = mid /\ PlaceAfter(row, p).stop = p.stop
        /\ PlaceAfter(row, p).depth = p.depth
  BY DEF PlaceAfter, Boxes!Place
<1>6. InFileOrder(inner) /\ HoldersTile(In, skips)
      /\ \A r \in In : /\ From(skips, row) <= r.at /\ r.size > 0
                        /\ r.at + r.size <= mid /\ row.depth + 1 <= r.depth
  <2>1. CASE row.kind \in DOMAIN skips
    BY <2>1, <1>4 DEF Fine
  <2>2. CASE row.kind \notin DOMAIN skips
    <3>1. In = {} /\ inner = <<>>
      BY <2>2 DEF ToSet
    <3>2. InFileOrder(<<>>) /\ HoldersTile({}, skips)
      BY DEF InFileOrder, HoldersTile
    <3> QED
      BY <3>1, <3>2
  <2> QED
    BY <2>1, <2>2
<1>7. /\ InFileOrder(later) /\ HoldersTile(La, skips)
      /\ \A r \in La : /\ mid <= r.at /\ r.size > 0 /\ r.at + r.size <= p.stop
                        /\ row.depth <= r.depth
      /\ Tiles({r \in La : r.depth = row.depth}, mid, p.stop)
  BY <1>5 DEF Fine
<1>8. row.kind \in DOMAIN skips => Tiles({r \in In : r.depth = row.depth + 1}, From(skips, row), mid)
  BY <1>4 DEF Fine
<1>0. From(skips, row) \in Nat /\ row.at + row.head <= From(skips, row)
  BY FromIs
<1> HIDE DEF rows, In, La
<1>9. InFileOrder(rows)
  <2>1. \A r \in In : row.at < r.at /\ r.at < mid
    <3>1. ASSUME NEW r \in In
          PROVE  row.at < r.at /\ r.at < mid
      <4>1. r.at \in Nat /\ r.size \in Nat
        BY <1>2
      <4>2. From(skips, row) <= r.at /\ r.size > 0 /\ r.at + r.size <= mid
        BY <1>6
      <4>3. row.at \in Nat /\ row.head \in Nat /\ mid \in Nat
        BY <1>1
      <4> HIDE DEF mid
      <4>4. row.at < From(skips, row)
        BY <1>0, <4>3
      <4>5. r.at < mid
        BY <4>1, <4>2, <4>3
      <4> QED
        BY <1>0, <4>1, <4>2, <4>3, <4>4, <4>5
    <3> QED
      BY <3>1
  <2> HIDE DEF mid
  <2>2. /\ \A r \in ToSet(inner) : row.at < r.at /\ r.at < mid
        /\ \A r \in ToSet(later) : mid <= r.at
    BY <2>1, <1>7 DEF In, La
  <2> QED
    BY <1>1, <1>6, <1>7, <2>2, JoinedInOrder DEF rows
<1>10. ASSUME NEW r \in ToSet(rows)
       PROVE  p.at <= r.at /\ r.size > 0 /\ r.at + r.size <= p.stop /\ p.depth <= r.depth
  <2>1. r.at \in Nat /\ r.size \in Nat /\ r.depth \in Nat
    BY <1>2, <1>3
  <2>2. CASE r = row
    BY <1>1, <2>2
  <2>3. CASE r \in In
    <3>1. row.at + row.head <= r.at /\ r.size > 0 /\ r.at + r.size <= mid /\ row.depth + 1 <= r.depth
      <4>1. From(skips, row) <= r.at /\ r.size > 0 /\ r.at + r.size <= mid /\ row.depth + 1 <= r.depth
        BY <1>6, <2>3
      <4> HIDE DEF mid
      <4> QED
        BY <1>0, <1>1, <2>1, <4>1
    <3>2. mid <= p.stop
      OBVIOUS
    <3> HIDE DEF mid
    <3>3. p.at <= r.at /\ p.depth <= r.depth
      <4>1. row.at \in Nat /\ row.head \in Nat /\ row.depth \in Nat /\ row.at = p.at
              /\ row.depth = p.depth
        BY <1>1
      <4>2. row.at <= r.at
        BY <2>1, <3>1, <4>1
      <4>3. row.depth <= r.depth
        BY <2>1, <3>1, <4>1
      <4> QED
        BY <4>1, <4>2, <4>3
    <3>4. r.at + r.size <= p.stop
      BY <1>1, <2>1, <3>1, <3>2
    <3> QED
      BY <3>1, <3>3, <3>4
  <2>4. CASE r \in La
    <3>1. mid <= r.at /\ r.size > 0 /\ r.at + r.size <= p.stop /\ row.depth <= r.depth
      BY <1>7, <2>4
    <3> QED
      BY <1>1, <2>1, <3>1
  <2> QED
    BY <1>3, <2>2, <2>3, <2>4
<1>11. Tiles({r \in {row} \cup In \cup La : r.depth = row.depth}, row.at, p.stop)
  <2>1. \A r \in In : r.depth # row.depth
    BY <1>1, <1>2, <1>6
  <2>2. row.size > 0
    BY <1>1
  <2> QED
    BY <1>1, <1>2, <1>7, <2>1, <2>2, JoinedTile
<1>12. HoldersTile({row} \cup In \cup La, skips)
  <2>1. \A r \in La : mid <= r.at /\ r.size > 0
    BY <1>7
  <2> QED
    BY <1>2, <1>6, <1>7, <1>8, <2>1, JoinedHolders
<1> QED
  BY <1>3, <1>9, <1>10, <1>11, <1>12 DEF Fine, rows

(* How much there is to read from a place on.                              *)
LeftAt == [p \in Boxes!Places |-> IF p.at < p.stop THEN p.stop - p.at ELSE 0]
LEMMA LeftIs ==
    /\ LeftAt \in [Boxes!Places -> Nat]
    /\ \A skips : AreSkips(skips) => \A p \in Boxes!Places, row \in PieceRows :
         row.at = p.at /\ row.head > 0 /\ row.head <= row.size /\ row.at + row.size <= p.stop =>
             /\ PlaceAfter(row, p) \in Boxes!Places /\ LeftAt[PlaceAfter(row, p)] < LeftAt[p]
             /\ PlaceIn(skips, row) \in Boxes!Places /\ LeftAt[PlaceIn(skips, row)] < LeftAt[p]
<1>1. ASSUME NEW p \in Boxes!Places
      PROVE  /\ p.at \in Nat /\ p.stop \in Nat /\ p.depth \in Nat
             /\ LeftAt[p] = IF p.at < p.stop THEN p.stop - p.at ELSE 0
  BY DEF Boxes!Places, LeftAt
<1>2. ASSUME NEW p \in Boxes!Places
      PROVE  LeftAt[p] \in Nat
  BY <1>1
<1>3. LeftAt \in [Boxes!Places -> Nat]
  <2>1. LeftAt = [p \in Boxes!Places |-> LeftAt[p]]
    BY DEF LeftAt
  <2> QED
    BY <1>2, <2>1
<1>4. ASSUME NEW skips, AreSkips(skips), NEW p \in Boxes!Places, NEW row \in PieceRows,
             row.at = p.at, row.head > 0, row.head <= row.size, row.at + row.size <= p.stop
      PROVE  /\ PlaceAfter(row, p) \in Boxes!Places /\ LeftAt[PlaceAfter(row, p)] < LeftAt[p]
             /\ PlaceIn(skips, row) \in Boxes!Places /\ LeftAt[PlaceIn(skips, row)] < LeftAt[p]
  <2>1. row.at \in Nat /\ row.size \in Nat /\ row.depth \in Nat /\ row.head \in Nat
    BY DEF PieceRows
  <2>2. /\ PlaceAfter(row, p) \in Boxes!Places
        /\ PlaceAfter(row, p).at = row.at + row.size /\ PlaceAfter(row, p).stop = p.stop
    BY <1>1, <2>1 DEF PlaceAfter, Boxes!Place, Boxes!Places
  <2>3. /\ PlaceIn(skips, row) \in Boxes!Places
        /\ PlaceIn(skips, row).at = From(skips, row) /\ PlaceIn(skips, row).stop = row.at + row.size
        /\ From(skips, row) \in Nat /\ row.at + row.head <= From(skips, row)
    BY <1>1, <2>1, <1>4, FromIs DEF PlaceIn, Boxes!Place, Boxes!Places
  <2>4. LeftAt[PlaceAfter(row, p)] < LeftAt[p]
    BY <1>1, <1>4, <2>1, <2>2
  <2>5. LeftAt[PlaceIn(skips, row)] < LeftAt[p]
    BY <1>1, <1>4, <2>1, <2>3
  <2> QED
    BY <2>2, <2>3, <2>4, <2>5
<1> QED
  BY <1>3, <1>4

(* So a walk that goes on, row by row, tiles what it goes through.         *)
LEMMA NestedTiles ==
    ASSUME NEW skips, AreSkips(skips),
           NEW W \in [Boxes!Places -> RowReadings],
           \A p \in Boxes!Places : p.at <= p.stop /\ W[p].broken = 0 => GoesOn(skips, W, p)
    PROVE  \A p \in Boxes!Places : p.at <= p.stop /\ W[p].broken = 0 => Fine(skips, W[p].rows, p)
<1> DEFINE Good == {p \in Boxes!Places : p.at <= p.stop /\ W[p].broken = 0 => Fine(skips, W[p].rows, p)}
<1>1. ASSUME NEW p \in Boxes!Places, \A q \in Boxes!Places : LeftAt[q] < LeftAt[p] => q \in Good
      PROVE  p \in Good
  <2> SUFFICES ASSUME p.at <= p.stop, W[p].broken = 0 PROVE Fine(skips, W[p].rows, p)
    OBVIOUS
  <2>1. p.at \in Nat /\ p.stop \in Nat
    BY DEF Boxes!Places
  <2>2. CASE p.at = p.stop /\ W[p].rows = <<>>
    <3>1. ToSet(<<>>) = {}
      BY DEF ToSet
    <3>2. InFileOrder(<<>>)
      BY DEF InFileOrder
    <3>3. Tiles({}, p.at, p.stop)
      BY <2>1, <2>2 DEF Tiles
    <3>4. HoldersTile({}, skips)
      BY DEF HoldersTile
    <3> QED
      BY <2>2, <3>1, <3>2, <3>3, <3>4 DEF Fine
  <2>3. ASSUME NEW row \in PieceRows, Takes(skips, W, p, row)
        PROVE  Fine(skips, W[p].rows, p)
    <3>1. /\ row.at = p.at /\ row.depth = p.depth
          /\ row.head > 0 /\ row.head <= row.size /\ row.at + row.size <= p.stop
      BY <2>3 DEF Takes
    <3>2. row.at \in Nat /\ row.size \in Nat /\ row.head \in Nat
      BY DEF PieceRows
    <3>3. /\ PlaceAfter(row, p) \in Boxes!Places /\ PlaceAfter(row, p) \in Good
          /\ PlaceIn(skips, row) \in Boxes!Places /\ PlaceIn(skips, row) \in Good
      BY <1>1, <3>1, LeftIs
    <3>4. /\ PlaceAfter(row, p).at <= PlaceAfter(row, p).stop
          /\ row.kind \in DOMAIN skips => PlaceIn(skips, row).at <= PlaceIn(skips, row).stop
      BY <2>3, <3>1, <3>2 DEF Takes, PlaceAfter, PlaceIn, Boxes!Place
    <3>5. Fine(skips, W[PlaceAfter(row, p)].rows, PlaceAfter(row, p))
      BY <2>3, <3>3, <3>4 DEF Takes
    <3>6. row.kind \in DOMAIN skips => Fine(skips, W[PlaceIn(skips, row)].rows, PlaceIn(skips, row))
      BY <2>3, <3>3, <3>4 DEF Takes
    <3>7. W[PlaceAfter(row, p)].rows \in Seq(PieceRows)
            /\ W[PlaceIn(skips, row)].rows \in Seq(PieceRows)
      <4>1. W[PlaceAfter(row, p)] \in RowReadings /\ W[PlaceIn(skips, row)] \in RowReadings
        BY <3>3
      <4> QED
        BY <4>1 DEF RowReadings
    <3> DEFINE inner == IF row.kind \in DOMAIN skips THEN W[PlaceIn(skips, row)].rows ELSE <<>>
    <3>8. inner \in Seq(PieceRows) /\ W[p].rows = <<row>> \o inner \o W[PlaceAfter(row, p)].rows
      <4>1. CASE row.kind \in DOMAIN skips
        BY <2>3, <3>7, <4>1 DEF Takes
      <4>2. CASE row.kind \notin DOMAIN skips
        <5>1. inner = <<>> /\ <<>> \in Seq(PieceRows)
          BY <4>2
        <5> HIDE DEF inner
        <5> QED
          BY <2>3, <4>2, <5>1, Zenon DEF Takes
      <4> QED
        BY <4>1, <4>2
    <3>9. /\ row.kind \notin DOMAIN skips => inner = <<>>
          /\ row.kind \in DOMAIN skips => Fine(skips, inner, PlaceIn(skips, row))
      BY <3>6
    <3> HIDE DEF inner
    <3>10. Fine(skips, <<row>> \o inner \o W[PlaceAfter(row, p)].rows, p)
      BY <3>1, <3>5, <3>7, <3>8, <3>9, JoinedFine
    <3> QED
      BY <3>8, <3>10
  <2> QED
    BY <2>2, <2>3 DEF GoesOn
<1>2. \A p \in Boxes!Places : p \in Good
  <2> HIDE DEF Good
  <2> QED
    BY <1>1, ByMeasure, LeftIs
<1> QED
  BY <1>2

(* A walk that stays on one level, at the places of Clean where it ends    *)
(* without a complaint; `tail` is what it may leave of the file.           *)
TakesFlat(R, Clean, end, at, row, extra) ==
    /\ row.at = at /\ row.depth = 0 /\ row.size > 0 /\ at + row.size <= end
    /\ at + row.size \in Clean
    /\ InFileOrder(extra)
    /\ \A r \in ToSet(extra) : r.depth # 0 /\ at < r.at /\ r.at < at + row.size
    /\ R[at] = <<row>> \o extra \o R[at + row.size]
GoesOnFlat(R, Clean, end, tail, at) ==
    \/ at <= end /\ end <= at + tail /\ R[at] = <<>>
    \/ \E row \in PieceRows, extra \in Seq(PieceRows) : TakesFlat(R, Clean, end, at, row, extra)
FineFlat(rows, at, to) ==
    /\ InFileOrder(rows)
    /\ \A r \in ToSet(rows) : at <= r.at
    /\ Tiles({r \in ToSet(rows) : r.depth = 0}, at, to)

(* The same of a walk along one level, whose rows may bring rows deeper    *)
(* in.                                                                     *)
LEMMA JoinedFlat ==
    ASSUME NEW at \in Nat, NEW to \in Nat, NEW row \in PieceRows,
           NEW extra \in Seq(PieceRows), NEW later \in Seq(PieceRows),
           row.at = at, row.depth = 0, row.size > 0, InFileOrder(extra),
           \A r \in ToSet(extra) : r.depth # 0 /\ at < r.at /\ r.at < at + row.size,
           FineFlat(later, at + row.size, to)
    PROVE  FineFlat(<<row>> \o extra \o later, at, to)
<1> DEFINE rows == <<row>> \o extra \o later
           Ex == ToSet(extra)
           La == ToSet(later)
           mid == at + row.size
<1>1. row.size \in Nat /\ mid \in Nat /\ row.at < mid /\ \A r \in PieceRows : r.at \in Nat
  BY DEF PieceRows
<1>2. Ex \in SUBSET PieceRows /\ La \in SUBSET PieceRows
  BY DEF ToSet
<1>3. ToSet(rows) = {row} \cup Ex \cup La
  BY JoinedRows
<1>4. /\ InFileOrder(later) /\ \A r \in La : mid <= r.at
      /\ Tiles({r \in La : r.depth = 0}, mid, to)
  BY DEF FineFlat
<1>5. InFileOrder(extra) /\ \A r \in Ex : r.depth # 0 /\ row.at < r.at /\ r.at < mid
  OBVIOUS
<1> HIDE DEF mid
<1>6. InFileOrder(rows)
  BY <1>1, <1>4, <1>5, JoinedInOrder
<1> HIDE DEF rows, Ex, La
<1>7. \A r \in ToSet(rows) : at <= r.at
  <2>1. ASSUME NEW r \in ToSet(rows)
        PROVE  at <= r.at
    <3>1. r.at \in Nat
      BY <1>1, <1>2, <1>3
    <3> QED
      BY <1>1, <1>3, <1>4, <1>5, <3>1
  <2> QED
    BY <2>1
<1>8. Tiles({r \in {row} \cup Ex \cup La : r.depth = row.depth}, row.at, to)
  <2>1. Tiles({r \in La : r.depth = row.depth}, row.at + row.size, to)
    BY <1>4 DEF mid
  <2> QED
    BY <1>2, <1>5, <2>1, JoinedTile
<1> QED
  BY <1>3, <1>6, <1>7, <1>8 DEF FineFlat, rows

(* A walk that moves on has less left.                                     *)
LEMMA FurtherOn ==
    ASSUME NEW at \in Nat, NEW end \in Nat, NEW size \in Nat, size > 0, at + size <= end
    PROVE  /\ at + size \in Nat /\ at < at + size
           /\ (IF at + size < end THEN end - (at + size) ELSE 0) < (IF at < end THEN end - at ELSE 0)
OBVIOUS

(* A walk along one level that goes on from row to row tiles the level,    *)
(* but for a tail.                                                         *)
LEMMA FlatTiles ==
    ASSUME NEW R \in [Nat -> Seq(PieceRows)], NEW end \in Nat, NEW tail \in Nat,
           NEW Clean \in SUBSET Nat,
           \A at \in Clean : GoesOnFlat(R, Clean, end, tail, at)
    PROVE  \A at \in Clean : \E t \in 0..tail : FineFlat(R[at], at, end - t)
<1> DEFINE Good == {at \in Nat : at \in Clean => \E t \in 0..tail : FineFlat(R[at], at, end - t)}
           left == [at \in Nat |-> IF at < end THEN end - at ELSE 0]
<1>1. left \in [Nat -> Nat]
  OBVIOUS
<1>2. ASSUME NEW at \in Nat, \A b \in Nat : left[b] < left[at] => b \in Good
      PROVE  at \in Good
  <2> SUFFICES ASSUME at \in Clean PROVE \E t \in 0..tail : FineFlat(R[at], at, end - t)
    OBVIOUS
  <2>0. /\ \A b \in Nat : left[b] < left[at] /\ b \in Clean =>
                          \E t \in 0..tail : FineFlat(R[b], b, end - t)
        /\ \A b \in Nat : left[b] = IF b < end THEN end - b ELSE 0
    BY <1>2
  <2> HIDE DEF Good, left
  <2>1. CASE at <= end /\ end <= at + tail /\ R[at] = <<>>
    <3>1. end - at \in 0..tail /\ end - (end - at) = at
      BY <2>1
    <3>2. ToSet(<<>>) = {}
      BY DEF ToSet
    <3>3. InFileOrder(<<>>)
      BY DEF InFileOrder
    <3>4. Tiles({}, at, at)
      BY DEF Tiles
    <3>5. FineFlat(R[at], at, end - (end - at))
      BY <2>1, <3>1, <3>2, <3>3, <3>4 DEF FineFlat
    <3> QED
      BY <3>1, <3>5
  <2>2. ASSUME NEW row \in PieceRows, NEW extra \in Seq(PieceRows),
               TakesFlat(R, Clean, end, at, row, extra)
        PROVE  \E t \in 0..tail : FineFlat(R[at], at, end - t)
    <3>1. /\ row.at = at /\ row.depth = 0 /\ row.size > 0 /\ at + row.size <= end
          /\ at + row.size \in Clean
          /\ InFileOrder(extra)
          /\ \A r \in ToSet(extra) : r.depth # 0 /\ at < r.at /\ r.at < at + row.size
          /\ R[at] = <<row>> \o extra \o R[at + row.size]
      BY <2>2 DEF TakesFlat
    <3>2. row.size \in Nat /\ row.size > 0 /\ at + row.size <= end
      <4>1. row.size \in Nat
        BY DEF PieceRows
      <4> QED
        BY <3>1, <4>1
    <3> DEFINE mid == at + row.size
    <3>3. /\ mid \in Nat /\ at < mid
          /\ (IF mid < end THEN end - mid ELSE 0) < (IF at < end THEN end - at ELSE 0)
      BY <3>2, FurtherOn
    <3> HIDE DEF mid
    <3>4. left[mid] < left[at]
      BY <2>0, <3>3
    <3>5. PICK t \in 0..tail : FineFlat(R[mid], mid, end - t)
      BY <2>0, <3>1, <3>3, <3>4 DEF mid
    <3>6. end - t \in Nat
      <4>1. mid <= end - t
        BY <3>5 DEF FineFlat, Tiles
      <4> QED
        BY <4>1, <3>3
    <3>7. R[mid] \in Seq(PieceRows)
      BY <3>3
    <3>8. FineFlat(<<row>> \o extra \o R[mid], at, end - t)
      BY <3>1, <3>5, <3>6, <3>7, JoinedFlat DEF mid
    <3> QED
      BY <3>1, <3>8 DEF mid
  <2> QED
    BY <2>1, <2>2 DEF GoesOnFlat
<1>3. \A at \in Nat : at \in Good
  <2> HIDE DEF Good, left
  <2> DEFINE A == Nat
  <2>1. left \in [A -> Nat] /\ \A a \in A : (\A b \in A : left[b] < left[a] => b \in Good) => a \in Good
    BY <1>1, <1>2
  <2> HIDE DEF A
  <2>2. \A a \in A : a \in Good
    BY <2>1, ByMeasure
  <2> QED
    BY <2>2 DEF A
<1> QED
  BY <1>3

(* Where a walk along one level is, and what is left of its level there.   *)
Ats == Nat
LeftTo(end) == [at \in Ats |-> IF at < end THEN end - at ELSE 0]
LEMMA LeftToIs ==
    ASSUME NEW end \in Nat
    PROVE  /\ LeftTo(end) \in [Ats -> Nat]
           /\ \A at \in Nat, next \in Nat :
                at < end /\ at < next => LeftTo(end)[next] < LeftTo(end)[at]
<1>1. LeftTo(end) \in [Ats -> Nat]
  BY DEF LeftTo, Ats
<1>2. ASSUME NEW at \in Nat, NEW next \in Nat, at < end, at < next
      PROVE  LeftTo(end)[next] < LeftTo(end)[at]
  BY <1>2 DEF LeftTo, Ats
<1> QED
  BY <1>1, <1>2

(* What is read at a place of a file.                                      *)
AnyHeaders == [kind : STRING, form : {"short", "wide", "rest", "partial"}, size : Nat]
LEMMA HeadRead ==
    ASSUME NEW one, BoxFileStands(one), NEW at \in Nat
    PROVE  /\ Boxes!HeadAt(one, at) \in AnyHeaders
           /\ Boxes!HeadAt(one, at).kind \in STRING
           /\ Boxes!HeadAt(one, at).form \in Forms(one.walk)
           /\ Boxes!HeadAt(one, at).size \in Nat
           /\ Boxes!HeadLength(Boxes!HeadAt(one, at)) \in 2..4
           /\ one.length \in Nat
<1>1. Boxes!HeadAt(one, at) \in PieceHeaders(one.walk)
  BY DEF Boxes!HeadAt, BoxFileStands
<1>2. \A h : Boxes!HeadLength(h) \in 2..4
  BY DEF Boxes!HeadLength
<1>3. one.length \in Nat
  BY DEF BoxFileStands
<1> QED
  BY <1>1, <1>2, <1>3 DEF PieceHeaders, AnyHeaders, Forms

(* What a row says of the header it was made from.                         *)
LEMMA RowRead ==
    ASSUME NEW h \in AnyHeaders, NEW at \in Nat, NEW size \in Nat, NEW depth \in Nat
    PROVE  /\ Boxes!Row(h, at, size, depth) \in PieceRows
           /\ Boxes!Row(h, at, size, depth).at = at /\ Boxes!Row(h, at, size, depth).size = size
           /\ Boxes!Row(h, at, size, depth).depth = depth
           /\ Boxes!Row(h, at, size, depth).kind = h.kind
           /\ Boxes!Row(h, at, size, depth).head = Boxes!HeadLength(h)
<1>1. Boxes!HeadLength(h) \in Nat
  BY DEF Boxes!HeadLength
<1>2. h.kind \in STRING
  BY DEF AnyHeaders
<1> QED
  BY <1>1, <1>2 DEF Boxes!Row, PieceRows

(* A row, what is in it and what comes later is a reading.                 *)
LEMMA ThenReads ==
    ASSUME NEW row \in PieceRows, NEW inner \in RowReadings, NEW later \in RowReadings
    PROVE  /\ Boxes!Then(row, inner, later) \in RowReadings
           /\ Boxes!Then(row, inner, later).rows = <<row>> \o inner.rows \o later.rows
           /\ Boxes!Then(row, inner, later).broken = 0 => inner.broken = 0 /\ later.broken = 0
           /\ inner.broken = 0 /\ later.broken = 0 => Boxes!Then(row, inner, later).broken = 0
<1>1. /\ inner.rows \in Seq(PieceRows) /\ inner.broken \in Nat
      /\ later.rows \in Seq(PieceRows) /\ later.broken \in Nat
  BY DEF RowReadings
<1>2. <<row>> \o inner.rows \o later.rows \in Seq(PieceRows)
  BY <1>1, JoinedRows
<1>3. inner.broken + later.broken \in Nat
  BY <1>1
<1>4. /\ inner.broken + later.broken = 0 => inner.broken = 0 /\ later.broken = 0
      /\ inner.broken = 0 /\ later.broken = 0 => inner.broken + later.broken = 0
  BY <1>1
<1>5. /\ Boxes!Then(row, inner, later).rows = <<row>> \o inner.rows \o later.rows
      /\ Boxes!Then(row, inner, later).broken = inner.broken + later.broken
  BY DEF Boxes!Then, Boxes!Read
<1>6. Boxes!Then(row, inner, later) \in RowReadings
  BY <1>2, <1>3 DEF Boxes!Then, Boxes!Read, RowReadings
<1> QED
  BY <1>4, <1>5, <1>6

(* What a walk that reads nothing returns.                                 *)
LEMMA NothingRead ==
    ASSUME NEW n \in Nat
    PROVE  /\ Boxes!Read(<<>>, n) \in RowReadings
           /\ Boxes!Read(<<>>, n).rows = <<>> /\ Boxes!Read(<<>>, n).broken = n
BY DEF Boxes!Read, RowReadings

-----------------------------------------------------------------------------
(* The walks that go into holders: make-heif- and make-der-fixtures.py.    *)
(* At a place one either goes on by a row, or reads nothing more; which,   *)
(* and what row, the file alone decides.                                   *)
RowFits(row, p) ==
    /\ row \in PieceRows /\ row.at = p.at /\ row.depth = p.depth
    /\ row.head > 0 /\ row.head <= row.size /\ row.at + row.size <= p.stop
InnerOf(skips, g, row) == IF row.kind \in DOMAIN skips THEN g[PlaceIn(skips, row)]
    ELSE Boxes!Read(<<>>, 0)
GoneOn(skips, g, row, p) == Boxes!Then(row, InnerOf(skips, g, row), g[PlaceAfter(row, p)])

(* What goes on so is a reading when what comes next is, is one in place   *)
(* of which another may be put that agrees on what comes next, and tiles.  *)
LEMMA GoneOnReads ==
    ASSUME NEW skips, AreSkips(skips),
           NEW p \in Boxes!Places, NEW row, RowFits(row, p), NEW g \in [Boxes!Places -> RowReadings]
    PROVE  /\ GoneOn(skips, g, row, p) \in RowReadings
           /\ /\ GoneOn(skips, g, row, p).broken = 0 /\ g[p] = GoneOn(skips, g, row, p)
              /\ row.kind \in DOMAIN skips /\ g[PlaceIn(skips, row)].broken = 0 =>
                   From(skips, row) <= row.at + row.size
              => Takes(skips, g, p, row)
           /\ g[PlaceAfter(row, p)].broken = 0
                /\ (row.kind \in DOMAIN skips => g[PlaceIn(skips, row)].broken = 0)
                => GoneOn(skips, g, row, p).broken = 0
<1>1. row \in PieceRows /\ PlaceAfter(row, p) \in Boxes!Places /\ PlaceIn(skips, row) \in Boxes!Places
  BY LeftIs DEF RowFits
<1>2. g[PlaceAfter(row, p)] \in RowReadings /\ g[PlaceIn(skips, row)] \in RowReadings
  BY <1>1
<1>3. InnerOf(skips, g, row) \in RowReadings
  BY <1>2, NothingRead DEF InnerOf
<1>4. /\ GoneOn(skips, g, row, p) \in RowReadings
      /\ GoneOn(skips, g, row, p).rows
           = <<row>> \o InnerOf(skips, g, row).rows \o g[PlaceAfter(row, p)].rows
      /\ GoneOn(skips, g, row, p).broken = 0 =>
            InnerOf(skips, g, row).broken = 0 /\ g[PlaceAfter(row, p)].broken = 0
      /\ InnerOf(skips, g, row).broken = 0 /\ g[PlaceAfter(row, p)].broken = 0 =>
            GoneOn(skips, g, row, p).broken = 0
  BY <1>1, <1>2, <1>3, ThenReads DEF GoneOn
<1>5. ASSUME GoneOn(skips, g, row, p).broken = 0, g[p] = GoneOn(skips, g, row, p),
             row.kind \in DOMAIN skips /\ g[PlaceIn(skips, row)].broken = 0 =>
                From(skips, row) <= row.at + row.size
      PROVE  Takes(skips, g, p, row)
  <2>1. CASE row.kind \in DOMAIN skips
    <3>1. InnerOf(skips, g, row) = g[PlaceIn(skips, row)]
      BY <2>1 DEF InnerOf
    <3> QED
      BY <1>4, <1>5, <2>1, <3>1 DEF Takes, RowFits
  <2>2. CASE row.kind \notin DOMAIN skips
    <3>1. InnerOf(skips, g, row).rows = <<>>
      BY <2>2, NothingRead DEF InnerOf
    <3> QED
      BY <1>4, <1>5, <2>2, <3>1 DEF Takes, RowFits
  <2> QED
    BY <2>1, <2>2
<1>6. ASSUME g[PlaceAfter(row, p)].broken = 0, row.kind \in DOMAIN skips
               => g[PlaceIn(skips, row)].broken = 0
      PROVE  GoneOn(skips, g, row, p).broken = 0
  BY <1>4, <1>6, NothingRead DEF InnerOf
<1> QED
  BY <1>4, <1>5, <1>6

(* Going on by a row asks the walk for places further on only.             *)
LEMMA GoneOnAlike ==
    ASSUME NEW skips, AreSkips(skips),
           NEW p \in Boxes!Places, NEW row, RowFits(row, p), NEW g, NEW k,
           \A q \in Boxes!Places : LeftAt[q] < LeftAt[p] => g[q] = k[q]
    PROVE  GoneOn(skips, g, row, p) = GoneOn(skips, k, row, p)
<1>1. /\ PlaceAfter(row, p) \in Boxes!Places /\ LeftAt[PlaceAfter(row, p)] < LeftAt[p]
      /\ PlaceIn(skips, row) \in Boxes!Places /\ LeftAt[PlaceIn(skips, row)] < LeftAt[p]
  BY LeftIs DEF RowFits
<1>2. g[PlaceAfter(row, p)] = k[PlaceAfter(row, p)] /\ g[PlaceIn(skips, row)] = k[PlaceIn(skips, row)]
  BY <1>1
<1> QED
  BY <1>2 DEF GoneOn, InnerOf

(* What such a walk does at every place, for a file that is at hand.       *)
NestedTurn(skips, plan, g, p) ==
    IF plan[p].goes THEN GoneOn(skips, g, plan[p].row, p) ELSE Boxes!Read(<<>>, plan[p].last)
InnerFits(skips, plan, row) ==
    \/ row.kind \notin DOMAIN skips \/ From(skips, row) <= row.at + row.size
    \/ ~plan[PlaceIn(skips, row)].goes /\ plan[PlaceIn(skips, row)].last = 1
NestedPlan(skips, plan) ==
    \A p \in Boxes!Places :
        /\ plan[p].goes => RowFits(plan[p].row, p) /\ InnerFits(skips, plan, plan[p].row)
        /\ plan[p].last \in 0..1
        /\ ~plan[p].goes /\ plan[p].last = 0 => p.at >= p.stop
NestedWalk(skips, plan, W) ==
    W \in [Boxes!Places -> RowReadings] /\ \A p \in Boxes!Places : W[p] = NestedTurn(skips, plan, W, p)

(* A turn returns a reading if the walk does everywhere.                   *)
LEMMA NestedTurnReads ==
    ASSUME NEW skips, AreSkips(skips),
           NEW plan, NestedPlan(skips, plan), NEW p \in Boxes!Places,
                 NEW g \in [Boxes!Places -> RowReadings]
    PROVE  NestedTurn(skips, plan, g, p) \in RowReadings
<1>1. CASE plan[p].goes
  <2>1. RowFits(plan[p].row, p)
    BY <1>1 DEF NestedPlan
  <2>2. GoneOn(skips, g, plan[p].row, p) \in RowReadings
    BY <2>1, GoneOnReads
  <2> QED
    BY <1>1, <2>2 DEF NestedTurn
<1>2. CASE ~plan[p].goes
  <2>1. plan[p].last \in Nat
    BY DEF NestedPlan
  <2> QED
    BY <1>2, <2>1, NothingRead DEF NestedTurn
<1> QED
  BY <1>1, <1>2

(* And asks it for places further on only.                                 *)
LEMMA NestedTurnAlike ==
    ASSUME NEW skips, AreSkips(skips),
           NEW plan, NestedPlan(skips, plan), NEW p \in Boxes!Places, NEW g, NEW k,
           \A q \in Boxes!Places : LeftAt[q] < LeftAt[p] => g[q] = k[q]
    PROVE  NestedTurn(skips, plan, g, p) = NestedTurn(skips, plan, k, p)
<1>1. CASE plan[p].goes
  <2>1. RowFits(plan[p].row, p)
    BY <1>1 DEF NestedPlan
  <2>2. GoneOn(skips, g, plan[p].row, p) = GoneOn(skips, k, plan[p].row, p)
    BY <2>1, GoneOnAlike
  <2> QED
    BY <1>1, <2>2 DEF NestedTurn
<1>2. CASE ~plan[p].goes
  BY <1>2 DEF NestedTurn
<1> QED
  BY <1>1, <1>2

(* There is one such walk.                                                 *)
LEMMA NestedHas ==
    ASSUME NEW skips, AreSkips(skips),
           NEW plan, NestedPlan(skips, plan)
    PROVE  \E W : NestedWalk(skips, plan, W)
<1> DEFINE A == Boxes!Places
           S == RowReadings
           step == [p \in A |-> [g \in [A -> S] |-> NestedTurn(skips, plan, g, p)]]
           s == Boxes!Read(<<>>, 0)
<1>1. \A p \in A : \A g \in [A -> S] : NestedTurn(skips, plan, g, p) \in S
  BY NestedTurnReads
<1>2. \A p \in A : \A g, k \in [A -> S] :
        (\A q \in A : LeftAt[q] < LeftAt[p] => g[q] = k[q])
           => NestedTurn(skips, plan, g, p) = NestedTurn(skips, plan, k, p)
  BY NestedTurnAlike
<1>3. LeftAt \in [A -> Nat]
  BY LeftIs
<1>4. s \in S
  BY NothingRead
<1> HIDE DEF A, S, s
<1>5. step \in [A -> [[A -> S] -> S]]
  BY <1>1
<1>6. \A p \in A : \A g \in [A -> S] : step[p][g] = NestedTurn(skips, plan, g, p)
  OBVIOUS
<1> HIDE DEF step
<1>7. Narrows(A, S, LeftAt, step)
  BY <1>2, <1>6 DEF Narrows
<1>8. Recurs(A, S, s, LeftAt, step)
  BY <1>3, <1>4, <1>5, <1>7 DEF Recurs
<1>9. PICK f : Solves(A, S, step, f)
  BY <1>8, Recursion
<1>10. f \in [A -> S] /\ \A p \in A : f[p] = NestedTurn(skips, plan, f, p)
  BY <1>6, <1>9 DEF Solves
<1>11. NestedWalk(skips, plan, f)
  BY <1>10 DEF NestedWalk, A, S
<1> QED
  BY <1>11

(* What agrees with it at every place is it.                               *)
LEMMA NestedTyped ==
    ASSUME NEW skips, AreSkips(skips),
           NEW plan, NestedPlan(skips, plan), NEW W, W = [p \in Boxes!Places |-> W[p]],
           \A p \in Boxes!Places : W[p] = NestedTurn(skips, plan, W, p)
    PROVE  NestedWalk(skips, plan, W)
<1> DEFINE Good == {p \in Boxes!Places : W[p] \in RowReadings}
<1>1. ASSUME NEW p \in Boxes!Places, \A q \in Boxes!Places : LeftAt[q] < LeftAt[p] => q \in Good
      PROVE  p \in Good
  <2> DEFINE g == [q \in Boxes!Places |->
                      IF LeftAt[q] < LeftAt[p] THEN W[q] ELSE Boxes!Read(<<>>, 0)]
  <2>1. g \in [Boxes!Places -> RowReadings]
    <3>1. Boxes!Read(<<>>, 0) \in RowReadings
      BY NothingRead
    <3> QED
      BY <1>1, <3>1
  <2>2. \A q \in Boxes!Places : LeftAt[q] < LeftAt[p] => g[q] = W[q]
    OBVIOUS
  <2> HIDE DEF g
  <2>3. NestedTurn(skips, plan, g, p) \in RowReadings
    BY <2>1, NestedTurnReads
  <2>4. NestedTurn(skips, plan, g, p) = NestedTurn(skips, plan, W, p)
    BY <2>2, NestedTurnAlike
  <2> QED
    BY <2>3, <2>4
<1>2. \A p \in Boxes!Places : p \in Good
  <2> HIDE DEF Good
  <2> QED
    BY <1>1, ByMeasure, LeftIs
<1>3. W \in [Boxes!Places -> RowReadings]
  BY <1>2
<1> QED
  BY <1>3 DEF NestedWalk

(* Where it has no complaint it takes the row the plan has, or has read    *)
(* all there is.                                                           *)
LEMMA NestedGoesOn ==
    ASSUME NEW skips, AreSkips(skips),
           NEW plan, NestedPlan(skips, plan), NEW W, NestedWalk(skips, plan, W),
           NEW p \in Boxes!Places, p.at <= p.stop, W[p].broken = 0
    PROVE  /\ plan[p].goes => plan[p].row \in PieceRows /\ Takes(skips, W, p, plan[p].row)
           /\ ~plan[p].goes => p.at = p.stop /\ W[p].rows = <<>>
<1>1. W[p] = NestedTurn(skips, plan, W, p) /\ W \in [Boxes!Places -> RowReadings]
  BY DEF NestedWalk
<1>2. ASSUME plan[p].goes
      PROVE  plan[p].row \in PieceRows /\ Takes(skips, W, p, plan[p].row)
  <2>1. RowFits(plan[p].row, p)
    BY <1>2 DEF NestedPlan
  <2>2. W[p] = GoneOn(skips, W, plan[p].row, p)
    BY <1>1, <1>2 DEF NestedTurn
  <2>4. ASSUME plan[p].row.kind \in DOMAIN skips, W[PlaceIn(skips, plan[p].row)].broken = 0
        PROVE  From(skips, plan[p].row) <= plan[p].row.at + plan[p].row.size
    <3> DEFINE q == PlaceIn(skips, plan[p].row)
    <3>1. q \in Boxes!Places
      BY <2>1, LeftIs DEF RowFits
    <3>2. W[q] = NestedTurn(skips, plan, W, q) /\ W[q].broken = 0
      BY <2>4, <3>1 DEF NestedWalk
    <3> HIDE DEF q
    <3>3. ~(~plan[q].goes /\ plan[q].last = 1)
      <4>1. SUFFICES ASSUME ~plan[q].goes, plan[q].last = 1 PROVE FALSE
        OBVIOUS
      <4>2. W[q] = Boxes!Read(<<>>, 1)
        BY <3>2, <4>1 DEF NestedTurn
      <4>3. Boxes!Read(<<>>, 1).broken = 1
        BY NothingRead
      <4> QED
        BY <3>2, <4>2, <4>3
    <3> QED
      BY <1>2, <2>4, <3>3 DEF NestedPlan, InnerFits, q
  <2>3. Takes(skips, W, p, plan[p].row)
    BY <1>1, <2>1, <2>2, <2>4, GoneOnReads
  <2> QED
    BY <2>1, <2>3 DEF RowFits
<1>3. ASSUME ~plan[p].goes
      PROVE  p.at = p.stop /\ W[p].rows = <<>>
  <2>1. W[p] = Boxes!Read(<<>>, plan[p].last) /\ plan[p].last \in Nat
    BY <1>1, <1>3 DEF NestedTurn, NestedPlan
  <2>2. W[p].rows = <<>> /\ plan[p].last = 0
    BY <2>1, NothingRead
  <2>3. p.at >= p.stop
    BY <1>3, <2>2 DEF NestedPlan
  <2> QED
    BY <2>2, <2>3 DEF Boxes!Places
<1> QED
  BY <1>2, <1>3

(* Its rows then tile what it read.                                        *)
LEMMA NestedWalkTiles ==
    ASSUME NEW skips, AreSkips(skips),
           NEW plan, NestedPlan(skips, plan), NEW W, NestedWalk(skips, plan, W)
    PROVE  \A p \in Boxes!Places : p.at <= p.stop /\ W[p].broken = 0 => Fine(skips, W[p].rows, p)
<1>1. W \in [Boxes!Places -> RowReadings]
  BY DEF NestedWalk
<1>2. ASSUME NEW p \in Boxes!Places, p.at <= p.stop, W[p].broken = 0
      PROVE  GoesOn(skips, W, p)
  BY <1>2, NestedGoesOn DEF GoesOn
<1> QED
  BY <1>1, <1>2, NestedTiles

(* Where every piece is followed by one, or by the end of what holds it,   *)
(* it ends so.                                                             *)
LEMMA NestedWalkEnds ==
    ASSUME NEW skips, AreSkips(skips),
           NEW plan, NestedPlan(skips, plan), NEW W, NestedWalk(skips, plan, W),
                 NEW Whole \in SUBSET Boxes!Places,
           \A p \in Whole :
              \/ /\ plan[p].goes /\ PlaceAfter(plan[p].row, p) \in Whole
                 /\ plan[p].row.kind \in DOMAIN skips => PlaceIn(skips, plan[p].row) \in Whole
              \/ ~plan[p].goes /\ plan[p].last = 0
    PROVE  \A p \in Whole : W[p].broken = 0
<1> DEFINE Good == {p \in Boxes!Places : p \in Whole => W[p].broken = 0}
<1>1. W \in [Boxes!Places -> RowReadings]
  BY DEF NestedWalk
<1>2. ASSUME NEW p \in Boxes!Places, \A q \in Boxes!Places : LeftAt[q] < LeftAt[p] => q \in Good
      PROVE  p \in Good
  <2> SUFFICES ASSUME p \in Whole PROVE W[p].broken = 0
    OBVIOUS
  <2>1. W[p] = NestedTurn(skips, plan, W, p)
    BY DEF NestedWalk
  <2> DEFINE row == plan[p].row
  <2>2. CASE /\ plan[p].goes /\ PlaceAfter(row, p) \in Whole
             /\ row.kind \in DOMAIN skips => PlaceIn(skips, row) \in Whole
    <3>1. RowFits(row, p)
      BY <2>2 DEF NestedPlan
    <3>2. W[p] = GoneOn(skips, W, row, p)
      BY <2>1, <2>2 DEF NestedTurn
    <3> HIDE DEF row
    <3>3. /\ PlaceAfter(row, p) \in Boxes!Places /\ LeftAt[PlaceAfter(row, p)] < LeftAt[p]
          /\ PlaceIn(skips, row) \in Boxes!Places /\ LeftAt[PlaceIn(skips, row)] < LeftAt[p]
      BY <3>1, LeftIs DEF RowFits
    <3>4. /\ W[PlaceAfter(row, p)].broken = 0
          /\ row.kind \in DOMAIN skips => W[PlaceIn(skips, row)].broken = 0
      BY <1>2, <2>2, <3>3
    <3>5. GoneOn(skips, W, row, p).broken = 0
      BY <1>1, <3>1, <3>4, GoneOnReads
    <3> QED
      BY <3>2, <3>5
  <2>3. CASE ~plan[p].goes /\ plan[p].last = 0
    BY <2>1, <2>3, NothingRead DEF NestedTurn
  <2> QED
    BY <2>2, <2>3
<1>3. \A p \in Boxes!Places : p \in Good
  <2> HIDE DEF Good
  <2> QED
    BY <1>2, ByMeasure, LeftIs
<1> QED
  BY <1>3

(* The two tables of what holds others.                                    *)
LEMMA TablesAre ==
    /\ AreSkips(Boxes!Containers) /\ AreSkips(Boxes!Constructed)
    /\ DOMAIN Boxes!Constructed = {"holder"} /\ Boxes!Constructed["holder"] = 0
    /\ \A row : Skip(Boxes!Constructed, row) = 0
<1>1. Boxes!Containers \in [DOMAIN Boxes!Containers -> Nat]
  BY DEF Boxes!Containers
<1>2. DOMAIN Boxes!Constructed = {"holder"} /\ Boxes!Constructed["holder"] = 0
  BY DEF Boxes!Constructed
<1>3. Boxes!Constructed \in [DOMAIN Boxes!Constructed -> Nat]
  BY DEF Boxes!Constructed
<1>4. \A row : Skip(Boxes!Constructed, row) = 0
  BY <1>2 DEF Skip
<1> QED
  BY <1>1, <1>2, <1>3, <1>4 DEF AreSkips

(* What the walk of make-heif-fixtures.py does at a place: by which row it *)
(* goes on, and what it complains of when it does not.                     *)
HeifRow(one, p) == LET h == Boxes!HeadAt(one, p.at)
                   IN  Boxes!Row(h, p.at, Boxes!BoxSize(h, p.at, p.stop), p.depth)
HeifGoes(one, p) ==
    LET h == Boxes!HeadAt(one, p.at)
        size == Boxes!BoxSize(h, p.at, p.stop)
    IN  /\ ~(p.at + 2 > p.stop)
        /\ ~(\/ h.form = "wide" /\ p.at + 4 > p.stop
             \/ size < Boxes!HeadLength(h) \/ p.at + size > p.stop)
HeifPlan(one) ==
    [p \in Boxes!Places |-> [goes |-> HeifGoes(one, p), row |-> HeifRow(one, p),
                             last |-> IF p.at = p.stop THEN 0 ELSE 1]]
LEMMA HeifTurnIs ==
    ASSUME NEW one, BoxFileStands(one), NEW p \in Boxes!Places
    PROVE  /\ HeifGoes(one, p) => RowFits(HeifRow(one, p), p)
           /\ \A g : Boxes!HeifTurn(one, g, p) = NestedTurn(Boxes!Containers, HeifPlan(one), g, p)
<1> DEFINE h == Boxes!HeadAt(one, p.at)
           size == Boxes!BoxSize(h, p.at, p.stop)
           row == HeifRow(one, p)
<1>1. p.at \in Nat /\ p.stop \in Nat /\ p.depth \in Nat
  BY DEF Boxes!Places
<1>2. h \in AnyHeaders /\ h.size \in Nat /\ Boxes!HeadLength(h) \in 2..4
  BY <1>1, HeadRead
<1>3. size \in Int
  BY <1>1, <1>2 DEF Boxes!BoxSize
<1>0. /\ HeifPlan(one)[p].goes <=> HeifGoes(one, p)
      /\ HeifPlan(one)[p].row = HeifRow(one, p)
      /\ HeifPlan(one)[p].last = IF p.at = p.stop THEN 0 ELSE 1
  BY DEF HeifPlan
<1>4. ASSUME HeifGoes(one, p)
      PROVE  /\ RowFits(row, p)
             /\ \A g : Boxes!HeifTurn(one, g, p) = GoneOn(Boxes!Containers, g, row, p)
  <2>1. size \in Nat /\ Boxes!HeadLength(h) <= size /\ p.at + size <= p.stop
    <3>1. ~(size < Boxes!HeadLength(h)) /\ ~(p.at + size > p.stop)
      BY <1>4 DEF HeifGoes
    <3> HIDE DEF size, h
    <3> QED
      BY <1>1, <1>2, <1>3, <3>1
  <2>2. row = Boxes!Row(h, p.at, size, p.depth)
    BY DEF HeifRow
  <2> HIDE DEF row, size, h
  <2>3. /\ row \in PieceRows /\ row.at = p.at /\ row.size = size /\ row.depth = p.depth
        /\ row.kind = h.kind /\ row.head = Boxes!HeadLength(h)
    <3>1. h \in AnyHeaders /\ p.at \in Nat /\ p.depth \in Nat /\ size \in Nat
      BY <1>1, <1>2, <2>1
    <3> QED
      BY ONLY <3>1, <2>2, RowRead
  <2>4. RowFits(row, p)
    BY <1>2, <2>1, <2>3 DEF RowFits
  <2>5. /\ PlaceAfter(row, p) = Boxes!Place(p.at + size, p.stop, p.depth)
        /\ row.kind \in DOMAIN Boxes!Containers =>
             PlaceIn(Boxes!Containers, row) =
                 Boxes!Place(p.at + Boxes!HeadLength(h) + Boxes!Containers[h.kind], p.at + size,
                             p.depth + 1)
    BY <2>3 DEF PlaceAfter, PlaceIn, From, Skip
  <2>6. ASSUME NEW g
        PROVE  Boxes!HeifTurn(one, g, p) = GoneOn(Boxes!Containers, g, row, p)
    <3>1. Boxes!HeifTurn(one, g, p) =
            Boxes!Then(Boxes!Row(h, p.at, size, p.depth),
                       IF h.kind \in DOMAIN Boxes!Containers
                       THEN g[Boxes!Place(p.at + Boxes!HeadLength(h) + Boxes!Containers[h.kind],
                                          p.at + size, p.depth + 1)]
                       ELSE Boxes!Read(<<>>, 0),
                       g[Boxes!Place(p.at + size, p.stop, p.depth)])
      BY <1>4 DEF Boxes!HeifTurn, HeifGoes, h, size
    <3> QED
      BY <2>2, <2>3, <2>5, <3>1 DEF GoneOn, InnerOf
  <2> QED
    BY <2>4, <2>6
<1>5. ASSUME ~HeifGoes(one, p), NEW g
      PROVE  Boxes!HeifTurn(one, g, p) = Boxes!Read(<<>>, IF p.at = p.stop THEN 0 ELSE 1)
  <2>1. CASE p.at + 2 > p.stop
    BY <2>1 DEF Boxes!HeifTurn
  <2>2. CASE ~(p.at + 2 > p.stop)
    <3>1. p.at # p.stop
      BY <1>1, <2>2
    <3> QED
      BY <1>5, <2>2, <3>1 DEF Boxes!HeifTurn, HeifGoes
  <2> QED
    BY <2>1, <2>2
<1> HIDE DEF row, size, h
<1>6. ASSUME NEW g
      PROVE  Boxes!HeifTurn(one, g, p) = NestedTurn(Boxes!Containers, HeifPlan(one), g, p)
  <2>1. CASE HeifGoes(one, p)
    BY <1>0, <1>4, <2>1 DEF NestedTurn, row
  <2>2. CASE ~HeifGoes(one, p)
    BY <1>0, <1>5, <2>2 DEF NestedTurn
  <2> QED
    BY <2>1, <2>2
<1> QED
  BY <1>4, <1>6 DEF row

(* The rows of make-heif-fixtures.py fit their places.                     *)
LEMMA HeifPlanStands ==
    ASSUME NEW one, BoxFileStands(one)
    PROVE  NestedPlan(Boxes!Containers, HeifPlan(one))
<1>1. ASSUME NEW p \in Boxes!Places
      PROVE  /\ HeifPlan(one)[p].goes =>
                  /\ RowFits(HeifPlan(one)[p].row, p)
                  /\ InnerFits(Boxes!Containers, HeifPlan(one), HeifPlan(one)[p].row)
             /\ HeifPlan(one)[p].last \in 0..1
             /\ ~HeifPlan(one)[p].goes /\ HeifPlan(one)[p].last = 0 => p.at >= p.stop
  <2>1. /\ HeifPlan(one)[p].goes <=> HeifGoes(one, p)
        /\ HeifPlan(one)[p].row = HeifRow(one, p)
        /\ HeifPlan(one)[p].last = IF p.at = p.stop THEN 0 ELSE 1
    BY DEF HeifPlan
  <2>2. HeifGoes(one, p) => RowFits(HeifRow(one, p), p)
    BY HeifTurnIs
  <2>3. p.at \in Nat /\ p.stop \in Nat
    BY DEF Boxes!Places
  <2>4. ASSUME HeifGoes(one, p)
        PROVE  InnerFits(Boxes!Containers, HeifPlan(one), HeifRow(one, p))
    <3> DEFINE row == HeifRow(one, p)
               q == PlaceIn(Boxes!Containers, row)
    <3>1. RowFits(row, p)
      BY <2>2, <2>4
    <3>2. q \in Boxes!Places
      BY <3>1, LeftIs, TablesAre DEF RowFits
    <3>3. q.at = From(Boxes!Containers, row) /\ q.stop = row.at + row.size
          /\ q.at \in Nat /\ q.stop \in Nat
      BY <3>2 DEF PlaceIn, Boxes!Place, Boxes!Places
    <3>4. /\ HeifPlan(one)[q].goes <=> HeifGoes(one, q)
          /\ HeifPlan(one)[q].last = IF q.at = q.stop THEN 0 ELSE 1
      BY <3>2 DEF HeifPlan
    <3> HIDE DEF row
    <3>5. CASE q.at > q.stop
      <4>1. q.at + 2 > q.stop /\ q.at # q.stop
        BY <3>3, <3>5
      <4>2. ~HeifGoes(one, q)
        BY <4>1 DEF HeifGoes
      <4> QED
        BY <3>4, <4>1, <4>2 DEF InnerFits, row
    <3>6. CASE ~(q.at > q.stop)
      <4>1. From(Boxes!Containers, row) <= row.at + row.size
        BY <3>3, <3>6
      <4> QED
        BY <4>1 DEF InnerFits, row
    <3> QED
      BY <3>5, <3>6
  <2> QED
    BY <2>1, <2>2, <2>3, <2>4
<1> QED
  BY <1>1 DEF NestedPlan

(* So its walk is one of that plan.                                        *)
LEMMA HeifIs ==
    ASSUME NEW one, BoxFileStands(one)
    PROVE  \E W : /\ NestedWalk(Boxes!Containers, HeifPlan(one), W)
                 /\ Boxes!HeifWalk(one) = W[Boxes!Place(0, one.length, 0)]
<1> DEFINE body(w) == [p \in Boxes!Places |-> Boxes!HeifTurn(one, w, p)]
           W == CHOOSE w : w = body(w)
<1>1. NestedPlan(Boxes!Containers, HeifPlan(one))
  BY HeifPlanStands
<1>2. PICK f : NestedWalk(Boxes!Containers, HeifPlan(one), f)
  BY <1>1, NestedHas, TablesAre
<1>3. f = [p \in Boxes!Places |-> f[p]]
      /\ \A p \in Boxes!Places : f[p] = NestedTurn(Boxes!Containers, HeifPlan(one), f, p)
  BY <1>2 DEF NestedWalk
<1>4. \A g : \A p \in Boxes!Places : Boxes!HeifTurn(one, g, p)
        = NestedTurn(Boxes!Containers, HeifPlan(one), g, p)
  BY HeifTurnIs
<1>5. f = body(f)
  BY <1>3, <1>4
<1>6. Boxes!HeifWalk(one) = W[Boxes!Place(0, one.length, 0)]
  BY DEF Boxes!HeifWalk
<1>7. W = body(W)
  <2> HIDE DEF body
  <2> QED
    BY <1>5
<1> HIDE DEF W
<1>8. W = [p \in Boxes!Places |-> W[p]]
      /\ \A p \in Boxes!Places : W[p] = NestedTurn(Boxes!Containers, HeifPlan(one), W, p)
  BY <1>4, <1>7
<1>9. NestedWalk(Boxes!Containers, HeifPlan(one), W)
  BY <1>1, <1>8, NestedTyped, TablesAre
<1> QED
  BY <1>6, <1>9

(* The same of make-der-fixtures.py's tlvs.                                *)
TlvRow(one, p) == LET h == Boxes!HeadAt(one, p.at)
                  IN  Boxes!Row(h, p.at, Boxes!HeadLength(h) + h.size, p.depth)
TlvGoes(one, p) ==
    LET h == Boxes!HeadAt(one, p.at)
        inside == p.at + Boxes!HeadLength(h)
    IN  /\ ~(p.at >= p.stop)
        /\ ~(\/ p.depth > Boxes!MaxDepth \/ p.at + 2 > p.stop
             \/ h.form = "rest" \/ inside > p.stop \/ inside + h.size > p.stop)
TlvPlan(one) ==
    [p \in Boxes!Places |-> [goes |-> TlvGoes(one, p), row |-> TlvRow(one, p),
                             last |-> IF p.at >= p.stop THEN 0 ELSE 1]]
LEMMA TlvTurnIs ==
    ASSUME NEW one, BoxFileStands(one), NEW p \in Boxes!Places
    PROVE  /\ TlvGoes(one, p) => RowFits(TlvRow(one, p), p)
           /\ \A g : Boxes!TlvTurn(one, g, p) = NestedTurn(Boxes!Constructed, TlvPlan(one), g, p)
<1> DEFINE h == Boxes!HeadAt(one, p.at)
           n == Boxes!HeadLength(h)
           row == TlvRow(one, p)
<1>1. p.at \in Nat /\ p.stop \in Nat /\ p.depth \in Nat
  BY DEF Boxes!Places
<1>2. h \in AnyHeaders /\ h.size \in Nat /\ n \in 2..4
  BY <1>1, HeadRead
<1>0. /\ TlvPlan(one)[p].goes <=> TlvGoes(one, p)
      /\ TlvPlan(one)[p].row = TlvRow(one, p)
      /\ TlvPlan(one)[p].last = IF p.at >= p.stop THEN 0 ELSE 1
  BY DEF TlvPlan
<1>4. ASSUME TlvGoes(one, p)
      PROVE  /\ RowFits(row, p)
             /\ \A g : Boxes!TlvTurn(one, g, p) = GoneOn(Boxes!Constructed, g, row, p)
  <2>1. n + h.size \in Nat /\ n <= n + h.size /\ p.at + (n + h.size) <= p.stop
        /\ p.at + (n + h.size) = p.at + n + h.size
    <3>1. ~(p.at + n + h.size > p.stop)
      BY <1>4 DEF TlvGoes
    <3> HIDE DEF n, h
    <3> QED
      BY <1>1, <1>2, <3>1
  <2>2. row = Boxes!Row(h, p.at, n + h.size, p.depth)
    BY DEF TlvRow
  <2> HIDE DEF row, n, h
  <2>3. /\ row \in PieceRows /\ row.at = p.at /\ row.size = n + h.size /\ row.depth = p.depth
        /\ row.kind = h.kind /\ row.head = Boxes!HeadLength(h)
    <3>1. h \in AnyHeaders /\ p.at \in Nat /\ p.depth \in Nat /\ n + h.size \in Nat
      BY <1>1, <1>2, <2>1
    <3> QED
      BY ONLY <3>1, <2>2, RowRead
  <2>4. RowFits(row, p)
    BY <1>2, <2>1, <2>3 DEF RowFits, n
  <2>5. /\ PlaceAfter(row, p) = Boxes!Place(p.at + n + h.size, p.stop, p.depth)
        /\ PlaceIn(Boxes!Constructed, row) = Boxes!Place(p.at + n, p.at + n + h.size, p.depth + 1)
    <3>1. From(Boxes!Constructed, row) = p.at + n
      <4>1. Skip(Boxes!Constructed, row) = 0
        BY TablesAre
      <4> QED
        BY <1>1, <1>2, <2>3, <4>1 DEF From, n
    <3> QED
      BY <2>1, <2>3, <3>1 DEF PlaceAfter, PlaceIn, n
  <2>6. ASSUME NEW g
        PROVE  Boxes!TlvTurn(one, g, p) = GoneOn(Boxes!Constructed, g, row, p)
    <3>1. Boxes!TlvTurn(one, g, p) =
            Boxes!Then(Boxes!Row(h, p.at, n + h.size, p.depth),
                       IF Boxes!Holds(h)
                       THEN g[Boxes!Place(p.at + n, p.at + n + h.size, p.depth + 1)]
                       ELSE Boxes!Read(<<>>, 0),
                       g[Boxes!Place(p.at + n + h.size, p.stop, p.depth)])
      BY <1>4 DEF Boxes!TlvTurn, TlvGoes, h, n
    <3> QED
      BY <2>2, <2>3, <2>5, <3>1, TablesAre DEF GoneOn, InnerOf, Boxes!Holds
  <2> QED
    BY <2>4, <2>6
<1>5. ASSUME ~TlvGoes(one, p), NEW g
      PROVE  Boxes!TlvTurn(one, g, p) = Boxes!Read(<<>>, IF p.at >= p.stop THEN 0 ELSE 1)
  <2>1. CASE p.at >= p.stop
    BY <2>1 DEF Boxes!TlvTurn
  <2>2. CASE ~(p.at >= p.stop)
    BY <1>5, <2>2 DEF Boxes!TlvTurn, TlvGoes
  <2> QED
    BY <2>1, <2>2
<1> HIDE DEF row, n, h
<1>6. ASSUME NEW g
      PROVE  Boxes!TlvTurn(one, g, p) = NestedTurn(Boxes!Constructed, TlvPlan(one), g, p)
  <2>1. CASE TlvGoes(one, p)
    BY <1>0, <1>4, <2>1 DEF NestedTurn, row
  <2>2. CASE ~TlvGoes(one, p)
    BY <1>0, <1>5, <2>2 DEF NestedTurn
  <2> QED
    BY <2>1, <2>2
<1> QED
  BY <1>4, <1>6 DEF row

(* The rows of tlvs fit their places.                                      *)
LEMMA TlvPlanStands ==
    ASSUME NEW one, BoxFileStands(one)
    PROVE  NestedPlan(Boxes!Constructed, TlvPlan(one))
<1>1. ASSUME NEW p \in Boxes!Places
      PROVE  /\ TlvPlan(one)[p].goes =>
                  /\ RowFits(TlvPlan(one)[p].row, p)
                  /\ InnerFits(Boxes!Constructed, TlvPlan(one), TlvPlan(one)[p].row)
             /\ TlvPlan(one)[p].last \in 0..1
             /\ ~TlvPlan(one)[p].goes /\ TlvPlan(one)[p].last = 0 => p.at >= p.stop
  <2>1. /\ TlvPlan(one)[p].goes <=> TlvGoes(one, p)
        /\ TlvPlan(one)[p].row = TlvRow(one, p)
        /\ TlvPlan(one)[p].last = IF p.at >= p.stop THEN 0 ELSE 1
    BY DEF TlvPlan
  <2>2. TlvGoes(one, p) => RowFits(TlvRow(one, p), p)
    BY TlvTurnIs
  <2>3. p.at \in Nat /\ p.stop \in Nat
    BY DEF Boxes!Places
  <2>4. ASSUME TlvGoes(one, p)
        PROVE  InnerFits(Boxes!Constructed, TlvPlan(one), TlvRow(one, p))
    <3> DEFINE row == TlvRow(one, p)
    <3>1. RowFits(row, p)
      BY <2>2, <2>4
    <3> HIDE DEF row
    <3>2. row.at \in Nat /\ row.size \in Nat /\ row.head \in Nat /\ row.head <= row.size
      BY <3>1 DEF RowFits, PieceRows
    <3>3. Skip(Boxes!Constructed, row) = 0
      BY TablesAre
    <3>4. From(Boxes!Constructed, row) <= row.at + row.size
      BY <3>2, <3>3 DEF From
    <3> QED
      BY <3>4 DEF InnerFits, row
  <2> QED
    BY <2>1, <2>2, <2>3, <2>4
<1> QED
  BY <1>1 DEF NestedPlan

(* So tlvs is a walk of that plan.                                         *)
LEMMA TlvIs ==
    ASSUME NEW one, BoxFileStands(one)
    PROVE  \E W : /\ NestedWalk(Boxes!Constructed, TlvPlan(one), W)
                 /\ Boxes!Tlvs(one) = W[Boxes!Place(0, one.length, 0)]
<1> DEFINE body(w) == [p \in Boxes!Places |-> Boxes!TlvTurn(one, w, p)]
           W == CHOOSE w : w = body(w)
<1>1. NestedPlan(Boxes!Constructed, TlvPlan(one))
  BY TlvPlanStands
<1>2. PICK f : NestedWalk(Boxes!Constructed, TlvPlan(one), f)
  BY <1>1, NestedHas, TablesAre
<1>3. f = [p \in Boxes!Places |-> f[p]]
      /\ \A p \in Boxes!Places : f[p] = NestedTurn(Boxes!Constructed, TlvPlan(one), f, p)
  BY <1>2 DEF NestedWalk
<1>4. \A g : \A p \in Boxes!Places : Boxes!TlvTurn(one, g, p)
        = NestedTurn(Boxes!Constructed, TlvPlan(one), g, p)
  BY TlvTurnIs
<1>5. f = body(f)
  BY <1>3, <1>4
<1>6. Boxes!Tlvs(one) = W[Boxes!Place(0, one.length, 0)]
  BY DEF Boxes!Tlvs
<1>7. W = body(W)
  <2> HIDE DEF body
  <2> QED
    BY <1>5
<1> HIDE DEF W
<1>8. W = [p \in Boxes!Places |-> W[p]]
      /\ \A p \in Boxes!Places : W[p] = NestedTurn(Boxes!Constructed, TlvPlan(one), W, p)
  BY <1>4, <1>7
<1>9. NestedWalk(Boxes!Constructed, TlvPlan(one), W)
  BY <1>1, <1>8, NestedTyped, TablesAre
<1> QED
  BY <1>6, <1>9

(* A piece of a file as it was laid out.                                   *)
LEMMA PieceLaid ==
    ASSUME NEW one, BoxFileStands(one), LaidOut(one),
           NEW at \in Nat, NEW stop \in Nat, NEW depth \in Nat,
           Follows(one, at, stop, depth), at # stop
    PROVE  LET h == Boxes!HeadAt(one, at)
               end == EndOf(one, at)
           IN  /\ end = IF h.form = "rest" THEN stop
                        ELSE at + h.size + (IF one.walk \in {"der", "pgp"} THEN Boxes!HeadLength(h) ELSE 0)
               /\ end \in Nat /\ at + Boxes!HeadLength(h) <= end /\ end <= stop
               /\ Follows(one, end, stop, depth)
               /\ h.kind \in DOMAIN Skips(one) =>
                    Follows(one, at + Boxes!HeadLength(h) + Skips(one)[h.kind], end, depth + 1)
               /\ one.walk = "der" => h.form # "rest" /\ depth <= Boxes!MaxDepth
               /\ one.walk = "emf" => h.form # "rest"
               /\ one.walk = "pgp" => /\ h.kind # "blank" /\ h.form # "partial"
                                      /\ h.form = "rest" => Boxes!Streams(h)
                                      /\ Boxes!Opaque(h) => end = one.length
<1> DEFINE h == Boxes!HeadAt(one, at)
           end == EndOf(one, at)
<1>1. at \in DOMAIN one.heads /\ one.held[at] = [stop |-> stop, depth |-> depth]
  BY DEF Follows
<1>2. one.held[at].stop = stop /\ one.held[at].depth = depth
  BY <1>1
<1>3. h = one.heads[at]
  BY <1>1 DEF Boxes!HeadAt
<1>4. /\ at + Boxes!HeadLength(h) <= end /\ end <= stop
      /\ Follows(one, end, stop, depth)
      /\ h.kind \in DOMAIN Skips(one) =>
           Follows(one, at + Boxes!HeadLength(h) + Skips(one)[h.kind], end, depth + 1)
      /\ one.walk = "der" => h.form # "rest" /\ depth <= Boxes!MaxDepth
      /\ one.walk = "emf" => h.form # "rest"
      /\ one.walk = "pgp" => /\ h.kind # "blank" /\ h.form # "partial"
                             /\ h.form = "rest" => Boxes!Streams(h)
                             /\ Boxes!Opaque(h) => end = one.length
  <2> HIDE DEF h, end
  <2> QED
    BY <1>1, <1>2, <1>3 DEF LaidOut, end
<1>5. end = IF h.form = "rest" THEN stop
            ELSE at + h.size + (IF one.walk \in {"der", "pgp"} THEN Boxes!HeadLength(h) ELSE 0)
  <2> HIDE DEF h
  <2> QED
    BY <1>2, <1>3 DEF EndOf
<1>6. h.size \in Nat /\ Boxes!HeadLength(h) \in 2..4
  BY HeadRead
<1>7. end \in Nat
  <2> HIDE DEF h, end
  <2> QED
    BY <1>5, <1>6
<1> QED
  BY <1>4, <1>5, <1>7

(* A laid out file is walked without a complaint: every place the walk     *)
(* comes to is where a piece is or where a holder ends.                    *)
LEMMA HeifEnds ==
    ASSUME NEW one, BoxFileStands(one), LaidOut(one), one.walk = "heif"
    PROVE  Boxes!HeifWalk(one).broken = 0
<1> DEFINE Whole == {p \in Boxes!Places : Follows(one, p.at, p.stop, p.depth)}
           plan == HeifPlan(one)
<1>1. ASSUME NEW p \in Whole
      PROVE  \/ /\ plan[p].goes /\ PlaceAfter(plan[p].row, p) \in Whole
                /\ plan[p].row.kind \in DOMAIN Boxes!Containers
                     => PlaceIn(Boxes!Containers, plan[p].row) \in Whole
             \/ ~plan[p].goes /\ plan[p].last = 0
  <2>1. p.at \in Nat /\ p.stop \in Nat /\ p.depth \in Nat /\ p \in Boxes!Places
    BY DEF Boxes!Places
  <2>2. /\ plan[p].goes <=> HeifGoes(one, p)
        /\ plan[p].row = HeifRow(one, p)
        /\ plan[p].last = IF p.at = p.stop THEN 0 ELSE 1
    BY <2>1 DEF HeifPlan
  <2>3. CASE p.at = p.stop
    <3>1. p.at + 2 > p.stop
      BY <2>1, <2>3
    <3>2. ~HeifGoes(one, p)
      BY <3>1 DEF HeifGoes
    <3> QED
      BY <2>2, <2>3, <3>2
  <2>4. CASE p.at # p.stop
    <3> DEFINE h == Boxes!HeadAt(one, p.at)
               size == Boxes!BoxSize(h, p.at, p.stop)
               end == EndOf(one, p.at)
               n == Boxes!HeadLength(h)
               row == HeifRow(one, p)
    <3>1. /\ end = IF h.form = "rest" THEN p.stop ELSE p.at + h.size
          /\ end \in Nat /\ p.at + n <= end /\ end <= p.stop
          /\ Follows(one, end, p.stop, p.depth)
          /\ h.kind \in DOMAIN Boxes!Containers =>
               Follows(one, p.at + n + Boxes!Containers[h.kind], end, p.depth + 1)
      <4>1. Follows(one, p.at, p.stop, p.depth)
        OBVIOUS
      <4>2. h.size \in Nat
        BY <2>1, HeadRead
      <4>3. p.at + h.size + 0 = p.at + h.size
        BY <2>1, <4>2
      <4> QED
        BY <2>1, <2>4, <4>1, <4>3, PieceLaid DEF Skips
    <3>2. n \in 2..4 /\ h.size \in Nat /\ h \in AnyHeaders /\ (h.form = "wide" => n = 4)
      BY <2>1, HeadRead DEF Boxes!HeadLength
    <3>3. size = IF h.form = "rest" THEN p.stop - p.at ELSE h.size
      <4>1. CASE h.form = "rest"
        BY <4>1 DEF Boxes!BoxSize
      <4>2. CASE h.form # "rest"
        <5>1. h.size # 0
          <6> HIDE DEF h, n, end
          <6> QED
            BY <2>1, <3>1, <3>2, <4>2
        <5> QED
          BY <4>2, <5>1 DEF Boxes!BoxSize
      <4> QED
        BY <4>1, <4>2
    <3>7. row = Boxes!Row(h, p.at, size, p.depth)
      BY DEF HeifRow
    <3> HIDE DEF h, size, end, n, row
    <3>4. size \in Nat /\ n <= size /\ p.at + size = end
      BY <2>1, <3>1, <3>2, <3>3
    <3>5. /\ ~(p.at + 2 > p.stop)
          /\ ~((h.form = "wide" /\ p.at + 4 > p.stop) \/ size < n \/ p.at + size > p.stop)
      BY <2>1, <3>1, <3>2, <3>4
    <3>6. HeifGoes(one, p)
      BY <3>5 DEF HeifGoes, h, size, n
    <3>8. /\ row \in PieceRows /\ row.at = p.at /\ row.size = size /\ row.depth = p.depth
          /\ row.kind = h.kind /\ row.head = n
      <4>1. p.depth \in Nat /\ h \in AnyHeaders
        BY <2>1, <3>2
      <4> DEFINE made == Boxes!Row(h, p.at, size, p.depth)
      <4>2. p.at \in Nat /\ size \in Nat /\ p.depth \in Nat
        BY <2>1, <3>4
      <4>3. /\ made \in PieceRows /\ made.at = p.at /\ made.size = size /\ made.depth = p.depth
            /\ made.kind = h.kind /\ made.head = Boxes!HeadLength(h)
        BY ONLY <4>1, <4>2, RowRead
      <4> HIDE DEF made
      <4>4. row = made
        BY <3>7 DEF made
      <4> QED
        BY <4>3, <4>4 DEF n
    <3>9. RowFits(row, p)
      BY <3>6, <2>1, HeifTurnIs DEF row
    <3>10. PlaceAfter(row, p) \in Boxes!Places /\ PlaceIn(Boxes!Containers, row) \in Boxes!Places
      BY <2>1, <3>9, LeftIs, TablesAre DEF RowFits
    <3>11. PlaceAfter(row, p) \in Whole
      <4>1. /\ PlaceAfter(row, p).at = end /\ PlaceAfter(row, p).stop = p.stop
            /\ PlaceAfter(row, p).depth = p.depth
        BY <3>4, <3>8 DEF PlaceAfter, Boxes!Place
      <4> QED
        BY <3>1, <3>10, <4>1
    <3>12. row.kind \in DOMAIN Boxes!Containers => PlaceIn(Boxes!Containers, row) \in Whole
      <4> DEFINE q == PlaceIn(Boxes!Containers, row)
      <4>1. /\ row.kind \in DOMAIN Boxes!Containers => q.at = p.at + n + Boxes!Containers[h.kind]
            /\ q.stop = end /\ q.depth = p.depth + 1
        BY <3>4, <3>8 DEF PlaceIn, From, Skip, Boxes!Place
      <4> QED
        BY <3>1, <3>8, <3>10, <4>1
    <3> QED
      BY <2>2, <3>6, <3>11, <3>12 DEF row
  <2> QED
    BY <2>3, <2>4
<1> DEFINE start == Boxes!Place(0, one.length, 0)
<1>2. start \in Whole
  <2>1. one.length \in Nat
    BY DEF BoxFileStands
  <2>2. start \in Boxes!Places /\ start.at = 0 /\ start.stop = one.length /\ start.depth = 0
    BY <2>1 DEF Boxes!Places, Boxes!Place
  <2> QED
    BY <2>2 DEF LaidOut
<1>3. NestedPlan(Boxes!Containers, plan)
  BY HeifPlanStands
<1>4. PICK W : NestedWalk(Boxes!Containers, plan, W) /\ Boxes!HeifWalk(one) = W[start]
  BY HeifIs
<1>5. Whole \in SUBSET Boxes!Places
  OBVIOUS
<1> HIDE DEF Whole, plan, start
<1>6. \A p \in Whole : W[p].broken = 0
  BY <1>1, <1>3, <1>4, <1>5, NestedWalkEnds, TablesAre
<1> QED
  BY <1>2, <1>4, <1>6

(* A laid out file of objects too.                                         *)
LEMMA TlvEnds ==
    ASSUME NEW one, BoxFileStands(one), LaidOut(one), one.walk = "der"
    PROVE  Boxes!Tlvs(one).broken = 0
<1> DEFINE Whole == {p \in Boxes!Places : Follows(one, p.at, p.stop, p.depth)}
           plan == TlvPlan(one)
<1>1. ASSUME NEW p \in Whole
      PROVE  \/ /\ plan[p].goes /\ PlaceAfter(plan[p].row, p) \in Whole
                /\ plan[p].row.kind \in DOMAIN Boxes!Constructed
                     => PlaceIn(Boxes!Constructed, plan[p].row) \in Whole
             \/ ~plan[p].goes /\ plan[p].last = 0
  <2>1. p.at \in Nat /\ p.stop \in Nat /\ p.depth \in Nat /\ p \in Boxes!Places
    BY DEF Boxes!Places
  <2>2. /\ plan[p].goes <=> TlvGoes(one, p)
        /\ plan[p].row = TlvRow(one, p)
        /\ plan[p].last = IF p.at >= p.stop THEN 0 ELSE 1
    BY <2>1 DEF TlvPlan
  <2>3. CASE p.at = p.stop
    <3>1. p.at >= p.stop
      BY <2>1, <2>3
    <3>2. ~TlvGoes(one, p)
      BY <3>1 DEF TlvGoes
    <3> QED
      BY <2>2, <3>1, <3>2
  <2>4. CASE p.at # p.stop
    <3> DEFINE h == Boxes!HeadAt(one, p.at)
               end == EndOf(one, p.at)
               n == Boxes!HeadLength(h)
               size == n + h.size
               row == TlvRow(one, p)
    <3>1. /\ end = p.at + h.size + n /\ h.form # "rest" /\ p.depth <= Boxes!MaxDepth
          /\ end \in Nat /\ p.at + n <= end /\ end <= p.stop
          /\ Follows(one, end, p.stop, p.depth)
          /\ h.kind = "holder" => Follows(one, p.at + n, end, p.depth + 1)
      <4>1. Follows(one, p.at, p.stop, p.depth)
        OBVIOUS
      <4>2. Skips(one) = Boxes!Constructed
        BY DEF Skips
      <4>3. p.at + n \in Nat /\ p.at + n + 0 = p.at + n
        BY <2>1, HeadRead
      <4>4. h.kind = "holder" => Follows(one, p.at + n + 0, end, p.depth + 1)
        BY <2>1, <2>4, <4>1, <4>2, PieceLaid, TablesAre
      <4> QED
        BY <2>1, <2>4, <4>1, <4>3, <4>4, PieceLaid
    <3>2. n \in 2..4 /\ h.size \in Nat /\ h \in AnyHeaders
      BY <2>1, HeadRead
    <3>3. size = n + h.size
      OBVIOUS
    <3>7. row = Boxes!Row(h, p.at, size, p.depth)
      BY DEF TlvRow
    <3> HIDE DEF h, size, end, n, row
    <3>4. size \in Nat /\ n <= size /\ p.at + size = end
      BY <2>1, <3>1, <3>2, <3>3
    <3>5. /\ ~(p.at >= p.stop)
          /\ ~(p.depth > Boxes!MaxDepth \/ p.at + 2 > p.stop)
          /\ ~(h.form = "rest" \/ p.at + n > p.stop \/ p.at + n + h.size > p.stop)
      <4>1. ~(p.depth > Boxes!MaxDepth)
        BY <2>1, <3>1 DEF Boxes!MaxDepth
      <4> QED
        BY <2>1, <3>1, <3>2, <3>3, <3>4, <4>1
    <3>6. TlvGoes(one, p)
      BY <3>5 DEF TlvGoes, h, n
    <3>8. /\ row \in PieceRows /\ row.at = p.at /\ row.size = size /\ row.depth = p.depth
          /\ row.kind = h.kind /\ row.head = n
      <4>1. p.depth \in Nat /\ h \in AnyHeaders
        BY <2>1, <3>2
      <4> DEFINE made == Boxes!Row(h, p.at, size, p.depth)
      <4>2. p.at \in Nat /\ size \in Nat /\ p.depth \in Nat
        BY <2>1, <3>4
      <4>3. /\ made \in PieceRows /\ made.at = p.at /\ made.size = size /\ made.depth = p.depth
            /\ made.kind = h.kind /\ made.head = Boxes!HeadLength(h)
        BY ONLY <4>1, <4>2, RowRead
      <4> HIDE DEF made
      <4>4. row = made
        BY <3>7 DEF made
      <4> QED
        BY <4>3, <4>4 DEF n
    <3>9. RowFits(row, p)
      BY <3>6, <2>1, TlvTurnIs DEF row
    <3>10. PlaceAfter(row, p) \in Boxes!Places /\ PlaceIn(Boxes!Constructed, row) \in Boxes!Places
      BY <2>1, <3>9, LeftIs, TablesAre DEF RowFits
    <3>11. PlaceAfter(row, p) \in Whole
      <4>1. /\ PlaceAfter(row, p).at = end /\ PlaceAfter(row, p).stop = p.stop
            /\ PlaceAfter(row, p).depth = p.depth
        BY <3>4, <3>8 DEF PlaceAfter, Boxes!Place
      <4> QED
        BY <3>1, <3>10, <4>1
    <3>12. row.kind \in DOMAIN Boxes!Constructed => PlaceIn(Boxes!Constructed, row) \in Whole
      <4> DEFINE q == PlaceIn(Boxes!Constructed, row)
      <4>0. From(Boxes!Constructed, row) = p.at + n
        <5>1. Skip(Boxes!Constructed, row) = 0
          BY TablesAre
        <5> QED
          BY <2>1, <3>2, <3>8, <5>1 DEF From
      <4>1. q.at = p.at + n /\ q.stop = end /\ q.depth = p.depth + 1
        BY <3>4, <3>8, <4>0 DEF PlaceIn, Boxes!Place
      <4> QED
        BY <3>1, <3>8, <3>10, <4>1, TablesAre
    <3> QED
      BY <2>2, <3>6, <3>11, <3>12 DEF row
  <2> QED
    BY <2>3, <2>4
<1> DEFINE start == Boxes!Place(0, one.length, 0)
<1>2. start \in Whole
  <2>1. one.length \in Nat
    BY DEF BoxFileStands
  <2>2. start \in Boxes!Places /\ start.at = 0 /\ start.stop = one.length /\ start.depth = 0
    BY <2>1 DEF Boxes!Places, Boxes!Place
  <2> QED
    BY <2>2 DEF LaidOut
<1>3. NestedPlan(Boxes!Constructed, plan)
  BY TlvPlanStands
<1>4. PICK W : NestedWalk(Boxes!Constructed, plan, W) /\ Boxes!Tlvs(one) = W[start]
  BY TlvIs
<1>5. Whole \in SUBSET Boxes!Places
  OBVIOUS
<1> HIDE DEF Whole, plan, start
<1>6. \A p \in Whole : W[p].broken = 0
  BY <1>1, <1>3, <1>4, <1>5, NestedWalkEnds, TablesAre
<1> QED
  BY <1>2, <1>4, <1>6

(* The walks that stay on one level.  At a place one goes on by some rows, *)
(* or its reading ends there.                                              *)
PacketReadings == [rows : Seq(PieceRows), broken : Nat, ends : BOOLEAN]
FlatTurn(plan, g, at) ==
    IF plan[at].goes THEN Boxes!Ahead(plan[at].rows, g[plan[at].next]) ELSE plan[at].last
FlatPlan(S, end, plan) ==
    /\ S \in {RowReadings, PacketReadings} /\ end \in Nat
    /\ \A at \in Ats :
         /\ plan[at].goes => /\ plan[at].rows \in Seq(PieceRows) /\ plan[at].next \in Nat
                             /\ at < end /\ at < plan[at].next
         /\ ~plan[at].goes => plan[at].last \in S
FlatWalk(S, plan, W) ==
    W \in [Ats -> S] /\ \A at \in Ats : W[at] = FlatTurn(plan, W, at)

(* The fields of a reading of either kind.                                 *)
LEMMA ReadingHas ==
    ASSUME NEW S \in {RowReadings, PacketReadings}, NEW read \in S
    PROVE  read.rows \in Seq(PieceRows) /\ read.broken \in Nat
<1>1. CASE S = RowReadings
  BY <1>1 DEF RowReadings
<1>2. CASE S = PacketReadings
  BY <1>2 DEF PacketReadings
<1> QED
  BY <1>1, <1>2

(* Rows ahead of a reading.                                                *)
LEMMA AheadReads ==
    ASSUME NEW S \in {RowReadings, PacketReadings}, NEW rows \in Seq(PieceRows), NEW later \in S
    PROVE  /\ Boxes!Ahead(rows, later) \in S
           /\ Boxes!Ahead(rows, later).rows = rows \o later.rows
           /\ Boxes!Ahead(rows, later).broken = later.broken
           /\ S = PacketReadings => Boxes!Ahead(rows, later).ends = later.ends
           /\ later.rows \in Seq(PieceRows) /\ later.broken \in Nat
<1>1. later.rows \in Seq(PieceRows) /\ later.broken \in Nat
  BY ReadingHas
<1>2. rows \o later.rows \in Seq(PieceRows)
  BY <1>1
<1>3. CASE S = RowReadings
  <2>1. later = [rows |-> later.rows, broken |-> later.broken]
    BY <1>3 DEF RowReadings
  <2>2. Boxes!Ahead(rows, later) = [rows |-> rows \o later.rows, broken |-> later.broken]
    <3> DEFINE all == rows \o later.rows
    <3>1. Boxes!Ahead(rows, later) = [later EXCEPT !.rows = all]
      BY DEF Boxes!Ahead
    <3> HIDE DEF all
    <3>2. [later EXCEPT !.rows = all] = [rows |-> all, broken |-> later.broken]
      BY <2>1
    <3> QED
      BY <3>1, <3>2 DEF all
  <2>3. RowReadings # PacketReadings
    <3>1. Boxes!Read(<<>>, 0) \in RowReadings
      BY NothingRead
    <3>2. DOMAIN Boxes!Read(<<>>, 0) = {"rows", "broken"}
      BY DEF Boxes!Read
    <3>3. \A r \in PacketReadings : DOMAIN r = {"rows", "broken", "ends"}
      BY DEF PacketReadings
    <3> QED
      BY <3>1, <3>2, <3>3
  <2> QED
    BY <1>1, <1>2, <1>3, <2>2, <2>3 DEF RowReadings
<1>4. CASE S = PacketReadings
  <2>1. later = [rows |-> later.rows, broken |-> later.broken, ends |-> later.ends]
        /\ later.ends \in BOOLEAN
    BY <1>4 DEF PacketReadings
  <2>2. Boxes!Ahead(rows, later)
          = [rows |-> rows \o later.rows, broken |-> later.broken, ends |-> later.ends]
    <3> DEFINE all == rows \o later.rows
    <3>1. Boxes!Ahead(rows, later) = [later EXCEPT !.rows = all]
      BY DEF Boxes!Ahead
    <3> HIDE DEF all
    <3>2. [later EXCEPT !.rows = all]
            = [rows |-> all, broken |-> later.broken, ends |-> later.ends]
      BY <2>1
    <3> QED
      BY <3>1, <3>2 DEF all
  <2> QED
    BY <1>1, <1>2, <1>4, <2>1, <2>2 DEF PacketReadings
<1> QED
  BY <1>3, <1>4

(* A turn along a level returns a reading if the walk does everywhere.     *)
LEMMA FlatTurnReads ==
    ASSUME NEW S, NEW end, NEW plan, FlatPlan(S, end, plan), NEW at \in Ats,
           NEW g \in [Ats -> S]
    PROVE  FlatTurn(plan, g, at) \in S
<1>1. S \in {RowReadings, PacketReadings}
  BY DEF FlatPlan
<1>2. CASE plan[at].goes
  <2>1. plan[at].rows \in Seq(PieceRows) /\ plan[at].next \in Ats
    BY <1>2 DEF FlatPlan, Ats
  <2>2. g[plan[at].next] \in S
    BY <2>1
  <2>3. Boxes!Ahead(plan[at].rows, g[plan[at].next]) \in S
    BY <1>1, <2>1, <2>2, AheadReads
  <2> QED
    BY <1>2, <2>3 DEF FlatTurn
<1>3. CASE ~plan[at].goes
  BY <1>3 DEF FlatTurn, FlatPlan
<1> QED
  BY <1>2, <1>3

(* And asks it for places further on only.                                 *)
LEMMA FlatTurnAlike ==
    ASSUME NEW S, NEW end, NEW plan, FlatPlan(S, end, plan), NEW at \in Ats, NEW g, NEW k,
           \A b \in Ats : LeftTo(end)[b] < LeftTo(end)[at] => g[b] = k[b]
    PROVE  FlatTurn(plan, g, at) = FlatTurn(plan, k, at)
<1>1. CASE plan[at].goes
  <2>1. end \in Nat /\ at \in Nat /\ plan[at].next \in Nat /\ at < end /\ at < plan[at].next
    BY <1>1 DEF FlatPlan, Ats
  <2>2. LeftTo(end)[plan[at].next] < LeftTo(end)[at]
    BY <2>1, LeftToIs
  <2>3. g[plan[at].next] = k[plan[at].next]
    BY <2>1, <2>2 DEF Ats
  <2> QED
    BY <1>1, <2>3 DEF FlatTurn
<1>2. CASE ~plan[at].goes
  BY <1>2 DEF FlatTurn
<1> QED
  BY <1>1, <1>2

(* There is a reading of either kind.                                      *)
LEMMA SomeReading ==
    ASSUME NEW S \in {RowReadings, PacketReadings}
    PROVE  \E s : s \in S
<1>1. Boxes!Read(<<>>, 0) \in RowReadings
  BY NothingRead
<1>2. Boxes!Ending(<<>>, 0, TRUE) \in PacketReadings
  BY DEF Boxes!Ending, PacketReadings
<1> QED
  BY <1>1, <1>2

(* There is one such walk.                                                 *)
LEMMA FlatHas ==
    ASSUME NEW S, NEW end, NEW plan, FlatPlan(S, end, plan)
    PROVE  \E W : FlatWalk(S, plan, W)
<1> DEFINE m == LeftTo(end)
           step == [at \in Ats |-> [g \in [Ats -> S] |-> FlatTurn(plan, g, at)]]
<1>0. S \in {RowReadings, PacketReadings} /\ end \in Nat
  BY DEF FlatPlan
<1>1. \A at \in Ats : \A g \in [Ats -> S] : FlatTurn(plan, g, at) \in S
  BY FlatTurnReads
<1>2. \A at \in Ats : \A g, k \in [Ats -> S] :
        (\A b \in Ats : m[b] < m[at] => g[b] = k[b]) => FlatTurn(plan, g, at) = FlatTurn(plan, k, at)
  BY FlatTurnAlike
<1>3. m \in [Ats -> Nat]
  BY <1>0, LeftToIs
<1>4. PICK s : s \in S
  BY <1>0, SomeReading
<1>5. step \in [Ats -> [[Ats -> S] -> S]]
  BY <1>1
<1>6. \A at \in Ats : \A g \in [Ats -> S] : step[at][g] = FlatTurn(plan, g, at)
  OBVIOUS
<1> HIDE DEF step, m
<1>7. Narrows(Ats, S, m, step)
  BY <1>2, <1>6 DEF Narrows
<1>8. Recurs(Ats, S, s, m, step)
  BY <1>3, <1>4, <1>5, <1>7 DEF Recurs
<1>9. PICK f : Solves(Ats, S, step, f)
  BY <1>8, Recursion
<1>10. f \in [Ats -> S] /\ \A at \in Ats : f[at] = FlatTurn(plan, f, at)
  BY <1>6, <1>9 DEF Solves
<1>11. FlatWalk(S, plan, f)
  BY <1>10 DEF FlatWalk
<1> QED
  BY <1>11

(* What agrees with it at every place is it.                               *)
LEMMA FlatTyped ==
    ASSUME NEW S, NEW end, NEW plan, FlatPlan(S, end, plan), NEW W, W = [at \in Nat |-> W[at]],
           \A at \in Nat : W[at] = FlatTurn(plan, W, at)
    PROVE  FlatWalk(S, plan, W)
<1> DEFINE Good == {at \in Ats : W[at] \in S}
           m == LeftTo(end)
<1>0. S \in {RowReadings, PacketReadings} /\ end \in Nat
  BY DEF FlatPlan
<1>4. PICK s : s \in S
  BY <1>0, SomeReading
<1>1. ASSUME NEW at \in Ats, \A b \in Ats : m[b] < m[at] => b \in Good
      PROVE  at \in Good
  <2> DEFINE g == [b \in Ats |-> IF m[b] < m[at] THEN W[b] ELSE s]
  <2>1. g \in [Ats -> S]
    BY <1>1, <1>4
  <2>2. \A b \in Ats : m[b] < m[at] => g[b] = W[b]
    OBVIOUS
  <2> HIDE DEF g
  <2>3. FlatTurn(plan, g, at) \in S
    BY <2>1, FlatTurnReads
  <2>4. FlatTurn(plan, g, at) = FlatTurn(plan, W, at)
    <3>1. \A b \in Ats : LeftTo(end)[b] < LeftTo(end)[at] => g[b] = W[b]
      BY <2>2
    <3>2. FlatPlan(S, end, plan)
      OBVIOUS
    <3> QED
      BY ONLY <3>1, <3>2, at \in Ats, FlatTurnAlike
  <2> QED
    BY <2>3, <2>4 DEF Ats
<1>2. \A at \in Ats : at \in Good
  <2>1. m \in [Ats -> Nat]
    BY <1>0, LeftToIs
  <2> HIDE DEF Good, m
  <2> QED
    BY <1>1, <2>1, ByMeasure
<1>3. W \in [Ats -> S]
  BY <1>2 DEF Ats
<1> QED
  BY <1>3 DEF FlatWalk, Ats

(* Rows that take up one level from `at` to `next`: a piece, and some that *)
(* are not on the level but in it.                                         *)
LevelRows(rows, at, next) ==
    \E row \in PieceRows, extra \in Seq(PieceRows) :
        /\ rows = <<row>> \o extra
        /\ row.at = at /\ row.depth = 0 /\ row.size > 0 /\ at + row.size = next
        /\ InFileOrder(extra)
        /\ \A r \in ToSet(extra) : r.depth # 0 /\ at < r.at /\ r.at < next

(* A walk of a plan whose rows follow each other tiles its level, but for  *)
(* a tail.                                                                 *)
LEMMA FlatWalkTiles ==
    ASSUME NEW S, NEW end, NEW plan, FlatPlan(S, end, plan), NEW W, FlatWalk(S, plan, W),
           NEW Clean \in SUBSET Nat, NEW tail \in Nat,
           \A at \in Clean :
              \/ /\ plan[at].goes /\ plan[at].next \in Clean /\ plan[at].next <= end
                 /\ LevelRows(plan[at].rows, at, plan[at].next)
              \/ /\ ~plan[at].goes /\ at <= end /\ end <= at + tail /\ plan[at].last.rows = <<>>
              \/ /\ ~plan[at].goes /\ end \in Clean /\ W[end].rows = <<>>
                 /\ LevelRows(plan[at].last.rows, at, end)
    PROVE  \A at \in Clean : \E t \in 0..tail : FineFlat(W[at].rows, at, end - t)
<1> DEFINE R == [at \in Nat |-> W[at].rows]
<1>0. S \in {RowReadings, PacketReadings} /\ end \in Nat
  BY DEF FlatPlan
<1>1. ASSUME NEW at \in Nat
      PROVE  W[at] \in S /\ W[at].rows \in Seq(PieceRows)
  <2>1. W[at] \in S
    BY DEF FlatWalk, Ats
  <2> QED
    BY <1>0, <2>1, ReadingHas
<1>2. R \in [Nat -> Seq(PieceRows)] /\ \A at \in Nat : R[at] = W[at].rows
  BY <1>1
<1> HIDE DEF R
<1>3. ASSUME NEW at \in Nat, NEW rows, NEW next \in Clean, next <= end,
             LevelRows(rows, at, next), R[at] = rows \o R[next]
      PROVE  GoesOnFlat(R, Clean, end, tail, at)
  <2>1. PICK row \in PieceRows, extra \in Seq(PieceRows) :
           /\ rows = <<row>> \o extra
           /\ row.at = at /\ row.depth = 0 /\ row.size > 0 /\ at + row.size = next
           /\ InFileOrder(extra)
           /\ \A r \in ToSet(extra) : r.depth # 0 /\ at < r.at /\ r.at < next
    BY <1>3 DEF LevelRows
  <2>2. R[at] = <<row>> \o extra \o R[at + row.size]
    BY <1>3, <2>1
  <2>3. TakesFlat(R, Clean, end, at, row, extra)
    BY <1>3, <2>1, <2>2 DEF TakesFlat
  <2> QED
    BY <2>3 DEF GoesOnFlat
<1>4. ASSUME NEW at \in Clean
      PROVE  GoesOnFlat(R, Clean, end, tail, at)
  <2>1. W[at] = FlatTurn(plan, W, at) /\ at \in Nat
    BY DEF FlatWalk, Ats
  <2>2. CASE /\ plan[at].goes /\ plan[at].next \in Clean /\ plan[at].next <= end
             /\ LevelRows(plan[at].rows, at, plan[at].next)
    <3>1. plan[at].rows \in Seq(PieceRows)
      BY <2>1, <2>2 DEF FlatPlan, Ats
    <3>2. W[at] = Boxes!Ahead(plan[at].rows, W[plan[at].next])
      BY <2>1, <2>2 DEF FlatTurn
    <3>3. W[plan[at].next] \in S /\ plan[at].next \in Nat
      BY <1>1, <2>2
    <3>4. W[at].rows = plan[at].rows \o W[plan[at].next].rows
      <4>1. Boxes!Ahead(plan[at].rows, W[plan[at].next]).rows
              = plan[at].rows \o W[plan[at].next].rows
        BY ONLY <1>0, <3>1, <3>3, AheadReads
      <4> QED
        BY <3>2, <4>1
    <3>5. R[at] = plan[at].rows \o R[plan[at].next]
      BY <1>2, <2>1, <3>3, <3>4
    <3> QED
      BY <1>3, <2>1, <2>2, <3>5
  <2>3. CASE ~plan[at].goes /\ at <= end /\ end <= at + tail /\ plan[at].last.rows = <<>>
    <3>1. R[at] = <<>>
      BY <1>2, <2>1, <2>3 DEF FlatTurn
    <3> QED
      BY <2>3, <3>1 DEF GoesOnFlat
  <2>4. CASE /\ ~plan[at].goes /\ end \in Clean /\ W[end].rows = <<>>
             /\ LevelRows(plan[at].last.rows, at, end)
    <3>1. R[at] = plan[at].last.rows /\ R[end] = <<>> /\ R[at] \in Seq(PieceRows)
      BY <1>0, <1>2, <2>1, <2>4 DEF FlatTurn
    <3>2. R[at] = plan[at].last.rows \o R[end]
      BY <3>1
    <3> QED
      <4>1. end <= end /\ end \in Clean
        BY <1>0, <2>4
      <4> QED
        BY <1>3, <2>1, <2>4, <3>2, <4>1
  <2> QED
    BY <2>2, <2>3, <2>4
<1>5. \A at \in Clean : \E t \in 0..tail : FineFlat(R[at], at, end - t)
  BY <1>0, <1>2, <1>4, FlatTiles
<1> QED
  BY <1>2, <1>5

(* Where every piece is followed by one, or by the end, it ends well.      *)
LEMMA FlatWalkEnds ==
    ASSUME NEW S, NEW end, NEW plan, FlatPlan(S, end, plan), NEW W, FlatWalk(S, plan, W),
           NEW F \in SUBSET S, NEW Whole \in SUBSET Nat,
           \A rows \in Seq(PieceRows) : \A later \in F : Boxes!Ahead(rows, later) \in F,
           \A at \in Whole : \/ plan[at].goes /\ plan[at].next \in Whole
                             \/ ~plan[at].goes /\ plan[at].last \in F
    PROVE  \A at \in Whole : W[at] \in F
<1> DEFINE Good == {at \in Ats : at \in Whole => W[at] \in F}
           m == LeftTo(end)
<1>1. ASSUME NEW at \in Ats, \A b \in Ats : m[b] < m[at] => b \in Good
      PROVE  at \in Good
  <2> SUFFICES ASSUME at \in Whole PROVE W[at] \in F
    OBVIOUS
  <2>1. W[at] = FlatTurn(plan, W, at)
    BY DEF FlatWalk
  <2>2. CASE plan[at].goes /\ plan[at].next \in Whole
    <3>1. /\ plan[at].rows \in Seq(PieceRows) /\ plan[at].next \in Nat /\ at \in Nat /\ end \in Nat
          /\ at < end /\ at < plan[at].next
      BY <2>2 DEF FlatPlan, Ats
    <3>2. m[plan[at].next] < m[at]
      BY <3>1, LeftToIs
    <3>3. W[plan[at].next] \in F
      BY <1>1, <2>2, <3>1, <3>2 DEF Ats
    <3>4. W[at] = Boxes!Ahead(plan[at].rows, W[plan[at].next])
      BY <2>1, <2>2 DEF FlatTurn
    <3> QED
      BY <3>1, <3>3, <3>4
  <2>3. CASE ~plan[at].goes /\ plan[at].last \in F
    BY <2>1, <2>3 DEF FlatTurn
  <2> QED
    BY <2>2, <2>3
<1>2. \A at \in Ats : at \in Good
  <2>1. m \in [Ats -> Nat]
    BY LeftToIs DEF FlatPlan
  <2> HIDE DEF Good, m
  <2> QED
    BY <1>1, <2>1, ByMeasure
<1> QED
  BY <1>2 DEF Ats

(* One row is a level of its own.                                          *)
LEMMA LevelOne ==
    ASSUME NEW row \in PieceRows, row.depth = 0, row.size > 0, NEW next, next = row.at + row.size
    PROVE  LevelRows(<<row>>, row.at, next)
<1>1. <<row>> = <<row>> \o <<>> /\ <<>> \in Seq(PieceRows) /\ ToSet(<<>>) = {}
  BY DEF ToSet
<1>2. InFileOrder(<<>>)
  BY DEF InFileOrder
<1> QED
  BY <1>1, <1>2 DEF LevelRows

(* The walks that end where something is broken, or that leave a tail.     *)
LEMMA FlatClean ==
    ASSUME NEW end, NEW plan, FlatPlan(RowReadings, end, plan),
           NEW W, FlatWalk(RowReadings, plan, W), NEW tail \in Nat,
           \A at \in Nat : at <= end =>
              /\ plan[at].goes => plan[at].next <= end /\ LevelRows(plan[at].rows, at, plan[at].next)
              /\ ~plan[at].goes /\ plan[at].last.broken = 0 =>
                    end <= at + tail /\ plan[at].last.rows = <<>>
    PROVE  \A at \in Nat : at <= end /\ W[at].broken = 0 =>
              \E t \in 0..tail : FineFlat(W[at].rows, at, end - t)
<1> DEFINE Clean == {at \in Nat : at <= end /\ W[at].broken = 0}
<1>1. ASSUME NEW at \in Clean
      PROVE  \/ /\ plan[at].goes /\ plan[at].next \in Clean /\ plan[at].next <= end
                /\ LevelRows(plan[at].rows, at, plan[at].next)
             \/ /\ ~plan[at].goes /\ at <= end /\ end <= at + tail /\ plan[at].last.rows = <<>>
  <2>1. W[at] = FlatTurn(plan, W, at) /\ at \in Nat /\ at \in Ats
    BY DEF FlatWalk, Ats
  <2>2. CASE plan[at].goes
    <3>1. plan[at].rows \in Seq(PieceRows) /\ plan[at].next \in Nat
      BY <2>1, <2>2 DEF FlatPlan
    <3>2. W[plan[at].next] \in RowReadings
      BY <3>1 DEF FlatWalk, Ats
    <3>3. W[at] = Boxes!Ahead(plan[at].rows, W[plan[at].next])
      BY <2>1, <2>2 DEF FlatTurn
    <3>4. Boxes!Ahead(plan[at].rows, W[plan[at].next]).broken = W[plan[at].next].broken
      BY ONLY <3>1, <3>2, AheadReads
    <3>5. plan[at].next <= end /\ LevelRows(plan[at].rows, at, plan[at].next)
      BY <2>2
    <3> QED
      BY <2>2, <3>1, <3>3, <3>4, <3>5
  <2>3. CASE ~plan[at].goes
    <3>1. W[at] = plan[at].last
      BY <2>1, <2>3 DEF FlatTurn
    <3> QED
      BY <2>3, <3>1
  <2> QED
    BY <2>2, <2>3
<1>2. Clean \in SUBSET Nat
  OBVIOUS
<1> HIDE DEF Clean
<1>3. \A at \in Clean : \E t \in 0..tail : FineFlat(W[at].rows, at, end - t)
  BY <1>1, <1>2, FlatWalkTiles
<1> QED
  BY <1>3 DEF Clean

(* A walk that comes only to places where a piece is, or its level ends,   *)
(* complains of nothing.                                                   *)
LEMMA FlatSound ==
    ASSUME NEW one, NEW end, NEW plan, FlatPlan(RowReadings, end, plan),
           NEW W, FlatWalk(RowReadings, plan, W),
           \A at \in Nat : Follows(one, at, end, 0) =>
              \/ plan[at].goes /\ Follows(one, plan[at].next, end, 0)
              \/ ~plan[at].goes /\ plan[at].last.broken = 0
    PROVE  \A at \in Nat : Follows(one, at, end, 0) => W[at].broken = 0
<1> DEFINE Whole == {at \in Nat : Follows(one, at, end, 0)}
           F == {r \in RowReadings : r.broken = 0}
<1>1. ASSUME NEW at \in Whole
      PROVE  \/ plan[at].goes /\ plan[at].next \in Whole
             \/ ~plan[at].goes /\ plan[at].last \in F
  <2>1. /\ plan[at].goes => plan[at].next \in Nat
        /\ ~plan[at].goes => plan[at].last \in RowReadings
    BY DEF FlatPlan, Ats
  <2> QED
    BY <2>1
<1>2. ASSUME NEW rows \in Seq(PieceRows), NEW later \in F
      PROVE  Boxes!Ahead(rows, later) \in F
  <2>1. later \in RowReadings /\ later.broken = 0
    OBVIOUS
  <2>2. Boxes!Ahead(rows, later) \in RowReadings /\ Boxes!Ahead(rows, later).broken = later.broken
    BY ONLY <2>1, rows \in Seq(PieceRows), AheadReads
  <2> QED
    BY <2>1, <2>2
<1>3. F \in SUBSET RowReadings /\ Whole \in SUBSET Nat
  OBVIOUS
<1> HIDE DEF F, Whole
<1>4. \A at \in Whole : W[at] \in F
  BY <1>1, <1>2, <1>3, FlatWalkEnds
<1> QED
  BY <1>4 DEF F, Whole

-----------------------------------------------------------------------------
(* boxes of make-jp2-fixtures.py.                                          *)
JpPlan(one, end) ==
    [at \in Ats |->
        LET h == Boxes!HeadAt(one, at)
            length == Boxes!Jp2Size(h, at, end)
        IN  [goes |-> ~(at + 2 > end) /\ ~(length < Boxes!HeadLength(h) \/ at + length > end),
             rows |-> <<Boxes!Row(h, at, length, 0)>>, next |-> at + length,
             last |-> Boxes!Read(<<>>, IF at + 2 > end THEN 0 ELSE 1)]]
LEMMA JpTurnIs ==
    ASSUME NEW one, BoxFileStands(one), NEW end \in Nat, NEW at \in Nat
    PROVE  LET plan == JpPlan(one, end)
           IN  /\ \A g : Boxes!Jp2Turn(one, end, g, at) = FlatTurn(plan, g, at)
               /\ plan[at].goes => /\ plan[at].rows \in Seq(PieceRows) /\ plan[at].next \in Nat
                                   /\ at < end /\ at < plan[at].next /\ plan[at].next <= end
                                   /\ LevelRows(plan[at].rows, at, plan[at].next)
               /\ ~plan[at].goes => /\ plan[at].last \in RowReadings /\ plan[at].last.rows = <<>>
                                    /\ plan[at].last.broken = 0 => end <= at + 1
<1> DEFINE h == Boxes!HeadAt(one, at)
           length == Boxes!Jp2Size(h, at, end)
           n == Boxes!HeadLength(h)
           row == Boxes!Row(h, at, length, 0)
           plan == JpPlan(one, end)
<1>1. h \in AnyHeaders /\ h.size \in Nat /\ n \in 2..4
  BY HeadRead
<1>2. length \in Int
  BY <1>1 DEF Boxes!Jp2Size
<1>3. /\ plan[at].goes <=> ~(at + 2 > end) /\ ~(length < n \/ at + length > end)
      /\ plan[at].rows = <<row>> /\ plan[at].next = at + length
      /\ plan[at].last = Boxes!Read(<<>>, IF at + 2 > end THEN 0 ELSE 1)
  BY DEF JpPlan, Ats
<1>4. ASSUME NEW g
      PROVE  Boxes!Jp2Turn(one, end, g, at) = FlatTurn(plan, g, at)
  <2>1. Boxes!Jp2Turn(one, end, g, at) =
          IF at + 2 > end THEN Boxes!Read(<<>>, 0)
          ELSE IF length < n \/ at + length > end THEN Boxes!Read(<<>>, 1)
          ELSE Boxes!Ahead(<<row>>, g[at + length])
    BY DEF Boxes!Jp2Turn
  <2> HIDE DEF h, length, n, row, plan
  <2> QED
    BY <1>3, <2>1 DEF FlatTurn
<1> HIDE DEF n, length, plan
<1>5. ASSUME plan[at].goes
      PROVE  /\ plan[at].rows \in Seq(PieceRows) /\ plan[at].next \in Nat
             /\ at < end /\ at < plan[at].next /\ plan[at].next <= end
             /\ LevelRows(plan[at].rows, at, plan[at].next)
  <2>1. length \in Nat /\ length > 0 /\ at + length <= end /\ at < end
    BY <1>1, <1>2, <1>3, <1>5
  <2>2. row \in PieceRows /\ row.at = at /\ row.size = length /\ row.depth = 0
    BY <1>1, <2>1, RowRead
  <2> HIDE DEF row
  <2>3. LevelRows(<<row>>, at, at + length)
    BY <2>1, <2>2, LevelOne
  <2> QED
    BY <1>3, <2>1, <2>2, <2>3
<1>6. ASSUME ~plan[at].goes
      PROVE  /\ plan[at].last \in RowReadings /\ plan[at].last.rows = <<>>
             /\ plan[at].last.broken = 0 => end <= at + 1
  <2>1. CASE at + 2 > end
    BY <1>3, <2>1, NothingRead
  <2>2. CASE ~(at + 2 > end)
    BY <1>3, <2>2, NothingRead
  <2> QED
    BY <2>1, <2>2
<1> QED
  BY <1>4, <1>5, <1>6 DEF plan

(* So the walk is one of that plan.                                        *)
LEMMA JpIs ==
    ASSUME NEW one, BoxFileStands(one), NEW end \in Nat, NEW from \in Nat
    PROVE  /\ FlatPlan(RowReadings, end, JpPlan(one, end))
           /\ \E W : /\ FlatWalk(RowReadings, JpPlan(one, end), W)
                     /\ Boxes!Jp2Boxes(one, from, end) = W[from]
<1> DEFINE body(w) == [at \in Nat |-> Boxes!Jp2Turn(one, end, w, at)]
           W == CHOOSE w : w = body(w)
           plan == JpPlan(one, end)
<1>1. FlatPlan(RowReadings, end, plan)
  BY JpTurnIs DEF FlatPlan, Ats
<1>2. PICK f : FlatWalk(RowReadings, plan, f)
  BY <1>1, FlatHas
<1>3. f = [at \in Nat |-> f[at]] /\ \A at \in Nat : f[at] = FlatTurn(plan, f, at)
  BY <1>2 DEF FlatWalk, Ats
<1>4. \A g : \A at \in Nat : Boxes!Jp2Turn(one, end, g, at) = FlatTurn(plan, g, at)
  BY JpTurnIs
<1>5. f = body(f)
  BY <1>3, <1>4
<1>6. Boxes!Jp2Boxes(one, from, end) = W[from]
  BY DEF Boxes!Jp2Boxes
<1>7. W = body(W)
  <2> HIDE DEF body
  <2> QED
    BY <1>5
<1> HIDE DEF W
<1>8. W = [at \in Nat |-> W[at]] /\ \A at \in Nat : W[at] = FlatTurn(plan, W, at)
  BY <1>4, <1>7
<1>9. FlatWalk(RowReadings, plan, W)
  <2> HIDE DEF plan
  <2> QED
    BY <1>1, <1>8, FlatTyped
<1> QED
  BY <1>1, <1>6, <1>9

(* walk of make-emf-fixtures.py.                                           *)
EmfPlan(one) ==
    [at \in Ats |->
        LET h == Boxes!HeadAt(one, at)
        IN  [goes |-> ~(at + 2 > one.length) /\ ~(h.size < 2 \/ at + h.size > one.length),
             rows |-> <<Boxes!Row(h, at, h.size, 0)>>, next |-> at + h.size,
             last |-> Boxes!Read(<<>>, IF at = one.length THEN 0 ELSE 1)]]
LEMMA EmfTurnIs ==
    ASSUME NEW one, BoxFileStands(one), NEW at \in Nat
    PROVE  LET plan == EmfPlan(one)
           IN  /\ \A g : Boxes!RecordTurn(one, g, at) = FlatTurn(plan, g, at)
               /\ plan[at].goes => /\ plan[at].rows \in Seq(PieceRows) /\ plan[at].next \in Nat
                                   /\ at < one.length /\ at < plan[at].next
                                        /\ plan[at].next <= one.length
                                   /\ LevelRows(plan[at].rows, at, plan[at].next)
               /\ ~plan[at].goes => /\ plan[at].last \in RowReadings /\ plan[at].last.rows = <<>>
                                    /\ plan[at].last.broken = 0 => one.length = at
<1> DEFINE h == Boxes!HeadAt(one, at)
           length == h.size
           end == one.length
           row == Boxes!Row(h, at, length, 0)
           plan == EmfPlan(one)
<1>1. h \in AnyHeaders /\ length \in Nat /\ end \in Nat
  BY HeadRead
<1>3. /\ plan[at].goes <=> ~(at + 2 > end) /\ ~(length < 2 \/ at + length > end)
      /\ plan[at].rows = <<row>> /\ plan[at].next = at + length
      /\ plan[at].last = Boxes!Read(<<>>, IF at = end THEN 0 ELSE 1)
  BY DEF EmfPlan, Ats
<1>4. ASSUME NEW g
      PROVE  Boxes!RecordTurn(one, g, at) = FlatTurn(plan, g, at)
  <2>1. Boxes!RecordTurn(one, g, at) =
          IF at + 2 > end THEN Boxes!Read(<<>>, IF at = end THEN 0 ELSE 1)
          ELSE IF length < 2 \/ at + length > end THEN Boxes!Read(<<>>, 1)
          ELSE Boxes!Ahead(<<row>>, g[at + length])
    BY DEF Boxes!RecordTurn
  <2> HIDE DEF h, length, row, plan, end
  <2>2. at = end => at + 2 > end
    BY <1>1
  <2> QED
    BY <1>3, <2>1, <2>2 DEF FlatTurn
<1> HIDE DEF length, plan, end
<1>5. ASSUME plan[at].goes
      PROVE  /\ plan[at].rows \in Seq(PieceRows) /\ plan[at].next \in Nat
             /\ at < end /\ at < plan[at].next /\ plan[at].next <= end
             /\ LevelRows(plan[at].rows, at, plan[at].next)
  <2>1. length \in Nat /\ length > 0 /\ at + length <= end /\ at < end
    BY <1>1, <1>3, <1>5
  <2>2. row \in PieceRows /\ row.at = at /\ row.size = length /\ row.depth = 0
    BY <1>1, <2>1, RowRead
  <2> HIDE DEF row
  <2>3. LevelRows(<<row>>, at, at + length)
    BY <2>1, <2>2, LevelOne
  <2> QED
    BY <1>3, <2>1, <2>2, <2>3
<1>6. ASSUME ~plan[at].goes
      PROVE  /\ plan[at].last \in RowReadings /\ plan[at].last.rows = <<>>
             /\ plan[at].last.broken = 0 => end = at
  <2>1. CASE at = end
    BY <1>3, <2>1, NothingRead
  <2>2. CASE at # end
    BY <1>3, <2>2, NothingRead
  <2> QED
    BY <2>1, <2>2
<1> QED
  BY <1>4, <1>5, <1>6 DEF plan, end

(* So the walk is one of that plan.                                        *)
LEMMA EmfIs ==
    ASSUME NEW one, BoxFileStands(one)
    PROVE  /\ FlatPlan(RowReadings, one.length, EmfPlan(one))
           /\ \E W : /\ FlatWalk(RowReadings, EmfPlan(one), W)
                     /\ Boxes!Records(one) = W[0]
<1> DEFINE body(w) == [at \in Nat |-> Boxes!RecordTurn(one, w, at)]
           W == CHOOSE w : w = body(w)
           plan == EmfPlan(one)
<1>1. FlatPlan(RowReadings, one.length, plan)
  <2>1. one.length \in Nat
    BY DEF BoxFileStands
  <2> QED
    BY <2>1, EmfTurnIs DEF FlatPlan, Ats
<1>2. PICK f : FlatWalk(RowReadings, plan, f)
  BY <1>1, FlatHas
<1>3. f = [at \in Nat |-> f[at]] /\ \A at \in Nat : f[at] = FlatTurn(plan, f, at)
  BY <1>2 DEF FlatWalk, Ats
<1>4. \A g : \A at \in Nat : Boxes!RecordTurn(one, g, at) = FlatTurn(plan, g, at)
  BY EmfTurnIs
<1>5. f = body(f)
  BY <1>3, <1>4
<1>6. Boxes!Records(one) = W[0]
  BY DEF Boxes!Records
<1>7. W = body(W)
  <2> HIDE DEF body
  <2> QED
    BY <1>5
<1> HIDE DEF W
<1>8. W = [at \in Nat |-> W[at]] /\ \A at \in Nat : W[at] = FlatTurn(plan, W, at)
  BY <1>4, <1>7
<1>9. FlatWalk(RowReadings, plan, W)
  <2> HIDE DEF plan
  <2> QED
    BY <1>1, <1>8, FlatTyped
<1> QED
  BY <1>1, <1>6, <1>9

(* A walk that takes one piece at a time has its rows in file order.       *)
Single(rows, at, depth) ==
    \E row \in PieceRows : rows = <<row>> /\ row.at = at /\ row.depth = depth
Ranked(rows, at, end, depth) ==
    /\ InFileOrder(rows)
    /\ \A r \in ToSet(rows) : r.depth = depth /\ at <= r.at /\ r.at < end
LEMMA SingleRanked ==
    ASSUME NEW at \in Nat, NEW end, at < end, NEW depth, NEW rows, Single(rows, at, depth)
    PROVE  Ranked(rows, at, end, depth)
<1>1. PICK row \in PieceRows : rows = <<row>> /\ row.at = at /\ row.depth = depth
  BY DEF Single
<1>2. ToSet(rows) = {row}
  BY <1>1 DEF ToSet
<1>3. InFileOrder(rows)
  BY <1>1 DEF InFileOrder
<1> QED
  BY <1>1, <1>2, <1>3 DEF Ranked
LEMMA FlatRanks ==
    ASSUME NEW end, NEW plan, FlatPlan(RowReadings, end, plan),
           NEW W, FlatWalk(RowReadings, plan, W), NEW depth \in Nat,
           \A at \in Nat :
              /\ plan[at].goes => Single(plan[at].rows, at, depth)
              /\ ~plan[at].goes => \/ plan[at].last.rows = <<>>
                                   \/ at < end /\ Single(plan[at].last.rows, at, depth)
    PROVE  \A at \in Nat : W[at].rows \in Seq(PieceRows) /\ Ranked(W[at].rows, at, end, depth)
<1> DEFINE Good == {at \in Ats : Ranked(W[at].rows, at, end, depth)}
           m == LeftTo(end)
<1>0. ASSUME NEW at \in Nat
      PROVE  W[at] \in RowReadings /\ W[at].rows \in Seq(PieceRows)
  <2>1. W[at] \in RowReadings
    BY DEF FlatWalk, Ats
  <2> QED
    BY <2>1 DEF RowReadings
<1>1. ASSUME NEW at \in Ats, \A b \in Ats : m[b] < m[at] => b \in Good
      PROVE  at \in Good
  <2>1. W[at] = FlatTurn(plan, W, at) /\ at \in Nat
    BY DEF FlatWalk, Ats
  <2>2. CASE plan[at].goes
    <3> DEFINE next == plan[at].next
               later == W[next].rows
    <3>1. /\ plan[at].rows \in Seq(PieceRows) /\ next \in Nat /\ end \in Nat
          /\ at < end /\ at < next
      BY <2>2 DEF FlatPlan
    <3>2. m[next] < m[at]
      BY <2>1, <3>1, LeftToIs
    <3>3. Ranked(later, next, end, depth)
      BY <1>1, <3>1, <3>2 DEF Ats
    <3>4. W[next] \in RowReadings /\ later \in Seq(PieceRows)
      BY <1>0, <3>1
    <3>5. W[at] = Boxes!Ahead(plan[at].rows, W[next])
      BY <2>1, <2>2 DEF FlatTurn
    <3>6. Boxes!Ahead(plan[at].rows, W[next]).rows = plan[at].rows \o later
      BY ONLY <3>1, <3>4, AheadReads
    <3>7. PICK row \in PieceRows : plan[at].rows = <<row>> /\ row.at = at /\ row.depth = depth
      BY <2>1, <2>2 DEF Single
    <3> HIDE DEF next, later
    <3>8. W[at].rows = <<row>> \o <<>> \o later
      BY <3>4, <3>5, <3>6, <3>7
    <3>9. /\ <<>> \in Seq(PieceRows) /\ ToSet(<<>>) = {} /\ InFileOrder(<<>>)
      BY DEF ToSet, InFileOrder
    <3>10. InFileOrder(later) /\ \A r \in ToSet(later) : r.depth = depth /\ next <= r.at /\ r.at < end
      BY <3>3 DEF Ranked
    <3>11. InFileOrder(<<row>> \o <<>> \o later)
      BY <3>1, <3>4, <3>7, <3>9, <3>10, JoinedInOrder
    <3>12. ToSet(<<row>> \o <<>> \o later) = {row} \cup ToSet(later)
      <4> DEFINE none == <<>>
      <4>1. none \in Seq(PieceRows) /\ ToSet(none) = {}
        BY <3>9
      <4> HIDE DEF none
      <4>2. ToSet(<<row>> \o none \o later) = {row} \cup ToSet(none) \cup ToSet(later)
        BY ONLY <3>4, <4>1, row \in PieceRows, JoinedRows
      <4>3. ToSet(<<row>> \o none \o later) = {row} \cup ToSet(later)
        BY <4>1, <4>2
      <4> QED
        BY <4>3 DEF none
    <3>13. \A r \in ToSet(later) : r.at \in Nat
      <4>1. \A r \in ToSet(later) : r \in PieceRows
        BY <3>4 DEF ToSet
      <4>2. \A r \in PieceRows : r.at \in Nat
        BY DEF PieceRows
      <4> QED
        BY <4>1, <4>2
    <3>14. \A r \in ToSet(later) : at <= r.at
      BY <2>1, <3>1, <3>10, <3>13
    <3> QED
      <4>1. InFileOrder(W[at].rows) /\ ToSet(W[at].rows) = {row} \cup ToSet(later)
        BY <3>8, <3>11, <3>12
      <4>2. at <= at
        BY <2>1
      <4>3. \A r \in ToSet(W[at].rows) : r.depth = depth /\ at <= r.at /\ r.at < end
        BY <3>1, <3>7, <3>10, <3>14, <4>1, <4>2
      <4> QED
        BY <4>1, <4>3 DEF Ranked
  <2>3. CASE ~plan[at].goes
    <3>1. W[at].rows = plan[at].last.rows
      BY <2>1, <2>3 DEF FlatTurn
    <3>2. CASE plan[at].last.rows = <<>>
      <4>1. ToSet(<<>>) = {} /\ InFileOrder(<<>>)
        BY DEF ToSet, InFileOrder
      <4> QED
        BY <3>1, <3>2, <4>1 DEF Ranked
    <3>3. CASE at < end /\ Single(plan[at].last.rows, at, depth)
      BY <2>1, <3>1, <3>3, SingleRanked
    <3> QED
      BY <2>1, <2>3, <3>2, <3>3
  <2> QED
    BY <2>2, <2>3
<1>2. \A at \in Ats : at \in Good
  <2>1. m \in [Ats -> Nat]
    BY LeftToIs DEF FlatPlan
  <2> HIDE DEF Good, m
  <2> QED
    BY <1>1, <2>1, ByMeasure
<1> QED
  BY <1>0, <1>2 DEF Ats

-----------------------------------------------------------------------------
(* The children of a box of make-bmff-wide-fixture.py.                     *)
ChildPlan(one, limit) ==
    [at \in Ats |->
        LET h == Boxes!HeadAt(one, at)
            size == Boxes!BoxSize(h, at, limit)
            row == Boxes!Row(h, at, size, 1)
        IN  [goes |-> ~(at + 2 > limit) /\ ~(size < 2 \/ at + size > limit),
             rows |-> <<row>>, next |-> at + size,
             last |-> Boxes!Read(IF at + 2 > limit THEN <<>> ELSE <<row>>, 0)]]
LEMMA ChildTurnIs ==
    ASSUME NEW one, BoxFileStands(one), NEW limit \in Nat, NEW at \in Nat
    PROVE  LET plan == ChildPlan(one, limit)
           IN  /\ \A g : Boxes!ChildTurn(one, limit, g, at) = FlatTurn(plan, g, at)
               /\ plan[at].goes => /\ plan[at].rows \in Seq(PieceRows) /\ plan[at].next \in Nat
                                   /\ at < limit /\ at < plan[at].next
                                   /\ Single(plan[at].rows, at, 1)
               /\ ~plan[at].goes => /\ plan[at].last \in RowReadings
                                    /\ \/ plan[at].last.rows = <<>>
                                       \/ at < limit /\ Single(plan[at].last.rows, at, 1)
<1> DEFINE h == Boxes!HeadAt(one, at)
           size == Boxes!BoxSize(h, at, limit)
           row == Boxes!Row(h, at, size, 1)
           plan == ChildPlan(one, limit)
<1>1. h \in AnyHeaders /\ h.size \in Nat
  BY HeadRead
<1>2. size = IF h.form = "rest" \/ (h.form = "short" /\ h.size = 0) THEN limit - at ELSE h.size
  BY DEF Boxes!BoxSize
<1>3. /\ plan[at].goes <=> ~(at + 2 > limit) /\ ~(size < 2 \/ at + size > limit)
      /\ plan[at].rows = <<row>> /\ plan[at].next = at + size
      /\ plan[at].last = Boxes!Read(IF at + 2 > limit THEN <<>> ELSE <<row>>, 0)
  BY DEF ChildPlan, Ats
<1>4. ASSUME NEW g
      PROVE  Boxes!ChildTurn(one, limit, g, at) = FlatTurn(plan, g, at)
  <2>1. Boxes!ChildTurn(one, limit, g, at) =
          IF at + 2 > limit THEN Boxes!Read(<<>>, 0)
          ELSE IF size < 2 \/ at + size > limit THEN Boxes!Read(<<row>>, 0)
          ELSE Boxes!Ahead(<<row>>, g[at + size])
    BY DEF Boxes!ChildTurn
  <2> HIDE DEF h, size, row, plan
  <2> QED
    BY <1>3, <2>1 DEF FlatTurn
<1> HIDE DEF h, size, plan
<1>5. ASSUME ~(at + 2 > limit)
      PROVE  size \in Nat /\ at < limit /\ row \in PieceRows /\ Single(<<row>>, at, 1)
  <2>1. size \in Nat /\ at < limit
    BY <1>1, <1>2, <1>5
  <2>2. row \in PieceRows /\ row.at = at /\ row.depth = 1
    BY <1>1, <2>1, RowRead
  <2> HIDE DEF row
  <2> QED
    BY <2>1, <2>2 DEF Single
<1> HIDE DEF row
<1>6. ASSUME plan[at].goes
      PROVE  /\ plan[at].rows \in Seq(PieceRows) /\ plan[at].next \in Nat
             /\ at < limit /\ at < plan[at].next
             /\ Single(plan[at].rows, at, 1)
  <2>1. at + size \in Nat /\ at < at + size
    BY <1>3, <1>5, <1>6
  <2> QED
    BY <1>3, <1>5, <1>6, <2>1
<1>7. ASSUME ~plan[at].goes
      PROVE  /\ plan[at].last \in RowReadings
             /\ \/ plan[at].last.rows = <<>>
                \/ at < limit /\ Single(plan[at].last.rows, at, 1)
  <2>1. CASE at + 2 > limit
    BY <1>3, <2>1, NothingRead
  <2>2. CASE ~(at + 2 > limit)
    <3>1. <<row>> \in Seq(PieceRows)
      BY <1>5, <2>2
    <3>2. plan[at].last = Boxes!Read(<<row>>, 0)
      BY <1>3, <2>2
    <3>3. plan[at].last \in RowReadings /\ plan[at].last.rows = <<row>>
      BY <3>1, <3>2 DEF Boxes!Read, RowReadings
    <3> QED
      BY <1>5, <2>2, <3>3
  <2> QED
    BY <2>1, <2>2
<1> QED
  BY <1>4, <1>6, <1>7 DEF plan

(* The children the wide walk writes rows for: one level down, in file     *)
(* order, all before the limit.                                            *)
LEMMA ChildrenAre ==
    ASSUME NEW one, BoxFileStands(one), NEW limit \in Nat, NEW from \in Nat
    PROVE  /\ Boxes!WideChildren(one, from, limit) \in Seq(PieceRows)
           /\ Ranked(Boxes!WideChildren(one, from, limit), from, limit, 1)
<1> DEFINE body(w) == [at \in Nat |-> Boxes!ChildTurn(one, limit, w, at)]
           W == CHOOSE w : w = body(w)
           plan == ChildPlan(one, limit)
<1>1. FlatPlan(RowReadings, limit, plan)
  BY ChildTurnIs DEF FlatPlan, Ats
<1>2. PICK f : FlatWalk(RowReadings, plan, f)
  BY <1>1, FlatHas
<1>3. f = [at \in Nat |-> f[at]] /\ \A at \in Nat : f[at] = FlatTurn(plan, f, at)
  BY <1>2 DEF FlatWalk, Ats
<1>4. \A g : \A at \in Nat : Boxes!ChildTurn(one, limit, g, at) = FlatTurn(plan, g, at)
  BY ChildTurnIs
<1>5. f = body(f)
  BY <1>3, <1>4
<1>6. Boxes!WideChildren(one, from, limit) = W[from].rows
  BY DEF Boxes!WideChildren
<1>7. W = body(W)
  <2> HIDE DEF body
  <2> QED
    BY <1>5
<1> HIDE DEF W
<1>8. W = [at \in Nat |-> W[at]] /\ \A at \in Nat : W[at] = FlatTurn(plan, W, at)
  BY <1>4, <1>7
<1>9. FlatWalk(RowReadings, plan, W)
  <2> HIDE DEF plan
  <2> QED
    BY <1>1, <1>8, FlatTyped
<1>10. \A at \in Nat :
         /\ plan[at].goes => Single(plan[at].rows, at, 1)
         /\ ~plan[at].goes => \/ plan[at].last.rows = <<>>
                              \/ at < limit /\ Single(plan[at].last.rows, at, 1)
  BY ChildTurnIs
<1> HIDE DEF plan
<1>11. W[from].rows \in Seq(PieceRows) /\ Ranked(W[from].rows, from, limit, 1)
  BY <1>1, <1>9, <1>10, FlatRanks
<1> QED
  BY <1>6, <1>11

(* walk of make-bmff-wide-fixture.py.                                      *)
WideRows(one, at) ==
    LET h == Boxes!HeadAt(one, at)
        size == Boxes!BoxSize(h, at, one.length)
        stop == IF at + size < one.length THEN at + size ELSE one.length
    IN  <<Boxes!Row(h, at, size, 0)>>
        \o (IF Boxes!Holds(h) THEN Boxes!WideChildren(one, at + 2, stop) ELSE <<>>)
WidePlan(one) ==
    [at \in Ats |->
        LET size == Boxes!BoxSize(Boxes!HeadAt(one, at), at, one.length)
        IN  [goes |-> ~(at + 2 > one.length) /\ ~(size < 2 \/ at + size > one.length),
             rows |-> WideRows(one, at), next |-> at + size,
             last |-> IF at + 2 > one.length
                      THEN Boxes!Read(<<>>, IF at = one.length THEN 0 ELSE 1)
                      ELSE Boxes!Read(WideRows(one, at), 1)]]
LEMMA WideRowsAre ==
    ASSUME NEW one, BoxFileStands(one), NEW at \in Nat, ~(at + 2 > one.length)
    PROVE  LET size == Boxes!BoxSize(Boxes!HeadAt(one, at), at, one.length)
           IN  /\ size \in Nat /\ WideRows(one, at) \in Seq(PieceRows)
               /\ size >= 2 /\ at + size <= one.length =>
                    LevelRows(WideRows(one, at), at, at + size)
<1> DEFINE h == Boxes!HeadAt(one, at)
           end == one.length
           size == Boxes!BoxSize(h, at, end)
           stop == IF at + size < end THEN at + size ELSE end
           row == Boxes!Row(h, at, size, 0)
           extra == IF Boxes!Holds(h) THEN Boxes!WideChildren(one, at + 2, stop) ELSE <<>>
<1>1. h \in AnyHeaders /\ h.size \in Nat /\ end \in Nat
  BY HeadRead
<1>2. size = IF h.form = "rest" \/ (h.form = "short" /\ h.size = 0) THEN end - at ELSE h.size
  BY DEF Boxes!BoxSize
<1>3. WideRows(one, at) = <<row>> \o extra
  BY DEF WideRows
<1>4. ~(at + 2 > end)
  OBVIOUS
<1> HIDE DEF h, end, size
<1>5. size \in Nat
  BY <1>1, <1>2, <1>4
<1>6. stop \in Nat /\ at + 2 \in Nat
  BY <1>1, <1>5
<1>7. row \in PieceRows /\ row.at = at /\ row.size = size /\ row.depth = 0
  BY <1>1, <1>5, RowRead
<1> HIDE DEF row
<1>8. extra \in Seq(PieceRows) /\ Ranked(extra, at + 2, stop, 1)
  <2>1. CASE Boxes!Holds(h)
    <3> DEFINE all == Boxes!WideChildren(one, at + 2, stop)
    <3> HIDE DEF stop
    <3>1. all \in Seq(PieceRows) /\ Ranked(all, at + 2, stop, 1)
      BY <1>6, ChildrenAre
    <3> QED
      BY <2>1, <3>1
  <2>2. CASE ~Boxes!Holds(h)
    <3>1. <<>> \in Seq(PieceRows) /\ ToSet(<<>>) = {} /\ InFileOrder(<<>>)
      BY DEF ToSet, InFileOrder
    <3>2. extra = <<>>
      BY <2>2
    <3> QED
      BY <3>1, <3>2 DEF Ranked
  <2> QED
    BY <2>1, <2>2
<1> HIDE DEF extra
<1>9. <<row>> \o extra \in Seq(PieceRows)
  BY <1>7, <1>8
<1>10. ASSUME size >= 2, at + size <= end
       PROVE  LevelRows(<<row>> \o extra, at, at + size)
  <2>1. stop <= at + size
    BY <1>1, <1>5, <1>10
  <2> HIDE DEF stop
  <2>2. ASSUME NEW r \in ToSet(extra)
        PROVE  r.depth # 0 /\ at < r.at /\ r.at < at + size
    <3>1. r.depth = 1 /\ at + 2 <= r.at /\ r.at < stop
      BY <1>8 DEF Ranked
    <3>2. r \in PieceRows
      BY <1>8 DEF ToSet
    <3>3. r.at \in Nat
      BY <3>2 DEF PieceRows
    <3> QED
      BY <1>5, <1>6, <2>1, <3>1, <3>3
  <2>3. InFileOrder(extra) /\ size > 0
    BY <1>5, <1>8, <1>10 DEF Ranked
  <2> QED
    BY <1>7, <1>8, <2>2, <2>3 DEF LevelRows
<1> QED
  BY <1>3, <1>5, <1>9, <1>10 DEF size, h, end

(* A turn of the wide walk.                                                *)
LEMMA WideTurnIs ==
    ASSUME NEW one, BoxFileStands(one), NEW at \in Nat
    PROVE  LET plan == WidePlan(one)
           IN  /\ \A g : Boxes!WideTurn(one, g, at) = FlatTurn(plan, g, at)
               /\ plan[at].goes => /\ plan[at].rows \in Seq(PieceRows) /\ plan[at].next \in Nat
                                   /\ at < one.length /\ at < plan[at].next
                                        /\ plan[at].next <= one.length
                                   /\ LevelRows(plan[at].rows, at, plan[at].next)
               /\ ~plan[at].goes => /\ plan[at].last \in RowReadings
                                    /\ plan[at].last.broken = 0 =>
                                         one.length = at /\ plan[at].last.rows = <<>>
<1> DEFINE h == Boxes!HeadAt(one, at)
           end == one.length
           size == Boxes!BoxSize(h, at, end)
           rows == WideRows(one, at)
           plan == WidePlan(one)
<1>1. end \in Nat
  BY HeadRead
<1>2. ~(at + 2 > end) =>
        /\ size \in Nat /\ rows \in Seq(PieceRows)
        /\ size >= 2 /\ at + size <= end => LevelRows(rows, at, at + size)
  BY WideRowsAre
<1>3. /\ plan[at].goes <=> ~(at + 2 > end) /\ ~(size < 2 \/ at + size > end)
      /\ plan[at].rows = rows /\ plan[at].next = at + size
      /\ plan[at].last = IF at + 2 > end THEN Boxes!Read(<<>>, IF at = end THEN 0 ELSE 1)
                         ELSE Boxes!Read(rows, 1)
  BY DEF WidePlan, Ats
<1>4. ASSUME NEW g
      PROVE  Boxes!WideTurn(one, g, at) = FlatTurn(plan, g, at)
  <2>1. Boxes!WideTurn(one, g, at) =
          IF at + 2 > end THEN Boxes!Read(<<>>, IF at = end THEN 0 ELSE 1)
          ELSE IF size < 2 \/ at + size > end THEN Boxes!Read(rows, 1)
          ELSE Boxes!Ahead(rows, g[at + size])
    BY DEF Boxes!WideTurn, WideRows
  <2> HIDE DEF h, size, rows, plan, end
  <2> QED
    BY <1>3, <2>1 DEF FlatTurn
<1> HIDE DEF size, plan, end, rows
<1>5. ASSUME plan[at].goes
      PROVE  /\ plan[at].rows \in Seq(PieceRows) /\ plan[at].next \in Nat
             /\ at < end /\ at < plan[at].next /\ plan[at].next <= end
             /\ LevelRows(plan[at].rows, at, plan[at].next)
  <2>1. ~(at + 2 > end) /\ ~(size < 2) /\ ~(at + size > end)
    BY <1>3, <1>5
  <2>2. size \in Nat /\ size >= 2 /\ at + size <= end /\ at < end /\ at < at + size
    BY <1>1, <1>2, <2>1
  <2> QED
    BY <1>2, <1>3, <2>1, <2>2
<1>6. ASSUME ~plan[at].goes
      PROVE  /\ plan[at].last \in RowReadings
             /\ plan[at].last.broken = 0 => end = at /\ plan[at].last.rows = <<>>
  <2>1. CASE at + 2 > end
    <3>1. CASE at = end
      BY <1>3, <2>1, <3>1, NothingRead
    <3>2. CASE at # end
      BY <1>3, <2>1, <3>2, NothingRead
    <3> QED
      BY <3>1, <3>2
  <2>2. CASE ~(at + 2 > end)
    <3>1. plan[at].last = Boxes!Read(rows, 1) /\ rows \in Seq(PieceRows)
      BY <1>2, <1>3, <2>2
    <3> QED
      BY <3>1 DEF Boxes!Read, RowReadings
  <2> QED
    BY <2>1, <2>2
<1> QED
  BY <1>4, <1>5, <1>6 DEF plan, end

(* So the walk is one of that plan.                                        *)
LEMMA WideIs ==
    ASSUME NEW one, BoxFileStands(one)
    PROVE  /\ FlatPlan(RowReadings, one.length, WidePlan(one))
           /\ \E W : /\ FlatWalk(RowReadings, WidePlan(one), W)
                     /\ Boxes!WideWalk(one) = W[0]
<1> DEFINE body(w) == [at \in Nat |-> Boxes!WideTurn(one, w, at)]
           W == CHOOSE w : w = body(w)
           plan == WidePlan(one)
<1>1. FlatPlan(RowReadings, one.length, plan)
  <2>1. one.length \in Nat
    BY DEF BoxFileStands
  <2> QED
    BY <2>1, WideTurnIs DEF FlatPlan, Ats
<1>2. PICK f : FlatWalk(RowReadings, plan, f)
  BY <1>1, FlatHas
<1>3. f = [at \in Nat |-> f[at]] /\ \A at \in Nat : f[at] = FlatTurn(plan, f, at)
  BY <1>2 DEF FlatWalk, Ats
<1>4. \A g : \A at \in Nat : Boxes!WideTurn(one, g, at) = FlatTurn(plan, g, at)
  BY WideTurnIs
<1>5. f = body(f)
  BY <1>3, <1>4
<1>6. Boxes!WideWalk(one) = W[0]
  BY DEF Boxes!WideWalk
<1>7. W = body(W)
  <2> HIDE DEF body
  <2> QED
    BY <1>5
<1> HIDE DEF W
<1>8. W = [at \in Nat |-> W[at]] /\ \A at \in Nat : W[at] = FlatTurn(plan, W, at)
  BY <1>4, <1>7
<1>9. FlatWalk(RowReadings, plan, W)
  <2> HIDE DEF plan
  <2> QED
    BY <1>1, <1>8, FlatTyped
<1> QED
  BY <1>1, <1>6, <1>9

-----------------------------------------------------------------------------
(* kids of make-der-fixtures.py.                                           *)
KidPlan(one, end) ==
    [at \in Ats |->
        LET h == Boxes!HeadAt(one, at)
            size == Boxes!HeadLength(h) + h.size
        IN  [goes |-> ~(at >= end), rows |-> <<Boxes!Row(h, at, size, 1)>>, next |-> at + size,
             last |-> Boxes!Read(<<>>, 0)]]
LEMMA KidTurnIs ==
    ASSUME NEW one, BoxFileStands(one), NEW end \in Nat, NEW at \in Nat
    PROVE  LET plan == KidPlan(one, end)
           IN  /\ \A g : Boxes!KidTurn(one, end, g, at) = FlatTurn(plan, g, at)
               /\ plan[at].goes => /\ plan[at].rows \in Seq(PieceRows) /\ plan[at].next \in Nat
                                   /\ at < end /\ at < plan[at].next
                                   /\ Single(plan[at].rows, at, 1)
               /\ ~plan[at].goes => plan[at].last \in RowReadings /\ plan[at].last.rows = <<>>
<1> DEFINE h == Boxes!HeadAt(one, at)
           size == Boxes!HeadLength(h) + h.size
           row == Boxes!Row(h, at, size, 1)
           plan == KidPlan(one, end)
<1>1. h \in AnyHeaders /\ h.size \in Nat /\ Boxes!HeadLength(h) \in 2..4
  BY HeadRead
<1>2. size \in Nat /\ size > 0
  BY <1>1
<1>3. /\ plan[at].goes <=> ~(at >= end)
      /\ plan[at].rows = <<row>> /\ plan[at].next = at + size
      /\ plan[at].last = Boxes!Read(<<>>, 0)
  BY DEF KidPlan, Ats
<1>4. ASSUME NEW g
      PROVE  Boxes!KidTurn(one, end, g, at) = FlatTurn(plan, g, at)
  <2>1. Boxes!KidTurn(one, end, g, at) =
          IF at >= end THEN Boxes!Read(<<>>, 0) ELSE Boxes!Ahead(<<row>>, g[at + size])
    BY DEF Boxes!KidTurn
  <2> HIDE DEF h, size, row, plan
  <2> QED
    BY <1>3, <2>1 DEF FlatTurn
<1> HIDE DEF h, size, plan
<1>5. row \in PieceRows /\ row.at = at /\ row.depth = 1
  BY <1>1, <1>2, RowRead
<1> HIDE DEF row
<1>6. plan[at].goes => /\ plan[at].rows \in Seq(PieceRows) /\ plan[at].next \in Nat
                       /\ at < end /\ at < plan[at].next
                       /\ Single(plan[at].rows, at, 1)
  <2>1. Single(<<row>>, at, 1) /\ <<row>> \in Seq(PieceRows)
    BY <1>5 DEF Single
  <2>2. at + size \in Nat /\ at < at + size /\ (~(at >= end) => at < end)
    BY <1>2
  <2> QED
    BY <1>3, <2>1, <2>2
<1>7. plan[at].last \in RowReadings /\ plan[at].last.rows = <<>>
  BY <1>3, NothingRead
<1> QED
  BY <1>4, <1>6, <1>7 DEF plan

(* So kids is a walk of that plan.                                         *)
LEMMA KidIs ==
    ASSUME NEW one, BoxFileStands(one), NEW end \in Nat, NEW from \in Nat
    PROVE  /\ FlatPlan(RowReadings, end, KidPlan(one, end))
           /\ \E W : /\ FlatWalk(RowReadings, KidPlan(one, end), W)
                     /\ Boxes!Kids(one, from, end) = W[from].rows
<1> DEFINE body(w) == [at \in Nat |-> Boxes!KidTurn(one, end, w, at)]
           W == CHOOSE w : w = body(w)
           plan == KidPlan(one, end)
<1>1. FlatPlan(RowReadings, end, plan)
  BY KidTurnIs DEF FlatPlan, Ats
<1>2. PICK f : FlatWalk(RowReadings, plan, f)
  BY <1>1, FlatHas
<1>3. f = [at \in Nat |-> f[at]] /\ \A at \in Nat : f[at] = FlatTurn(plan, f, at)
  BY <1>2 DEF FlatWalk, Ats
<1>4. \A g : \A at \in Nat : Boxes!KidTurn(one, end, g, at) = FlatTurn(plan, g, at)
  BY KidTurnIs
<1>5. f = body(f)
  BY <1>3, <1>4
<1>6. Boxes!Kids(one, from, end) = W[from].rows
  BY DEF Boxes!Kids
<1>7. W = body(W)
  <2> HIDE DEF body
  <2> QED
    BY <1>5
<1> HIDE DEF W
<1>8. W = [at \in Nat |-> W[at]] /\ \A at \in Nat : W[at] = FlatTurn(plan, W, at)
  BY <1>4, <1>7
<1>9. FlatWalk(RowReadings, plan, W)
  <2> HIDE DEF plan
  <2> QED
    BY <1>1, <1>8, FlatTyped
<1> QED
  BY <1>1, <1>6, <1>9

-----------------------------------------------------------------------------
(* walk of make-pgp-fixtures.py.                                           *)
PacketPlan(one) ==
    [at \in Ats |->
        LET h == Boxes!HeadAt(one, at)
            n == Boxes!HeadLength(h)
            inside == at + n
            row == Boxes!Row(h, at, n + h.size, 0)
            fits == ~(inside > one.length \/ inside + h.size > one.length)
        IN  [goes |-> /\ ~(at >= one.length) /\ h.kind # "blank" /\ h.form \notin {"rest", "partial"}
                      /\ fits /\ ~Boxes!Opaque(h),
             rows |-> <<row>>, next |-> inside + h.size,
             last |-> IF at >= one.length THEN Boxes!Ending(<<>>, 0, at = one.length /\ at > 0)
                      ELSE IF h.kind = "blank" THEN Boxes!Ending(<<>>, 0, FALSE)
                      ELSE IF h.form = "partial" THEN Boxes!Ending(<<>>, 1, FALSE)
                      ELSE IF h.form = "rest"
                      THEN IF Boxes!Streams(h)
                           THEN Boxes!Ending(<<Boxes!Row(h, at, one.length - at, 0)>>, 0, TRUE)
                           ELSE Boxes!Ending(<<>>, 1, FALSE)
                      ELSE IF ~fits THEN Boxes!Ending(<<>>, 1, FALSE)
                      ELSE Boxes!Ending(<<row>>, 0, inside + h.size = one.length)]]
LEMMA EndingReads ==
    ASSUME NEW rows \in Seq(PieceRows), NEW n \in Nat, NEW ends \in BOOLEAN
    PROVE  /\ Boxes!Ending(rows, n, ends) \in PacketReadings
           /\ Boxes!Ending(rows, n, ends).rows = rows /\ Boxes!Ending(rows, n, ends).broken = n
           /\ Boxes!Ending(rows, n, ends).ends = ends
BY DEF Boxes!Ending, PacketReadings
LEMMA PacketTurnIs ==
    ASSUME NEW one, BoxFileStands(one), NEW at \in Nat
    PROVE  LET plan == PacketPlan(one)
               h == Boxes!HeadAt(one, at)
               next == at + Boxes!HeadLength(h) + h.size
           IN  /\ \A g : Boxes!PacketTurn(one, g, at) = FlatTurn(plan, g, at)
               /\ plan[at].goes => /\ plan[at].rows \in Seq(PieceRows) /\ plan[at].next \in Nat
                                   /\ at < one.length /\ at < plan[at].next
                                        /\ plan[at].next <= one.length
                                   /\ LevelRows(plan[at].rows, at, plan[at].next)
               /\ ~plan[at].goes => /\ plan[at].last \in PacketReadings
                                    /\ plan[at].last.ends /\ at < one.length =>
                                          LevelRows(plan[at].last.rows, at, one.length)
                                    /\ at = one.length =>
                                          /\ plan[at].last.rows = <<>> /\ plan[at].last.broken = 0
                                          /\ at > 0 => plan[at].last.ends
               /\ at = one.length => ~plan[at].goes
               /\ plan[at].next = next
               /\ at < one.length /\ h.kind # "blank" /\ h.form # "partial"
                  /\ (h.form = "rest" => Boxes!Streams(h))
                  /\ (h.form = "rest" \/ next <= one.length)
                  /\ (h.form # "rest" /\ Boxes!Opaque(h) => next = one.length) =>
                       plan[at].goes \/ plan[at].last.ends
<1> DEFINE h == Boxes!HeadAt(one, at)
           end == one.length
           n == Boxes!HeadLength(h)
           next == at + n + h.size
           row == Boxes!Row(h, at, n + h.size, 0)
           rest == Boxes!Row(h, at, end - at, 0)
           fits == ~(at + n > end \/ next > end)
           plan == PacketPlan(one)
<1>1. h \in AnyHeaders /\ h.size \in Nat /\ n \in 2..4 /\ end \in Nat
  BY HeadRead
<1>2. /\ next \in Nat /\ n + h.size \in Nat /\ n + h.size > 0 /\ next = at + (n + h.size)
      /\ at < next
  BY <1>1
<1>3. /\ plan[at].goes <=> /\ ~(at >= end) /\ h.kind # "blank" /\ h.form \notin {"rest", "partial"}
                           /\ fits /\ ~Boxes!Opaque(h)
      /\ plan[at].rows = <<row>> /\ plan[at].next = next
      /\ plan[at].last = IF at >= end THEN Boxes!Ending(<<>>, 0, at = end /\ at > 0)
                         ELSE IF h.kind = "blank" THEN Boxes!Ending(<<>>, 0, FALSE)
                         ELSE IF h.form = "partial" THEN Boxes!Ending(<<>>, 1, FALSE)
                         ELSE IF h.form = "rest"
                         THEN IF Boxes!Streams(h) THEN Boxes!Ending(<<rest>>, 0, TRUE)
                              ELSE Boxes!Ending(<<>>, 1, FALSE)
                         ELSE IF ~fits THEN Boxes!Ending(<<>>, 1, FALSE)
                         ELSE Boxes!Ending(<<row>>, 0, next = end)
  BY DEF PacketPlan, Ats
<1>4. ASSUME NEW g
      PROVE  Boxes!PacketTurn(one, g, at) = FlatTurn(plan, g, at)
  <2>1. Boxes!PacketTurn(one, g, at) =
          IF at >= end THEN Boxes!Ending(<<>>, 0, at = end /\ at > 0)
          ELSE IF h.kind = "blank" THEN Boxes!Ending(<<>>, 0, FALSE)
          ELSE IF h.form = "partial" THEN Boxes!Ending(<<>>, 1, FALSE)
          ELSE IF h.form = "rest"
          THEN IF Boxes!Streams(h) THEN Boxes!Ending(<<rest>>, 0, TRUE)
               ELSE Boxes!Ending(<<>>, 1, FALSE)
          ELSE IF at + n > end \/ next > end THEN Boxes!Ending(<<>>, 1, FALSE)
          ELSE IF Boxes!Opaque(h) THEN Boxes!Ending(<<row>>, 0, next = end)
          ELSE Boxes!Ahead(<<row>>, g[next])
    BY DEF Boxes!PacketTurn
  <2> HIDE DEF h, n, next, row, rest, plan, end
  <2> QED
    BY <1>3, <2>1 DEF FlatTurn
<1>5. row \in PieceRows /\ row.at = at /\ row.size = n + h.size /\ row.depth = 0
  <2> DEFINE size == n + h.size
  <2>1. h \in AnyHeaders /\ size \in Nat /\ 0 \in Nat
    BY <1>1, <1>2
  <2> HIDE DEF size, h
  <2>2. Boxes!Row(h, at, size, 0) \in PieceRows /\ Boxes!Row(h, at, size, 0).at = at
        /\ Boxes!Row(h, at, size, 0).size = size /\ Boxes!Row(h, at, size, 0).depth = 0
    BY ONLY <2>1, at \in Nat, RowRead
  <2> QED
    BY <2>2 DEF size
<1>6. at < end => rest \in PieceRows /\ rest.at = at /\ rest.size = end - at /\ rest.depth = 0
  <2> SUFFICES ASSUME at < end
               PROVE  rest \in PieceRows /\ rest.at = at /\ rest.size = end - at /\ rest.depth = 0
    OBVIOUS
  <2> DEFINE size == end - at
  <2>1. h \in AnyHeaders /\ size \in Nat /\ 0 \in Nat
    BY <1>1, <1>2
  <2>2. rest = Boxes!Row(h, at, size, 0)
    OBVIOUS
  <2> HIDE DEF size, h, rest
  <2>3. Boxes!Row(h, at, size, 0) \in PieceRows /\ Boxes!Row(h, at, size, 0).at = at
        /\ Boxes!Row(h, at, size, 0).size = size /\ Boxes!Row(h, at, size, 0).depth = 0
    BY ONLY <2>1, at \in Nat, RowRead
  <2> QED
    BY <2>2, <2>3 DEF size
<1> HIDE DEF h, n, next, row, rest, plan, end
<1>7. LevelRows(<<row>>, at, next) /\ <<row>> \in Seq(PieceRows)
  <2>1. next = row.at + row.size /\ row.size > 0
    BY <1>2, <1>5
  <2> QED
    BY <1>5, <2>1, LevelOne
<1>8. at < end => LevelRows(<<rest>>, at, end) /\ <<rest>> \in Seq(PieceRows)
  <2>1. at < end => end = rest.at + rest.size /\ rest.size > 0
    BY <1>1, <1>6
  <2> QED
    BY <1>6, <2>1, LevelOne
<1>9. ASSUME plan[at].goes
      PROVE  /\ plan[at].rows \in Seq(PieceRows) /\ plan[at].next \in Nat
             /\ at < end /\ at < plan[at].next /\ plan[at].next <= end
             /\ LevelRows(plan[at].rows, at, plan[at].next)
  <2>1. ~(at >= end) /\ ~(next > end)
    BY <1>3, <1>9
  <2>2. at < end /\ next <= end
    BY <1>1, <1>2, <2>1
  <2> QED
    BY <1>2, <1>3, <1>7, <2>2
<1>10. at = end => ~plan[at].goes /\ plan[at].last = Boxes!Ending(<<>>, 0, at > 0)
  <2>1. at = end => at >= end
    BY <1>1
  <2> QED
    BY <1>3, <2>1
<1>11. ASSUME ~plan[at].goes
       PROVE  /\ plan[at].last \in PacketReadings
              /\ plan[at].last.ends /\ at < end => LevelRows(plan[at].last.rows, at, end)
  <2>0. <<>> \in Seq(PieceRows)
    OBVIOUS
  <2>1. CASE at >= end
    <3>1. plan[at].last = Boxes!Ending(<<>>, 0, at = end /\ at > 0) /\ ~(at < end)
      BY <1>1, <1>3, <2>1
    <3>2. plan[at].last \in PacketReadings
      BY ONLY <2>0, <3>1 DEF Boxes!Ending, PacketReadings
    <3> QED
      BY <3>1, <3>2
  <2>2. CASE ~(at >= end) /\ h.kind # "blank" /\ h.form = "rest" /\ Boxes!Streams(h)
    <3>1. plan[at].last = Boxes!Ending(<<rest>>, 0, TRUE) /\ at < end
      BY <1>1, <1>3, <2>2
    <3> QED
      BY <1>8, <3>1 DEF Boxes!Ending, PacketReadings
  <2>3. CASE ~(at >= end) /\ h.kind # "blank" /\ h.form \notin {"rest", "partial"} /\ fits
    <3>1. plan[at].last = Boxes!Ending(<<row>>, 0, next = end)
      BY <1>3, <2>3
    <3>2. plan[at].last \in PacketReadings /\ plan[at].last.rows = <<row>>
          /\ plan[at].last.ends = (next = end)
      BY ONLY <1>7, <3>1 DEF Boxes!Ending, PacketReadings
    <3> QED
      BY <1>7, <3>2
  <2>4. CASE ~(at >= end) /\ (h.kind = "blank" \/ h.form = "partial"
                               \/ (h.form = "rest" /\ ~Boxes!Streams(h))
                               \/ (h.form # "rest" /\ ~fits))
    <3> HIDE DEF fits
    <3>1. plan[at].last \in {Boxes!Ending(<<>>, 0, FALSE), Boxes!Ending(<<>>, 1, FALSE)}
      <4>1. CASE h.kind = "blank"
        BY <1>3, <2>4, <4>1
      <4>2. CASE h.kind # "blank" /\ h.form = "rest" /\ ~Boxes!Streams(h)
        BY <1>3, <2>4, <4>2
      <4>3. CASE h.kind # "blank" /\ h.form \notin {"rest", "partial"} /\ ~fits
        BY <1>3, <2>4, <4>3
      <4>4. CASE h.kind # "blank" /\ h.form = "partial"
        BY <1>3, <2>4, <4>4
      <4> QED
        BY <2>4, <4>1, <4>2, <4>3, <4>4
    <3>2. plan[at].last \in PacketReadings /\ plan[at].last.ends = FALSE
      <4>1. CASE plan[at].last = Boxes!Ending(<<>>, 0, FALSE)
        BY ONLY <2>0, <4>1 DEF Boxes!Ending, PacketReadings
      <4>2. CASE plan[at].last = Boxes!Ending(<<>>, 1, FALSE)
        BY ONLY <2>0, <4>2 DEF Boxes!Ending, PacketReadings
      <4> QED
        BY <3>1, <4>1, <4>2
    <3> QED
      BY <3>2
  <2> QED
    BY <2>1, <2>2, <2>3, <2>4
<1>12. at = end => /\ plan[at].last.rows = <<>> /\ plan[at].last.broken = 0
                   /\ at > 0 => plan[at].last.ends
  <2>1. <<>> \in Seq(PieceRows)
    OBVIOUS
  <2>2. (at > 0) \in BOOLEAN /\ 0 \in Nat
    OBVIOUS
  <2>3. /\ Boxes!Ending(<<>>, 0, at > 0).rows = <<>> /\ Boxes!Ending(<<>>, 0, at > 0).broken = 0
        /\ Boxes!Ending(<<>>, 0, at > 0).ends = (at > 0)
    BY ONLY <2>1, <2>2, EndingReads
  <2> QED
    BY <1>10, <2>3
<1>13. ASSUME at < end, h.kind # "blank", h.form # "partial",
              h.form = "rest" => Boxes!Streams(h),
              h.form = "rest" \/ next <= end,
              h.form # "rest" /\ Boxes!Opaque(h) => next = end
       PROVE  plan[at].goes \/ plan[at].last.ends
  <2>1. ~(at >= end)
    BY <1>1, <1>13
  <2>2. CASE h.form = "rest"
    <3>1. plan[at].last = Boxes!Ending(<<rest>>, 0, TRUE)
      BY <1>3, <1>13, <2>1, <2>2
    <3> QED
      BY <3>1 DEF Boxes!Ending
  <2>3. CASE h.form # "rest"
    <3>1. fits
      BY <1>1, <1>2, <1>13, <2>3 DEF next
    <3>2. CASE Boxes!Opaque(h)
      <4>1. plan[at].last = Boxes!Ending(<<row>>, 0, TRUE)
        BY <1>3, <1>13, <2>1, <2>3, <3>1, <3>2
      <4> QED
        BY <1>7, <4>1, EndingReads
    <3>3. CASE ~Boxes!Opaque(h)
      BY <1>3, <1>13, <2>1, <2>3, <3>1, <3>3
    <3> QED
      BY <3>2, <3>3
  <2> QED
    BY <2>2, <2>3
<1>14. plan[at].next = next
  BY <1>3
<1> QED
  BY <1>4, <1>9, <1>10, <1>11, <1>12, <1>13, <1>14 DEF plan, end, h, next, n

(* So the walk is one of that plan.                                        *)
LEMMA PacketIs ==
    ASSUME NEW one, BoxFileStands(one)
    PROVE  /\ FlatPlan(PacketReadings, one.length, PacketPlan(one))
           /\ \E W : /\ FlatWalk(PacketReadings, PacketPlan(one), W)
                     /\ Boxes!Packets(one) = W[0]
<1> DEFINE body(w) == [at \in Nat |-> Boxes!PacketTurn(one, w, at)]
           W == CHOOSE w : w = body(w)
           plan == PacketPlan(one)
<1>1. FlatPlan(PacketReadings, one.length, plan)
  <2>1. one.length \in Nat
    BY DEF BoxFileStands
  <2> QED
    BY <2>1, PacketTurnIs DEF FlatPlan, Ats
<1>2. PICK f : FlatWalk(PacketReadings, plan, f)
  BY <1>1, FlatHas
<1>3. f = [at \in Nat |-> f[at]] /\ \A at \in Nat : f[at] = FlatTurn(plan, f, at)
  BY <1>2 DEF FlatWalk, Ats
<1>4. \A g : \A at \in Nat : Boxes!PacketTurn(one, g, at) = FlatTurn(plan, g, at)
  BY PacketTurnIs
<1>5. f = body(f)
  BY <1>3, <1>4
<1>6. Boxes!Packets(one) = W[0]
  BY DEF Boxes!Packets
<1>7. W = body(W)
  <2> HIDE DEF body
  <2> QED
    BY <1>5
<1> HIDE DEF W
<1>8. W = [at \in Nat |-> W[at]] /\ \A at \in Nat : W[at] = FlatTurn(plan, W, at)
  BY <1>4, <1>7
<1>9. FlatWalk(PacketReadings, plan, W)
  <2> HIDE DEF plan
  <2> QED
    BY <1>1, <1>8, FlatTyped
<1> QED
  BY <1>1, <1>6, <1>9

(* Rows that tile a file as CleanWalksTile has it.                         *)
LEMMA OuterTile ==
    ASSUME NEW rows \in Seq(PieceRows), NEW from \in Nat, NEW to \in Nat, InFileOrder(rows),
           Tiles({r \in ToSet(rows) : r.depth = 0}, from, to)
    PROVE  RowsTile(rows, from, to)
<1> DEFINE R == ToSet(rows)
           all == {r \in R : r.depth = 0}
<1>1. \A r \in all : r.at \in Nat /\ r.size \in Nat
  <2>1. \A r \in R : r \in PieceRows
    BY DEF ToSet
  <2>2. \A r \in PieceRows : r.at \in Nat /\ r.size \in Nat
    BY DEF PieceRows
  <2> QED
    BY <2>1, <2>2
<1>2. \A r \in all : from <= r.at /\ r.size > 0 /\ r.at + r.size <= to
  <2>1. Tiles(all, from, to)
    OBVIOUS
  <2> HIDE DEF all
  <2> QED
    BY <2>1 DEF Tiles
<1>3. \A r \in all : r.at < to
  BY <1>1, <1>2
<1>4. AtDepth(R, 0, from, to) = all
  BY <1>2, <1>3 DEF AtDepth
<1> QED
  BY <1>4 DEF RowsTile

(* What is fine along one level, from the first byte on, tiles the file.   *)
LEMMA FlatRowsTile ==
    ASSUME NEW rows \in Seq(PieceRows), NEW to \in Nat, FineFlat(rows, 0, to)
    PROVE  RowsTile(rows, 0, to)
BY OuterTile DEF FineFlat

(* Everywhere a walk along a level returns a reading.                      *)
LEMMA WalkedRows ==
    ASSUME NEW end, NEW plan, NEW W, NEW S \in {RowReadings, PacketReadings}, FlatWalk(S, plan, W),
           NEW at \in Nat
    PROVE  W[at] \in S /\ W[at].rows \in Seq(PieceRows)
<1>1. W[at] \in S
  BY DEF FlatWalk, Ats
<1> QED
  BY <1>1, ReadingHas

(* The jp2 walk: at most a tail too short for a header is left.            *)
LEMMA JpTiles ==
    ASSUME NEW one, BoxFileStands(one)
    PROVE  LET read == Boxes!Jp2Boxes(one, 0, one.length)
           IN  read.broken = 0 => \E tail \in 0..1 : RowsTile(read.rows, 0, one.length - tail)
<1> DEFINE end == one.length
           plan == JpPlan(one, end)
<1>1. end \in Nat /\ 0 \in Nat /\ 1 \in Nat /\ 0 <= end
  BY DEF BoxFileStands
<1>2. FlatPlan(RowReadings, end, plan)
  BY <1>1, JpIs
<1>3. PICK W : FlatWalk(RowReadings, plan, W) /\ Boxes!Jp2Boxes(one, 0, end) = W[0]
  BY <1>1, JpIs
<1>4. \A at \in Nat : at <= end =>
         /\ plan[at].goes => plan[at].next <= end /\ LevelRows(plan[at].rows, at, plan[at].next)
         /\ ~plan[at].goes /\ plan[at].last.broken = 0 => end <= at + 1 /\ plan[at].last.rows = <<>>
  BY <1>1, JpTurnIs
<1> HIDE DEF plan, end
<1>5. ASSUME W[0].broken = 0
      PROVE  \E tail \in 0..1 : RowsTile(W[0].rows, 0, end - tail)
  <2>1. \A at \in Nat : at <= end /\ W[at].broken = 0 =>
           \E t \in 0..1 : FineFlat(W[at].rows, at, end - t)
    BY <1>1, <1>2, <1>3, <1>4, FlatClean
  <2>2. PICK t \in 0..1 : FineFlat(W[0].rows, 0, end - t)
    BY <1>1, <1>5, <2>1
  <2>3. end - t \in Nat
    <3>1. 0 <= end - t
      BY <2>2 DEF FineFlat, Tiles
    <3> QED
      BY <1>1, <3>1
  <2>4. W[0].rows \in Seq(PieceRows)
    BY <1>1, <1>3, WalkedRows
  <2> QED
    BY <2>2, <2>3, <2>4, FlatRowsTile
<1> QED
  BY <1>3, <1>5 DEF end

(* A clean walk over records tiles the file.                               *)
LEMMA EmfTiles ==
    ASSUME NEW one, BoxFileStands(one)
    PROVE  LET read == Boxes!Records(one) IN read.broken = 0 => RowsTile(read.rows, 0, one.length)
<1> DEFINE end == one.length
           plan == EmfPlan(one)
<1>1. end \in Nat /\ 0 \in Nat /\ 0 <= end
  BY DEF BoxFileStands
<1>2. FlatPlan(RowReadings, end, plan)
  BY EmfIs
<1>3. PICK W : FlatWalk(RowReadings, plan, W) /\ Boxes!Records(one) = W[0]
  BY EmfIs
<1>4. \A at \in Nat : at <= end =>
         /\ plan[at].goes => plan[at].next <= end /\ LevelRows(plan[at].rows, at, plan[at].next)
         /\ ~plan[at].goes /\ plan[at].last.broken = 0 => end <= at + 0 /\ plan[at].last.rows = <<>>
  <2>1. ASSUME NEW at \in Nat
        PROVE  /\ plan[at].goes => plan[at].next <= end /\ LevelRows(plan[at].rows, at, plan[at].next)
               /\ ~plan[at].goes /\ plan[at].last.broken = 0 => end = at /\ plan[at].last.rows = <<>>
    BY EmfTurnIs
  <2>2. \A at \in Nat : end = at => end <= at + 0
    BY <1>1
  <2> HIDE DEF plan, end
  <2> QED
    BY <2>1, <2>2
<1> HIDE DEF plan, end
<1>5. ASSUME W[0].broken = 0
      PROVE  RowsTile(W[0].rows, 0, end)
  <2>1. \A at \in Nat : at <= end /\ W[at].broken = 0 =>
           \E t \in 0..0 : FineFlat(W[at].rows, at, end - t)
    BY <1>1, <1>2, <1>3, <1>4, FlatClean
  <2>2. PICK t \in 0..0 : FineFlat(W[0].rows, 0, end - t)
    BY <1>1, <1>5, <2>1
  <2>3. end - t = end
    BY <1>1
  <2>4. W[0].rows \in Seq(PieceRows)
    BY <1>1, <1>3, WalkedRows
  <2> QED
    BY <1>1, <2>2, <2>3, <2>4, FlatRowsTile
<1> QED
  BY <1>3, <1>5 DEF end

(* A clean wide walk tiles the file.                                       *)
LEMMA WideTiles ==
    ASSUME NEW one, BoxFileStands(one)
    PROVE  LET read == Boxes!WideWalk(one) IN read.broken = 0 => RowsTile(read.rows, 0, one.length)
<1> DEFINE end == one.length
           plan == WidePlan(one)
<1>1. end \in Nat /\ 0 \in Nat /\ 0 <= end
  BY DEF BoxFileStands
<1>2. FlatPlan(RowReadings, end, plan)
  BY WideIs
<1>3. PICK W : FlatWalk(RowReadings, plan, W) /\ Boxes!WideWalk(one) = W[0]
  BY WideIs
<1>4. \A at \in Nat : at <= end =>
         /\ plan[at].goes => plan[at].next <= end /\ LevelRows(plan[at].rows, at, plan[at].next)
         /\ ~plan[at].goes /\ plan[at].last.broken = 0 => end <= at + 0 /\ plan[at].last.rows = <<>>
  <2>1. ASSUME NEW at \in Nat
        PROVE  /\ plan[at].goes => plan[at].next <= end /\ LevelRows(plan[at].rows, at, plan[at].next)
               /\ ~plan[at].goes /\ plan[at].last.broken = 0 => end = at /\ plan[at].last.rows = <<>>
    BY WideTurnIs
  <2>2. \A at \in Nat : end = at => end <= at + 0
    BY <1>1
  <2> HIDE DEF plan, end
  <2> QED
    BY <2>1, <2>2
<1> HIDE DEF plan, end
<1>5. ASSUME W[0].broken = 0
      PROVE  RowsTile(W[0].rows, 0, end)
  <2>1. \A at \in Nat : at <= end /\ W[at].broken = 0 =>
           \E t \in 0..0 : FineFlat(W[at].rows, at, end - t)
    BY <1>1, <1>2, <1>3, <1>4, FlatClean
  <2>2. PICK t \in 0..0 : FineFlat(W[0].rows, 0, end - t)
    BY <1>1, <1>5, <2>1
  <2>3. end - t = end
    BY <1>1
  <2>4. W[0].rows \in Seq(PieceRows)
    BY <1>1, <1>3, WalkedRows
  <2> QED
    BY <1>1, <2>2, <2>3, <2>4, FlatRowsTile
<1> QED
  BY <1>3, <1>5 DEF end

(* A walk over packets that says it came to the end tiles the file.        *)
LEMMA PacketsTile ==
    ASSUME NEW one, BoxFileStands(one)
    PROVE  LET read == Boxes!Packets(one)
           IN  read.ends /\ read.broken = 0 => RowsTile(read.rows, 0, one.length)
<1> DEFINE end == one.length
           plan == PacketPlan(one)
<1>1. end \in Nat /\ 0 \in Nat /\ 0 <= end
  BY DEF BoxFileStands
<1>2. FlatPlan(PacketReadings, end, plan)
  BY PacketIs
<1>3. PICK W : FlatWalk(PacketReadings, plan, W) /\ Boxes!Packets(one) = W[0]
  BY PacketIs
<1>4. ASSUME NEW at \in Nat
      PROVE  /\ plan[at].goes => /\ plan[at].rows \in Seq(PieceRows) /\ plan[at].next \in Nat
                                 /\ plan[at].next <= end
                                 /\ LevelRows(plan[at].rows, at, plan[at].next)
             /\ ~plan[at].goes /\ plan[at].last.ends /\ at < end =>
                   LevelRows(plan[at].last.rows, at, end)
             /\ at = end => /\ ~plan[at].goes /\ plan[at].last.rows = <<>>
                            /\ plan[at].last.broken = 0 /\ (at > 0 => plan[at].last.ends)
  BY PacketTurnIs
<1> HIDE DEF plan, end
<1> DEFINE Clean == {at \in Nat : at <= end /\ W[at].broken = 0 /\ W[at].ends}
<1>5. \A at \in Nat : W[at] = FlatTurn(plan, W, at) /\ W[at] \in PacketReadings
  BY <1>3 DEF FlatWalk, Ats
<1>6. W[end].rows = <<>> /\ (end > 0 => end \in Clean)
  <2>1. W[end] = plan[end].last
    BY <1>1, <1>4, <1>5 DEF FlatTurn
  <2> QED
    BY <1>1, <1>4, <2>1
<1>7. ASSUME NEW at \in Clean
      PROVE  \/ /\ plan[at].goes /\ plan[at].next \in Clean /\ plan[at].next <= end
                /\ LevelRows(plan[at].rows, at, plan[at].next)
             \/ /\ ~plan[at].goes /\ at <= end /\ end <= at + 0 /\ plan[at].last.rows = <<>>
             \/ /\ ~plan[at].goes /\ end \in Clean /\ W[end].rows = <<>>
                /\ LevelRows(plan[at].last.rows, at, end)
  <2>1. at \in Nat /\ at <= end /\ W[at].broken = 0 /\ W[at].ends
    OBVIOUS
  <2>2. CASE plan[at].goes
    <3>1. /\ plan[at].rows \in Seq(PieceRows) /\ plan[at].next \in Nat /\ plan[at].next <= end
          /\ LevelRows(plan[at].rows, at, plan[at].next)
      BY <1>4, <2>1, <2>2
    <3>2. W[at] = Boxes!Ahead(plan[at].rows, W[plan[at].next])
      BY <1>5, <2>1, <2>2 DEF FlatTurn
    <3>3. W[plan[at].next] \in PacketReadings
      BY <1>5, <3>1
    <3>4. /\ Boxes!Ahead(plan[at].rows, W[plan[at].next]).broken = W[plan[at].next].broken
          /\ Boxes!Ahead(plan[at].rows, W[plan[at].next]).ends = W[plan[at].next].ends
      BY ONLY <3>1, <3>3, AheadReads
    <3>5. plan[at].next \in Clean
      BY <2>1, <3>1, <3>2, <3>4
    <3> QED
      BY <2>2, <3>1, <3>5
  <2>3. CASE ~plan[at].goes
    <3>1. W[at] = plan[at].last
      BY <1>5, <2>1, <2>3 DEF FlatTurn
    <3>2. CASE at = end
      <4>1. at <= end /\ end <= at + 0
        BY <1>1, <3>2
      <4> QED
        BY <1>4, <2>1, <2>3, <3>2, <4>1
    <3>3. CASE at # end
      <4>1. at < end /\ end > 0
        BY <1>1, <2>1, <3>3
      <4> QED
        BY <1>4, <1>6, <2>1, <2>3, <3>1, <4>1
    <3> QED
      BY <3>2, <3>3
  <2> QED
    BY <2>2, <2>3
<1>8. ASSUME W[0].ends, W[0].broken = 0
      PROVE  RowsTile(W[0].rows, 0, end)
  <2>0. Clean \in SUBSET Nat /\ 0 \in Clean
    BY <1>1, <1>8
  <2> HIDE DEF Clean
  <2>1. \A at \in Clean : \E t \in 0..0 : FineFlat(W[at].rows, at, end - t)
    BY <1>1, <1>2, <1>3, <1>7, <2>0, FlatWalkTiles
  <2>2. PICK t \in 0..0 : FineFlat(W[0].rows, 0, end - t)
    BY <2>0, <2>1
  <2>3. end - t = end
    BY <1>1
  <2>4. W[0].rows \in Seq(PieceRows)
    BY <1>1, <1>3, WalkedRows
  <2> QED
    BY <1>1, <2>2, <2>3, <2>4, FlatRowsTile
<1> QED
  BY <1>3, <1>8 DEF end

-----------------------------------------------------------------------------
(* What an encoder wrote is walked without a complaint.                    *)
LEMMA JpEnds ==
    ASSUME NEW one, BoxFileStands(one), LaidOut(one), one.walk = "jp2"
    PROVE  Boxes!Jp2Boxes(one, 0, one.length).broken = 0
<1> DEFINE end == one.length
           plan == JpPlan(one, end)
<1>1. end \in Nat /\ 0 \in Nat
  BY DEF BoxFileStands
<1>2. FlatPlan(RowReadings, end, plan)
  BY <1>1, JpIs
<1>3. PICK W : FlatWalk(RowReadings, plan, W) /\ Boxes!Jp2Boxes(one, 0, end) = W[0]
  BY <1>1, JpIs
<1>4. ASSUME NEW at \in Nat, Follows(one, at, end, 0)
      PROVE  \/ plan[at].goes /\ Follows(one, plan[at].next, end, 0)
             \/ ~plan[at].goes /\ plan[at].last.broken = 0
  <2> DEFINE h == Boxes!HeadAt(one, at)
             length == Boxes!Jp2Size(h, at, end)
             n == Boxes!HeadLength(h)
  <2>1. /\ plan[at].goes <=> ~(at + 2 > end) /\ ~(length < n \/ at + length > end)
        /\ plan[at].next = at + length
        /\ plan[at].last = Boxes!Read(<<>>, IF at + 2 > end THEN 0 ELSE 1)
    BY DEF JpPlan, Ats
  <2> HIDE DEF plan
  <2>2. CASE at = end
    <3>1. at + 2 > end
      BY <1>1, <2>2
    <3> QED
      BY <2>1, <3>1, NothingRead
  <2>3. CASE at # end
    <3>1. h \in AnyHeaders /\ h.size \in Nat /\ n \in 2..4
      BY HeadRead
    <3>2. /\ EndOf(one, at) = IF h.form = "rest" THEN end ELSE at + h.size + 0
          /\ EndOf(one, at) \in Nat /\ at + n <= EndOf(one, at) /\ EndOf(one, at) <= end
          /\ Follows(one, EndOf(one, at), end, 0)
      BY <1>1, <1>4, <2>3, PieceLaid
    <3>3. length = IF h.form = "rest" THEN end - at ELSE h.size
      <4>1. CASE h.form = "rest"
        BY <4>1 DEF Boxes!Jp2Size
      <4>2. CASE h.form # "rest"
        <5>1. h.size # 0
          <6> HIDE DEF h, n
          <6> QED
            BY <3>1, <3>2, <4>2
        <5> QED
          BY <4>2, <5>1 DEF Boxes!Jp2Size
      <4> QED
        BY <4>1, <4>2
    <3> HIDE DEF h, length, n
    <3>4. at + length = EndOf(one, at) /\ ~(at + 2 > end) /\ ~(length < n) /\ ~(at + length > end)
      BY <1>1, <3>1, <3>2, <3>3
    <3> QED
      BY <2>1, <3>2, <3>4
  <2> QED
    BY <2>2, <2>3
<1>5. Follows(one, 0, end, 0)
  BY DEF LaidOut
<1> HIDE DEF plan, end
<1>6. W[0].broken = 0
  BY <1>1, <1>2, <1>3, <1>4, <1>5, FlatSound
<1> QED
  BY <1>3, <1>6 DEF end

(* A laid out file of records is walked without a complaint.               *)
LEMMA EmfEnds ==
    ASSUME NEW one, BoxFileStands(one), LaidOut(one), one.walk = "emf"
    PROVE  Boxes!Records(one).broken = 0
<1> DEFINE end == one.length
           plan == EmfPlan(one)
<1>1. end \in Nat /\ 0 \in Nat
  BY DEF BoxFileStands
<1>2. FlatPlan(RowReadings, end, plan)
  BY EmfIs
<1>3. PICK W : FlatWalk(RowReadings, plan, W) /\ Boxes!Records(one) = W[0]
  BY EmfIs
<1>4. ASSUME NEW at \in Nat, Follows(one, at, end, 0)
      PROVE  \/ plan[at].goes /\ Follows(one, plan[at].next, end, 0)
             \/ ~plan[at].goes /\ plan[at].last.broken = 0
  <2> DEFINE h == Boxes!HeadAt(one, at)
             length == h.size
             n == Boxes!HeadLength(h)
  <2>1. /\ plan[at].goes <=> ~(at + 2 > end) /\ ~(length < 2 \/ at + length > end)
        /\ plan[at].next = at + length
        /\ plan[at].last = Boxes!Read(<<>>, IF at = end THEN 0 ELSE 1)
    BY DEF EmfPlan, Ats
  <2> HIDE DEF plan
  <2>2. CASE at = end
    <3>1. at + 2 > end
      BY <1>1, <2>2
    <3> QED
      BY <2>1, <2>2, <3>1, NothingRead
  <2>3. CASE at # end
    <3>1. h \in AnyHeaders /\ h.size \in Nat /\ n \in 2..4
      BY HeadRead
    <3>2. /\ EndOf(one, at) = at + h.size + 0
          /\ EndOf(one, at) \in Nat /\ at + n <= EndOf(one, at) /\ EndOf(one, at) <= end
          /\ Follows(one, EndOf(one, at), end, 0)
      BY <1>1, <1>4, <2>3, PieceLaid
    <3>3. length = h.size
      OBVIOUS
    <3> HIDE DEF h, length, n
    <3>4. at + length = EndOf(one, at) /\ ~(at + 2 > end) /\ ~(length < 2) /\ ~(at + length > end)
      BY <1>1, <3>1, <3>2, <3>3
    <3> QED
      BY <2>1, <3>2, <3>4
  <2> QED
    BY <2>2, <2>3
<1>5. Follows(one, 0, end, 0)
  BY DEF LaidOut
<1> HIDE DEF plan, end
<1>6. W[0].broken = 0
  BY <1>1, <1>2, <1>3, <1>4, <1>5, FlatSound
<1> QED
  BY <1>3, <1>6 DEF end

(* A laid out file of boxes is walked to its end by the wide walk.         *)
LEMMA WideEnds ==
    ASSUME NEW one, BoxFileStands(one), LaidOut(one), one.walk = "wide"
    PROVE  Boxes!WideWalk(one).broken = 0
<1> DEFINE end == one.length
           plan == WidePlan(one)
<1>1. end \in Nat /\ 0 \in Nat
  BY DEF BoxFileStands
<1>2. FlatPlan(RowReadings, end, plan)
  BY WideIs
<1>3. PICK W : FlatWalk(RowReadings, plan, W) /\ Boxes!WideWalk(one) = W[0]
  BY WideIs
<1>4. ASSUME NEW at \in Nat, Follows(one, at, end, 0)
      PROVE  \/ plan[at].goes /\ Follows(one, plan[at].next, end, 0)
             \/ ~plan[at].goes /\ plan[at].last.broken = 0
  <2> DEFINE h == Boxes!HeadAt(one, at)
             length == Boxes!BoxSize(h, at, end)
             n == Boxes!HeadLength(h)
  <2>1. /\ plan[at].goes <=> ~(at + 2 > end) /\ ~(length < 2 \/ at + length > end)
        /\ plan[at].next = at + length
        /\ at + 2 > end => plan[at].last = Boxes!Read(<<>>, IF at = end THEN 0 ELSE 1)
    BY DEF WidePlan, Ats
  <2> HIDE DEF plan
  <2>2. CASE at = end
    <3>1. at + 2 > end
      BY <1>1, <2>2
    <3> QED
      BY <2>1, <2>2, <3>1, NothingRead
  <2>3. CASE at # end
    <3>1. h \in AnyHeaders /\ h.size \in Nat /\ n \in 2..4
      BY HeadRead
    <3>2. /\ EndOf(one, at) = IF h.form = "rest" THEN end ELSE at + h.size + 0
          /\ EndOf(one, at) \in Nat /\ at + n <= EndOf(one, at) /\ EndOf(one, at) <= end
          /\ Follows(one, EndOf(one, at), end, 0)
      BY <1>1, <1>4, <2>3, PieceLaid
    <3>3. length = IF h.form = "rest" THEN end - at ELSE h.size
      <4>1. CASE h.form = "rest"
        BY <4>1 DEF Boxes!BoxSize
      <4>2. CASE h.form # "rest"
        <5>1. h.size # 0
          <6> HIDE DEF h, n
          <6> QED
            BY <3>1, <3>2, <4>2
        <5> QED
          BY <4>2, <5>1 DEF Boxes!BoxSize
      <4> QED
        BY <4>1, <4>2
    <3> HIDE DEF h, length, n
    <3>4. at + length = EndOf(one, at) /\ ~(at + 2 > end) /\ ~(length < 2) /\ ~(at + length > end)
      BY <1>1, <3>1, <3>2, <3>3
    <3> QED
      BY <2>1, <3>2, <3>4
  <2> QED
    BY <2>2, <2>3
<1>5. Follows(one, 0, end, 0)
  BY DEF LaidOut
<1> HIDE DEF plan, end
<1>6. W[0].broken = 0
  BY <1>1, <1>2, <1>3, <1>4, <1>5, FlatSound
<1> QED
  BY <1>3, <1>6 DEF end

(* A laid out file of packets is walked to its end.                        *)
LEMMA PacketsEnd ==
    ASSUME NEW one, BoxFileStands(one), LaidOut(one), one.walk = "pgp"
    PROVE  Boxes!Packets(one).ends
<1> DEFINE end == one.length
           plan == PacketPlan(one)
           F == {r \in PacketReadings : r.ends}
           Whole == {at \in Nat : Follows(one, at, end, 0)}
<1>1. end \in Nat /\ 0 \in Nat /\ end > 0
  BY DEF BoxFileStands, LaidOut
<1>2. FlatPlan(PacketReadings, end, plan)
  BY PacketIs
<1>3. PICK W : FlatWalk(PacketReadings, plan, W) /\ Boxes!Packets(one) = W[0]
  BY PacketIs
<1>4. ASSUME NEW at \in Whole
      PROVE  \/ plan[at].goes /\ plan[at].next \in Whole
             \/ ~plan[at].goes /\ plan[at].last \in F
  <2> DEFINE h == Boxes!HeadAt(one, at)
             n == Boxes!HeadLength(h)
             next == at + n + h.size
  <2>0. at \in Nat /\ Follows(one, at, end, 0)
    OBVIOUS
  <2>1. /\ ~plan[at].goes => plan[at].last \in PacketReadings
        /\ plan[at].goes => plan[at].next \in Nat
        /\ at = end => ~plan[at].goes /\ plan[at].last.ends
        /\ plan[at].next = next
        /\ at < end /\ h.kind # "blank" /\ h.form # "partial"
           /\ (h.form = "rest" => Boxes!Streams(h)) /\ (h.form = "rest" \/ next <= end)
           /\ (h.form # "rest" /\ Boxes!Opaque(h) => next = end) =>
                plan[at].goes \/ plan[at].last.ends
        /\ plan[at].goes => h.form # "rest"
    <3>1. plan[at].goes => h.form # "rest"
      BY <2>0 DEF PacketPlan, Ats
    <3> QED
      BY <1>1, <2>0, <3>1, PacketTurnIs
  <2> HIDE DEF plan
  <2>2. CASE at = end
    BY <2>1, <2>2
  <2>3. CASE at # end
    <3>1. h.size \in Nat /\ n \in 2..4
      BY <2>0, HeadRead
    <3>2. /\ EndOf(one, at) = IF h.form = "rest" THEN end ELSE at + h.size + n
          /\ EndOf(one, at) \in Nat /\ at + n <= EndOf(one, at) /\ EndOf(one, at) <= end
          /\ Follows(one, EndOf(one, at), end, 0)
          /\ h.kind # "blank" /\ h.form # "partial" /\ (h.form = "rest" => Boxes!Streams(h))
          /\ Boxes!Opaque(h) => EndOf(one, at) = end
      BY <1>1, <2>0, <2>3, PieceLaid
    <3>3. h.form # "rest" => next = EndOf(one, at)
      <4> HIDE DEF h, n
      <4> QED
        BY <2>0, <3>1, <3>2
    <3>4. at < end
      <4> HIDE DEF h, n
      <4> QED
        BY <1>1, <2>0, <3>1, <3>2
    <3> HIDE DEF h, n, next
    <3>5. plan[at].goes \/ plan[at].last.ends
      BY <2>1, <3>2, <3>3, <3>4
    <3>6. CASE plan[at].goes
      BY <2>1, <3>2, <3>3, <3>6
    <3>7. CASE ~plan[at].goes
      BY <2>1, <3>5, <3>7
    <3> QED
      BY <3>6, <3>7
  <2> QED
    BY <2>2, <2>3
<1>5. 0 \in Whole
  BY DEF LaidOut
<1>6. ASSUME NEW rows \in Seq(PieceRows), NEW later \in F
      PROVE  Boxes!Ahead(rows, later) \in F
  <2>1. later \in PacketReadings /\ later.ends
    OBVIOUS
  <2>2. Boxes!Ahead(rows, later) \in PacketReadings /\ Boxes!Ahead(rows, later).ends = later.ends
    BY ONLY <2>1, rows \in Seq(PieceRows), AheadReads
  <2> QED
    BY <2>1, <2>2
<1>7. F \in SUBSET PacketReadings /\ Whole \in SUBSET Nat /\ \A r \in F : r.ends
  OBVIOUS
<1> HIDE DEF plan, end, F, Whole
<1>8. \A at \in Whole : W[at] \in F
  BY <1>2, <1>3, <1>4, <1>6, <1>7, FlatWalkEnds
<1> QED
  BY <1>3, <1>5, <1>7, <1>8

(* A clean walk of make-heif-fixtures.py tiles the file and every holder.  *)
LEMMA HeifTiles ==
    ASSUME NEW one, BoxFileStands(one)
    PROVE  LET read == Boxes!HeifWalk(one)
           IN  read.broken = 0
                 => RowsTile(read.rows, 0, one.length) /\ HoldersTile(ToSet(read.rows), Boxes!Containers)
<1> DEFINE plan == HeifPlan(one)
           start == Boxes!Place(0, one.length, 0)
<1>1. PICK W : NestedWalk(Boxes!Containers, plan, W) /\ Boxes!HeifWalk(one) = W[start]
  BY HeifIs
<1>2. NestedPlan(Boxes!Containers, plan)
  BY HeifPlanStands
<1>3. one.length \in Nat
  BY DEF BoxFileStands
<1>4. start \in Boxes!Places /\ start.at = 0 /\ start.stop = one.length /\ start.depth = 0
      /\ start.at <= start.stop
  BY <1>3 DEF Boxes!Places, Boxes!Place
<1> HIDE DEF plan, start
<1>5. ASSUME W[start].broken = 0
      PROVE  RowsTile(W[start].rows, 0, one.length)
               /\ HoldersTile(ToSet(W[start].rows), Boxes!Containers)
  <2>1. Fine(Boxes!Containers, W[start].rows, start)
    BY <1>1, <1>2, <1>4, <1>5, NestedWalkTiles, TablesAre
  <2>2. W[start].rows \in Seq(PieceRows)
    <3>1. W[start] \in RowReadings
      BY <1>1, <1>4 DEF NestedWalk
    <3> QED
      BY <3>1 DEF RowReadings
  <2>3. /\ InFileOrder(W[start].rows) /\ HoldersTile(ToSet(W[start].rows), Boxes!Containers)
        /\ Tiles({r \in ToSet(W[start].rows) : r.depth = 0}, 0, one.length)
    BY <1>4, <2>1 DEF Fine
  <2> QED
    BY <1>3, <2>2, <2>3, OuterTile
<1> QED
  BY <1>1, <1>5

(* A clean walk of tlvs tiles the file and every constructed object.       *)
LEMMA TlvTiles ==
    ASSUME NEW one, BoxFileStands(one)
    PROVE  LET read == Boxes!Tlvs(one)
           IN  read.broken = 0
                 => RowsTile(read.rows, 0, one.length) /\ HoldersTile(ToSet(read.rows), Boxes!Constructed)
<1> DEFINE plan == TlvPlan(one)
           start == Boxes!Place(0, one.length, 0)
<1>1. PICK W : NestedWalk(Boxes!Constructed, plan, W) /\ Boxes!Tlvs(one) = W[start]
  BY TlvIs
<1>2. NestedPlan(Boxes!Constructed, plan)
  BY TlvPlanStands
<1>3. one.length \in Nat
  BY DEF BoxFileStands
<1>4. start \in Boxes!Places /\ start.at = 0 /\ start.stop = one.length /\ start.depth = 0
      /\ start.at <= start.stop
  BY <1>3 DEF Boxes!Places, Boxes!Place
<1> HIDE DEF plan, start
<1>5. ASSUME W[start].broken = 0
      PROVE  RowsTile(W[start].rows, 0, one.length)
               /\ HoldersTile(ToSet(W[start].rows), Boxes!Constructed)
  <2>1. Fine(Boxes!Constructed, W[start].rows, start)
    BY <1>1, <1>2, <1>4, <1>5, NestedWalkTiles, TablesAre
  <2>2. W[start].rows \in Seq(PieceRows)
    <3>1. W[start] \in RowReadings
      BY <1>1, <1>4 DEF NestedWalk
    <3> QED
      BY <3>1 DEF RowReadings
  <2>3. /\ InFileOrder(W[start].rows) /\ HoldersTile(ToSet(W[start].rows), Boxes!Constructed)
        /\ Tiles({r \in ToSet(W[start].rows) : r.depth = 0}, 0, one.length)
    BY <1>4, <2>1 DEF Fine
  <2> QED
    BY <1>3, <2>2, <2>3, OuterTile
<1> QED
  BY <1>1, <1>5

-----------------------------------------------------------------------------
(* What kids finds in a holder that tlvs went into.                        *)
Deep(rows, depth) == {r \in ToSet(rows) : r.depth = depth}

(* The rows of a walk that takes a row at a place, and where they are.     *)
LEMMA TakenRows ==
    ASSUME NEW skips, AreSkips(skips),
           NEW W \in [Boxes!Places -> RowReadings], NEW p \in Boxes!Places, NEW row \in PieceRows,
           Takes(skips, W, p, row),
           Fine(skips, W[PlaceAfter(row, p)].rows, PlaceAfter(row, p)),
           row.kind \in DOMAIN skips => Fine(skips, W[PlaceIn(skips, row)].rows, PlaceIn(skips, row))
    PROVE  LET La == ToSet(W[PlaceAfter(row, p)].rows)
               In == IF row.kind \in DOMAIN skips THEN ToSet(W[PlaceIn(skips, row)].rows) ELSE {}
           IN  /\ ToSet(W[p].rows) = {row} \cup In \cup La
               /\ \A r \in In : r \in PieceRows /\ r.depth >= row.depth + 1 /\ r.at >= From(skips, row)
                                /\ r.at < row.at + row.size
               /\ \A r \in La : r \in PieceRows /\ r.depth >= row.depth /\ r.at >= row.at + row.size
<1> DEFINE later == W[PlaceAfter(row, p)].rows
           inner == IF row.kind \in DOMAIN skips THEN W[PlaceIn(skips, row)].rows ELSE <<>>
<1>1. /\ row.at \in Nat /\ row.size \in Nat /\ row.depth \in Nat /\ row.head \in Nat
      /\ p.at \in Nat /\ p.stop \in Nat /\ p.depth \in Nat
  BY DEF PieceRows, Boxes!Places
<1>2. /\ row.at = p.at /\ row.head > 0 /\ row.head <= row.size /\ row.at + row.size <= p.stop
      /\ row.depth = p.depth
  BY DEF Takes
<1>3. PlaceAfter(row, p) \in Boxes!Places /\ PlaceIn(skips, row) \in Boxes!Places
  BY <1>2, LeftIs
<1>4. later \in Seq(PieceRows) /\ W[PlaceIn(skips, row)].rows \in Seq(PieceRows)
  <2>1. W[PlaceAfter(row, p)] \in RowReadings /\ W[PlaceIn(skips, row)] \in RowReadings
    BY <1>3
  <2> QED
    BY <2>1 DEF RowReadings
<1>5. inner \in Seq(PieceRows)
  <2>1. <<>> \in Seq(PieceRows)
    OBVIOUS
  <2> QED
    BY <1>4, <2>1
<1>6. W[p].rows = <<row>> \o inner \o later
  BY DEF Takes
<1>7. /\ PlaceIn(skips, row).at = From(skips, row) /\ PlaceIn(skips, row).stop = row.at + row.size
      /\ PlaceIn(skips, row).depth = row.depth + 1
      /\ PlaceAfter(row, p).at = row.at + row.size /\ PlaceAfter(row, p).depth = row.depth
  BY <1>2 DEF PlaceIn, PlaceAfter, Boxes!Place
<1>8. ToSet(inner) = IF row.kind \in DOMAIN skips THEN ToSet(W[PlaceIn(skips, row)].rows) ELSE {}
  <2>1. ToSet(<<>>) = {}
    BY DEF ToSet
  <2> QED
    BY <2>1
<1>9. \A r \in PieceRows : r.at \in Nat /\ r.size \in Nat /\ r.depth \in Nat
  BY DEF PieceRows
<1>10. row.kind \in DOMAIN skips => Fine(skips, inner, PlaceIn(skips, row))
  OBVIOUS
<1>0. Fine(skips, later, PlaceAfter(row, p))
  OBVIOUS
<1>15. row.kind \notin DOMAIN skips => ToSet(inner) = {}
  BY <1>8
<1> HIDE DEF inner, later
<1>11. ToSet(W[p].rows) = {row} \cup ToSet(inner) \cup ToSet(later)
  <2>1. ToSet(<<row>> \o inner \o later) = {row} \cup ToSet(inner) \cup ToSet(later)
    BY ONLY <1>4, <1>5, row \in PieceRows, JoinedRows
  <2> QED
    BY <1>6, <2>1
<1>12. (\A r \in ToSet(inner) : r \in PieceRows) /\ (\A r \in ToSet(later) : r \in PieceRows)
  BY <1>4, <1>5 DEF ToSet
<1>13. ASSUME NEW r \in ToSet(inner)
       PROVE  /\ r \in PieceRows /\ r.depth >= row.depth + 1 /\ r.at >= From(skips, row)
              /\ r.at < row.at + row.size
  <2>1. From(skips, row) <= r.at /\ r.size > 0 /\ r.at + r.size <= row.at + row.size
        /\ row.depth + 1 <= r.depth
    BY <1>7, <1>10, <1>15 DEF Fine
  <2>2. r \in PieceRows /\ r.at \in Nat /\ r.size \in Nat /\ r.depth \in Nat
    BY <1>9, <1>12
  <2>3. From(skips, row) \in Nat
    BY FromIs
  <2> QED
    BY <1>1, <2>1, <2>2, <2>3
<1>14. ASSUME NEW r \in ToSet(later)
       PROVE  r \in PieceRows /\ r.depth >= row.depth /\ r.at >= row.at + row.size
  <2>1. row.at + row.size <= r.at /\ row.depth <= r.depth
    BY <1>0, <1>7 DEF Fine
  <2>2. r \in PieceRows /\ r.at \in Nat /\ r.depth \in Nat
    BY <1>9, <1>12
  <2> QED
    BY <1>1, <2>1, <2>2
<1> QED
  BY <1>8, <1>11, <1>13, <1>14 DEF later

(* What a walk found in a holder it took is what it found from there on.   *)
LEMMA InsideIs ==
    ASSUME NEW skips, AreSkips(skips),
           NEW plan, NestedPlan(skips, plan), NEW W, NestedWalk(skips, plan, W)
    PROVE  \A p \in Boxes!Places : p.at <= p.stop /\ W[p].broken = 0 =>
             \A row \in ToSet(W[p].rows) : row.kind \in DOMAIN skips /\ row.depth = p.depth =>
                 /\ row \in PieceRows /\ PlaceIn(skips, row) \in Boxes!Places
                 /\ PlaceIn(skips, row).at <= PlaceIn(skips, row).stop
                      /\ W[PlaceIn(skips, row)].broken = 0
                 /\ Inside(ToSet(W[p].rows), skips, row)
                      = Deep(W[PlaceIn(skips, row)].rows, row.depth + 1)
<1> DEFINE Shows(p, row) ==
             /\ row \in PieceRows /\ PlaceIn(skips, row) \in Boxes!Places
             /\ PlaceIn(skips, row).at <= PlaceIn(skips, row).stop /\ W[PlaceIn(skips, row)].broken = 0
             /\ Inside(ToSet(W[p].rows), skips, row) = Deep(W[PlaceIn(skips, row)].rows, row.depth + 1)
           Good == {p \in Boxes!Places : p.at <= p.stop /\ W[p].broken = 0 =>
                      \A row \in ToSet(W[p].rows) :
                         row.kind \in DOMAIN skips /\ row.depth = p.depth => Shows(p, row)}
<1>1. W \in [Boxes!Places -> RowReadings]
  BY DEF NestedWalk
<1>2. \A p \in Boxes!Places : p.at <= p.stop /\ W[p].broken = 0 => Fine(skips, W[p].rows, p)
  BY NestedWalkTiles
<1>3. ASSUME NEW p \in Boxes!Places, \A q \in Boxes!Places : LeftAt[q] < LeftAt[p] => q \in Good
      PROVE  p \in Good
  <2> SUFFICES ASSUME p.at <= p.stop, W[p].broken = 0, NEW row \in ToSet(W[p].rows),
                      row.kind \in DOMAIN skips, row.depth = p.depth
               PROVE  Shows(p, row)
    OBVIOUS
  <2>1. GoesOn(skips, W, p)
    BY NestedGoesOn DEF GoesOn
  <2>2. W[p].rows # <<>>
    <3>1. ToSet(<<>>) = {}
      BY DEF ToSet
    <3> QED
      BY <3>1
  <2>3. PICK head \in PieceRows : Takes(skips, W, p, head)
    BY <2>1, <2>2 DEF GoesOn
  <2>4. /\ head.at = p.at /\ head.head > 0 /\ head.head <= head.size /\ head.at + head.size <= p.stop
        /\ head.depth = p.depth
        /\ W[PlaceAfter(head, p)].broken = 0
        /\ head.kind \in DOMAIN skips =>
             W[PlaceIn(skips, head)].broken = 0 /\ From(skips, head) <= head.at + head.size
    BY <2>3 DEF Takes
  <2>5. /\ PlaceAfter(head, p) \in Boxes!Places /\ LeftAt[PlaceAfter(head, p)] < LeftAt[p]
        /\ PlaceIn(skips, head) \in Boxes!Places /\ LeftAt[PlaceIn(skips, head)] < LeftAt[p]
    BY <2>4, LeftIs
  <2>6. head.at \in Nat /\ head.size \in Nat /\ head.head \in Nat /\ head.depth \in Nat
          /\ p.stop \in Nat
    BY DEF PieceRows, Boxes!Places
  <2>7. /\ PlaceIn(skips, head).at = From(skips, head)
             /\ PlaceIn(skips, head).stop = head.at + head.size
        /\ PlaceAfter(head, p).at = head.at + head.size /\ PlaceAfter(head, p).stop = p.stop
        /\ PlaceAfter(head, p).depth = p.depth
        /\ head.kind \in DOMAIN skips => PlaceIn(skips, head).at <= PlaceIn(skips, head).stop
        /\ PlaceAfter(head, p).at <= PlaceAfter(head, p).stop
    BY <2>4, <2>6 DEF PlaceIn, PlaceAfter, Boxes!Place
  <2>8. /\ Fine(skips, W[PlaceAfter(head, p)].rows, PlaceAfter(head, p))
        /\ head.kind \in DOMAIN skips => Fine(skips, W[PlaceIn(skips, head)].rows, PlaceIn(skips, head))
    BY <1>2, <2>4, <2>5, <2>7
  <2> DEFINE La == ToSet(W[PlaceAfter(head, p)].rows)
             In == IF head.kind \in DOMAIN skips THEN ToSet(W[PlaceIn(skips, head)].rows) ELSE {}
             All == ToSet(W[p].rows)
  <2>9. /\ All = {head} \cup In \cup La
        /\ \A r \in In : r \in PieceRows /\ r.depth >= head.depth + 1 /\ r.at >= From(skips, head)
                         /\ r.at < head.at + head.size
        /\ \A r \in La : r \in PieceRows /\ r.depth >= head.depth /\ r.at >= head.at + head.size
    BY <1>1, <2>3, <2>8, TakenRows
  <2>10. \A r \in PieceRows : r.at \in Nat /\ r.size \in Nat /\ r.depth \in Nat /\ r.head \in Nat
    BY DEF PieceRows
  <2>11. CASE row = head
    <3> DEFINE d == head.depth + 1
               from == From(skips, head)
               to == head.at + head.size
    <3>1. In = ToSet(W[PlaceIn(skips, head)].rows)
      BY <2>11
    <3> HIDE DEF In, La, All
    <3>2. from \in Nat /\ to \in Nat /\ d \in Nat /\ d # head.depth
      BY <2>6, FromIs
    <3>3. \A r \in In : from <= r.at /\ r.at < to
      BY <2>6, <2>9, <2>10, <3>2
    <3>4. \A r \in La : ~(r.at < to)
      BY <2>6, <2>9, <2>10
    <3>5. {r \in All : r.depth = d /\ from <= r.at /\ r.at < to} = {r \in In : r.depth = d}
      <4> HIDE DEF d, from, to
      <4> QED
        BY <2>9, <3>2, <3>3, <3>4
    <3>6. Inside(All, skips, row) = Deep(W[PlaceIn(skips, row)].rows, row.depth + 1)
      <4>1. HoldsFrom(skips, row) = from
        BY <2>11, FromIs
      <4> QED
        BY <2>11, <3>1, <3>5, <4>1 DEF Inside, AtDepth, Deep
    <3> QED
      BY <2>4, <2>5, <2>7, <2>11, <3>6 DEF All
  <2>12. CASE row \in La
    <3> DEFINE q == PlaceAfter(head, p)
    <3>1. Shows(q, row)
      BY <1>3, <2>4, <2>5, <2>7, <2>12
    <3>2. row \in PieceRows /\ Inside(La, skips, row) = Deep(W[PlaceIn(skips, row)].rows, row.depth + 1)
      BY <3>1
    <3>0. /\ PlaceIn(skips, row) \in Boxes!Places /\ PlaceIn(skips, row).at <= PlaceIn(skips, row).stop
          /\ W[PlaceIn(skips, row)].broken = 0
      BY <3>1
    <3> HIDE DEF In, La, All, Good, Shows
    <3>3. row.at \in Nat /\ row.head \in Nat /\ row.depth \in Nat /\ row.depth + 1 # head.depth
          /\ head.at + head.size <= row.at
      BY <2>4, <2>6, <2>9, <2>10, <2>12, <3>2
    <3>6. /\ HoldsFrom(skips, row) = From(skips, row) /\ From(skips, row) \in Nat
          /\ row.at + row.head <= From(skips, row)
      BY <3>2, FromIs
    <3>4. \A r \in In : ~(From(skips, row) <= r.at)
      <4>1. ASSUME NEW r \in In
            PROVE  ~(From(skips, row) <= r.at)
        <5>1. r.at \in Nat /\ r.at < head.at + head.size
          BY <2>9, <2>10
        <5> QED
          BY <2>6, <3>3, <3>6, <5>1
      <4> QED
        BY <4>1
    <3>5. Inside(All, skips, row) = Inside(La, skips, row)
      BY <2>9, <3>3, <3>4, <3>6 DEF Inside, AtDepth
    <3> QED
      BY <3>0, <3>2, <3>5 DEF Shows, All
  <2>13. row \notin In
    <3>1. ~(head.depth >= head.depth + 1)
      BY <2>6
    <3> QED
      BY <2>4, <2>9, <3>1
  <2> QED
    BY <2>9, <2>11, <2>12, <2>13
<1>4. \A p \in Boxes!Places : p \in Good
  <2> HIDE DEF Good
  <2> QED
    BY <1>3, ByMeasure, LeftIs
<1> QED
  BY <1>4

(* Where tlvs walks the inside of an object without a complaint, kids      *)
(* finds the rows tlvs finds one level down: it goes by the same headers   *)
(* and skips what is deeper.                                               *)
LEMMA KidsAlike ==
    ASSUME NEW one, BoxFileStands(one), NEW W, NestedWalk(Boxes!Constructed, TlvPlan(one), W),
           NEW stop \in Nat, NEW K, FlatWalk(RowReadings, KidPlan(one, stop), K)
    PROVE  \A at \in Nat : at <= stop /\ W[Boxes!Place(at, stop, 1)].broken = 0 =>
             ToSet(K[at].rows) = Deep(W[Boxes!Place(at, stop, 1)].rows, 1)
<1> DEFINE P(at) == Boxes!Place(at, stop, 1)
           Good == {at \in Ats : at <= stop /\ W[P(at)].broken = 0 =>
                                   ToSet(K[at].rows) = Deep(W[P(at)].rows, 1)}
           m == LeftTo(stop)
           plan == TlvPlan(one)
           kid == KidPlan(one, stop)
<1>1. NestedPlan(Boxes!Constructed, plan)
  BY TlvPlanStands
<1>2. W \in [Boxes!Places -> RowReadings]
  BY DEF NestedWalk
<1>3. \A p \in Boxes!Places : p.at <= p.stop /\ W[p].broken = 0 => Fine(Boxes!Constructed, W[p].rows, p)
  BY <1>1, NestedWalkTiles, TablesAre
<1>4. ASSUME NEW at \in Ats, \A b \in Ats : m[b] < m[at] => b \in Good
      PROVE  at \in Good
  <2> SUFFICES ASSUME at <= stop, W[P(at)].broken = 0
               PROVE  ToSet(K[at].rows) = Deep(W[P(at)].rows, 1)
    OBVIOUS
  <2> DEFINE p == P(at)
             h == Boxes!HeadAt(one, at)
             row == Boxes!Row(h, at, Boxes!HeadLength(h) + h.size, 1)
             next == at + (Boxes!HeadLength(h) + h.size)
  <2>1. /\ at \in Nat /\ p \in Boxes!Places /\ p.at = at /\ p.stop = stop /\ p.depth = 1
        /\ p.at <= p.stop /\ W[p].broken = 0
    BY DEF Ats, Boxes!Places, Boxes!Place
  <2>2. /\ plan[p].goes <=> TlvGoes(one, p)
        /\ plan[p].row = row
    BY <2>1 DEF TlvPlan, TlvRow
  <2>3. /\ kid[at].goes <=> ~(at >= stop)
        /\ kid[at].rows = <<row>> /\ kid[at].next = next
        /\ kid[at].last = Boxes!Read(<<>>, 0)
    BY DEF KidPlan
  <2>4. K[at] = FlatTurn(kid, K, at)
    BY DEF FlatWalk
  <2>5. h \in AnyHeaders /\ h.size \in Nat /\ Boxes!HeadLength(h) \in 2..4
    BY <2>1, HeadRead
  <2>6. /\ plan[p].goes => row \in PieceRows /\ Takes(Boxes!Constructed, W, p, row)
        /\ ~plan[p].goes => p.at = p.stop /\ W[p].rows = <<>>
    BY <1>1, <2>1, <2>2, NestedGoesOn, TablesAre
  <2>7. CASE plan[p].goes
    <3>1. at < stop
      <4>1. ~(p.at >= p.stop)
        BY <2>2, <2>7 DEF TlvGoes
      <4> QED
        BY <2>1, <4>1
    <3>2. next \in Nat /\ at < next
      BY <2>1, <2>5
    <3>3. row \in PieceRows /\ row.at = at /\ row.size = Boxes!HeadLength(h) + h.size /\ row.depth = 1
      <4> DEFINE size == Boxes!HeadLength(h) + h.size
      <4>1. size \in Nat /\ 1 \in Nat
        BY <2>5
      <4> HIDE DEF size, h
      <4>2. /\ Boxes!Row(h, at, size, 1).at = at /\ Boxes!Row(h, at, size, 1).size = size
            /\ Boxes!Row(h, at, size, 1).depth = 1 /\ Boxes!Row(h, at, size, 1) \in PieceRows
        BY ONLY <2>1, <2>5, <4>1, RowRead
      <4> QED
        BY <4>2 DEF size
    <3>4. PlaceAfter(row, p) = P(next) /\ row.at + row.size = next
      BY <2>1, <3>3 DEF PlaceAfter
    <3> HIDE DEF row, h, kid, plan
    <3>5. Takes(Boxes!Constructed, W, p, row)
      BY <2>6, <2>7
    <3>6. /\ next <= stop /\ W[P(next)].broken = 0
          /\ row.head > 0 /\ row.head <= row.size /\ row.at + row.size <= p.stop /\ row.at = p.at
          /\ row.kind \in DOMAIN Boxes!Constructed => W[PlaceIn(Boxes!Constructed, row)].broken = 0
      BY <2>1, <3>4, <3>5 DEF Takes
    <3>7. /\ P(next) \in Boxes!Places /\ P(next).at = next /\ P(next).stop = stop
      BY <3>2 DEF Boxes!Place, Boxes!Places
    <3>8. /\ PlaceIn(Boxes!Constructed, row) \in Boxes!Places
          /\ PlaceIn(Boxes!Constructed, row).at = row.at + row.head
          /\ PlaceIn(Boxes!Constructed, row).stop = row.at + row.size
      <4>1. From(Boxes!Constructed, row) = row.at + row.head
        <5>1. Skip(Boxes!Constructed, row) = 0
          BY TablesAre
        <5>2. row.at \in Nat /\ row.head \in Nat
          BY <3>3 DEF PieceRows
        <5> QED
          BY <5>1, <5>2 DEF From
      <4> QED
        BY <2>1, <3>3, <3>6, <4>1, LeftIs, TablesAre DEF PlaceIn, Boxes!Place
    <3>9. PlaceIn(Boxes!Constructed, row).at <= PlaceIn(Boxes!Constructed, row).stop
      <4>1. row.at \in Nat /\ row.size \in Nat /\ row.head \in Nat
        BY <3>3 DEF PieceRows
      <4> QED
        BY <3>6, <3>8, <4>1
    <3>10. /\ Fine(Boxes!Constructed, W[PlaceAfter(row, p)].rows, PlaceAfter(row, p))
           /\ row.kind \in DOMAIN Boxes!Constructed
                => Fine(Boxes!Constructed, W[PlaceIn(Boxes!Constructed, row)].rows, PlaceIn(Boxes!Constructed, row))
      <4>1. P(next).at <= P(next).stop
        BY <3>6, <3>7
      <4> QED
        BY <1>3, <3>4, <3>6, <3>7, <3>8, <3>9, <4>1
    <3> DEFINE La == ToSet(W[PlaceAfter(row, p)].rows)
               In == IF row.kind \in DOMAIN Boxes!Constructed THEN ToSet(W[PlaceIn(Boxes!Constructed, row)].rows) ELSE {}
    <3>11. /\ ToSet(W[p].rows) = {row} \cup In \cup La
           /\ \A r \in In : r \in PieceRows /\ r.depth >= row.depth + 1
      <4> DEFINE der == Boxes!Constructed
      <4>0. AreSkips(der) /\ Takes(der, W, p, row)
        BY <3>5, TablesAre
      <4>2. Fine(der, W[PlaceAfter(row, p)].rows, PlaceAfter(row, p))
        BY <3>10
      <4>3. row.kind \in DOMAIN der => Fine(der, W[PlaceIn(der, row)].rows, PlaceIn(der, row))
        BY <3>10
      <4> DEFINE Held == IF row.kind \in DOMAIN der THEN ToSet(W[PlaceIn(der, row)].rows) ELSE {}
      <4> HIDE DEF p, der
      <4>4. /\ ToSet(W[p].rows) = {row} \cup Held \cup La
            /\ \A r \in Held : r \in PieceRows /\ r.depth >= row.depth + 1 /\ r.at >= From(der, row)
                               /\ r.at < row.at + row.size
            /\ \A r \in La : r \in PieceRows /\ r.depth >= row.depth /\ r.at >= row.at + row.size
        BY ONLY <1>2, <2>1, <3>3, <4>0, <4>2, <4>3, TakenRows
      <4> HIDE DEF La, Held
      <4>5. /\ ToSet(W[p].rows) = {row} \cup Held \cup La
            /\ \A r \in Held : r \in PieceRows /\ r.depth >= row.depth + 1
        BY ONLY <4>4
      <4>1. /\ ToSet(W[p].rows) = {row} \cup In \cup La
            /\ \A r \in In : r \in PieceRows /\ r.depth >= row.depth + 1
        BY <4>5 DEF Held, der
      <4> QED
        BY <4>1
    <3> HIDE DEF La, In
    <3>12. \A r \in In : r.depth # 1
      <4>1. \A r \in PieceRows : r.depth \in Nat
        BY DEF PieceRows
      <4> QED
        BY <3>3, <3>11, <4>1
    <3>13. Deep(W[p].rows, 1) = {row} \cup {r \in La : r.depth = 1}
      BY <3>3, <3>11, <3>12 DEF Deep
    <3>14. Deep(W[P(next)].rows, 1) = {r \in La : r.depth = 1}
      BY <3>4 DEF Deep, La
    <3>15. ToSet(K[next].rows) = Deep(W[P(next)].rows, 1)
      <4>1. m[next] < m[at]
        BY <2>1, <3>1, <3>2, LeftToIs
      <4>2. next \in Ats
        BY <3>2 DEF Ats
      <4> QED
        BY <1>4, <3>6, <4>1, <4>2
    <3>16. ToSet(K[at].rows) = {row} \cup ToSet(K[next].rows)
      <4>1. K[at] = Boxes!Ahead(<<row>>, K[next])
        <5>1. kid[at].goes
          BY <2>1, <2>3, <3>1
        <5> QED
          BY <2>3, <2>4, <5>1 DEF FlatTurn
      <4>2. K[next] \in RowReadings /\ K[next].rows \in Seq(PieceRows)
        BY <3>2, WalkedRows
      <4>3. <<row>> \in Seq(PieceRows)
        BY <3>3
      <4>4. Boxes!Ahead(<<row>>, K[next]).rows = <<row>> \o K[next].rows
        BY ONLY <4>2, <4>3, AheadReads
      <4> DEFINE later == K[next].rows
                 none == <<>>
      <4>5. later \in Seq(PieceRows) /\ none \in Seq(PieceRows)
            /\ <<row>> \o later = <<row>> \o none \o later /\ ToSet(none) = {}
        BY <4>2, <4>3 DEF ToSet
      <4> HIDE DEF later, none
      <4>6. ToSet(<<row>> \o none \o later) = {row} \cup ToSet(none) \cup ToSet(later)
        BY ONLY <3>3, <4>5, JoinedRows
      <4>7. ToSet(<<row>> \o later) = {row} \cup ToSet(later)
        BY <4>5, <4>6
      <4> QED
        BY <4>1, <4>4, <4>7 DEF later
    <3> QED
      BY <3>13, <3>14, <3>15, <3>16
  <2>8. CASE ~plan[p].goes
    <3>1. at = stop /\ W[p].rows = <<>>
      BY <2>1, <2>6, <2>8
    <3>2. ~kid[at].goes
      BY <2>1, <2>3, <3>1
    <3>3. K[at].rows = <<>>
      BY <2>3, <2>4, <3>2, NothingRead DEF FlatTurn
    <3>4. ToSet(<<>>) = {}
      BY DEF ToSet
    <3> QED
      BY <3>1, <3>3, <3>4 DEF Deep
  <2> QED
    BY <2>7, <2>8
<1>5. \A at \in Ats : at \in Good
  <2>1. m \in [Ats -> Nat]
    BY LeftToIs
  <2> HIDE DEF Good, m
  <2> QED
    BY <1>4, <2>1, ByMeasure
<1> QED
  BY <1>5 DEF Ats

(* So kids finds, in every outermost constructed object, the objects tlvs  *)
(* does.                                                                   *)
LEMMA KidsFound ==
    ASSUME NEW one, BoxFileStands(one), Boxes!Tlvs(one).broken = 0,
           NEW row \in ToSet(Boxes!Tlvs(one).rows), row.kind \in DOMAIN Boxes!Constructed, row.depth = 0
    PROVE  LET kids == Boxes!Kids(one, row.at + row.head, row.at + row.size)
           IN  InFileOrder(kids)
                 /\ ToSet(kids) = Inside(ToSet(Boxes!Tlvs(one).rows), Boxes!Constructed, row)
<1> DEFINE plan == TlvPlan(one)
           start == Boxes!Place(0, one.length, 0)
           from == row.at + row.head
           stop == row.at + row.size
<1>1. PICK W : NestedWalk(Boxes!Constructed, plan, W) /\ Boxes!Tlvs(one) = W[start]
  BY TlvIs
<1>2. NestedPlan(Boxes!Constructed, plan)
  BY TlvPlanStands
<1>3. one.length \in Nat
  BY DEF BoxFileStands
<1>4. start \in Boxes!Places /\ start.at = 0 /\ start.stop = one.length /\ start.depth = 0
      /\ start.at <= start.stop
  BY <1>3 DEF Boxes!Places, Boxes!Place
<1> HIDE DEF start
<1>5. /\ row \in PieceRows /\ PlaceIn(Boxes!Constructed, row) \in Boxes!Places
      /\ PlaceIn(Boxes!Constructed, row).at <= PlaceIn(Boxes!Constructed, row).stop
           /\ W[PlaceIn(Boxes!Constructed, row)].broken = 0
      /\ Inside(ToSet(W[start].rows), Boxes!Constructed, row)
           = Deep(W[PlaceIn(Boxes!Constructed, row)].rows, row.depth + 1)
  <2> HIDE DEF plan
  <2>1. W[start].broken = 0 /\ row \in ToSet(W[start].rows)
    BY <1>1
  <2> QED
    BY <1>1, <1>2, <1>4, <2>1, InsideIs, TablesAre
<1>6. from \in Nat /\ stop \in Nat
  BY <1>5 DEF PieceRows
<1>7. /\ PlaceIn(Boxes!Constructed, row) = Boxes!Place(from, stop, 1) /\ row.depth + 1 = 1
      /\ HoldsFrom(Boxes!Constructed, row) = from
  <2>1. Skip(Boxes!Constructed, row) = 0 /\ Boxes!Constructed[row.kind] = 0
    BY TablesAre
  <2>2. row.at \in Nat /\ row.head \in Nat
    BY <1>5 DEF PieceRows
  <2>3. From(Boxes!Constructed, row) = from /\ HoldsFrom(Boxes!Constructed, row) = from
    BY <2>1, <2>2 DEF From, HoldsFrom
  <2> QED
    BY <2>3 DEF PlaceIn
<1>8. from <= stop
  BY <1>5, <1>7 DEF Boxes!Place
<1> HIDE DEF from, stop
<1>9. FlatPlan(RowReadings, stop, KidPlan(one, stop))
  BY <1>6, KidIs
<1>10. PICK K : FlatWalk(RowReadings, KidPlan(one, stop), K)
         /\ Boxes!Kids(one, from, stop) = K[from].rows
  BY <1>6, KidIs
<1>11. ToSet(K[from].rows) = Deep(W[Boxes!Place(from, stop, 1)].rows, 1)
  BY <1>1, <1>5, <1>6, <1>7, <1>8, <1>10, KidsAlike
<1>12. Ranked(K[from].rows, from, stop, 1)
  <2>1. \A at \in Nat :
          /\ KidPlan(one, stop)[at].goes => Single(KidPlan(one, stop)[at].rows, at, 1)
          /\ ~KidPlan(one, stop)[at].goes => KidPlan(one, stop)[at].last.rows = <<>>
    BY <1>6, KidTurnIs
  <2> DEFINE kid == KidPlan(one, stop)
  <2>2. /\ FlatPlan(RowReadings, stop, kid) /\ FlatWalk(RowReadings, kid, K) /\ 1 \in Nat
        /\ \A at \in Nat :
             /\ kid[at].goes => Single(kid[at].rows, at, 1)
             /\ ~kid[at].goes => (\/ kid[at].last.rows = <<>>
                                  \/ at < stop /\ Single(kid[at].last.rows, at, 1))
    BY <1>9, <1>10, <2>1
  <2> HIDE DEF kid
  <2> QED
    BY <1>6, <2>2, FlatRanks
<1> QED
  BY <1>1, <1>5, <1>7, <1>10, <1>11, <1>12 DEF Ranked, from, stop

-----------------------------------------------------------------------------
(* A walk that goes through a file of any length without a complaint, in   *)
(* whatever way its headers were restated, has accounted for every byte of *)
(* it; and a file that is laid out as an encoder does it is walked without *)
(* a complaint.                                                            *)
LEMMA BoxesAccounted ==
    ASSUME kind = "boxes", BoxFileStands(file), damaged = 0 => LaidOut(file)
    PROVE  CleanWalksTile
<1> DEFINE jp2 == Boxes!Jp2Boxes(file, 0, file.length)
           heif == Boxes!HeifWalk(file)
           wide == Boxes!WideWalk(file)
           der == Boxes!Tlvs(file)
           pgp == Boxes!Packets(file)
           emf == Boxes!Records(file)
           Kids(row) == Boxes!Kids(file, row.at + row.head, row.at + row.size)
<1>1. ASSUME file.walk = "jp2"
      PROVE  /\ damaged = 0 => jp2.broken = 0
             /\ jp2.broken = 0 => \E tail \in 0..1 : RowsTile(jp2.rows, 0, file.length - tail)
  BY <1>1, JpEnds, JpTiles
<1>2. ASSUME file.walk = "heif"
      PROVE  /\ damaged = 0 => heif.broken = 0
             /\ heif.broken = 0 =>
                  /\ RowsTile(heif.rows, 0, file.length)
                  /\ HoldersTile(ToSet(heif.rows), Boxes!Containers)
  BY <1>2, HeifEnds, HeifTiles
<1>3. ASSUME file.walk = "wide"
      PROVE  /\ damaged = 0 => wide.broken = 0
             /\ wide.broken = 0 => RowsTile(wide.rows, 0, file.length)
  BY <1>3, WideEnds, WideTiles
<1>4. ASSUME file.walk = "der"
      PROVE  /\ damaged = 0 => der.broken = 0
             /\ der.broken = 0 =>
                  /\ RowsTile(der.rows, 0, file.length)
                  /\ HoldersTile(ToSet(der.rows), Boxes!Constructed)
  BY <1>4, TlvEnds, TlvTiles
<1>5. ASSUME der.broken = 0, NEW row \in ToSet(der.rows), row.kind = "holder", row.depth = 0
      PROVE  /\ InFileOrder(Kids(row))
             /\ ToSet(Kids(row)) = Inside(ToSet(der.rows), Boxes!Constructed, row)
  BY <1>5, KidsFound DEF Boxes!Constructed
<1>6. ASSUME file.walk = "pgp"
      PROVE  /\ damaged = 0 => pgp.ends
             /\ pgp.ends /\ pgp.broken = 0 => RowsTile(pgp.rows, 0, file.length)
  BY <1>6, PacketsEnd, PacketsTile
<1>7. ASSUME file.walk = "emf"
      PROVE  /\ damaged = 0 => emf.broken = 0
             /\ emf.broken = 0 => RowsTile(emf.rows, 0, file.length)
  BY <1>7, EmfEnds, EmfTiles
<1> QED
  BY <1>1, <1>2, <1>3, <1>4, <1>5, <1>6, <1>7, Zenon DEF CleanWalksTile

(* In a file of pieces of any length, in each of the six formats: a walk   *)
(* that ends without a complaint has its rows in file order, and they tile *)
(* the file, as those inside a holder tile it where the walk goes into     *)
(* one; kids finds the objects that tlvs does; and what an encoder wrote   *)
(* is walked without a complaint.                                          *)
THEOREM CleanWalksAlwaysTile == Spec => []CleanWalksTile
<1>1. FilesStand => CleanWalksTile
  <2> SUFFICES ASSUME FilesStand PROVE CleanWalksTile
    OBVIOUS
  <2>1. CASE kind = "boxes"
    <3>1. BoxFileStands(file) /\ (damaged = 0 => LaidOut(file))
      BY <2>1 DEF FilesStand
    <3> QED
      BY <2>1, <3>1, BoxesAccounted
  <2>2. CASE kind # "boxes"
    BY <2>2, Zenon DEF CleanWalksTile
  <2> QED
    BY <2>1, <2>2
<1> QED
  BY <1>1, FilesAlwaysStand, PTL

(* The first number that stops a count, or the limit.                      *)
LEMMA UntilIs ==
    ASSUME NEW limit \in Nat, NEW Stop, NEW n, n = Compound!Until(Stop, limit)
    PROVE  n \in 0..limit /\ (n = limit \/ Stop[n]) /\ \A j \in 0..(n - 1) : ~Stop[j]
<1> DEFINE Ends == {k \in 0..limit : k = limit \/ Stop[k]}
<1>1. PICK k \in Ends : \A b \in Ends : k <= b
  <2>1. Ends \in SUBSET Nat /\ limit \in Ends
    OBVIOUS
  <2> HIDE DEF Ends
  <2> QED
    BY <2>1, LeastOf
<1>2. k \in 0..limit /\ (k = limit \/ Stop[k])
  OBVIOUS
<1>3. ASSUME NEW j \in 0..(k - 1)
      PROVE  ~Stop[j]
  <2>1. j \in 0..limit /\ ~(k <= j)
    BY <1>2
  <2> QED
    BY <1>1, <2>1
<1> QED
  BY <1>2, <1>3 DEF Compound!Until

(* A count whose every number before m goes on and that m stops, or that   *)
(* is limited to m, comes to m.                                            *)
LEMMA UntilComes ==
    ASSUME NEW limit \in Nat, NEW Stop, NEW m \in 0..limit, m = limit \/ Stop[m],
           \A j \in 0..(m - 1) : ~Stop[j]
    PROVE  Compound!Until(Stop, limit) = m
<1> DEFINE n == Compound!Until(Stop, limit)
<1>1. n \in 0..limit /\ (n = limit \/ Stop[n]) /\ \A j \in 0..(n - 1) : ~Stop[j]
  BY UntilIs
<1> HIDE DEF n
<1>2. ~(n < m)
  <2> SUFFICES ASSUME n < m PROVE FALSE
    OBVIOUS
  <2>1. n \in 0..(m - 1) /\ n # limit
    BY <1>1
  <2> QED
    BY <1>1, <2>1
<1>3. ~(m < n)
  <2> SUFFICES ASSUME m < n PROVE FALSE
    OBVIOUS
  <2>1. m \in 0..(n - 1) /\ m # limit
    BY <1>1
  <2> QED
    BY <1>1, <2>1
<1>4. n = m
  BY <1>1, <1>2, <1>3
<1> QED
  BY <1>4 DEF n

-----------------------------------------------------------------------------
(* Where a chain goes is a function.                                       *)
IsChained(next) == next \in [DOMAIN next -> Int] /\ DOMAIN next \subseteq Nat
OneHop(next, at) == IF at \in DOMAIN next THEN next[at] ELSE Compound!None

(* The hops of a chain: from its start, each to the word of the one        *)
(* before.                                                                 *)
LEMMA HopsAre ==
    ASSUME NEW next, IsChained(next), NEW start \in Int, NEW hop, hop = Compound!Hops(next, start)
    PROVE  /\ hop \in [Nat -> Int] /\ hop[0] = start
           /\ \A k \in Nat \ {0} : hop[k] = OneHop(next, hop[k - 1])
<1> DEFINE turn(f, k) == IF k = 0 THEN start
                         ELSE IF f[k - 1] \in DOMAIN next THEN next[f[k - 1]] ELSE Compound!None
           body(f) == [k \in Nat |-> turn(f, k)]
           m == [k \in Nat |-> k]
           step == [k \in Nat |-> [f \in [Nat -> Int] |-> turn(f, k)]]
<1>1. Compound!None \in Int
  BY DEF Compound!None
<1>2. \A f \in [Nat -> Int], k \in Nat : turn(f, k) \in Int
  <2> SUFFICES ASSUME NEW f \in [Nat -> Int], NEW k \in Nat PROVE turn(f, k) \in Int
    OBVIOUS
  <2>1. CASE k = 0
    BY <2>1
  <2>2. CASE k # 0
    <3>1. k - 1 \in Nat /\ f[k - 1] \in Int
      BY <2>2
    <3> QED
      BY <1>1, <2>2, <3>1 DEF IsChained
  <2> QED
    BY <2>1, <2>2
<1>3. Narrows(Nat, Int, m, step)
  <2> SUFFICES ASSUME NEW k \in Nat, NEW g \in [Nat -> Int], NEW h \in [Nat -> Int],
                      \A b \in Nat : m[b] < m[k] => g[b] = h[b]
               PROVE  step[k][g] = step[k][h]
    BY DEF Narrows
  <2>1. k # 0 => g[k - 1] = h[k - 1]
    <3> SUFFICES ASSUME k # 0 PROVE g[k - 1] = h[k - 1]
      OBVIOUS
    <3>1. k - 1 \in Nat /\ m[k - 1] < m[k]
      OBVIOUS
    <3> QED
      BY <3>1
  <2>2. turn(g, k) = turn(h, k)
    BY <2>1
  <2> HIDE DEF turn
  <2> QED
    BY <2>2
<1>4. m \in [Nat -> Nat] /\ step \in [Nat -> [[Nat -> Int] -> Int]]
  <2> HIDE DEF turn
  <2> QED
    BY <1>2
<1>5. \E f : Solves(Nat, Int, step, f)
  <2> HIDE DEF m, step
  <2>1. Recurs(Nat, Int, start, m, step)
    BY <1>3, <1>4 DEF Recurs
  <2> QED
    BY <2>1, Recursion
<1>6. PICK f : Solves(Nat, Int, step, f)
  BY <1>5
<1>7. f \in [Nat -> Int] /\ \A k \in Nat : f[k] = turn(f, k)
  <2> HIDE DEF turn
  <2> QED
    BY <1>6 DEF Solves
<1>8. f = body(f)
  <2> HIDE DEF turn
  <2> QED
    BY <1>7
<1>9. hop = CHOOSE g : g = body(g)
  BY DEF Compound!Hops
<1>10. hop = body(hop)
  <2> HIDE DEF body
  <2> QED
    BY <1>8, <1>9
<1>11. hop = [k \in Nat |-> hop[k]] /\ \A k \in Nat : hop[k] = turn(hop, k)
  <2> HIDE DEF turn
  <2> QED
    BY <1>10
<1>12. hop[0] = start
  BY <1>11
<1>13. \A k \in Nat \ {0} : hop[k] = OneHop(next, hop[k - 1])
  BY <1>11 DEF OneHop
<1>14. \A k \in Nat : hop[k] \in Int
  <2> SUFFICES ASSUME NEW k \in Nat PROVE hop[k] \in Int
    OBVIOUS
  <2>1. CASE k = 0
    BY <1>12, <2>1
  <2>2. CASE k # 0
    <3>1. OneHop(next, hop[k - 1]) \in Int
      BY <1>1 DEF OneHop, IsChained
    <3> QED
      BY <1>13, <2>2, <3>1
  <2> QED
    BY <2>1, <2>2
<1> QED
  BY <1>11, <1>12, <1>13, <1>14
-----------------------------------------------------------------------------
(* A chain goes along the path it leads along.                             *)
Behind(next, start, path, i) == IF i = 0 THEN start ELSE next[path[i]]

(* What it says that a table leads along a path: the path repeats nothing, *)
(* each sector of it is named by the one before, and the last names an     *)
(* end.                                                                    *)
LEMMA LeadsIs ==
    ASSUME NEW next, NEW start, NEW path, Leads(next, start, path)
    PROVE  /\ path \in Seq(DOMAIN next)
           /\ \A i, j \in DOMAIN path : path[i] = path[j] => i = j
           /\ \A i \in 1..Len(path) : path[i] = Behind(next, start, path, i - 1)
           /\ Behind(next, start, path, Len(path)) \in Compound!Finished
BY DEF Leads, Behind, IsInjective

(* Along such a path the hops go, and then to an end.                      *)
LEMMA HopsLead ==
    ASSUME NEW next, IsChained(next), NEW start \in Int, NEW path, Leads(next, start, path),
           NEW hop, hop = Compound!Hops(next, start)
    PROVE  /\ \A k \in 0..(Len(path) - 1) : hop[k] = path[k + 1] /\ hop[k] \in DOMAIN next
                                            /\ next[hop[k]] # Compound!None
           /\ hop[Len(path)] \in Compound!Finished
<1> DEFINE n == Len(path)
           Coming(i) == Behind(next, start, path, i)
           Good == {k \in 0..n : hop[k] = Coming(k)}
<1>1. /\ path \in Seq(DOMAIN next) /\ n \in Nat
      /\ \A i \in 1..n : path[i] = Coming(i - 1) /\ path[i] \in DOMAIN next
      /\ Coming(n) \in Compound!Finished
  BY LeadsIs
<1>2. hop[0] = start /\ \A k \in Nat \ {0} : hop[k] = OneHop(next, hop[k - 1])
  BY HopsAre
<1>3. 0 \in Good
  BY <1>1, <1>2 DEF Behind
<1>4. ASSUME NEW k \in 1..n, k - 1 \in Good
      PROVE  k \in Good
  <2>1. hop[k - 1] = path[k] /\ path[k] \in DOMAIN next
    BY <1>1, <1>4
  <2>2. k \in Nat \ {0} /\ k \in 0..n
    BY <1>1
  <2>3. hop[k] = next[path[k]]
    BY <1>2, <2>1, <2>2 DEF OneHop
  <2>4. Coming(k) = next[path[k]]
    BY <2>2 DEF Behind
  <2> QED
    BY <2>2, <2>3, <2>4
<1>5. \A k \in 0..n : hop[k] = Coming(k)
  <2>1. \A k \in 0..n : k \in Good
    <3> HIDE DEF Good
    <3> QED
      BY <1>1, <1>3, <1>4, Upward
  <2> QED
    BY <2>1
<1>6. hop[n] \in Compound!Finished
  <2>1. n \in 0..n
    BY <1>1
  <2> QED
    BY <1>1, <1>5, <2>1
<1>7. ASSUME NEW k \in 0..(n - 1)
      PROVE  hop[k] = path[k + 1] /\ hop[k] \in DOMAIN next /\ next[hop[k]] # Compound!None
  <2>1. k \in 0..n /\ k + 1 \in 1..n /\ (k + 1) - 1 = k /\ k + 1 # 0 /\ k + 1 \in 0..n
    BY <1>1
  <2>2. path[k + 1] = Coming(k) /\ path[k + 1] \in DOMAIN next
    BY <1>1, <2>1
  <2>3. hop[k] = path[k + 1]
    BY <1>5, <2>1, <2>2
  <2>4. Coming(k + 1) = next[path[k + 1]]
    BY <2>1 DEF Behind
  <2>5. Coming(k + 1) # Compound!None
    <3>1. CASE k + 1 = n
      BY <1>1, <3>1 DEF Compound!None, Compound!Finished, Compound!End, Compound!Free
    <3>2. CASE k + 1 # n
      <4>1. (k + 1) + 1 \in 1..n /\ ((k + 1) + 1) - 1 = k + 1
        BY <1>1, <2>1, <3>2
      <4>2. Coming(k + 1) \in DOMAIN next
        BY <1>1, <4>1
      <4> QED
        BY <4>2 DEF Compound!None, IsChained
    <3> QED
      BY <3>1, <3>2
  <2> QED
    BY <2>2, <2>3, <2>4, <2>5
<1> QED
  BY <1>6, <1>7

(* What chain makes of a chain that leads along a path, and what olefile   *)
(* does.                                                                   *)
LEMMA FinishedIsNowhere ==
    ASSUME NEW next, IsChained(next), NEW at \in Compound!Finished
    PROVE  at \notin DOMAIN next
BY DEF IsChained, Compound!Finished, Compound!End, Compound!Free

(* chain reads the whole of such a path, and stops because it ended.       *)
LEMMA ChainLeads ==
    ASSUME NEW table, IsChained(table), NEW start \in Int, NEW path, Leads(table, start, path),
           NEW limit \in Nat, Len(path) <= limit
    PROVE  Compound!Chain(table, start, limit) = [sectors |-> path, why |-> "end"]
<1> DEFINE hop == Compound!Hops(table, start)
           Stop == [k \in 0..limit |-> \/ hop[k] \notin DOMAIN table \/ table[hop[k]] = Compound!None
                                       \/ \E j \in 0..(k - 1) : hop[j] = hop[k]]
           n == Compound!Until(Stop, limit)
           m == Len(path)
<1>1. /\ \A k \in 0..(m - 1) : hop[k] = path[k + 1] /\ hop[k] \in DOMAIN table
                               /\ table[hop[k]] # Compound!None
      /\ hop[m] \in Compound!Finished
  BY HopsLead
<1>2. path \in Seq(DOMAIN table) /\ \A i, j \in DOMAIN path : path[i] = path[j] => i = j
  BY LeadsIs
<1>3. /\ Compound!Chain(table, start, limit).sectors = [k \in 1..n |-> hop[k - 1]]
      /\ hop[n] \in Compound!Finished => Compound!Chain(table, start, limit).why = "end"
      /\ Compound!Chain(table, start, limit) =
           [sectors |-> Compound!Chain(table, start, limit).sectors,
            why |-> Compound!Chain(table, start, limit).why]
  BY DEF Compound!Chain
<1> HIDE DEF hop
<1>4. m \in Nat /\ m \in 0..limit /\ DOMAIN path = 1..m
  BY <1>2
<1>5. m = limit \/ Stop[m]
  <2>1. hop[m] \notin DOMAIN table
    BY <1>1, FinishedIsNowhere
  <2> QED
    BY <1>4, <2>1
<1>6. ASSUME NEW k \in 0..(m - 1)
      PROVE  ~Stop[k]
  <2>1. k \in 0..limit /\ k + 1 \in DOMAIN path
    BY <1>4
  <2>2. hop[k] \in DOMAIN table /\ table[hop[k]] # Compound!None
    BY <1>1
  <2>3. ASSUME NEW j \in 0..(k - 1)
        PROVE  hop[j] # hop[k]
    <3>1. j \in 0..(m - 1) /\ j + 1 \in DOMAIN path /\ j + 1 # k + 1
      BY <1>4
    <3>2. hop[j] = path[j + 1] /\ hop[k] = path[k + 1]
      BY <1>1, <3>1
    <3> QED
      BY <1>2, <2>1, <3>1, <3>2
  <2> QED
    BY <2>1, <2>2, <2>3
<1>7. n = m
  <2> HIDE DEF Stop, m
  <2> QED
    BY <1>4, <1>5, <1>6, UntilComes
<1> HIDE DEF n
<1>8. [k \in 1..n |-> hop[k - 1]] = path
  <2>1. \A k \in 1..m : hop[k - 1] = path[k]
    <3> SUFFICES ASSUME NEW k \in 1..m PROVE hop[k - 1] = path[k]
      OBVIOUS
    <3>1. k - 1 \in 0..(m - 1) /\ (k - 1) + 1 = k
      BY <1>4
    <3>2. hop[k - 1] = path[(k - 1) + 1]
      BY <1>1, <3>1
    <3> QED
      BY <3>1, <3>2
  <2>2. path = [k \in 1..m |-> path[k]]
    BY <1>2, <1>4
  <2> HIDE DEF m
  <2> QED
    BY <1>7, <2>1, <2>2
<1> QED
  BY <1>1, <1>3, <1>7, <1>8

(* olefile finds on such a path as many sectors as it needs, if the path   *)
(* has them.                                                               *)
LEMMA OleLeads ==
    ASSUME NEW table, IsChained(table), NEW start \in Int, NEW path, Leads(table, start, path),
           NEW needed \in Nat, needed <= Len(path)
    PROVE  Len(Compound!OleSectors(table, start, needed)) = needed
<1> DEFINE hop == Compound!Hops(table, start)
           Stop == [k \in 0..needed |-> hop[k] \notin DOMAIN table]
           n == Compound!Until(Stop, needed)
           m == Len(path)
<1>1. \A k \in 0..(m - 1) : hop[k] \in DOMAIN table
  BY HopsLead
<1>2. m \in Nat
  BY LeadsIs
<1>3. Compound!OleSectors(table, start, needed) = [k \in 1..n |-> hop[k - 1]]
  BY DEF Compound!OleSectors
<1> HIDE DEF hop
<1>4. ASSUME NEW k \in 0..(needed - 1)
      PROVE  ~Stop[k]
  <2>1. k \in 0..needed /\ k \in 0..(m - 1)
    BY <1>2
  <2> QED
    BY <1>1, <2>1
<1>5. needed \in 0..needed
  OBVIOUS
<1>6. n = needed
  <2> HIDE DEF Stop
  <2> QED
    BY <1>4, <1>5, UntilComes
<1> HIDE DEF n
<1>7. Len([k \in 1..n |-> hop[k - 1]]) = n
  BY <1>6
<1> QED
  BY <1>3, <1>6, <1>7

(* The hops before the end of such a path are the path.                    *)
LEMMA HopsRead ==
    ASSUME NEW next, IsChained(next), NEW start \in Int, NEW path, Leads(next, start, path),
           NEW hop, hop = Compound!Hops(next, start)
    PROVE  [k \in 1..Len(path) |-> hop[k - 1]] = path
<1> DEFINE m == Len(path)
<1>1. \A k \in 0..(m - 1) : hop[k] = path[k + 1]
  BY HopsLead
<1>2. path \in Seq(DOMAIN next) /\ m \in Nat
  BY LeadsIs
<1>3. \A k \in 1..m : hop[k - 1] = path[k]
  <2> SUFFICES ASSUME NEW k \in 1..m PROVE hop[k - 1] = path[k]
    OBVIOUS
  <2>1. k - 1 \in 0..(m - 1) /\ (k - 1) + 1 = k
    BY <1>2
  <2>2. hop[k - 1] = path[(k - 1) + 1]
    BY <1>1, <2>1
  <2> QED
    BY <2>1, <2>2
<1>4. path = [k \in 1..m |-> path[k]]
  BY <1>2
<1> HIDE DEF m
<1>5. [k \in 1..m |-> hop[k - 1]] = path
  BY <1>3, <1>4
<1> QED
  BY <1>5 DEF m

-----------------------------------------------------------------------------
(* What a compound file's tables are.                                      *)
LEMMA PagesAre ==
    ASSUME NEW one, CompoundFileStands(one), NEW s \in DOMAIN one.pages, NEW i \in 1..4
    PROVE  Compound!Page(one, s)[i] \in Int /\ s \in Nat
BY DEF CompoundFileStands, Compound!Page, Compound!PerSector

(* Every table of words leads from sector numbers to sector numbers.       *)
LEMMA TableChained ==
    ASSUME NEW one, CompoundFileStands(one), NEW parts \in Seq(Int)
    PROVE  IsChained(Compound!Table(one, parts))
<1> DEFINE top == Len(parts) * Compound!PerSector + 3
           word(s) == LET p == (s \div Compound!PerSector) + 1
                      IN  IF p <= Len(parts) /\ parts[p] \in DOMAIN one.pages
                          THEN Compound!Page(one, parts[p])[(s % Compound!PerSector) + 1]
                          ELSE Compound!None
           table == Compound!Table(one, parts)
<1>1. Compound!PerSector = 4 /\ Compound!None \in Int
  BY DEF Compound!PerSector, Compound!None
<1>2. table = [s \in 0..top |-> word(s)]
  BY DEF Compound!Table
<1>3. \A s \in 0..top : word(s) \in Int
  <2> SUFFICES ASSUME NEW s \in 0..top PROVE word(s) \in Int
    OBVIOUS
  <2>1. s \in Nat
    OBVIOUS
  <2>2. (s % Compound!PerSector) + 1 \in 1..4
    BY <1>1, <2>1
  <2>3. \A t \in DOMAIN one.pages : Compound!Page(one, t)[(s % Compound!PerSector) + 1] \in Int
    BY <2>2, PagesAre
  <2> QED
    BY <1>1, <2>3
<1>4. 0..top \subseteq Nat
  OBVIOUS
<1> HIDE DEF word, top, table
<1>5. table \in [DOMAIN table -> Int] /\ DOMAIN table \subseteq Nat
  BY <1>2, <1>3, <1>4
<1> QED
  BY <1>5 DEF IsChained, table

(* So do the last words of the sectors that hold slots.                    *)
LEMMA SlotsChained ==
    ASSUME NEW one, CompoundFileStands(one)
    PROVE  IsChained(Compound!NextSlots(one)) /\ DOMAIN Compound!NextSlots(one) = DOMAIN one.pages
<1> DEFINE next == Compound!NextSlots(one)
<1>1. Compound!PerSector = 4
  BY DEF Compound!PerSector
<1>2. next = [s \in DOMAIN one.pages |-> Compound!Page(one, s)[4]]
  BY <1>1 DEF Compound!NextSlots
<1>3. ASSUME NEW s \in DOMAIN one.pages
      PROVE  Compound!Page(one, s)[4] \in Int /\ s \in Nat
  <2>1. 4 \in 1..4
    OBVIOUS
  <2> QED
    BY <2>1, PagesAre
<1> HIDE DEF next
<1>4. next \in [DOMAIN next -> Int] /\ DOMAIN next \subseteq Nat /\ DOMAIN next = DOMAIN one.pages
  BY <1>2, <1>3
<1> QED
  BY <1>4 DEF IsChained, next

(* The slots in such sectors are sector numbers.                           *)
LEMMA SlotsInAre ==
    ASSUME NEW one, CompoundFileStands(one), NEW sectors \in Seq(DOMAIN one.pages)
    PROVE  Compound!SlotsIn(one, sectors) \in Seq(Int)
<1> DEFINE m == Len(sectors)
           slot(i) == Compound!Page(one, sectors[((i - 1) \div 3) + 1])[((i - 1) % 3) + 1]
<1>1. Compound!PerSector - 1 = 3
  BY DEF Compound!PerSector
<1>2. Compound!SlotsIn(one, sectors) = [i \in 1..(m * 3) |-> slot(i)]
  BY <1>1 DEF Compound!SlotsIn
<1>3. m \in Nat /\ m * 3 \in Nat
  OBVIOUS
<1>4. \A i \in 1..(m * 3) : slot(i) \in Int
  <2> SUFFICES ASSUME NEW i \in 1..(m * 3) PROVE slot(i) \in Int
    OBVIOUS
  <2>1. i - 1 \in Nat /\ i - 1 < m * 3
    BY <1>3
  <2>2. ((i - 1) \div 3) + 1 \in 1..m /\ ((i - 1) % 3) + 1 \in 1..4
    BY <1>3, <2>1
  <2>3. sectors[((i - 1) \div 3) + 1] \in DOMAIN one.pages
    BY <2>2
  <2> QED
    BY <2>2, <2>3, PagesAre
<1> HIDE DEF m, slot
<1> QED
  BY <1>2, <1>3, <1>4

(* So are those that are not free.                                         *)
LEMMA UsedIs ==
    ASSUME NEW slots \in Seq(Int)
    PROVE  Compound!Used(slots) \in Seq(Int)
<1> DEFINE I == {i \in DOMAIN slots : slots[i] # Compound!Free}
           n == Len(slots)
           order == Compound!InOrder(I, n)
<1>1. n \in Nat /\ I \subseteq 1..n
  OBVIOUS
<1>2. Compound!Used(slots) = [k \in DOMAIN order |-> slots[order[k]]]
  BY DEF Compound!Used, Compound!Those
<1>3. order = Elf!InOrder(I, n)
  BY DEF Compound!InOrder, Elf!InOrder
<1> HIDE DEF order, I
<1>4. order \in Seq(I)
  <2> HIDE DEF n
  <2> QED
    BY <1>1, <1>3, InOrderIs
<1>5. \A k \in DOMAIN order : order[k] \in 1..n /\ slots[order[k]] \in Int
  <2>1. \A k \in DOMAIN order : order[k] \in I
    BY <1>4
  <2>2. \A i \in 1..n : slots[i] \in Int
    OBVIOUS
  <2> QED
    BY <1>1, <2>1, <2>2
<1>6. Len(order) \in Nat /\ DOMAIN order = 1..Len(order)
  BY <1>4
<1> QED
  BY <1>2, <1>5, <1>6
-----------------------------------------------------------------------------
(* The numbers of members that the model of compound files counts are the  *)
(* library's.                                                              *)
LEMMA Counting == \A S : Compound!Cardinality(S) = Cardinality(S)
BY DEF Compound!Cardinality, Cardinality, Compound!IsFiniteSet, IsFiniteSet

(* read_fat on a file as it was saved: the table's sectors, nothing broken. *)
LEMMA SavedParts ==
    ASSUME NEW one, CompoundFileStands(one), Saved(one)
    PROVE  /\ one.parts.slots \in Seq(DOMAIN one.pages) /\ one.parts.fat \in Seq(Int)
           /\ one.parts.minifat \in Seq(Int)
           /\ IsChained(Compound!Table(one, one.parts.fat))
           /\ IsChained(Compound!Table(one, one.parts.minifat))
<1> DEFINE parts == one.parts
           fat == Compound!Table(one, parts.fat)
<1>1. /\ Leads(Compound!NextSlots(one), one.difat, parts.slots)
      /\ parts.fat = Compound!Used(one.slots \o Compound!SlotsIn(one, parts.slots))
      /\ Leads(fat, one.mini, parts.minifat)
  BY DEF Saved
<1> HIDE DEF parts
<1>2. parts.slots \in Seq(DOMAIN one.pages)
  BY <1>1, LeadsIs, SlotsChained
<1>3. Compound!SlotsIn(one, parts.slots) \in Seq(Int) /\ one.slots \in Seq(Int)
  BY <1>2, SlotsInAre DEF CompoundFileStands
<1>4. one.slots \o Compound!SlotsIn(one, parts.slots) \in Seq(Int)
  BY <1>3
<1>5. parts.fat \in Seq(Int)
  BY <1>1, <1>4, UsedIs
<1>6. IsChained(fat)
  BY <1>5, TableChained
<1> HIDE DEF fat
<1>7. parts.minifat \in Seq(DOMAIN fat) /\ DOMAIN fat \subseteq Int
  BY <1>1, <1>6, LeadsIs DEF IsChained
<1>8. parts.minifat \in Seq(Int)
  BY <1>7
<1>9. IsChained(Compound!Table(one, parts.minifat))
  BY <1>8, TableChained
<1> QED
  BY <1>2, <1>5, <1>6, <1>8, <1>9 DEF parts, fat

(* read_fat finds the table an application saved, with nothing broken.     *)
LEMMA FatSaved ==
    ASSUME NEW one, CompoundFileStands(one), Saved(one)
    PROVE  Compound!ReadFat(one) = [table |-> Compound!Table(one, one.parts.fat), broken |-> 0]
<1> DEFINE next == Compound!NextSlots(one)
           path == one.parts.slots
           hop == Compound!Hops(next, one.difat)
           Stop == [k \in 0..Compound!MaxHops |-> hop[k] \notin DOMAIN one.pages]
           n == Compound!Until(Stop, Compound!MaxHops)
           m == Len(path)
           fat == one.parts.fat
           Past(u) == {i \in DOMAIN u : u[i] \notin DOMAIN one.pages}
           used == Compound!Used(one.slots \o Compound!Slots(one).slots)
<1>1. /\ Leads(next, one.difat, path) /\ m <= Compound!MaxHops
      /\ fat = Compound!Used(one.slots \o Compound!SlotsIn(one, path))
      /\ \A i \in DOMAIN fat : fat[i] \in DOMAIN one.pages
  BY DEF Saved, ToSet
<1>2. IsChained(next) /\ DOMAIN next = DOMAIN one.pages /\ one.difat \in Int
  BY SlotsChained DEF CompoundFileStands
<1>3. /\ Compound!Slots(one).slots = Compound!SlotsIn(one, [k \in 1..n |-> hop[k - 1]])
      /\ hop[n] \in Compound!Finished => Compound!Slots(one).broken = 0
  BY DEF Compound!Slots
<1>4. m \in Nat
  BY <1>1, LeadsIs
<1> HIDE DEF next, path
<1>5. /\ \A k \in 0..(m - 1) : hop[k] \in DOMAIN next
      /\ hop[m] \in Compound!Finished
      /\ [k \in 1..m |-> hop[k - 1]] = path
  BY <1>1, <1>2, HopsLead, HopsRead
<1> HIDE DEF hop
<1>6. Compound!MaxHops = 3
  BY DEF Compound!MaxHops
<1>7. m \in 0..Compound!MaxHops /\ \A k \in 0..(m - 1) : k \in 0..Compound!MaxHops
  <2>1. m <= 3
    BY <1>1, <1>6
  <2> HIDE DEF m
  <2> QED
    BY <1>4, <1>6, <2>1
<1>8. Stop[m]
  <2>1. hop[m] \notin DOMAIN next
    BY <1>2, <1>5, FinishedIsNowhere
  <2> QED
    BY <1>2, <1>7, <2>1
<1>9. \A k \in 0..(m - 1) : ~Stop[k]
  BY <1>2, <1>5, <1>7
<1>10. n = m
  <2> HIDE DEF Stop, m
  <2>1. Compound!MaxHops \in Nat
    BY <1>6
  <2> QED
    BY <1>7, <1>8, <1>9, <2>1, UntilComes
<1> HIDE DEF n
<1>11. Compound!Slots(one).slots = Compound!SlotsIn(one, path) /\ Compound!Slots(one).broken = 0
  BY <1>3, <1>5, <1>10
<1>12. used = fat
  BY <1>1, <1>11
<1>13. Past(fat) = {}
  BY <1>1
<1>14. Compound!ReadFat(one) = [table |-> Compound!Table(one, used),
                                broken |-> Compound!Slots(one).broken + Cardinality(Past(used))]
  BY Zenon, Counting DEF Compound!ReadFat
<1> HIDE DEF Past, used, fat
<1>15. Cardinality(Past(used)) = 0
  BY <1>12, <1>13, FS_EmptySet
<1>16. Compound!ReadFat(one) = [table |-> Compound!Table(one, fat), broken |-> 0]
  BY <1>11, <1>12, <1>14, <1>15
<1> QED
  BY <1>16 DEF fat

(* So does the reading of the small sectors' table.                        *)
LEMMA MiniSaved ==
    ASSUME NEW one, CompoundFileStands(one), Saved(one)
    PROVE  Compound!MiniTable(one, Compound!Table(one, one.parts.fat))
             = [table |-> Compound!Table(one, one.parts.minifat), broken |-> 0, raised |-> FALSE]
<1> DEFINE fat == Compound!Table(one, one.parts.fat)
           path == one.parts.minifat
           read == Compound!Chain(fat, one.mini, 4096)
<1>1. /\ Leads(fat, one.mini, path) /\ Len(path) <= 4096
      /\ \A i \in DOMAIN path : path[i] \in DOMAIN one.pages
  BY DEF Saved, ToSet
<1>2. IsChained(fat) /\ one.mini \in Int
  BY SavedParts DEF CompoundFileStands
<1> HIDE DEF fat, path
<1>3. read = [sectors |-> path, why |-> "end"]
  BY <1>1, <1>2, ChainLeads
<1>4. CASE one.mini \in Compound!Finished
  <2>1. path = <<>>
    <3>1. /\ path \in Seq(DOMAIN fat)
          /\ \A i \in 1..Len(path) : path[i] = Behind(fat, one.mini, path, i - 1)
      BY <1>1, LeadsIs
    <3>2. Len(path) \in Nat /\ (Len(path) # 0 => path[1] = one.mini /\ path[1] \in DOMAIN fat)
      BY <3>1 DEF Behind
    <3>3. Len(path) = 0
      BY <1>2, <1>4, <3>2, FinishedIsNowhere
    <3> QED
      BY <3>1, <3>3
  <2> QED
    BY <1>4, <2>1 DEF Compound!MiniTable, fat, path
<1>5. CASE one.mini \notin Compound!Finished
  <2>1. read.sectors = path /\ read.why = "end"
    BY <1>3
  <2>2. \A i \in DOMAIN read.sectors : read.sectors[i] \in DOMAIN one.pages
    BY <1>1, <2>1
  <2> HIDE DEF read
  <2>3. Compound!MiniTable(one, fat)
          = [table |-> Compound!Table(one, read.sectors), broken |-> 0, raised |-> FALSE]
    BY <1>5, <2>1, <2>2 DEF Compound!MiniTable, read
  <2> QED
    BY <2>1, <2>3 DEF fat, path
<1> QED
  BY <1>4, <1>5

-----------------------------------------------------------------------------
(* A sector is claimed twice or the claims are as many as the sectors.     *)
LEMMA CollisionsAre ==
    ASSUME NEW rows, IsFiniteSet(DOMAIN rows), NEW limit \in Nat,
           \A at \in DOMAIN rows : DOMAIN rows[at].sectors \subseteq 1..limit
    PROVE  /\ Compound!Collisions(rows) \in Nat
           /\ Compound!Collisions(rows) = 0 <=>
                \A c, d \in Compound!Claims(rows) :
                    Compound!Claimed(rows, c) = Compound!Claimed(rows, d) => c = d
<1> DEFINE S == Compound!Claims(rows)
           T == {Compound!Claimed(rows, c) : c \in S}
           f == [c \in S |-> Compound!Claimed(rows, c)]
<1>1. S \subseteq (DOMAIN rows) \X (1..limit)
  <2> SUFFICES ASSUME NEW c \in S PROVE c \in (DOMAIN rows) \X (1..limit)
    OBVIOUS
  <2>1. PICK at \in DOMAIN rows : c \in {<<at, k>> : k \in DOMAIN rows[at].sectors}
    BY DEF Compound!Claims
  <2>2. PICK k \in DOMAIN rows[at].sectors : c = <<at, k>>
    BY <2>1
  <2>3. k \in 1..limit
    OBVIOUS
  <2> QED
    BY <2>2, <2>3
<1>2. IsFiniteSet((DOMAIN rows) \X (1..limit))
  <2>1. IsFiniteSet(1..limit)
    BY FS_Interval
  <2> QED
    BY <2>1, FS_Product
<1>3. IsFiniteSet(S)
  <2>1. S \in SUBSET ((DOMAIN rows) \X (1..limit))
    BY <1>1
  <2> HIDE DEF S
  <2> QED
    BY <1>2, <2>1, FS_Subset
<1> HIDE DEF S
<1>4. f \in Surjection(S, T)
  BY DEF Surjection
<1>5. /\ IsFiniteSet(T) /\ Cardinality(T) <= Cardinality(S)
      /\ Cardinality(T) = Cardinality(S) <=> f \in Injection(S, T)
  <2> HIDE DEF f, T
  <2> QED
    BY <1>3, <1>4, FS_Surjection
<1>6. f \in Injection(S, T) <=> \A c, d \in S : f[c] = f[d] => c = d
  <2>1. f \in [S -> T]
    OBVIOUS
  <2> HIDE DEF f, T
  <2> QED
    BY <2>1 DEF Injection, IsInjective
<1>7. \A c \in S : f[c] = Compound!Claimed(rows, c)
  OBVIOUS
<1>8. Cardinality(S) \in Nat /\ Cardinality(T) \in Nat
  <2> HIDE DEF T
  <2> QED
    BY <1>3, <1>5, FS_CardinalityType
<1>9. Compound!Collisions(rows) = Cardinality(S) - Cardinality(T)
  BY Zenon, Counting DEF Compound!Collisions, S, T
<1> HIDE DEF f, T
<1> QED
  BY <1>5, <1>6, <1>7, <1>8, <1>9 DEF S

-----------------------------------------------------------------------------
(* What any compound file's walk counts, and the entries it has rows of.   *)
LEMMA ChainHas ==
    ASSUME NEW table, NEW start, NEW limit \in Nat, NEW read,
           read = Compound!Chain(table, start, limit)
    PROVE  \E n \in 0..limit :
              /\ read.sectors = [k \in 1..n |-> Compound!Hops(table, start)[k - 1]]
              /\ read.why = "end" => Compound!Hops(table, start)[n] \in Compound!Finished
<1> DEFINE hop == Compound!Hops(table, start)
           Stop == [k \in 0..limit |-> \/ hop[k] \notin DOMAIN table \/ table[hop[k]] = Compound!None
                                       \/ \E j \in 0..(k - 1) : hop[j] = hop[k]]
           n == Compound!Until(Stop, limit)
<1>1. /\ read.sectors = [k \in 1..n |-> hop[k - 1]]
      /\ read.why = "end" => hop[n] \in Compound!Finished
  BY DEF Compound!Chain
<1>2. n \in 0..limit
  <2> HIDE DEF Stop
  <2> QED
    BY UntilIs
<1> HIDE DEF n
<1> QED
  BY <1>1, <1>2

(* What read_fat finds broken is counted.                                  *)
LEMMA FatCounts ==
    ASSUME NEW one, CompoundFileStands(one)
    PROVE  Compound!ReadFat(one).broken \in Nat
<1> DEFINE next == Compound!NextSlots(one)
           hop == Compound!Hops(next, one.difat)
           Stop == [k \in 0..Compound!MaxHops |-> hop[k] \notin DOMAIN one.pages]
           n == Compound!Until(Stop, Compound!MaxHops)
           sectors == [k \in 1..n |-> hop[k - 1]]
           Past(u) == {i \in DOMAIN u : u[i] \notin DOMAIN one.pages}
           used == Compound!Used(one.slots \o Compound!Slots(one).slots)
<1>1. /\ Compound!Slots(one).slots = Compound!SlotsIn(one, sectors)
      /\ Compound!Slots(one).broken \in Nat
  BY DEF Compound!Slots
<1>2. Compound!MaxHops \in Nat
  BY DEF Compound!MaxHops
<1>3. n \in 0..Compound!MaxHops /\ \A k \in 0..(n - 1) : ~Stop[k]
  <2> HIDE DEF Stop
  <2> QED
    BY <1>2, UntilIs
<1> HIDE DEF n, hop
<1>4. sectors \in Seq(DOMAIN one.pages)
  <2>1. n \in Nat
    BY <1>2, <1>3
  <2>2. \A k \in 1..n : hop[k - 1] \in DOMAIN one.pages
    <3> SUFFICES ASSUME NEW k \in 1..n PROVE hop[k - 1] \in DOMAIN one.pages
      OBVIOUS
    <3>1. k - 1 \in 0..(n - 1) /\ k - 1 \in 0..Compound!MaxHops
      BY <1>2, <1>3
    <3> QED
      BY <1>3, <3>1
  <2> QED
    BY <2>1, <2>2
<1> HIDE DEF sectors
<1>5. one.slots \in Seq(Int) /\ Compound!Slots(one).slots \in Seq(Int)
  BY <1>1, <1>4, SlotsInAre DEF CompoundFileStands
<1>6. used \in Seq(Int)
  <2>1. one.slots \o Compound!Slots(one).slots \in Seq(Int)
    BY <1>5
  <2> QED
    BY <2>1, UsedIs
<1>7. Compound!ReadFat(one).broken = Compound!Slots(one).broken + Cardinality(Past(used))
  BY Zenon, Counting DEF Compound!ReadFat
<1> HIDE DEF used
<1>8. Cardinality(Past(used)) \in Nat
  <2>1. Past(used) \in SUBSET (1..Len(used)) /\ Len(used) \in Int
    BY <1>6
  <2>2. IsFiniteSet(1..Len(used))
    BY <2>1, FS_Interval
  <2> HIDE DEF Past
  <2>3. IsFiniteSet(Past(used))
    BY <2>1, <2>2, FS_Subset
  <2> QED
    BY <2>3, FS_CardinalityType
<1> QED
  BY <1>1, <1>7, <1>8

(* The entries that hold bytes are finitely many, and the streams are      *)
(* among them.                                                             *)
LEMMA HeldAre ==
    ASSUME NEW one, CompoundFileStands(one)
    PROVE  /\ IsFiniteSet(Compound!HeldEntries(one)) /\ IsFiniteSet(DOMAIN one.entries)
           /\ Compound!Streams(one) \subseteq Compound!HeldEntries(one)
           /\ \A at \in Compound!HeldEntries(one) :
                 Compound!EntryAt(one, at) \in DirectoryEntries
           /\ \A at \in Compound!Streams(one) :
                 Compound!EntryAt(one, at) = one.entries[at]
<1> DEFINE n == Len(one.entries)
<1>1. /\ one.entries \in Seq(DirectoryEntries) /\ one.root \in DirectoryEntries
      /\ n \in Nat /\ DOMAIN one.entries = 1..n
  BY DEF CompoundFileStands
<1>2. Compound!HeldEntries(one) \in SUBSET (0..n)
  BY <1>1 DEF Compound!HeldEntries, Compound!Streams
<1>3. Compound!Streams(one) \subseteq 1..n
  BY <1>1 DEF Compound!Streams
<1>4. IsFiniteSet(0..n) /\ IsFiniteSet(1..n)
  BY <1>1, FS_Interval
<1>5. IsFiniteSet(Compound!HeldEntries(one)) /\ IsFiniteSet(DOMAIN one.entries)
  BY <1>1, <1>2, <1>4, FS_Subset
<1>6. Compound!Streams(one) \subseteq Compound!HeldEntries(one)
  BY DEF Compound!HeldEntries
<1>7. ASSUME NEW at \in 0..n
      PROVE  /\ Compound!EntryAt(one, at) \in DirectoryEntries
             /\ at # 0 => Compound!EntryAt(one, at) = one.entries[at]
  BY <1>1 DEF Compound!EntryAt
<1>8. \A at \in Compound!HeldEntries(one) : Compound!EntryAt(one, at) \in DirectoryEntries
  BY <1>2, <1>7
<1>9. \A at \in Compound!Streams(one) : Compound!EntryAt(one, at) = one.entries[at]
  BY <1>1, <1>3, <1>7
<1> QED
  BY <1>5, <1>6, <1>8, <1>9

(* What walk makes of the tables, and its rows; what it counts, by name.   *)
FatOf(one) == Compound!ReadFat(one).table
MiniOf(one) == Compound!MiniTable(one, FatOf(one))
RowsOf(one) ==
    [at \in Compound!HeldEntries(one) |->
        Compound!EntryRow(one, FatOf(one), MiniOf(one).table, Compound!EntryAt(one, at))]
Unended(rows) == {at \in DOMAIN rows : rows[at].why # "end"}
Unknown(one) == {at \in DOMAIN one.entries :
                    one.entries[at].type \notin {"stream", "storage", "free"}}
Undirected(one) ==
    IF Compound!Chain(FatOf(one), one.directory, 4096).why = "end" THEN 0 ELSE 1

(* The six things that walk counts as broken.                              *)
LEMMA WalkIs ==
    ASSUME NEW one
    PROVE  /\ Compound!Walk(one).rows = RowsOf(one)
           /\ Compound!Walk(one).raised = MiniOf(one).raised
           /\ Compound!Walk(one).broken =
                Compound!ReadFat(one).broken + Undirected(one) + MiniOf(one).broken
                + Cardinality(Unended(RowsOf(one))) + Cardinality(Unknown(one))
                + Compound!Collisions(RowsOf(one))
<1> DEFINE fat == Compound!ReadFat(one)
           directory == Compound!Chain(fat.table, one.directory, 4096)
           mini == Compound!MiniTable(one, fat.table)
           rows == [at \in Compound!HeldEntries(one) |->
                       Compound!EntryRow(one, fat.table, mini.table, Compound!EntryAt(one, at))]
<1>1. Compound!Walk(one) =
        [rows |-> rows, raised |-> mini.raised,
         broken |-> fat.broken + (IF directory.why = "end" THEN 0 ELSE 1) + mini.broken
                    + Compound!Cardinality({at \in DOMAIN rows : rows[at].why # "end"})
                    + Compound!Cardinality({at \in DOMAIN one.entries :
                          one.entries[at].type \notin {"stream", "storage", "free"}})
                    + Compound!Collisions(rows)]
  BY Zenon DEF Compound!Walk
<1>2. RowsOf(one) = rows /\ MiniOf(one) = mini
  BY Zenon DEF RowsOf, MiniOf, FatOf
<1>3. Unended(RowsOf(one)) = {at \in DOMAIN rows : rows[at].why # "end"}
  <2> HIDE DEF rows
  <2> QED
    BY <1>2, Zenon DEF Unended
<1>4. Undirected(one) = IF directory.why = "end" THEN 0 ELSE 1
  BY Zenon DEF Undirected, FatOf
<1> HIDE DEF rows, mini, directory
<1>5. /\ Compound!Walk(one).rows = rows /\ Compound!Walk(one).raised = mini.raised
      /\ Compound!Walk(one).broken =
           fat.broken + (IF directory.why = "end" THEN 0 ELSE 1) + mini.broken
                    + Cardinality({at \in DOMAIN rows : rows[at].why # "end"})
                    + Cardinality(Unknown(one))
                    + Compound!Collisions(rows)
  <2> HIDE DEF fat
  <2> QED
    BY <1>1, Counting DEF Unknown
<1> HIDE DEF fat
<1> QED
  BY <1>2, <1>3, <1>4, <1>5 DEF fat
(* Nothing is broken when each thing that is counted is none.              *)
LEMMA RowsAre ==
    ASSUME NEW one, CompoundFileStands(one), NEW at \in Compound!HeldEntries(one)
    PROVE  /\ RowsOf(one)[at].space = Compound!Space(one, Compound!EntryAt(one, at))
           /\ RowsOf(one)[at].why =
                Compound!Chain(IF RowsOf(one)[at].space = "mini" THEN MiniOf(one).table ELSE FatOf(one),
                               Compound!EntryAt(one, at).start, 8192).why
           /\ RowsOf(one)[at].sectors =
                Compound!Chain(IF RowsOf(one)[at].space = "mini" THEN MiniOf(one).table ELSE FatOf(one),
                               Compound!EntryAt(one, at).start, 8192).sectors
<1>1. RowsOf(one)[at] = Compound!EntryRow(one, FatOf(one), MiniOf(one).table, Compound!EntryAt(one, at))
  BY Zenon DEF RowsOf
<1> QED
  BY <1>1 DEF Compound!EntryRow

(* Six counts come to nothing when each does.                              *)
LEMMA SixAreNone ==
    ASSUME NEW a \in Nat, NEW b \in Nat, NEW c \in Nat, NEW d \in Nat, NEW e \in Nat, NEW f \in Nat
    PROVE  a + b + c + d + e + f = 0 <=> a = 0 /\ b = 0 /\ c = 0 /\ d = 0 /\ e = 0 /\ f = 0
OBVIOUS

(* Nothing is broken exactly when the tables are whole, every chain ends,  *)
(* every entry has a known kind, and no two claims are of one sector.      *)
LEMMA WalkClean ==
    ASSUME NEW one, CompoundFileStands(one)
    PROVE  Compound!Walk(one).broken = 0 <=>
             /\ Compound!ReadFat(one).broken = 0 /\ Undirected(one) = 0 /\ MiniOf(one).broken = 0
             /\ Unended(RowsOf(one)) = {} /\ Unknown(one) = {}
             /\ \A c, d \in Compound!Claims(RowsOf(one)) :
                   Compound!Claimed(RowsOf(one), c) = Compound!Claimed(RowsOf(one), d) => c = d
<1> DEFINE rows == RowsOf(one)
           limit == 8192
<1>0. limit \in Nat
  OBVIOUS
<1>1. Compound!ReadFat(one).broken \in Nat
  BY FatCounts
<1>2. Undirected(one) \in Nat
  BY DEF Undirected
<1>3. MiniOf(one).broken \in Nat
  BY DEF MiniOf, Compound!MiniTable
<1>4. DOMAIN rows = Compound!HeldEntries(one)
  BY Zenon DEF RowsOf
<1>5. IsFiniteSet(DOMAIN rows) /\ IsFiniteSet(DOMAIN one.entries)
  BY <1>4, HeldAre
<1>6. \A at \in DOMAIN rows : DOMAIN rows[at].sectors \subseteq 1..limit
  <2> SUFFICES ASSUME NEW at \in DOMAIN rows PROVE DOMAIN rows[at].sectors \subseteq 1..limit
    OBVIOUS
  <2> DEFINE table == IF rows[at].space = "mini" THEN MiniOf(one).table ELSE FatOf(one)
             start == Compound!EntryAt(one, at).start
  <2>1. rows[at].sectors = Compound!Chain(table, start, limit).sectors
    BY <1>4, RowsAre
  <2> HIDE DEF table, start, rows, limit
  <2>2. PICK n \in 0..limit : rows[at].sectors = [k \in 1..n |-> Compound!Hops(table, start)[k - 1]]
    <3> DEFINE read == Compound!Chain(table, start, limit)
    <3>1. \E n \in 0..limit :
              /\ read.sectors = [k \in 1..n |-> Compound!Hops(table, start)[k - 1]]
              /\ read.why = "end" => Compound!Hops(table, start)[n] \in Compound!Finished
      BY ONLY <1>0, ChainHas
    <3> QED
      BY <2>1, <3>1
  <2> QED
    BY <1>0, <2>2
<1> HIDE DEF rows, limit
<1>7. IsFiniteSet(Unended(rows)) /\ IsFiniteSet(Unknown(one))
  <2>1. Unended(rows) \in SUBSET (DOMAIN rows) /\ Unknown(one) \in SUBSET (DOMAIN one.entries)
    BY DEF Unended, Unknown
  <2> QED
    BY <1>5, <2>1, FS_Subset
<1>8. /\ Cardinality(Unended(rows)) \in Nat /\ Cardinality(Unknown(one)) \in Nat
      /\ Cardinality(Unended(rows)) = 0 <=> Unended(rows) = {}
      /\ Cardinality(Unknown(one)) = 0 <=> Unknown(one) = {}
  BY <1>7, FS_CardinalityType, FS_EmptySet
<1>9. /\ Compound!Collisions(rows) \in Nat
      /\ Compound!Collisions(rows) = 0 <=>
           \A c, d \in Compound!Claims(rows) :
               Compound!Claimed(rows, c) = Compound!Claimed(rows, d) => c = d
  BY <1>0, <1>5, <1>6, CollisionsAre
<1>10. Compound!Walk(one).broken =
         Compound!ReadFat(one).broken + Undirected(one) + MiniOf(one).broken
         + Cardinality(Unended(rows)) + Cardinality(Unknown(one)) + Compound!Collisions(rows)
  BY WalkIs DEF rows
<1>11. Compound!Walk(one).broken = 0 <=>
         /\ Compound!ReadFat(one).broken = 0 /\ Undirected(one) = 0 /\ MiniOf(one).broken = 0
         /\ Cardinality(Unended(rows)) = 0 /\ Cardinality(Unknown(one)) = 0
         /\ Compound!Collisions(rows) = 0
  <2> DEFINE a == Compound!ReadFat(one).broken
             b == Undirected(one)
             c == MiniOf(one).broken
             d == Cardinality(Unended(rows))
             e == Cardinality(Unknown(one))
             f == Compound!Collisions(rows)
  <2>1. /\ a \in Nat /\ b \in Nat /\ c \in Nat /\ d \in Nat /\ e \in Nat /\ f \in Nat
        /\ Compound!Walk(one).broken = a + b + c + d + e + f
    BY <1>1, <1>2, <1>3, <1>8, <1>9, <1>10
  <2> HIDE DEF a, b, c, d, e, f
  <2>2. Compound!Walk(one).broken = 0 <=> a = 0 /\ b = 0 /\ c = 0 /\ d = 0 /\ e = 0 /\ f = 0
    BY ONLY <2>1, SixAreNone
  <2> QED
    BY <2>2 DEF a, b, c, d, e, f
<1> QED
  BY <1>8, <1>9, <1>11 DEF rows

-----------------------------------------------------------------------------
(* What olefile reads of a chain that ends is the beginning of what the    *)
(* walk read.                                                              *)
LEMMA NoTableFinishes ==
    ASSUME NEW one, CompoundFileStands(one), NEW at \in Compound!Finished
    PROVE  at \notin DOMAIN FatOf(one) /\ at \notin DOMAIN MiniOf(one).table
<1>1. ASSUME NEW parts
      PROVE  at \notin DOMAIN Compound!Table(one, parts)
  BY DEF Compound!Table, Compound!Finished, Compound!End, Compound!Free
<1>2. \E parts : FatOf(one) = Compound!Table(one, parts)
  BY DEF FatOf, Compound!ReadFat
<1>3. \E parts : MiniOf(one).table = Compound!Table(one, parts)
  BY DEF MiniOf, Compound!MiniTable
<1> QED
  BY <1>1, <1>2, <1>3

(* What olefile reads is how the chain begins that the walk has read to    *)
(* its end: both hop the same way, and the walk goes on at least as far.   *)
LEMMA OleBegins ==
    ASSUME NEW table, \A at \in Compound!Finished : at \notin DOMAIN table, NEW start,
           NEW limit \in Nat, NEW needed \in Nat, NEW read, NEW ole,
           read = Compound!Chain(table, start, limit), read.why = "end",
           ole = Compound!OleSectors(table, start, needed)
    PROVE  /\ IsPrefix(ole, read.sectors)
           /\ DOMAIN ole \subseteq DOMAIN read.sectors
           /\ \A k \in DOMAIN ole : ole[k] = read.sectors[k]
<1> DEFINE hop == Compound!Hops(table, start)
           Stop == [k \in 0..needed |-> hop[k] \notin DOMAIN table]
           m == Compound!Until(Stop, needed)
<1>1. PICK n \in 0..limit : read.sectors = [k \in 1..n |-> hop[k - 1]] /\ hop[n] \in Compound!Finished
  BY ChainHas
<1>2. ole = [k \in 1..m |-> hop[k - 1]]
  BY DEF Compound!OleSectors
<1>3. m \in 0..needed /\ \A k \in 0..(m - 1) : ~Stop[k]
  <2> HIDE DEF Stop
  <2> QED
    BY UntilIs
<1> HIDE DEF m, hop
<1>4. m <= n
  <2> SUFFICES ASSUME n < m PROVE FALSE
    BY <1>3
  <2>1. n \in 0..(m - 1) /\ n \in 0..needed
    BY <1>3
  <2>2. hop[n] \in DOMAIN table
    BY <1>3, <2>1
  <2> QED
    BY <1>1, <2>2
<1>5. m \in Nat /\ n \in Nat /\ 1..m \subseteq 1..n
  BY <1>3, <1>4
<1>6. IsPrefix(ole, read.sectors)
  <2> DEFINE X == {hop[k - 1] : k \in 1..n}
             long == read.sectors
  <2>0. \A k \in 1..n : hop[k - 1] \in X
    OBVIOUS
  <2> HIDE DEF X
  <2>1. long \in Seq(X) /\ Len(long) = n
    BY <1>1, <1>5, <2>0
  <2>2. ole \in Seq(X) /\ Len(ole) = m
    BY <1>2, <1>5, <2>0
  <2>3. \A k \in 1..m : ole[k] = long[k]
    BY <1>1, <1>2, <1>5
  <2> HIDE DEF long
  <2>4. SubSeq(ole, 1, m) = SubSeq(long, 1, m)
    BY <1>4, <1>5, <2>1, <2>2, <2>3
  <2> QED
    BY <1>4, <2>1, <2>2, <2>4 DEF IsPrefix, long
<1> QED
  BY <1>1, <1>2, <1>5, <1>6

-----------------------------------------------------------------------------
(* An accepted file's streams are read as they are counted, and apart.     *)
LEMMA NeededIs ==
    ASSUME NEW size \in Nat, NEW space
    PROVE  Compound!Needed(size, space) \in Nat
<1>1. Compound!PerSector = 4
  BY DEF Compound!PerSector
<1>2. (size + 4 - 1) \div 4 \in Nat
  OBVIOUS
<1> QED
  BY <1>1, <1>2 DEF Compound!Needed

(* Where olefile reads a stream: in the space its size puts it in, from    *)
(* the table of that space.                                                *)
LEMMA OleReadsIs ==
    ASSUME NEW one, CompoundFileStands(one), NEW at \in Compound!Streams(one), NEW read,
           read = Compound!OleReads(one, at), NEW entry, entry = Compound!EntryAt(one, at)
    PROVE  /\ entry \in DirectoryEntries /\ read.space = Compound!Space(one, entry)
           /\ read.needed = Compound!Needed(entry.size, Compound!Space(one, entry))
           /\ read.sectors =
                Compound!OleSectors(IF Compound!Space(one, entry) = "mini" THEN MiniOf(one).table
                                    ELSE FatOf(one), entry.start, read.needed)
<1>1. entry \in DirectoryEntries /\ entry = one.entries[at]
  BY HeldAre
<1> QED
  BY <1>1 DEF Compound!OleReads, MiniOf, FatOf

(* In a file that the walk takes for whole, what is read of a stream is    *)
(* how its row begins, and no other stream's bytes come from there.        *)
LEMMA StreamsAlone ==
    ASSUME NEW one, CompoundFileStands(one), Compound!Walk(one).broken = 0,
           NEW at \in Compound!Streams(one), NEW other \in Compound!Streams(one)
    PROVE  /\ IsPrefix(Compound!OleReads(one, at).sectors, Compound!Walk(one).rows[at].sectors)
           /\ IsInjective(Compound!OleReads(one, at).sectors)
           /\ at # other /\ Compound!OleReads(one, at).space = Compound!OleReads(one, other).space =>
                ToSet(Compound!OleReads(one, at).sectors)
                  \cap ToSet(Compound!OleReads(one, other).sectors) = {}
<1> DEFINE rows == RowsOf(one)
           Ole(a) == Compound!OleReads(one, a)
<1>1. Compound!Walk(one).rows = rows
  BY WalkIs
<1>2. /\ \A a \in DOMAIN rows : rows[a].why = "end"
      /\ \A c, d \in Compound!Claims(rows) :
            Compound!Claimed(rows, c) = Compound!Claimed(rows, d) => c = d
  BY WalkClean DEF Unended
<1>3. DOMAIN rows = Compound!HeldEntries(one)
  BY Zenon DEF RowsOf
<1>4. ASSUME NEW a \in Compound!Streams(one)
      PROVE  /\ a \in DOMAIN rows /\ rows[a].space = Ole(a).space
             /\ IsPrefix(Ole(a).sectors, rows[a].sectors)
             /\ \A k \in DOMAIN Ole(a).sectors :
                  k \in DOMAIN rows[a].sectors /\ Ole(a).sectors[k] = rows[a].sectors[k]
  <2> DEFINE entry == Compound!EntryAt(one, a)
             space == Compound!Space(one, entry)
             table == IF space = "mini" THEN MiniOf(one).table ELSE FatOf(one)
             ole == Ole(a)
             limit == 8192
             read == Compound!Chain(table, entry.start, limit)
  <2>1. a \in Compound!HeldEntries(one) /\ a \in DOMAIN rows
    BY <1>3, HeldAre
  <2>2. /\ entry \in DirectoryEntries /\ ole.space = space
        /\ ole.needed = Compound!Needed(entry.size, space)
        /\ ole.sectors = Compound!OleSectors(table, entry.start, ole.needed)
    BY OleReadsIs
  <2>3. rows[a].space = space /\ rows[a].why = read.why /\ rows[a].sectors = read.sectors
    BY <2>1, RowsAre
  <2>4. limit \in Nat
    OBVIOUS
  <2>5. ole.needed \in Nat
    BY <2>2, NeededIs DEF DirectoryEntries
  <2>6. \A f \in Compound!Finished : f \notin DOMAIN table
    BY NoTableFinishes
  <2>7. read.why = "end"
    BY <1>2, <2>1, <2>3
  <2> HIDE DEF table, limit, entry, ole, rows, space
  <2> DEFINE start == entry.start
             sectors == ole.sectors
             needed == ole.needed
  <2>8. /\ IsPrefix(sectors, read.sectors)
        /\ DOMAIN sectors \subseteq DOMAIN read.sectors
        /\ \A k \in DOMAIN sectors : sectors[k] = read.sectors[k]
    <3>1. sectors = Compound!OleSectors(table, start, needed) /\ needed \in Nat
      BY <2>2, <2>5
    <3>2. read = Compound!Chain(table, start, limit)
      OBVIOUS
    <3> HIDE DEF start, sectors, needed, read
    <3> QED
      BY ONLY <2>4, <2>6, <2>7, <3>1, <3>2, OleBegins
  <2> HIDE DEF read
  <2> QED
    BY <2>1, <2>2, <2>3, <2>8 DEF ole
<1> HIDE DEF rows, Ole
<1>5. ASSUME NEW a \in DOMAIN rows, NEW k \in DOMAIN rows[a].sectors
      PROVE  /\ <<a, k>> \in Compound!Claims(rows)
             /\ Compound!Claimed(rows, <<a, k>>) = <<rows[a].space, rows[a].sectors[k]>>
  <2>1. <<a, k>> \in {<<a, j>> : j \in DOMAIN rows[a].sectors}
    OBVIOUS
  <2> QED
    BY <2>1 DEF Compound!Claims, Compound!Claimed
<1>6. ASSUME NEW a \in Compound!Streams(one), NEW b \in Compound!Streams(one),
             NEW i \in DOMAIN Ole(a).sectors, NEW j \in DOMAIN Ole(b).sectors,
             Ole(a).space = Ole(b).space, Ole(a).sectors[i] = Ole(b).sectors[j]
      PROVE  a = b /\ i = j
  <2>1. /\ a \in DOMAIN rows /\ i \in DOMAIN rows[a].sectors
        /\ b \in DOMAIN rows /\ j \in DOMAIN rows[b].sectors
        /\ rows[a].space = rows[b].space /\ rows[a].sectors[i] = rows[b].sectors[j]
    BY <1>4, <1>6
  <2>2. Compound!Claimed(rows, <<a, i>>) = Compound!Claimed(rows, <<b, j>>)
    BY <1>5, <2>1
  <2>3. <<a, i>> \in Compound!Claims(rows) /\ <<b, j>> \in Compound!Claims(rows)
    BY <1>5, <2>1
  <2>4. <<a, i>> = <<b, j>>
    BY <1>2, <2>2, <2>3
  <2> QED
    BY <2>4
<1>7. IsPrefix(Ole(at).sectors, rows[at].sectors)
  BY <1>4
<1>8. IsInjective(Ole(at).sectors)
  BY <1>6 DEF IsInjective
<1>9. at # other /\ Ole(at).space = Ole(other).space =>
        ToSet(Ole(at).sectors) \cap ToSet(Ole(other).sectors) = {}
  BY <1>6 DEF ToSet
<1> QED
  BY <1>1, <1>7, <1>8, <1>9 DEF Ole

(* As an application saved it a file is accepted.                          *)
LEMMA SavedAccepted ==
    ASSUME NEW one, CompoundFileStands(one), Saved(one)
    PROVE  /\ Compound!Walk(one).broken = 0 /\ ~Compound!Walk(one).raised
           /\ Compound!CrossChecked(one)
<1> DEFINE fat == Compound!Table(one, one.parts.fat)
           mini == Compound!Table(one, one.parts.minifat)
           held == one.parts.held
           EntryOf(at) == Compound!EntryAt(one, at)
           Shared(at) == Compound!Space(one, EntryOf(at))
           TableOf(at) == IF Shared(at) = "mini" THEN mini ELSE fat
           Held == Compound!HeldEntries(one)
           rows == RowsOf(one)
<1>1. /\ Leads(fat, one.directory, one.parts.directory) /\ Len(one.parts.directory) <= 4096
      /\ \A at \in Held : /\ Leads(TableOf(at), EntryOf(at).start, held[at])
                          /\ Len(held[at]) >= Compound!Needed(EntryOf(at).size, Shared(at))
                          /\ Len(held[at]) <= 8192
      /\ \A at \in DOMAIN one.entries : EntryOf(at).type \in {"stream", "storage", "free"}
  <2>1. Leads(fat, one.directory, one.parts.directory) /\ Len(one.parts.directory) <= 4096
    BY DEF Saved
  <2>2. ASSUME NEW at \in Held
        PROVE  /\ Leads(TableOf(at), EntryOf(at).start, held[at])
               /\ Len(held[at]) >= Compound!Needed(EntryOf(at).size, Shared(at))
               /\ Len(held[at]) <= 8192
    BY DEF Saved
  <2>3. \A at \in DOMAIN one.entries : EntryOf(at).type \in {"stream", "storage", "free"}
    BY DEF Saved
  <2> QED
    BY <2>1, <2>2, <2>3
<1>0. \A at, other \in Held : at # other /\ Shared(at) = Shared(other) =>
          \A s \in ToSet(held[at]) : s \notin ToSet(held[other])
  BY DEF Saved
<1>2. Compound!ReadFat(one).broken = 0 /\ FatOf(one) = fat
  BY FatSaved DEF FatOf
<1>3. MiniOf(one).broken = 0 /\ MiniOf(one).table = mini /\ MiniOf(one).raised = FALSE
  <2>1. MiniOf(one) = Compound!MiniTable(one, fat)
    BY <1>2, Zenon DEF MiniOf
  <2>2. MiniOf(one) = [table |-> mini, broken |-> 0, raised |-> FALSE]
    BY <2>1, MiniSaved
  <2> HIDE DEF mini
  <2> QED
    BY <2>2
<1>4. IsChained(fat) /\ IsChained(mini) /\ one.directory \in Int
  BY SavedParts DEF CompoundFileStands
<1> HIDE DEF fat, mini
<1>5. Undirected(one) = 0
  <2>1. 4096 \in Nat
    OBVIOUS
  <2>2. Compound!Chain(fat, one.directory, 4096).why = "end"
    BY <1>1, <1>4, <2>1, ChainLeads
  <2> QED
    BY <1>2, <2>2 DEF Undirected
<1>6. /\ DOMAIN rows = Held /\ \A at \in Held : EntryOf(at) \in DirectoryEntries
      /\ \A at \in Compound!Streams(one) : at \in Held
  BY HeldAre, Zenon DEF RowsOf
<1>7. ASSUME NEW at \in Held
      PROVE  rows[at].space = Shared(at) /\ rows[at].why = "end" /\ rows[at].sectors = held[at]
  <2> DEFINE limit == 8192
             start == EntryOf(at).start
             table == TableOf(at)
  <2>1. /\ rows[at].space = Shared(at)
        /\ rows[at].why = Compound!Chain(table, start, limit).why
        /\ rows[at].sectors = Compound!Chain(table, start, limit).sectors
    BY <1>2, <1>3, RowsAre
  <2>2. start \in Int
    BY <1>6 DEF DirectoryEntries
  <2>3. limit \in Nat
    OBVIOUS
  <2>4. Leads(table, start, held[at]) /\ Len(held[at]) <= limit
    BY <1>1
  <2>5. IsChained(table)
    BY <1>4
  <2> HIDE DEF limit, start, table
  <2>6. Compound!Chain(table, start, limit) = [sectors |-> held[at], why |-> "end"]
    BY ONLY <2>2, <2>3, <2>4, <2>5, ChainLeads
  <2> QED
    BY <2>1, <2>6
<1> HIDE DEF rows, held
<1>8. Unended(rows) = {}
  BY <1>6, <1>7 DEF Unended
<1>9. Unknown(one) = {}
  <2>1. \A at \in DOMAIN one.entries : EntryOf(at) = one.entries[at]
    <3>1. \A at \in DOMAIN one.entries : at # 0
      BY DEF CompoundFileStands
    <3> QED
      BY <3>1 DEF Compound!EntryAt
  <2> QED
    BY <1>1, <2>1 DEF Unknown
<1>10. ASSUME NEW c \in Compound!Claims(rows), NEW d \in Compound!Claims(rows),
              Compound!Claimed(rows, c) = Compound!Claimed(rows, d)
       PROVE  c = d
  <2>1. ASSUME NEW e \in Compound!Claims(rows)
        PROVE  \E at \in Held : \E k \in DOMAIN held[at] :
                  e = <<at, k>> /\ Compound!Claimed(rows, e) = <<Shared(at), held[at][k]>>
    <3>1. PICK at \in DOMAIN rows : e \in {<<at, k>> : k \in DOMAIN rows[at].sectors}
      BY DEF Compound!Claims
    <3>2. PICK k \in DOMAIN rows[at].sectors : e = <<at, k>>
      BY <3>1
    <3>3. Compound!Claimed(rows, e) = <<rows[at].space, rows[at].sectors[k]>>
      BY <3>2 DEF Compound!Claimed
    <3> QED
      BY <1>6, <1>7, <3>2, <3>3
  <2>2. PICK a \in Held : \E k \in DOMAIN held[a] :
            c = <<a, k>> /\ Compound!Claimed(rows, c) = <<Shared(a), held[a][k]>>
    BY <2>1
  <2>3. PICK b \in Held : \E k \in DOMAIN held[b] :
            d = <<b, k>> /\ Compound!Claimed(rows, d) = <<Shared(b), held[b][k]>>
    BY <2>1
  <2>4. PICK i \in DOMAIN held[a] :
            c = <<a, i>> /\ Compound!Claimed(rows, c) = <<Shared(a), held[a][i]>>
    BY <2>2
  <2>5. PICK j \in DOMAIN held[b] :
            d = <<b, j>> /\ Compound!Claimed(rows, d) = <<Shared(b), held[b][j]>>
    BY <2>3
  <2>6. Shared(a) = Shared(b) /\ held[a][i] = held[b][j]
    BY <1>10, <2>4, <2>5
  <2>7. held[a][i] \in ToSet(held[a]) /\ held[b][j] \in ToSet(held[b])
    BY DEF ToSet
  <2>8. a = b
    <3>2. a \in Held /\ b \in Held /\ Shared(a) = Shared(b)
      BY <2>6
    <3> HIDE DEF Shared, Held
    <3>3. a # b => \A s \in ToSet(held[a]) : s \notin ToSet(held[b])
      BY ONLY <1>0, <3>2
    <3> QED
      BY ONLY <2>6, <2>7, <3>3
  <2>9. Leads(TableOf(a), EntryOf(a).start, held[a])
    BY <1>1
  <2>10. i = j
    <3>1. i \in DOMAIN held[a] /\ j \in DOMAIN held[a] /\ held[a][i] = held[a][j]
      BY <2>6, <2>8
    <3> HIDE DEF TableOf, Kept
    <3> QED
      BY <2>9, <3>1, LeadsIs
  <2> QED
    BY <2>4, <2>5, <2>8, <2>10
<1>11. Compound!Walk(one).broken = 0
  BY <1>2, <1>3, <1>5, <1>8, <1>9, <1>10, WalkClean DEF rows
<1>12. ~Compound!Walk(one).raised
  BY <1>3, WalkIs
<1>13. ASSUME NEW at \in Compound!Streams(one)
       PROVE  Len(Compound!OleReads(one, at).sectors) = Compound!OleReads(one, at).needed
  <2> DEFINE start == EntryOf(at).start
             table == TableOf(at)
             needed == Compound!OleReads(one, at).needed
             path == held[at]
  <2>1. /\ needed = Compound!Needed(EntryOf(at).size, Shared(at))
        /\ Compound!OleReads(one, at).sectors = Compound!OleSectors(table, start, needed)
    BY <1>2, <1>3, OleReadsIs
  <2>2. EntryOf(at) \in DirectoryEntries /\ at \in Held
    BY <1>6
  <2>3. start \in Int /\ needed \in Nat
    BY <2>1, <2>2, NeededIs DEF DirectoryEntries
  <2>4. Leads(table, start, path) /\ Len(path) >= needed
    BY <1>1, <2>1, <2>2
  <2>5. IsChained(table)
    BY <1>4
  <2>6. Len(path) \in Nat /\ needed <= Len(path)
    <3> HIDE DEF path, table, start, needed
    <3> QED
      BY <2>3, <2>4, LeadsIs
  <2> HIDE DEF path, table, start, needed
  <2>7. Len(Compound!OleSectors(table, start, needed)) = needed
    BY ONLY <2>3, <2>4, <2>5, <2>6, OleLeads
  <2> QED
    BY <2>1, <2>7 DEF needed
<1> QED
  BY <1>11, <1>12, <1>13 DEF Compound!CrossChecked

(* What walk and olefile do with a compound file of any sectors, tables    *)
(* and directory, damaged in any way or not at all.                        *)
LEMMA CompoundAccounted ==
    ASSUME kind = "compound", CompoundFileStands(file), damaged = 0 => Saved(file)
    PROVE  CompoundStreamsStandAlone
<1> DEFINE walk == Compound!Walk(file)
           accepted == walk.broken = 0 /\ ~walk.raised /\ Compound!CrossChecked(file)
           streams == Compound!Streams(file)
           Reads(at) == Compound!OleReads(file, at)
<1>1. damaged = 0 => accepted
  BY SavedAccepted
<1>2. ASSUME accepted, NEW at \in streams, NEW other \in streams
      PROVE  /\ IsPrefix(Reads(at).sectors, walk.rows[at].sectors)
             /\ IsInjective(Reads(at).sectors)
             /\ at # other /\ Reads(at).space = Reads(other).space =>
                  ToSet(Reads(at).sectors) \cap ToSet(Reads(other).sectors) = {}
  BY <1>2, StreamsAlone
<1> QED
  BY <1>1, <1>2, Zenon DEF CompoundStreamsStandAlone

(* A compound file of any size that an application saved is accepted, and  *)
(* one that is accepted, whatever words of it and whatever starts have     *)
(* changed since, has streams that olefile reads from the very sectors the *)
(* walk gave each a row for, none twice, and no two streams from one.      *)
THEOREM CompoundStreamsAlwaysStandAlone == Spec => []CompoundStreamsStandAlone
<1>1. FilesStand => CompoundStreamsStandAlone
  <2> SUFFICES ASSUME FilesStand PROVE CompoundStreamsStandAlone
    OBVIOUS
  <2>1. CASE kind = "compound"
    <3>1. CompoundFileStands(file) /\ (damaged = 0 => Saved(file))
      BY <2>1 DEF FilesStand
    <3> QED
      BY <2>1, <3>1, CompoundAccounted
  <2>2. CASE kind # "compound"
    BY <2>2, Zenon DEF CompoundStreamsStandAlone
  <2> QED
    BY <2>1, <2>2
<1> QED
  BY <1>1, FilesAlwaysStand, PTL
===============================================================================
