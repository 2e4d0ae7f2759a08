---------------------------- MODULE DisasmProofs ----------------------------
(***************************************************************************)
(* What the passes of disasm/shim.c answer, for every window and all caps. *)
(***************************************************************************)
EXTENDS Disasm, SequenceTheorems, FiniteSetTheorems, TLAPS

-----------------------------------------------------------------------------
(* Sorting: no induction is needed to see that Ascending lists a set, since *)
(* counting the smaller members maps the set one-to-one into 0 .. n - 1.    *)

Rank(S, a) == Cardinality({b \in S : b < a})

LEMMA RankGrows ==
    ASSUME NEW S \in SUBSET Nat, IsFiniteSet(S), NEW a \in S, NEW c \in S, a < c
    PROVE  Rank(S, a) < Rank(S, c)
<1> DEFINE low == {b \in S : b < a}
           high == {b \in S : b < c}
<1>1. IsFiniteSet(high) BY FS_Subset
<1>0. a \in Nat /\ c \in Nat /\ S \subseteq Nat OBVIOUS
<1>2. low \in SUBSET high
  <2> SUFFICES ASSUME NEW b \in S, b < a PROVE b < c OBVIOUS
  <2> QED BY <1>0
<1>3. low # high
  <2> a \in high /\ a \notin low BY <1>0
  <2> QED OBVIOUS
<1>4. Cardinality(low) <= Cardinality(high) /\ Cardinality(low) # Cardinality(high)
  <2> HIDE DEF low, high
  <2> QED BY <1>1, <1>2, <1>3, FS_Subset
<1>5. Cardinality(low) \in Nat /\ Cardinality(high) \in Nat
  <2> IsFiniteSet(low) BY FS_Subset
  <2> QED BY <1>1, FS_CardinalityType
<1> QED BY <1>4, <1>5 DEF Rank

LEMMA RankBounded ==
    ASSUME NEW S \in SUBSET Nat, IsFiniteSet(S), NEW a \in S
    PROVE  Rank(S, a) \in Nat /\ Rank(S, a) < Cardinality(S)
<1> DEFINE low == {b \in S : b < a}
<1>1. low \in SUBSET S /\ low # S OBVIOUS
<1>2. IsFiniteSet(low) BY <1>1, FS_Subset
<1>3. Cardinality(low) <= Cardinality(S) /\ Cardinality(low) # Cardinality(S)
  <2> HIDE DEF low
  <2> QED BY <1>1, FS_Subset
<1>4. Cardinality(low) \in Nat /\ Cardinality(S) \in Nat BY <1>2, FS_CardinalityType
<1> QED BY <1>3, <1>4 DEF Rank

(* Every rank below the size of the set is somebody's.                      *)
LEMMA RankTaken ==
    ASSUME NEW S \in SUBSET Nat, IsFiniteSet(S), NEW k \in 1 .. Cardinality(S)
    PROVE  \E a \in S : Rank(S, a) = k - 1
<1> DEFINE n == Cardinality(S)
           place == [a \in S |-> Rank(S, a) + 1]
<1>1. n \in Nat BY FS_CardinalityType
<1>2. place \in [S -> 1 .. n] BY RankBounded, <1>1
<1>3. \A a, c \in S : place[a] = place[c] => a = c
  <2> SUFFICES ASSUME NEW a \in S, NEW c \in S, a < c PROVE place[a] # place[c] OBVIOUS
  <2> QED BY RankGrows, RankBounded
<1>4. place \in Injection(S, 1 .. n)
  <2> HIDE DEF place
  <2> QED BY <1>2, <1>3 DEF Injection, IsInjective
<1>5. IsFiniteSet(1 .. n) /\ Cardinality(1 .. n) = n BY <1>1, FS_Interval
<1>6. place \in Surjection(S, 1 .. n)
  <2> HIDE DEF place
  <2> QED BY <1>4, <1>5, FS_Injection
<1>7. \E a \in S : place[a] = k
  <2> HIDE DEF place
  <2> QED BY <1>6 DEF Surjection
<1> QED BY <1>7, RankBounded

LEMMA AscendingMember ==
    ASSUME NEW S \in SUBSET Nat, IsFiniteSet(S), NEW k \in 1 .. Cardinality(S)
    PROVE  Ascending(S)[k] \in S /\ Rank(S, Ascending(S)[k]) = k - 1
BY RankTaken DEF Ascending, Rank

(* A finite set of addresses, sorted: its members, all of them, in order.   *)
LEMMA AscendingSorts ==
    ASSUME NEW S \in SUBSET Nat, IsFiniteSet(S)
    PROVE  /\ Cardinality(S) \in Nat
           /\ DOMAIN Ascending(S) = 1 .. Cardinality(S)
           /\ Ascending(S) \in Seq(S)
           /\ Len(Ascending(S)) = Cardinality(S)
           /\ \A a \in S : \E k \in 1 .. Cardinality(S) : Ascending(S)[k] = a
           /\ \A j, k \in 1 .. Cardinality(S) : j < k => Ascending(S)[j] < Ascending(S)[k]
<1> DEFINE s == Ascending(S)
           n == Cardinality(S)
<1>1. n \in Nat BY FS_CardinalityType
<1>2. s \in [1 .. n -> S] /\ DOMAIN s = 1 .. n
  <2>1. \A k \in 1 .. n : (CHOOSE a \in S : Cardinality({b \in S : b < a}) = k - 1) \in S
    BY RankTaken DEF Rank
  <2> QED BY <2>1 DEF Ascending
<1>3. s \in Seq(S) /\ Len(s) = n
  <2> HIDE DEF s, n
  <2> QED BY <1>1, <1>2
<1>4. ASSUME NEW a \in S PROVE \E k \in 1 .. n : s[k] = a
  <2> DEFINE k == Rank(S, a) + 1
  <2>1. k \in 1 .. n BY RankBounded, <1>1
  <2>2. s[k] \in S /\ Rank(S, s[k]) = k - 1 BY <2>1, AscendingMember
  <2>3. Rank(S, s[k]) = Rank(S, a) BY <2>2, RankBounded
  <2>4. s[k] = a
    <3>0. s[k] \in Nat /\ a \in Nat BY <2>2
    <3> HIDE DEF s, k
    <3>2. Rank(S, a) \in Nat BY RankBounded
    <3>3. s[k] < a => Rank(S, s[k]) < Rank(S, a) BY <2>2, RankGrows
    <3>4. a < s[k] => Rank(S, a) < Rank(S, s[k]) BY <2>2, RankGrows
    <3>1. ~(s[k] < a) /\ ~(a < s[k]) BY <2>3, <3>2, <3>3, <3>4
    <3> QED BY <3>0, <3>1
  <2> QED BY <2>1, <2>4
<1>5. ASSUME NEW j \in 1 .. n, NEW k \in 1 .. n, j < k PROVE s[j] < s[k]
  <2>1. s[j] \in S /\ s[k] \in S /\ Rank(S, s[j]) = j - 1 /\ Rank(S, s[k]) = k - 1
    BY AscendingMember
  <2> HIDE DEF s
  <2>2. s[j] # s[k] BY <2>1, <1>1, <1>5
  <2>5. s[k] < s[j] => Rank(S, s[k]) < Rank(S, s[j]) BY <2>1, RankGrows
  <2>3. ~(s[k] < s[j]) BY <2>1, <2>5, <1>1, <1>5
  <2>4. s[j] \in Nat /\ s[k] \in Nat BY <2>1
  <2> QED BY <2>2, <2>3, <2>4
<1> QED BY <1>1, <1>2, <1>3, <1>4, <1>5

(* A set of numbers with a member has a least one.                          *)
LEMMA Least ==
    ASSUME NEW S \in SUBSET Nat, S # {}
    PROVE  \E a \in S : \A b \in S : a <= b
<1>1. PICK c \in S : TRUE OBVIOUS
<1> DEFINE T == {b \in S : b <= c}
<1>0. S \subseteq Nat /\ c \in Nat BY <1>1
<1>2. T \in SUBSET Nat /\ IsFiniteSet(T)
  <2>1. T \in SUBSET (0 .. c) /\ c \in Int
    <3>1. \A b \in T : b \in 0 .. c
      <4> TAKE b \in T
      <4> b \in Nat /\ b <= c BY <1>0
      <4> QED BY <1>0
    <3> HIDE DEF T
    <3> QED BY <3>1, <1>0
  <2>2. IsFiniteSet(0 .. c) BY <2>1, FS_Interval
  <2> QED BY <2>1, <2>2, FS_Subset
<1>3. c \in T BY <1>1
<1> HIDE DEF T
<1>4. 1 \in 1 .. Cardinality(T)
  <2>1. Cardinality(T) \in Nat /\ Cardinality(T) # 0
    BY <1>2, <1>3, FS_CardinalityType, FS_EmptySet
  <2> QED BY <2>1
<1>5. PICK a \in T : Rank(T, a) = 0 BY <1>2, <1>4, RankTaken
<1>6. \A b \in T : ~(b < a) BY <1>2, <1>5, RankGrows, RankBounded
<1> QED BY <1>1, <1>2, <1>5, <1>6 DEF T

LEMMA Greatest ==
    ASSUME NEW S \in SUBSET Nat, IsFiniteSet(S), S # {}
    PROVE  Max(S) \in S /\ \A b \in S : b <= Max(S)
<1> DEFINE n == Cardinality(S)
<1>1. n \in Nat /\ n # 0 BY FS_CardinalityType, FS_EmptySet
<1>2. n \in 1 .. n BY <1>1
<1>3. \A k \in 1 .. n : Ascending(S)[k] \in S BY AscendingMember
<1>4. \A b \in S : b <= Ascending(S)[n]
  <2> TAKE b \in S
  <2>0. b \in Nat OBVIOUS
  <2>1. PICK k \in 1 .. n : Ascending(S)[k] = b BY AscendingSorts
  <2>2. CASE k = n BY <2>0, <2>1, <2>2
  <2>3. CASE k < n
    <3>1. Ascending(S)[k] < Ascending(S)[n] BY <1>2, <2>3, AscendingSorts
    <3>2. Ascending(S)[n] \in Nat BY <1>2, <1>3
    <3> QED BY <2>0, <2>1, <3>1, <3>2
  <2> QED BY <1>1, <2>2, <2>3
<1> QED BY <1>2, <1>3, <1>4 DEF Max

-----------------------------------------------------------------------------
(* Rows in a buffer.                                                        *)

IsList(s) == s \in Seq(Range(s))

LEMMA Listed ==
    ASSUME NEW f, NEW n \in Nat, DOMAIN f = 1 .. n, f = [k \in 1 .. n |-> f[k]]
    PROVE  IsList(f) /\ Len(f) = n
<1>1. f \in [1 .. n -> Range(f)] BY DEF Range
<1> QED BY <1>1 DEF IsList

LEMMA ListLen ==
    ASSUME NEW s, IsList(s)
    PROVE  Len(s) \in Nat /\ DOMAIN s = 1 .. Len(s)
BY LenProperties DEF IsList

LEMMA Shorter ==
    ASSUME NEW s, IsList(s), NEW n \in Nat
    PROVE  /\ IsList(FirstOf(s, n))
           /\ Len(FirstOf(s, n)) = IF Len(s) < n THEN Len(s) ELSE n
           /\ \A k \in 1 .. Len(FirstOf(s, n)) : FirstOf(s, n)[k] = s[k]
<1> DEFINE m == IF Len(s) < n THEN Len(s) ELSE n
           f == FirstOf(s, n)
<1>1. Len(s) \in Nat /\ m \in Nat /\ m <= Len(s) BY ListLen
<1>2. \A i \in 1 .. m : s[i] \in Range(s) BY <1>1, ListLen DEF Range
<1>3. f = SubSeq(s, 1, m) BY DEF FirstOf
<1> HIDE DEF m, f
<1>4. f \in Seq(Range(s)) /\ Len(f) = m /\ \A i \in 1 .. m : f[i] = s[i]
  <2>1. 1 \in Int /\ m \in Int BY <1>1
  <2>2. /\ SubSeq(s, 1, m) \in Seq(Range(s))
        /\ Len(SubSeq(s, 1, m)) = IF 1 <= m THEN m - 1 + 1 ELSE 0
        /\ \A i \in 1 .. m - 1 + 1 : SubSeq(s, 1, m)[i] = s[1 + i - 1]
    BY <2>1, <1>2, SubSeqProperties
  <2> QED BY <2>2, <1>1, <1>3
<1>5. IsList(f) BY <1>4, LenProperties, Listed
<1> QED BY <1>4, <1>5 DEF m, f

LEMMA Joined ==
    ASSUME NEW s, NEW t, IsList(s), IsList(t)
    PROVE  /\ IsList(s \o t)
           /\ Len(s \o t) = Len(s) + Len(t)
           /\ \A i \in 1 .. Len(s) : (s \o t)[i] = s[i]
           /\ \A i \in 1 .. Len(t) : (s \o t)[Len(s) + i] = t[i]
<1> DEFINE U == Range(s) \cup Range(t)
<1>1. s \in Seq(U) /\ t \in Seq(U)
  <2>1. s \in [1 .. Len(s) -> U] /\ Len(s) \in Nat BY LenProperties DEF IsList
  <2>2. t \in [1 .. Len(t) -> U] /\ Len(t) \in Nat BY LenProperties DEF IsList
  <2> HIDE DEF U
  <2> QED BY <2>1, <2>2
<1> HIDE DEF U
<1>2. Len(s) \in Nat /\ Len(t) \in Nat BY ListLen
<1>3. s \o t \in Seq(U) /\ Len(s \o t) = Len(s) + Len(t) BY <1>1, ConcatProperties
<1>4. IsList(s \o t) BY <1>3, LenProperties, Listed
<1>5. \A i \in 1 .. Len(s) + Len(t) :
          (s \o t)[i] = IF i <= Len(s) THEN s[i] ELSE t[i - Len(s)]
  BY <1>1, ConcatProperties
<1>6. ASSUME NEW i \in 1 .. Len(t) PROVE (s \o t)[Len(s) + i] = t[i]
  <2>1. Len(s) + i \in 1 .. Len(s) + Len(t) /\ ~(Len(s) + i <= Len(s)) BY <1>2
  <2>2. (Len(s) + i) - Len(s) = i BY <1>2
  <2> QED BY <1>5, <2>1, <2>2
<1> QED BY <1>2, <1>3, <1>4, <1>5, <1>6

(* One list filled in behind another, as far as it went.                    *)
Stacked(all, before, new) ==
    /\ IsList(all) /\ Len(all) \in Nat
    /\ Len(all) >= Len(before) /\ Len(all) <= Len(before) + Len(new)
    /\ \A i \in 1 .. Len(before) : all[i] = before[i]
    /\ \A i \in 1 .. Len(all) - Len(before) : all[Len(before) + i] = new[i]

(* A loop that keeps a reserve leaves it, unless it was gone before.        *)
LEMMA FilledBy ==
    ASSUME NEW before, NEW new, IsList(before), IsList(new),
           NEW reserve \in Nat, reserve <= RowMaxSeen, Len(before) <= RowMaxSeen - reserve
    PROVE  /\ Stacked(Fill(before, new, reserve), before, new)
           /\ Len(Fill(before, new, reserve)) <= RowMaxSeen - reserve
<1> DEFINE room == IF RowMaxSeen - reserve > Len(before)
                   THEN RowMaxSeen - reserve - Len(before) ELSE 0
           put == FirstOf(new, room)
<1>1. Len(before) \in Nat /\ Len(new) \in Nat /\ RowMaxSeen \in Nat
  BY ListLen, DisasmAssumption
<1>2. room \in Nat /\ room = RowMaxSeen - reserve - Len(before) BY <1>1
<1>3. Fill(before, new, reserve) = before \o put BY DEF Fill
<1> HIDE DEF room
<1>4. /\ IsList(put) /\ Len(put) = IF Len(new) < room THEN Len(new) ELSE room
      /\ \A k \in 1 .. Len(put) : put[k] = new[k]
  BY <1>2, Shorter
<1> HIDE DEF put
<1>5. /\ IsList(before \o put) /\ Len(before \o put) = Len(before) + Len(put)
      /\ \A i \in 1 .. Len(before) : (before \o put)[i] = before[i]
      /\ \A i \in 1 .. Len(put) : (before \o put)[Len(before) + i] = put[i]
  BY <1>4, Joined
<1>6. Len(before \o put) - Len(before) = Len(put) BY <1>1, <1>2, <1>4, <1>5
<1>7. Len(before \o put) \in Nat BY <1>5, ListLen
<1> QED BY <1>1, <1>2, <1>3, <1>4, <1>5, <1>6, <1>7 DEF Stacked

LEMMA Filled ==
    ASSUME NEW before, NEW new, IsList(before), IsList(new),
           NEW reserve \in Nat, reserve <= RowMaxSeen, Len(before) <= RowMaxSeen - reserve
    PROVE  /\ IsList(Fill(before, new, reserve))
           /\ Len(Fill(before, new, reserve)) <= RowMaxSeen - reserve
           /\ Len(Fill(before, new, reserve)) <= Len(before) + Len(new)
           /\ Len(Fill(before, new, reserve)) >= Len(before)
           /\ \A i \in 1 .. Len(before) : Fill(before, new, reserve)[i] = before[i]
           /\ \A i \in 1 .. Len(Fill(before, new, reserve)) - Len(before) :
                  Fill(before, new, reserve)[Len(before) + i] = new[i]
<1>1. /\ Stacked(Fill(before, new, reserve), before, new)
      /\ Len(Fill(before, new, reserve)) <= RowMaxSeen - reserve
  BY FilledBy
<1> QED BY <1>1 DEF Stacked

LEMMA Nothing == IsList(<<>>) /\ Len(<<>>) = 0
BY DEF IsList

LEMMA Alone ==
    ASSUME NEW r
    PROVE  IsList(<<r>>) /\ Len(<<r>>) = 1 /\ <<r>>[1] = r
<1>1. Range(<<r>>) = {r} BY DEF Range
<1> QED BY <1>1 DEF IsList

(* Closing an answer takes two rows at most.                                *)
LEMMA Closed ==
    ASSUME NEW before, IsList(before), NEW cut \in BOOLEAN
    PROVE  /\ IsList(Close(before, cut))
           /\ Len(Close(before, cut)) = Len(before) + IF cut THEN 2 ELSE 1
           /\ \A i \in 1 .. Len(before) : Close(before, cut)[i] = before[i]
           /\ Close(before, cut)[Len(before) + 1] =
                  IF cut THEN [row |-> "cut"] ELSE [row |-> "summary"]
<1> DEFINE c == <<[row |-> "cut"]>>
           s == <<[row |-> "summary"]>>
           mid == before \o (IF cut THEN c ELSE <<>>)
<1>0. Len(before) \in Nat BY ListLen
<1>1. IsList(c) /\ Len(c) = 1 /\ c[1] = [row |-> "cut"] BY Alone
<1>2. IsList(s) /\ Len(s) = 1 /\ s[1] = [row |-> "summary"] BY Alone
<1>3. /\ IsList(mid) /\ Len(mid) = Len(before) + IF cut THEN 1 ELSE 0
      /\ \A i \in 1 .. Len(before) : mid[i] = before[i]
      /\ cut => mid[Len(before) + 1] = [row |-> "cut"]
  <2> HIDE DEF c
  <2>1. CASE cut
    <3>1. mid = before \o c BY <2>1
    <3>2. /\ IsList(before \o c) /\ Len(before \o c) = Len(before) + Len(c)
          /\ \A i \in 1 .. Len(before) : (before \o c)[i] = before[i]
          /\ \A i \in 1 .. Len(c) : (before \o c)[Len(before) + i] = c[i]
      <4>1. IsList(c) BY <1>1
      <4> QED BY <4>1, Joined
    <3>3. (before \o c)[Len(before) + 1] = [row |-> "cut"] BY <1>1, <3>2
    <3> HIDE DEF mid
    <3> QED BY <2>1, <3>1, <3>2, <3>3, <1>0, <1>1
  <2>2. CASE ~cut
    <3>1. mid = before \o <<>> BY <2>2
    <3>2. /\ IsList(before \o <<>>) /\ Len(before \o <<>>) = Len(before) + 0
          /\ \A i \in 1 .. Len(before) : (before \o <<>>)[i] = before[i]
      BY Nothing, Joined
    <3> HIDE DEF mid
    <3> QED BY <2>2, <3>1, <3>2, <1>0
  <2> QED BY <2>1, <2>2
<1>4. Close(before, cut) = mid \o s BY DEF Close
<1> HIDE DEF c, s, mid
<1>5. /\ IsList(mid \o s) /\ Len(mid \o s) = Len(mid) + Len(s)
      /\ \A i \in 1 .. Len(mid) : (mid \o s)[i] = mid[i]
      /\ \A i \in 1 .. Len(s) : (mid \o s)[Len(mid) + i] = s[i]
  <2>1. IsList(mid) /\ IsList(s) BY <1>2, <1>3
  <2> QED BY <2>1, Joined
<1>6. (mid \o s)[Len(mid) + 1] = [row |-> "summary"] BY <1>2, <1>5
<1>7. Len(mid \o s) = Len(before) + IF cut THEN 2 ELSE 1 BY <1>0, <1>2, <1>3, <1>5
<1>8. \A i \in 1 .. Len(before) : (mid \o s)[i] = before[i]
  <2> TAKE i \in 1 .. Len(before)
  <2>1. i \in 1 .. Len(mid) BY <1>0, <1>3
  <2> QED BY <2>1, <1>3, <1>5
<1>9. (mid \o s)[Len(before) + 1] = IF cut THEN [row |-> "cut"] ELSE [row |-> "summary"]
  <2>1. CASE cut
    <3>1. Len(before) + 1 \in 1 .. Len(mid) BY <2>1, <1>0, <1>3
    <3> QED BY <2>1, <3>1, <1>3, <1>5
  <2>2. CASE ~cut
    <3>1. Len(mid) = Len(before) BY <2>2, <1>0, <1>3
    <3> QED BY <2>2, <3>1, <1>6
  <2> QED BY <2>1, <2>2
<1> QED BY <1>4, <1>5, <1>7, <1>8, <1>9

-----------------------------------------------------------------------------
(* Windows.                                                                 *)

LEMMA WindowType ==
    ASSUME NEW w \in Windows
    PROVE  /\ w.pc \in Nat /\ w.len \in Nat /\ Len(w.insns) \in Nat
           /\ DOMAIN w.insns = 1 .. Len(w.insns)
           /\ \A i \in 1 .. Len(w.insns) :
                 /\ w.insns[i].at \in Nat /\ w.insns[i].size \in Nat \ {0}
                 /\ Stop(w.insns[i]) = w.insns[i].at + w.insns[i].size
                 /\ w.insns[i].ends \in Ends /\ w.insns[i].imms \in Seq(Nat)
           /\ Decoded(w)
<1>1. w \in [pc : Nat, len : Nat, insns : Seq(Insns)] /\ Decoded(w) BY DisasmAssumption
<1>2. /\ w.insns \in Seq(Insns) /\ Len(w.insns) \in Nat /\ DOMAIN w.insns = 1 .. Len(w.insns)
      /\ w.insns \in [1 .. Len(w.insns) -> Insns]
  BY <1>1, LenProperties
<1>3. \A i \in 1 .. Len(w.insns) : w.insns[i] \in Insns BY <1>2
<1> QED BY <1>1, <1>2, <1>3 DEF Insns, Stop

(* Instructions stand one behind the other, however far apart.              *)
LEMMA InOrder ==
    ASSUME NEW w \in Windows, NEW i \in 1 .. Len(w.insns), NEW j \in 1 .. Len(w.insns), i < j
    PROVE  Stop(w.insns[i]) <= w.insns[j].at
<1> DEFINE n == Len(w.insns)
           at(k) == w.insns[k].at
           stop(k) == Stop(w.insns[k])
           Bad == {k \in 1 .. n : i < k /\ ~(stop(i) <= at(k))}
<1>1. /\ n \in Nat
      /\ \A k \in 1 .. n : at(k) \in Nat /\ stop(k) \in Nat /\ at(k) < stop(k)
  <2>1. n \in Nat BY WindowType
  <2>2. ASSUME NEW k \in 1 .. n
        PROVE  at(k) \in Nat /\ stop(k) \in Nat /\ at(k) < stop(k)
    <3>1. at(k) \in Nat /\ w.insns[k].size \in Nat \ {0} /\ stop(k) = at(k) + w.insns[k].size
      BY WindowType
    <3> QED BY <3>1
  <2> QED BY <2>1, <2>2
<1>2. \A k \in 1 .. n : k # 1 => at(k) = stop(k - 1) BY WindowType DEF Decoded
<1> HIDE DEF n, at, stop
<1>3. ASSUME Bad # {} PROVE FALSE
  <2>1. Bad \in SUBSET Nat BY <1>1
  <2>2. PICK k \in Bad : \A m \in Bad : k <= m BY <1>3, <2>1, Least
  <2>3. k \in 1 .. n /\ i < k /\ ~(stop(i) <= at(k)) /\ k \in Nat /\ k # 1 /\ i \in 1 .. n
    BY <2>2 DEF n
  <2>4. k - 1 \in 1 .. n /\ at(k) = stop(k - 1) /\ i \in Nat BY <1>1, <1>2, <2>3
  <2>5. CASE k - 1 = i BY <1>1, <2>3, <2>4, <2>5
  <2>6. CASE k - 1 # i
    <3>1. i < k - 1 BY <2>3, <2>4, <2>6
    <3>2. k - 1 \notin Bad BY <2>2, <2>3, <2>1
    <3>3. stop(i) <= at(k - 1) BY <3>1, <3>2, <2>4
    <3> QED BY <3>3, <1>1, <2>3, <2>4
  <2> QED BY <2>5, <2>6
<1> QED BY <1>3, <1>1 DEF n, at, stop

(* What a pass remembers of a window is a finite set of addresses in it.    *)
LEMMA RememberedInWindow ==
    ASSUME NEW w \in Windows, NEW kinds
    PROVE  /\ Remembered(w, kinds) \in SUBSET Nat
           /\ IsFiniteSet(Remembered(w, kinds))
           /\ w.pc \in Remembered(w, kinds)
           /\ \A a \in Remembered(w, kinds) : a = w.pc \/ InWindow(w, a)
<1>1. ASSUME NEW s \in Sites(w, kinds) PROVE At(w, s) \in Nat /\ InWindow(w, At(w, s))
  <2>0. PICK i \in DOMAIN w.insns : \E j \in DOMAIN w.insns[i].imms :
            s = <<i, j>> /\ InWindow(w, w.insns[i].imms[j])
    BY DEF Sites
  <2>1. PICK j \in DOMAIN w.insns[i].imms : s = <<i, j>> /\ InWindow(w, w.insns[i].imms[j])
    BY <2>0
  <2>2. w.insns[i].imms[j] \in Nat
    <3>1. w.insns[i].imms \in Seq(Nat) BY WindowType
    <3> QED BY <3>1, LenProperties
  <2> QED BY <2>1, <2>2 DEF At
<1>2. \A a \in Remembered(w, kinds) : a = w.pc \/ (a \in Nat /\ InWindow(w, a))
  BY <1>1 DEF Remembered
<1>3. w.pc \in Nat /\ w.len \in Nat BY WindowType
<1>4. Remembered(w, kinds) \in SUBSET (w.pc .. w.pc + w.len)
  <2>1. \A a \in Nat : InWindow(w, a) => a \in w.pc .. w.pc + w.len BY <1>3 DEF InWindow
  <2>2. w.pc \in w.pc .. w.pc + w.len BY <1>3
  <2> QED BY <1>2, <2>1, <2>2
<1>5. IsFiniteSet(w.pc .. w.pc + w.len) BY <1>3, FS_Interval, SMTT(30)
<1>6. IsFiniteSet(Remembered(w, kinds)) BY <1>4, <1>5, FS_Subset
<1>7. w.pc \in Remembered(w, kinds) BY DEF Remembered
<1> QED BY <1>2, <1>3, <1>6, <1>7

LEMMA StartsSorted ==
    ASSUME NEW w \in Windows
    PROVE  /\ IsList(Starts(w)) /\ Len(Starts(w)) \in Nat
           /\ DOMAIN Starts(w) = 1 .. Len(Starts(w))
           /\ \A k \in 1 .. Len(Starts(w)) :
                  Starts(w)[k] \in Remembered(w, {"call"}) /\ Starts(w)[k] \in Nat
           /\ \A a \in Remembered(w, {"call"}) : \E k \in 1 .. Len(Starts(w)) : Starts(w)[k] = a
           /\ \A j, k \in 1 .. Len(Starts(w)) : j < k => Starts(w)[j] < Starts(w)[k]
<1> DEFINE S == Remembered(w, {"call"})
<1>1. S \in SUBSET Nat /\ IsFiniteSet(S) BY RememberedInWindow
<1>2. Starts(w) = Ascending(S) BY DEF Starts
<1> HIDE DEF S
<1>3. /\ Ascending(S) \in Seq(S) /\ Len(Ascending(S)) \in Nat
      /\ DOMAIN Ascending(S) = 1 .. Len(Ascending(S))
      /\ \A a \in S : \E k \in 1 .. Len(Ascending(S)) : Ascending(S)[k] = a
      /\ \A j, k \in 1 .. Len(Ascending(S)) : j < k => Ascending(S)[j] < Ascending(S)[k]
  BY <1>1, AscendingSorts
<1>4. \A k \in 1 .. Len(Ascending(S)) : Ascending(S)[k] \in S BY <1>3, LenProperties
<1>5. IsList(Ascending(S)) BY <1>3, LenProperties, Listed
<1> QED BY <1>1, <1>2, <1>3, <1>4, <1>5 DEF S

-----------------------------------------------------------------------------
(* The blocks of a window.                                                  *)

Closing(w) == {i \in DOMAIN w.insns : Closes(w, Leaders(w), i)}

LEMMA ClosingFinite ==
    ASSUME NEW w \in Windows
    PROVE  Closing(w) \in SUBSET Nat /\ IsFiniteSet(Closing(w))
<1>1. Closing(w) \in SUBSET (1 .. Len(w.insns)) /\ Len(w.insns) \in Nat
  BY WindowType DEF Closing
<1>2. IsFiniteSet(1 .. Len(w.insns)) BY <1>1, FS_Interval
<1> QED BY <1>1, <1>2, FS_Subset

LEMMA BlocksListed ==
    ASSUME NEW w \in Windows
    PROVE  /\ IsList(AllBlocks(w)) /\ Len(AllBlocks(w)) = Cardinality(Closing(w))
           /\ IsList(Blocks(w)) /\ Len(Blocks(w)) <= MaxBlocks
<1> DEFINE n == Cardinality(Closing(w))
<1>1. n \in Nat /\ DOMAIN Ascending(Closing(w)) = 1 .. n
  BY ClosingFinite, AscendingSorts
<1>2. IsList(AllBlocks(w)) /\ Len(AllBlocks(w)) = n
  <2>1. DOMAIN AllBlocks(w) = 1 .. n BY <1>1 DEF AllBlocks, Closing
  <2>2. AllBlocks(w) = [k \in 1 .. n |-> AllBlocks(w)[k]] BY <2>1 DEF AllBlocks
  <2> QED BY <1>1, <2>1, <2>2, Listed
<1>3. MaxBlocks \in Nat BY DisasmAssumption
<1> QED BY <1>2, <1>3, Shorter, ListLen DEF Blocks

-----------------------------------------------------------------------------
(* Every pass but the cross-references stays in the buffer.                 *)

LEMMA ListingFits ==
    ASSUME NEW w \in Windows PROVE Len(Listing(w)) <= RowMaxSeen
<1> DEFINE new == [i \in DOMAIN w.insns |-> [row |-> "insn", at |-> w.insns[i].at]]
<1>1. IsList(new)
  <2>1. Len(w.insns) \in Nat /\ DOMAIN w.insns = 1 .. Len(w.insns) BY WindowType
  <2> QED BY <2>1, Listed
<1>2. Listing(w) = Fill(<<>>, new, 0) BY DEF Listing
<1> HIDE DEF new
<1>3. RowMaxSeen \in Nat BY DisasmAssumption
<1> QED BY <1>1, <1>2, <1>3, Nothing, Filled

LEMMA FuncRowsListed ==
    ASSUME NEW w \in Windows
    PROVE  /\ IsList(FuncRows(w)) /\ Len(FuncRows(w)) <= RowMaxSeen - 4
           /\ Len(FuncRows(w)) <= Len(Starts(w))
           /\ \A k \in 1 .. Len(FuncRows(w)) :
                 FuncRows(w)[k] = FuncRow(w, Starts(w), Blocks(w), k)
<1> DEFINE rowOf == [k \in DOMAIN Starts(w) |-> FuncRow(w, Starts(w), Blocks(w), k)]
           some == FirstOf(rowOf, MaxFuncs)
<1>1. IsList(rowOf) /\ Len(rowOf) = Len(Starts(w)) /\ Len(Starts(w)) \in Nat
  BY StartsSorted, Listed
<1>2. \A k \in 1 .. Len(rowOf) : rowOf[k] = FuncRow(w, Starts(w), Blocks(w), k)
  BY <1>1, StartsSorted
<1>3. FuncRows(w) = Fill(<<>>, some, 4) BY DEF FuncRows
<1> HIDE DEF rowOf
<1>4. MaxFuncs \in Nat BY DisasmAssumption
<1>5. /\ IsList(some) /\ Len(some) <= Len(rowOf) /\ Len(some) \in Nat
      /\ \A k \in 1 .. Len(some) : some[k] = rowOf[k]
  BY <1>1, <1>4, Shorter, ListLen
<1> HIDE DEF some
<1>6. 4 \in Nat /\ 4 <= RowMaxSeen /\ Len(<<>>) <= RowMaxSeen - 4 /\ RowMaxSeen \in Nat
  BY DisasmAssumption, Nothing
<1>7. /\ IsList(FuncRows(w)) /\ Len(FuncRows(w)) <= RowMaxSeen - 4
      /\ Len(FuncRows(w)) <= 0 + Len(some)
      /\ \A i \in 1 .. Len(FuncRows(w)) - 0 : FuncRows(w)[0 + i] = some[i]
  BY <1>3, <1>5, <1>6, Nothing, Filled
<1>8. Len(FuncRows(w)) \in Nat BY <1>7, ListLen
<1> QED BY <1>1, <1>2, <1>5, <1>7, <1>8

LEMMA BlockRowsListed ==
    ASSUME NEW w \in Windows
    PROVE  /\ IsList(BlockRows(w)) /\ Len(BlockRows(w)) = Len(Blocks(w))
           /\ \A b \in 1 .. Len(Blocks(w)) : BlockRows(w)[b] = BlockRow(Starts(w), Blocks(w)[b])
<1>1. Len(Blocks(w)) \in Nat /\ DOMAIN Blocks(w) = 1 .. Len(Blocks(w)) BY BlocksListed, ListLen
<1> QED BY <1>1, Listed DEF BlockRows

LEMMA FuncsFit ==
    ASSUME NEW w \in Windows PROVE Len(Funcs(w)) <= RowMaxSeen
<1> DEFINE funcs == FuncRows(w)
           all == Fill(funcs, BlockRows(w), 2)
           cut == \/ Len(Starts(w)) > Len(funcs)
                  \/ Len(funcs) + Len(Blocks(w)) > Len(all)
                  \/ SomeCut(w)
<1>1. IsList(funcs) /\ Len(funcs) <= RowMaxSeen - 4 /\ IsList(BlockRows(w))
  BY FuncRowsListed, BlockRowsListed
<1>2. Len(funcs) \in Nat /\ RowMaxSeen \in Nat /\ RowMaxSeen >= 4
  BY <1>1, ListLen, DisasmAssumption
<1>3. IsList(all) /\ Len(all) <= RowMaxSeen - 2 /\ Len(all) \in Nat
  <2> HIDE DEF funcs
  <2>1. 2 \in Nat /\ 2 <= RowMaxSeen /\ Len(funcs) <= RowMaxSeen - 2 BY <1>1, <1>2
  <2> QED BY <1>1, <2>1, Filled, ListLen
<1>4. Funcs(w) = Close(all, cut) BY DEF Funcs
<1>5. cut \in BOOLEAN OBVIOUS
<1> HIDE DEF all, cut
<1>6. Len(Close(all, cut)) = Len(all) + IF cut THEN 2 ELSE 1 BY <1>3, <1>5, Closed
<1> QED BY <1>2, <1>3, <1>4, <1>6

LEMMA EdgesListed ==
    ASSUME NEW w \in Windows
    PROVE  IsList(AllEdges(w))
<1> DEFINE blocks == Blocks(w)
           S == {2 * b : b \in Jumping(w, blocks)} \cup {2 * b + 1 : b \in Falling(blocks)}
           n == Cardinality(S)
<1>1. Len(blocks) \in Nat /\ DOMAIN blocks = 1 .. Len(blocks) BY BlocksListed, ListLen
<1>2. \A b \in Jumping(w, blocks) \cup Falling(blocks) : b \in 1 .. Len(blocks)
  BY <1>1 DEF Jumping, Falling
<1>3. S \in SUBSET (0 .. 2 * Len(blocks) + 1)
  <2> HIDE DEF blocks
  <2> QED BY <1>1, <1>2
<1>4. S \in SUBSET Nat /\ IsFiniteSet(S)
  <2> HIDE DEF S, blocks
  <2>1. IsFiniteSet(0 .. 2 * Len(blocks) + 1) BY <1>1, FS_Interval
  <2>2. S \in SUBSET Nat BY <1>1, <1>3
  <2> QED BY <1>3, <2>1, <2>2, FS_Subset
<1>5. n \in Nat /\ DOMAIN Ascending(S) = 1 .. n
  <2> HIDE DEF S
  <2> QED BY <1>4, AscendingSorts
<1>6. DOMAIN AllEdges(w) = 1 .. n BY <1>5 DEF AllEdges
<1>7. AllEdges(w) = [k \in 1 .. n |-> AllEdges(w)[k]] BY <1>6 DEF AllEdges
<1> HIDE DEF n
<1> QED BY <1>5, <1>6, <1>7, Listed

LEMMA CfgFits ==
    ASSUME NEW w \in Windows PROVE Len(Cfg(w)) <= RowMaxSeen
<1> DEFINE blocks == Blocks(w)
           edges == FirstOf(AllEdges(w), MaxEdges)
           ways == [e \in DOMAIN edges |-> [row |-> "edge", edge |-> edges[e]]]
           arrows == Fill(<<>>, ways, 4)
           degrees == [b \in DOMAIN blocks |-> DegreeRow(edges, blocks[b].from, b)]
           all == Fill(arrows, degrees, 4)
           cut == \/ Len(AllEdges(w)) > Len(arrows)
                  \/ Len(arrows) + Len(blocks) > Len(all)
                  \/ BlocksCut(w) \/ Forgets(w, {"call", "jump"})
<1>1. RowMaxSeen \in Nat /\ RowMaxSeen >= 4 /\ MaxEdges \in Nat BY DisasmAssumption
<1>2. IsList(edges) /\ Len(edges) \in Nat /\ DOMAIN edges = 1 .. Len(edges)
  BY <1>1, EdgesListed, Shorter, ListLen
<1>3. IsList(ways)
  <2> HIDE DEF edges
  <2> QED BY <1>2, Listed
<1>4. IsList(degrees)
  <2>1. Len(blocks) \in Nat /\ DOMAIN blocks = 1 .. Len(blocks) BY BlocksListed, ListLen
  <2> HIDE DEF edges, blocks
  <2> QED BY <2>1, Listed
<1>5. Cfg(w) = Close(all, cut) BY DEF Cfg
<1>6. cut \in BOOLEAN OBVIOUS
<1> HIDE DEF ways, degrees, cut
<1>7. IsList(arrows) /\ Len(arrows) <= RowMaxSeen - 4
  BY <1>1, <1>3, Nothing, Filled
<1> HIDE DEF arrows
<1>8. IsList(all) /\ Len(all) <= RowMaxSeen - 4 /\ Len(all) \in Nat
  BY <1>1, <1>4, <1>7, Filled, ListLen
<1> HIDE DEF all
<1>9. Len(Close(all, cut)) = Len(all) + IF cut THEN 2 ELSE 1 BY <1>6, <1>8, Closed
<1> QED BY <1>1, <1>5, <1>8, <1>9

-----------------------------------------------------------------------------
(* Blocks are runs of instructions between two places where one closes.     *)

LastOf(w, k) == Ascending(Closing(w))[k]
FirstIn(w, k) == IF k = 1 THEN 1 ELSE LastOf(w, k - 1) + 1
Count(w) == Len(AllBlocks(w))

LEMMA BlockRun ==
    ASSUME NEW w \in Windows, NEW k \in 1 .. Count(w)
    PROVE  /\ LastOf(w, k) \in Closing(w) /\ LastOf(w, k) \in 1 .. Len(w.insns)
           /\ FirstIn(w, k) \in 1 .. LastOf(w, k)
           /\ AllBlocks(w)[k].from = w.insns[FirstIn(w, k)].at
           /\ AllBlocks(w)[k].to = Stop(w.insns[LastOf(w, k)])
           /\ \A m \in 1 .. Count(w) : m < k => LastOf(w, m) < FirstIn(w, k)
<1> DEFINE S == Closing(w)
           n == Cardinality(S)
<1>1. S \in SUBSET Nat /\ IsFiniteSet(S) /\ Count(w) = n BY ClosingFinite, BlocksListed DEF Count
<1>2. S \in SUBSET (1 .. Len(w.insns)) /\ Len(w.insns) \in Nat BY WindowType DEF Closing
<1>3. n \in Nat /\ DOMAIN Ascending(S) = 1 .. n BY <1>1, AscendingSorts
<1>4. \A j \in 1 .. n : LastOf(w, j) \in S
  <2> HIDE DEF S
  <2> \A j \in 1 .. n : Ascending(S)[j] \in S BY <1>1, AscendingMember
  <2> QED BY DEF LastOf, S
<1>5. \A i, j \in 1 .. n : i < j => LastOf(w, i) < LastOf(w, j)
  <2> HIDE DEF S
  <2> \A i, j \in 1 .. n : i < j => Ascending(S)[i] < Ascending(S)[j] BY <1>1, AscendingSorts
  <2> QED BY DEF LastOf, S
<1>6. AllBlocks(w)[k].from = w.insns[FirstIn(w, k)].at
      /\ AllBlocks(w)[k].to = Stop(w.insns[LastOf(w, k)])
  BY <1>1, <1>3 DEF AllBlocks, Closing, LastOf, FirstIn
<1> HIDE DEF S, n
<1>7. \A j \in 1 .. n : LastOf(w, j) \in 1 .. Len(w.insns) BY <1>2, <1>4
<1>8. CASE k = 1
  <2>1. FirstIn(w, k) = 1 /\ \A m \in 1 .. n : ~(m < k) BY <1>8, <1>3 DEF FirstIn
  <2> QED BY <1>1, <1>2, <1>4, <1>6, <1>7, <2>1 DEF S
<1>9. CASE k # 1
  <2>1. k - 1 \in 1 .. n /\ k \in 1 .. n /\ k - 1 < k BY <1>1, <1>3, <1>9
  <2>2. FirstIn(w, k) = LastOf(w, k - 1) + 1 BY <1>9 DEF FirstIn
  <2>3. LastOf(w, k - 1) < LastOf(w, k) BY <1>5, <2>1
  <2>4. FirstIn(w, k) \in 1 .. LastOf(w, k) BY <1>2, <1>7, <2>1, <2>2, <2>3
  <2>5. ASSUME NEW m \in 1 .. n, m < k PROVE LastOf(w, m) < FirstIn(w, k)
    <3>1. m = k - 1 \/ m < k - 1 BY <2>1, <2>5, <1>3
    <3>2. LastOf(w, m) <= LastOf(w, k - 1) BY <3>1, <2>1, <1>5, <1>7
    <3> QED BY <3>2, <2>1, <2>2, <1>7
  <2> QED BY <1>1, <1>4, <1>6, <1>7, <2>1, <2>4, <2>5 DEF S
<1> QED BY <1>8, <1>9

LEMMA BlockAround ==
    ASSUME NEW w \in Windows, NEW i \in 1 .. Len(w.insns)
    PROVE  \E k \in 1 .. Count(w) :
              /\ FirstIn(w, k) <= i /\ i <= LastOf(w, k)
              /\ \A m \in 1 .. Count(w) :
                     FirstIn(w, m) <= i /\ i <= LastOf(w, m) => m = k
<1> DEFINE n == Len(w.insns)
           C == {c \in Closing(w) : i <= c}
<1>1. n \in Nat /\ i \in 1 .. n /\ DOMAIN w.insns = 1 .. n BY WindowType
<1>2. n \in Closing(w) BY <1>1 DEF Closing, Closes
<1>3. C \in SUBSET Nat /\ C # {} BY <1>1, <1>2, ClosingFinite
<1>4. PICK c \in C : \A d \in C : c <= d
  <2> HIDE DEF C
  <2> QED BY <1>3, Least
<1>5. PICK k \in 1 .. Count(w) : LastOf(w, k) = c
  <2>1. c \in Closing(w) BY <1>4
  <2> QED BY <2>1, ClosingFinite, AscendingSorts, BlocksListed DEF LastOf, Count
<1>6. Count(w) \in Nat BY BlocksListed, ListLen DEF Count
<1>7. \A m \in 1 .. Count(w) : LastOf(w, m) \in Closing(w) /\ LastOf(w, m) \in Nat
                               /\ FirstIn(w, m) \in Nat
  BY BlockRun
<1>8. FirstIn(w, k) <= i
  <2>1. CASE k = 1 BY <2>1, <1>1 DEF FirstIn
  <2>2. CASE k # 1
    <3>1. k - 1 \in 1 .. Count(w) /\ k - 1 < k BY <2>2, <1>6
    <3>2. FirstIn(w, k) = LastOf(w, k - 1) + 1 BY <2>2 DEF FirstIn
    <3>3. LastOf(w, k - 1) < FirstIn(w, k) /\ FirstIn(w, k) <= c BY <3>1, <1>5, BlockRun
    <3>4. LastOf(w, k - 1) \notin C BY <3>3, <1>3, <1>4, <1>7, <3>1
    <3>5. ~(i <= LastOf(w, k - 1)) BY <3>1, <3>4, <1>7
    <3> QED BY <3>1, <3>2, <3>5, <1>1, <1>7
  <2> QED BY <2>1, <2>2
<1>9. ASSUME NEW m \in 1 .. Count(w), FirstIn(w, m) <= i, i <= LastOf(w, m) PROVE m = k
  <2>1. ~(m < k)
    <3>1. m < k => LastOf(w, m) < c /\ LastOf(w, m) \in C
      <4> SUFFICES ASSUME m < k PROVE LastOf(w, m) < c /\ LastOf(w, m) \in C OBVIOUS
      <4>1. LastOf(w, m) < FirstIn(w, k) /\ FirstIn(w, k) <= c BY <1>5, BlockRun
      <4> QED BY <4>1, <1>3, <1>4, <1>7, <1>9
    <3> QED BY <3>1, <1>3, <1>4, <1>7
  <2>2. ~(k < m)
    <3>1. k < m => c < FirstIn(w, m) BY <1>5, BlockRun
    <3> QED BY <3>1, <1>1, <1>3, <1>4, <1>7, <1>9
  <2> QED BY <2>1, <2>2, <1>6
<1> QED BY <1>4, <1>5, <1>8, <1>9

(* Nothing closes a block before its last instruction.                      *)
LEMMA BlockOpen ==
    ASSUME NEW w \in Windows, NEW k \in 1 .. Count(w), NEW j \in Closing(w),
           FirstIn(w, k) <= j, j < LastOf(w, k)
    PROVE  FALSE
<1>1. PICK m \in 1 .. Count(w) : LastOf(w, m) = j
  BY ClosingFinite, AscendingSorts, BlocksListed DEF LastOf, Count
<1>2. Count(w) \in Nat /\ j \in Nat /\ LastOf(w, k) \in Nat /\ FirstIn(w, k) \in Nat
      /\ FirstIn(w, m) \in Nat /\ FirstIn(w, m) <= j
  BY <1>1, BlockRun, BlocksListed, ListLen, ClosingFinite DEF Count
<1>3. m < k => j < FirstIn(w, k) BY <1>1, BlockRun
<1>4. k < m => LastOf(w, k) < FirstIn(w, m) BY BlockRun
<1> QED BY <1>1, <1>2, <1>3, <1>4

-----------------------------------------------------------------------------
(* An answer of the function pass without a cut is complete.                *)

(* One table filled in behind another, and closed without a cut.            *)
LEMMA TablesWhole ==
    ASSUME NEW first, NEW second, IsList(first), IsList(second),
           NEW reserve \in Nat, reserve <= RowMaxSeen, Len(first) <= RowMaxSeen - reserve,
           NEW all, all = Fill(first, second, reserve),
           NEW cut \in BOOLEAN, Len(first) + Len(second) > Len(all) => cut,
           \A k \in DOMAIN Close(all, cut) : Close(all, cut)[k].row # "cut"
    PROVE  /\ ~cut
           /\ DOMAIN Close(all, cut) = 1 .. Len(first) + Len(second) + 1
           /\ \A k \in 1 .. Len(first) : Close(all, cut)[k] = first[k]
           /\ \A b \in 1 .. Len(second) : Close(all, cut)[Len(first) + b] = second[b]
           /\ Close(all, cut)[Len(first) + Len(second) + 1] = [row |-> "summary"]
<1> DEFINE answer == Close(all, cut)
<1>1. Len(first) \in Nat /\ Len(second) \in Nat BY ListLen
<1>2. Stacked(all, first, second) BY FilledBy
<1>3. Len(all) <= Len(first) + Len(second) BY <1>2 DEF Stacked
<1>4. \A i \in 1 .. Len(first) : all[i] = first[i] BY <1>2 DEF Stacked
<1>5. \A i \in 1 .. Len(all) - Len(first) : all[Len(first) + i] = second[i]
  BY <1>2 DEF Stacked
<1>6. IsList(all) /\ Len(all) \in Nat BY <1>2 DEF Stacked
<1>7. /\ IsList(answer) /\ Len(answer) = Len(all) + IF cut THEN 2 ELSE 1
      /\ \A i \in 1 .. Len(all) : answer[i] = all[i]
      /\ answer[Len(all) + 1] = IF cut THEN [row |-> "cut"] ELSE [row |-> "summary"]
  BY <1>6, Closed
<1>8. \A k \in DOMAIN answer : answer[k].row # "cut" OBVIOUS
<1> HIDE DEF answer
<1>9. DOMAIN answer = 1 .. Len(answer) BY <1>7, ListLen
<1>10. ~cut
  <2> SUFFICES ASSUME cut PROVE FALSE OBVIOUS
  <2>1. Len(all) + 1 \in DOMAIN answer /\ answer[Len(all) + 1] = [row |-> "cut"]
    BY <1>6, <1>7, <1>9
  <2> QED BY <2>1, <1>8
<1>11. Len(all) = Len(first) + Len(second) BY <1>1, <1>3, <1>6, <1>10
<1>12. \A b \in 1 .. Len(second) : answer[Len(first) + b] = second[b]
  <2> TAKE b \in 1 .. Len(second)
  <2>1. Len(first) + b \in 1 .. Len(all) /\ b \in 1 .. Len(all) - Len(first)
    BY <1>1, <1>11
  <2> QED BY <2>1, <1>5, <1>7
<1>13. \A k \in 1 .. Len(first) : answer[k] = first[k]
  <2> TAKE k \in 1 .. Len(first)
  <2>1. k \in 1 .. Len(all) BY <1>1, <1>11
  <2> QED BY <2>1, <1>4, <1>7
<1> QED BY <1>7, <1>9, <1>10, <1>11, <1>12, <1>13 DEF answer

LEMMA BlocksWhole ==
    ASSUME NEW w \in Windows, ~BlocksCut(w)
    PROVE  Blocks(w) = AllBlocks(w)
<1>1. IsList(AllBlocks(w)) /\ Len(AllBlocks(w)) \in Nat /\ MaxBlocks \in Nat
  BY BlocksListed, ListLen, DisasmAssumption
<1>2. ~(Len(AllBlocks(w)) > MaxBlocks) BY DEF BlocksCut
<1>3. /\ IsList(Blocks(w)) /\ Len(Blocks(w)) = Len(AllBlocks(w))
      /\ \A k \in 1 .. Len(Blocks(w)) : Blocks(w)[k] = AllBlocks(w)[k]
  BY <1>1, <1>2, Shorter DEF Blocks
<1> QED BY <1>1, <1>3, LenProperties DEF IsList

Uncut(w) == \A k \in DOMAIN Funcs(w) : Funcs(w)[k].row # "cut"

LEMMA FuncsWhole ==
    ASSUME NEW w \in Windows, Uncut(w)
    PROVE  /\ ~Forgets(w, {"call"}) /\ ~Forgets(w, {"call", "jump"})
           /\ Blocks(w) = AllBlocks(w)
           /\ DOMAIN Funcs(w) = 1 .. Len(Starts(w)) + Count(w) + 1
           /\ \A k \in 1 .. Len(Starts(w)) :
                  Funcs(w)[k] = FuncRow(w, Starts(w), AllBlocks(w), k)
           /\ \A b \in 1 .. Count(w) :
                  Funcs(w)[Len(Starts(w)) + b] = BlockRow(Starts(w), AllBlocks(w)[b])
           /\ Funcs(w)[Len(Starts(w)) + Count(w) + 1] = [row |-> "summary"]
<1> DEFINE funcs == FuncRows(w)
           blockRows == BlockRows(w)
           all == Fill(funcs, blockRows, 2)
           cut == \/ Len(Starts(w)) > Len(funcs)
                  \/ Len(funcs) + Len(Blocks(w)) > Len(all)
                  \/ SomeCut(w)
<1>1. IsList(funcs) /\ Len(funcs) <= RowMaxSeen - 4 /\ Len(funcs) <= Len(Starts(w))
  BY FuncRowsListed
<1>2. IsList(blockRows) /\ Len(blockRows) = Len(Blocks(w)) BY BlockRowsListed
<1>3. /\ Len(funcs) \in Nat /\ RowMaxSeen \in Nat /\ RowMaxSeen >= 4
      /\ Len(Starts(w)) \in Nat /\ Len(Blocks(w)) \in Nat
  BY <1>1, ListLen, DisasmAssumption, StartsSorted, BlocksListed
<1>4. Funcs(w) = Close(all, cut) BY DEF Funcs
<1>5. cut \in BOOLEAN OBVIOUS
<1>6. \A k \in 1 .. Len(funcs) : funcs[k] = FuncRow(w, Starts(w), Blocks(w), k)
  BY FuncRowsListed
<1>7. \A b \in 1 .. Len(Blocks(w)) : blockRows[b] = BlockRow(Starts(w), Blocks(w)[b])
  BY BlockRowsListed
<1> HIDE DEF funcs, blockRows
<1>8. all = Fill(funcs, blockRows, 2) OBVIOUS
<1>9. cut = FALSE => Len(Starts(w)) <= Len(funcs) /\ ~SomeCut(w)
  <2> HIDE DEF all
  <2>1. cut = FALSE => ~(Len(Starts(w)) > Len(funcs)) /\ ~SomeCut(w) OBVIOUS
  <2> QED BY <2>1, <1>3
<1>10. Len(funcs) + Len(blockRows) > Len(all) => cut BY <1>2
<1> HIDE DEF all, cut
<1>11. /\ ~cut
       /\ DOMAIN Funcs(w) = 1 .. Len(funcs) + Len(blockRows) + 1
       /\ \A k \in 1 .. Len(funcs) : Funcs(w)[k] = funcs[k]
       /\ \A b \in 1 .. Len(blockRows) : Funcs(w)[Len(funcs) + b] = blockRows[b]
       /\ Funcs(w)[Len(funcs) + Len(blockRows) + 1] = [row |-> "summary"]
  <2>1. 2 \in Nat /\ 2 <= RowMaxSeen /\ Len(funcs) <= RowMaxSeen - 2 BY <1>1, <1>3
  <2>2. IsList(funcs) /\ IsList(blockRows) BY <1>1, <1>2
  <2>3. \A k \in DOMAIN Close(all, cut) : Close(all, cut)[k].row # "cut" BY <1>4 DEF Uncut
  <2> QED BY <2>1, <2>2, <2>3, <1>4, <1>5, <1>8, <1>10, TablesWhole
<1>12. Len(funcs) = Len(Starts(w)) /\ ~SomeCut(w) BY <1>1, <1>3, <1>5, <1>9, <1>11
<1>13. Blocks(w) = AllBlocks(w) BY <1>12, BlocksWhole DEF SomeCut
<1> QED BY <1>2, <1>6, <1>7, <1>11, <1>12, <1>13 DEF SomeCut, Count

(* What is not forgotten is remembered.                                     *)
LEMMA RememberedAll ==
    ASSUME NEW w \in Windows, NEW kinds, ~Forgets(w, kinds)
    PROVE  Remembered(w, kinds) = {w.pc} \cup PointedAt(w, kinds)
<1>0. w.pc \in Nat /\ w.len \in Nat BY WindowType
<1>1. ASSUME NEW s \in Sites(w, kinds) PROVE At(w, s) \in PointedAt(w, kinds)
  <2>1. PICK i \in DOMAIN w.insns : w.insns[i].ends \in kinds /\ \E j \in DOMAIN w.insns[i].imms :
            s = <<i, j>> /\ InWindow(w, w.insns[i].imms[j])
    BY DEF Sites
  <2>2. PICK j \in DOMAIN w.insns[i].imms : s = <<i, j>> /\ InWindow(w, w.insns[i].imms[j])
    BY <2>1
  <2>3. At(w, s) = w.insns[i].imms[j] BY <2>2 DEF At
  <2>4. w.insns[i].imms[j] \in Nat
    <3>1. w.insns[i].imms \in Seq(Nat) BY <2>1, WindowType
    <3> QED BY <2>2, <3>1, LenProperties
  <2>5. w.insns[i].imms[j] \in w.pc .. w.pc + w.len BY <2>2, <2>4, <1>0 DEF InWindow
  <2> QED BY <2>1, <2>2, <2>3, <2>5 DEF PointedAt, Range
<1>2. ASSUME NEW a \in PointedAt(w, kinds) PROVE a \in Remembered(w, kinds)
  <2>1. PICK i \in DOMAIN w.insns : w.insns[i].ends \in kinds /\ a \in Range(w.insns[i].imms)
    BY DEF PointedAt
  <2>2. PICK j \in DOMAIN w.insns[i].imms : a = w.insns[i].imms[j] BY <2>1 DEF Range
  <2>3. InWindow(w, a) BY DEF PointedAt
  <2>4. <<i, j>> \in Sites(w, kinds) BY <2>1, <2>2, <2>3 DEF Sites
  <2>5. At(w, <<i, j>>) = a BY <2>2 DEF At
  <2> QED BY <2>4, <2>5 DEF Forgets
<1>3. ASSUME NEW a \in Remembered(w, kinds) PROVE a = w.pc \/ a \in PointedAt(w, kinds)
  BY <1>1 DEF Remembered
<1>4. w.pc \in Remembered(w, kinds) BY DEF Remembered
<1> QED BY <1>2, <1>3, <1>4

-----------------------------------------------------------------------------
(* Rows are always the answer of the last pass to the window at hand.       *)

DisasmInv ==
    /\ window \in Windows
    /\ pass \in {"none", "run", "xrefs", "funcs", "cfg"}
    /\ pass = "none" => rows = <<>>
    /\ pass = "run" => rows = Answer(window, Listing(window))
    /\ pass = "funcs" => rows = Answer(window, Funcs(window))
    /\ pass = "cfg" => rows = Answer(window, Cfg(window))

LEMMA DisasmInvHolds == Spec => []DisasmInv
<1>1. Init => DisasmInv BY DEF Init, DisasmInv
<1>2. DisasmInv /\ [Next]_vars => DisasmInv'
  <2> SUFFICES ASSUME DisasmInv, [Next]_vars PROVE DisasmInv' OBVIOUS
  <2> USE DEF DisasmInv
  <2>1. CASE DisasmRun BY <2>1 DEF DisasmRun
  <2>2. CASE DisasmXrefs BY <2>2 DEF DisasmXrefs
  <2>3. CASE DisasmFuncs BY <2>3 DEF DisasmFuncs
  <2>4. CASE DisasmCfg BY <2>4 DEF DisasmCfg
  <2>5. CASE UNCHANGED vars BY <2>5 DEF vars
  <2> QED BY <2>1, <2>2, <2>3, <2>4, <2>5 DEF Next
<1> QED BY <1>1, <1>2, PTL DEF Spec

(* No window and no caps make the listing, the function pass or the graph   *)
(* pass write behind the row buffer.                                        *)
THEOREM RowsAlwaysFit == Spec => []RowsFit
<1>1. DisasmInv => RowsFit
  <2> SUFFICES ASSUME DisasmInv, pass # "xrefs" PROVE Len(rows) <= RowMaxSeen BY DEF RowsFit
  <2>1. Len(<<>>) <= RowMaxSeen BY DisasmAssumption
  <2>2. window \in Windows BY DEF DisasmInv
  <2>3. /\ Len(Answer(window, Listing(window))) <= RowMaxSeen
        /\ Len(Answer(window, Funcs(window))) <= RowMaxSeen
        /\ Len(Answer(window, Cfg(window))) <= RowMaxSeen
    BY <2>1, <2>2, ListingFits, FuncsFit, CfgFits DEF Answer
  <2> QED BY <2>1, <2>3 DEF DisasmInv
<1> QED BY <1>1, DisasmInvHolds, PTL

-----------------------------------------------------------------------------
(* What an uncut answer of the function pass holds, row by row.             *)

LEMMA FuncRowHolds ==
    ASSUME NEW w, NEW starts, NEW blocks, NEW k
    PROVE  /\ FuncRow(w, starts, blocks, k).row = "func"
           /\ FuncRow(w, starts, blocks, k).func = k
           /\ FuncRow(w, starts, blocks, k).start = starts[k]
           /\ FuncRow(w, starts, blocks, k).end = FuncEnd(w, starts, k)
BY DEF FuncRow

LEMMA FuncRowCounts ==
    ASSUME NEW w, NEW starts, NEW blocks, NEW k
    PROVE  FuncRow(w, starts, blocks, k).blocks =
              Cardinality({b \in DOMAIN blocks : /\ starts[k] <= blocks[b].from
                                                 /\ blocks[b].from < FuncEnd(w, starts, k)})
BY DEF FuncRow

LEMMA BlockRowHolds ==
    ASSUME NEW starts, NEW b
    PROVE  /\ BlockRow(starts, b).row = "block"
           /\ BlockRow(starts, b).func = Owner(starts, b)
           /\ BlockRow(starts, b).start = b.from
           /\ BlockRow(starts, b).end = b.to
BY DEF BlockRow

Behind(b) == Len(Starts(window)) + b

LEMMA FuncAnswer ==
    ASSUME DisasmInv, Whole("funcs")
    PROVE  /\ window \in Windows /\ window.insns # <<>> /\ Uncut(window)
           /\ Len(Starts(window)) \in Nat /\ Count(window) \in Nat
           /\ Of("func") = 1 .. Len(Starts(window))
           /\ Of("block") = {Behind(b) : b \in 1 .. Count(window)}
           /\ \A f \in 1 .. Len(Starts(window)) :
                  /\ rows[f] = FuncRow(window, Starts(window), AllBlocks(window), f)
           /\ \A b \in 1 .. Count(window) :
                  rows[Behind(b)] = BlockRow(Starts(window), AllBlocks(window)[b])
<1> DEFINE ns == Len(Starts(window))
           nb == Count(window)
<1>1. pass = "funcs" /\ rows # <<>> /\ Of("cut") = {} BY DEF Whole
<1>2. window \in Windows /\ window.insns # <<>> /\ rows = Funcs(window)
  BY <1>1 DEF DisasmInv, Answer
<1>3. Uncut(window) BY <1>1, <1>2 DEF Uncut, Of
<1>4. ns \in Nat /\ nb \in Nat BY <1>2, StartsSorted, BlocksListed, ListLen DEF Count
<1>5. /\ DOMAIN rows = 1 .. ns + nb + 1
      /\ \A k \in 1 .. ns : rows[k] = FuncRow(window, Starts(window), AllBlocks(window), k)
      /\ \A b \in 1 .. nb : rows[ns + b] = BlockRow(Starts(window), AllBlocks(window)[b])
      /\ rows[ns + nb + 1] = [row |-> "summary"]
  BY <1>2, <1>3, FuncsWhole
<1>6. \A k \in 1 .. ns : rows[k].row = "func" BY <1>5, FuncRowHolds
<1>7. \A b \in 1 .. nb : rows[ns + b].row = "block" BY <1>5, BlockRowHolds
<1>8. rows[ns + nb + 1].row = "summary" BY <1>5
<1> HIDE DEF ns, nb
<1>9. \A k \in DOMAIN rows : \/ k \in 1 .. ns
                              \/ (k - ns \in 1 .. nb /\ k = ns + (k - ns))
                              \/ k = ns + nb + 1
  BY <1>4, <1>5
<1>10. Of("func") = 1 .. ns
  <2>1. \A k \in 1 .. ns : k \in DOMAIN rows BY <1>4, <1>5
  <2> QED BY <2>1, <1>6, <1>7, <1>8, <1>9 DEF Of
<1>11. Of("block") = {ns + b : b \in 1 .. nb}
  <2>1. \A b \in 1 .. nb : ns + b \in DOMAIN rows BY <1>4, <1>5
  <2> QED BY <2>1, <1>6, <1>7, <1>8, <1>9 DEF Of
<1> QED BY <1>2, <1>3, <1>4, <1>5, <1>10, <1>11 DEF Behind, ns, nb

(* However many calls there are and wherever they point: an uncut answer    *)
(* has a function for the entry and for each call target in the window.     *)
THEOREM EveryFunctionAlwaysListed == Spec => []EveryFunctionListed
<1>1. DisasmInv => EveryFunctionListed
  <2> SUFFICES ASSUME DisasmInv, Whole("funcs")
               PROVE  {rows[k].start : k \in Of("func")}
                         = {window.pc} \cup PointedAt(window, {"call"})
    BY DEF EveryFunctionListed
  <2> DEFINE ns == Len(Starts(window))
  <2>1. /\ window \in Windows /\ Uncut(window) /\ Of("func") = 1 .. ns
        /\ \A f \in 1 .. ns : rows[f] = FuncRow(window, Starts(window), AllBlocks(window), f)
    BY FuncAnswer
  <2>2. \A f \in 1 .. ns : rows[f].start = Starts(window)[f] BY <2>1, FuncRowHolds
  <2>3. Remembered(window, {"call"}) = {window.pc} \cup PointedAt(window, {"call"})
    BY <2>1, FuncsWhole, RememberedAll
  <2>4. /\ \A k \in 1 .. ns : Starts(window)[k] \in Remembered(window, {"call"})
        /\ \A a \in Remembered(window, {"call"}) : \E k \in 1 .. ns : Starts(window)[k] = a
    BY <2>1, StartsSorted
  <2> HIDE DEF ns
  <2>5. {rows[k].start : k \in 1 .. ns} = Remembered(window, {"call"}) BY <2>2, <2>4
  <2> QED BY <2>1, <2>3, <2>5
<1> QED BY <1>1, DisasmInvHolds, PTL

-----------------------------------------------------------------------------
(* The instruction an address belongs to, and the block around it.          *)

LEMMA OneRow ==
    ASSUME NEW S, NEW x, x \in S, \A y \in S : y = x
    PROVE  Cardinality(S) = 1
<1>1. S = {x} OBVIOUS
<1> QED BY <1>1, FS_Singleton

LEMMA BlockRowAround ==
    ASSUME DisasmInv, Whole("funcs"), NEW i \in 1 .. Len(window.insns),
           NEW k \in 1 .. Count(window)
    PROVE  Behind(k) \in Around("block", window.insns[i].at)
              <=> FirstIn(window, k) <= i /\ i <= LastOf(window, k)
<1> DEFINE w == window
           f == FirstIn(w, k)
           l == LastOf(w, k)
           at(j) == w.insns[j].at
           stop(j) == Stop(w.insns[j])
           n == Len(w.insns)
<1>1. w \in Windows /\ Behind(k) \in Of("block")
      /\ rows[Behind(k)] = BlockRow(Starts(w), AllBlocks(w)[k])
  BY FuncAnswer
<1>2. f \in 1 .. n /\ l \in 1 .. n /\ n \in Nat
      /\ rows[Behind(k)].start = at(f) /\ rows[Behind(k)].end = stop(l)
  <2>1. /\ l \in 1 .. n /\ f \in 1 .. l /\ n \in Nat
        /\ AllBlocks(w)[k].from = at(f) /\ AllBlocks(w)[k].to = stop(l)
    BY <1>1, BlockRun, WindowType
  <2>2. /\ rows[Behind(k)].start = AllBlocks(w)[k].from
        /\ rows[Behind(k)].end = AllBlocks(w)[k].to
    BY <1>1, BlockRowHolds
  <2> HIDE DEF f, l, n, at, stop
  <2> QED BY <2>1, <2>2
<1>3. \A j \in 1 .. n : at(j) \in Nat /\ stop(j) \in Nat /\ at(j) < stop(j)
  <2> TAKE j \in 1 .. n
  <2>1. at(j) \in Nat /\ w.insns[j].size \in Nat \ {0} /\ stop(j) = at(j) + w.insns[j].size
    BY <1>1, WindowType
  <2> QED BY <2>1
<1>4. \A j, m \in 1 .. n : j < m => stop(j) <= at(m) BY <1>1, InOrder
<1>5. Behind(k) \in Around("block", at(i)) <=> at(f) <= at(i) /\ at(i) < stop(l)
  BY <1>1, <1>2 DEF Around
<1>6. i \in 1 .. n OBVIOUS
<1> HIDE DEF f, l, n, at, stop
<1>7. f <= i => at(f) <= at(i)
  <2>1. CASE f = i BY <2>1, <1>3, <1>6
  <2>2. CASE f < i
    <3>1. stop(f) <= at(i) /\ at(f) < stop(f) /\ at(f) \in Nat /\ stop(f) \in Nat /\ at(i) \in Nat
      BY <2>2, <1>2, <1>3, <1>4, <1>6
    <3> QED BY <3>1
  <2> QED BY <2>1, <2>2, <1>2, <1>6
<1>8. i < f => ~(at(f) <= at(i)) BY <1>2, <1>3, <1>4, <1>6
<1>9. i <= l => at(i) < stop(l) BY <1>2, <1>3, <1>4, <1>6
<1>10. l < i => ~(at(i) < stop(l)) BY <1>2, <1>3, <1>4, <1>6
<1>11. at(f) <= at(i) /\ at(i) < stop(l) <=> f <= i /\ i <= l
  BY <1>2, <1>6, <1>7, <1>8, <1>9, <1>10
<1> QED BY <1>5, <1>11 DEF f, l, at

(* Blocks are straight runs whatever the code: an uncut answer puts every   *)
(* instruction in one block, and enters and leaves it at its ends only.     *)
THEOREM BlocksAlwaysStraight == Spec => []BlocksAreStraightRuns
<1>1. DisasmInv => BlocksAreStraightRuns
  <2> SUFFICES ASSUME DisasmInv, Whole("funcs"), NEW i \in DOMAIN window.insns
               PROVE  LET here == window.insns[i].at
                      IN  /\ Cardinality(Around("block", here)) = 1
                          /\ (\E k \in Around("block", here) : rows[k].start < here) =>
                                 /\ here \notin PointedAt(window, {"call", "jump"})
                                 /\ window.insns[i - 1].ends = "none"
    BY DEF BlocksAreStraightRuns
  <2> DEFINE here == window.insns[i].at
             R == Around("block", here)
             n == Len(window.insns)
  <2>1. /\ window \in Windows /\ Uncut(window)
        /\ Of("block") = {Behind(b) : b \in 1 .. Count(window)}
        /\ \A b \in 1 .. Count(window) :
              rows[Behind(b)] = BlockRow(Starts(window), AllBlocks(window)[b])
    BY FuncAnswer
  <2>2. i \in 1 .. n /\ n \in Nat /\ DOMAIN window.insns = 1 .. n BY <2>1, WindowType
  <2>3. PICK k \in 1 .. Count(window) :
           /\ FirstIn(window, k) <= i /\ i <= LastOf(window, k)
           /\ \A m \in 1 .. Count(window) :
                  FirstIn(window, m) <= i /\ i <= LastOf(window, m) => m = k
    BY <2>1, <2>2, BlockAround
  <2>4. R \subseteq Of("block") BY DEF Around
  <2>5. \A m \in 1 .. Count(window) :
           Behind(m) \in R <=> FirstIn(window, m) <= i /\ i <= LastOf(window, m)
    BY <2>2, BlockRowAround
  <2> HIDE DEF R
  <2>6. Behind(k) \in R /\ \A y \in R : y = Behind(k) BY <2>1, <2>3, <2>4, <2>5
  <2>7. Cardinality(R) = 1 BY <2>6, OneRow
  <2>8. ASSUME NEW r \in R, rows[r].start < here
        PROVE  /\ here \notin PointedAt(window, {"call", "jump"})
               /\ window.insns[i - 1].ends = "none"
    <3> DEFINE f == FirstIn(window, k)
               l == LastOf(window, k)
    <3>1. f \in 1 .. l /\ l \in 1 .. n /\ AllBlocks(window)[k].from = window.insns[f].at
      BY <2>1, BlockRun
    <3>2. rows[r].start = window.insns[f].at BY <2>1, <2>6, <3>1, BlockRowHolds
    <3>3. f \in Nat /\ l \in Nat /\ f # i /\ f <= i /\ i <= l
      <4>1. here \in Nat BY <2>1, <2>2, WindowType
      <4> QED BY <2>2, <2>3, <2>8, <3>1, <3>2, <4>1
    <3>4. i - 1 \in 1 .. n /\ f <= i - 1 /\ i - 1 < l /\ (i - 1) + 1 = i
      BY <2>2, <3>1, <3>3
    <3>5. i - 1 \notin Closing(window) BY <2>1, <3>4, BlockOpen
    <3>6. ~Closes(window, Leaders(window), i - 1) BY <2>2, <3>4, <3>5 DEF Closing
    <3>7. window.insns[i - 1].ends = "none" /\ here \notin Leaders(window)
      BY <3>4, <3>6 DEF Closes
    <3>8. PointedAt(window, {"call", "jump"}) \subseteq Leaders(window)
      BY <2>1, FuncsWhole, RememberedAll DEF Leaders
    <3> QED BY <3>7, <3>8
  <2> QED BY <2>7, <2>8 DEF R
<1> QED BY <1>1, DisasmInvHolds, PTL

-----------------------------------------------------------------------------
(* Functions share the code out: which one an address belongs to.           *)

LEMMA OwnerIs ==
    ASSUME NEW w \in Windows, NEW b, b.from \in Nat, w.pc <= b.from, b.from < DecodedEnd(w),
           DecodedEnd(w) \in Nat
    PROVE  /\ Owner(Starts(w), b) \in 1 .. Len(Starts(w))
           /\ \A f \in 1 .. Len(Starts(w)) :
                 (Starts(w)[f] <= b.from /\ b.from < FuncEnd(w, Starts(w), f))
                     <=> Owner(Starts(w), b) = f
<1> DEFINE s == Starts(w)
           ns == Len(s)
           a == b.from
           B == {k \in DOMAIN s : s[k] <= a}
           o == Owner(s, b)
<1>1. /\ ns \in Nat /\ DOMAIN s = 1 .. ns /\ \A k \in 1 .. ns : s[k] \in Nat
      /\ \A j, k \in 1 .. ns : j < k => s[j] < s[k]
  BY StartsSorted
<1>2. PICK e \in 1 .. ns : s[e] = w.pc BY StartsSorted, RememberedInWindow
<1>3. a \in Nat /\ w.pc \in Nat /\ w.pc <= a BY WindowType
<1>4. o = Max(B) BY DEF Owner
<1>5. \A f \in 1 .. ns : FuncEnd(w, s, f) = IF f < ns THEN s[f + 1] ELSE DecodedEnd(w)
  BY DEF FuncEnd
<1> HIDE DEF s, ns, a, o
<1>6. B \in SUBSET (1 .. ns) /\ B \in SUBSET Nat /\ e \in B BY <1>1, <1>2, <1>3
<1>7. IsFiniteSet(B)
  <2>1. IsFiniteSet(1 .. ns) BY <1>1, FS_Interval
  <2> HIDE DEF B
  <2> QED BY <1>6, <2>1, FS_Subset
<1>8. o \in B /\ \A k \in B : k <= o
  <2> HIDE DEF B
  <2> QED BY <1>4, <1>6, <1>7, Greatest
<1>9. o \in 1 .. ns /\ s[o] <= a /\ \A k \in 1 .. ns : s[k] <= a => k <= o
  BY <1>1, <1>8
<1>10. a < FuncEnd(w, s, o)
  <2>1. CASE o < ns
    <3>1. o + 1 \in 1 .. ns /\ ~(o + 1 <= o) BY <2>1, <1>1, <1>9
    <3>2. ~(s[o + 1] <= a) /\ s[o + 1] \in Nat BY <3>1, <1>1, <1>9
    <3> QED BY <2>1, <3>2, <1>3, <1>5, <1>9
  <2>2. CASE ~(o < ns) BY <2>2, <1>5, <1>9 DEF a
  <2> QED BY <2>1, <2>2
<1>11. ASSUME NEW f \in 1 .. ns, s[f] <= a, a < FuncEnd(w, s, f) PROVE o = f
  <2>1. f <= o BY <1>9, <1>11
  <2>2. SUFFICES ASSUME f < o PROVE FALSE BY <2>1, <1>1, <1>9
  <2>3. f < ns /\ f + 1 \in 1 .. ns /\ (f + 1 = o \/ f + 1 < o) BY <2>2, <1>1, <1>9
  <2>4. a < s[f + 1] BY <2>3, <1>5, <1>11
  <2>5. s[f + 1] <= s[o] BY <2>3, <1>1, <1>9
  <2>6. s[f + 1] \in Nat /\ s[o] \in Nat BY <2>3, <1>1, <1>9
  <2> QED BY <2>4, <2>5, <2>6, <1>3, <1>9
<1>12. o \in 1 .. ns /\ \A f \in 1 .. ns : (s[f] <= a /\ a < FuncEnd(w, s, f)) <=> o = f
  BY <1>9, <1>10, <1>11
<1> QED BY <1>12 DEF s, ns, a, o

(* Every instruction is between the entry and the end of the decoded code.  *)
LEMMA InCode ==
    ASSUME NEW w \in Windows, NEW i \in 1 .. Len(w.insns)
    PROVE  /\ w.insns[i].at \in Nat /\ DecodedEnd(w) \in Nat
           /\ w.pc <= w.insns[i].at /\ w.insns[i].at < DecodedEnd(w)
           /\ Stop(w.insns[i]) \in Nat /\ Stop(w.insns[i]) <= DecodedEnd(w)
<1> DEFINE n == Len(w.insns)
           at(j) == w.insns[j].at
           stop(j) == Stop(w.insns[j])
<1>1. n \in Nat /\ i \in 1 .. n /\ 1 \in 1 .. n /\ n \in 1 .. n BY WindowType
<1>2. \A j \in 1 .. n : at(j) \in Nat /\ stop(j) \in Nat /\ at(j) < stop(j)
  <2> TAKE j \in 1 .. n
  <2>1. at(j) \in Nat /\ w.insns[j].size \in Nat \ {0} /\ stop(j) = at(j) + w.insns[j].size
    BY WindowType
  <2> QED BY <2>1
<1>3. at(1) = w.pc /\ w.pc \in Nat BY <1>1, WindowType DEF Decoded
<1>4. DecodedEnd(w) = stop(n) BY DEF DecodedEnd
<1>5. \A j, m \in 1 .. n : j < m => stop(j) <= at(m) BY InOrder
<1> HIDE DEF n, at, stop
<1>6. at(1) <= at(i)
  <2>1. CASE i = 1 BY <2>1, <1>1, <1>2
  <2>2. CASE 1 < i
    <3>1. at(1) < stop(1) /\ stop(1) <= at(i) /\ at(1) \in Nat /\ stop(1) \in Nat /\ at(i) \in Nat
      BY <2>2, <1>1, <1>2, <1>5
    <3> QED BY <3>1
  <2> QED BY <2>1, <2>2, <1>1
<1>7. stop(i) <= stop(n)
  <2>1. CASE i = n BY <2>1, <1>1, <1>2
  <2>2. CASE i < n
    <3>1. stop(i) <= at(n) /\ at(n) < stop(n) /\ stop(i) \in Nat /\ stop(n) \in Nat /\ at(n) \in Nat
      BY <2>2, <1>1, <1>2, <1>5
    <3> QED BY <3>1
  <2> QED BY <2>1, <2>2, <1>1
<1>8. at(i) \in Nat /\ stop(i) \in Nat /\ stop(n) \in Nat /\ at(i) < stop(i) BY <1>1, <1>2
<1>9. at(i) < stop(n) BY <1>7, <1>8
<1> QED BY <1>3, <1>4, <1>6, <1>7, <1>8, <1>9 DEF at, stop

LEMMA BlockFromInCode ==
    ASSUME NEW w \in Windows, NEW b \in 1 .. Count(w)
    PROVE  /\ AllBlocks(w)[b].from \in Nat /\ w.pc <= AllBlocks(w)[b].from
           /\ AllBlocks(w)[b].from < DecodedEnd(w) /\ DecodedEnd(w) \in Nat
<1>1. /\ FirstIn(w, b) \in 1 .. LastOf(w, b) /\ LastOf(w, b) \in 1 .. Len(w.insns)
      /\ AllBlocks(w)[b].from = w.insns[FirstIn(w, b)].at
  BY BlockRun
<1>2. FirstIn(w, b) \in 1 .. Len(w.insns) BY <1>1, WindowType
<1> QED BY <1>1, <1>2, InCode

LEMMA Shifted ==
    ASSUME NEW n \in Nat, NEW m \in Nat, NEW X \in SUBSET (1 .. m)
    PROVE  Cardinality(X) = Cardinality({n + b : b \in X})
<1> DEFINE Y == {n + b : b \in X}
           g == [b \in X |-> n + b]
<1>1. g \in [X -> Y] OBVIOUS
<1>2. \A a, b \in X : g[a] = g[b] => a = b
  <2> SUFFICES ASSUME NEW a \in X, NEW b \in X, n + a = n + b PROVE a = b OBVIOUS
  <2> a \in Nat /\ b \in Nat OBVIOUS
  <2> QED OBVIOUS
<1>3. \A y \in Y : \E b \in X : g[b] = y OBVIOUS
<1> HIDE DEF g
<1>4. g \in Injection(X, Y) BY <1>1, <1>2 DEF Injection, IsInjective
<1>5. g \in Surjection(X, Y) BY <1>1, <1>3 DEF Surjection
<1>6. ExistsBijection(X, Y) BY <1>4, <1>5 DEF ExistsBijection, Bijection
<1>7. IsFiniteSet(X)
  <2>1. IsFiniteSet(1 .. m) BY FS_Interval
  <2> QED BY <2>1, FS_Subset
<1> QED BY <1>6, <1>7, FS_Bijection

LEMMA CountsAgree ==
    ASSUME DisasmInv, Whole("funcs"), NEW f \in Of("func")
    PROVE  rows[f].blocks = Cardinality({k \in Of("block") : rows[k].func = rows[f].func})
<1> DEFINE w == window
           s == Starts(window)
           blocks == AllBlocks(window)
           X == {b \in DOMAIN blocks : s[f] <= blocks[b].from /\ blocks[b].from < FuncEnd(w, s, f)}
           Y == {k \in Of("block") : rows[k].func = rows[f].func}
<1>1. /\ w \in Windows /\ Len(s) \in Nat /\ Count(w) \in Nat /\ f \in 1 .. Len(s)
      /\ Of("block") = {Behind(b) : b \in 1 .. Count(w)}
      /\ rows[f] = FuncRow(w, s, blocks, f)
      /\ \A b \in 1 .. Count(w) : rows[Behind(b)] = BlockRow(s, blocks[b])
  BY FuncAnswer
<1>2. rows[f].func = f BY <1>1, FuncRowHolds
<1>3. rows[f].blocks = Cardinality(X) BY <1>1, FuncRowCounts
<1>4. \A b \in 1 .. Count(w) : rows[Behind(b)].func = Owner(s, blocks[b])
  BY <1>1, BlockRowHolds
<1>5. DOMAIN blocks = 1 .. Count(w) BY <1>1, BlocksListed, ListLen DEF Count
<1>6. \A b \in 1 .. Count(w) : b \in X <=> rows[Behind(b)].func = rows[f].func
  <2> TAKE b \in 1 .. Count(w)
  <2>1. /\ blocks[b].from \in Nat /\ w.pc <= blocks[b].from
        /\ blocks[b].from < DecodedEnd(w) /\ DecodedEnd(w) \in Nat
    BY <1>1, BlockFromInCode
  <2>2. s[f] <= blocks[b].from /\ blocks[b].from < FuncEnd(w, s, f) <=> Owner(s, blocks[b]) = f
    BY <1>1, <2>1, OwnerIs
  <2> QED BY <1>2, <1>4, <1>5, <2>2
<1>7. X \in SUBSET (1 .. Count(w)) BY <1>5
<1> HIDE DEF X
<1>8. Y = {Len(s) + b : b \in X} BY <1>1, <1>6, <1>7 DEF Behind
<1> HIDE DEF Y
<1>9. Cardinality(X) = Cardinality(Y)
  <2>1. Len(s) \in Nat /\ Count(w) \in Nat BY <1>1
  <2>2. Cardinality(X) = Cardinality({Len(s) + b : b \in X})
    <3> HIDE DEF s, w
    <3> QED BY <2>1, <1>7, Shifted
  <2> QED BY <1>8, <2>2
<1> QED BY <1>3, <1>9 DEF Y

LEMMA OneFunction ==
    ASSUME DisasmInv, Whole("funcs"), NEW i \in DOMAIN window.insns
    PROVE  Cardinality(Around("func", window.insns[i].at)) = 1
<1> DEFINE w == window
           s == Starts(window)
           here == w.insns[i].at
           b == [from |-> here]
           R == Around("func", here)
<1>1. /\ w \in Windows /\ Len(s) \in Nat /\ Of("func") = 1 .. Len(s)
      /\ \A f \in 1 .. Len(s) : rows[f] = FuncRow(w, s, AllBlocks(w), f)
  BY FuncAnswer
<1>2. i \in 1 .. Len(w.insns) BY <1>1, WindowType
<1>3. b.from = here OBVIOUS
<1>4. here \in Nat /\ w.pc <= here /\ here < DecodedEnd(w) /\ DecodedEnd(w) \in Nat
  BY <1>1, <1>2, InCode
<1>5. \A f \in 1 .. Len(s) : rows[f].start = s[f] /\ rows[f].end = FuncEnd(w, s, f)
  BY <1>1, FuncRowHolds
<1>6. R = {f \in 1 .. Len(s) : s[f] <= here /\ here < FuncEnd(w, s, f)}
  BY <1>1, <1>5 DEF Around
<1> HIDE DEF b, R
<1>7. /\ Owner(s, b) \in 1 .. Len(s)
      /\ \A f \in 1 .. Len(s) : s[f] <= here /\ here < FuncEnd(w, s, f) <=> Owner(s, b) = f
  BY <1>1, <1>3, <1>4, OwnerIs
<1>8. Owner(s, b) \in R /\ \A f \in R : f = Owner(s, b)
  <2> HIDE DEF s, here
  <2> QED BY <1>6, <1>7
<1> QED BY <1>8, OneRow DEF R

LEMMA BlockInFunction ==
    ASSUME DisasmInv, Whole("funcs"),
           \A a \in PointedAt(window, {"call"}) : IsInsn(window, a),
           NEW f \in Of("func"), NEW k \in Of("block"), rows[k].func = rows[f].func
    PROVE  rows[f].start <= rows[k].start /\ rows[k].end <= rows[f].end
<1> DEFINE w == window
           s == Starts(window)
           ns == Len(s)
<1>1. /\ w \in Windows /\ Uncut(w) /\ ns \in Nat /\ f \in 1 .. ns
      /\ Of("block") = {Behind(b) : b \in 1 .. Count(w)}
      /\ rows[f] = FuncRow(w, s, AllBlocks(w), f)
      /\ \A b \in 1 .. Count(w) : rows[Behind(b)] = BlockRow(s, AllBlocks(w)[b])
  BY FuncAnswer
<1>2. PICK b \in 1 .. Count(w) : k = Behind(b) BY <1>1
<1> DEFINE block == AllBlocks(w)[b]
           first == FirstIn(w, b)
           last == LastOf(w, b)
<1>3. rows[f].func = f /\ rows[f].start = s[f] /\ rows[f].end = FuncEnd(w, s, f)
  BY <1>1, FuncRowHolds
<1>4. rows[k].func = Owner(s, block) /\ rows[k].start = block.from /\ rows[k].end = block.to
  BY <1>1, <1>2, BlockRowHolds
<1>5. /\ block.from \in Nat /\ w.pc <= block.from
      /\ block.from < DecodedEnd(w) /\ DecodedEnd(w) \in Nat
  BY <1>1, BlockFromInCode
<1>6. s[f] <= block.from /\ block.from < FuncEnd(w, s, f)
  BY <1>1, <1>3, <1>4, <1>5, OwnerIs
<1>7. /\ first \in 1 .. last /\ last \in 1 .. Len(w.insns) /\ Len(w.insns) \in Nat
      /\ block.from = w.insns[first].at /\ block.to = Stop(w.insns[last])
  BY <1>1, BlockRun, WindowType
<1>8. block.to <= FuncEnd(w, s, f)
  <2>1. CASE ~(f < ns) BY <2>1, <1>1, <1>7, InCode DEF FuncEnd
  <2>2. CASE f < ns
    <3> DEFINE next == s[f + 1]
    <3>1. FuncEnd(w, s, f) = next BY <2>2 DEF FuncEnd
    <3>2. /\ f + 1 \in 1 .. ns /\ s[f] < next /\ next \in Remembered(w, {"call"})
          /\ next \in Nat /\ s[f] \in Nat
      <4>1. f + 1 \in 1 .. ns /\ f < f + 1 BY <2>2, <1>1
      <4> QED BY <4>1, <1>1, StartsSorted
    <3>3. Remembered(w, {"call"}) = {w.pc} \cup PointedAt(w, {"call"})
          /\ Leaders(w) = {w.pc} \cup PointedAt(w, {"call", "jump"})
      BY <1>1, FuncsWhole, RememberedAll DEF Leaders
    <3>4. next # w.pc
      <4>1. PICK e \in 1 .. ns : s[e] = w.pc BY <1>1, StartsSorted, RememberedInWindow
      <4>2. s[e] <= s[f]
        <5>1. s[f] = w.pc \/ InWindow(w, s[f]) BY <1>1, StartsSorted, RememberedInWindow
        <5>2. w.pc \in Nat BY <1>1, WindowType
        <5> QED BY <4>1, <5>1, <5>2 DEF InWindow
      <4>3. w.pc \in Nat BY <1>1, WindowType
      <4> QED BY <4>1, <4>2, <4>3, <3>2
    <3>5. next \in PointedAt(w, {"call"}) BY <3>2, <3>3, <3>4
    <3>6. next \in Leaders(w) BY <3>3, <3>5 DEF PointedAt
    <3>7. PICK j \in DOMAIN w.insns : w.insns[j].at = next BY <3>5 DEF IsInsn
    <3>8. j \in 1 .. Len(w.insns) BY <1>1, WindowType
    <3>9. first \in 1 .. Len(w.insns) /\ first \in Nat /\ last \in Nat /\ j \in Nat
      BY <1>7, <3>8
    <3>10. first < j
      <4>1. ~(j < first)
        <5>1. j < first => Stop(w.insns[j]) <= w.insns[first].at BY <1>1, <3>8, <3>9, InOrder
        <5>2. /\ w.insns[j].at \in Nat /\ w.insns[j].size \in Nat \ {0}
              /\ Stop(w.insns[j]) = w.insns[j].at + w.insns[j].size
          BY <1>1, <3>8, WindowType
        <5>3. block.from < w.insns[j].at BY <1>6, <3>1, <3>7
        <5>4. j < first => Stop(w.insns[j]) <= block.from BY <5>1, <1>7
        <5>5. block.from \in Nat BY <1>5
        <5> HIDE DEF block, w, first
        <5> QED BY <5>2, <5>3, <5>4, <5>5
      <4>2. j # first BY <1>5, <1>6, <1>7, <3>1, <3>2, <3>7
      <4> QED BY <4>1, <4>2, <3>9
    <3>11. last < j
      <4> SUFFICES ASSUME j <= last PROVE FALSE BY <3>9
      <4>1. first <= j - 1 /\ j - 1 < last /\ (j - 1) + 1 = j /\ j - 1 \in 1 .. Len(w.insns)
        BY <3>8, <3>9, <3>10, <1>7
      <4>2. Closes(w, Leaders(w), j - 1) BY <4>1, <3>6, <3>7 DEF Closes
      <4>3. j - 1 \in Closing(w) BY <4>1, <4>2, <1>1, WindowType DEF Closing
      <4> QED BY <4>1, <4>3, <1>1, BlockOpen
    <3>12. Stop(w.insns[last]) <= w.insns[j].at BY <1>1, <1>7, <3>8, <3>11, InOrder
    <3> QED BY <3>1, <3>7, <3>12, <1>7
  <2> QED BY <2>1, <2>2
<1> QED BY <1>3, <1>4, <1>6, <1>8

(* The rows of functions and the rows of blocks are two tables made in two  *)
(* ways; in an uncut answer they never contradict each other.               *)
THEOREM OwnersAlwaysCountTheirBlocks == Spec => []OwnersCountTheirBlocks
<1>1. DisasmInv => OwnersCountTheirBlocks
  <2> SUFFICES ASSUME DisasmInv, Whole("funcs") PROVE OwnersCountTheirBlocks
    BY DEF OwnersCountTheirBlocks
  <2> QED BY CountsAgree, OneFunction, BlockInFunction DEF OwnersCountTheirBlocks
<1> QED BY <1>1, DisasmInvHolds, PTL

-----------------------------------------------------------------------------
(* An answer of the graph pass without a cut is complete: an edge for every *)
(* arrow and a row of degrees for every block.                              *)

EdgeRow(w, e) == [row |-> "edge", edge |-> AllEdges(w)[e]]
Arrows(w) == Len(AllEdges(w))

LEMMA CfgWhole ==
    ASSUME NEW w \in Windows, \A k \in DOMAIN Cfg(w) : Cfg(w)[k].row # "cut"
    PROVE  /\ ~Forgets(w, {"call", "jump"}) /\ Blocks(w) = AllBlocks(w)
           /\ Arrows(w) \in Nat /\ DOMAIN AllEdges(w) = 1 .. Arrows(w)
           /\ DOMAIN Cfg(w) = 1 .. Arrows(w) + Count(w) + 1
           /\ \A e \in 1 .. Arrows(w) : Cfg(w)[e] = EdgeRow(w, e)
           /\ \A b \in 1 .. Count(w) :
                  Cfg(w)[Arrows(w) + b] = DegreeRow(AllEdges(w), AllBlocks(w)[b].from, b)
           /\ Cfg(w)[Arrows(w) + Count(w) + 1] = [row |-> "summary"]
<1> DEFINE blocks == Blocks(w)
           edges == FirstOf(AllEdges(w), MaxEdges)
           ways == [e \in DOMAIN edges |-> [row |-> "edge", edge |-> edges[e]]]
           arrows == Fill(<<>>, ways, 4)
           degrees == [b \in DOMAIN blocks |-> DegreeRow(edges, blocks[b].from, b)]
           all == Fill(arrows, degrees, 4)
           cut == \/ Len(AllEdges(w)) > Len(arrows)
                  \/ Len(arrows) + Len(blocks) > Len(all)
                  \/ BlocksCut(w) \/ Forgets(w, {"call", "jump"})
<1>1. /\ RowMaxSeen \in Nat /\ RowMaxSeen >= 4 /\ MaxEdges \in Nat
      /\ IsList(AllEdges(w)) /\ Arrows(w) \in Nat /\ DOMAIN AllEdges(w) = 1 .. Arrows(w)
  BY DisasmAssumption, EdgesListed, ListLen DEF Arrows
<1>2. /\ IsList(edges) /\ Len(edges) \in Nat /\ DOMAIN edges = 1 .. Len(edges)
      /\ Len(edges) <= Arrows(w)
      /\ \A k \in 1 .. Len(edges) : edges[k] = AllEdges(w)[k]
  BY <1>1, Shorter, ListLen DEF Arrows
<1>3. /\ IsList(ways) /\ Len(ways) = Len(edges)
      /\ \A e \in 1 .. Len(edges) : ways[e] = [row |-> "edge", edge |-> edges[e]]
  <2> HIDE DEF edges
  <2> QED BY <1>2, Listed
<1>4. Len(blocks) \in Nat /\ DOMAIN blocks = 1 .. Len(blocks) BY BlocksListed, ListLen
<1>5. /\ IsList(degrees) /\ Len(degrees) = Len(blocks)
      /\ \A b \in 1 .. Len(blocks) : degrees[b] = DegreeRow(edges, blocks[b].from, b)
  <2> HIDE DEF edges, blocks
  <2> QED BY <1>4, Listed
<1>6. Cfg(w) = Close(all, cut) BY DEF Cfg
<1>7. cut \in BOOLEAN OBVIOUS
<1>8. Len(arrows) + Len(blocks) > Len(all) => cut OBVIOUS
<1>9. cut = FALSE => Arrows(w) <= Len(arrows) /\ ~BlocksCut(w) /\ ~Forgets(w, {"call", "jump"})
  <2> HIDE DEF arrows, all
  <2>1. cut = FALSE => ~(Len(AllEdges(w)) > Len(arrows)) OBVIOUS
  <2>2. cut = FALSE => ~BlocksCut(w) /\ ~Forgets(w, {"call", "jump"}) OBVIOUS
  <2>3. /\ IsList(arrows)
    <3> QED BY <1>1, <1>3, Nothing, Filled DEF arrows
  <2>4. Len(arrows) \in Nat BY <2>3, ListLen
  <2> QED BY <2>1, <2>2, <2>4, <1>1 DEF Arrows
<1> HIDE DEF ways, degrees, cut
<1>10. /\ IsList(arrows) /\ Len(arrows) <= RowMaxSeen - 4 /\ Len(arrows) <= Len(edges)
       /\ \A e \in 1 .. Len(arrows) : arrows[e] = ways[e]
  <2>1. 4 \in Nat /\ 4 <= RowMaxSeen /\ Len(<<>>) <= RowMaxSeen - 4 BY <1>1, Nothing
  <2>2. IsList(<<>>) /\ Len(<<>>) = 0 /\ IsList(ways) BY <1>3, Nothing
  <2>3. arrows = Fill(<<>>, ways, 4) OBVIOUS
  <2> HIDE DEF arrows
  <2>4. Stacked(arrows, <<>>, ways) /\ Len(arrows) <= RowMaxSeen - 4
    BY <2>1, <2>2, <2>3, FilledBy
  <2>5. /\ IsList(arrows) /\ Len(arrows) \in Nat /\ Len(arrows) <= Len(<<>>) + Len(ways)
        /\ \A i \in 1 .. Len(arrows) - Len(<<>>) : arrows[Len(<<>>) + i] = ways[i]
    BY <2>4 DEF Stacked
  <2> QED BY <2>2, <2>4, <2>5, <1>2, <1>3
<1> HIDE DEF arrows
<1>11. \A k \in DOMAIN Close(all, cut) : Close(all, cut)[k].row # "cut" BY <1>6
<1>12. /\ ~cut
       /\ DOMAIN Close(all, cut) = 1 .. Len(arrows) + Len(degrees) + 1
       /\ \A k \in 1 .. Len(arrows) : Close(all, cut)[k] = arrows[k]
       /\ \A b \in 1 .. Len(degrees) : Close(all, cut)[Len(arrows) + b] = degrees[b]
       /\ Close(all, cut)[Len(arrows) + Len(degrees) + 1] = [row |-> "summary"]
  <2>1. 4 \in Nat /\ 4 <= RowMaxSeen BY <1>1
  <2>2. Len(arrows) + Len(degrees) > Len(all) => cut BY <1>5, <1>8
  <2>3. IsList(arrows) /\ IsList(degrees) /\ Len(arrows) <= RowMaxSeen - 4 BY <1>5, <1>10
  <2> HIDE DEF all
  <2> QED BY <2>1, <2>2, <2>3, <1>7, <1>11, TablesWhole DEF all
<1>13. Blocks(w) = AllBlocks(w) /\ ~Forgets(w, {"call", "jump"}) /\ Arrows(w) <= Len(arrows)
  BY <1>7, <1>9, <1>12, BlocksWhole
<1>14. Len(arrows) = Arrows(w) /\ Len(edges) = Arrows(w)
  <2>1. Len(arrows) \in Nat BY <1>10, ListLen
  <2> HIDE DEF edges
  <2> QED BY <2>1, <1>1, <1>2, <1>10, <1>13
<1>15. edges = AllEdges(w)
  <2> HIDE DEF edges
  <2> QED BY <1>1, <1>2, <1>14, LenProperties DEF IsList, Arrows
<1>16. Len(degrees) = Count(w) /\ Len(blocks) = Count(w) BY <1>5, <1>13 DEF Count
<1> HIDE DEF edges, all
<1>17. \A e \in 1 .. Arrows(w) : Cfg(w)[e] = EdgeRow(w, e)
  BY <1>2, <1>3, <1>6, <1>10, <1>12, <1>14, <1>15 DEF EdgeRow
<1>18. \A b \in 1 .. Count(w) :
           Cfg(w)[Arrows(w) + b] = DegreeRow(AllEdges(w), AllBlocks(w)[b].from, b)
  BY <1>5, <1>6, <1>12, <1>13, <1>14, <1>15, <1>16
<1> QED BY <1>1, <1>6, <1>12, <1>13, <1>14, <1>16, <1>17, <1>18

LEMMA DegreeRowHolds ==
    ASSUME NEW edges, NEW at, NEW b
    PROVE  DegreeRow(edges, at, b).row = "degree" /\ DegreeRow(edges, at, b).block = b
BY DEF DegreeRow

LEMMA DegreeRowCounts ==
    ASSUME NEW edges, NEW at, NEW b
    PROVE  /\ DegreeRow(edges, at, b).preds =
                 Cardinality({e \in DOMAIN edges : edges[e].to = at})
           /\ DegreeRow(edges, at, b).succs =
                 Cardinality({e \in DOMAIN edges : edges[e].from = at})
BY DEF DegreeRow

After(b) == Arrows(window) + b

LEMMA CfgAnswer ==
    ASSUME DisasmInv, Whole("cfg")
    PROVE  /\ window \in Windows /\ window.insns # <<>>
           /\ ~Forgets(window, {"call", "jump"}) /\ Blocks(window) = AllBlocks(window)
           /\ Arrows(window) \in Nat /\ DOMAIN AllEdges(window) = 1 .. Arrows(window)
           /\ Of("edge") = 1 .. Arrows(window)
           /\ Of("degree") = {After(b) : b \in 1 .. Count(window)}
           /\ \A e \in 1 .. Arrows(window) : rows[e] = EdgeRow(window, e)
           /\ \A b \in 1 .. Count(window) :
                  rows[After(b)] = DegreeRow(AllEdges(window), AllBlocks(window)[b].from, b)
<1> DEFINE na == Arrows(window)
           nb == Count(window)
<1>1. pass = "cfg" /\ rows # <<>> /\ Of("cut") = {} BY DEF Whole
<1>2. window \in Windows /\ window.insns # <<>> /\ rows = Cfg(window)
  BY <1>1 DEF DisasmInv, Answer
<1>3. \A k \in DOMAIN Cfg(window) : Cfg(window)[k].row # "cut" BY <1>1, <1>2 DEF Of
<1>4. nb \in Nat BY <1>2, BlocksListed, ListLen DEF Count
<1>5. /\ ~Forgets(window, {"call", "jump"}) /\ Blocks(window) = AllBlocks(window)
      /\ na \in Nat /\ DOMAIN AllEdges(window) = 1 .. na
      /\ DOMAIN rows = 1 .. na + nb + 1
      /\ \A e \in 1 .. na : rows[e] = EdgeRow(window, e)
      /\ \A b \in 1 .. nb :
            rows[na + b] = DegreeRow(AllEdges(window), AllBlocks(window)[b].from, b)
      /\ rows[na + nb + 1] = [row |-> "summary"]
  BY <1>2, <1>3, CfgWhole
<1> HIDE DEF na, nb
<1>6. ASSUME NEW e \in 1 .. na PROVE rows[e].row = "edge"
  <2>1. rows[e] = EdgeRow(window, e) BY <1>5
  <2> QED BY <2>1 DEF EdgeRow
<1>7. ASSUME NEW b \in 1 .. nb PROVE rows[na + b].row = "degree"
  <2>1. rows[na + b] = DegreeRow(AllEdges(window), AllBlocks(window)[b].from, b) BY <1>5
  <2> QED BY <2>1, DegreeRowHolds
<1>8. rows[na + nb + 1].row = "summary" BY <1>5
<1>9. \A k \in DOMAIN rows : \/ k \in 1 .. na
                              \/ (k - na \in 1 .. nb /\ k = na + (k - na))
                              \/ k = na + nb + 1
  BY <1>4, <1>5
<1>10. Of("edge") = 1 .. na
  <2>1. \A k \in 1 .. na : k \in DOMAIN rows BY <1>4, <1>5
  <2> QED BY <2>1, <1>6, <1>7, <1>8, <1>9 DEF Of
<1>11. Of("degree") = {na + b : b \in 1 .. nb}
  <2>1. \A b \in 1 .. nb : na + b \in DOMAIN rows BY <1>4, <1>5
  <2> QED BY <2>1, <1>6, <1>7, <1>8, <1>9 DEF Of
<1> QED BY <1>2, <1>4, <1>5, <1>10, <1>11 DEF After, na, nb

LEMMA Halves ==
    ASSUME NEW b \in Nat
    PROVE  /\ (2 * b) \div 2 = b /\ (2 * b) % 2 = 0
           /\ (2 * b + 1) \div 2 = b /\ (2 * b + 1) % 2 = 1
OBVIOUS

-----------------------------------------------------------------------------
(* The arrows: those a last instruction points along, and those that fall.  *)

JumpArrows(w) ==
    {<<AllBlocks(w)[b].from, Target(w, AllBlocks(w)[b])>> : b \in Jumping(w, AllBlocks(w))}

FallArrows(w) ==
    {<<AllBlocks(w)[b].from, AllBlocks(w)[b].to>> : b \in Falling(AllBlocks(w))}

LEMMA EdgesAre ==
    ASSUME NEW w \in Windows, Blocks(w) = AllBlocks(w)
    PROVE  {<<AllEdges(w)[e].from, AllEdges(w)[e].to>> : e \in DOMAIN AllEdges(w)}
              = JumpArrows(w) \cup FallArrows(w)
<1> DEFINE blocks == AllBlocks(w)
           J == Jumping(w, blocks)
           F == Falling(blocks)
           S == {2 * b : b \in J} \cup {2 * b + 1 : b \in F}
           n == Cardinality(S)
           order == Ascending(S)
           E == AllEdges(w)
<1>1. Len(blocks) \in Nat /\ DOMAIN blocks = 1 .. Len(blocks) BY BlocksListed, ListLen
<1>2. J \subseteq 1 .. Len(blocks) /\ F \subseteq 1 .. Len(blocks)
  BY <1>1 DEF Jumping, Falling
<1>3. DOMAIN E = DOMAIN order
      /\ \A e \in DOMAIN order :
            /\ E[e].from = blocks[order[e] \div 2].from
            /\ E[e].to = IF order[e] % 2 = 1 THEN blocks[order[e] \div 2].to
                         ELSE Target(w, blocks[order[e] \div 2])
  BY DEF AllEdges
<1> HIDE DEF J, F, blocks, E
<1>4. S \in SUBSET (0 .. 2 * Len(blocks) + 1) BY <1>1, <1>2
<1>5. S \in SUBSET Nat /\ IsFiniteSet(S)
  <2> HIDE DEF S
  <2>1. IsFiniteSet(0 .. 2 * Len(blocks) + 1) BY <1>1, FS_Interval
  <2>2. S \in SUBSET Nat BY <1>1, <1>4
  <2> QED BY <1>4, <2>1, <2>2, FS_Subset
<1>6. /\ n \in Nat /\ DOMAIN order = 1 .. n
      /\ \A e \in 1 .. n : order[e] \in S
      /\ \A a \in S : \E e \in 1 .. n : order[e] = a
  <2> HIDE DEF S
  <2> QED BY <1>5, AscendingSorts, AscendingMember
<1> HIDE DEF order, n
<1>7. ASSUME NEW e \in DOMAIN order
      PROVE  <<E[e].from, E[e].to>> \in JumpArrows(w) \cup FallArrows(w)
  <2>1. CASE \E b \in J : order[e] = 2 * b
    <3>1. PICK b \in J : order[e] = 2 * b BY <2>1
    <3>2. b \in Nat BY <1>1, <1>2
    <3>3. order[e] \div 2 = b /\ order[e] % 2 = 0 BY <3>1, <3>2, Halves
    <3>4. E[e].from = blocks[b].from /\ E[e].to = Target(w, blocks[b]) BY <1>3, <3>3
    <3> QED BY <3>4 DEF JumpArrows, J, blocks
  <2>2. CASE \E b \in F : order[e] = 2 * b + 1
    <3>1. PICK b \in F : order[e] = 2 * b + 1 BY <2>2
    <3>2. b \in Nat BY <1>1, <1>2
    <3>3. order[e] \div 2 = b /\ order[e] % 2 = 1 BY <3>1, <3>2, Halves
    <3>4. E[e].from = blocks[b].from /\ E[e].to = blocks[b].to BY <1>3, <3>3
    <3> QED BY <3>4 DEF FallArrows, F, blocks
  <2> QED BY <2>1, <2>2, <1>6
<1>8. ASSUME NEW b \in J
      PROVE  \E e \in DOMAIN E : <<E[e].from, E[e].to>> = <<blocks[b].from, Target(w, blocks[b])>>
  <2>1. b \in Nat BY <1>1, <1>2
  <2>2. PICK e \in 1 .. n : order[e] = 2 * b BY <1>6
  <2>3. order[e] \div 2 = b /\ order[e] % 2 = 0 BY <2>1, <2>2, Halves
  <2>4. E[e].from = blocks[b].from /\ E[e].to = Target(w, blocks[b]) BY <1>3, <1>6, <2>3
  <2> QED BY <2>4, <1>3, <1>6
<1>9. ASSUME NEW b \in F
      PROVE  \E e \in DOMAIN E : <<E[e].from, E[e].to>> = <<blocks[b].from, blocks[b].to>>
  <2>1. b \in Nat BY <1>1, <1>2
  <2>2. PICK e \in 1 .. n : order[e] = 2 * b + 1 BY <1>6
  <2>3. order[e] \div 2 = b /\ order[e] % 2 = 1 BY <2>1, <2>2, Halves
  <2>4. E[e].from = blocks[b].from /\ E[e].to = blocks[b].to BY <1>3, <1>6, <2>3
  <2> QED BY <2>4, <1>3, <1>6
<1>10. DOMAIN E = DOMAIN order BY <1>3
<1> HIDE DEF S
<1>11. {<<E[e].from, E[e].to>> : e \in DOMAIN E} \subseteq JumpArrows(w) \cup FallArrows(w)
  BY <1>7, <1>10
<1>12. JumpArrows(w) \subseteq {<<E[e].from, E[e].to>> : e \in DOMAIN E}
  BY <1>8 DEF JumpArrows, J, blocks
<1>13. FallArrows(w) \subseteq {<<E[e].from, E[e].to>> : e \in DOMAIN E}
  BY <1>9 DEF FallArrows, F, blocks
<1> QED BY <1>11, <1>12, <1>13 DEF E

-----------------------------------------------------------------------------
(* Where blocks begin and end, and the ways between them.                   *)

LEMMA BlockLast ==
    ASSUME NEW w \in Windows, NEW k \in 1 .. Count(w)
    PROVE  AllBlocks(w)[k].last = w.insns[LastOf(w, k)]
<1> DEFINE S == Closing(w)
           n == Cardinality(S)
<1>1. IsFiniteSet(S) /\ S \in SUBSET Nat /\ Count(w) = n BY ClosingFinite, BlocksListed DEF Count
<1>2. DOMAIN Ascending(S) = 1 .. n BY <1>1, AscendingSorts
<1> QED BY <1>1, <1>2 DEF AllBlocks, Closing, LastOf

LEMMA Places ==
    ASSUME NEW w \in Windows
    PROVE  /\ Len(w.insns) \in Nat /\ DOMAIN w.insns = 1 .. Len(w.insns)
           /\ \A j \in 1 .. Len(w.insns) :
                 /\ w.insns[j].at \in Nat /\ Stop(w.insns[j]) \in Nat
                 /\ w.insns[j].at < Stop(w.insns[j])
           /\ \A i, j \in 1 .. Len(w.insns) : i < j => Stop(w.insns[i]) <= w.insns[j].at
           /\ \A i, j \in 1 .. Len(w.insns) :
                 /\ w.insns[i].at = w.insns[j].at => i = j
                 /\ w.insns[i].at <= w.insns[j].at <=> i <= j
           /\ \A i \in 1 .. Len(w.insns) :
                 i < Len(w.insns) => w.insns[i + 1].at = Stop(w.insns[i])
<1> DEFINE n == Len(w.insns)
           at(j) == w.insns[j].at
           stop(j) == Stop(w.insns[j])
<1>1. n \in Nat /\ DOMAIN w.insns = 1 .. n BY WindowType
<1>2. \A j \in 1 .. n : at(j) \in Nat /\ stop(j) \in Nat /\ at(j) < stop(j)
  <2> TAKE j \in 1 .. n
  <2>1. at(j) \in Nat /\ w.insns[j].size \in Nat \ {0} /\ stop(j) = at(j) + w.insns[j].size
    BY WindowType
  <2> QED BY <2>1
<1>3. \A i, j \in 1 .. n : i < j => stop(i) <= at(j) BY InOrder
<1>7. \A k \in 1 .. n : k # 1 => at(k) = stop(k - 1) BY WindowType DEF Decoded
<1> HIDE DEF n, at, stop
<1>4. ASSUME NEW i \in 1 .. n, i < n PROVE at(i + 1) = stop(i)
  <2>1. i + 1 \in 1 .. n /\ i + 1 # 1 /\ (i + 1) - 1 = i BY <1>1, <1>4
  <2> QED BY <2>1, <1>7
<1>5. \A i, j \in 1 .. n : i < j => at(i) < at(j) BY <1>2, <1>3
<1>6. ASSUME NEW i \in 1 .. n, NEW j \in 1 .. n
      PROVE  (at(i) = at(j) => i = j) /\ (at(i) <= at(j) <=> i <= j)
  <2>1. CASE i < j BY <2>1, <1>1, <1>2, <1>5
  <2>2. CASE j < i BY <2>2, <1>1, <1>2, <1>5
  <2>3. CASE i = j BY <2>3, <1>2
  <2> QED BY <2>1, <2>2, <2>3, <1>1
<1> QED BY <1>1, <1>2, <1>3, <1>4, <1>6 DEF n, at, stop

(* A block begins wherever one may be entered or the one before it closes.  *)
LEMMA BlockBegins ==
    ASSUME NEW w \in Windows, NEW j \in 1 .. Len(w.insns), w.insns[j].at \in Leaders(w)
    PROVE  \E k \in 1 .. Count(w) : FirstIn(w, k) = j
<1>1. Len(w.insns) \in Nat /\ DOMAIN w.insns = 1 .. Len(w.insns) BY WindowType
<1>2. PICK k \in 1 .. Count(w) : FirstIn(w, k) <= j /\ j <= LastOf(w, k) BY BlockAround
<1>3. FirstIn(w, k) \in 1 .. LastOf(w, k) /\ LastOf(w, k) \in 1 .. Len(w.insns) BY BlockRun
<1>4. ASSUME FirstIn(w, k) # j PROVE FALSE
  <2>1. /\ j - 1 \in 1 .. Len(w.insns) /\ FirstIn(w, k) <= j - 1 /\ j - 1 < LastOf(w, k)
        /\ (j - 1) + 1 = j
    BY <1>1, <1>2, <1>3, <1>4
  <2>2. j - 1 \in Closing(w) BY <1>1, <2>1 DEF Closing, Closes
  <2> QED BY <2>1, <2>2, BlockOpen
<1> QED BY <1>4

Froms(w) == {b.from : b \in Range(Blocks(w))}

LEMMA FromsAre ==
    ASSUME NEW w \in Windows, Blocks(w) = AllBlocks(w)
    PROVE  /\ \A k \in 1 .. Count(w) : w.insns[FirstIn(w, k)].at \in Froms(w)
           /\ \A a \in Froms(w) : \E k \in 1 .. Count(w) : w.insns[FirstIn(w, k)].at = a
<1>1. DOMAIN AllBlocks(w) = 1 .. Count(w) BY BlocksListed, ListLen DEF Count
<1>2. \A k \in 1 .. Count(w) : AllBlocks(w)[k].from = w.insns[FirstIn(w, k)].at BY BlockRun
<1> QED BY <1>1, <1>2 DEF Froms, Range

LEMMA BlockStartIs ==
    ASSUME NEW w \in Windows, Blocks(w) = AllBlocks(w), NEW k \in 1 .. Count(w),
           NEW i \in 1 .. Len(w.insns), FirstIn(w, k) <= i, i <= LastOf(w, k)
    PROVE  BlockStart(Froms(w), w.insns[i].at) = AllBlocks(w)[k].from
<1> DEFINE at(j) == w.insns[j].at
           n == Len(w.insns)
           f(m) == FirstIn(w, m)
           X == Froms(w) \cap 0 .. at(i)
<1>1. /\ n \in Nat /\ \A j \in 1 .. n : at(j) \in Nat
      /\ \A j, m \in 1 .. n : at(j) <= at(m) <=> j <= m
  BY Places
<1>2. \A m \in 1 .. Count(w) : f(m) \in 1 .. n
  <2> TAKE m \in 1 .. Count(w)
  <2> QED BY <1>1, BlockRun
<1>3. ASSUME NEW m \in 1 .. Count(w), f(m) <= i PROVE f(m) <= f(k)
  <2>1. Count(w) \in Nat BY BlocksListed, ListLen DEF Count
  <2>2. CASE m = k BY <2>2, <1>2
  <2>3. CASE m < k
    <3>1. f(m) \in 1 .. LastOf(w, m) /\ LastOf(w, m) \in 1 .. n BY BlockRun
    <3>2. LastOf(w, m) < f(k) BY <2>3, BlockRun
    <3> QED BY <3>1, <3>2, <1>2
  <2>4. CASE k < m
    <3>1. LastOf(w, k) < f(m) /\ LastOf(w, k) \in 1 .. n BY <2>4, BlockRun
    <3> QED BY <3>1, <1>2, <1>3
  <2> QED BY <2>1, <2>2, <2>3, <2>4
<1>4. AllBlocks(w)[k].from = at(f(k)) BY BlockRun
<1>5. /\ at(f(k)) \in Froms(w)
      /\ \A a \in Froms(w) : \E m \in 1 .. Count(w) : at(f(m)) = a
  BY FromsAre
<1>6. i \in 1 .. n /\ f(k) <= i OBVIOUS
<1> HIDE DEF n, at, f
<1>7. at(f(k)) \in X BY <1>1, <1>2, <1>5, <1>6
<1>8. \A a \in X : a <= at(f(k))
  <2> TAKE a \in X
  <2>1. PICK m \in 1 .. Count(w) : at(f(m)) = a BY <1>5
  <2>2. at(f(m)) <= at(i) BY <1>1, <1>6, <2>1
  <2>3. f(m) <= f(k) BY <2>2, <1>1, <1>2, <1>3, <1>6
  <2> QED BY <2>1, <2>3, <1>1, <1>2
<1>9. X \in SUBSET (0 .. at(i)) /\ at(i) \in Nat BY <1>1, <1>6
<1>10. X \in SUBSET Nat /\ IsFiniteSet(X)
  <2>1. IsFiniteSet(0 .. at(i)) BY <1>9, FS_Interval
  <2>2. X \in SUBSET Nat BY <1>9
  <2> HIDE DEF X
  <2>3. IsFiniteSet(X) BY <1>9, <2>1, FS_Subset
  <2> QED BY <2>2, <2>3
<1> HIDE DEF X
<1>11. Max(X) \in X /\ at(f(k)) <= Max(X) BY <1>7, <1>10, Greatest
<1>12. Max(X) = at(f(k))
  <2>1. Max(X) \in Nat /\ at(f(k)) \in Nat BY <1>7, <1>10, <1>11
  <2>2. Max(X) <= at(f(k)) BY <1>8, <1>11
  <2> QED BY <2>1, <2>2, <1>11
<1> QED BY <1>4, <1>12 DEF BlockStart, X, at

(* The windows EveryArrowDrawn is claimed of, in an answer without a cut.   *)
Plain(w) ==
    /\ w \in Windows /\ w.pc > 0 /\ OneImmediate(w)
    /\ ~Forgets(w, {"call", "jump"}) /\ Blocks(w) = AllBlocks(w)

LEMMA FlowHolds ==
    ASSUME NEW w, NEW i \in DOMAIN w.insns,
           NEW a \in Goes(w, i) \cup (FallsThrough(w, i) \cap Froms(w))
    PROVE  <<BlockStart(Froms(w), w.insns[i].at), a>> \in Flow(w)
BY DEF Flow, Froms

LEMMA FlowOnly ==
    ASSUME NEW w, NEW step \in Flow(w)
    PROVE  \E i \in DOMAIN w.insns : \E a \in Goes(w, i) \cup (FallsThrough(w, i) \cap Froms(w)) :
              step = <<BlockStart(Froms(w), w.insns[i].at), a>>
BY DEF Flow, Froms

LEMMA BlockHolds ==
    ASSUME NEW w \in Windows, Blocks(w) = AllBlocks(w), NEW b \in DOMAIN AllBlocks(w)
    PROVE  /\ b \in 1 .. Count(w)
           /\ LastOf(w, b) \in DOMAIN w.insns /\ LastOf(w, b) \in 1 .. Len(w.insns)
           /\ AllBlocks(w)[b].from = BlockStart(Froms(w), w.insns[LastOf(w, b)].at)
           /\ AllBlocks(w)[b].to = Stop(w.insns[LastOf(w, b)])
           /\ AllBlocks(w)[b].last = w.insns[LastOf(w, b)]
<1>1. b \in 1 .. Count(w) BY BlocksListed, ListLen DEF Count
<1>2. /\ FirstIn(w, b) \in 1 .. LastOf(w, b) /\ LastOf(w, b) \in 1 .. Len(w.insns)
      /\ AllBlocks(w)[b].to = Stop(w.insns[LastOf(w, b)])
  BY <1>1, BlockRun
<1>3. AllBlocks(w)[b].last = w.insns[LastOf(w, b)] BY <1>1, BlockLast
<1>4. LastOf(w, b) \in DOMAIN w.insns BY <1>2, WindowType
<1>5. FirstIn(w, b) <= LastOf(w, b) /\ LastOf(w, b) <= LastOf(w, b) BY <1>2
<1>6. AllBlocks(w)[b].from = BlockStart(Froms(w), w.insns[LastOf(w, b)].at)
  BY <1>1, <1>2, <1>5, BlockStartIs
<1> QED BY <1>1, <1>2, <1>3, <1>4, <1>6

(* A block begins at an instruction.                                        *)
LEMMA BeginsAt ==
    ASSUME NEW w \in Windows, NEW a
    PROVE  Begins(AllBlocks(w), a) <=> \E m \in 1 .. Count(w) : w.insns[FirstIn(w, m)].at = a
<1>1. DOMAIN AllBlocks(w) = 1 .. Count(w) BY BlocksListed, ListLen DEF Count
<1>2. \A k \in 1 .. Count(w) : AllBlocks(w)[k].from = w.insns[FirstIn(w, k)].at BY BlockRun
<1> QED BY <1>1, <1>2 DEF Begins

LEMMA FirstInType ==
    ASSUME NEW w \in Windows, NEW m \in 1 .. Count(w)
    PROVE  FirstIn(w, m) \in 1 .. Len(w.insns)
<1>1. FirstIn(w, m) \in 1 .. LastOf(w, m) /\ LastOf(w, m) \in 1 .. Len(w.insns) BY BlockRun
<1>2. Len(w.insns) \in Nat BY WindowType
<1> QED BY <1>1, <1>2

LEMMA JumpsFlow ==
    ASSUME NEW w, Plain(w)
    PROVE  JumpArrows(w) \subseteq Flow(w)
<1> SUFFICES ASSUME NEW b \in Jumping(w, AllBlocks(w))
             PROVE  <<AllBlocks(w)[b].from, Target(w, AllBlocks(w)[b])>> \in Flow(w)
  BY DEF JumpArrows
<1> DEFINE B == AllBlocks(w)[b]
           t == Target(w, B)
           i == LastOf(w, b)
           in == w.insns[i]
<1>1. w \in Windows /\ Blocks(w) = AllBlocks(w) BY DEF Plain
<1>2. /\ b \in DOMAIN AllBlocks(w) /\ B.last.ends \in {"jump", "call"} /\ t # 0
      /\ Begins(AllBlocks(w), t)
  BY DEF Jumping
<1>3. /\ i \in DOMAIN w.insns /\ i \in 1 .. Len(w.insns) /\ B.last = in
      /\ B.from = BlockStart(Froms(w), in.at)
  BY <1>1, <1>2, BlockHolds
<1>4. in.imms # <<>> /\ InWindow(w, in.imms[1]) /\ t = in.imms[1]
  BY <1>2, <1>3 DEF Target
<1> HIDE DEF t
<1>5. in.imms \in Seq(Nat) /\ w.pc \in Nat /\ w.len \in Nat BY <1>1, <1>3, WindowType
<1> HIDE DEF in
<1>6. 1 \in DOMAIN in.imms /\ t \in Nat
  <2>1. Len(in.imms) \in Nat /\ DOMAIN in.imms = 1 .. Len(in.imms) BY <1>5, LenProperties
  <2>2. Len(in.imms) # 0 BY <1>4, <1>5, EmptySeq
  <2>3. 1 \in DOMAIN in.imms BY <2>1, <2>2
  <2> QED BY <2>3, <1>4, <1>5, LenProperties
<1>7. t \in Range(in.imms) BY <1>4, <1>6 DEF Range
<1>8. t \in w.pc .. w.pc + w.len /\ InWindow(w, t) BY <1>4, <1>5, <1>6 DEF InWindow
<1>9. in.ends \in {"call", "jump"} BY <1>2, <1>3
<1>10. t \in PointedAt(w, {"call", "jump"}) BY <1>3, <1>7, <1>8, <1>9 DEF PointedAt, in
<1>11. IsInsn(w, t)
  <2>1. PICK m \in 1 .. Count(w) : w.insns[FirstIn(w, m)].at = t BY <1>1, <1>2, BeginsAt
  <2>2. FirstIn(w, m) \in DOMAIN w.insns BY <1>1, FirstInType, WindowType
  <2> QED BY <2>1, <2>2 DEF IsInsn
<1>12. t \in Goes(w, i) BY <1>7, <1>10, <1>11 DEF Goes, in
<1> QED BY <1>3, <1>12, FlowHolds DEF in, t

LEMMA FallsFlow ==
    ASSUME NEW w, Plain(w)
    PROVE  FallArrows(w) \subseteq Flow(w)
<1> SUFFICES ASSUME NEW b \in Falling(AllBlocks(w))
             PROVE  <<AllBlocks(w)[b].from, AllBlocks(w)[b].to>> \in Flow(w)
  BY DEF FallArrows
<1> DEFINE B == AllBlocks(w)[b]
           i == LastOf(w, b)
           n == Len(w.insns)
<1>1. w \in Windows /\ Blocks(w) = AllBlocks(w) BY DEF Plain
<1>2. /\ b \in DOMAIN AllBlocks(w) /\ Begins(AllBlocks(w), B.to)
      /\ B.last.ends \in {"none", "call"} \/ (B.last.ends = "jump" /\ B.last.cond)
  BY DEF Falling
<1>3. /\ i \in DOMAIN w.insns /\ i \in 1 .. n /\ B.last = w.insns[i]
      /\ B.from = BlockStart(Froms(w), w.insns[i].at) /\ B.to = Stop(w.insns[i])
  BY <1>1, <1>2, BlockHolds
<1> HIDE DEF B, i
<1>4. PICK m \in 1 .. Count(w) : w.insns[FirstIn(w, m)].at = B.to BY <1>1, <1>2, BeginsAt
<1>5. i < n
  <2> DEFINE j == FirstIn(w, m)
  <2>1. j \in 1 .. n BY <1>1, FirstInType
  <2> HIDE DEF j
  <2>2. n \in Nat /\ w.insns[j].at \in Nat /\ w.insns[i].at \in Nat
        /\ w.insns[i].at < Stop(w.insns[i]) /\ Stop(w.insns[i]) \in Nat
        /\ (w.insns[j].at <= w.insns[i].at <=> j <= i)
    BY <1>1, <1>3, <2>1, Places
  <2>3. w.insns[j].at = Stop(w.insns[i]) BY <1>3, <1>4 DEF j
  <2>4. ~(j <= i) BY <2>2, <2>3
  <2> QED BY <1>3, <2>1, <2>2, <2>4
<1>6. B.to \in FallsThrough(w, i) BY <1>2, <1>3, <1>5 DEF FallsThrough
<1>7. B.to \in Froms(w) BY <1>1, <1>4, FromsAre
<1> QED BY <1>3, <1>6, <1>7, FlowHolds DEF B

LEMMA FlowJumps ==
    ASSUME NEW w, Plain(w), NEW i \in DOMAIN w.insns, NEW a \in Goes(w, i)
    PROVE  <<BlockStart(Froms(w), w.insns[i].at), a>> \in JumpArrows(w)
<1> DEFINE in == w.insns[i]
<1>1. /\ w \in Windows /\ w.pc > 0 /\ Len(in.imms) <= 1
      /\ ~Forgets(w, {"call", "jump"}) /\ Blocks(w) = AllBlocks(w)
  BY DEF Plain, OneImmediate
<1>2. /\ i \in 1 .. Len(w.insns) /\ in.imms \in Seq(Nat) /\ w.pc \in Nat /\ w.len \in Nat
      /\ in.ends \in Ends /\ (in.ends \in {"none", "ret"} => in.imms = <<>>)
  BY <1>1, WindowType DEF Decoded
<1>3. a \in PointedAt(w, {"call", "jump"}) /\ IsInsn(w, a) /\ a \in Range(in.imms) BY DEF Goes
<1> HIDE DEF in
<1>4. a = in.imms[1] /\ in.imms # <<>>
  <2>1. PICK x \in DOMAIN in.imms : in.imms[x] = a BY <1>3 DEF Range
  <2>2. DOMAIN in.imms = 1 .. Len(in.imms) /\ Len(in.imms) \in Nat BY <1>2, LenProperties
  <2>3. x = 1 BY <1>1, <2>1, <2>2
  <2> QED BY <2>1, <2>3, EmptySeq
<1>5. in.ends \in {"jump", "call"} BY <1>2, <1>4 DEF Ends
<1>6. i \in Closing(w) BY <1>5 DEF Closing, Closes, in
<1>7. PICK b \in 1 .. Count(w) : LastOf(w, b) = i
  BY <1>1, <1>6, ClosingFinite, AscendingSorts, BlocksListed DEF LastOf, Count
<1>8. b \in DOMAIN AllBlocks(w) BY <1>1, BlocksListed, ListLen DEF Count
<1>9. /\ AllBlocks(w)[b].from = BlockStart(Froms(w), in.at) /\ AllBlocks(w)[b].last = in
  BY <1>1, <1>7, <1>8, BlockHolds DEF in
<1>10. a \in w.pc .. w.pc + w.len /\ InWindow(w, a) BY <1>3 DEF PointedAt
<1>11. a # 0 BY <1>1, <1>2, <1>10
<1>12. Target(w, AllBlocks(w)[b]) = a BY <1>4, <1>9, <1>10 DEF Target
<1>13. Begins(AllBlocks(w), a)
  <2>1. PICK j \in DOMAIN w.insns : w.insns[j].at = a BY <1>3 DEF IsInsn
  <2>2. a \in Leaders(w) BY <1>1, <1>3, RememberedAll DEF Leaders
  <2>3. j \in 1 .. Len(w.insns) BY <1>1, WindowType
  <2>4. PICK m \in 1 .. Count(w) : FirstIn(w, m) = j BY <1>1, <2>1, <2>2, <2>3, BlockBegins
  <2> QED BY <1>1, <2>1, <2>4, BeginsAt
<1>14. b \in Jumping(w, AllBlocks(w)) BY <1>5, <1>8, <1>9, <1>11, <1>12, <1>13 DEF Jumping
<1> QED BY <1>9, <1>12, <1>14 DEF JumpArrows, in

LEMMA FlowFalls ==
    ASSUME NEW w, Plain(w), NEW i \in DOMAIN w.insns, NEW a \in FallsThrough(w, i) \cap Froms(w)
    PROVE  <<BlockStart(Froms(w), w.insns[i].at), a>> \in FallArrows(w)
<1> DEFINE in == w.insns[i]
           n == Len(w.insns)
<1>1. w \in Windows /\ Blocks(w) = AllBlocks(w) BY DEF Plain
<1>2. /\ i < n /\ a = Stop(in)
      /\ in.ends \in {"none", "call"} \/ (in.ends = "jump" /\ in.cond)
  BY DEF FallsThrough
<1>3. n \in Nat /\ i \in 1 .. n /\ i + 1 \in 1 .. n
  <2>1. n \in Nat /\ i \in 1 .. n BY <1>1, WindowType
  <2> QED BY <2>1, <1>2
<1>4. w.insns[i + 1].at = a BY <1>1, <1>2, <1>3, Places
<1>5. PICK m \in 1 .. Count(w) : w.insns[FirstIn(w, m)].at = a BY <1>1, FromsAre
<1>6. FirstIn(w, m) = i + 1
  <2>1. FirstIn(w, m) \in 1 .. n BY <1>1, FirstInType
  <2> QED BY <2>1, <1>1, <1>3, <1>4, <1>5, Places
<1>7. Count(w) \in Nat /\ DOMAIN AllBlocks(w) = 1 .. Count(w)
  BY <1>1, BlocksListed, ListLen DEF Count
<1>8. m # 1 /\ m - 1 \in 1 .. Count(w)
  <2>1. m # 1 BY <1>3, <1>6 DEF FirstIn
  <2> QED BY <2>1, <1>7
<1>9. LastOf(w, m - 1) = i
  <2>1. LastOf(w, m - 1) + 1 = i + 1 BY <1>6, <1>8 DEF FirstIn
  <2>2. LastOf(w, m - 1) \in 1 .. n BY <1>1, <1>8, BlockRun
  <2> QED BY <2>1, <2>2, <1>3
<1>10. /\ AllBlocks(w)[m - 1].from = BlockStart(Froms(w), in.at)
       /\ AllBlocks(w)[m - 1].to = Stop(in) /\ AllBlocks(w)[m - 1].last = in
  BY <1>1, <1>7, <1>8, <1>9, BlockHolds
<1>11. Begins(AllBlocks(w), a) BY <1>1, <1>5, BeginsAt
<1>12. m - 1 \in Falling(AllBlocks(w)) BY <1>2, <1>7, <1>8, <1>10, <1>11 DEF Falling
<1> QED BY <1>2, <1>10, <1>12 DEF FallArrows

LEMMA ArrowsAreFlow ==
    ASSUME NEW w, Plain(w)
    PROVE  {<<AllEdges(w)[e].from, AllEdges(w)[e].to>> : e \in DOMAIN AllEdges(w)} = Flow(w)
<1>1. w \in Windows /\ Blocks(w) = AllBlocks(w) BY DEF Plain
<1>2. Flow(w) \subseteq JumpArrows(w) \cup FallArrows(w) BY FlowOnly, FlowJumps, FlowFalls
<1> QED BY <1>1, <1>2, EdgesAre, JumpsFlow, FallsFlow

LEMMA PlainWindow ==
    ASSUME DisasmInv, Whole("cfg"), window.pc > 0, OneImmediate(window)
    PROVE  Plain(window)
BY CfgAnswer DEF Plain

(* The graph pass draws the arrows of the code and no others: the edges of  *)
(* an uncut answer are the ways control goes on between blocks, for every   *)
(* window that does not begin at 0 and whose branches state one immediate.  *)
THEOREM GraphAlwaysOfTheCode == Spec => []GraphIsOfTheCode
<1>1. DisasmInv => GraphIsOfTheCode
  <2> SUFFICES ASSUME DisasmInv, Whole("cfg"), window.pc > 0, OneImmediate(window)
               PROVE  Drawn = Flow(window)
    BY DEF GraphIsOfTheCode, EveryArrowDrawn
  <2> DEFINE E == AllEdges(window)
  <2>1. /\ DOMAIN E = 1 .. Arrows(window) /\ Of("edge") = 1 .. Arrows(window)
        /\ \A e \in 1 .. Arrows(window) : rows[e] = EdgeRow(window, e)
    BY CfgAnswer
  <2>2. ASSUME NEW e \in 1 .. Arrows(window) PROVE rows[e].edge = E[e]
    <3>1. rows[e] = EdgeRow(window, e) BY <2>1
    <3> QED BY <3>1 DEF EdgeRow
  <2>3. {<<E[e].from, E[e].to>> : e \in DOMAIN E} = Flow(window) BY PlainWindow, ArrowsAreFlow
  <2> HIDE DEF E
  <2> QED BY <2>1, <2>2, <2>3 DEF Drawn
<1> QED BY <1>1, DisasmInvHolds, PTL

LEMMA NoneCounted ==
    ASSUME NEW S, IsFiniteSet(S)
    PROVE  Cardinality(S) = 0 <=> S = {}
BY FS_EmptySet

(* Degrees are counts of arrows that were drawn; since those are all there  *)
(* are, a block that has none is one no instruction leads into or out of.   *)
THEOREM DegreesAlwaysTellReach == Spec => []DegreesTellReach
<1>1. DisasmInv => DegreesTellReach
  <2> SUFFICES ASSUME DisasmInv, Whole("cfg"), window.pc > 0, OneImmediate(window)
               PROVE  /\ {rows[k].block : k \in Of("degree")} = DOMAIN AllBlocks(window)
                      /\ \A k \in Of("degree") :
                            LET here == AllBlocks(window)[rows[k].block].from
                            IN  /\ rows[k].preds = 0
                                      <=> ~\E step \in Flow(window) : step[2] = here
                                /\ rows[k].succs = 0
                                      <=> ~\E step \in Flow(window) : step[1] = here
    BY DEF DegreesTellReach
  <2> DEFINE E == AllEdges(window)
             B == AllBlocks(window)
             into(a) == {e \in DOMAIN E : E[e].to = a}
             outof(a) == {e \in DOMAIN E : E[e].from = a}
  <2>1. /\ window \in Windows /\ Arrows(window) \in Nat /\ DOMAIN E = 1 .. Arrows(window)
        /\ Of("degree") = {After(b) : b \in 1 .. Count(window)}
        /\ \A b \in 1 .. Count(window) : rows[After(b)] = DegreeRow(E, B[b].from, b)
    BY CfgAnswer
  <2>2. DOMAIN B = 1 .. Count(window) BY <2>1, BlocksListed, ListLen DEF Count
  <2>3. ASSUME NEW b \in 1 .. Count(window)
        PROVE  /\ rows[After(b)].block = b
               /\ rows[After(b)].preds = Cardinality(into(B[b].from))
               /\ rows[After(b)].succs = Cardinality(outof(B[b].from))
    <3>1. rows[After(b)] = DegreeRow(E, B[b].from, b) BY <2>1
    <3>2. DegreeRow(E, B[b].from, b).block = b BY DegreeRowHolds
    <3>3. /\ DegreeRow(E, B[b].from, b).preds = Cardinality(into(B[b].from))
          /\ DegreeRow(E, B[b].from, b).succs = Cardinality(outof(B[b].from))
      BY DegreeRowCounts
    <3> QED BY <3>1, <3>2, <3>3
  <2>4. {<<E[e].from, E[e].to>> : e \in DOMAIN E} = Flow(window) BY PlainWindow, ArrowsAreFlow
  <2>5. IsFiniteSet(DOMAIN E)
    <3>1. IsFiniteSet(1 .. Arrows(window)) BY <2>1, FS_Interval
    <3> HIDE DEF E
    <3> QED BY <2>1, <3>1
  <2> HIDE DEF E, B
  <2>6. ASSUME NEW a
        PROVE  /\ Cardinality(into(a)) = 0 <=> ~\E step \in Flow(window) : step[2] = a
               /\ Cardinality(outof(a)) = 0 <=> ~\E step \in Flow(window) : step[1] = a
    <3>1. IsFiniteSet(into(a)) /\ IsFiniteSet(outof(a)) BY <2>5, FS_Subset
    <3>2. /\ Cardinality(into(a)) = 0 <=> into(a) = {}
          /\ Cardinality(outof(a)) = 0 <=> outof(a) = {}
      BY <3>1, NoneCounted
    <3>5. /\ \A e \in DOMAIN E : <<E[e].from, E[e].to>> \in Flow(window)
          /\ \A step \in Flow(window) : \E e \in DOMAIN E : step = <<E[e].from, E[e].to>>
      BY <2>4
    <3>3. into(a) = {} <=> ~\E step \in Flow(window) : step[2] = a
      <4>1. ASSUME NEW e \in into(a) PROVE \E step \in Flow(window) : step[2] = a
        <5> DEFINE step == <<E[e].from, E[e].to>>
        <5>1. step \in Flow(window) /\ step[2] = a BY <3>5
        <5> HIDE DEF step
        <5> QED BY <5>1
      <4>2. ASSUME NEW step \in Flow(window), step[2] = a PROVE \E e \in DOMAIN E : e \in into(a)
        <5>1. PICK e \in DOMAIN E : step = <<E[e].from, E[e].to>> BY <3>5
        <5> QED BY <5>1, <4>2
      <4> HIDE DEF into
      <4> QED BY <4>1, <4>2
    <3>4. outof(a) = {} <=> ~\E step \in Flow(window) : step[1] = a
      <4>1. ASSUME NEW e \in outof(a) PROVE \E step \in Flow(window) : step[1] = a
        <5> DEFINE step == <<E[e].from, E[e].to>>
        <5>1. step \in Flow(window) /\ step[1] = a BY <3>5
        <5> HIDE DEF step
        <5> QED BY <5>1
      <4>2. ASSUME NEW step \in Flow(window), step[1] = a PROVE \E e \in DOMAIN E : e \in outof(a)
        <5>1. PICK e \in DOMAIN E : step = <<E[e].from, E[e].to>> BY <3>5
        <5> QED BY <5>1, <4>2
      <4> HIDE DEF outof
      <4> QED BY <4>1, <4>2
    <3> QED BY <3>2, <3>3, <3>4
  <2> HIDE DEF into, outof
  <2>7. {rows[k].block : k \in Of("degree")} = DOMAIN B
    <3>1. \A k \in Of("degree") : rows[k].block \in 1 .. Count(window) BY <2>1, <2>3
    <3>2. \A b \in 1 .. Count(window) : After(b) \in Of("degree") /\ rows[After(b)].block = b
      BY <2>1, <2>3
    <3> QED BY <2>2, <3>1, <3>2
  <2>8. ASSUME NEW k \in Of("degree")
        PROVE  LET here == B[rows[k].block].from
               IN  /\ rows[k].preds = 0 <=> ~\E step \in Flow(window) : step[2] = here
                   /\ rows[k].succs = 0 <=> ~\E step \in Flow(window) : step[1] = here
    <3>1. PICK b \in 1 .. Count(window) : k = After(b) BY <2>1
    <3>2. B[rows[k].block].from = B[b].from BY <2>3, <3>1
    <3> QED BY <2>3, <2>6, <3>1, <3>2
  <2> QED BY <2>7, <2>8 DEF B
<1> QED BY <1>1, DisasmInvHolds, PTL
=============================================================================
