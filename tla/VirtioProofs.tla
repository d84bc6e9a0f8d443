---------------------------- MODULE VirtioProofs ----------------------------
(***************************************************************************)
(* What the theorems about the virtio devices rest on: the indices of the  *)
(* rings and their slots, for every size of both.                          *)
(***************************************************************************)
EXTENDS Virtio, TLAPS

-----------------------------------------------------------------------------
(* Ring indices *)

LEMMA DivMod ==
    ASSUME NEW a \in Nat, NEW b \in Nat \ {0}
    PROVE  /\ a \div b \in Nat /\ a % b \in 0 .. b - 1
           /\ a = b * (a \div b) + (a % b)
  OBVIOUS

\* The remainder is the only one.
LEMMA ModUnique ==
    ASSUME NEW b \in Nat \ {0}, NEW q \in Int, NEW r \in 0 .. b - 1
    PROVE  (b * q + r) % b = r
<1> DEFINE a == b * q + r
           d == a \div b
           m == a % b
<1>1. a \in Int
  OBVIOUS
<1>2. d \in Int /\ m \in 0 .. b - 1 /\ a = b * d + m
  <2> HIDE DEF a
  <2>1. QED
    BY <1>1
<1> HIDE DEF d, m
<1>3. b * (q - d) = m - r
  BY <1>2
<1>4. ~(q > d)
  BY <1>2, <1>3
<1>5. ~(q < d)
  BY <1>2, <1>3
<1>6. q = d
  BY <1>2, <1>4, <1>5
<1>7. m = r
  BY <1>2, <1>3, <1>6
<1>8. QED
  BY <1>7 DEF a, m

\* How many entries there are from one index to another.
Count(from, to) == (to - from) % IdxSize

LEMMA CountIs ==
    ASSUME NEW from \in Idx, NEW to \in Idx
    PROVE  Count(from, to) = IF to >= from THEN to - from ELSE to - from + IdxSize
<1> USE VirtioAssumption DEF Idx
<1>1. CASE to >= from
  <2>1. IdxSize * 0 + (to - from) = to - from /\ to - from \in 0 .. IdxSize - 1
    BY <1>1
  <2>2. (IdxSize * 0 + (to - from)) % IdxSize = to - from
    BY <2>1, ModUnique
  <2>3. QED
    BY <1>1, <2>1, <2>2 DEF Count
<1>2. CASE ~(to >= from)
  <2> DEFINE r == to - from + IdxSize
  <2>1. IdxSize * (-1) + r = to - from /\ r \in 0 .. IdxSize - 1
    BY <1>2
  <2> HIDE DEF r
  <2>2. (IdxSize * (-1) + r) % IdxSize = r
    BY <2>1, ModUnique
  <2>3. QED
    BY <1>2, <2>1, <2>2 DEF Count, r
<1>3. QED
  BY <1>1, <1>2

LEMMA CountType ==
    ASSUME NEW from \in Idx, NEW to \in Idx PROVE Count(from, to) \in Idx
  BY CountIs, VirtioAssumption DEF Idx

\* The next index.
LEMMA NextIdx ==
    ASSUME NEW i \in Idx
    PROVE  /\ (i + 1) % IdxSize \in Idx
           /\ (i + 1) % IdxSize = IF i = IdxSize - 1 THEN 0 ELSE i + 1
<1> USE VirtioAssumption DEF Idx
<1>1. CASE i = IdxSize - 1
  <2>1. IdxSize * 1 + 0 = i + 1
    BY <1>1
  <2>2. (IdxSize * 1 + 0) % IdxSize = 0
    BY ModUnique
  <2>3. QED
    BY <1>1, <2>1, <2>2
<1>2. CASE i # IdxSize - 1
  <2>1. IdxSize * 0 + (i + 1) = i + 1 /\ i + 1 \in 0 .. IdxSize - 1
    BY <1>2
  <2>2. (IdxSize * 0 + (i + 1)) % IdxSize = i + 1
    BY <2>1, ModUnique
  <2>3. QED
    BY <1>2, <2>1, <2>2
<1>3. QED
  BY <1>1, <1>2

\* An entry more, an entry less.
LEMMA CountMore ==
    ASSUME NEW from \in Idx, NEW to \in Idx, Count(from, to) + 1 < IdxSize
    PROVE  Count(from, (to + 1) % IdxSize) = Count(from, to) + 1
  BY CountIs, NextIdx, VirtioAssumption, SMTT(40) DEF Idx

LEMMA CountLess ==
    ASSUME NEW from \in Idx, NEW to \in Idx, from # to
    PROVE  /\ Count(from, to) \in Nat \ {0}
           /\ Count((from + 1) % IdxSize, to) = Count(from, to) - 1
<1>1. /\ Count(from, to) > 0
      /\ Count((from + 1) % IdxSize, to) = Count(from, to) - 1
  BY CountIs, NextIdx, VirtioAssumption DEF Idx
<1>2. Count(from, to) \in Idx
  BY CountType
<1>3. Count(from, to) \in Nat \ {0}
  <2> DEFINE n == Count(from, to)
  <2> HIDE DEF n
  <2>1. n > 0 /\ n \in Idx => n \in Nat \ {0}
    BY DEF Idx
  <2>2. QED
    BY <1>1, <1>2, <2>1 DEF n
<1>4. QED
  BY <1>1, <1>3

\* The slot of an entry in a ring of M entries does not depend on the
\* wrap-around of the index.
LEMMA ModWraps ==
    ASSUME NEW M \in Nat \ {0}, IdxSize % M = 0,
           NEW x \in Nat, NEW y \in Nat, x \in {y, y + IdxSize, y - IdxSize}
    PROVE  x % M = y % M
<1> USE VirtioAssumption
<1> DEFINE k == IdxSize \div M
           d == y \div M
           r == y % M
<1>1. k \in Nat /\ IdxSize = M * k
  <2>1. k \in Nat /\ IdxSize = M * k + (IdxSize % M)
    BY DivMod
  <2>2. QED
    BY <2>1
<1>2. d \in Nat /\ r \in 0 .. M - 1 /\ y = M * d + r
  BY DivMod
<1> HIDE DEF k, d, r
<1>3. PICK e \in Int : x = M * e + r
  <2>1. CASE x = y
    BY <1>2, <2>1
  <2>2. CASE x = y + IdxSize
    <3>1. x = M * (d + k) + r /\ d + k \in Int
      BY <1>1, <1>2, <2>2
    <3>2. QED
      BY <3>1
  <2>3. CASE x = y - IdxSize
    <3>1. x = M * (d - k) + r /\ d - k \in Int
      BY <1>1, <1>2, <2>3
    <3>2. QED
      BY <3>1
  <2>4. QED
    BY <2>1, <2>2, <2>3
<1>4. (M * e + r) % M = r
  BY <1>2, ModUnique
<1>5. QED
  BY <1>3, <1>4 DEF r

\* Two entries less than a ring apart are in different slots.
LEMMA ModsDiffer ==
    ASSUME NEW M \in Nat \ {0}, NEW x \in Nat, NEW y \in Nat, x < y, y < x + M
    PROVE  x % M # y % M
<1> DEFINE d == x \div M
           e == y \div M
           r == x % M
<1>1. SUFFICES ASSUME y % M = r PROVE FALSE
  OBVIOUS
<1>2. d \in Nat /\ r \in 0 .. M - 1 /\ x = M * d + r
  BY DivMod
<1>3. e \in Nat /\ y = M * e + r
  BY <1>1, DivMod
<1> HIDE DEF d, e, r
<1>4. y - x = M * (e - d)
  BY <1>2, <1>3
<1>5. e - d > 0 /\ e - d < 1
  BY <1>2, <1>3, <1>4
<1>6. QED
  BY <1>2, <1>3, <1>5

\* The slot that an index comes to.
LEMMA CountSlot ==
    ASSUME NEW M \in Nat \ {0}, IdxSize % M = 0, NEW from \in Idx, NEW to \in Idx
    PROVE  to % M = (from + Count(from, to)) % M
<1>1. from \in Nat /\ to \in Nat /\ from + Count(from, to) \in {to, to + IdxSize}
  BY CountIs, VirtioAssumption DEF Idx
<1>2. from + Count(from, to) \in Nat
  BY <1>1, VirtioAssumption
<1>3. QED
  BY <1>1, <1>2, ModWraps

\* The slot of an entry in a ring of MaxQueueNum entries.
SlotOf(x) == x % MaxQueueNum

LEMMA SlotType ==
    ASSUME NEW x \in Nat PROVE SlotOf(x) \in DescIdx
  BY VirtioAssumption, DivMod DEF SlotOf, DescIdx

LEMMA SlotWraps ==
    ASSUME NEW x \in Nat, NEW y \in Nat, x \in {y, y + IdxSize, y - IdxSize}
    PROVE  SlotOf(x) = SlotOf(y)
  BY ModWraps, VirtioAssumption DEF SlotOf

LEMMA SlotsDiffer ==
    ASSUME NEW x \in Nat, NEW y \in Nat, x < y, y < x + MaxQueueNum
    PROVE  SlotOf(x) # SlotOf(y)
  BY ModsDiffer, VirtioAssumption DEF SlotOf
-----------------------------------------------------------------------------
(* The cells of a chain *)

LengthStep(c, i, e) == e + c[i].len
LengthInv(c, i, e) == e \in Nat

Lengths == INSTANCE Loops WITH Base <- LAMBDA c : 0, Step <- LengthStep, Inv <- LengthInv

DescriptorSizes == [write : BOOLEAN, len : Nat]

LEMMA SizesAre ==
    ASSUME NEW c \in Seq(DescriptorSizes)
    PROVE  Len(c) \in Nat /\ \A i \in 1 .. Len(c) : c[i].len \in Nat /\ c[i].write \in BOOLEAN
<1>1. Len(c) \in Nat /\ \A i \in 1 .. Len(c) : c[i] \in DescriptorSizes
  OBVIOUS
<1>2. QED
  BY <1>1 DEF DescriptorSizes

LEMMA CellsBeforeIs ==
    ASSUME NEW c \in Seq(DescriptorSizes)
    PROVE  /\ \A i \in 0 .. Len(c) : CellsBefore(c)[i] \in Nat
           /\ CellsBefore(c)[0] = 0
           /\ \A i \in 1 .. Len(c) : CellsBefore(c)[i] = CellsBefore(c)[i - 1] + c[i].len
<1> DEFINE n == Len(c)
<1>1. n \in Nat /\ \A i \in 1 .. n : c[i].len \in Nat
  BY SizesAre
<1> HIDE DEF n
<1>2. CellsBefore(c) = Lengths!After(c, n)
  BY DEF CellsBefore, Lengths!After, LengthStep, n
<1>3. \A i \in 0 .. n : LengthInv(c, i, Lengths!After(c, n)[i])
  <2>1. LengthInv(c, 0, 0)
    BY DEF LengthInv
  <2>2. ASSUME NEW i \in 1 .. n, NEW e, LengthInv(c, i - 1, e)
        PROVE  LengthInv(c, i, LengthStep(c, i, e))
    BY <1>1, <2>2 DEF LengthInv, LengthStep
  <2>3. QED
    BY <1>1, <2>1, <2>2, Lengths!LoopKeeps
<1>4. /\ Lengths!After(c, n)[0] = 0
      /\ \A i \in 1 .. n : Lengths!After(c, n)[i] = LengthStep(c, i, Lengths!After(c, n)[i - 1])
  BY <1>1, Lengths!LoopIs
<1>5. QED
  BY <1>2, <1>3, <1>4 DEF LengthInv, LengthStep, n

FlatStep(s, i, e) == IF i = 1 THEN s[i] ELSE e \o s[i]

Flat == INSTANCE Loops WITH Base <- LAMBDA s : << >>, Step <- FlatStep, Inv <- LAMBDA s, i, e : TRUE

\* FlattenSeq is what a loop over the sequences makes.
LEMMA FlattenIs ==
    ASSUME NEW s, NEW n \in Nat \ {0}, Len(s) = n
    PROVE  \E f : /\ f[1] = s[1] /\ \A i \in 2 .. n : f[i] = f[i - 1] \o s[i]
                  /\ FlattenSeq(s) = f[n]
<1> DEFINE g == Flat!After(s, n)
           f == [i \in 1 .. n |-> g[i]]
           h == CHOOSE h : h = [i \in 1 .. n |-> IF i = 1 THEN s[i] ELSE h[i - 1] \o s[i]]
<1>1. \A i \in 1 .. n : g[i] = FlatStep(s, i, g[i - 1])
  BY Flat!LoopIs
<1> HIDE DEF g
<1>2. \A i \in 1 .. n : f[i] = IF i = 1 THEN s[i] ELSE f[i - 1] \o s[i]
  <2>1. ASSUME NEW i \in 1 .. n PROVE f[i] = IF i = 1 THEN s[i] ELSE f[i - 1] \o s[i]
    <3>1. f[i] = FlatStep(s, i, g[i - 1])
      BY <1>1
    <3>2. i # 1 => i - 1 \in 1 .. n
      OBVIOUS
    <3>3. i # 1 => f[i - 1] = g[i - 1]
      BY <3>2
    <3>4. QED
      BY <3>1, <3>3 DEF FlatStep
  <2>2. QED
    BY <2>1
<1>3. f = [i \in 1 .. n |-> f[i]]
  OBVIOUS
<1> HIDE DEF f
<1>4. f = [i \in 1 .. n |-> IF i = 1 THEN s[i] ELSE f[i - 1] \o s[i]]
  BY <1>2, <1>3, Zenon
<1>5. h = [i \in 1 .. n |-> IF i = 1 THEN s[i] ELSE h[i - 1] \o s[i]]
  BY <1>4, Zenon
<1>6. FlattenSeq(s) = h[n]
  <2>1. Len(s) # 0
    OBVIOUS
  <2>2. QED
    BY <2>1, Zenon DEF FlattenSeq
<1> HIDE DEF h
<1>7. \A i \in 1 .. n : h[i] = IF i = 1 THEN s[i] ELSE h[i - 1] \o s[i]
  <2> DEFINE F(i) == IF i = 1 THEN s[i] ELSE h[i - 1] \o s[i]
  <2>1. h = [i \in 1 .. n |-> F(i)]
    BY <1>5
  <2> HIDE DEF F
  <2>2. \A i \in 1 .. n : h[i] = F(i)
    BY <2>1
  <2>3. QED
    BY <2>2 DEF F
<1>8. h[1] = s[1] /\ \A i \in 2 .. n : h[i] = h[i - 1] \o s[i]
  <2>1. 1 \in 1 .. n /\ \A i \in 2 .. n : i \in 1 .. n /\ i # 1
    OBVIOUS
  <2>2. QED
    BY <1>7, <2>1, Zenon
<1>9. QED
  BY <1>6, <1>8

LEMMA SeqWider ==
    ASSUME NEW S, NEW T, S \subseteq T, NEW w \in Seq(S) PROVE w \in Seq(T)
  OBVIOUS

LEMMA ConcatIs ==
    ASSUME NEW S, NEW w \in Seq(S), NEW r \in Seq(S)
    PROVE  /\ w \o r \in Seq(S) /\ Len(w) \in Nat /\ Len(w \o r) = Len(w) + Len(r)
           /\ \A i \in 1 .. Len(w) + Len(r) :
                (w \o r)[i] = IF i <= Len(w) THEN w[i] ELSE r[i - Len(w)]
  OBVIOUS

Increasing(w) == \A i, j \in 1 .. Len(w) : i < j => w[i] < w[j]

\* Cells that follow others.
LEMMA CellsFollow ==
    ASSUME NEW base \in Nat, NEW m \in Nat, NEW l \in Nat,
           NEW w \in Seq(base .. base + m - 1), Increasing(w)
    PROVE  LET v == w \o [j \in 1 .. l |-> base + m + j - 1]
           IN  /\ v \in Seq(base .. base + (m + l) - 1) /\ Increasing(v)
               /\ Len(v) = Len(w) + l
<1> DEFINE r == [j \in 1 .. l |-> base + m + j - 1]
           v == w \o r
           S == base .. base + (m + l) - 1
<1>1. Len(w) \in Nat /\ \A i \in 1 .. Len(w) : w[i] \in base .. base + m - 1
  OBVIOUS
<1>2. w \in Seq(S)
  <2>1. base .. base + m - 1 \subseteq S
    OBVIOUS
  <2> HIDE DEF S
  <2>2. QED
    BY <2>1, SeqWider
<1>3. r \in Seq(S) /\ Len(r) = l /\ \A j \in 1 .. l : r[j] = base + m + j - 1
  <2>1. \A j \in 1 .. l : base + m + j - 1 \in S
    OBVIOUS
  <2> HIDE DEF S
  <2>2. QED
    BY <2>1
<1> HIDE DEF r, S
<1>4. /\ v \in Seq(S) /\ Len(v) = Len(w) + l
      /\ \A i \in 1 .. Len(w) + l : v[i] = IF i <= Len(w) THEN w[i] ELSE r[i - Len(w)]
  BY <1>2, <1>3, ConcatIs
<1> HIDE DEF v
<1>5. ASSUME NEW i \in 1 .. Len(v), NEW j \in 1 .. Len(v), i < j PROVE v[i] < v[j]
  <2>1. CASE j <= Len(w)
    BY <1>1, <1>4, <1>5, <2>1, SMTT(40) DEF Increasing
  <2>2. CASE ~(j <= Len(w))
    <3>1. j - Len(w) \in 1 .. l /\ v[j] = base + m + (j - Len(w)) - 1
      BY <1>1, <1>3, <1>4, <2>2
    <3>2. CASE i <= Len(w)
      BY <1>1, <1>4, <3>1, <3>2, SMTT(40)
    <3>3. CASE ~(i <= Len(w))
      <4>1. i - Len(w) \in 1 .. l /\ v[i] = base + m + (i - Len(w)) - 1
        BY <1>1, <1>3, <1>4, <3>3
      <4>2. QED
        BY <1>1, <1>5, <3>1, <4>1
    <3>4. QED
      BY <3>2, <3>3
  <2>3. QED
    BY <2>1, <2>2
<1>6. QED
  BY <1>4, <1>5 DEF Increasing, v, r, S

\* The cells of some descriptors of a chain, one after the other.
LEMMA SomeCells ==
    ASSUME NEW c \in Seq(DescriptorSizes), c # << >>, NEW base \in Nat, NEW K
    PROVE  LET w == FlattenSeq([i \in 1 .. Len(c) |->
                                  IF i \in K THEN Cells(ChainFrom(base, c)[i]) ELSE << >>])
           IN  /\ w \in Seq(base .. base + CellsBefore(c)[Len(c)] - 1) /\ Increasing(w)
               /\ (\E j \in 1 .. Len(c) : j \in K /\ c[j].len > 0) => Len(w) > 0
<1> DEFINE n == Len(c)
           s == [i \in 1 .. n |-> IF i \in K THEN Cells(ChainFrom(base, c)[i]) ELSE << >>]
           m == CellsBefore(c)
           Some(i) == \E j \in 1 .. i : j \in K /\ c[j].len > 0
           OK(i, w) == /\ w \in Seq(base .. base + m[i] - 1) /\ Increasing(w)
                       /\ Some(i) => Len(w) > 0
<1>1. n \in Nat \ {0} /\ \A i \in 1 .. n : c[i].len \in Nat
  BY SizesAre
<1>2. Len(s) = n
  BY <1>1
<1> HIDE DEF n
<1>3. /\ \A i \in 0 .. n : m[i] \in Nat
      /\ m[0] = 0 /\ \A i \in 1 .. n : m[i] = m[i - 1] + c[i].len
  BY CellsBeforeIs DEF n
<1>4. \A i \in 1 .. n : s[i] = IF i \in K THEN [j \in 1 .. c[i].len |-> base + m[i - 1] + j - 1]
                                         ELSE << >>
  BY DEF ChainFrom, Cells, n
<1> HIDE DEF m, s
<1>5. PICK f : /\ f[1] = s[1] /\ \A i \in 2 .. n : f[i] = f[i - 1] \o s[i]
               /\ FlattenSeq(s) = f[n]
  BY <1>1, <1>2, FlattenIs
<1>6. ASSUME NEW i \in 1 .. n, NEW w, w \in Seq(base .. base + m[i - 1] - 1), Increasing(w),
             Some(i - 1) => Len(w) > 0
      PROVE  OK(i, w \o s[i])
  <2>1. m[i - 1] \in Nat /\ c[i].len \in Nat /\ m[i] = m[i - 1] + c[i].len
    BY <1>1, <1>3
  <2>2. CASE i \in K
    <3>1. s[i] = [j \in 1 .. c[i].len |-> base + m[i - 1] + j - 1]
      BY <1>4, <2>2
    <3>2. /\ w \o s[i] \in Seq(base .. base + (m[i - 1] + c[i].len) - 1) /\ Increasing(w \o s[i])
          /\ Len(w \o s[i]) = Len(w) + c[i].len
      <4> DEFINE b == m[i - 1]
                 l == c[i].len
      <4>1. b \in Nat /\ l \in Nat /\ w \in Seq(base .. base + b - 1) /\ Increasing(w)
        BY <1>6, <2>1
      <4>2. s[i] = [j \in 1 .. l |-> base + b + j - 1]
        BY <3>1
      <4> HIDE DEF b, l
      <4> DEFINE r == [j \in 1 .. l |-> base + b + j - 1]
      <4>3. /\ w \o r \in Seq(base .. base + (b + l) - 1) /\ Increasing(w \o r)
            /\ Len(w \o r) = Len(w) + l
        BY <4>1, CellsFollow, Zenon
      <4> HIDE DEF r
      <4>4. QED
        BY <4>2, <4>3 DEF b, l, r
    <3>3. Len(w) \in Nat
      BY <1>6
    <3>4. Some(i) => Len(w \o s[i]) > 0
      <4>1. \A j \in 1 .. i : j = i \/ j \in 1 .. i - 1
        OBVIOUS
      <4>2. Some(i) => Some(i - 1) \/ c[i].len > 0
        BY <4>1
      <4> DEFINE l == c[i].len
                 k == Len(w)
      <4>3. /\ l \in Nat /\ k \in Nat /\ Len(w \o s[i]) = k + l
            /\ Some(i) => k > 0 \/ l > 0
        BY <1>6, <2>1, <3>2, <3>3, <4>2
      <4> HIDE DEF l, k, Some
      <4>4. QED
        BY <4>3
    <3>5. QED
      BY <2>1, <3>2, <3>4
  <2>3. CASE i \notin K
    <3>1. s[i] = << >>
      BY <1>4, <2>3
    <3>2. w \o << >> = w
      BY <1>6
    <3>3. base .. base + m[i - 1] - 1 \subseteq base .. base + m[i] - 1
      BY <2>1
    <3>4. w \in Seq(base .. base + m[i] - 1)
      <4> DEFINE S == base .. base + m[i - 1] - 1
                 V == base .. base + m[i] - 1
      <4>1. w \in Seq(S) /\ S \subseteq V
        BY <1>6, <3>3
      <4> HIDE DEF S, V
      <4>2. w \in Seq(V)
        BY <4>1, SeqWider
      <4>3. QED
        BY <4>2 DEF V
    <3>5. Some(i) => Len(w) > 0
      <4>1. \A j \in 1 .. i : j = i \/ j \in 1 .. i - 1
        OBVIOUS
      <4>2. Some(i) => Some(i - 1)
        BY <2>3, <4>1
      <4>3. QED
        BY <1>6, <4>2
    <3>6. QED
      BY <1>6, <3>1, <3>2, <3>4, <3>5
  <2>4. QED
    BY <2>2, <2>3
<1> DEFINE T == {i \in Nat : i = 0 \/ OK(i, f[i])}
<1>7. ASSUME NEW i \in 1 .. n, i - 1 \in T PROVE i \in T
  <2>1. CASE i = 1
    <3>1. << >> \in Seq(base .. base + m[1 - 1] - 1) /\ Increasing(<< >>)
      BY DEF Increasing
    <3> HIDE DEF OK
    <3>2. OK(1, << >> \o s[1])
      <4>1. 1 \in 1 .. n /\ ~Some(1 - 1)
        BY <1>1
      <4>2. QED
        BY <1>6, <3>1, <4>1
    <3>3. << >> \o s[1] = s[1]
      <4> DEFINE l == c[1].len
                 b == base + m[0]
      <4>1. 1 \in 1 .. n /\ l \in Nat /\ b \in Nat
        BY <1>1, <1>3
      <4>2. s[1] = IF 1 \in K THEN [j \in 1 .. l |-> b + j - 1] ELSE << >>
        BY <1>4, <4>1
      <4> HIDE DEF l, b
      <4>3. s[1] \in Seq(Int)
        BY <4>1, <4>2
      <4>4. QED
        BY <4>3
    <3>4. OK(1, f[1])
      BY <1>5, <3>2, <3>3
    <3>5. QED
      BY <2>1, <3>4
  <2>2. CASE i # 1
    <3>1. i \in 2 .. n /\ OK(i - 1, f[i - 1])
      BY <1>7, <2>2
    <3>2. f[i] = f[i - 1] \o s[i]
      BY <1>5, <3>1
    <3> HIDE DEF OK
    <3>3. OK(i, f[i - 1] \o s[i])
      BY <1>6, <3>1 DEF OK
    <3>4. OK(i, f[i]) /\ i \in Nat
      BY <1>1, <3>1, <3>2, <3>3
    <3>5. QED
      BY <3>4
  <2>3. QED
    BY <2>1, <2>2
<1>8. n \in T
  <2> HIDE DEF T
  <2>1. 0 \in T
    BY DEF T
  <2>2. 0 .. n \subseteq T
    BY <1>1, <1>7, <2>1, Flat!LoopInduction
  <2>3. QED
    BY <1>1, <2>2
<1>9. OK(n, f[n])
  BY <1>1, <1>8
<1>10. QED
  BY <1>5, <1>9 DEF s, m, n

\* The chain that is given the cells from base on.
LEMMA ChainFromIs ==
    ASSUME NEW c \in Seq(DescriptorSizes), c # << >>, NEW base \in Nat
    PROVE  /\ Len(ChainFrom(base, c)) = Len(c) /\ Len(c) \in Nat \ {0}
           /\ \A i \in 1 .. Len(c) : ChainFrom(base, c)[i].write = c[i].write
<1> DEFINE F(i) == [write |-> c[i].write, len |-> c[i].len,
                    addr  |-> base + CellsBefore(c)[i - 1]]
           n == Len(c)
           k == ChainFrom(base, c)
<1>1. n \in Nat \ {0}
  BY SizesAre
<1>2. k = [i \in 1 .. n |-> F(i)] /\ \A i : F(i).write = c[i].write
  BY DEF ChainFrom
<1> HIDE DEF F, k, n
<1>3. Len([i \in 1 .. n |-> F(i)]) = n
  BY <1>1
<1>4. Len(k) = n /\ \A i \in 1 .. n : k[i].write = c[i].write
  BY <1>2, <1>3
<1>5. QED
  BY <1>1, <1>4 DEF n, k

\* The cells of it that the device reads, and those that it writes, rise.
LEMMA ReadableFrom ==
    ASSUME NEW c \in Seq(DescriptorSizes), c # << >>, NEW base \in Nat
    PROVE  LET r == ReadableCells(ChainFrom(base, c))
           IN  r \in Seq(base .. base + CellsBefore(c)[Len(c)] - 1) /\ Increasing(r)
<1> DEFINE k == ChainFrom(base, c)
           P(i) == \A j \in 1 .. i : ~k[j].write
           K == {i \in 1 .. Len(c) : P(i)}
           r == ReadableCells(k)
<1>1. Len(k) = Len(c)
  BY ChainFromIs
<1>2. r = FlattenSeq([i \in 1 .. Len(k) |-> IF P(i) THEN Cells(k[i]) ELSE << >>])
  BY DEF ReadableCells
<1>3. \A i \in 1 .. Len(c) : i \in K <=> P(i)
  OBVIOUS
<1> HIDE DEF r, k, P, K
<1>4. r = FlattenSeq([i \in 1 .. Len(c) |-> IF i \in K THEN Cells(k[i]) ELSE << >>])
  BY <1>1, <1>2, <1>3
<1>5. r = FlattenSeq([i \in 1 .. Len(c) |->
                        IF i \in K THEN Cells(ChainFrom(base, c)[i]) ELSE << >>])
  BY <1>4 DEF k
<1>6. r \in Seq(base .. base + CellsBefore(c)[Len(c)] - 1) /\ Increasing(r)
  BY <1>5, SomeCells
<1>7. QED
  BY <1>6 DEF r, k

LEMMA WritableFrom ==
    ASSUME NEW c \in Seq(DescriptorSizes), c # << >>, NEW base \in Nat
    PROVE  LET w == WritableCells(ChainFrom(base, c))
           IN  /\ w \in Seq(base .. base + CellsBefore(c)[Len(c)] - 1) /\ Increasing(w)
               /\ (\E i \in 1 .. Len(c) :
                     /\ c[i].write /\ c[i].len > 0
                     /\ \A j \in 1 .. i : c[j].write => \A l \in j .. i : c[l].write)
                  => Len(w) > 0
<1> DEFINE k == ChainFrom(base, c)
           P(i) == /\ k[i].write
                   /\ \A j \in 1 .. i : k[j].write => \A l \in j .. i : k[l].write
           K == {i \in 1 .. Len(c) : P(i)}
           w == WritableCells(k)
           some == \E i \in 1 .. Len(c) :
                     /\ c[i].write /\ c[i].len > 0
                     /\ \A j \in 1 .. i : c[j].write => \A l \in j .. i : c[l].write
<1>1. /\ Len(k) = Len(c) /\ Len(c) \in Nat
      /\ \A i \in 1 .. Len(c) : k[i].write = c[i].write
  BY ChainFromIs
<1>2. w = FlattenSeq([i \in 1 .. Len(k) |-> IF P(i) THEN Cells(k[i]) ELSE << >>])
  BY DEF WritableCells
<1>3. \A i \in 1 .. Len(c) : i \in K <=> P(i)
  OBVIOUS
<1>4. some => \E i \in 1 .. Len(c) : i \in K /\ c[i].len > 0
  <2>1. SUFFICES ASSUME NEW i \in 1 .. Len(c), c[i].write, c[i].len > 0,
                        \A j \in 1 .. i : c[j].write => \A l \in j .. i : c[l].write
                 PROVE  P(i)
    BY <1>3
  <2>2. \A j \in 1 .. i : j \in 1 .. Len(c) /\ \A l \in j .. i : l \in 1 .. Len(c)
    BY <1>1
  <2> HIDE DEF k
  <2>3. QED
    BY <1>1, <2>1, <2>2
<1> HIDE DEF w, k, P, K, some
<1>5. w = FlattenSeq([i \in 1 .. Len(c) |-> IF i \in K THEN Cells(k[i]) ELSE << >>])
  BY <1>1, <1>2, <1>3
<1>6. w = FlattenSeq([i \in 1 .. Len(c) |->
                        IF i \in K THEN Cells(ChainFrom(base, c)[i]) ELSE << >>])
  BY <1>5 DEF k
<1>7. /\ w \in Seq(base .. base + CellsBefore(c)[Len(c)] - 1) /\ Increasing(w)
      /\ (\E i \in 1 .. Len(c) : i \in K /\ c[i].len > 0) => Len(w) > 0
  BY <1>6, SomeCells
<1>8. QED
  BY <1>4, <1>7 DEF w, k, some

\* The cells of the chain of head h, when a driver gives M to each.
ZoneOf(M, h) == h * M .. ((h + 1) * M) - 1

LEMMA ZonesOf ==
    ASSUME NEW M \in Nat, 0 .. (MaxQueueNum * M) - 1 \subseteq Cell, NEW h \in DescIdx
    PROVE  /\ ZoneOf(M, h) \subseteq Cell
           /\ \A g \in DescIdx : h # g => ZoneOf(M, h) \cap ZoneOf(M, g) = {}
<1>1. h \in Nat /\ h <= MaxQueueNum - 1 /\ MaxQueueNum \in Nat
  BY VirtioAssumption DEF DescIdx
<1>2. h * M \in Nat /\ (h + 1) * M \in Nat /\ MaxQueueNum * M \in Nat
  BY <1>1
<1>3. ZoneOf(M, h) \subseteq 0 .. (MaxQueueNum * M) - 1
  <2>1. (h + 1) * M <= MaxQueueNum * M
    BY <1>1
  <2>2. QED
    BY <1>2, <2>1 DEF ZoneOf
<1>4. ASSUME NEW g \in DescIdx, h # g PROVE ZoneOf(M, h) \cap ZoneOf(M, g) = {}
  <2>1. g \in Nat /\ g * M \in Nat /\ (g + 1) * M \in Nat
    <3>1. g \in Nat
      BY DEF DescIdx
    <3>2. QED
      BY <3>1
  <2>2. h < g => (h + 1) * M <= g * M
    BY <1>1, <2>1
  <2>3. g < h => (g + 1) * M <= h * M
    BY <1>1, <2>1
  <2>4. QED
    BY <1>1, <1>2, <1>4, <2>1, <2>2, <2>3 DEF ZoneOf
<1>5. QED
  BY <1>3, <1>4

\* What is copied to a chain that is long enough is what its cells hold then;
\* no other cell is written.
LEMMA CopyIs ==
    ASSUME NEW mem, NEW c, NEW buf, Len(buf) \in Nat,
           NEW w, w = WritableCells(c), NEW m, m = CopiedTo(mem, c, buf),
           Increasing(w), Len(w) \in Nat, Len(buf) <= Len(w),
           \A i \in 1 .. Len(w) : w[i] \in Cell
    PROVE  /\ m = [x \in Cell |-> m[x]]
           /\ \A i \in 1 .. Len(buf) : m[w[i]] = buf[i]
           /\ \A x \in Cell : (\A i \in 1 .. Len(w) : x # w[i]) => m[x] = mem[x]
<1> DEFINE n == Len(buf)
           k == IF n < Len(w) THEN n ELSE Len(w)
           value(x) == IF \E i \in 1 .. n : w[i] = x
                       THEN buf[CHOOSE i \in 1 .. n : w[i] = x] ELSE mem[x]
<1>1. k = n
  OBVIOUS
<1>2. m = [x \in Cell |-> IF \E i \in 1 .. k : w[i] = x
                          THEN buf[CHOOSE i \in 1 .. k : w[i] = x] ELSE mem[x]]
  BY DEF CopiedTo
<1>3. m = [x \in Cell |-> value(x)]
  BY <1>1, <1>2
<1>4. /\ n \in Nat /\ Len(w) \in Nat /\ n <= Len(w)
      /\ \A i \in 1 .. Len(w) : w[i] \in Cell
      /\ \A i, j \in 1 .. Len(w) : i < j => w[i] < w[j]
  BY DEF Increasing
<1> HIDE DEF n, value
<1>5. m = [x \in Cell |-> m[x]] /\ \A x \in Cell : m[x] = value(x)
  BY <1>3
<1>6. ASSUME NEW i \in 1 .. n PROVE m[w[i]] = buf[i]
  <2>1. i \in 1 .. Len(w) /\ w[i] \in Cell
    BY <1>4
  <2>2. \A j \in 1 .. n : w[j] = w[i] => j = i
    <3>1. \A j \in 1 .. n : j \in 1 .. Len(w) /\ w[j] \in Nat /\ w[i] \in Nat
      <4>1. \A j \in 1 .. n : j \in 1 .. Len(w)
        BY <1>4
      <4>2. Cell \subseteq Nat
        BY VirtioAssumption
      <4>3. QED
        BY <1>4, <2>1, <4>1, <4>2
    <3>2. QED
      BY <1>4, <2>1, <3>1
  <2> DEFINE x == w[i]
             j == CHOOSE j \in 1 .. n : w[j] = x
  <2>3. j \in 1 .. n /\ w[j] = x
    OBVIOUS
  <2>4. value(x) = buf[j]
    BY DEF value
  <2>5. j = i
    BY <2>2, <2>3
  <2>6. QED
    BY <1>5, <2>1, <2>4, <2>5
<1>7. ASSUME NEW x \in Cell, \A i \in 1 .. Len(w) : x # w[i] PROVE m[x] = mem[x]
  <2>1. ~(\E i \in 1 .. n : w[i] = x)
    BY <1>4, <1>7
  <2>2. value(x) = mem[x]
    BY <2>1 DEF value
  <2>3. QED
    BY <1>5, <2>2
<1>8. QED
  BY <1>5, <1>6, <1>7 DEF n
=============================================================================
