-------------------------------- MODULE Loops --------------------------------
(***************************************************************************)
(* A loop of n turns over a value: turn i of the loop of m makes           *)
(* Step(m, i, e) of e.  Models write it as a recursive function; here it   *)
(* is shown that there is one, and that what each turn keeps holds at the  *)
(* end.  The proofs about a model instantiate this module.                 *)
(***************************************************************************)
EXTENDS Integers, WellFoundedInduction, TLAPS

CONSTANTS Base(_), Step(_, _, _), Inv(_, _, _)

After(m, n) ==
    CHOOSE f : f = [i \in 0 .. n |-> IF i = 0 THEN Base(m) ELSE Step(m, i, f[i - 1])]

LEMMA LeastNat ==
    ASSUME NEW T \in SUBSET Nat, T # {}
    PROVE  \E x \in T : \A y \in T : ~(y < x)
<1> DEFINE R == OpToRel(<, Nat)
<1>1. IsWellFoundedOn(R, Nat)
  BY NatLessThanWellFounded, Zenon
<1>2. \A x, y \in Nat : y < x => <<y, x>> \in R
  BY DEF OpToRel
<1> HIDE DEF R
<1>3. PICK x \in T : \A y \in T : ~(<<y, x>> \in R)
  BY <1>1, WFMin
<1>4. QED
  BY <1>2, <1>3

\* A set that has 0, and the next of each of its numbers up to n, has all up
\* to n.
LEMMA LoopInduction ==
    ASSUME NEW n \in Nat, NEW T, 0 \in T, \A i \in 1 .. n : i - 1 \in T => i \in T
    PROVE  0 .. n \subseteq T
<1>1. SUFFICES ASSUME (0 .. n) \ T # {} PROVE FALSE
  OBVIOUS
<1>2. PICK x \in (0 .. n) \ T : \A y \in (0 .. n) \ T : ~(y < x)
  <2>1. (0 .. n) \ T \in SUBSET Nat
    OBVIOUS
  <2>2. QED
    BY <1>1, <2>1, LeastNat
<1>3. x \in 1 .. n /\ x - 1 \in 0 .. n /\ x - 1 < x
  BY <1>2
<1>4. x - 1 \in T
  BY <1>2, <1>3
<1>5. QED
  BY <1>2, <1>3, <1>4

\* f is what the first n turns of the loop of m make.
IsRun(f, m, n) ==
    f = [i \in 0 .. n |-> IF i = 0 THEN Base(m) ELSE Step(m, i, f[i - 1])]

\* One turn more.
LEMMA NextRun ==
    ASSUME NEW m, NEW n \in Nat \ {0}, NEW f, IsRun(f, m, n - 1)
    PROVE  \E g : IsRun(g, m, n)
<1> DEFINE g == [i \in 0 .. n |-> IF i = n THEN Step(m, n, f[n - 1]) ELSE f[i]]
<1>1. f[0] = Base(m) /\ \A i \in 1 .. n - 1 : f[i] = Step(m, i, f[i - 1])
  BY DEF IsRun
<1>2. /\ \A i \in 1 .. n : g[i - 1] = f[i - 1]
      /\ \A i \in 0 .. n : g[i] = IF i = n THEN Step(m, n, f[n - 1]) ELSE f[i]
  OBVIOUS
<1>3. g = [i \in 0 .. n |-> g[i]]
  OBVIOUS
<1> HIDE DEF g
<1>4. ASSUME NEW i \in 0 .. n PROVE g[i] = IF i = 0 THEN Base(m) ELSE Step(m, i, g[i - 1])
  <2>1. CASE i = 0
    BY <1>1, <1>2, <2>1
  <2>2. CASE i = n
    BY <1>2, <2>2
  <2>3. CASE i \in 1 .. n - 1
    BY <1>1, <1>2, <2>3
  <2>4. QED
    BY <2>1, <2>2, <2>3
<1>5. g = [i \in 0 .. n |-> IF i = 0 THEN Base(m) ELSE Step(m, i, g[i - 1])]
  BY <1>3, <1>4, Zenon
<1>6. QED
  BY <1>5 DEF IsRun

LEMMA RunExists ==
    ASSUME NEW m, NEW n \in Nat PROVE \E f : IsRun(f, m, n)
<1> DEFINE T == {k \in Nat : \E f : IsRun(f, m, k)}
<1>1. 0 \in T
  <2> DEFINE f == [i \in 0 .. 0 |-> Base(m)]
  <2>1. f = [i \in 0 .. 0 |-> IF i = 0 THEN Base(m) ELSE Step(m, i, f[i - 1])]
    OBVIOUS
  <2> HIDE DEF f
  <2>2. QED
    BY <2>1 DEF IsRun
<1>2. ASSUME NEW k \in 1 .. n, k - 1 \in T PROVE k \in T
  BY <1>2, NextRun
<1>3. n \in T
  <2> HIDE DEF T
  <2>1. QED
    BY <1>1, <1>2, LoopInduction
<1>4. QED
  BY <1>3

LEMMA LoopIs ==
    ASSUME NEW m, NEW n \in Nat
    PROVE  /\ After(m, n)[0] = Base(m)
           /\ \A i \in 1 .. n : After(m, n)[i] = Step(m, i, After(m, n)[i - 1])
<1>1. IsRun(After(m, n), m, n)
  BY RunExists, Zenon DEF After, IsRun
<1>2. QED
  BY <1>1 DEF IsRun

LEMMA LoopKeeps ==
    ASSUME NEW m, NEW n \in Nat, Inv(m, 0, Base(m)),
           \A i \in 1 .. n : \A e : Inv(m, i - 1, e) => Inv(m, i, Step(m, i, e))
    PROVE  \A i \in 0 .. n : Inv(m, i, After(m, n)[i])
<1> DEFINE T == {i \in 0 .. n : Inv(m, i, After(m, n)[i])}
<1>1. 0 \in T
  BY LoopIs
<1>2. ASSUME NEW i \in 1 .. n, i - 1 \in T PROVE i \in T
  <2>1. Inv(m, i - 1, After(m, n)[i - 1])
    BY <1>2
  <2>2. Inv(m, i, Step(m, i, After(m, n)[i - 1]))
    BY <2>1
  <2>3. QED
    BY <2>2, LoopIs
<1>3. 0 .. n \subseteq T
  <2> HIDE DEF T
  <2>1. QED
    BY <1>1, <1>2, LoopInduction
<1>4. QED
  BY <1>3
=============================================================================
