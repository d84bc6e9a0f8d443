------------------------------ MODULE FloatReference ------------------------------
(* What floating point operations should return: the exact result, rounded once.
   It is written with fractions and shares nothing with Softfp.

   A finite magnitude is a number of units, the smallest positive float. An exact
   one is n / d * 2^k units, n and d natural numbers and k an integer. *)
EXTENDS Integers

CONSTANTS MANT_SIZE, EXP_SIZE

MaxExp == 2 ^ EXP_SIZE - 1
LogOne == MaxExp \div 2 - 1 + MANT_SIZE      \* 1 is 2^LogOne units
FirstNormal == 2 ^ MANT_SIZE
SignBit == 2 ^ (MANT_SIZE + EXP_SIZE)
Infinity == MaxExp * FirstNormal
CanonicalNaN == Infinity + FirstNormal \div 2

Negative(a) == a >= SignBit
Abs(a) == a % SignBit
IsNaN(a) == Abs(a) > Infinity
IsSignaling(a) == IsNaN(a) /\ Abs(a) < CanonicalNaN
IsInf(a) == Abs(a) = Infinity
IsFinite(a) == Abs(a) < Infinity
Signed(negative, pattern) == IF negative THEN pattern + SignBit ELSE pattern

(* A finite float is M * 2^E units. *)
E(a) == LET e == Abs(a) \div FirstNormal IN IF e = 0 THEN 0 ELSE e - 1
M(a) == (Abs(a) % FirstNormal) + (IF Abs(a) < FirstNormal THEN 0 ELSE FirstNormal)

(* n * 2^k, k of any sign, as a fraction. *)
Num(n, k) == IF k > 0 THEN n * 2 ^ k ELSE n
Den(d, k) == IF k < 0 THEN d * 2 ^ (-k) ELSE d

(* The integer part of the logarithm of n / d. *)
Bits(n) == CHOOSE b \in 1 .. 31 : 2 ^ (b - 1) <= n /\ n \div 2 < 2 ^ (b - 1)
Log(n, d) == LET l == Bits(n) - Bits(d) IN IF Num(n, -l) >= Num(d, l) THEN l ELSE l - 1

(* n / d to an integer, of the given sign. *)
RoundToInteger(negative, n, d, rm) ==
    LET q == n \div d
        rest == n % d
        up == CASE rm = "RTZ" -> FALSE
                [] rm = "RDN" -> negative /\ rest # 0
                [] rm = "RUP" -> ~negative /\ rest # 0
                [] rm = "RNE" -> rest > d - rest \/ (rest = d - rest /\ q % 2 = 1)
                [] rm = "RMM" -> rest >= d - rest
    IN  IF up THEN q + 1 ELSE q

Overflow(negative, rm) ==
    LET toInfinity == rm \in {"RNE", "RMM"} \/ rm = (IF negative THEN "RDN" ELSE "RUP")
    IN  [v |-> Signed(negative, IF toInfinity THEN Infinity ELSE Infinity - 1),
         flags |-> {"OVERFLOW", "INEXACT"}]

(* n / d * 2^k units rounded, n # 0. Floats around it are 2^ulp units apart, so that
   the r-th of them has the pattern r + ulp * FirstNormal. It underflows if it is
   inexact and below the first normal float, even rounded with more exponents. What
   lies far below a unit rounds as an eighth of it. *)
Rounded(negative, n, d, k, rm) ==
    LET log == Log(n, d) + k
        ulp == IF log > MANT_SIZE THEN log - MANT_SIZE ELSE 0
        num == IF log < -3 THEN 1 ELSE Num(n, k - ulp)
        den == IF log < -3 THEN 8 ELSE Den(d, k - ulp)
        pattern == RoundToInteger(negative, num, den, rm) + ulp * FirstNormal
        tiny == \/ log < MANT_SIZE - 1
                \/ log = MANT_SIZE - 1 /\ RoundToInteger(negative, 2 * num, den, rm) < 2 * FirstNormal
    IN  IF pattern >= Infinity THEN Overflow(negative, rm)
        ELSE [v |-> Signed(negative, pattern),
              flags |-> IF num % den = 0 THEN {}
                        ELSE IF tiny THEN {"INEXACT", "UNDERFLOW"} ELSE {"INEXACT"}]

Exact(v) == [v |-> v, flags |-> {}]
NotANumber(invalid) == [v |-> CanonicalNaN, flags |-> IF invalid THEN {"INVALID_OP"} ELSE {}]
AnyNaN(as) == \E a \in as : IsNaN(a)
OfNaNs(as) == NotANumber(\E a \in as : IsSignaling(a))

-----------------------------------------------------------------------------------
(* A term is m * 2^e units with a sign. What lies Far below another term changes its
   rounding as any smaller number does. *)
Term(negative, m, e) == [negative |-> negative, m |-> m, e |-> e]
TermOf(a) == Term(Negative(a), M(a), E(a))
Far == 4 * (MANT_SIZE + 2)

SumOfTerms(s, t, rm) ==
    LET top == IF s.e > t.e THEN s.e ELSE t.e
        Raised(u) == IF u.e < top - Far THEN Term(u.negative, 1, top - Far) ELSE u
        bottom == IF Raised(s).e < Raised(t).e THEN Raised(s).e ELSE Raised(t).e
        Value(u) == (IF u.negative THEN -1 ELSE 1) * u.m * 2 ^ (u.e - bottom)
        sum == Value(Raised(s)) + Value(Raised(t))
        (* A sum that is exactly zero is positive, except when rounding down. *)
        negativeZero == (s.negative /\ t.negative) \/ (s.negative # t.negative /\ rm = "RDN")
    IN  CASE s.m = 0 /\ t.m = 0 -> Exact(Signed(negativeZero, 0))
          [] s.m = 0 /\ t.m # 0 -> Rounded(t.negative, t.m, 1, t.e, rm)
          [] s.m # 0 /\ t.m = 0 -> Rounded(s.negative, s.m, 1, s.e, rm)
          [] s.m # 0 /\ t.m # 0 ->
                IF sum = 0 THEN Exact(Signed(negativeZero, 0))
                ELSE Rounded(sum < 0, IF sum < 0 THEN -sum ELSE sum, 1, bottom, rm)

Sum(a, b, rm) ==
    CASE AnyNaN({a, b}) -> OfNaNs({a, b})
      [] IsInf(a) -> IF IsInf(b) /\ a # b THEN NotANumber(TRUE) ELSE Exact(a)
      [] IsInf(b) /\ IsFinite(a) -> Exact(b)
      [] IsFinite(a) /\ IsFinite(b) -> SumOfTerms(TermOf(a), TermOf(b), rm)

FusedSum(a, b, c, rm) ==
    LET negative == Negative(a) # Negative(b)
    IN  CASE AnyNaN({a, b, c}) -> OfNaNs({a, b, c})
          [] ~AnyNaN({a, b, c}) /\ (IsInf(a) \/ IsInf(b)) ->
                IF Abs(a) = 0 \/ Abs(b) = 0 \/ (IsInf(c) /\ Negative(c) # negative)
                THEN NotANumber(TRUE) ELSE Exact(Signed(negative, Infinity))
          [] IsFinite(a) /\ IsFinite(b) /\ IsInf(c) -> Exact(c)
          [] IsFinite(a) /\ IsFinite(b) /\ IsFinite(c) ->
                SumOfTerms(Term(negative, M(a) * M(b), E(a) + E(b) - LogOne), TermOf(c), rm)

Product(a, b, rm) ==
    LET negative == Negative(a) # Negative(b)
        zero == Abs(a) = 0 \/ Abs(b) = 0
    IN  CASE AnyNaN({a, b}) -> OfNaNs({a, b})
          [] ~AnyNaN({a, b}) /\ (IsInf(a) \/ IsInf(b)) ->
                IF zero THEN NotANumber(TRUE) ELSE Exact(Signed(negative, Infinity))
          [] IsFinite(a) /\ IsFinite(b) ->
                IF zero THEN Exact(Signed(negative, 0))
                ELSE Rounded(negative, M(a) * M(b), 1, E(a) + E(b) - LogOne, rm)

Quotient(a, b, rm) ==
    LET negative == Negative(a) # Negative(b)
    IN  CASE AnyNaN({a, b}) -> OfNaNs({a, b})
          [] IsInf(a) /\ ~IsNaN(b) ->
                IF IsInf(b) THEN NotANumber(TRUE) ELSE Exact(Signed(negative, Infinity))
          [] IsFinite(a) /\ IsInf(b) -> Exact(Signed(negative, 0))
          [] IsFinite(a) /\ Abs(b) = 0 ->
                IF Abs(a) = 0 THEN NotANumber(TRUE)
                ELSE [v |-> Signed(negative, Infinity), flags |-> {"DIVIDE_ZERO"}]
          [] IsFinite(a) /\ IsFinite(b) /\ Abs(b) # 0 ->
                IF Abs(a) = 0 THEN Exact(Signed(negative, 0))
                ELSE Rounded(negative, M(a), M(b), E(a) - E(b) + LogOne, rm)

(* An even number of bits is added to the square; a root is never a tie, so that half
   a unit more than its integer part tells how it rounds. *)
Root(a, rm) ==
    LET p == E(a) + LogOne
        j == 2 * MANT_SIZE + 6 + (p % 2)
        square == M(a) * 2 ^ j
        s == CHOOSE s \in 0 .. 2 ^ (2 * MANT_SIZE + 4) : s * s <= square /\ square < (s + 1) * (s + 1)
    IN  CASE IsNaN(a) -> OfNaNs({a})
          [] Abs(a) = 0 -> Exact(a)
          [] ~IsNaN(a) /\ Abs(a) # 0 /\ Negative(a) -> NotANumber(TRUE)
          [] IsInf(a) /\ ~Negative(a) -> Exact(a)
          [] IsFinite(a) /\ Abs(a) # 0 /\ ~Negative(a) ->
                Rounded(FALSE, IF s * s = square THEN 2 * s ELSE 2 * s + 1, 2, (p - j) \div 2, rm)

(* To an integer between lowest and highest; a number out of them, after rounding,
   is invalid and becomes the nearest of them, a NaN the highest. *)
ToInteger(a, lowest, highest, rm) ==
    LET k == E(a) - LogOne
        small == k < -20
        num == IF small THEN (IF M(a) = 0 THEN 0 ELSE 1) ELSE Num(M(a), k)
        den == IF small THEN 8 ELSE Den(1, k)
        r == RoundToInteger(Negative(a), num, den, rm)
        i == IF Negative(a) THEN -r ELSE r
        Invalid(v) == [v |-> v, flags |-> {"INVALID_OP"}]
    IN  CASE IsNaN(a) -> Invalid(highest)
          [] IsInf(a) \/ (IsFinite(a) /\ k > 20) -> Invalid(IF Negative(a) THEN lowest ELSE highest)
          [] IsFinite(a) /\ k <= 20 ->
                IF i > highest THEN Invalid(highest)
                ELSE IF i < lowest THEN Invalid(lowest)
                ELSE [v |-> i, flags |-> IF num % den # 0 THEN {"INEXACT"} ELSE {}]

FromInteger(i, rm) ==
    IF i = 0 THEN Exact(0) ELSE Rounded(i < 0, IF i < 0 THEN -i ELSE i, 1, LogOne, rm)

(* The order of numbers, zeros being equal. *)
LessAbs(a, b) == IF E(a) = E(b) THEN M(a) < M(b) ELSE E(a) < E(b)
Less(a, b) ==
    IF Abs(a) = 0 /\ Abs(b) = 0 THEN FALSE
    ELSE IF Negative(a) # Negative(b) THEN Negative(a)
    ELSE IF Negative(a) THEN LessAbs(b, a) ELSE LessAbs(a, b)
===================================================================================
