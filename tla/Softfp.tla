---------------------------------- MODULE Softfp ----------------------------------
(* Floating point in software: softfp_template.h, for a format of any size.
   The source is compiled for 32, 64 and 128 bits; here the sizes are constants,
   as they are macros there, so that a format of 8 bits can be checked whole.

   A float is its bit pattern, a number below 2^F_SIZE; a word of F_UINT is a number
   below 2^F_SIZE and a pair of words (high, low) one number below 2^(2*F_SIZE). An
   operation returns its value and the flags it raises. *)
EXTENDS Integers

CONSTANTS
    MANT_SIZE,      \* bits of the stored mantissa
    EXP_SIZE        \* bits of the exponent

F_SIZE == 1 + EXP_SIZE + MANT_SIZE
EXP_MASK == 2 ^ EXP_SIZE - 1
MANT_MASK == 2 ^ MANT_SIZE - 1
SIGN_MASK == 2 ^ (F_SIZE - 1)
IMANT_SIZE == F_SIZE - 2
RND_SIZE == IMANT_SIZE - MANT_SIZE
QNAN_MASK == 2 ^ (MANT_SIZE - 1)
F_QNAN == EXP_MASK * 2 ^ MANT_SIZE + QNAN_MASK

RoundingModes == {"RNE", "RTZ", "RDN", "RUP", "RMM"}

Result(v, flags) == [v |-> v, flags |-> flags]
Invalid == Result(F_QNAN, {"INVALID_OP"})

pack_sf(sign, exp, mant) == sign * SIGN_MASK + exp * 2 ^ MANT_SIZE + (mant % 2 ^ MANT_SIZE)

Sign(a) == a \div SIGN_MASK
Exp(a) == (a \div 2 ^ MANT_SIZE) % 2 ^ EXP_SIZE
Mant(a) == a % 2 ^ MANT_SIZE
Magnitude(a) == a % SIGN_MASK
Negated(a) == (a + SIGN_MASK) % 2 ^ F_SIZE

BitLength(a) == IF a = 0 THEN 0 ELSE CHOOSE k \in 1 .. 31 : 2 ^ (k - 1) <= a /\ a \div 2 < 2 ^ (k - 1)
clz(a) == F_SIZE - BitLength(a)

(* The lowest bit of what remains of a shift stands for all the bits lost. *)
Sticky(a, lost) == IF lost # 0 /\ a % 2 = 0 THEN a + 1 ELSE a
RshiftForgets(a, d) == IF d >= F_SIZE THEN 0 ELSE a \div 2 ^ d
rshift_rnd(a, d) ==
    IF d >= F_SIZE THEN (IF a # 0 THEN 1 ELSE 0) ELSE Sticky(a \div 2 ^ d, a % 2 ^ d)

-----------------------------------------------------------------------------------
(* Rounding. *)

Addend(sign, rm) ==
    CASE rm \in {"RNE", "RMM"} -> 2 ^ (RND_SIZE - 1)
      [] rm = "RTZ" -> 0
      [] rm = "RDN" -> IF sign = 1 THEN 2 ^ RND_SIZE - 1 ELSE 0
      [] rm = "RUP" -> IF sign = 0 THEN 2 ^ RND_SIZE - 1 ELSE 0

(* The mantissa without its RND_SIZE lower bits, half way to even. *)
Rounded(mant, sign, rm) ==
    LET r == (mant + Addend(sign, rm)) \div 2 ^ RND_SIZE
    IN  IF rm = "RNE" /\ mant % 2 ^ RND_SIZE = 2 ^ (RND_SIZE - 1) THEN r - (r % 2) ELSE r

(* mant has its most significant bit at F_SIZE - 2, or is 0. *)
round_pack_sf(sign, exp, mant, rm) ==
    LET addend == Addend(sign, rm)
        isSubnormal == exp < 0 \/ (exp = 0 /\ mant + addend < 2 ^ (F_SIZE - 1))
        shifted == IF exp <= 0 THEN rshift_rnd(mant, 1 - exp) ELSE mant
        inexact == shifted % 2 ^ RND_SIZE # 0
        r == Rounded(shifted, sign, rm)
        e == (IF exp <= 0 THEN 1 ELSE exp) + r \div 2 ^ (MANT_SIZE + 1)
        flags == (IF inexact THEN {"INEXACT"} ELSE {})
                     \cup (IF inexact /\ isSubnormal THEN {"UNDERFLOW"} ELSE {})
    IN  IF r <= MANT_MASK THEN Result(pack_sf(sign, 0, r), flags)
        ELSE IF e < EXP_MASK THEN Result(pack_sf(sign, e, r), flags)
        ELSE Result(IF addend = 0 THEN pack_sf(sign, EXP_MASK - 1, MANT_MASK)
                                  ELSE pack_sf(sign, EXP_MASK, 0),
                    flags \cup {"OVERFLOW", "INEXACT"})

normalize_sf(sign, exp, mant, rm) ==
    LET shift == clz(mant) - 1
    IN  round_pack_sf(sign, exp - shift, mant * 2 ^ shift, rm)

(* mant is a pair of words. *)
normalize2_sf(sign, exp, mant, rm) ==
    LET shift == 2 * F_SIZE - BitLength(mant) - 1
        m == mant * 2 ^ shift
    IN  round_pack_sf(sign, exp - shift, Sticky(m \div 2 ^ F_SIZE, m % 2 ^ F_SIZE), rm)

isnan_sf(a) == Exp(a) = EXP_MASK /\ Mant(a) # 0
issignan_sf(a) == isnan_sf(a) /\ Mant(a) < QNAN_MASK
IsInfinite(a) == Exp(a) = EXP_MASK /\ Mant(a) = 0
IsZero(a) == Magnitude(a) = 0

(* What an operation on NaNs returns. *)
NaNResult(operands) ==
    IF \E a \in operands : issignan_sf(a) THEN Invalid ELSE Result(F_QNAN, {})

(* The exponent and the mantissa with its first bit at MANT_SIZE. *)
normalize_subnormal_sf(mant) ==
    LET shift == MANT_SIZE + 1 - BitLength(mant)
    IN  [exp |-> 1 - shift, mant |-> mant * 2 ^ shift]
Unpacked(a) ==
    IF Exp(a) = 0 THEN normalize_subnormal_sf(Mant(a))
                  ELSE [exp |-> Exp(a), mant |-> Mant(a) + 2 ^ MANT_SIZE]

-----------------------------------------------------------------------------------
(* Arithmetic. *)

add_sf(x, y, rm) ==
    LET swap == Magnitude(x) < Magnitude(y)
        a == IF swap THEN y ELSE x
        b == IF swap THEN x ELSE y
        Extended(c) == (Mant(c) + (IF Exp(c) = 0 THEN 0 ELSE 2 ^ MANT_SIZE)) * 8
        aExp == IF Exp(a) = 0 THEN 1 ELSE Exp(a)
        bExp == IF Exp(b) = 0 THEN 1 ELSE Exp(b)
        bMant == rshift_rnd(Extended(b), aExp - bExp)
        mant == IF Sign(a) = Sign(b) THEN Extended(a) + bMant ELSE Extended(a) - bMant
        sign == IF Sign(a) = Sign(b) \/ mant # 0 THEN Sign(a)
                ELSE IF rm = "RDN" THEN 1 ELSE 0
    IN  CASE isnan_sf(a) -> NaNResult({a, b})
          [] IsInfinite(a) -> IF IsInfinite(b) /\ Sign(a) # Sign(b) THEN Invalid ELSE Result(a, {})
          [] OTHER -> normalize_sf(sign, aExp + RND_SIZE - 3, mant, rm)

sub_sf(a, b, rm) == add_sf(a, Negated(b), rm)

(* The product of two words, as a pair of words: from the products of their halves
   where the compiler has no type of two words. *)
mul_u(a, b) ==
    LET h == 2 ^ (F_SIZE \div 2)
        r00 == (a % h) * (b % h)
        r01 == (a % h) * (b \div h)
        r10 == (a \div h) * (b % h)
        r11 == (a \div h) * (b \div h)
        c1 == r00 \div h + (r01 % h) + (r10 % h)
        c2 == c1 \div h + r01 \div h + r10 \div h + (r11 % h)
        r3 == (c2 \div h + r11 \div h) % h
    IN  ((r3 * h + (c2 % h)) * h + (c1 % h)) * h + (r00 % h)

mul_sf(a, b, rm) ==
    LET sign == (Sign(a) + Sign(b)) % 2
        ua == Unpacked(a)
        ub == Unpacked(b)
        r == mul_u(ua.mant * 2 ^ RND_SIZE, ub.mant * 2 ^ (RND_SIZE + 1))
    IN  CASE isnan_sf(a) \/ isnan_sf(b) -> NaNResult({a, b})
          [] IsInfinite(a) \/ IsInfinite(b) ->
                IF IsZero(a) \/ IsZero(b) THEN Invalid ELSE Result(pack_sf(sign, EXP_MASK, 0), {})
          [] ~IsInfinite(a) /\ ~IsInfinite(b) /\ (IsZero(a) \/ IsZero(b)) ->
                Result(pack_sf(sign, 0, 0), {})
          [] OTHER -> normalize_sf(sign, ua.exp + ub.exp - 2 ^ (EXP_SIZE - 1) + 2,
                                   Sticky(r \div 2 ^ F_SIZE, r % 2 ^ F_SIZE), rm)

(* The addition of fma_sf: the product r and the addend c, each with a sign, an
   exponent and a pair of words. *)
AddPairs(r, c, rm) ==
    LET swap == ~(r.exp > c.exp
                  \/ (r.exp = c.exp /\ r.mant \div 2 ^ F_SIZE >= c.mant \div 2 ^ F_SIZE))
        big == IF swap THEN c ELSE r
        small == IF swap THEN r ELSE c
        shift == big.exp - small.exp
        low == CASE shift >= 2 * F_SIZE -> (IF small.mant # 0 THEN 1 ELSE 0)
                 [] shift >= F_SIZE + 1 /\ shift < 2 * F_SIZE ->
                        rshift_rnd(small.mant \div 2 ^ F_SIZE, shift - F_SIZE)
                 [] shift = F_SIZE -> Sticky(small.mant \div 2 ^ F_SIZE, small.mant % 2 ^ F_SIZE)
                 [] OTHER -> Sticky(small.mant \div 2 ^ shift, small.mant % 2 ^ shift)
        mant == (IF big.sign = small.sign THEN big.mant + low ELSE big.mant - low) % 2 ^ (2 * F_SIZE)
        sign == IF big.sign = small.sign \/ mant # 0 THEN big.sign
                ELSE IF rm = "RDN" THEN 1 ELSE 0
    IN  normalize2_sf(sign, big.exp, mant, rm)

fma_sf(a, b, c, rm) ==
    LET sign == (Sign(a) + Sign(b)) % 2
        ua == Unpacked(a)
        ub == Unpacked(b)
        uc == Unpacked(c)
        exp == ua.exp + ub.exp - 2 ^ (EXP_SIZE - 1) + 3
        product == mul_u(ua.mant * 2 ^ RND_SIZE, ub.mant * 2 ^ RND_SIZE)
        r == IF product \div 2 ^ F_SIZE < 2 ^ (F_SIZE - 3)
             THEN [sign |-> sign, exp |-> exp - 1, mant |-> product * 2]
             ELSE [sign |-> sign, exp |-> exp, mant |-> product]
        addend == [sign |-> Sign(c), exp |-> uc.exp + 1,
                   mant |-> uc.mant * 2 ^ (RND_SIZE - 1) * 2 ^ F_SIZE]
    IN  CASE \E d \in {a, b, c} : isnan_sf(d) -> NaNResult({a, b, c})
          [] \E d \in {a, b, c} : Exp(d) = EXP_MASK ->
                IF \/ IsInfinite(a) /\ IsZero(b)
                   \/ IsInfinite(b) /\ IsZero(a)
                   \/ (IsInfinite(a) \/ IsInfinite(b)) /\ IsInfinite(c) /\ Sign(c) # sign
                THEN Invalid
                ELSE Result(pack_sf(IF IsInfinite(c) THEN Sign(c) ELSE sign, EXP_MASK, 0), {})
          [] IsZero(a) \/ IsZero(b) ->
                IF ~IsZero(c) THEN Result(c, {})
                ELSE Result(pack_sf(IF Sign(c) = sign THEN sign ELSE IF rm = "RDN" THEN 1 ELSE 0, 0, 0), {})
          [] IsZero(c) ->
                normalize_sf(sign, r.exp, Sticky(r.mant \div 2 ^ F_SIZE, r.mant % 2 ^ F_SIZE), rm)
          [] OTHER -> AddPairs(r, addend, rm)

(* Quotient and remainder of a pair of words by a word: shifts and subtractions
   where the compiler has no type of two words. *)
divrem_u(high, low, b) ==
    LET step[i \in 0 .. F_SIZE] ==
            IF i = 0 THEN [r |-> high, q |-> low]
            ELSE LET p == step[i - 1]
                     r == 2 * p.r + p.q \div 2 ^ (F_SIZE - 1)
                     q == (2 * p.q) % 2 ^ F_SIZE
                 IN  IF r >= b THEN [r |-> r - b, q |-> q + 1] ELSE [r |-> r, q |-> q]
    IN  step[F_SIZE]

div_sf(a, b, rm) ==
    LET sign == (Sign(a) + Sign(b)) % 2
        ua == Unpacked(a)
        ub == Unpacked(b)
        d == divrem_u(ua.mant, 0, ub.mant * 4)
    IN  CASE isnan_sf(a) \/ isnan_sf(b) -> NaNResult({a, b})
          [] IsInfinite(a) -> IF IsInfinite(b) THEN Invalid ELSE Result(pack_sf(sign, EXP_MASK, 0), {})
          [] IsInfinite(b) -> Result(pack_sf(sign, 0, 0), {})
          [] IsZero(b) -> IF IsZero(a) THEN Invalid
                          ELSE Result(pack_sf(sign, EXP_MASK, 0), {"DIVIDE_ZERO"})
          [] IsZero(a) -> Result(pack_sf(sign, 0, 0), {})
          [] OTHER -> normalize_sf(sign, ua.exp - ub.exp + 2 ^ (EXP_SIZE - 1) - 1,
                                   Sticky(d.q, d.r), rm)

(* The square root of a pair of words whose low word is 0, by Newton's iteration, and
   whether it is inexact. *)
sqrtrem_u(high) ==
    LET a == high * 2 ^ F_SIZE
        l == F_SIZE + BitLength(high - 1)
        root[s \in Nat] == LET u == (a \div s + s) \div 2 IN IF u >= s THEN s ELSE root[u]
        s == root[2 ^ ((l + 1) \div 2)]
    IN  [root |-> s, inexact |-> IF a # s * s THEN 1 ELSE 0]

sqrt_sf(a, rm) ==
    LET u == Unpacked(a)
        e == u.exp - EXP_MASK \div 2
        odd == e % 2
        d == sqrtrem_u(u.mant * 2 ^ odd * 2 ^ (F_SIZE - 4 - MANT_SIZE))
    IN  CASE isnan_sf(a) -> NaNResult({a})
          [] ~isnan_sf(a) /\ IsZero(a) -> Result(a, {})
          [] ~isnan_sf(a) /\ ~IsZero(a) /\ Sign(a) = 1 -> Invalid
          [] IsInfinite(a) /\ Sign(a) = 0 -> Result(a, {})
          [] OTHER -> normalize_sf(0, (e - odd) \div 2 + EXP_MASK \div 2, Sticky(d.root, d.inexact), rm)

-----------------------------------------------------------------------------------
(* Comparisons: the value is a float or 0 or 1. *)

NaNOfMinMax(a, b) ==
    IF issignan_sf(a) \/ issignan_sf(b) THEN Invalid
    ELSE Result(IF ~isnan_sf(a) THEN a ELSE IF isnan_sf(b) THEN F_QNAN ELSE b, {})

min_sf(a, b) ==
    IF isnan_sf(a) \/ isnan_sf(b) THEN NaNOfMinMax(a, b)
    ELSE Result(IF Sign(a) # Sign(b) THEN (IF Sign(a) = 1 THEN a ELSE b)
                ELSE IF (a < b) # (Sign(a) = 1) THEN a ELSE b, {})

max_sf(a, b) ==
    IF isnan_sf(a) \/ isnan_sf(b) THEN NaNOfMinMax(a, b)
    ELSE Result(IF Sign(a) # Sign(b) THEN (IF Sign(a) = 1 THEN b ELSE a)
                ELSE IF (a < b) # (Sign(a) = 1) THEN b ELSE a, {})

Truth(p) == IF p THEN 1 ELSE 0
BothZero(a, b) == IsZero(a) /\ IsZero(b)

eq_quiet_sf(a, b) ==
    IF isnan_sf(a) \/ isnan_sf(b)
    THEN Result(0, IF issignan_sf(a) \/ issignan_sf(b) THEN {"INVALID_OP"} ELSE {})
    ELSE Result(Truth(BothZero(a, b) \/ a = b), {})

LeBySign(a, b) ==
    IF isnan_sf(a) \/ isnan_sf(b) THEN Result(0, {"INVALID_OP"})
    ELSE Result(Truth(IF Sign(a) # Sign(b) THEN Sign(a) = 1
                      ELSE IF Sign(a) = 1 THEN a >= b ELSE a <= b), {})
le_sf(a, b) ==
    IF isnan_sf(a) \/ isnan_sf(b) THEN Result(0, {"INVALID_OP"})
    ELSE Result(Truth(IF Sign(a) # Sign(b) THEN Sign(a) = 1 \/ BothZero(a, b)
                      ELSE IF Sign(a) = 1 THEN a >= b ELSE a <= b), {})

lt_sf(a, b) ==
    IF isnan_sf(a) \/ isnan_sf(b) THEN Result(0, {"INVALID_OP"})
    ELSE Result(Truth(IF Sign(a) # Sign(b) THEN Sign(a) = 1 /\ ~BothZero(a, b)
                      ELSE IF Sign(a) = 1 THEN a > b ELSE a < b), {})

(* The class, as the number of the bit that fclass sets. *)
fclass_sf(a) ==
    LET negative == Sign(a) = 1
    IN  CASE isnan_sf(a) -> IF Mant(a) >= QNAN_MASK THEN 9 ELSE 8
          [] IsInfinite(a) -> IF negative THEN 0 ELSE 7
          [] IsZero(a) -> IF negative THEN 3 ELSE 4
          [] Exp(a) = 0 /\ Mant(a) # 0 -> IF negative THEN 2 ELSE 5
          [] OTHER -> IF negative THEN 1 ELSE 6

-----------------------------------------------------------------------------------
(* Conversions from and to integers of size bits, as bit patterns
   (softfp_template_icvt.h). *)

internal_cvt_sf_i(a, rm, isUnsigned, size) ==
    LET sign == IF isnan_sf(a) THEN 0 ELSE Sign(a)
        mant == (Mant(a) + (IF Exp(a) = 0 THEN 0 ELSE 2 ^ MANT_SIZE)) * 2 ^ RND_SIZE
        exp == (IF Exp(a) = 0 THEN 1 ELSE Exp(a)) - EXP_MASK \div 2 - MANT_SIZE
        rMax == IF isUnsigned THEN (IF sign = 1 THEN 0 ELSE 2 ^ size - 1)
                              ELSE 2 ^ (size - 1) - (1 - sign)
        shifted == rshift_rnd(mant, -exp)
        r == IF exp >= 0 THEN (mant \div 2 ^ RND_SIZE) * 2 ^ exp ELSE Rounded(shifted, sign, rm)
        fits == (exp >= 0 => exp <= size - 1 - MANT_SIZE) /\ r <= rMax
    IN  IF fits THEN Result((IF sign = 1 THEN -r ELSE r) % 2 ^ size,
                            IF exp < 0 /\ shifted % 2 ^ RND_SIZE # 0 THEN {"INEXACT"} ELSE {})
                ELSE Result(rMax, {"INVALID_OP"})

internal_cvt_i_sf(a, rm, isUnsigned, size) ==
    LET negative == ~isUnsigned /\ a >= 2 ^ (size - 1)
        r == IF negative THEN 2 ^ size - a ELSE a
        l == BitLength(r) - (F_SIZE - 1)
        exp == EXP_MASK \div 2 + F_SIZE - 2
    IN  IF l > 0
        THEN normalize_sf(Truth(negative), exp + l, Sticky(r \div 2 ^ l, r % 2 ^ l), rm)
        ELSE normalize_sf(Truth(negative), exp, r, rm)
===================================================================================
