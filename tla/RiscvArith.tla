-------------------------------- MODULE RiscvArith --------------------------------
(* The instructions that compute: OP, OP-IMM, their W forms, the atomic operations
   on a word, and floating point (riscv_cpu_template.h, riscv_cpu_fp_template.h), for
   a hart of XLEN bits with two formats of floats, "s" for 32 bits and "d" for 64.

   The sizes are constants: a word of 32 bits is here one of WLEN bits, and the float
   formats are given by their mantissas and exponents. Registers 1 to 3 are sources
   and register 4 is the destination. *)
EXTENDS Integers, Bitwise

CONSTANTS
    XLEN, WLEN,                     \* bits of a register and of a "32 bit" word
    MANT_S, EXP_S, MANT_D, EXP_D,   \* the formats
    Instructions,                   \* the instructions to execute, see Insn
    Operands                        \* for each of them, the sources to execute it on

(* add_sf keeps three bits below the mantissa and one above it, RND_SIZE being
   EXP_SIZE - 1; "s" is a word and "d" fits a register; converting "s" to "d" loses
   nothing and from "d" to "s" it does not shift left (cvt_sf32_sf, cvt_sf64_sf32). *)
ASSUME ArithAssumption ==
    /\ {XLEN, WLEN, MANT_S, EXP_S, MANT_D, EXP_D} \subseteq Nat \ {0}
    /\ EXP_S >= 5 /\ EXP_D > EXP_S /\ MANT_D >= WLEN - 2
    /\ WLEN = 1 + EXP_S + MANT_S /\ XLEN >= 1 + EXP_D + MANT_D /\ XLEN % 2 = 0

VARIABLES
    reg,        \* integer registers
    fp_reg,     \* floating point registers
    mem,        \* the word the atomic instructions access
    fflags,     \* sticky flags
    frm,        \* rounding mode of the instructions that have none
    fs,         \* state of the floating point unit, 0 is off
    insn,       \* the instruction to execute
    outcome     \* "none" before it is, then "done" or "illegal"

vars == <<reg, fp_reg, mem, fflags, frm, fs, insn, outcome>>

S == INSTANCE RiscvFpOps WITH MANT_SIZE <- MANT_S, EXP_SIZE <- EXP_S
D == INSTANCE RiscvFpOps WITH MANT_SIZE <- MANT_D, EXP_SIZE <- EXP_D

FLEN == D!F_SIZE
F32_HIGH == 2 ^ FLEN - 2 ^ S!F_SIZE
RmNames == <<"RNE", "RTZ", "RDN", "RUP", "RMM">>

(* fmt is the format of the floats, "s" or "d", size that of an integer operand, "w",
   "wu", "l" or "lu"; rm is the field of the instruction; rd is 4, or 0 for the
   integer register that takes nothing. *)
Insn(op, fmt, size, rm, rd) == [op |-> op, fmt |-> fmt, size |-> size, rm |-> rm, rd |-> rd]

SignedOf(a, n) == IF a % 2 ^ n >= 2 ^ (n - 1) THEN (a % 2 ^ n) - 2 ^ n ELSE a % 2 ^ n
Extend(a, n) == SignedOf(a, n) % 2 ^ XLEN

SetReg(i, val) == reg' = IF i.rd = 0 THEN reg ELSE [reg EXCEPT ![i.rd] = val]

(* 0 to 4, 5 when there is none. *)
get_insn_rm(rm) == IF rm = 7 THEN frm ELSE IF rm >= 5 THEN 5 ELSE rm
set_frm(val) == IF val >= 5 THEN 0 ELSE val

Init ==
    \E i \in Instructions : \E o \in Operands[i] :
        /\ reg = [r \in 0 .. 4 |-> IF r \in 1 .. 3 THEN o.x[r] ELSE 0]
        /\ fp_reg = [r \in 1 .. 4 |-> IF r \in 1 .. 3 THEN o.f[r] ELSE 0]
        /\ mem = o.x[3] % 2 ^ WLEN
        /\ fflags = o.fflags
        /\ frm = set_frm(o.frm)
        /\ fs = o.fs
        /\ insn = i
        /\ outcome = "none"

-----------------------------------------------------------------------------------
(* Integer instructions on n bits. *)

TruncatedQuotient(a, b) ==
    LET Abs(c) == IF c < 0 THEN -c ELSE c
        q == Abs(a) \div Abs(b)
    IN  IF (a < 0) = (b < 0) THEN q ELSE -q

div(a, b, n) ==
    LET x == SignedOf(a, n)
        y == SignedOf(b, n)
    IN  IF y = 0 THEN -1
        ELSE IF x = -(2 ^ (n - 1)) /\ y = -1 THEN x ELSE TruncatedQuotient(x, y)
divu(a, b, n) == IF b % 2 ^ n = 0 THEN -1 ELSE (a % 2 ^ n) \div (b % 2 ^ n)
rem(a, b, n) ==
    LET x == SignedOf(a, n)
        y == SignedOf(b, n)
    IN  IF y = 0 THEN x
        ELSE IF x = -(2 ^ (n - 1)) /\ y = -1 THEN 0 ELSE x - y * TruncatedQuotient(x, y)
remu(a, b, n) == IF b % 2 ^ n = 0 THEN a ELSE (a % 2 ^ n) % (b % 2 ^ n)

(* The high half of a product, from the products of half words. *)
mulhu(a, b) ==
    LET h == 2 ^ (XLEN \div 2)
        r00 == (a % h) * (b % h)
        r01 == (a % h) * (b \div h)
        r10 == (a \div h) * (b % h)
        r11 == (a \div h) * (b \div h)
        c1 == r00 \div h + (r01 % h) + (r10 % h)
        c2 == c1 \div h + r01 \div h + r10 \div h + (r11 % h)
        r3 == (c2 \div h + r11 \div h) % h
    IN  r3 * h + (c2 % h)
IsNegative(a) == a >= 2 ^ (XLEN - 1)
mulhsu(a, b) == (mulhu(a, b) - (IF IsNegative(a) THEN b ELSE 0)) % 2 ^ XLEN
MulhOfTheFirstSign(a, b) == mulhsu(a, b)
mulh(a, b) ==
    (mulhu(a, b) - (IF IsNegative(a) THEN b ELSE 0) - (IF IsNegative(b) THEN a ELSE 0)) % 2 ^ XLEN

(* Shifts take the low bits of their count: n is a power of 2. *)
ShiftLeft(a, count, n) == a * 2 ^ (count % n)
ShiftRight(a, count, n) == (a % 2 ^ n) \div 2 ^ (count % n)
ShiftArithmetic(a, count, n) == SignedOf(a, n) \div 2 ^ (count % n)

Boolean(p) == IF p THEN 1 ELSE 0

OpNames == {"add", "sub", "sll", "slt", "sltu", "xor", "srl", "sra", "or", "and", "mul",
            "mulh", "mulhsu", "mulhu", "div", "divu", "rem", "remu"}
OpValue(op, a, b) ==
    CASE op = "add" -> a + b
      [] op = "sub" -> a - b
      [] op = "sll" -> ShiftLeft(a, b, XLEN)
      [] op = "slt" -> Boolean(SignedOf(a, XLEN) < SignedOf(b, XLEN))
      [] op = "sltu" -> Boolean(a < b)
      [] op = "xor" -> a ^^ b
      [] op = "srl" -> ShiftRight(a, b, XLEN)
      [] op = "sra" -> ShiftArithmetic(a, b, XLEN)
      [] op = "or" -> a | b
      [] op = "and" -> a & b
      [] op = "mul" -> SignedOf(a, XLEN) * SignedOf(b, XLEN)
      [] op = "mulh" -> mulh(a, b)
      [] op = "mulhsu" -> mulhsu(a, b)
      [] op = "mulhu" -> mulhu(a, b)
      [] op = "div" -> div(a, b, XLEN)
      [] op = "divu" -> divu(a, b, XLEN)
      [] op = "rem" -> rem(a, b, XLEN)
      [] op = "remu" -> remu(a, b, XLEN)

WNames == {"addw", "subw", "sllw", "srlw", "sraw", "mulw", "divw", "divuw", "remw", "remuw"}
WValue(op, a, b) ==
    CASE op = "addw" -> a + b
      [] op = "subw" -> a - b
      [] op = "sllw" -> ShiftLeft(a % 2 ^ WLEN, b, WLEN)
      [] op = "srlw" -> ShiftRight(a, b, WLEN)
      [] op = "sraw" -> ShiftArithmetic(a, b, WLEN)
      [] op = "mulw" -> SignedOf(a, WLEN) * SignedOf(b, WLEN)
      [] op = "divw" -> div(a, b, WLEN)
      [] op = "divuw" -> divu(a, b, WLEN)
      [] op = "remw" -> rem(a, b, WLEN)
      [] op = "remuw" -> remu(a, b, WLEN)

(* An immediate is a second operand here: of OP-IMM and OP-IMM-32 only those that
   have no immediate form differ. *)
ExecuteOp(i) ==
    /\ i.op \in OpNames
    /\ SetReg(i, OpValue(i.op, reg[1], reg[2]) % 2 ^ XLEN)
    /\ outcome' = "done"
    /\ UNCHANGED <<fp_reg, mem, fflags, frm, fs>>

ExecuteOp32(i) ==
    /\ i.op \in WNames
    /\ SetReg(i, Extend(WValue(i.op, reg[1], reg[2]), WLEN))
    /\ outcome' = "done"
    /\ UNCHANGED <<fp_reg, mem, fflags, frm, fs>>

AmoNames == {"amoswap", "amoadd", "amoxor", "amoand", "amoor", "amomin", "amomax", "amominu", "amomaxu"}
AmoValue(op, val, val2) ==
    LET old == SignedOf(val, WLEN)
        new == SignedOf(val2, WLEN)
        v == val2 % 2 ^ WLEN
    IN  CASE op = "amoswap" -> v
          [] op = "amoadd" -> (val + v) % 2 ^ WLEN
          [] op = "amoxor" -> val ^^ v
          [] op = "amoand" -> val & v
          [] op = "amoor" -> val | v
          [] op = "amomin" -> IF old < new THEN val ELSE v
          [] op = "amomax" -> IF old > new THEN val ELSE v
          [] op = "amominu" -> IF val < v THEN val ELSE v
          [] op = "amomaxu" -> IF val > v THEN val ELSE v

ExecuteAmo(i) ==
    /\ i.op \in AmoNames
    /\ mem' = AmoValue(i.op, mem, reg[2])
    /\ SetReg(i, Extend(mem, WLEN))
    /\ outcome' = "done"
    /\ UNCHANGED <<fp_reg, fflags, frm, fs>>

-----------------------------------------------------------------------------------
(* Floating point instructions. *)

WriteInt(i, val, flags) ==
    /\ SetReg(i, val)
    /\ fflags' = fflags \cup flags
    /\ outcome' = "done"
    /\ UNCHANGED <<fp_reg, mem, frm, fs>>

(* Every write of a floating point register makes the unit dirty. *)
WriteFloat(val, flags, i) ==
    /\ fp_reg' = [fp_reg EXCEPT ![4] = val]
    /\ fflags' = fflags \cup flags
    /\ fs' = 3
    /\ outcome' = "done"
    /\ UNCHANGED <<reg, mem, frm>>

(* A float of the small format fills the register with ones above it. *)
Boxed(fmt, val) == IF fmt = "s" THEN val + F32_HIGH ELSE val
Source(fmt, r) == IF fmt = "s" THEN fp_reg[r] % 2 ^ WLEN ELSE fp_reg[r]
FormatSize(fmt) == IF fmt = "s" THEN WLEN ELSE FLEN

Rm(i) == RmNames[get_insn_rm(i.rm) + 1]
FpLegal == fs # 0
RmLegal(i) == fs # 0 /\ get_insn_rm(i.rm) < 5

SignOps == {"fsgnj", "fsgnjn", "fsgnjx"}
Conversions == {"fcvt.int", "fcvt.float", "fcvt.d.s", "fcvt.s.d"}
RoundingOps == S!RoundedOps \cup S!FusedOps \cup Conversions
UnroundedOps == SignOps \cup S!MinMaxOps \cup S!CompareOps \cup {"fclass", "fmv.x", "fmv.f"}

ExecuteArith(i) ==
    /\ i.op \in S!RoundedOps
    /\ RmLegal(i)
    /\ LET r == S!FpArith(i.op, Source("s", 1), Source("s", 2), Rm(i))
       IN  WriteFloat(Boxed("s", r.v), r.flags, i)

ExecuteFused(i) ==
    /\ i.op \in S!FusedOps
    /\ RmLegal(i)
    /\ LET r == S!FpFused(i.op, Source("s", 1), Source("s", 2), Source("s", 3), Rm(i))
       IN  WriteFloat(Boxed("s", r.v), r.flags, i)

(* The mask of the sign of the small format is an int: it is extended to the whole
   register, so that the upper bits come from the second source (or are lost). *)
ExecuteSignInject(i) ==
    LET half == 2 ^ (FormatSize(i.fmt) - 1)
        mask == 2 ^ FLEN - half
        other == fp_reg[2] - (fp_reg[2] % half)
    IN  /\ i.op \in SignOps
        /\ FpLegal
        /\ WriteFloat(CASE i.op = "fsgnj" -> (fp_reg[1] % half) + other
                        [] i.op = "fsgnjn" -> (fp_reg[1] % half) + (mask - other)
                        [] i.op = "fsgnjx" -> fp_reg[1] ^^ other, {}, i)

ExecuteMinMax(i) ==
    /\ i.op \in S!MinMaxOps
    /\ FpLegal
    /\ LET r == IF i.fmt = "s" THEN S!FpMinMax(i.op, Source("s", 1), Source("s", 2))
                               ELSE D!FpMinMax(i.op, fp_reg[1], fp_reg[2])
       IN  WriteFloat(Boxed(i.fmt, r.v), r.flags, i)

ExecuteCompare(i) ==
    /\ i.op \in S!CompareOps
    /\ FpLegal
    /\ LET r == IF i.fmt = "s" THEN S!FpCompare(i.op, Source("s", 1), Source("s", 2))
                               ELSE D!FpCompare(i.op, fp_reg[1], fp_reg[2])
       IN  WriteInt(i, r.v, r.flags)

ExecuteMove(i) ==
    \/ /\ i.op = "fclass"
       /\ FpLegal
       /\ WriteInt(i, 2 ^ (IF i.fmt = "s" THEN S!fclass_sf(Source("s", 1))
                                          ELSE D!fclass_sf(fp_reg[1])), {})
    \/ /\ i.op = "fmv.x"
       /\ FpLegal
       /\ WriteInt(i, Extend(Source(i.fmt, 1), FormatSize(i.fmt)), {})
    \/ /\ i.op = "fmv.f"
       /\ FpLegal
       /\ WriteFloat(SignedOf(reg[1], FormatSize(i.fmt)) % 2 ^ FLEN, {}, i)

SizeBits(size) == IF size \in {"w", "wu"} THEN WLEN ELSE XLEN
IsUnsigned(size) == size \in {"wu", "lu"}

(* The result of a word is extended by its sign, the unsigned one too. *)
ExecuteToInt(i) ==
    /\ i.op = "fcvt.int"
    /\ RmLegal(i)
    /\ LET n == SizeBits(i.size)
           r == IF i.fmt = "s" THEN S!internal_cvt_sf_i(Source("s", 1), Rm(i), IsUnsigned(i.size), n)
                               ELSE D!internal_cvt_sf_i(fp_reg[1], Rm(i), IsUnsigned(i.size), n)
       IN  WriteInt(i, Extend(r.v, n), r.flags)

ExecuteFromInt(i) ==
    /\ i.op = "fcvt.float"
    /\ RmLegal(i)
    /\ LET n == SizeBits(i.size)
           a == reg[1] % 2 ^ n
           r == IF i.fmt = "s" THEN S!internal_cvt_i_sf(a, Rm(i), IsUnsigned(i.size), n)
                               ELSE D!internal_cvt_i_sf(a, Rm(i), IsUnsigned(i.size), n)
       IN  WriteFloat(Boxed(i.fmt, r.v), r.flags, i)

CvtSubnormalAsNormal(a) ==
    CASE S!isnan_sf(a) -> D!Result(D!F_QNAN, S!NaNResult({a}).flags)
      [] S!IsInfinite(a) -> D!Result(D!pack_sf(S!Sign(a), D!EXP_MASK, 0), {})
      [] S!IsZero(a) -> D!Result(D!pack_sf(S!Sign(a), 0, 0), {})
      [] OTHER -> D!Result(D!pack_sf(S!Sign(a), S!Exp(a) - S!EXP_MASK \div 2 + D!EXP_MASK \div 2,
                                     S!Mant(a) * 2 ^ (MANT_D - MANT_S)), {})

(* The larger format takes every float of the smaller one without rounding. *)
cvt_sf32_sf64(a) ==
    LET u == S!Unpacked(a)
    IN  CASE S!isnan_sf(a) -> D!Result(D!F_QNAN, S!NaNResult({a}).flags)
          [] S!IsInfinite(a) -> D!Result(D!pack_sf(S!Sign(a), D!EXP_MASK, 0), {})
          [] S!IsZero(a) -> D!Result(D!pack_sf(S!Sign(a), 0, 0), {})
          [] OTHER -> D!Result(D!pack_sf(S!Sign(a), u.exp - S!EXP_MASK \div 2 + D!EXP_MASK \div 2,
                                         u.mant * 2 ^ (MANT_D - MANT_S)), {})

(* Of a subnormal only the exponent is normalized here; normalize_sf does the rest. *)
cvt_sf64_sf32(a, rm) ==
    LET u == D!Unpacked(a)
        mant == IF D!Exp(a) = 0 THEN D!Mant(a) ELSE u.mant
    IN  CASE D!isnan_sf(a) -> S!Result(S!F_QNAN, D!NaNResult({a}).flags)
          [] D!IsInfinite(a) -> S!Result(S!pack_sf(D!Sign(a), S!EXP_MASK, 0), {})
          [] D!IsZero(a) -> S!Result(S!pack_sf(D!Sign(a), 0, 0), {})
          [] OTHER -> S!normalize_sf(D!Sign(a), u.exp - D!EXP_MASK \div 2 + S!EXP_MASK \div 2,
                                     D!rshift_rnd(mant, MANT_D - (WLEN - 2)), rm)

ExecuteConvert(i) ==
    \/ /\ i.op = "fcvt.d.s"
       /\ RmLegal(i)
       /\ LET r == cvt_sf32_sf64(Source("s", 1)) IN WriteFloat(r.v, r.flags, i)
    \/ /\ i.op = "fcvt.s.d"
       /\ RmLegal(i)
       /\ LET r == cvt_sf64_sf32(fp_reg[1], Rm(i)) IN WriteFloat(Boxed("s", r.v), r.flags, i)

(* The unit is off, or the rounding mode is one of the reserved ones. *)
Illegal(i) ==
    /\ \/ i.op \in RoundingOps /\ ~RmLegal(i)
       \/ i.op \in UnroundedOps /\ ~FpLegal
    /\ outcome' = "illegal"
    /\ UNCHANGED <<reg, fp_reg, mem, fflags, frm, fs>>

Execute(i) ==
    \/ ExecuteOp(i) \/ ExecuteOp32(i) \/ ExecuteAmo(i)
    \/ ExecuteArith(i) \/ ExecuteFused(i) \/ ExecuteSignInject(i) \/ ExecuteMinMax(i)
    \/ ExecuteCompare(i) \/ ExecuteMove(i) \/ ExecuteToInt(i) \/ ExecuteFromInt(i)
    \/ ExecuteConvert(i) \/ Illegal(i)

Next == outcome = "none" /\ insn' = insn /\ Execute(insn)

Spec == Init /\ [][Next]_vars
-----------------------------------------------------------------------------------
(* Properties: against exact arithmetic, rounded once. *)

RefS == INSTANCE FloatReference WITH MANT_SIZE <- MANT_S, EXP_SIZE <- EXP_S
RefD == INSTANCE FloatReference WITH MANT_SIZE <- MANT_D, EXP_SIZE <- EXP_D

Minus(a) == S!Negated(a)
ExactArith(op, a, b, c, rm) ==
    CASE op = "fadd" -> RefS!Sum(a, b, rm)
      [] op = "fsub" -> RefS!Sum(a, Minus(b), rm)
      [] op = "fmul" -> RefS!Product(a, b, rm)
      [] op = "fdiv" -> RefS!Quotient(a, b, rm)
      [] op = "fsqrt" -> RefS!Root(a, rm)
      [] op = "fmadd" -> RefS!FusedSum(a, b, c, rm)
      [] op = "fmsub" -> RefS!FusedSum(a, b, Minus(c), rm)
      [] op = "fnmsub" -> RefS!FusedSum(Minus(a), b, c, rm)
      [] op = "fnmadd" -> RefS!FusedSum(Minus(a), b, Minus(c), rm)

(* The destination holds r and the flags are those of before and those of r. *)
FloatIs(fmt, r) == fp_reg'[4] = Boxed(fmt, r.v) /\ fflags' = fflags \cup r.flags
IntIs(val, flags) == (insn.rd # 0 => reg'[4] = val) /\ reg'[0] = 0 /\ fflags' = fflags \cup flags

(* Sums, products, quotients, roots and fused sums are the exact result rounded once
   in the mode of the instruction or of frm, subnormals, infinities and zeros
   included, with the flags of IEEE 754 (softfp_template.h, roundpack_sf and its
   callers). *)
ArithmeticRounds ==
    [][insn.op \in S!RoundedOps \cup S!FusedOps /\ outcome' = "done"
       => FloatIs("s", ExactArith(insn.op, Source("s", 1), Source("s", 2), Source("s", 3), Rm(insn)))]_vars

(* The least and the greatest integer of a conversion. *)
Lowest(size) == IF IsUnsigned(size) THEN 0 ELSE -(2 ^ (SizeBits(size) - 1))
Highest(size) == 2 ^ (SizeBits(size) - (IF IsUnsigned(size) THEN 0 ELSE 1)) - 1
IntegerOf(size) ==
    IF IsUnsigned(size) THEN reg[1] % 2 ^ SizeBits(size) ELSE SignedOf(reg[1], SizeBits(size))

ExactConversion(a, rm) ==
    LET e == RefD!E(a) - RefD!LogOne + RefS!LogOne
    IN  CASE RefD!IsNaN(a) -> RefS!NotANumber(RefD!IsSignaling(a))
          [] RefD!IsInf(a) -> RefS!Exact(RefS!Signed(RefD!Negative(a), RefS!Infinity))
          [] RefD!Abs(a) = 0 -> RefS!Exact(RefS!Signed(RefD!Negative(a), 0))
          [] OTHER -> RefS!Rounded(RefD!Negative(a), RefD!M(a), 1, e, rm)
ExactWidening(a) ==
    LET e == RefS!E(a) - RefS!LogOne + RefD!LogOne
    IN  CASE RefS!IsNaN(a) -> RefD!NotANumber(RefS!IsSignaling(a))
          [] RefS!IsInf(a) -> RefD!Exact(RefD!Signed(RefS!Negative(a), RefD!Infinity))
          [] RefS!Abs(a) = 0 -> RefD!Exact(RefD!Signed(RefS!Negative(a), 0))
          [] OTHER -> RefD!Rounded(RefS!Negative(a), RefS!M(a), 1, e, "RNE")

(* A conversion between the formats, to an integer or from one is the exact value
   rounded once; an integer out of range, after rounding, is invalid and becomes the
   nearest one, and the sign of a word is extended to the register (cvt_sf*,
   softfp_template_icvt.h). *)
ConversionsRound ==
    [][outcome' = "done" =>
       /\ insn.op = "fcvt.s.d" => FloatIs("s", ExactConversion(fp_reg[1], Rm(insn)))
       /\ insn.op = "fcvt.d.s" => FloatIs("d", ExactWidening(Source("s", 1)))
       /\ insn.op = "fcvt.float" =>
              FloatIs(insn.fmt, IF insn.fmt = "s" THEN RefS!FromInteger(IntegerOf(insn.size), Rm(insn))
                                                  ELSE RefD!FromInteger(IntegerOf(insn.size), Rm(insn)))
       /\ insn.op = "fcvt.int" =>
              LET r == IF insn.fmt = "s"
                       THEN RefS!ToInteger(Source("s", 1), Lowest(insn.size), Highest(insn.size), Rm(insn))
                       ELSE RefD!ToInteger(fp_reg[1], Lowest(insn.size), Highest(insn.size), Rm(insn))
              IN  IntIs(Extend(r.v, SizeBits(insn.size)), r.flags)]_vars
Ref(fmt, forS, forD) == IF fmt = "s" THEN forS ELSE forD
ComparisonIs(op, nan, signaling, less, greater) ==
    /\ op = "feq" => IntIs(Boolean(~nan /\ ~less /\ ~greater), IF signaling THEN {"INVALID_OP"} ELSE {})
    /\ op = "flt" => IntIs(Boolean(~nan /\ less), IF nan THEN {"INVALID_OP"} ELSE {})
    /\ op = "fle" => IntIs(Boolean(~nan /\ ~greater), IF nan THEN {"INVALID_OP"} ELSE {})

(* Comparisons, minimum, maximum and sign injections agree with the order of the
   numbers, the zeros being equal for a comparison and -0 below 0 for a minimum; a
   NaN is in no order, and is invalid if the operation or the NaN signals; the class
   is a single bit, in the order of the numbers (min_sf to fclass_sf). *)
ComparesOrder ==
    [][outcome' = "done" =>
       LET op == insn.op
           fmt == insn.fmt
           a == Source(fmt, 1)
           b == Source(fmt, 2)
           IsNaN(c) == Ref(fmt, RefS!IsNaN(c), RefD!IsNaN(c))
           IsSignaling(c) == Ref(fmt, RefS!IsSignaling(c), RefD!IsSignaling(c))
           Negative(c) == Ref(fmt, RefS!Negative(c), RefD!Negative(c))
           Less(c, d) == Ref(fmt, RefS!Less(c, d), RefD!Less(c, d))
           Abs(c) == Ref(fmt, RefS!Abs(c), RefD!Abs(c))
           nan == IsNaN(a) \/ IsNaN(b)
           signaling == IsSignaling(a) \/ IsSignaling(b)
           quiet == Ref(fmt, RefS!CanonicalNaN, RefD!CanonicalNaN)
           Below(c, d) == Less(c, d) \/ (Abs(c) = 0 /\ Abs(d) = 0 /\ Negative(c) /\ ~Negative(d))
           v == fp_reg'[4] % 2 ^ FormatSize(fmt)
       IN  /\ op \in S!CompareOps =>
                  ComparisonIs(op, nan, signaling, ~nan /\ Less(a, b), ~nan /\ Less(b, a))
           /\ op \in S!MinMaxOps =>
                  /\ fp_reg'[4] = Boxed(fmt, v)
                  /\ fflags' = fflags \cup (IF signaling THEN {"INVALID_OP"} ELSE {})
                  /\ CASE signaling \/ (IsNaN(a) /\ IsNaN(b)) -> v = quiet
                       [] ~signaling /\ IsNaN(a) /\ ~IsNaN(b) -> v = b
                       [] ~signaling /\ ~IsNaN(a) /\ IsNaN(b) -> v = a
                       [] ~nan -> /\ v \in {a, b}
                                  /\ \A c \in {a, b} : IF op = "fmin" THEN ~Below(c, v) ELSE ~Below(v, c)
           /\ op \in SignOps =>
                  /\ Abs(v) = Abs(a)
                  /\ Negative(v) = (CASE op = "fsgnj" -> Negative(b)
                                      [] op = "fsgnjn" -> ~Negative(b)
                                      [] op = "fsgnjx" -> Negative(a) # Negative(b))
           /\ op = "fclass" /\ insn.rd # 0 =>
                  \E k \in 0 .. 9 :
                      /\ reg'[4] = 2 ^ k
                      /\ (k = 8) = IsSignaling(a) /\ (k = 9) = (IsNaN(a) /\ ~IsSignaling(a))
                      /\ k < 8 => /\ Negative(a) = (k < 4)
                                  /\ (k \in {0, 7}) = Ref(fmt, RefS!IsInf(a), RefD!IsInf(a))
                                  /\ (k \in {3, 4}) = (Abs(a) = 0)
                                  /\ (k \in {2, 3, 4, 5}) = (Abs(a) < Ref(fmt, RefS!FirstNormal, RefD!FirstNormal))]_vars

Magnitude(a) == IF a < 0 THEN -a ELSE a
SameSign(rest, x) == rest = 0 \/ (rest < 0) = (x < 0)

(* The quotient that does not fit wraps to the least number. *)
IsQuotient(q, x, y, n) ==
    IF y = 0 THEN q % 2 ^ n = 2 ^ n - 1
    ELSE \E w \in {q, q + 2 ^ n} : Magnitude(x - w * y) < Magnitude(y) /\ SameSign(x - w * y, x)
IsRemainder(r, x, y) ==
    IF y = 0 THEN r = x
    ELSE (x - r) % Magnitude(y) = 0 /\ Magnitude(r) < Magnitude(y) /\ SameSign(r, x)

DivisionIs(op, v, a, b, n) ==
    LET Unsigned(c) == c % 2 ^ n
    IN  /\ op = "div" => IsQuotient(SignedOf(v, n), SignedOf(a, n), SignedOf(b, n), n)
        /\ op = "rem" => IsRemainder(SignedOf(v, n), SignedOf(a, n), SignedOf(b, n))
        /\ op = "divu" => IsQuotient(Unsigned(v), Unsigned(a), Unsigned(b), n)
        /\ op = "remu" => IsRemainder(Unsigned(v), Unsigned(a), Unsigned(b))
WordDivision == [divw |-> "div", remw |-> "rem", divuw |-> "divu", remuw |-> "remu"]

(* The two halves of a product make the whole product; a quotient and a remainder
   are those of the truncated division, by zero and of the least number by -1
   included; a shift right of a signed number is a division rounded down; the result
   of a word operation is a word extended by its sign; and an atomic minimum or
   maximum leaves the least or greatest word and returns the old one (mulh, div,
   OP_A). *)
IntegersExact ==
    [][outcome' = "done" =>
       LET op == insn.op
           a == reg[1]
           b == reg[2]
           v == reg'[4]
           x == SignedOf(a, XLEN)
           y == SignedOf(b, XLEN)
           Whole(high, p) == high * 2 ^ XLEN + (p % 2 ^ XLEN) = p
           shift == 2 ^ (b % XLEN)
       IN  /\ reg'[0] = 0
           /\ insn.rd # 0 =>
                  /\ op = "mulh" => Whole(SignedOf(v, XLEN), x * y)
                  /\ op = "mulhsu" => Whole(SignedOf(v, XLEN), x * b)
                  /\ op = "mulhu" => Whole(v, a * b)
                  /\ DivisionIs(op, v, a, b, XLEN)
                  /\ op = "sra" => SignedOf(v, XLEN) * shift <= x /\ x < (SignedOf(v, XLEN) + 1) * shift
                  /\ op \in WNames => v = Extend(v, WLEN)
                  /\ op \in DOMAIN WordDivision => DivisionIs(WordDivision[op], v, a, b, WLEN)
                  /\ op \in AmoNames => v = Extend(mem, WLEN)
           /\ op \in {"amomin", "amomax"} =>
                  \A c \in {mem, b} : IF op = "amomin" THEN SignedOf(mem', WLEN) <= SignedOf(c, WLEN)
                                                      ELSE SignedOf(mem', WLEN) >= SignedOf(c, WLEN)
           /\ op \in {"amominu", "amomaxu"} =>
                  \A c \in {mem, b} : IF op = "amominu" THEN mem' <= c % 2 ^ WLEN ELSE mem' >= c % 2 ^ WLEN
           /\ op \in {"amomin", "amomax", "amominu", "amomaxu"} => mem' \in {mem, b % 2 ^ WLEN}]_vars
===================================================================================
