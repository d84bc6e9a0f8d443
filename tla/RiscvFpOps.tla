-------------------------------- MODULE RiscvFpOps --------------------------------
(* The floating point instructions of one format (riscv_cpu_fp_template.h and the
   fused ones of riscv_cpu_template.h): what each computes from its sources, which
   are bit patterns of the format. *)
EXTENDS Softfp

RoundedOps == {"fadd", "fsub", "fmul", "fdiv", "fsqrt"}
FusedOps == {"fmadd", "fmsub", "fnmsub", "fnmadd"}
MinMaxOps == {"fmin", "fmax"}
CompareOps == {"fle", "flt", "feq"}

FpArith(op, a, b, rm) ==
    CASE op = "fadd" -> add_sf(a, b, rm)
      [] op = "fsub" -> sub_sf(a, b, rm)
      [] op = "fmul" -> mul_sf(a, b, rm)
      [] op = "fdiv" -> div_sf(a, b, rm)
      [] op = "fsqrt" -> sqrt_sf(a, rm)

FpFused(op, a, b, c, rm) ==
    CASE op = "fmadd" -> fma_sf(a, b, c, rm)
      [] op = "fmsub" -> fma_sf(a, b, Negated(c), rm)
      [] op = "fnmsub" -> fma_sf(Negated(a), b, c, rm)
      [] op = "fnmadd" -> fma_sf(Negated(a), b, Negated(c), rm)

FpMinMax(op, a, b) == IF op = "fmin" THEN min_sf(a, b) ELSE max_sf(a, b)

FpCompare(op, a, b) ==
    CASE op = "fle" -> le_sf(a, b)
      [] op = "flt" -> lt_sf(a, b)
      [] op = "feq" -> eq_quiet_sf(a, b)
===================================================================================
