------------------------------- MODULE MCRiscvArith -------------------------------
(* A float of 8 bits for the small format, all of whose values are tried, one of 14
   bits for the large one, and registers of 14 bits. *)
EXTENDS RiscvArith

(* The rounding modes: those of the instruction, a reserved one, and that of frm. *)
Rms == {0, 1, 2, 3, 4, 7}
Fp(op, fmt, rms) == {Insn(op, fmt, "", rm, 4) : rm \in rms}
Cvt(op, fmt, sizes, rms) == {Insn(op, fmt, size, rm, 4) : size \in sizes, rm \in rms}
Integer(ops) == {Insn(op, "", "", 0, 4) : op \in ops}

MCInstructions ==
    UNION {Fp(op, "s", Rms) : op \in S!RoundedOps}
        \cup UNION {Fp(op, "s", 0 .. 4) : op \in S!FusedOps}
        \cup UNION {Fp(op, fmt, {0}) : op \in SignOps \cup S!MinMaxOps \cup S!CompareOps \cup {"fclass"},
                                       fmt \in {"s", "d"}}
        \cup Fp("fmv.x", "s", {0}) \cup Fp("fmv.x", "d", {0}) \cup Fp("fmv.f", "s", {0}) \cup Fp("fmv.f", "d", {0})
        \cup Cvt("fcvt.int", "s", {"w", "wu", "l", "lu"}, 0 .. 4)
        \cup Cvt("fcvt.int", "d", {"w", "wu", "l", "lu"}, 0 .. 4)
        \cup Cvt("fcvt.float", "s", {"w", "wu", "l", "lu"}, 0 .. 4)
        \cup Cvt("fcvt.float", "d", {"l", "lu"}, 0 .. 4)
        \cup Fp("fcvt.d.s", "d", {0, 5}) \cup Fp("fcvt.s.d", "s", 0 .. 4)
        \cup Integer(OpNames \cup WNames \cup AmoNames)
        \cup {Insn("fadd", "s", "", 6, 4), Insn("feq", "s", "", 0, 0), Insn("div", "", "", 0, 0)}

All == 0 .. 255
Few == {0, 1, 2, 3, 4, 5, 7, 8, 23, 31, 44, 56, 58, 60, 61, 63, 64, 66, 71, 84, 116, 121, 122, 123, 124, 125, 126,
        128, 129, 131, 132, 135, 186, 188, 189, 195, 248, 251, 252, 255}
Fewer == {0, 1, 3, 4, 7, 33, 46, 60, 61, 67, 91, 123, 124, 125, 128, 130, 187, 251, 252}
Boundaries == {0, 1, 4, 60, 123, 124, 126, 128, 132, 188, 252}

(* Floats of the large format: every exponent with few mantissas. *)
WideOf(exps, mants) == {sign * 2 ^ 13 + e * 2 ^ 7 + m : sign \in 0 .. 1, e \in exps, m \in mants}
Wide == WideOf(0 .. 63, {0, 1, 2, 15, 16, 17, 31, 32, 33, 48, 63, 64, 65, 95, 96, 97, 112, 120, 126, 127})
WideFew == WideOf({0, 1, 2, 31, 40, 63}, {0, 1, 63, 64, 127})

Integers14 == {0, 1, 2, 3, 5, 7, 8, 100, 126, 127, 128, 129, 130, 255, 256, 257, 300, 511, 512, 1023, 1025,
               3000, 4095, 4096, 4097, 8064, 8190, 8191, 8192, 8193, 8200, 8320, 8321, 12000, 16100, 16255, 16256, 16257,
               16374, 16380, 16381, 16382, 16383}

Src(x, f, rm, off) == [x |-> x, f |-> f, frm |-> rm, fs |-> IF off THEN 0 ELSE 1,
                       fflags |-> IF f[1] % 2 = 1 THEN {"DIVIDE_ZERO"} ELSE {}]
Floats(as, bs, cs) == {Src(<<0, 0, 0>>, <<a, b, c>>, 0, FALSE) : a \in as, b \in bs, c \in cs}
Ints(as, bs, cs) == {Src(<<a, b, c>>, <<0, 0, 0>>, 0, FALSE) : a \in as, b \in bs, c \in cs}

MCOperands ==
    [i \in MCInstructions |->
       CASE i.rm = 7 -> {Src(<<0, 0, 0>>, <<a, b, 0>>, rm, a = 7) : a \in Boundaries, b \in Boundaries, rm \in 0 .. 7}
         [] i.op \in S!FusedOps -> Floats(Fewer, Fewer, Fewer)
         [] i.op = "fsqrt" \/ i.op = "fcvt.d.s"
              \/ (i.op \in {"fcvt.int", "fclass", "fmv.x"} /\ i.fmt = "s") ->
                Floats(All, {0}, {0})
         [] i.op \in S!RoundedOps \ {"fsqrt"} /\ i.rm # 7 -> Floats(All, Few, {0})
         [] i.op \in UnroundedOps \ {"fclass", "fmv.x", "fmv.f"} /\ i.fmt = "s" -> Floats(All, Few, {0})
         [] i.op \in {"fcvt.s.d", "fclass", "fmv.x"} \/ (i.op = "fcvt.int" /\ i.fmt = "d") -> Floats(Wide, {0}, {0})
         [] i.op \in UnroundedOps /\ i.fmt = "d" -> Floats(WideFew, WideFew, {0})
         [] i.op \in AmoNames -> Ints({0}, Integers14, {0, 1, 100, 127, 128, 255})
         [] OTHER -> Ints(Integers14, Integers14, {0})]
===================================================================================
