------------------------------ MODULE RiscvHart ------------------------------
(* Traps, interrupts and sleep of the RISC-V hart (riscv_cpu.c and the system  *)
(* instructions of riscv_cpu_template.h).  The interpreter runs blocks of      *)
(* instructions and looks at the interrupts between two of them only.          *)
(*                                                                             *)
(* The fields of mstatus that translation reads are in RiscvMmu.  Program      *)
(* counters, causes and trap values are left out: a trap is where it goes and  *)
(* what it saves.                                                              *)
EXTENDS Integers, FiniteSets

CONSTANTS
    MaxXl,       \* MAX_XLEN is 2^(MaxXl + 4): 2 for 64 bits, 3 for 128
    MstatusVals, \* what the guest writes to mstatus and sstatus
    MieVals,     \* ... to mie
    MidelegVals, \* ... to mideleg
    MipVals,     \* ... to mip and sip
    MxlVals,     \* ... to the MXL field of misa
    Medeleg      \* the exceptions delegated to the supervisor

PRV_U == 0
PRV_S == 1
PRV_M == 3

SSIP == 1
MSIP == 3
STIP == 5
MTIP == 7
SEIP == 9
MEIP == 11
Irqs == {SSIP, MSIP, STIP, MTIP, SEIP, MEIP}

\* ie[p] is the interrupt enable bit of privilege p, at bit p of mstatus.
Mstatus ==
    [ie : [0 .. 3 -> BOOLEAN], spie : BOOLEAN, mpie : BOOLEAN,
     spp : 0 .. 1, mpp : 0 .. 3, uxl : 0 .. 3, sxl : 0 .. 3]

NoTrap == [priv |-> -1, ie |-> FALSE]
NothingSaved == [level \in {PRV_S, PRV_M} |-> NoTrap]

Exceptions == {"user_ecall", "supervisor_ecall", "machine_ecall", "fault"}

ASSUME HartAssumption ==
    /\ MaxXl \in 2 .. 3
    /\ MstatusVals \subseteq Mstatus
    /\ MieVals \subseteq SUBSET Irqs
    /\ MidelegVals \subseteq SUBSET Irqs
    /\ MipVals \subseteq SUBSET Irqs
    /\ MxlVals \subseteq 0 .. 3
    /\ Medeleg \subseteq Exceptions

VARIABLES
    priv,       \* privilege of the hart
    mstatus,
    mxl,        \* XLEN of machine mode, as in misa
    cur_xlen,   \* XLEN of the current privilege
    mip,        \* pending interrupts
    mie,        \* enabled interrupts
    mideleg,    \* interrupts delegated to the supervisor
    power_down, \* the hart sleeps in wfi
    block,      \* the interpreter is inside a block
    saved,      \* history: what the last trap to the supervisor, and to the
                \* machine, interrupted, until it returns or the guest writes it
    seip_written \* history: the guest has changed SEIP since the PLIC set it

hartVars ==
    <<priv, mstatus, mxl, cur_xlen, mip, mie, mideleg, power_down, block, saved, seip_written>>
xlenVars == <<mxl, cur_xlen>>
irqVars == <<mip, mie, mideleg, seip_written>>

-----------------------------------------------------------------------------
(* The interrupt inputs: riscv_cpu_set_mip and riscv_cpu_reset_mip.            *)

\* Faulty: the hart is not woken.
SetMipOnly(mask) ==
    /\ mip' = mip \cup mask
    /\ UNCHANGED power_down

\* An interrupt that becomes pending and is enabled wakes the hart.
SetMip(mask) ==
    /\ mip' = mip \cup mask
    /\ power_down' = (power_down /\ (mip \cup mask) \cap mie = {})

ResetMip(mask) ==
    /\ mip' = mip \ mask
    /\ UNCHANGED power_down

-----------------------------------------------------------------------------
(* Privilege: set_mstatus, set_priv, raise_exception2 and the returns.         *)

Xlen(xl) == 2 ^ (xl + 4)

SetPriv(p) ==
    /\ priv' = p
    /\ cur_xlen' =
        IF p = priv THEN cur_xlen
        ELSE Xlen(CASE p = PRV_S -> mstatus'.sxl
                    [] p = PRV_U -> mstatus'.uxl
                    [] OTHER -> mxl)

\* UXL and SXL are both written when the UXL written is a supported one.
SetMstatus(val) ==
    LET keep == val.uxl \notin 1 .. MaxXl IN
    mstatus' = [val EXCEPT !.ie[2] = mstatus.ie[2],
                           !.uxl = IF keep THEN mstatus.uxl ELSE val.uxl,
                           !.sxl = IF keep THEN mstatus.sxl ELSE val.sxl]

\* Faulty: machine mode delegates too.
HandlerAnywhere(delegated) == IF delegated THEN PRV_S ELSE PRV_M

\* The level that handles a trap.
Handler(delegated) == IF priv <= PRV_S /\ delegated THEN PRV_S ELSE PRV_M

\* Faulty: the interrupt enable bit of the handler's level is saved.
RaiseSavesHandlers(delegated) ==
    /\ mstatus' = IF Handler(delegated) = PRV_S
                  THEN [mstatus EXCEPT !.spie = mstatus.ie[PRV_S], !.spp = priv,
                                       !.ie[PRV_S] = FALSE]
                  ELSE [mstatus EXCEPT !.mpie = mstatus.ie[PRV_M], !.mpp = priv,
                                       !.ie[PRV_M] = FALSE]
    /\ SetPriv(Handler(delegated))
    /\ block' = FALSE
    /\ saved' = [saved EXCEPT ![Handler(delegated)] = [priv |-> priv, ie |-> mstatus.ie[priv]]]
    /\ UNCHANGED <<mxl, irqVars, power_down>>

\* Faulty: interrupts stay enabled in the handler.
RaiseStaysOpen(delegated) ==
    /\ mstatus' = IF Handler(delegated) = PRV_S
                  THEN [mstatus EXCEPT !.spie = mstatus.ie[priv], !.spp = priv]
                  ELSE [mstatus EXCEPT !.mpie = mstatus.ie[priv], !.mpp = priv]
    /\ SetPriv(Handler(delegated))
    /\ block' = FALSE
    /\ saved' = [saved EXCEPT ![Handler(delegated)] = [priv |-> priv, ie |-> mstatus.ie[priv]]]
    /\ UNCHANGED <<mxl, irqVars, power_down>>

\* The privilege and its interrupt enable bit are saved, and interrupts of the
\* handler's level are disabled; the interpreter loop is left.
RaiseException(delegated) ==
    /\ mstatus' = IF Handler(delegated) = PRV_S
                  THEN [mstatus EXCEPT !.spie = mstatus.ie[priv], !.spp = priv,
                                       !.ie[PRV_S] = FALSE]
                  ELSE [mstatus EXCEPT !.mpie = mstatus.ie[priv], !.mpp = priv,
                                       !.ie[PRV_M] = FALSE]
    /\ SetPriv(Handler(delegated))
    /\ block' = FALSE
    /\ saved' = [saved EXCEPT ![Handler(delegated)] = [priv |-> priv, ie |-> mstatus.ie[priv]]]
    /\ UNCHANGED <<mxl, irqVars, power_down>>

\* Faulty: the supervisor's enable bit holds every interrupt back.
EnabledByLevel ==
    CASE priv = PRV_M -> IF mstatus.ie[PRV_M] THEN Irqs \ mideleg ELSE {}
      [] priv = PRV_S -> IF mstatus.ie[PRV_S] THEN Irqs ELSE {}
      [] OTHER -> Irqs

\* get_pending_irq_mask.
Enabled ==
    CASE priv = PRV_M -> IF mstatus.ie[PRV_M] THEN Irqs \ mideleg ELSE {}
      [] priv = PRV_S -> IF mstatus.ie[PRV_S] THEN Irqs ELSE Irqs \ mideleg
      [] OTHER -> Irqs

PendingIrqs == mip \cap mie \cap Enabled

-----------------------------------------------------------------------------
(* The interpreter loop.                                                       *)

Awake == ~power_down

\* Between two blocks: the interrupt with the lowest number is taken.
TakeInterrupt ==
    /\ Awake
    /\ ~block
    /\ \E irq \in PendingIrqs :
        /\ \A other \in PendingIrqs : irq <= other
        /\ RaiseException(irq \in mideleg)

StartBlock ==
    /\ Awake
    /\ ~block
    /\ PendingIrqs = {}
    /\ block' = TRUE
    /\ UNCHANGED <<priv, mstatus, xlenVars, irqVars, power_down, saved>>

EndBlock ==
    /\ block
    /\ block' = FALSE
    /\ UNCHANGED <<priv, mstatus, xlenVars, irqVars, power_down, saved>>

-----------------------------------------------------------------------------
(* System instructions.  csr_write returns 0 for most registers: the block     *)
(* goes on.                                                                    *)

\* An ecall, a breakpoint, an illegal instruction or a page fault.
Exception ==
    /\ block
    /\ \E cause \in Exceptions :
        /\ cause = "user_ecall" => priv = PRV_U
        /\ cause = "supervisor_ecall" => priv = PRV_S
        /\ cause = "machine_ecall" => priv = PRV_M
        /\ RaiseException(cause \in Medeleg)

Mret ==
    /\ block
    /\ priv = PRV_M
    /\ mstatus' = [mstatus EXCEPT !.ie[mstatus.mpp] = mstatus.mpie, !.mpie = TRUE, !.mpp = PRV_U]
    /\ SetPriv(mstatus.mpp)
    /\ block' = FALSE
    /\ saved' = IF saved[PRV_M] = NoTrap THEN NothingSaved ELSE [saved EXCEPT ![PRV_M] = NoTrap]
    /\ UNCHANGED <<mxl, irqVars, power_down>>

Sret ==
    /\ block
    /\ priv >= PRV_S
    /\ mstatus' = [mstatus EXCEPT !.ie[mstatus.spp] = mstatus.spie, !.spie = TRUE, !.spp = PRV_U]
    /\ SetPriv(mstatus.spp)
    /\ block' = FALSE
    /\ saved' = IF priv = PRV_M THEN NothingSaved ELSE [saved EXCEPT ![PRV_S] = NoTrap]
    /\ UNCHANGED <<mxl, irqVars, power_down>>

\* The hart sleeps unless an enabled interrupt is pending already.
Wfi ==
    /\ block
    /\ priv # PRV_U
    /\ mip \cap mie = {}
    /\ power_down' = TRUE
    /\ block' = FALSE
    /\ UNCHANGED <<priv, mstatus, xlenVars, irqVars, saved>>

WriteMstatus(val) ==
    /\ block
    /\ priv = PRV_M
    /\ SetMstatus(val)
    /\ saved' = NothingSaved
    /\ UNCHANGED <<priv, xlenVars, irqVars, power_down, block>>

\* The fields of sstatus are written, and the others kept.
WriteSstatus(val) ==
    /\ block
    /\ priv >= PRV_S
    /\ SetMstatus([mstatus EXCEPT !.ie[PRV_U] = val.ie[PRV_U], !.ie[PRV_S] = val.ie[PRV_S],
                                  !.spie = val.spie, !.spp = val.spp, !.uxl = val.uxl])
    /\ saved' = NothingSaved
    /\ UNCHANGED <<priv, xlenVars, irqVars, power_down, block>>

\* misa: a change of MXL changes the XLEN at once and leaves the loop.
WriteMisa(new_mxl) ==
    /\ block
    /\ priv = PRV_M
    /\ new_mxl \in 1 .. MaxXl
    /\ new_mxl # mxl
    /\ mxl' = new_mxl
    /\ cur_xlen' = Xlen(new_mxl)
    /\ block' = FALSE
    /\ UNCHANGED <<priv, mstatus, irqVars, power_down, saved>>

WriteMie(val) ==
    /\ block
    /\ priv = PRV_M
    /\ mie' = val \ {MEIP}
    /\ UNCHANGED <<priv, mstatus, xlenVars, mip, mideleg, power_down, block, saved, seip_written>>

WriteSie(val) ==
    /\ block
    /\ priv >= PRV_S
    /\ mie' = (mie \ mideleg) \cup (val \cap mideleg)
    /\ UNCHANGED <<priv, mstatus, xlenVars, mip, mideleg, power_down, block, saved, seip_written>>

WriteMideleg(val) ==
    /\ block
    /\ priv = PRV_M
    /\ mideleg' = val \cap {SSIP, STIP, SEIP}
    /\ UNCHANGED <<priv, mstatus, xlenVars, mip, mie, power_down, block, saved, seip_written>>

\* mip: only the interrupts of the supervisor's software and timer are written.
WriteMip(val) ==
    /\ block
    /\ priv = PRV_M
    /\ mip' = (mip \ {SSIP, STIP}) \cup (val \cap {SSIP, STIP})
    /\ UNCHANGED <<priv, mstatus, xlenVars, mie, mideleg, power_down, block, saved, seip_written>>

\* sip: every delegated interrupt is written, SEIP among them.  A csrs or csrc
\* of another bit writes back the SEIP it has read.
WriteSip(val) ==
    /\ block
    /\ priv >= PRV_S
    /\ mip' = (mip \ mideleg) \cup (val \cap mideleg)
    /\ seip_written' = (seip_written \/ ~(SEIP \in mip <=> SEIP \in mip'))
    /\ UNCHANGED <<priv, mstatus, xlenVars, mie, mideleg, power_down, block, saved>>

HartInit ==
    /\ priv = PRV_M
    /\ mstatus = [ie |-> [p \in 0 .. 3 |-> FALSE], spie |-> FALSE, mpie |-> FALSE,
                  spp |-> PRV_U, mpp |-> PRV_U, uxl |-> MaxXl, sxl |-> MaxXl]
    /\ mxl = MaxXl
    /\ cur_xlen = Xlen(MaxXl)
    /\ mip = {}
    /\ mie = {}
    /\ mideleg = {}
    /\ power_down = FALSE
    /\ block = FALSE
    /\ saved = NothingSaved
    /\ seip_written = FALSE

\* One instruction, or one step of the loop between two blocks.
HartStep ==
    \/ TakeInterrupt
    \/ StartBlock
    \/ EndBlock
    \/ Exception
    \/ Mret
    \/ Sret
    \/ Wfi
    \/ \E val \in MstatusVals : WriteMstatus(val)
    \/ \E val \in MstatusVals : WriteSstatus(val)
    \/ \E val \in MxlVals : WriteMisa(val)
    \/ \E val \in MieVals : WriteMie(val)
    \/ \E val \in MieVals : WriteSie(val)
    \/ \E val \in MidelegVals : WriteMideleg(val)
    \/ \E val \in MipVals : WriteMip(val)
    \/ \E val \in MipVals : WriteSip(val)

=============================================================================
