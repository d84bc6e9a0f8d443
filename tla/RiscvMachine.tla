---------------------------- MODULE RiscvMachine ----------------------------
(* The RISC-V machine (riscv_machine.c) around the hart: the timer of the      *)
(* CLINT, the interrupt controller (PLIC) and the main loop of temu.c, which   *)
(* computes how long to sleep, polls the devices and runs the interpreter for  *)
(* a slice.                                                                    *)
EXTENDS RiscvHart

CONSTANTS
    Sources, \* interrupt lines of the devices, from 1
    Half,    \* timecmp is written in two halves, of values below Half
    Halves,  \* the values the guest writes to a half
    MaxTime  \* bound of the clock, for the model checker

\* The clock, which starts at 0, is not seen to reach its sign bit: 10 MHz and
\* 2^63 make that 29000 years.
ASSUME MachineAssumption ==
    /\ Sources \subseteq 1 .. 31
    /\ Half \in Nat \ {0}
    /\ Halves \subseteq 0 .. Half - 1
    /\ MaxTime \in Nat /\ 2 * MaxTime < Half * Half

VARIABLES
    time,     \* the real time clock
    timecmp,  \* the two halves of the time at which the timer interrupt is due
    pending,  \* plic_pending_irq: the lines that are up
    served,   \* plic_served_irq: the interrupts claimed and not completed
    phase     \* of the main loop

clintVars == <<time, timecmp>>
plicVars == <<pending, served>>
vars == <<hartVars, clintVars, plicVars, phase>>

Phases == {"sleep", "poll", "interp"}

\* Everything of the hart but what SetMip, ResetMip and the PLIC change.
hartRest == <<priv, mstatus, xlenVars, mie, mideleg, block, saved>>

-----------------------------------------------------------------------------
(* CLINT.                                                                      *)

\* The time in timecmp, while it may be half written.
Due == timecmp.high * Half + timecmp.low

\* Values of timecmp and of the clock: 2^64.
Width == Half * Half

InInstruction == phase = "interp" /\ block

\* Faulty: the interrupt is withdrawn by the other half only.
WriteLowKeepsTimer(val) ==
    /\ InInstruction
    /\ timecmp' = [low |-> val, high |-> 0]
    /\ UNCHANGED <<mip, power_down, seip_written, hartRest, time, plicVars, phase>>

\* Each half of timecmp is written by an access of its own, and each of them
\* withdraws the interrupt.  The mask that should keep the high half is 0: a
\* write of the low half clears it.
WriteTimecmpLow(val) ==
    /\ InInstruction
    /\ timecmp' = [low |-> val, high |-> 0]
    /\ ResetMip({MTIP})
    /\ UNCHANGED <<seip_written, hartRest, time, plicVars, phase>>

WriteTimecmpHigh(val) ==
    /\ InInstruction
    /\ timecmp' = [timecmp EXCEPT !.high = val]
    /\ ResetMip({MTIP})
    /\ UNCHANGED <<seip_written, hartRest, time, plicVars, phase>>

Tick ==
    /\ time < MaxTime
    /\ time' = time + 1
    /\ UNCHANGED <<hartVars, timecmp, plicVars, phase>>

-----------------------------------------------------------------------------
(* PLIC.                                                                       *)

\* plic_update_mip, for the lines and the claims a step leaves.
PlicUpdateMip(lines, claims) ==
    /\ IF lines \ claims # {} THEN SetMip({MEIP, SEIP}) ELSE ResetMip({MEIP, SEIP})
    /\ seip_written' = FALSE

\* plic_set_irq, from a device: in an access of the guest or while polled.
PlicSetIrq(irq, up) ==
    /\ InInstruction \/ phase = "poll"
    /\ pending' = IF up THEN pending \cup {irq} ELSE pending \ {irq}
    /\ PlicUpdateMip(pending', served)
    /\ UNCHANGED <<hartRest, clintVars, served, phase>>

\* The claim register: the interrupt with the lowest number.
PlicClaim ==
    /\ InInstruction
    /\ \E irq \in pending \ served :
        /\ \A other \in pending \ served : irq <= other
        /\ served' = served \cup {irq}
    /\ PlicUpdateMip(pending, served')
    /\ UNCHANGED <<hartRest, clintVars, pending, phase>>

\* Faulty: the hart is not told.
CompleteSilently(irq) ==
    /\ InInstruction
    /\ served' = served \ {irq}
    /\ UNCHANGED <<mip, power_down, seip_written, hartRest, clintVars, pending, phase>>

PlicComplete(irq) ==
    /\ InInstruction
    /\ served' = served \ {irq}
    /\ PlicUpdateMip(pending, served')
    /\ UNCHANGED <<hartRest, clintVars, pending, phase>>

-----------------------------------------------------------------------------
(* The main loop: virt_machine_run.                                            *)

\* The difference of two unsigned numbers as a signed one: a time that is far
\* ahead, by half of all or more, has passed.
Delay ==
    LET difference == (Due - time) % Width
    IN  IF 2 * difference >= Width THEN difference - Width ELSE difference

\* Faulty: the timer of a sleeping hart is not looked at.
GetSleepAwake ==
    /\ phase = "sleep"
    /\ phase' = "poll"
    /\ IF ~power_down /\ MTIP \notin mip /\ Delay <= 0
       THEN SetMip({MTIP})
       ELSE UNCHANGED <<mip, power_down>>
    /\ UNCHANGED <<seip_written, hartRest, clintVars, plicVars>>

\* riscv_machine_get_sleep_duration: the only place that raises the timer.
GetSleepDuration ==
    /\ phase = "sleep"
    /\ phase' = "poll"
    /\ IF MTIP \notin mip /\ Delay <= 0
       THEN SetMip({MTIP})
       ELSE UNCHANGED <<mip, power_down>>
    /\ UNCHANGED <<seip_written, hartRest, clintVars, plicVars>>

Interp ==
    /\ phase = "poll"
    /\ phase' = "interp"
    /\ UNCHANGED <<hartVars, clintVars, plicVars>>

\* The slice is used up between two blocks, or the hart sleeps.
EndSlice ==
    /\ phase = "interp"
    /\ ~block
    /\ phase' = "sleep"
    /\ UNCHANGED <<hartVars, clintVars, plicVars>>

Hart ==
    /\ phase = "interp"
    /\ HartStep
    /\ UNCHANGED <<clintVars, plicVars, phase>>

Init ==
    /\ HartInit
    /\ time = 0
    /\ timecmp = [low |-> 0, high |-> 0]
    /\ pending = {}
    /\ served = {}
    /\ phase = "sleep"

Next ==
    \/ Hart
    \/ \E val \in Halves : WriteTimecmpLow(val)
    \/ \E val \in Halves : WriteTimecmpHigh(val)
    \/ Tick
    \/ \E irq \in Sources : \E up \in BOOLEAN : PlicSetIrq(irq, up)
    \/ PlicClaim
    \/ \E irq \in Sources : PlicComplete(irq)
    \/ GetSleepDuration
    \/ Interp
    \/ EndSlice

Spec == Init /\ [][Next]_vars

\* Time passes, the main loop goes on, every block ends at the end of its page
\* at the latest, every slice after its cycles, and every slice begins with a
\* look at the interrupts.
Fairness ==
    /\ WF_vars(Tick)
    /\ WF_vars(GetSleepDuration)
    /\ WF_vars(Interp)
    /\ WF_vars(phase = "interp" /\ EndBlock /\ UNCHANGED <<clintVars, plicVars, phase>>)
    /\ SF_vars(EndSlice)
    /\ SF_vars(phase = "interp" /\ TakeInterrupt /\ UNCHANGED <<clintVars, plicVars, phase>>)

FairSpec == Spec /\ Fairness

-----------------------------------------------------------------------------
(* Properties.                                                                 *)

\* Every variable keeps its type; SPP fits its bit.
TypeOK ==
    /\ priv \in 0 .. 3
    /\ mstatus \in Mstatus
    /\ mxl \in 1 .. MaxXl
    /\ cur_xlen \in {Xlen(xl) : xl \in 0 .. 3}
    /\ mip \subseteq Irqs
    /\ mie \subseteq Irqs \ {MEIP}
    /\ mideleg \subseteq {SSIP, STIP, SEIP}
    /\ power_down \in BOOLEAN
    /\ block \in BOOLEAN
    /\ saved \in [{PRV_S, PRV_M} -> [priv : 0 .. 3, ie : BOOLEAN] \cup {NoTrap}]
    /\ seip_written \in BOOLEAN
    /\ time \in Nat
    /\ timecmp \in [low : 0 .. Half - 1, high : 0 .. Half - 1]
    /\ pending \subseteq Sources
    /\ served \subseteq Sources
    /\ phase \in Phases

\* A hart that sleeps has no enabled interrupt pending, whoever raised it and
\* whenever: no wake-up is lost (wfi, riscv_cpu_set_mip).
SleepsWhenIdle == power_down => mip \cap mie = {} /\ ~block

\* The timer interrupt is never pending before timecmp, also while timecmp is
\* half written, unless timecmp is half of all times or more: the difference
\* that is compared is then negative (clint_write,
\* riscv_machine_get_sleep_duration).
TimerIsNotEarly == MTIP \in mip => time >= Due \/ 2 * Due >= Width

\* The machine's external interrupt follows the lines that are up and not
\* claimed (plic_update_mip), through everything the guest writes to mip and
\* sip; the supervisor's does until the guest, to whom it is delegated, gives it
\* another value in sip, and again from the next change of a line or a claim.
LinesAreReported ==
    /\ MEIP \in mip <=> pending \ served # {}
    /\ seip_written \/ (SEIP \in mip <=> pending \ served # {})

\* A return gives back the privilege and the interrupt enable bit that its trap
\* interrupted, whatever traps and returns of the other level came in between.
ReturnsRestore ==
    [][/\ Mret /\ saved[PRV_M] # NoTrap =>
            /\ priv' = saved[PRV_M].priv
            /\ mstatus'.ie[priv'] = saved[PRV_M].ie
       /\ Sret /\ priv = PRV_S /\ saved[PRV_S] # NoTrap =>
            /\ priv' = saved[PRV_S].priv
            /\ mstatus'.ie[priv'] = saved[PRV_S].ie]_vars

\* No interrupt enters a handler, of the supervisor or of the machine, before it
\* has returned or written its status: what its trap saved is not lost.
HandlersAreNotReentered == [][TakeInterrupt => saved[priv'] = NoTrap]_vars

\* A sleeping hart whose timer is enabled and due within the run wakes up.
SleeperWakes == (power_down /\ MTIP \in mie /\ Due <= MaxTime) ~> ~power_down

\* Below machine mode nothing holds an enabled timer interrupt back: it is
\* taken, after those with a lower number.
TimerIsTaken ==
    (MTIP \in mip \cap mie /\ priv < PRV_M) ~> (priv = PRV_M \/ MTIP \notin mip \cap mie)

\* The interpreter has a loop for every XLEN it is left with: "default: abort()".
XlenIsSupported == cur_xlen \in {Xlen(xl) : xl \in 1 .. MaxXl}

=============================================================================
