------------------------- MODULE RiscvMachineProofs -------------------------
(* Proofs about RiscvMachine, for every set of lines, every width of timecmp   *)
(* and every value a guest writes to the registers.                            *)
EXTENDS RiscvMachine, TLAPS

USE DEF PRV_U, PRV_S, PRV_M

-----------------------------------------------------------------------------
(* The strengthening: while a trap has not returned, its level is guarded by   *)
(* the status it saved.                                                        *)

\* A trap to the machine that has not returned: the hart is in machine mode with
\* its interrupts off, and MPP and MPIE are what was interrupted.
MachineTrapIsSaved ==
    saved[PRV_M] # NoTrap =>
        /\ priv = PRV_M
        /\ ~mstatus.ie[PRV_M]
        /\ mstatus.mpie = saved[PRV_M].ie
        /\ mstatus.mpp = saved[PRV_M].priv

\* A trap to the supervisor that has not returned: the hart has not gone back
\* to user mode.
SupervisorTrapIsSaved ==
    saved[PRV_S] # NoTrap =>
        /\ priv \in {PRV_S, PRV_M}
        /\ ~mstatus.ie[PRV_S]
        /\ mstatus.spie = saved[PRV_S].ie
        /\ mstatus.spp = saved[PRV_S].priv

\* A trap to the machine inside one to the supervisor came from the
\* supervisor's handler, where interrupts are off, or from the machine.
TrapsNest ==
    (saved[PRV_S] # NoTrap /\ saved[PRV_M] # NoTrap) =>
        \/ saved[PRV_M].priv = PRV_M
        \/ saved[PRV_M].priv = PRV_S /\ ~saved[PRV_M].ie

TrapInv == MachineTrapIsSaved /\ SupervisorTrapIsSaved /\ TrapsNest

-----------------------------------------------------------------------------
(* Types.                                                                      *)

\* The type of the hart's part of the state.
HartTypeOK ==
    /\ priv \in 0 .. 3
    /\ mstatus \in Mstatus
    /\ mxl \in 1 .. MaxXl
    /\ cur_xlen \in {Xlen(xl) : xl \in 0 .. 3}
    /\ mip \subseteq Irqs
    /\ mie \subseteq Irqs \ {MEIP}
    /\ mideleg \subseteq {SSIP, STIP, SEIP}
    /\ power_down \in BOOLEAN
    /\ block \in BOOLEAN
    /\ saved \in [{PRV_S, PRV_M} -> [priv : 0 .. 3, ie : BOOLEAN] \cup {NoTrap}]
    /\ seip_written \in BOOLEAN

\* A change of privilege leaves one of the XLENs.
LEMMA SetPrivType ==
    ASSUME HartTypeOK, mstatus' \in Mstatus, NEW p \in 0 .. 3, SetPriv(p)
    PROVE  priv' \in 0 .. 3 /\ cur_xlen' \in {Xlen(xl) : xl \in 0 .. 3}
  <1>1. mstatus'.sxl \in 0 .. 3 /\ mstatus'.uxl \in 0 .. 3
    BY DEF Mstatus
  <1>2. mxl \in 0 .. 3
    BY HartAssumption DEF HartTypeOK
  <1>3. CASE p = priv
    BY <1>3 DEF SetPriv, HartTypeOK
  <1>4. CASE p # priv
    <2>1. CASE p = PRV_S
      BY <1>1, <1>4, <2>1 DEF SetPriv
    <2>2. CASE p = PRV_U
      BY <1>1, <1>4, <2>2 DEF SetPriv
    <2>3. CASE p # PRV_S /\ p # PRV_U
      BY <1>2, <1>4, <2>3 DEF SetPriv
    <2> QED
      BY <2>1, <2>2, <2>3
  <1> QED
    BY <1>3, <1>4

\* A trap keeps the types.
LEMMA RaiseType ==
    ASSUME HartTypeOK, NEW delegated, RaiseException(delegated)
    PROVE  HartTypeOK'
  <1>1. priv \in 0 .. 3 /\ mstatus \in Mstatus /\ mstatus.ie[priv] \in BOOLEAN
    BY DEF HartTypeOK, Mstatus
  <1>2. Handler(delegated) \in {PRV_S, PRV_M}
    BY DEF Handler
  <1>3. mstatus' \in Mstatus
    <2>1. CASE Handler(delegated) = PRV_S
      <3>1. priv \in 0 .. 1
        BY <1>1, <2>1 DEF Handler
      <3> QED
        BY <1>1, <2>1, <3>1 DEF RaiseException, Mstatus
    <2>2. CASE Handler(delegated) # PRV_S
      BY <1>1, <2>2 DEF RaiseException, Mstatus
    <2> QED
      BY <2>1, <2>2
  <1>4. priv' \in 0 .. 3 /\ cur_xlen' \in {Xlen(xl) : xl \in 0 .. 3}
    BY <1>2, <1>3, SetPrivType DEF RaiseException
  <1>5. saved' \in [{PRV_S, PRV_M} -> [priv : 0 .. 3, ie : BOOLEAN] \cup {NoTrap}]
    BY <1>1, <1>2 DEF RaiseException, HartTypeOK
  <1> QED
    BY <1>3, <1>4, <1>5 DEF RaiseException, HartTypeOK, irqVars

\* A write of mstatus keeps its type.
LEMMA SetMstatusType ==
    ASSUME mstatus \in Mstatus, NEW val \in Mstatus, SetMstatus(val)
    PROVE  mstatus' \in Mstatus
  BY DEF SetMstatus, Mstatus

\* The status of a level that returned.
LEMMA ReturnedStatus ==
    ASSUME NEW m \in Mstatus, NEW ie \in [0 .. 3 -> BOOLEAN],
           NEW b \in BOOLEAN, NEW p \in 0 .. 1
    PROVE  /\ [m EXCEPT !.ie = ie, !.spie = b, !.spp = p] \in Mstatus
           /\ [m EXCEPT !.ie = ie, !.mpie = b, !.mpp = p] \in Mstatus
  <1>1. p \in 0 .. 3
    OBVIOUS
  <1>2. [m EXCEPT !.ie = ie, !.spie = b, !.spp = p] \in Mstatus
    BY DEF Mstatus
  <1>3. [m EXCEPT !.ie = ie, !.mpie = b, !.mpp = p] \in Mstatus
    BY <1>1 DEF Mstatus
  <1> QED
    BY <1>2, <1>3

\* An instruction, or a step of the loop, keeps the types.
LEMMA HartStepType ==
    ASSUME HartTypeOK, HartStep
    PROVE  HartTypeOK'
  <1> USE DEF irqVars, xlenVars
  <1>a. NothingSaved \in [{PRV_S, PRV_M} -> [priv : 0 .. 3, ie : BOOLEAN] \cup {NoTrap}]
    BY DEF NothingSaved
  <1>1. CASE TakeInterrupt
    <2>1. PICK irq : RaiseException(irq \in mideleg)
      BY <1>1 DEF TakeInterrupt
    <2> QED
      BY <2>1, RaiseType
  <1>2. CASE Exception
    <2>1. PICK cause : RaiseException(cause \in Medeleg)
      BY <1>2 DEF Exception
    <2> QED
      BY <2>1, RaiseType
  <1>3. CASE Mret
    <2> DEFINE ie == [mstatus.ie EXCEPT ![mstatus.mpp] = mstatus.mpie]
    <2>a. mstatus \in Mstatus
      BY DEF HartTypeOK
    <2>b. mstatus.mpp \in 0 .. 3 /\ ie \in [0 .. 3 -> BOOLEAN]
      BY <2>a DEF Mstatus
    <2>c. PICK b \in BOOLEAN :
              mstatus' = [mstatus EXCEPT !.ie = ie, !.mpie = b, !.mpp = PRV_U]
      BY <1>3, Zenon DEF Mret
    <2>d. PRV_U \in 0 .. 1
      OBVIOUS
    <2>1. mstatus.mpp \in 0 .. 3 /\ mstatus' \in Mstatus
      <3> HIDE DEF ie
      <3> QED
        BY <2>a, <2>b, <2>c, <2>d, ReturnedStatus
    <2>2. priv' \in 0 .. 3 /\ cur_xlen' \in {Xlen(xl) : xl \in 0 .. 3}
      BY <1>3, <2>1, SetPrivType DEF Mret
    <2> QED
      BY <1>3, <1>a, <2>1, <2>2 DEF Mret, HartTypeOK
  <1>4. CASE Sret
    <2> DEFINE ie == [mstatus.ie EXCEPT ![mstatus.spp] = mstatus.spie]
    <2>a. mstatus \in Mstatus
      BY DEF HartTypeOK
    <2>b. mstatus.spp \in 0 .. 3 /\ ie \in [0 .. 3 -> BOOLEAN]
      BY <2>a DEF Mstatus
    <2>c. PICK b \in BOOLEAN :
              mstatus' = [mstatus EXCEPT !.ie = ie, !.spie = b, !.spp = PRV_U]
      BY <1>4, Zenon DEF Sret
    <2>d. PRV_U \in 0 .. 1
      OBVIOUS
    <2>1. mstatus.spp \in 0 .. 3 /\ mstatus' \in Mstatus
      <3> HIDE DEF ie
      <3> QED
        BY <2>a, <2>b, <2>c, <2>d, ReturnedStatus
    <2>2. priv' \in 0 .. 3 /\ cur_xlen' \in {Xlen(xl) : xl \in 0 .. 3}
      BY <1>4, <2>1, SetPrivType DEF Sret
    <2> QED
      BY <1>4, <1>a, <2>1, <2>2 DEF Sret, HartTypeOK
  <1>5. CASE \E val \in MstatusVals : WriteMstatus(val)
    <2>1. PICK val \in MstatusVals : WriteMstatus(val)
      BY <1>5
    <2>2. mstatus' \in Mstatus
      BY <2>1, HartAssumption, SetMstatusType DEF WriteMstatus, HartTypeOK
    <2> QED
      BY <1>a, <2>1, <2>2 DEF WriteMstatus, HartTypeOK
  <1>6. CASE \E val \in MstatusVals : WriteSstatus(val)
    <2>1. PICK val \in MstatusVals : WriteSstatus(val)
      BY <1>6
    <2> DEFINE new == [mstatus EXCEPT !.ie[PRV_U] = val.ie[PRV_U], !.ie[PRV_S] = val.ie[PRV_S],
                                      !.spie = val.spie, !.spp = val.spp, !.uxl = val.uxl]
    <2> DEFINE ie == [mstatus.ie EXCEPT ![PRV_U] = val.ie[PRV_U], ![PRV_S] = val.ie[PRV_S]]
    <2>a. mstatus \in Mstatus /\ val \in Mstatus
      BY HartAssumption DEF HartTypeOK
    <2>b. ie \in [0 .. 3 -> BOOLEAN]
      BY <2>a DEF Mstatus
    <2>c. new = [mstatus EXCEPT !.ie = ie, !.spie = val.spie, !.spp = val.spp, !.uxl = val.uxl]
      OBVIOUS
    <2>2. new \in Mstatus
      <3> HIDE DEF new, ie
      <3> QED
        BY <2>a, <2>b, <2>c DEF Mstatus
    <2>3. SetMstatus(new)
      BY <2>1 DEF WriteSstatus
    <2>4. mstatus' \in Mstatus
      <3> HIDE DEF new
      <3> QED
        BY <2>2, <2>3, SetMstatusType DEF HartTypeOK
    <2> QED
      BY <1>a, <2>1, <2>4 DEF WriteSstatus, HartTypeOK
  <1>7. CASE \E val \in MxlVals : WriteMisa(val)
    BY <1>7, HartAssumption DEF WriteMisa, HartTypeOK
  <1>8. CASE \/ \E val \in MieVals : WriteMie(val) \/ WriteSie(val)
             \/ \E val \in MidelegVals : WriteMideleg(val)
    <2>1. \A val \in MieVals : val \subseteq Irqs
      BY HartAssumption
    <2>2. MEIP \notin mideleg
      BY DEF HartTypeOK, MEIP, SSIP, STIP, SEIP
    <2>3. CASE \E val \in MieVals : WriteMie(val)
      BY <2>1, <2>3 DEF WriteMie, HartTypeOK
    <2>4. CASE \E val \in MieVals : WriteSie(val)
      BY <2>1, <2>2, <2>4 DEF WriteSie, HartTypeOK
    <2>5. CASE \E val \in MidelegVals : WriteMideleg(val)
      BY <2>5, HartAssumption DEF WriteMideleg, HartTypeOK
    <2> QED
      BY <1>8, <2>3, <2>4, <2>5
  <1>9. CASE \E val \in MipVals : WriteMip(val) \/ WriteSip(val)
    <2>1. {SSIP, STIP} \subseteq Irqs
      BY DEF Irqs
    <2>2. CASE \E val \in MipVals : WriteMip(val)
      BY <2>1, <2>2 DEF WriteMip, HartTypeOK
    <2>3. CASE \E val \in MipVals : WriteSip(val)
      <3>1. PICK val \in MipVals : WriteSip(val)
        BY <2>3
      <3>2. mip' \subseteq Irqs
        BY <3>1, HartAssumption DEF WriteSip, HartTypeOK
      <3>3. seip_written' \in BOOLEAN
        BY <3>1, Zenon DEF WriteSip, HartTypeOK
      <3> QED
        BY <3>1, <3>2, <3>3 DEF WriteSip, HartTypeOK
    <2> QED
      BY <1>9, <2>2, <2>3
  <1>10. CASE StartBlock \/ EndBlock \/ Wfi
    BY <1>10 DEF StartBlock, EndBlock, Wfi, HartTypeOK
  <1> QED
    BY <1>1, <1>2, <1>3, <1>4, <1>5, <1>6, <1>7, <1>8, <1>9, <1>10 DEF HartStep

LEMMA InitType == Init => TypeOK
  <1> SUFFICES ASSUME Init PROVE TypeOK
    OBVIOUS
  <1>1. mstatus \in Mstatus
    BY HartAssumption DEF Init, HartInit, Mstatus
  <1>2. cur_xlen \in {Xlen(xl) : xl \in 0 .. 3}
    BY HartAssumption DEF Init, HartInit
  <1>3. saved \in [{PRV_S, PRV_M} -> [priv : 0 .. 3, ie : BOOLEAN] \cup {NoTrap}]
    BY DEF Init, HartInit, NothingSaved
  <1>4. timecmp \in [low : 0 .. Half - 1, high : 0 .. Half - 1]
    BY MachineAssumption DEF Init
  <1>b. power_down \in BOOLEAN /\ block \in BOOLEAN /\ seip_written \in BOOLEAN
    BY Zenon DEF Init, HartInit
  <1>5. HartTypeOK
    BY <1>b, <1>1, <1>2, <1>3, HartAssumption DEF Init, HartInit, HartTypeOK
  <1> QED
    BY <1>4, <1>5 DEF Init, HartTypeOK, TypeOK, Phases

\* The interrupt inputs keep the type of mip.
LEMMA InputType ==
    ASSUME TypeOK, NEW mask \in SUBSET Irqs, SetMip(mask) \/ ResetMip(mask)
    PROVE  mip' \subseteq Irqs /\ power_down' \in BOOLEAN
  BY DEF SetMip, ResetMip, TypeOK

LEMMA NextType == TypeOK /\ [Next]_vars => TypeOK'
  <1> SUFFICES ASSUME TypeOK, [Next]_vars PROVE TypeOK'
    OBVIOUS
  <1> USE DEF hartVars, hartRest, xlenVars, irqVars, clintVars, plicVars
  <1>a. {MTIP} \in SUBSET Irqs /\ {MEIP, SEIP} \in SUBSET Irqs
    BY DEF Irqs
  <1>b. Halves \subseteq 0 .. Half - 1
    BY MachineAssumption
  <1>1. CASE Hart
    <2>1. HartTypeOK
      BY DEF TypeOK, HartTypeOK
    <2>2. HartTypeOK'
      BY <1>1, <2>1, HartStepType DEF Hart
    <2> QED
      BY <1>1, <2>2 DEF Hart, TypeOK, HartTypeOK
  <1>2. CASE \E val \in Halves : WriteTimecmpLow(val) \/ WriteTimecmpHigh(val)
    <2>1. mip' \subseteq Irqs /\ power_down' \in BOOLEAN
      BY <1>2, <1>a, InputType DEF WriteTimecmpLow, WriteTimecmpHigh
    <2>2. timecmp' \in [low : 0 .. Half - 1, high : 0 .. Half - 1]
      <3>1. 0 \in 0 .. Half - 1
        BY MachineAssumption
      <3>2. CASE \E val \in Halves : WriteTimecmpLow(val)
        BY <1>b, <3>1, <3>2 DEF WriteTimecmpLow
      <3>3. CASE \E val \in Halves : WriteTimecmpHigh(val)
        BY <1>b, <3>3 DEF WriteTimecmpHigh, TypeOK
      <3> QED
        BY <1>2, <3>2, <3>3
    <2> QED
      BY <1>2, <2>1, <2>2 DEF WriteTimecmpLow, WriteTimecmpHigh, TypeOK
  <1>3. CASE Tick
    BY <1>3 DEF Tick, TypeOK
  <1>4. CASE \E irq \in Sources : \E up \in BOOLEAN : PlicSetIrq(irq, up)
    <2>1. mip' \subseteq Irqs /\ power_down' \in BOOLEAN
      BY <1>4, <1>a, InputType DEF PlicSetIrq, PlicUpdateMip
    <2>2. seip_written' \in BOOLEAN
      BY <1>4, Zenon DEF PlicSetIrq, PlicUpdateMip
    <2> QED
      BY <1>4, <2>1, <2>2 DEF PlicSetIrq, TypeOK
  <1>5. CASE PlicClaim
    <2>1. mip' \subseteq Irqs /\ power_down' \in BOOLEAN
      BY <1>5, <1>a, InputType DEF PlicClaim, PlicUpdateMip
    <2>2. seip_written' \in BOOLEAN
      BY <1>5, Zenon DEF PlicClaim, PlicUpdateMip
    <2> QED
      BY <1>5, <2>1, <2>2 DEF PlicClaim, TypeOK
  <1>6. CASE \E irq \in Sources : PlicComplete(irq)
    <2>1. mip' \subseteq Irqs /\ power_down' \in BOOLEAN
      BY <1>6, <1>a, InputType DEF PlicComplete, PlicUpdateMip
    <2>2. seip_written' \in BOOLEAN
      BY <1>6, Zenon DEF PlicComplete, PlicUpdateMip
    <2> QED
      BY <1>6, <2>1, <2>2 DEF PlicComplete, TypeOK
  <1>7. CASE GetSleepDuration
    <2>1. mip' \subseteq Irqs /\ power_down' \in BOOLEAN
      <3>1. CASE SetMip({MTIP})
        BY <3>1, <1>a, InputType
      <3>2. CASE UNCHANGED <<mip, power_down>>
        BY <3>2 DEF TypeOK
      <3> QED
        BY <1>7, <3>1, <3>2 DEF GetSleepDuration
    <2> QED
      BY <1>7, <2>1 DEF GetSleepDuration, TypeOK, Phases
  <1>8. CASE Interp \/ EndSlice
    BY <1>8 DEF Interp, EndSlice, TypeOK, Phases
  <1>9. CASE UNCHANGED vars
    BY <1>9 DEF vars, TypeOK
  <1> QED
    BY <1>1, <1>2, <1>3, <1>4, <1>5, <1>6, <1>7, <1>8, <1>9 DEF Next

\* Every variable keeps its type, whatever the guest writes: what set_mstatus and
\* the misa write refuse, and the masks of mie, mip and mideleg, are enough.
THEOREM TypeCorrect == Spec => []TypeOK
  BY InitType, NextType, PTL DEF Spec

-----------------------------------------------------------------------------
(* Sleep.                                                                      *)

\* Only wfi puts the hart to sleep, and every instruction finds it awake.
LEMMA HartStepSleeps ==
    ASSUME SleepsWhenIdle, HartStep
    PROVE  SleepsWhenIdle'
  <1>1. CASE TakeInterrupt \/ StartBlock
    BY <1>1 DEF TakeInterrupt, StartBlock, Awake, RaiseException, SleepsWhenIdle
  <1>2. CASE Wfi
    BY <1>2 DEF Wfi, SleepsWhenIdle, irqVars
  <1>3. CASE EndBlock
    BY <1>3 DEF EndBlock, SleepsWhenIdle, irqVars
  <1>4. CASE ~(TakeInterrupt \/ StartBlock \/ Wfi \/ EndBlock)
    <2>1. block /\ UNCHANGED power_down
      BY <1>4 DEF HartStep, Exception, RaiseException, Mret, Sret, WriteMstatus, WriteSstatus,
                  WriteMisa, WriteMie, WriteSie, WriteMideleg, WriteMip, WriteSip
    <2> QED
      BY <2>1 DEF SleepsWhenIdle
  <1> QED
    BY <1>1, <1>2, <1>3, <1>4

\* An interrupt input wakes the hart when it must.
LEMMA InputWakes ==
    ASSUME SleepsWhenIdle, NEW mask, SetMip(mask) \/ ResetMip(mask), UNCHANGED <<mie, block>>
    PROVE  SleepsWhenIdle'
  BY DEF SetMip, ResetMip, SleepsWhenIdle

LEMMA NextSleeps == SleepsWhenIdle /\ [Next]_vars => SleepsWhenIdle'
  <1> SUFFICES ASSUME SleepsWhenIdle, [Next]_vars PROVE SleepsWhenIdle'
    OBVIOUS
  <1>1. CASE Hart
    BY <1>1, HartStepSleeps DEF Hart
  <1>2. CASE \E val \in Halves : WriteTimecmpLow(val) \/ WriteTimecmpHigh(val)
    BY <1>2, InputWakes DEF WriteTimecmpLow, WriteTimecmpHigh, hartRest
  <1>3. CASE Tick \/ Interp \/ EndSlice
    BY <1>3 DEF Tick, Interp, EndSlice, hartVars, irqVars, SleepsWhenIdle
  <1>4. CASE \E irq \in Sources : \E up \in BOOLEAN : PlicSetIrq(irq, up)
    BY <1>4, InputWakes DEF PlicSetIrq, PlicUpdateMip, hartRest
  <1>5. CASE PlicClaim
    BY <1>5, InputWakes DEF PlicClaim, PlicUpdateMip, hartRest
  <1>6. CASE \E irq \in Sources : PlicComplete(irq)
    BY <1>6, InputWakes DEF PlicComplete, PlicUpdateMip, hartRest
  <1>7. CASE GetSleepDuration
    <2>1. UNCHANGED <<mie, block>>
      BY <1>7 DEF GetSleepDuration, hartRest
    <2>2. CASE SetMip({MTIP})
      BY <2>1, <2>2, InputWakes
    <2>3. CASE UNCHANGED <<mip, power_down>>
      BY <2>1, <2>3 DEF SleepsWhenIdle
    <2> QED
      BY <1>7, <2>2, <2>3 DEF GetSleepDuration
  <1>8. CASE UNCHANGED vars
    BY <1>8 DEF vars, hartVars, irqVars, SleepsWhenIdle
  <1> QED
    BY <1>1, <1>2, <1>3, <1>4, <1>5, <1>6, <1>7, <1>8 DEF Next

\* A sleeping hart never has an enabled interrupt pending: wfi looks before it
\* sleeps, riscv_cpu_set_mip wakes, and only a hart that runs enables more.
THEOREM NoWakeupIsLost == Spec => []SleepsWhenIdle
  <1>1. Init => SleepsWhenIdle
    BY DEF Init, HartInit, SleepsWhenIdle
  <1> QED
    BY <1>1, NextSleeps, PTL DEF Spec

-----------------------------------------------------------------------------
(* The timer and the external interrupts.                                      *)

\* No instruction raises the timer's interrupt or touches the machine's external
\* one, and a change of the supervisor's is noted.
LEMMA HartStepInputs ==
    ASSUME TypeOK, HartStep
    PROVE  /\ \A irq \in {MTIP, MEIP} : irq \in mip' <=> irq \in mip
           /\ seip_written => seip_written'
           /\ seip_written' \/ (SEIP \in mip' <=> SEIP \in mip)
  <1> USE DEF SSIP, STIP, MTIP, SEIP, MEIP
  <1>1. CASE \E val \in MipVals : WriteMip(val)
    BY <1>1, HartAssumption DEF WriteMip
  <1>2. CASE \E val \in MipVals : WriteSip(val)
    <2>1. mideleg \subseteq {SSIP, STIP, SEIP}
      BY DEF TypeOK
    <2>2. PICK val \in MipVals : WriteSip(val)
      BY <1>2
    <2>3. \A irq \in {MTIP, MEIP} : irq \in mip' <=> irq \in mip
      BY <2>1, <2>2 DEF WriteSip
    <2>4. seip_written' = (seip_written \/ ~(SEIP \in mip <=> SEIP \in mip'))
      BY <2>2 DEF WriteSip
    <2> QED
      BY <2>3, <2>4, Zenon
  <1>3. CASE ~(\E val \in MipVals : WriteMip(val) \/ WriteSip(val))
    <2>1. UNCHANGED <<mip, seip_written>>
      BY <1>3 DEF HartStep, TakeInterrupt, StartBlock, EndBlock, Exception, RaiseException, Mret,
                  Sret, Wfi, WriteMstatus, WriteSstatus, WriteMisa, WriteMie, WriteSie,
                  WriteMideleg, irqVars
    <2> QED
      BY <2>1
  <1> QED
    BY <1>1, <1>2, <1>3

LEMMA DueType == TypeOK => Due \in Int /\ time \in Int
  BY MachineAssumption DEF TypeOK, Due

\* Both halves of timecmp below Half make it a number below Width.
LEMMA DueBound == TypeOK => Due \in 0 .. Width - 1
  <1> SUFFICES ASSUME TypeOK PROVE Due \in 0 .. Width - 1
    OBVIOUS
  <1>1. Half \in Nat \ {0} /\ timecmp.low \in 0 .. Half - 1 /\ timecmp.high \in 0 .. Half - 1
    BY MachineAssumption DEF TypeOK
  <1>2. timecmp.high * Half >= 0 /\ timecmp.high * Half <= (Half - 1) * Half
    BY <1>1
  <1>3. (Half - 1) * Half = Half * Half - Half /\ Half * Half \in Int /\ timecmp.high * Half \in Int
    BY <1>1
  <1> QED
    BY <1>1, <1>2, <1>3 DEF Due, Width

\* A difference that is not positive is that of a time that has passed, or of
\* one that is far ahead.
LEMMA DelayPassed ==
    ASSUME TypeOK, Delay <= 0
    PROVE  time >= Due \/ 2 * Due >= Width
  <1> SUFFICES ASSUME time < Due PROVE 2 * Due >= Width
    BY DueType
  <1>1. Width \in Nat \ {0} /\ Due \in 0 .. Width - 1 /\ time \in Nat
    BY DueBound, MachineAssumption DEF Width, TypeOK
  <1>2. (Due - time) % Width = Due - time
    BY <1>1
  <1>3. CASE 2 * (Due - time) >= Width
    BY <1>1, <1>3
  <1>4. CASE 2 * (Due - time) < Width
    <2>1. Delay = Due - time
      BY <1>1, <1>2, <1>4 DEF Delay
    <2> QED
      BY <1>1, <2>1
  <1> QED
    BY <1>1, <1>3, <1>4

LEMMA NextTimer == TypeOK /\ TimerIsNotEarly /\ [Next]_vars => TimerIsNotEarly'
  <1> SUFFICES ASSUME TypeOK, TimerIsNotEarly, [Next]_vars PROVE TimerIsNotEarly'
    OBVIOUS
  <1>a. Due \in Int /\ time \in Int
    BY DueType
  <1>b. UNCHANGED timecmp => Due' = Due
    BY DEF Due
  <1>1. CASE Hart
    BY <1>1, <1>b, HartStepInputs DEF Hart, clintVars, TimerIsNotEarly, Width
  <1>2. CASE \E val \in Halves : WriteTimecmpLow(val) \/ WriteTimecmpHigh(val)
    <2>1. MTIP \notin mip'
      BY <1>2 DEF WriteTimecmpLow, WriteTimecmpHigh, ResetMip
    <2> QED
      BY <2>1 DEF TimerIsNotEarly, Width
  <1>3. CASE Tick
    <2>1. mip' = mip /\ Due' = Due /\ time' = time + 1
      BY <1>3, <1>b DEF Tick, hartVars, irqVars
    <2> QED
      BY <1>a, <2>1 DEF TimerIsNotEarly, Width
  <1>4. CASE GetSleepDuration
    <2>1. time' = time /\ Due' = Due
      BY <1>4, <1>b DEF GetSleepDuration, clintVars
    <2>2. CASE MTIP \notin mip /\ Delay <= 0
      BY <1>a, <2>1, <2>2, DelayPassed DEF TimerIsNotEarly, Width
    <2>3. CASE ~(MTIP \notin mip /\ Delay <= 0)
      BY <1>4, <2>1, <2>3 DEF GetSleepDuration, TimerIsNotEarly, Width
    <2> QED
      BY <2>2, <2>3
  <1>5. CASE \/ \E irq \in Sources : \E up \in BOOLEAN : PlicSetIrq(irq, up)
             \/ PlicClaim
             \/ \E irq \in Sources : PlicComplete(irq)
    <2>1. MTIP \in mip' <=> MTIP \in mip
      BY <1>5 DEF PlicSetIrq, PlicClaim, PlicComplete, PlicUpdateMip, SetMip, ResetMip,
                  MTIP, SEIP, MEIP
    <2>2. time' = time /\ Due' = Due
      BY <1>5, <1>b DEF PlicSetIrq, PlicClaim, PlicComplete, clintVars
    <2> QED
      BY <2>1, <2>2 DEF TimerIsNotEarly, Width
  <1>6. CASE Interp \/ EndSlice \/ UNCHANGED vars
    BY <1>6, <1>b DEF Interp, EndSlice, vars, hartVars, irqVars, clintVars, TimerIsNotEarly, Width
  <1> QED
    BY <1>1, <1>2, <1>3, <1>4, <1>5, <1>6 DEF Next

\* The timer interrupt is never pending before a timecmp of less than half of all
\* times, whatever the width of the halves and however they are written: every
\* access to timecmp withdraws it, and it is raised by the signed difference.
THEOREM TimerIsOnTime == Spec => []TimerIsNotEarly
  <1>1. Init => TimerIsNotEarly
    BY DEF Init, HartInit, TimerIsNotEarly
  <1> QED
    BY <1>1, TypeCorrect, NextTimer, PTL DEF Spec

\* plic_update_mip reports exactly the lines it is given.
LEMMA UpdateReports ==
    ASSUME PlicUpdateMip(pending', served')
    PROVE  LinesAreReported'
  BY DEF PlicUpdateMip, SetMip, ResetMip, LinesAreReported

LEMMA NextLines == TypeOK /\ LinesAreReported /\ [Next]_vars => LinesAreReported'
  <1> SUFFICES ASSUME TypeOK, LinesAreReported, [Next]_vars PROVE LinesAreReported'
    OBVIOUS
  <1>1. CASE Hart
    BY <1>1, HartStepInputs DEF Hart, plicVars, LinesAreReported
  <1>2. CASE \/ \E irq \in Sources : \E up \in BOOLEAN : PlicSetIrq(irq, up)
             \/ PlicClaim
             \/ \E irq \in Sources : PlicComplete(irq)
    <2>1. PlicUpdateMip(pending', served')
      BY <1>2 DEF PlicSetIrq, PlicClaim, PlicComplete, PlicUpdateMip
    <2> QED
      BY <2>1, UpdateReports
  <1>3. CASE \/ \E val \in Halves : WriteTimecmpLow(val) \/ WriteTimecmpHigh(val)
             \/ GetSleepDuration
    <2>1. (\A irq \in {MEIP, SEIP} : irq \in mip' <=> irq \in mip) /\ UNCHANGED seip_written
      BY <1>3 DEF WriteTimecmpLow, WriteTimecmpHigh, GetSleepDuration, SetMip, ResetMip,
                  MTIP, SEIP, MEIP
    <2>2. UNCHANGED plicVars
      BY <1>3 DEF WriteTimecmpLow, WriteTimecmpHigh, GetSleepDuration
    <2> QED
      BY <2>1, <2>2 DEF plicVars, LinesAreReported
  <1>4. CASE Tick \/ Interp \/ EndSlice \/ UNCHANGED vars
    BY <1>4 DEF Tick, Interp, EndSlice, vars, hartVars, irqVars, plicVars, LinesAreReported
  <1> QED
    BY <1>1, <1>2, <1>3, <1>4 DEF Next

\* MEIP follows the lines that are up and not claimed, for every set of lines and
\* every value the guest writes to mip and sip, and SEIP does but for a change that
\* the guest itself makes in sip.
THEOREM NoLineIsLost == Spec => []LinesAreReported
  <1>1. Init => LinesAreReported
    BY DEF Init, HartInit, LinesAreReported
  <1> QED
    BY <1>1, TypeCorrect, NextLines, PTL DEF Spec

-----------------------------------------------------------------------------
(* Traps and returns.                                                          *)

\* What has been saved is the hart's status, its enable bits a function.
LEMMA StatusType ==
    ASSUME TypeOK
    PROVE  /\ priv \in 0 .. 3
           /\ DOMAIN mstatus = {"ie", "spie", "mpie", "spp", "mpp", "uxl", "sxl"}
           /\ mstatus = [ie |-> mstatus.ie, spie |-> mstatus.spie, mpie |-> mstatus.mpie,
                         spp |-> mstatus.spp, mpp |-> mstatus.mpp, uxl |-> mstatus.uxl,
                         sxl |-> mstatus.sxl]
           /\ mstatus.ie \in [0 .. 3 -> BOOLEAN]
           /\ mstatus.spp \in 0 .. 1 /\ mstatus.mpp \in 0 .. 3
           /\ DOMAIN saved = {PRV_S, PRV_M}
  BY DEF TypeOK, Mstatus

LEMMA NothingInv == saved' = NothingSaved => TrapInv'
  BY DEF NothingSaved, TrapInv, MachineTrapIsSaved, SupervisorTrapIsSaved, TrapsNest

\* A trap to the machine saves the status, and keeps what the supervisor saved.
LEMMA MachineTrapInv ==
    ASSUME TypeOK, TrapInv, NEW delegated, RaiseException(delegated),
           Handler(delegated) = PRV_M
    PROVE  TrapInv'
  <1>1. /\ mstatus' = [mstatus EXCEPT !.mpie = mstatus.ie[priv], !.mpp = priv, !.ie[PRV_M] = FALSE]
        /\ priv' = PRV_M
        /\ saved' = [saved EXCEPT ![PRV_M] = [priv |-> priv, ie |-> mstatus.ie[priv]]]
    BY DEF RaiseException, SetPriv
  <1>2. /\ mstatus'.mpie = mstatus.ie[priv] /\ mstatus'.mpp = priv
        /\ ~mstatus'.ie[PRV_M] /\ mstatus'.ie[PRV_S] = mstatus.ie[PRV_S]
        /\ mstatus'.spie = mstatus.spie /\ mstatus'.spp = mstatus.spp
    BY <1>1, StatusType
  <1>3. saved'[PRV_M] = [priv |-> priv, ie |-> mstatus.ie[priv]] /\ saved'[PRV_S] = saved[PRV_S]
    BY <1>1, StatusType
  <1>4. MachineTrapIsSaved'
    BY <1>1, <1>2, <1>3 DEF MachineTrapIsSaved
  <1>5. SupervisorTrapIsSaved'
    BY <1>1, <1>2, <1>3 DEF SupervisorTrapIsSaved, TrapInv
  <1>6. TrapsNest'
    BY <1>3 DEF TrapsNest, TrapInv, SupervisorTrapIsSaved
  <1> QED
    BY <1>4, <1>5, <1>6 DEF TrapInv

\* A trap to the supervisor comes from below the machine, so no trap to the
\* machine is open.
LEMMA SupervisorTrapInv ==
    ASSUME TypeOK, TrapInv, NEW delegated, RaiseException(delegated),
           Handler(delegated) = PRV_S
    PROVE  TrapInv'
  <1>1. /\ mstatus' = [mstatus EXCEPT !.spie = mstatus.ie[priv], !.spp = priv, !.ie[PRV_S] = FALSE]
        /\ priv' = PRV_S
        /\ saved' = [saved EXCEPT ![PRV_S] = [priv |-> priv, ie |-> mstatus.ie[priv]]]
    BY DEF RaiseException, SetPriv
  <1>2. saved[PRV_M] = NoTrap
    BY DEF Handler, TrapInv, MachineTrapIsSaved
  <1>3. /\ mstatus'.spie = mstatus.ie[priv] /\ mstatus'.spp = priv
        /\ ~mstatus'.ie[PRV_S]
    BY <1>1, StatusType
  <1>4. saved'[PRV_S] = [priv |-> priv, ie |-> mstatus.ie[priv]] /\ saved'[PRV_M] = NoTrap
    BY <1>1, <1>2, StatusType
  <1> QED
    BY <1>1, <1>3, <1>4 DEF TrapInv, MachineTrapIsSaved, SupervisorTrapIsSaved, TrapsNest

LEMMA RaiseInv ==
    ASSUME TypeOK, TrapInv, NEW delegated, RaiseException(delegated)
    PROVE  TrapInv'
  <1>1. Handler(delegated) = PRV_S \/ Handler(delegated) = PRV_M
    BY DEF Handler
  <1> QED
    BY <1>1, MachineTrapInv, SupervisorTrapInv

\* The return of a trap to the machine finds what was interrupted; a trap to the
\* supervisor that is still open stays guarded.
LEMMA MretInv ==
    ASSUME TypeOK, TrapInv, Mret
    PROVE  /\ TrapInv'
           /\ saved[PRV_M] # NoTrap =>
                  priv' = saved[PRV_M].priv /\ mstatus'.ie[priv'] = saved[PRV_M].ie
  <1>1. /\ mstatus' = [mstatus EXCEPT !.ie[mstatus.mpp] = mstatus.mpie, !.mpie = TRUE,
                                      !.mpp = PRV_U]
        /\ priv' = mstatus.mpp
    BY DEF Mret, SetPriv
  <1>2. /\ mstatus'.ie[mstatus.mpp] = mstatus.mpie
        /\ \A p \in 0 .. 3 : p # mstatus.mpp => mstatus'.ie[p] = mstatus.ie[p]
        /\ mstatus'.spie = mstatus.spie /\ mstatus'.spp = mstatus.spp
    BY <1>1, StatusType
  <1>3. CASE saved[PRV_M] = NoTrap
    BY <1>3, NothingInv DEF Mret
  <1>4. CASE saved[PRV_M] # NoTrap
    <2>1. mstatus.mpp = saved[PRV_M].priv /\ mstatus.mpie = saved[PRV_M].ie
      BY <1>4 DEF TrapInv, MachineTrapIsSaved
    <2>2. saved'[PRV_M] = NoTrap /\ saved'[PRV_S] = saved[PRV_S]
      BY <1>4, StatusType DEF Mret
    <2>3. ASSUME saved[PRV_S] # NoTrap
          PROVE  /\ priv' \in {PRV_S, PRV_M} /\ ~mstatus'.ie[PRV_S]
                 /\ mstatus.spie = saved[PRV_S].ie /\ mstatus.spp = saved[PRV_S].priv
      <3>1. \/ saved[PRV_M].priv = PRV_M
            \/ saved[PRV_M].priv = PRV_S /\ ~saved[PRV_M].ie
        BY <1>4, <2>3 DEF TrapInv, TrapsNest
      <3>2. /\ ~mstatus.ie[PRV_S]
            /\ mstatus.spie = saved[PRV_S].ie /\ mstatus.spp = saved[PRV_S].priv
        BY <2>3 DEF TrapInv, SupervisorTrapIsSaved
      <3>3. CASE saved[PRV_M].priv = PRV_M
        BY <1>1, <1>2, <2>1, <3>2, <3>3
      <3>4. CASE saved[PRV_M].priv = PRV_S /\ ~saved[PRV_M].ie
        BY <1>1, <1>2, <2>1, <3>2, <3>4
      <3> QED
        BY <3>1, <3>3, <3>4
    <2> QED
      BY <1>1, <1>2, <2>1, <2>2, <2>3
         DEF TrapInv, MachineTrapIsSaved, SupervisorTrapIsSaved, TrapsNest
  <1> QED
    BY <1>3, <1>4

LEMMA SretInv ==
    ASSUME TypeOK, TrapInv, Sret
    PROVE  /\ TrapInv'
           /\ (priv = PRV_S /\ saved[PRV_S] # NoTrap) =>
                  priv' = saved[PRV_S].priv /\ mstatus'.ie[priv'] = saved[PRV_S].ie
  <1>1. /\ mstatus' = [mstatus EXCEPT !.ie[mstatus.spp] = mstatus.spie, !.spie = TRUE,
                                      !.spp = PRV_U]
        /\ priv' = mstatus.spp
    BY DEF Sret, SetPriv
  <1>2. mstatus'.ie[mstatus.spp] = mstatus.spie
    BY <1>1, StatusType
  <1>3. CASE priv = PRV_M
    BY <1>3, NothingInv DEF Sret
  <1>4. CASE priv # PRV_M
    <2>1. saved[PRV_M] = NoTrap
      BY <1>4 DEF TrapInv, MachineTrapIsSaved
    <2>2. saved'[PRV_S] = NoTrap /\ saved'[PRV_M] = NoTrap
      BY <1>4, <2>1, StatusType DEF Sret
    <2> QED
      BY <1>1, <1>2, <2>2 DEF TrapInv, MachineTrapIsSaved, SupervisorTrapIsSaved, TrapsNest
  <1> QED
    BY <1>3, <1>4

LEMMA NextTrap == TypeOK /\ TrapInv /\ [Next]_vars => TrapInv'
  <1> SUFFICES ASSUME TypeOK, TrapInv, [Next]_vars PROVE TrapInv'
    OBVIOUS
  <1>1. CASE Hart /\ TakeInterrupt
    <2>1. PICK irq : RaiseException(irq \in mideleg)
      BY <1>1 DEF TakeInterrupt
    <2> QED
      BY <2>1, RaiseInv
  <1>2. CASE Hart /\ Exception
    <2>1. PICK cause : RaiseException(cause \in Medeleg)
      BY <1>2 DEF Exception
    <2> QED
      BY <2>1, RaiseInv
  <1>3. CASE Hart /\ Mret
    BY <1>3, MretInv
  <1>4. CASE Hart /\ Sret
    BY <1>4, SretInv
  <1>5. CASE Hart /\ \E val \in MstatusVals : WriteMstatus(val) \/ WriteSstatus(val)
    BY <1>5, NothingInv DEF WriteMstatus, WriteSstatus
  <1>6. CASE ~(/\ Hart
               /\ \/ TakeInterrupt \/ Exception \/ Mret \/ Sret
                  \/ \E val \in MstatusVals : WriteMstatus(val) \/ WriteSstatus(val))
    <2>1. UNCHANGED <<priv, mstatus, saved>>
      BY <1>6 DEF Next, Hart, HartStep, StartBlock, EndBlock, Wfi, WriteMisa, WriteMie, WriteSie,
                  WriteMideleg, WriteMip, WriteSip, WriteTimecmpLow, WriteTimecmpHigh, Tick,
                  PlicSetIrq, PlicClaim, PlicComplete, GetSleepDuration, Interp, EndSlice,
                  hartRest, hartVars, vars
    <2> QED
      BY <2>1 DEF TrapInv, MachineTrapIsSaved, SupervisorTrapIsSaved, TrapsNest
  <1> QED
    BY <1>1, <1>2, <1>3, <1>4, <1>5, <1>6

\* The strengthening holds: what a trap saved stays in mstatus, and the enable bit
\* of its level stays clear, until the return (raise_exception2, handle_mret).
THEOREM TrapsAreSaved == Spec => []TrapInv
  <1>1. Init => TrapInv
    BY DEF Init, HartInit, NothingSaved, TrapInv, MachineTrapIsSaved, SupervisorTrapIsSaved,
           TrapsNest
  <1> QED
    BY <1>1, TypeCorrect, NextTrap, PTL DEF Spec

\* mret and sret give back what their trap interrupted, through any nesting.
THEOREM ReturnsAreRight == Spec => ReturnsRestore
  <1> DEFINE Restores ==
        /\ (Mret /\ saved[PRV_M] # NoTrap) =>
              /\ priv' = saved[PRV_M].priv
              /\ mstatus'.ie[priv'] = saved[PRV_M].ie
        /\ (Sret /\ priv = PRV_S /\ saved[PRV_S] # NoTrap) =>
              /\ priv' = saved[PRV_S].priv
              /\ mstatus'.ie[priv'] = saved[PRV_S].ie
  <1>1. TypeOK /\ TrapInv /\ [Next]_vars => [Restores]_vars
    BY MretInv, SretInv
  <1>2. [][Restores]_vars => ReturnsRestore
    BY DEF ReturnsRestore
  <1> QED
    BY <1>1, <1>2, TypeCorrect, TrapsAreSaved, PTL DEF Spec

\* While a handler has not returned, interrupts of its level are off: none is
\* taken that would overwrite what it saved.
THEOREM HandlersKeepWhatTheySaved == Spec => HandlersAreNotReentered
  <1>1. TypeOK /\ TrapInv /\ [Next]_vars => [TakeInterrupt => saved[priv'] = NoTrap]_vars
    <2> SUFFICES ASSUME TypeOK, TrapInv, TakeInterrupt PROVE saved[priv'] = NoTrap
      OBVIOUS
    <2>1. PICK irq \in PendingIrqs : RaiseException(irq \in mideleg)
      BY DEF TakeInterrupt
    <2>2. priv' = Handler(irq \in mideleg)
      BY <2>1 DEF RaiseException, SetPriv
    <2>3. irq \in Enabled
      BY DEF PendingIrqs
    <2>4. CASE priv <= PRV_S /\ irq \in mideleg
      <3>1. priv' = PRV_S
        BY <2>2, <2>4 DEF Handler
      <3>2. priv = PRV_S => mstatus.ie[PRV_S]
        BY <2>3, <2>4 DEF Enabled
      <3> QED
        BY <2>4, <3>1, <3>2 DEF TrapInv, SupervisorTrapIsSaved
    <2>5. CASE ~(priv <= PRV_S /\ irq \in mideleg)
      <3>1. priv' = PRV_M
        BY <2>2, <2>5 DEF Handler
      <3>2. priv = PRV_M => mstatus.ie[PRV_M]
        BY <2>3 DEF Enabled
      <3> QED
        BY <3>1, <3>2 DEF TrapInv, MachineTrapIsSaved
    <2> QED
      BY <2>4, <2>5
  <1> QED
    BY <1>1, TypeCorrect, TrapsAreSaved, PTL DEF Spec, HandlersAreNotReentered

=============================================================================
