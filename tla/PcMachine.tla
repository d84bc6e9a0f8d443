------------------------------ MODULE PcMachine ------------------------------
(***************************************************************************)
(* The devices of the PC around its interrupt controllers: the timer, the  *)
(* clock, the IDE drive, keyboard and mouse, and PCI devices that share a  *)
(* line (x86_machine.c, pci.c).  The main loop runs the CPU for a while    *)
(* and then the host's side of the devices, so that these come between any *)
(* two steps of the guest.                                                 *)
(*                                                                         *)
(* The CPU, which is not in the repository, takes an interrupt whenever    *)
(* the pin is up and it is not in a handler.  A guest uses one of the      *)
(* devices; it ends an interrupt in one of two ways:                       *)
(*   "mask"  as Linux does: mask the line and end the interrupt at once,   *)
(*           unmask it when the device has been served;                    *)
(*   "eoi"   end the interrupt when the device has been served.            *)
(***************************************************************************)
EXTENDS Ide, I8042

CONSTANTS
    Guests,      \* pairs of what the guest uses, "ide", "ps2", "wheel", "vmmouse",
                 \* "clock" or "pci", and its style
    pci_irqs,    \* the pins of the PCI bus -> lines
    PciDevices   \* the devices, numbered by their slots

\* The lines of the PCI bus are among those that may follow their level
\* (elcr_mask, 0xf8 and 0xde), but for the drive's; the machine takes 9 to 12.
ASSUME PciAssumption ==
    /\ pci_irqs \in [0 .. 3 -> (0 .. 15) \ {0, 1, 2, 8, 13, 14}]
    /\ PciDevices \subseteq Nat

VARIABLES
    guest, style,
    reg_c,       \* is an interrupt of the clock noted in its register C?
    irq_state,   \* pin -> the PCI devices that raise it
    unvisited,   \* the PCI devices that the handler has not visited
    cpu          \* [at, irq]: "run", or the step of the handler for irq

vars == <<pics, ideVars, ps2Vars, guest, style, reg_c, irq_state, unvisited, cpu>>

Pins == 0 .. 3
IRQ_TIMER == 0
IRQ_CLOCK == 8
SlaveIrqs == 8 .. 15
Elcr == {pci_irqs[n] : n \in Pins}

\* As the machine leaves them, and the writes of init_8259A: four bytes each,
\* then the masks.
PicsReset ==
    [m |-> pic_reset(Elcr \cap Line), s |-> pic_reset({i \in Line : i + 8 \in Elcr}), pin |-> 0]
InitWrites ==
    << <<"m", 0, 17>>, <<"m", 1, 48>>, <<"m", 1, 4>>, <<"m", 1, 1>>,
       <<"s", 0, 17>>, <<"s", 1, 56>>, <<"s", 1, 2>>, <<"s", 1, 1>>,
       <<"m", 1, 0>>, <<"s", 1, 0>> >>

Init ==
    /\ pics = pic_writes(PicsReset, InitWrites)
    /\ \E g \in Guests : guest = g[1] /\ style = g[2]
    /\ IdeInit
    /\ Ps2Init(CASE guest = "wheel" -> 4 [] guest = "vmmouse" -> 3 [] OTHER -> 0)
    /\ reg_c = FALSE
    /\ irq_state = [n \in Pins |-> {}] /\ unvisited = {}
    /\ cpu = [at |-> "run", irq |-> 0]

others == <<guest, style, cpu>>
pci == <<irq_state, unvisited>>
-----------------------------------------------------------------------------
(* The host *)

\* The timer's output is a pulse (pit_update_irq).
Tick ==
    /\ SetIrqs(<< <<IRQ_TIMER, 1>>, <<IRQ_TIMER, 0>> >>)
    /\ UNCHANGED <<ideVars, ps2Vars, reg_c, pci, others>>

\* cmos_update_irq; the line falls when register C is read.
ClockTick ==
    /\ guest = "clock"
    /\ reg_c' = TRUE
    /\ SetIrqs(<< <<IRQ_CLOCK, 1>> >>)
    /\ UNCHANGED <<ideVars, ps2Vars, pci, others>>

bus_map_irq(d) == (d - 1) % 4

\* pci_device_set_irq and i440fx_set_irq: the line is up while any device of
\* any pin that is mapped to it raises it.
PciIrq(d, level) ==
    LET pin   == bus_map_irq(d)
        state == [irq_state EXCEPT ![pin] = IF level = 1 THEN @ \cup {d} ELSE @ \ {d}]
        up    == \E n \in Pins : pci_irqs[n] = pci_irqs[pin] /\ state[n] # {}
    IN  /\ irq_state' = state
        /\ SetIrqs(<< <<pci_irqs[pin], IF up THEN 1 ELSE 0>> >>)

Raises(d) == d \in irq_state[bus_map_irq(d)]

PciEvent ==
    /\ guest = "pci"
    /\ \E d \in PciDevices : ~Raises(d) /\ PciIrq(d, 1)
    /\ UNCHANGED <<ideVars, ps2Vars, reg_c, unvisited, others>>

ide_others == <<ps2Vars, reg_c, pci>>
ps2_others == <<ideVars, reg_c, pci>>

UsesPs2 == guest \in {"ps2", "wheel", "vmmouse"}

Host ==
    \/ Tick \/ ClockTick \/ PciEvent
    \/ guest = "ide" /\ IdeEnd /\ UNCHANGED <<ide_others, others>>
    \/ UsesPs2 /\ (KeyEvent \/ MouseEvent) /\ UNCHANGED <<ps2_others, others>>
-----------------------------------------------------------------------------
(* The guest outside of its handlers *)

GuestIde ==
    /\ guest = "ide" /\ cpu.at = "run"
    /\ \/ \E c \in IdeCommands : IdeCommand(c)
       \/ IdePoll \/ IdePolling \/ ResetHigh \/ ResetLow
       \/ "disable_irq" \in ide_cmd /\ IdeData
       \/ IsWrite(ide_drv.command) /\ ide_drv.sent < drive.data_end /\ IdeData
    /\ UNCHANGED <<ide_others, others>>

GuestPs2 ==
    /\ UsesPs2 /\ cpu.at = "run"
    /\ \/ guest = "ps2" /\ (WriteKeyboard \/ WriteController \/ WriteArgument)
       \/ guest = "vmmouse" /\ (VmCommand \/ ReadWords)
    /\ UNCHANGED <<ps2_others, others>>
-----------------------------------------------------------------------------
(* Interrupts *)

TakeInterrupt ==
    /\ cpu.at = "run" /\ pics.pin = 1
    /\ LET taken == pic2_get_hard_intno(pics)
       IN  /\ pics' = taken.pics
           /\ cpu' = [at |-> IF style = "mask" THEN "entry" ELSE "serve", irq |-> taken.irq]
    /\ unvisited' = {d \in PciDevices : pci_irqs[bus_map_irq(d)] = cpu'.irq}
    /\ UNCHANGED <<ideVars, ps2Vars, reg_c, irq_state, guest, style>>

\* The write that sets or clears the line of the handler in the mask of its
\* controller.
MaskOf(irqs) == FoldLeft(LAMBDA v, i : v + IF i \in irqs THEN 2^i ELSE 0, 0,
                         [n \in 1 .. 8 |-> n - 1])
MaskWrite(masked) ==
    LET c == IF cpu.irq \in SlaveIrqs THEN "s" ELSE "m"
        i == cpu.irq % 8
    IN  <<c, 1, MaskOf(IF masked THEN pics[c].imr \cup {i} ELSE pics[c].imr \ {i})>>

\* mask_and_ack_8259A of Linux, with specific ends of interrupt.
Entry ==
    /\ cpu.at = "entry"
    /\ pics' = pic_writes(pics, IF cpu.irq \in SlaveIrqs
                                THEN << MaskWrite(TRUE), <<"s", 0, 96 + (cpu.irq % 8)>>,
                                        <<"m", 0, 98>> >>
                                ELSE << MaskWrite(TRUE), <<"m", 0, 96 + cpu.irq>> >>)
    /\ cpu' = [cpu EXCEPT !.at = "serve"]
    /\ UNCHANGED <<ideVars, ps2Vars, reg_c, pci, guest, style>>

Go(at) == cpu' = [cpu EXCEPT !.at = at] /\ UNCHANGED <<guest, style>>

\* The devices of the line: a status and one byte, a status and its data,
\* register C, or every device on the bus.
ServeClock ==
    /\ cpu.irq = IRQ_CLOCK
    /\ reg_c' = FALSE
    /\ SetIrqs(<< <<IRQ_CLOCK, 0>> >>)
    /\ Go("end")
    /\ UNCHANGED <<ideVars, ps2Vars, pci>>

ServeIde ==
    /\ cpu.irq = IRQ_IDE
    /\ IdeStatus(ide_drv.at = "wait" /\ "disable_irq" \notin ide_cmd)
    /\ Go(IF ide_drv'.at = "data" THEN "data" ELSE "end")
    /\ UNCHANGED ide_others

ServePs2 ==
    /\ cpu.irq \in {IRQ_KBD, IRQ_MOUSE} /\ UsesPs2
    /\ ReadStatus
    /\ Go(IF "obf" \in kbc.status THEN "byte" ELSE "end")
    /\ UNCHANGED ps2_others

\* It clears one device that raises the line, or finds that none does.
ServePci ==
    /\ cpu.irq \in Elcr /\ guest = "pci"
    /\ IF unvisited = {} THEN UNCHANGED <<pics, pci>> /\ Go("end")
       ELSE \E d \in unvisited :
              /\ unvisited' = unvisited \ {d}
              /\ IF Raises(d) THEN PciIrq(d, 0) ELSE UNCHANGED <<pics, irq_state>>
              /\ UNCHANGED <<guest, style, cpu>>
    /\ UNCHANGED <<ideVars, ps2Vars, reg_c>>

\* The timer, and a request that was gone when the CPU asked.
ServeNothing ==
    /\ cpu.irq \in {IRQ_TIMER, 7, 15}
    /\ Go("end")
    /\ UNCHANGED <<pics, ideVars, ps2Vars, reg_c, pci>>

Serve ==
    /\ cpu.at = "serve"
    /\ ServeClock \/ ServeIde \/ ServePs2 \/ ServePci \/ ServeNothing

ServeByte ==
    /\ cpu.at = "byte"
    /\ ReadByte
    /\ Go("end")
    /\ UNCHANGED ps2_others

ServeData ==
    /\ cpu.at = "data"
    /\ IdeData
    /\ Go(IF ide_drv'.at = "data" /\ drive'.data_index > 0 THEN "data" ELSE "end")
    /\ UNCHANGED ide_others

\* The line is unmasked, or the interrupt ended without naming the line.
End ==
    /\ cpu.at = "end"
    /\ pics' = pic_writes(pics, IF style = "mask" THEN << MaskWrite(FALSE) >>
                                ELSE IF cpu.irq \in SlaveIrqs
                                THEN << <<"s", 0, 32>>, <<"m", 0, 32>> >>
                                ELSE << <<"m", 0, 32>> >>)
    /\ cpu' = [at |-> "run", irq |-> 0]
    /\ UNCHANGED <<ideVars, ps2Vars, reg_c, pci, guest, style>>

Handler == TakeInterrupt \/ Entry \/ Serve \/ ServeByte \/ ServeData \/ End

Next == Host \/ GuestIde \/ GuestPs2 \/ Handler

\* The main loop runs the timer again and again, and the CPU.
Fairness == WF_vars(Tick) /\ WF_vars(Handler)

Spec == Init /\ [][Next]_vars /\ Fairness
-----------------------------------------------------------------------------
(* Properties *)

\* When a command has ended without error the driver has what the drive holds,
\* or the drive what the driver sent, in blocks of one or several sectors that
\* the block device served at once or later, addressed by number or by
\* cylinder, and after a reset: but for a command that was given while the block
\* device still had a request of one that a reset had given up
\* (ide_sector_read_cb, ide_sector_write_cb2, bf_rw_async1).
PioDelivers ==
    LET c == ide_drv.command
    IN  ide_drv.at = "ready" /\ ~ide_drv.overtaken =>
          CASE c.cmd \in {"READ", "MULTREAD"} -> ide_drv.got = ContentsOf(c.first, CountOf(c))
            [] IsWrite(c) -> \A i \in 0 .. CountOf(c) - 1 : disk[c.first + i] = NewData(c, i)
            [] c.cmd = "READ_NATIVE_MAX" -> ide_get_sector(drive) = NbSectors - 1
            [] OTHER -> TRUE

\* The driver waits for an interrupt, and the drive for nothing.
IdeNeedsService ==
    /\ ide_drv.at = "wait" /\ "disable_irq" \notin ide_cmd
    /\ request = NoRequest /\ ~ide_drv.overtaken

KbdNeedsService ==
    ReadFrom(kbc) \in kbc.pending /\ "kbd" \in kbc.pending
      /\ "kbd_int" \in kbc.mode /\ "disable_kbd" \notin kbc.mode

MouseNeedsService == kbc.pending = {"mouse"} /\ "mouse_int" \in kbc.mode

PciNeedsService(irq) == \E d \in PciDevices : Raises(d) /\ pci_irqs[bus_map_irq(d)] = irq

\* Outside of the handlers, whatever needs the guest's attention has its
\* request in a controller, though all but the PCI lines only latch an edge:
\* none may have been lost in the handler (pic_set_irq1, ps2_read_data,
\* pci_device_set_irq).
RequestsNotLost ==
    cpu.at = "run" =>
      /\ IdeNeedsService => IsLatched(IRQ_IDE)
      /\ KbdNeedsService => IsLatched(IRQ_KBD)
      /\ MouseNeedsService => IsLatched(IRQ_MOUSE)
      /\ reg_c => IsLatched(IRQ_CLOCK)
      /\ \A irq \in Elcr : PciNeedsService(irq) => IsLatched(irq)

\* A request does not stay in a controller, though the end of an interrupt
\* does not update the pin (pic_write): the next pulse of the timer does.  The
\* timer itself waits for every other line.
RequestsAreServed ==
    \A irq \in {IRQ_KBD, IRQ_CLOCK, IRQ_MOUSE, IRQ_IDE} :
      IsLatched(irq) ~> ~IsLatched(irq)

\* The bytes of one message, the last one read of it and those in the queue.
InStep(last, queue) ==
    LET bytes == <<last>> \o queue
    IN  /\ \A i \in 1 .. Len(bytes) - 1 :
             IF bytes[i][2] < bytes[i][3]
             THEN bytes[i + 1] = <<bytes[i][1], bytes[i][2] + 1, bytes[i][3]>>
             ELSE bytes[i + 1][2] = 1
        /\ bytes[Len(bytes)][2] = bytes[Len(bytes)][3]

\* However full its queue, a mouse sends a packet or an answer whole, and the
\* driver never loses its step.  Of the PS/2 mouse that is true until movements
\* that have added up, or an answer, do not fit in its queue, or a key is
\* pressed between a status and a byte: that byte, one of the keyboard, is then
\* taken for the mouse's (ps2_queue, ps2_mouse_event, kbd_read_data,
\* vmmouse_send_mouse_event).
StreamInStep ==
    /\ ps2_drv.fits /\ ~ps2_drv.crossed => InStep(ps2_drv.last["mouse"], kbc.mouse.queue)
    /\ InStep(ps2_drv.last["fifo"], vmmouse.fifo)
=============================================================================
