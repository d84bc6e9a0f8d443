--------------------------- MODULE PcMachineProofs ---------------------------
(***************************************************************************)
(* Theorems about PcMachine, for every geometry of the drive, any commands *)
(* of the driver that it can address, every size of the queues and every   *)
(* routing of the PCI interrupts.                                          *)
(***************************************************************************)
EXTENDS PcMachine, SequenceTheorems, TLAPS

-----------------------------------------------------------------------------
(* The inductive invariant: the interrupt controllers *)

Lines == 0 .. 15

PicType ==
    [last_irr : SUBSET Line, irr : SUBSET Line, imr : SUBSET Line, isr : SUBSET Line,
     priority_add : Line, irq_base : Int, init_state : 0 .. 3, auto_eoi : {0, 1},
     rotate_on_autoeoi : {0, 1}, init4 : {0, 1}, elcr : SUBSET Line]

\* Once they are initialised; x is the state of both.
PicOK(x) ==
    /\ x \in [m : PicType, s : PicType, pin : {0, 1}]
    /\ x.m.init_state = 0 /\ x.s.init_state = 0
    /\ x.m.elcr = {i \in Line : i \in Elcr} /\ x.s.elcr = {i \in Line : i + 8 \in Elcr}

Latched(x, irq) == IF irq < 8 THEN irq \in x.m.irr ELSE irq - 8 \in x.s.irr
Up(x, irq) == IF irq < 8 THEN irq \in x.m.last_irr ELSE irq - 8 \in x.s.last_irr

\* The line is up, and the CPU has taken its request.
Taken(x, irq) == Up(x, irq) /\ ~Latched(x, irq)

InService(irq) == cpu.irq = irq /\ cpu.at \in {"entry", "serve", "byte"}

CpuInv ==
    /\ cpu \in [at : {"run", "entry", "serve", "byte", "data", "end"}, irq : Lines]
    /\ cpu.at = "byte" =>
         guest \in {"ps2", "wheel", "vmmouse"} /\ cpu.irq \in {IRQ_KBD, IRQ_MOUSE}
    /\ unvisited \subseteq PciDevices

LinesInv ==
    /\ PicOK(pics)
    /\ \A irq \in {IRQ_KBD, IRQ_CLOCK, IRQ_MOUSE, IRQ_IDE} \cup Elcr :
         Taken(pics, irq) => InService(irq) /\ irq \notin Elcr
-----------------------------------------------------------------------------
(* The clock and the PCI devices *)

ClockInv == reg_c => Up(pics, IRQ_CLOCK)

PciInv ==
    /\ irq_state \in [Pins -> SUBSET PciDevices]
    /\ guest # "pci" => irq_state = [n \in Pins |-> {}]
    /\ \A irq \in Elcr : PciNeedsService(irq) => Latched(pics, irq)
-----------------------------------------------------------------------------
(* The keyboard, the mouse and their controller *)

Devs == {"kbd", "mouse"}
Messages ==
    {"key", "ack", "id", "por", "packet", "type", "scale", "reset", "echo", "mode", "test", "obuf"}
Bytes == Messages \X Nat \X Nat
Kbd == [queue : Seq(Bytes), write_cmd : {"none", "set_leds", "set_rate"}]
Mouse ==
    [queue : Seq(Bytes), write_cmd : {"none", "set_res", "set_sample"},
     status : SUBSET {"enabled", "remote", "scale21"}, wrap : BOOLEAN,
     type : Nat, detect_state : 0 .. 3, dx : Int, dy : Int, dz : Int, buttons : Int]

\* The state that the operators work on, with the calls they have made.
KType ==
    [kbd : Kbd, mouse : Mouse,
     write_cmd : {"none", "write_mode", "write_obuf", "write_aux_obuf", "write_mouse"},
     status : SUBSET {"obf", "mouse_obf", "selftest"},
     mode : SUBSET {"kbd_int", "mouse_int", "disable_kbd", "disable_mouse"},
     pending : SUBSET Devs,
     calls : Seq({IRQ_KBD, IRQ_MOUSE} \X {0, 1})]

\* The levels of the two lines.
KbdLevel(k) ==
    k.pending # {} /\ k.pending # {"mouse"} /\ "kbd_int" \in k.mode /\ "disable_kbd" \notin k.mode
MouseLevel(k) == k.pending = {"mouse"} /\ "mouse_int" \in k.mode

KbcInv ==
    /\ kbc \in KType /\ kbc.calls = << >>
    /\ "obf" \in kbc.status <=> kbc.pending # {}
    /\ "mouse_obf" \in kbc.status <=> kbc.pending = {"mouse"}
    /\ \A d \in kbc.pending : kbc[d].queue # << >>
    /\ IF UsesPs2 THEN /\ Up(pics, IRQ_KBD) <=> KbdLevel(kbc)
                       /\ Up(pics, IRQ_MOUSE) <=> MouseLevel(kbc)
       ELSE kbc.pending = {}
-----------------------------------------------------------------------------
(* The drive *)

Sector == {"old", "new", "id", "zero"} \X Int
Sizes == 0 .. MAX_MULT_SECTORS

DriveType ==
    [nsector : 0 .. RegSize - 1, sector : Int, lcyl : Int, hcyl : Int, lba : BOOLEAN, head : Int,
     status : SUBSET {"ready", "seek", "drq", "busy", "err"}, error : BOOLEAN,
     mult_sectors : Sizes, io_nb_sectors : Sizes, req_nb_sectors : Sizes,
     end_transfer : {"stop", "sector_read", "read_cb_end", "write_cb1", "identify_cb"},
     data_index : Nat, data_end : Sizes, io_buffer : [1 .. MAX_MULT_SECTORS -> Sector]]
DiskType == [0 .. NbSectors - 1 -> Sector]

\* The driver, when it has got what it has got.
DrvType(got) ==
    [at : {"idle", "wait", "data", "ready", "reset"}, command : IdeCommands \cup {NoCommand},
     got : {got}, sent : Nat, overtaken : BOOLEAN, commands : Nat, resets : Nat]

Requested(r) ==
    \/ r = NoRequest
    \/ r \in [is_write : BOOLEAN, sector : Nat, n : Sizes] /\ r.sector + r.n <= NbSectors

IdeTypes ==
    /\ drive \in DriveType
    /\ ide_cmd \subseteq {"reset", "disable_irq"}
    /\ disk \in DiskType
    /\ Requested(request)
    /\ ide_drv \in DrvType(ide_drv.got)

\* The registers of drive d when the driver's command c has done sectors.
AtSector(d, c, done) ==
    /\ done \in 0 .. CountOf(c)
    /\ d.lba = c.lba /\ d.nsector = (c.count - done) % RegSize
    /\ d.req_nb_sectors >= 1
    /\ done < CountOf(c) => ide_get_sector(d) = c.first + done

\* The states of a command, as its driver sees them: the drive is at work, it
\* has data to move, or it has given up.
Busy == ide_drv.at = "wait" /\ "busy" \in drive.status /\ drive.status \cap {"drq", "err"} = {}
HasDrq ==
    /\ request = NoRequest /\ "drq" \in drive.status /\ drive.status \cap {"busy", "err"} = {}
    /\ drive.data_index < drive.data_end
    /\ ide_drv.at = "wait" => drive.data_index = 0
IsIdle == ide_drv.at = "wait" /\ request = NoRequest /\ drive.status \cap {"busy", "drq"} = {}
Failed == IsIdle /\ "err" \in drive.status

\* n sectors in the buffer are those of the disk, or those that the driver sends.
Fetched(d, first, n) == \A i \in 1 .. n : d.io_buffer[i] = disk[first + i - 1]
Sending(d, c, base, n) == \A j \in 1 .. n : d.io_buffer[j] = NewData(c, base + j - 1)

ReadInv ==
    LET c == ide_drv.command
        sent == ide_drv.sent
        base == sent - drive.data_index
    IN  /\ ide_drv.got = ContentsOf(c.first, sent)
        /\ \/ /\ Busy
              /\ AtSector(drive, c, sent)
              /\ drive.io_nb_sectors \in 1 .. CountOf(c) - sent
              /\ request = [is_write |-> FALSE, sector |-> c.first + sent,
                            n |-> drive.io_nb_sectors]
           \/ /\ HasDrq
              /\ base >= 0 /\ AtSector(drive, c, base + drive.data_end)
              /\ c.first + base + drive.data_end <= NbSectors
              /\ Fetched(drive, c.first + base, drive.data_end)
              /\ drive.end_transfer = IF base + drive.data_end = CountOf(c)
                                      THEN "read_cb_end" ELSE "sector_read"
           \/ Failed

\* The first n sectors of the command have been stored.
Written(c, n) ==
    /\ c.first + n <= NbSectors
    /\ \A i \in 0 .. n - 1 : disk[c.first + i] = NewData(c, i)

WriteInv ==
    LET c == ide_drv.command
        sent == ide_drv.sent
        n == drive.io_nb_sectors
        base == sent - drive.data_index
    IN  \/ /\ Busy
           /\ sent - n >= 0 /\ AtSector(drive, c, sent - n)
           /\ n \in 1 .. CountOf(c) - (sent - n)
           /\ Written(c, sent - n)
           /\ request = [is_write |-> TRUE, sector |-> c.first + sent - n, n |-> n]
           /\ Sending(drive, c, sent - n, n)
        \/ /\ HasDrq
           /\ base >= 0 /\ AtSector(drive, c, base)
           /\ n = drive.data_end /\ n \in 1 .. CountOf(c) - base
           /\ (base > 0 => Written(c, base))
           /\ Sending(drive, c, base, drive.data_index)
           /\ drive.end_transfer = "write_cb1"
        \/ IsIdle /\ "err" \notin drive.status /\ sent = CountOf(c) /\ Written(c, sent)
        \/ Failed

OtherInv ==
    \/ /\ ide_drv.command.cmd = "IDENTIFY" /\ HasDrq
       /\ ide_drv.sent = 0 /\ drive.data_end = 1 /\ drive.end_transfer = "identify_cb"
    \/ /\ IsIdle
       /\ ide_drv.command.cmd = "READ_NATIVE_MAX" /\ "err" \notin drive.status =>
            ide_get_sector(drive) = NbSectors - 1

\* Of a command that has overtaken a request the types are all there is to say.
IdeCore ==
    /\ IdeTypes
    /\ ~ide_drv.overtaken =>
         /\ ide_drv.at = "ready" => request = NoRequest
         /\ ide_drv.at \in {"wait", "data"} =>
              /\ ide_drv.command \in IdeCommands
              /\ CASE IsWrite(ide_drv.command) -> WriteInv
                   [] ide_drv.command.cmd \in {"READ", "MULTREAD"} -> ReadInv
                   [] OTHER -> OtherInv
    /\ PioDelivers

IdeInv ==
    /\ IdeCore
    /\ guest # "ide" => ide_drv.at = "idle"
    /\ IdeNeedsService => Up(pics, IRQ_IDE)

IInv == CpuInv /\ LinesInv /\ ClockInv /\ PciInv /\ KbcInv /\ IdeInv
-----------------------------------------------------------------------------
(* The interrupt controllers *)

\* No line has changed but those of S, and that between the controllers.
SameBut(x, y, S) ==
    \A irq \in Lines \ ({2} \cup S) :
      /\ Up(y, irq) <=> Up(x, irq)
      /\ Latched(y, irq) <=> Latched(x, irq)

LEMMA MaxInLine ==
    ASSUME NEW S \in SUBSET Line, S # {} PROVE Max(S) \in S
<1>1. \E x \in S : \A y \in S : x >= y
  <2> DEFINE B(k) == S \subseteq 0 .. k
             M == \E x \in S : \A y \in S : x >= y
  <2>1. B(7)
    BY DEF Line
  <2>2. B(7) => M \/ B(6)
    <3>1. CASE 7 \in S
      BY <3>1
    <3>2. CASE 7 \notin S
      BY <3>2
    <3>3. QED
      BY <3>1, <3>2
  <2>3. B(6) => M \/ B(5)
    <3>1. CASE 6 \in S
      BY <3>1
    <3>2. CASE 6 \notin S
      BY <3>2
    <3>3. QED
      BY <3>1, <3>2
  <2>4. B(5) => M \/ B(4)
    <3>1. CASE 5 \in S
      BY <3>1
    <3>2. CASE 5 \notin S
      BY <3>2
    <3>3. QED
      BY <3>1, <3>2
  <2>5. B(4) => M \/ B(3)
    <3>1. CASE 4 \in S
      BY <3>1
    <3>2. CASE 4 \notin S
      BY <3>2
    <3>3. QED
      BY <3>1, <3>2
  <2>6. B(3) => M \/ B(2)
    <3>1. CASE 3 \in S
      BY <3>1
    <3>2. CASE 3 \notin S
      BY <3>2
    <3>3. QED
      BY <3>1, <3>2
  <2>7. B(2) => M \/ B(1)
    <3>1. CASE 2 \in S
      BY <3>1
    <3>2. CASE 2 \notin S
      BY <3>2
    <3>3. QED
      BY <3>1, <3>2
  <2>8. B(1) => M \/ B(0)
    <3>1. CASE 1 \in S
      BY <3>1
    <3>2. CASE 1 \notin S
      BY <3>2
    <3>3. QED
      BY <3>1, <3>2
  <2>9. B(0) => M
    <3>1. PICK x \in S : TRUE
      OBVIOUS
    <3>2. B(0) => \A y \in S : x >= y
      OBVIOUS
    <3>3. QED
      BY <3>2
  <2>10. QED
    BY <2>1, <2>2, <2>3, <2>4, <2>5, <2>6, <2>7, <2>8, <2>9
<1>2. QED
  BY <1>1 DEF Max

LEMMA PriorityType ==
    ASSUME NEW p \in PicType, NEW mask \in SUBSET Line
    PROVE  pic_get_priority(p, mask) \in -1 .. 7
<1> DEFINE S == {(irq - p.priority_add) % 8 : irq \in mask}
<1>1. S \subseteq Line
  BY DEF PicType, Line
<1>2. mask # {} => Max(S) \in Line
  <2>1. mask # {} => S # {}
    OBVIOUS
  <2> HIDE DEF S
  <2>2. QED
    BY <1>1, <2>1, MaxInLine
<1>3. QED
  BY <1>2 DEF pic_get_priority, Line

LEMMA RequestType ==
    ASSUME NEW p \in PicType PROVE pic_get_irq(p) \in -1 .. 7
<1>1. p.irr \ p.imr \in SUBSET Line
  BY DEF PicType
<1>2. pic_get_priority(p, p.irr \ p.imr) \in -1 .. 7
  BY <1>1, PriorityType
<1>3. QED
  BY <1>2 DEF pic_get_irq

LEMMA SetIrq1Is ==
    ASSUME NEW p \in PicType, NEW irq \in Line, NEW level \in {0, 1}
    PROVE  LET q == pic_set_irq1(p, irq, level)
           IN  /\ q \in PicType /\ q.init_state = p.init_state /\ q.elcr = p.elcr
               /\ \A i \in Line \ {irq} :
                    (i \in q.irr <=> i \in p.irr) /\ (i \in q.last_irr <=> i \in p.last_irr)
               /\ irq \in q.last_irr <=> level = 1
               /\ irq \in p.elcr => (irq \in q.irr <=> level = 1)
               /\ irq \in q.last_irr /\ irq \notin q.irr =>
                    irq \in p.last_irr /\ irq \notin p.irr
<1>1. CASE level = 1
  BY <1>1 DEF pic_set_irq1, PicType
<1>2. CASE level = 0
  BY <1>2 DEF pic_set_irq1, PicType
<1>3. QED
  BY <1>1, <1>2

LEMMA UpdateIs ==
    ASSUME NEW x, PicOK(x)
    PROVE  PicOK(pic2_update_irq(x)) /\ SameBut(x, pic2_update_irq(x), {})
<1> DEFINE m == pic_set_irq1(pic_set_irq1(x.m, 2, 1), 2, 0)
           y == IF pic_get_irq(x.s) >= 0 THEN [x EXCEPT !.m = m] ELSE x
<1>1. x \in [m : PicType, s : PicType, pin : {0, 1}]
  BY DEF PicOK
<1>2. /\ m \in PicType /\ m.init_state = x.m.init_state /\ m.elcr = x.m.elcr
      /\ \A i \in Line \ {2} :
           (i \in m.irr <=> i \in x.m.irr) /\ (i \in m.last_irr <=> i \in x.m.last_irr)
  <2> DEFINE h == pic_set_irq1(x.m, 2, 1)
  <2>1. 2 \in Line
    BY DEF Line
  <2>2. /\ h \in PicType /\ h.init_state = x.m.init_state /\ h.elcr = x.m.elcr
        /\ \A i \in Line \ {2} :
             (i \in h.irr <=> i \in x.m.irr) /\ (i \in h.last_irr <=> i \in x.m.last_irr)
    BY <1>1, <2>1, SetIrq1Is
  <2> HIDE DEF h
  <2>3. QED
    BY <2>1, <2>2, SetIrq1Is, ZenonT(60) DEF h
<1>3. pic2_update_irq(x) = PinSet(y)
  BY DEF pic2_update_irq, With
<1> HIDE DEF m
<1>4. PicOK(y) /\ SameBut(x, y, {})
  <2>1. \A irq \in Lines : (irq < 8 => irq \in Line)
    BY DEF Lines, Line
  <2>2. QED
    BY <1>1, <1>2, <2>1 DEF PicOK, SameBut, Up, Latched
<1> HIDE DEF y
<1>5. QED
  BY <1>3, <1>4 DEF PicOK, PinSet, SameBut, Up, Latched

\* A change of the level of a line: what is latched of it is lost only to a
\* line that follows the level.
LEMMA SetIrqIs ==
    ASSUME NEW x, PicOK(x), NEW irq \in Lines \ {2}, NEW level \in {0, 1}
    PROVE  LET y == pic2_set_irq(x, irq, level)
           IN  /\ PicOK(y) /\ SameBut(x, y, {irq})
               /\ Up(y, irq) <=> level = 1
               /\ irq \in Elcr => (Latched(y, irq) <=> level = 1)
               /\ Taken(y, irq) => Taken(x, irq)
<1> DEFINE m == pic_set_irq1(x.m, irq, level)
           s == pic_set_irq1(x.s, irq - 8, level)
           z == IF irq < 8 THEN [x EXCEPT !.m = m] ELSE [x EXCEPT !.s = s]
           y == pic2_set_irq(x, irq, level)
<1>1. y = pic2_update_irq(z)
  BY DEF pic2_set_irq, With
<1>2. x \in [m : PicType, s : PicType, pin : {0, 1}]
  BY DEF PicOK
<1>3. /\ irq < 8 => irq \in Line
      /\ irq >= 8 => irq - 8 \in Line
  BY DEF Lines, Line
<1>4. /\ PicOK(z) /\ SameBut(x, z, {irq})
      /\ Up(z, irq) <=> level = 1
      /\ irq \in Elcr => (Latched(z, irq) <=> level = 1)
      /\ Taken(z, irq) => Taken(x, irq)
  <2>1. CASE irq < 8
    <3>1. /\ m \in PicType /\ m.init_state = x.m.init_state /\ m.elcr = x.m.elcr
          /\ \A i \in Line \ {irq} :
               (i \in m.irr <=> i \in x.m.irr) /\ (i \in m.last_irr <=> i \in x.m.last_irr)
          /\ irq \in m.last_irr <=> level = 1
          /\ irq \in x.m.elcr => (irq \in m.irr <=> level = 1)
          /\ irq \in m.last_irr /\ irq \notin m.irr =>
               irq \in x.m.last_irr /\ irq \notin x.m.irr
      BY <1>2, <1>3, <2>1, SetIrq1Is, ZenonT(60)
    <3> HIDE DEF m
    <3>2. z = [x EXCEPT !.m = m]
      BY <2>1
    <3> HIDE DEF z
    <3>3. PicOK(z)
      BY <1>2, <3>1, <3>2 DEF PicOK
    <3>4. SameBut(x, z, {irq})
      BY <1>2, <1>3, <2>1, <3>1, <3>2 DEF SameBut, Up, Latched, Lines, Line
    <3>5. QED
      BY <1>2, <1>3, <2>1, <3>1, <3>2, <3>3, <3>4 DEF Up, Latched, Taken, PicOK
  <2>2. CASE ~(irq < 8)
    <3>1. /\ s \in PicType /\ s.init_state = x.s.init_state /\ s.elcr = x.s.elcr
          /\ \A i \in Line \ {irq - 8} :
               (i \in s.irr <=> i \in x.s.irr) /\ (i \in s.last_irr <=> i \in x.s.last_irr)
          /\ irq - 8 \in s.last_irr <=> level = 1
          /\ irq - 8 \in x.s.elcr => (irq - 8 \in s.irr <=> level = 1)
          /\ irq - 8 \in s.last_irr /\ irq - 8 \notin s.irr =>
               irq - 8 \in x.s.last_irr /\ irq - 8 \notin x.s.irr
      <4> DEFINE j == irq - 8
      <4>1. j \in Line /\ x.s \in PicType
        BY <1>2, <1>3, <2>2 DEF Lines
      <4>2. s = pic_set_irq1(x.s, j, level)
        OBVIOUS
      <4> HIDE DEF s, j
      <4>3. /\ s \in PicType /\ s.init_state = x.s.init_state /\ s.elcr = x.s.elcr
            /\ \A i \in Line \ {j} :
                 (i \in s.irr <=> i \in x.s.irr) /\ (i \in s.last_irr <=> i \in x.s.last_irr)
            /\ j \in s.last_irr <=> level = 1
            /\ j \in x.s.elcr => (j \in s.irr <=> level = 1)
            /\ j \in s.last_irr /\ j \notin s.irr => j \in x.s.last_irr /\ j \notin x.s.irr
        BY <4>1, <4>2, SetIrq1Is, ZenonT(60)
      <4>4. QED
        BY <4>3 DEF j
    <3> HIDE DEF s
    <3>2. z = [x EXCEPT !.s = s]
      BY <2>2
    <3> HIDE DEF z
    <3>3. PicOK(z)
      BY <1>2, <3>1, <3>2 DEF PicOK
    <3>4. SameBut(x, z, {irq})
      BY <1>2, <1>3, <2>2, <3>1, <3>2 DEF SameBut, Up, Latched, Lines, Line
    <3>5. irq \in Elcr => irq - 8 \in x.s.elcr
      BY <1>3, <2>2 DEF PicOK, Lines
    <3>6. QED
      BY <1>2, <1>3, <2>2, <3>1, <3>2, <3>3, <3>4, <3>5 DEF Up, Latched, Taken
  <2>3. QED
    BY <2>1, <2>2
<1> HIDE DEF z
<1>5. PicOK(y) /\ SameBut(z, y, {})
  BY <1>1, <1>4, UpdateIs
<1> HIDE DEF y
<1>6. QED
  BY <1>4, <1>5 DEF SameBut, Taken, y

\* Writes of the guest, once the controllers are initialised: a mask, or the
\* end of an interrupt.
GuestWrite(w) ==
    /\ w[1] \in {"m", "s"} /\ w[2] \in {0, 1}
    /\ w[2] = 0 => w[3] \in (96 .. 103) \cup {32}

LEMMA WriteIs ==
    ASSUME NEW x, PicOK(x), NEW w, GuestWrite(w)
    PROVE  LET y == pic_write(x, w) IN PicOK(y) /\ SameBut(x, y, {})
<1> DEFINE y == pic_write(x, w)
           c == w[1]
           reg == w[2]
           val == w[3]
<1> SUFFICES PicOK(y) /\ SameBut(x, y, {})
  OBVIOUS
<1>5. c \in {"m", "s"} /\ reg \in {0, 1} /\ (reg = 0 => val \in (96 .. 103) \cup {32})
  BY DEF GuestWrite
<1>6. /\ reg = 0 => y = [x EXCEPT ![c] = CommandWritten(x[c], val)]
      /\ reg = 1 /\ x[c].init_state = 0 =>
           y = pic2_update_irq([x EXCEPT ![c] = DataWritten(x[c], val)])
  <2>1. CASE reg = 0
    BY <2>1 DEF pic_write
  <2>2. CASE reg = 1 /\ x[c].init_state = 0
    <3>1. y = With([x EXCEPT ![c] = DataWritten(x[c], val)], pic2_update_irq)
      BY <2>2 DEF pic_write
    <3> DEFINE z == [x EXCEPT ![c] = DataWritten(x[c], val)]
    <3> HIDE DEF z
    <3>2. With(z, pic2_update_irq) = pic2_update_irq(z)
      BY DEF With
    <3>3. QED
      BY <2>2, <3>1, <3>2 DEF z
  <2>3. QED
    BY <2>1, <2>2
<1> HIDE DEF c, reg, val, y
<1>1. x \in [m : PicType, s : PicType, pin : {0, 1}] /\ x[c] \in PicType /\ x[c].init_state = 0
  BY <1>5 DEF PicOK
<1>2. CASE reg = 1
  <2> DEFINE z == [x EXCEPT ![c] = DataWritten(x[c], val)]
  <2>1. y = pic2_update_irq(z)
    BY <1>1, <1>2, <1>6
  <2>2. DataWritten(x[c], val) = [x[c] EXCEPT !.imr = Bits(val)]
    BY <1>1 DEF DataWritten
  <2>3. Bits(val) \subseteq Line
    BY DEF Bits
  <2>4. PicOK(z) /\ SameBut(x, z, {})
    BY <1>1, <1>5, <2>2, <2>3, SMTT(40) DEF PicOK, SameBut, Up, Latched, PicType
  <2> HIDE DEF z
  <2>5. PicOK(y) /\ SameBut(z, y, {})
    BY <2>1, <2>4, UpdateIs
  <2>6. QED
    BY <2>4, <2>5 DEF SameBut
<1>3. CASE reg = 0
  <2> DEFINE q == CommandWritten(x[c], val)
  <2>1. y = [x EXCEPT ![c] = q]
    BY <1>3, <1>6
  <2>2. /\ q \in PicType /\ q.init_state = x[c].init_state /\ q.elcr = x[c].elcr
        /\ q.irr = x[c].irr /\ q.last_irr = x[c].last_irr
    <3>1. CASE val = 32
      <4>1. ~HasBit(val, 4) /\ ~HasBit(val, 3)
        BY <3>1 DEF HasBit
      <4>2. q = EndOfInterrupt(x[c])
        BY <3>1, <4>1 DEF CommandWritten
      <4>3. QED
        BY <1>1, <4>2 DEF EndOfInterrupt, PicType
    <3>2. CASE val \in 96 .. 103
      <4>1. ~HasBit(val, 4) /\ ~HasBit(val, 3)
        BY <3>2 DEF HasBit
      <4>2. q = [x[c] EXCEPT !.isr = @ \ {val % 8}]
        BY <3>2, <4>1 DEF CommandWritten
      <4>3. QED
        BY <1>1, <4>2 DEF PicType
    <3>3. QED
      BY <1>3, <1>5, <3>1, <3>2
  <2> HIDE DEF q
  <2>3. CASE c = "m"
    BY <1>1, <2>1, <2>2, <2>3 DEF PicOK, SameBut, Up, Latched
  <2>4. CASE c = "s"
    BY <1>1, <2>1, <2>2, <2>4 DEF PicOK, SameBut, Up, Latched
  <2>5. QED
    BY <1>5, <2>3, <2>4
<1>4. QED
  BY <1>2, <1>3, <1>5

\* The CPU takes the request of one line, and no other.
LEMMA AcknowledgeIs ==
    ASSUME NEW x, PicOK(x)
    PROVE  LET taken == pic2_get_hard_intno(x)
           IN  /\ taken.irq \in Lines /\ PicOK(taken.pics)
               /\ \A irq \in Lines \ {2} :
                    /\ Up(taken.pics, irq) <=> Up(x, irq)
                    /\ Latched(x, irq) =>
                         Latched(taken.pics, irq) \/ (taken.irq = irq /\ irq \notin Elcr)
<1> DEFINE irq == pic_get_irq(x.m)
           irq2 == pic_get_irq(x.s)
           m(i) == [x EXCEPT !.m = pic_intack(x.m, i)]
           ms == [x EXCEPT !.m = pic_intack(x.m, 2), !.s = pic_intack(x.s, irq2)]
           taken == pic2_get_hard_intno(x)
           Good(y, told) ==
             /\ PicOK(y)
             /\ \A i \in Lines \ {2} :
                  /\ Up(y, i) <=> Up(x, i)
                  /\ Latched(x, i) => Latched(y, i) \/ (told = i /\ i \notin Elcr)
<1>1. x \in [m : PicType, s : PicType, pin : {0, 1}]
  BY DEF PicOK
<1>2. irq \in -1 .. 7 /\ irq2 \in -1 .. 7
  BY <1>1, RequestType
<1>3. ASSUME NEW p \in PicType, NEW i \in Line
      PROVE  LET q == pic_intack(p, i)
             IN  /\ q \in PicType /\ q.init_state = p.init_state /\ q.elcr = p.elcr
                 /\ q.last_irr = p.last_irr
                 /\ q.irr = IF i \in p.elcr THEN p.irr ELSE p.irr \ {i}
  <2> DEFINE r == IF p.auto_eoi = 1
                  THEN [p EXCEPT !.priority_add =
                                   IF p.rotate_on_autoeoi = 1 THEN (i + 1) % 8 ELSE @]
                  ELSE [p EXCEPT !.isr = @ \cup {i}]
  <2>1. (i + 1) % 8 \in Line
    BY DEF Line
  <2>2. /\ r \in PicType /\ r.init_state = p.init_state /\ r.elcr = p.elcr
        /\ r.last_irr = p.last_irr /\ r.irr = p.irr
    BY <2>1 DEF PicType
  <2> HIDE DEF r
  <2>3. pic_intack(p, i) = [r EXCEPT !.irr = IF i \in p.elcr THEN @ ELSE @ \ {i}]
    BY DEF pic_intack, r
  <2>4. QED
    BY <2>2, <2>3 DEF PicType
<1> HIDE DEF irq, irq2
<1>4. ASSUME NEW z, NEW told, Good(z, told)
      PROVE  Good(pic2_update_irq(z), told)
  BY <1>4, UpdateIs DEF SameBut
<1>5. ASSUME NEW i \in Line, NEW told, told = i \/ i = 2
      PROVE  Good(m(i), told)
  <2> DEFINE q == pic_intack(x.m, i)
  <2>1. x.m \in PicType
    BY <1>1
  <2>2. /\ q \in PicType /\ q.init_state = x.m.init_state /\ q.elcr = x.m.elcr
        /\ q.last_irr = x.m.last_irr
        /\ q.irr = IF i \in x.m.elcr THEN x.m.irr ELSE x.m.irr \ {i}
    BY <1>3, <2>1
  <2> HIDE DEF q
  <2>3. m(i) = [x EXCEPT !.m = q]
    BY DEF q
  <2>4. PicOK(m(i))
    BY <1>1, <2>2, <2>3 DEF PicOK
  <2>5. ASSUME NEW j \in Lines \ {2}
        PROVE  /\ Up(m(i), j) <=> Up(x, j)
               /\ Latched(x, j) => Latched(m(i), j) \/ (told = j /\ j \notin Elcr)
    <3>1. j < 8 => j \in Line
      BY DEF Lines, Line
    <3>2. i \in Elcr <=> i \in x.m.elcr
      BY DEF PicOK
    <3>3. QED
      BY <1>1, <1>5, <2>2, <2>3, <3>1, <3>2 DEF Up, Latched
  <2>6. QED
    BY <2>4, <2>5
<1>6. irq2 >= 0 => Good(ms, irq2 + 8)
  <2> SUFFICES ASSUME irq2 >= 0 PROVE Good(ms, irq2 + 8)
    OBVIOUS
  <2> DEFINE q == pic_intack(x.m, 2)
             r == pic_intack(x.s, irq2)
  <2>1. x.m \in PicType /\ x.s \in PicType /\ 2 \in Line /\ irq2 \in Line
    BY <1>1, <1>2 DEF Line
  <2>2. /\ q \in PicType /\ q.init_state = x.m.init_state /\ q.elcr = x.m.elcr
        /\ q.last_irr = x.m.last_irr
        /\ q.irr = IF 2 \in x.m.elcr THEN x.m.irr ELSE x.m.irr \ {2}
    BY <1>3, <2>1
  <2>3. /\ r \in PicType /\ r.init_state = x.s.init_state /\ r.elcr = x.s.elcr
        /\ r.last_irr = x.s.last_irr
        /\ r.irr = IF irq2 \in x.s.elcr THEN x.s.irr ELSE x.s.irr \ {irq2}
    BY <1>3, <2>1
  <2> HIDE DEF q, r
  <2>4. ms = [x EXCEPT !.m = q, !.s = r]
    BY DEF q, r
  <2>5. PicOK(ms)
    BY <1>1, <2>2, <2>3, <2>4 DEF PicOK
  <2>6. ASSUME NEW j \in Lines \ {2}
        PROVE  /\ Up(ms, j) <=> Up(x, j)
               /\ Latched(x, j) => Latched(ms, j) \/ (irq2 + 8 = j /\ j \notin Elcr)
    <3>1. CASE j < 8
      BY <1>1, <2>2, <2>4, <3>1 DEF Up, Latched
    <3>2. CASE ~(j < 8)
      <4>1. irq2 + 8 \in Elcr <=> irq2 \in x.s.elcr
        BY <2>1 DEF PicOK
      <4>2. j \in Int /\ (j - 8 = irq2 => irq2 + 8 = j)
        BY <2>1 DEF Lines, Line
      <4>3. QED
        BY <1>1, <2>3, <2>4, <3>2, <4>1, <4>2 DEF Up, Latched
    <3>3. QED
      BY <3>1, <3>2
  <2>7. QED
    BY <2>5, <2>6
<1>7. CASE irq < 0
  <2>1. taken.irq = 7 /\ taken.pics = pic2_update_irq(x)
    BY <1>2, <1>7 DEF pic2_get_hard_intno, irq, irq2, With
  <2>2. Good(x, 7)
    OBVIOUS
  <2> HIDE DEF Good, taken
  <2>3. Good(taken.pics, taken.irq)
    BY <1>4, <2>1, <2>2
  <2>4. QED
    BY <2>1, <2>3 DEF Good, taken, Lines
<1>8. CASE irq = 2 /\ irq2 < 0
  <2>1. taken.irq = 15 /\ taken.pics = pic2_update_irq(m(2))
    BY <1>2, <1>8 DEF pic2_get_hard_intno, irq, irq2, With
  <2>2. Good(m(2), 15)
    BY <1>5 DEF Line
  <2> HIDE DEF Good, taken, m
  <2>3. Good(taken.pics, taken.irq)
    BY <1>4, <2>1, <2>2
  <2>4. QED
    BY <2>1, <2>3 DEF Good, taken, Lines
<1>9. CASE irq = 2 /\ irq2 >= 0
  <2>1. taken.irq = irq2 + 8 /\ taken.pics = pic2_update_irq(ms)
    BY <1>2, <1>9 DEF pic2_get_hard_intno, irq, irq2, With
  <2> HIDE DEF Good, taken, ms
  <2>2. Good(taken.pics, taken.irq)
    BY <1>4, <1>6, <1>9, <2>1
  <2>3. QED
    BY <1>2, <1>9, <2>1, <2>2 DEF Good, taken, Lines
<1>10. CASE irq >= 0 /\ irq # 2
  <2>1. taken.irq = irq /\ taken.pics = pic2_update_irq(m(irq))
    BY <1>2, <1>10 DEF pic2_get_hard_intno, irq, irq2, With
  <2>2. Good(m(irq), irq)
    BY <1>2, <1>5, <1>10 DEF Line
  <2> HIDE DEF Good, taken, m
  <2>3. Good(taken.pics, taken.irq)
    BY <1>4, <2>1, <2>2
  <2>4. QED
    BY <1>2, <1>10, <2>1, <2>3 DEF Good, taken, Lines
<1>11. QED
  BY <1>2, <1>7, <1>8, <1>9, <1>10
-----------------------------------------------------------------------------
(* Calls of set_irq, one after the other *)

CallStep(calls, i, e) == With(e, LAMBDA x : pic2_set_irq(x, calls[i][1], calls[i][2]))

Calling ==
    INSTANCE Loops WITH Base <- LAMBDA calls : pics, Step <- CallStep,
                        Inv <- LAMBDA calls, i, e : TRUE

LEMMA CalledIs ==
    ASSUME NEW calls
    PROVE  AfterCalls(pics, calls) = Calling!After(calls, Len(calls))[Len(calls)]
  BY DEF AfterCalls, Calling!After, CallStep, With

LEMMA CallIs ==
    ASSUME NEW calls, NEW i, NEW e
    PROVE  CallStep(calls, i, e) = pic2_set_irq(e, calls[i][1], calls[i][2])
  BY DEF CallStep, With

LEMMA NoCall == AfterCalls(pics, << >>) = pics
<1>1. Calling!After(<< >>, 0)[0] = pics
  BY Calling!LoopIs
<1>2. Len(<< >>) = 0
  OBVIOUS
<1>3. AfterCalls(pics, << >>) = Calling!After(<< >>, 0)[0]
  BY <1>2, CalledIs
<1>4. QED
  BY <1>1, <1>3

LEMMA OneMoreCall ==
    ASSUME NEW S, NEW s \in Seq(S), NEW c \in S
    PROVE  AfterCalls(pics, Append(s, c)) = pic2_set_irq(AfterCalls(pics, s), c[1], c[2])
<1> DEFINE t == Append(s, c)
           n == Len(s)
           f == Calling!After(s, n)
           g == Calling!After(t, n + 1)
<1>1. /\ n \in Nat /\ Len(t) = n + 1 /\ t[n + 1] = c
      /\ \A i \in 1 .. n : t[i] = s[i]
  BY AppendProperties, LenProperties
<1> HIDE DEF t, n
<1>2. f[0] = pics /\ \A i \in 1 .. n : f[i] = CallStep(s, i, f[i - 1])
  BY <1>1, Calling!LoopIs
<1>3. g[0] = pics /\ \A i \in 1 .. n + 1 : g[i] = CallStep(t, i, g[i - 1])
  BY <1>1, Calling!LoopIs
<1> HIDE DEF f, g
<1> DEFINE T == {i \in 0 .. n : g[i] = f[i]}
<1>4. 0 \in T
  BY <1>1, <1>2, <1>3
<1>5. ASSUME NEW i \in 1 .. n, i - 1 \in T PROVE i \in T
  <2>1. g[i - 1] = f[i - 1] /\ t[i] = s[i] /\ i \in 0 .. n /\ i \in 1 .. n + 1
    BY <1>1, <1>5
  <2>2. f[i] = CallStep(s, i, f[i - 1])
    BY <1>2
  <2>3. g[i] = CallStep(t, i, g[i - 1])
    BY <1>3, <2>1
  <2>4. f[i] = pic2_set_irq(f[i - 1], s[i][1], s[i][2])
    BY <2>2, CallIs
  <2>5. g[i] = pic2_set_irq(g[i - 1], t[i][1], t[i][2])
    BY <2>3, CallIs
  <2>6. QED
    BY <2>1, <2>4, <2>5
<1>6. 0 .. n \subseteq T
  <2> HIDE DEF T
  <2>1. QED
    BY <1>1, <1>4, <1>5, Calling!LoopInduction
<1>7. g[n] = f[n]
  BY <1>1, <1>6
<1>8. AfterCalls(pics, s) = f[n]
  BY CalledIs DEF f, n
<1>9. AfterCalls(pics, t) = g[n + 1]
  BY <1>1, CalledIs DEF g
<1>10. g[n + 1] = pic2_set_irq(g[n], c[1], c[2])
  <2>1. n + 1 \in 1 .. n + 1 /\ (n + 1) - 1 = n
    BY <1>1
  <2>2. g[n + 1] = CallStep(t, n + 1, g[n])
    BY <1>3, <2>1
  <2>3. QED
    BY <1>1, <2>2, CallIs
<1>11. QED
  BY <1>7, <1>8, <1>9, <1>10 DEF t

LEMMA TwoMoreCalls ==
    ASSUME NEW S, NEW s \in Seq(S), NEW a \in S, NEW b \in S
    PROVE  AfterCalls(pics, s \o <<a, b>>)
             = pic2_set_irq(pic2_set_irq(AfterCalls(pics, s), a[1], a[2]), b[1], b[2])
<1>1. s \o <<a, b>> = Append(Append(s, a), b) /\ Append(s, a) \in Seq(S)
  OBVIOUS
<1>2. AfterCalls(pics, Append(s, a)) = pic2_set_irq(AfterCalls(pics, s), a[1], a[2])
  BY OneMoreCall
<1>3. AfterCalls(pics, Append(Append(s, a), b))
        = pic2_set_irq(AfterCalls(pics, Append(s, a)), b[1], b[2])
  BY <1>1, OneMoreCall
<1>4. QED
  BY <1>1, <1>2, <1>3

LEMMA OneCall ==
    ASSUME NEW irq, NEW level
    PROVE  AfterCalls(pics, << <<irq, level>> >>) = pic2_set_irq(pics, irq, level)
<1> DEFINE c == <<irq, level>>
<1>1. c[1] = irq /\ c[2] = level
  OBVIOUS
<1> HIDE DEF c
<1>2. << >> \in Seq({c}) /\ <<c>> = Append(<< >>, c)
  OBVIOUS
<1>3. AfterCalls(pics, Append(<< >>, c)) = pic2_set_irq(AfterCalls(pics, << >>), c[1], c[2])
  BY <1>2, OneMoreCall
<1>4. QED
  BY <1>1, <1>2, <1>3, NoCall DEF c
-----------------------------------------------------------------------------
(* Writes to the registers, one after the other *)

WriteStep(ws, i, e) == With(e, LAMBDA x : pic_write(x, ws[i]))
WritesInv(ws, i, e) == PicOK(e) /\ SameBut(pics, e, {})

Writing ==
    INSTANCE Loops WITH Base <- LAMBDA ws : pics, Step <- WriteStep, Inv <- WritesInv

LEMMA WritesAre ==
    ASSUME PicOK(pics), NEW ws, Len(ws) \in Nat, \A i \in 1 .. Len(ws) : GuestWrite(ws[i])
    PROVE  PicOK(pic_writes(pics, ws)) /\ SameBut(pics, pic_writes(pics, ws), {})
<1> DEFINE n == Len(ws)
<1>1. pic_writes(pics, ws) = Writing!After(ws, n)[n]
  BY DEF pic_writes, Writing!After, WriteStep, With
<1>2. n \in Nat /\ \A i \in 1 .. n : GuestWrite(ws[i])
  OBVIOUS
<1> HIDE DEF n
<1>4. WritesInv(ws, 0, pics)
  BY DEF WritesInv, SameBut
<1>5. ASSUME NEW i \in 1 .. n, NEW e, WritesInv(ws, i - 1, e)
      PROVE  WritesInv(ws, i, WriteStep(ws, i, e))
  <2>1. PicOK(e) /\ SameBut(pics, e, {})
    BY <1>5 DEF WritesInv
  <2>3. PicOK(pic_write(e, ws[i])) /\ SameBut(e, pic_write(e, ws[i]), {})
    BY <1>2, <2>1, WriteIs
  <2>4. WriteStep(ws, i, e) = pic_write(e, ws[i])
    BY DEF WriteStep, With
  <2>5. QED
    BY <2>1, <2>3, <2>4 DEF WritesInv, SameBut
<1>6. \A i \in 0 .. n : WritesInv(ws, i, Writing!After(ws, n)[i])
  BY <1>2, <1>4, <1>5, Writing!LoopKeeps
<1>7. n \in 0 .. n
  BY <1>2
<1>8. QED
  BY <1>1, <1>6, <1>7 DEF WritesInv
-----------------------------------------------------------------------------
(* The keyboard, the mouse and their controller.  The state k of an operator *)
(* has called set_irq for the calls it holds.                                *)

PicsOf(k) == AfterCalls(pics, k.calls)

\* The calls have reached these two lines alone, and lost nothing of them.
CallsOK(k) ==
    /\ k \in KType
    /\ PicOK(PicsOf(k)) /\ SameBut(pics, PicsOf(k), {IRQ_KBD, IRQ_MOUSE})
    /\ \A irq \in {IRQ_KBD, IRQ_MOUSE} : Taken(PicsOf(k), irq) => Taken(pics, irq)

KOK(k) ==
    /\ CallsOK(k)
    /\ "obf" \in k.status <=> k.pending # {}
    /\ "mouse_obf" \in k.status <=> k.pending = {"mouse"}
    /\ \A d \in k.pending : k[d].queue # << >>
    /\ Up(PicsOf(k), IRQ_KBD) <=> KbdLevel(k)
    /\ Up(PicsOf(k), IRQ_MOUSE) <=> MouseLevel(k)

\* What the operators do besides makes no call.
LEMMA Unseen ==
    ASSUME NEW k, KOK(k), NEW j \in KType,
           j.calls = k.calls, j.pending = k.pending,
           \A b \in {"kbd_int", "mouse_int", "disable_kbd"} : b \in j.mode <=> b \in k.mode,
           \A b \in {"obf", "mouse_obf"} : b \in j.status <=> b \in k.status,
           j.kbd.queue = k.kbd.queue, j.mouse.queue = k.mouse.queue
    PROVE  KOK(j)
<1>1. \A d \in j.pending : j[d].queue # << >>
  BY DEF KOK, KType, Devs
<1>2. QED
  BY <1>1 DEF KOK, CallsOK, PicsOf, KbdLevel, MouseLevel

LEMMA UpdateKeeps ==
    ASSUME NEW k, CallsOK(k), \A d \in k.pending : k[d].queue # << >>
    PROVE  LET j == kbd_update_irq(k)
           IN  /\ KOK(j) /\ j.kbd = k.kbd /\ j.mouse = k.mouse /\ j.pending = k.pending
               /\ j.mode = k.mode /\ j.write_cmd = k.write_cmd
               /\ \A irq \in {IRQ_KBD, IRQ_MOUSE} :
                    Taken(PicsOf(j), irq) => Taken(PicsOf(k), irq)
<1> DEFINE j == kbd_update_irq(k)
           mouse == k.pending = {"mouse"}
           kbd == k.pending # {} /\ ~mouse
           a == <<IRQ_KBD, IF kbd /\ "kbd_int" \in k.mode /\ "disable_kbd" \notin k.mode
                           THEN 1 ELSE 0>>
           b == <<IRQ_MOUSE, IF mouse /\ "mouse_int" \in k.mode THEN 1 ELSE 0>>
           status == (k.status \ {"obf", "mouse_obf"})
                        \cup (IF k.pending # {} THEN {"obf"} ELSE {})
                        \cup (IF mouse THEN {"mouse_obf"} ELSE {})
           C == {IRQ_KBD, IRQ_MOUSE} \X {0, 1}
           x == PicsOf(k)
           y == pic2_set_irq(x, a[1], a[2])
           z == pic2_set_irq(y, b[1], b[2])
<1>1. a \in C /\ b \in C /\ a[1] = 1 /\ b[1] = 12
  BY DEF IRQ_KBD, IRQ_MOUSE
<1>2. (a[2] = 1 <=> KbdLevel(k)) /\ (b[2] = 1 <=> MouseLevel(k))
  BY DEF KbdLevel, MouseLevel
<1>3. a[2] \in {0, 1} /\ b[2] \in {0, 1}
  OBVIOUS
<1>4. /\ status \in SUBSET {"obf", "mouse_obf", "selftest"}
      /\ "obf" \in status <=> k.pending # {}
      /\ "mouse_obf" \in status <=> mouse
  <2>1. k.status \in SUBSET {"obf", "mouse_obf", "selftest"}
    BY DEF CallsOK, KType
  <2>0. mouse => k.pending # {}
    OBVIOUS
  <2> HIDE DEF mouse
  <2>2. CASE k.pending = {}
    BY <2>0, <2>1, <2>2
  <2>3. CASE k.pending # {}
    BY <2>1, <2>3
  <2>4. QED
    BY <2>2, <2>3
<1>5. j = [k EXCEPT !.status = status, !.calls = @ \o <<a, b>>]
  BY DEF kbd_update_irq
<1> HIDE DEF a, b, status
<1>6. /\ k \in KType /\ k.calls \in Seq(C) /\ k.calls \o <<a, b>> \in Seq(C)
  BY <1>1 DEF CallsOK, KType
<1>7. /\ j \in KType /\ j.kbd = k.kbd /\ j.mouse = k.mouse /\ j.pending = k.pending
      /\ j.mode = k.mode /\ j.write_cmd = k.write_cmd /\ j.status = status
      /\ j.calls = k.calls \o <<a, b>>
  BY <1>4, <1>5, <1>6, ZenonT(60) DEF KType
<1>8. PicsOf(j) = z
  <2> HIDE DEF C, j
  <2>1. AfterCalls(pics, k.calls \o <<a, b>>)
          = pic2_set_irq(pic2_set_irq(AfterCalls(pics, k.calls), a[1], a[2]), b[1], b[2])
    BY <1>1, <1>6, TwoMoreCalls
  <2>2. QED
    BY <1>7, <2>1 DEF PicsOf
<1> HIDE DEF j
<1>9. PicOK(x) /\ SameBut(pics, x, {1, 12})
  BY DEF CallsOK, IRQ_KBD, IRQ_MOUSE
<1> HIDE DEF x
<1>10. /\ PicOK(y) /\ SameBut(x, y, {1}) /\ (Up(y, 1) <=> a[2] = 1)
       /\ Taken(y, 1) => Taken(x, 1)
  <2>1. 1 \in Lines \ {2}
    BY DEF Lines
  <2>2. QED
    BY <1>1, <1>3, <1>9, <2>1, SetIrqIs
<1> HIDE DEF y
<1>11. /\ PicOK(z) /\ SameBut(y, z, {12}) /\ (Up(z, 12) <=> b[2] = 1)
       /\ Taken(z, 12) => Taken(y, 12)
  <2>1. 12 \in Lines \ {2}
    BY DEF Lines
  <2>2. QED
    BY <1>1, <1>3, <1>10, <2>1, SetIrqIs
<1> HIDE DEF z
<1>12. /\ SameBut(pics, z, {1, 12}) /\ (Up(z, 1) <=> a[2] = 1)
       /\ Taken(z, 1) => Taken(x, 1)
       /\ Taken(z, 12) => Taken(x, 12)
  BY <1>9, <1>10, <1>11 DEF SameBut, Taken, Lines
<1>13. \A irq \in {1, 12} : Taken(x, irq) => Taken(pics, irq)
  BY DEF CallsOK, IRQ_KBD, IRQ_MOUSE, x
<1>14. CallsOK(j)
  BY <1>7, <1>8, <1>11, <1>12, <1>13 DEF CallsOK, IRQ_KBD, IRQ_MOUSE
<1>15. KbdLevel(j) = KbdLevel(k) /\ MouseLevel(j) = MouseLevel(k)
  BY <1>7 DEF KbdLevel, MouseLevel
<1>16. \A d \in j.pending : j[d].queue # << >>
  BY <1>6, <1>7, ZenonT(60) DEF KType, Devs
<1>17. KOK(j)
  BY <1>2, <1>4, <1>7, <1>8, <1>11, <1>12, <1>14, <1>15, <1>16 DEF KOK, IRQ_KBD, IRQ_MOUSE
<1>18. QED
  BY <1>7, <1>8, <1>12, <1>17 DEF IRQ_KBD, IRQ_MOUSE, j, x

LEMMA PendingKeeps ==
    ASSUME NEW k, CallsOK(k), NEW d \in Devs, NEW level \in BOOLEAN,
           \A e \in k.pending \ {d} : k[e].queue # << >>,
           level => k[d].queue # << >>
    PROVE  LET j == SetPending(k, d, level)
           IN  /\ KOK(j) /\ j.kbd = k.kbd /\ j.mouse = k.mouse
               /\ j.pending = (IF level THEN k.pending \cup {d} ELSE k.pending \ {d})
               /\ j.mode = k.mode /\ j.write_cmd = k.write_cmd
               /\ \A irq \in {IRQ_KBD, IRQ_MOUSE} :
                    Taken(PicsOf(j), irq) => Taken(PicsOf(k), irq)
<1> DEFINE h == [k EXCEPT !.pending = IF level THEN @ \cup {d} ELSE @ \ {d}]
<1>1. SetPending(k, d, level) = kbd_update_irq(h)
  BY DEF SetPending, With
<1>2. /\ h \in KType /\ h.kbd = k.kbd /\ h.mouse = k.mouse /\ h.calls = k.calls
      /\ h.pending = (IF level THEN k.pending \cup {d} ELSE k.pending \ {d})
      /\ h.mode = k.mode /\ h.write_cmd = k.write_cmd
      /\ h["kbd"] = k["kbd"] /\ h["mouse"] = k["mouse"]
  BY DEF CallsOK, KType
<1> HIDE DEF h
<1>3. CallsOK(h) /\ PicsOf(h) = PicsOf(k)
  BY <1>2 DEF CallsOK, PicsOf
<1>4. \A e \in h.pending : h[e].queue # << >>
  <2>1. k.pending \subseteq Devs
    BY DEF CallsOK, KType
  <2>2. QED
    BY <1>2, <2>1 DEF Devs
<1>5. QED
  BY <1>1, <1>2, <1>3, <1>4, UpdateKeeps

LEMMA QueueKeeps ==
    ASSUME NEW k, KOK(k), NEW d \in Devs, NEW b \in Bytes
    PROVE  KOK(ps2_queue(k, d, b))
<1> DEFINE q == [k EXCEPT ![d].queue = Append(@, b)]
<1>1. CASE Len(k[d].queue) >= PS2_QUEUE_SIZE
  BY <1>1 DEF ps2_queue
<1>2. CASE ~(Len(k[d].queue) >= PS2_QUEUE_SIZE)
  <2>1. ps2_queue(k, d, b) = SetPending(q, d, TRUE)
    BY <1>2 DEF ps2_queue, With
  <2>2. k \in KType /\ k[d].queue \in Seq(Bytes)
    BY DEF KOK, CallsOK, KType, Devs, Kbd, Mouse
  <2>3. Append(k[d].queue, b) \in Seq(Bytes) /\ Append(k[d].queue, b) # << >>
    BY <2>2, AppendProperties
  <2>4. /\ q \in KType /\ q.calls = k.calls /\ q.pending = k.pending
        /\ q[d].queue = Append(k[d].queue, b)
        /\ \A e \in Devs \ {d} : q[e] = k[e]
    BY <2>2, <2>3, ZenonT(60) DEF KType, Devs, Kbd, Mouse
  <2> HIDE DEF q
  <2>5. CallsOK(q)
    BY <2>4 DEF KOK, CallsOK, PicsOf
  <2>6. \A e \in q.pending \ {d} : q[e].queue # << >>
    BY <2>2, <2>4 DEF KOK, KType
  <2>7. q[d].queue # << >>
    BY <2>3, <2>4
  <2>8. KOK(SetPending(q, d, TRUE))
    BY <2>5, <2>6, <2>7, PendingKeeps, Zenon
  <2>9. QED
    BY <2>1, <2>8
<1>3. QED
  BY <1>1, <1>2

SendStep(m, i, e) == With(e, LAMBDA s : ps2_queue(s, m.d, <<m.message, i, m.n>>))

Queueing ==
    INSTANCE Loops WITH Base <- LAMBDA m : m.k, Step <- SendStep,
                        Inv <- LAMBDA m, i, e : KOK(e)

LEMMA SendKeeps ==
    ASSUME NEW k, KOK(k), NEW d \in Devs, NEW message \in Messages, NEW n \in Nat
    PROVE  KOK(Send(k, d, message, n))
<1> DEFINE m == [k |-> k, d |-> d, message |-> message, n |-> n]
<1>1. m.k = k /\ m.d = d /\ m.message = message /\ m.n = n
  OBVIOUS
<1> HIDE DEF m
<1>2. Send(k, d, message, n) = Queueing!After(m, n)[n]
  BY <1>1 DEF Send, Queueing!After, SendStep, With
<1>3. ASSUME NEW i \in 1 .. n, NEW e, KOK(e) PROVE KOK(SendStep(m, i, e))
  <2>1. <<message, i, n>> \in Bytes
    BY DEF Bytes
  <2>2. SendStep(m, i, e) = ps2_queue(e, d, <<message, i, n>>)
    BY <1>1 DEF SendStep, With
  <2>3. KOK(ps2_queue(e, d, <<message, i, n>>))
    BY <1>3, <2>1, QueueKeeps
  <2>4. QED
    BY <2>2, <2>3
<1>4. \A i \in 0 .. n : KOK(Queueing!After(m, n)[i])
  BY <1>1, <1>3, Queueing!LoopKeeps
<1>5. QED
  BY <1>2, <1>4

\* The parts of the state that need no call.
LEMMA MouseKeeps ==
    ASSUME NEW k, KOK(k), NEW m \in Mouse, m.queue = k.mouse.queue
    PROVE  KOK([k EXCEPT !.mouse = m])
<1> DEFINE j == [k EXCEPT !.mouse = m]
<1>1. k \in KType
  BY DEF KOK, CallsOK
<1>2. /\ j \in KType /\ j.calls = k.calls /\ j.pending = k.pending /\ j.mode = k.mode
      /\ j.status = k.status /\ j.kbd = k.kbd /\ j.mouse = m
  BY <1>1 DEF KType
<1> HIDE DEF j
<1>3. KOK(j)
  BY <1>2, Unseen
<1>4. QED
  BY <1>3 DEF j

LEMMA KbdKeeps ==
    ASSUME NEW k, KOK(k), NEW cmd \in {"none", "set_leds", "set_rate"}
    PROVE  KOK([k EXCEPT !.kbd.write_cmd = cmd])
<1> DEFINE j == [k EXCEPT !.kbd.write_cmd = cmd]
<1>1. k \in KType
  BY DEF KOK, CallsOK
<1>2. /\ j \in KType /\ j.calls = k.calls /\ j.pending = k.pending /\ j.mode = k.mode
      /\ j.status = k.status /\ j.kbd.queue = k.kbd.queue /\ j.mouse = k.mouse
  BY <1>1 DEF KType, Kbd
<1> HIDE DEF j
<1>3. KOK(j)
  BY <1>2, Unseen
<1>4. QED
  BY <1>3 DEF j

LEMMA CommandKeeps ==
    ASSUME NEW k, KOK(k),
           NEW cmd \in {"none", "write_mode", "write_obuf", "write_aux_obuf", "write_mouse"}
    PROVE  KOK([k EXCEPT !.write_cmd = cmd])
<1> DEFINE j == [k EXCEPT !.write_cmd = cmd]
<1>1. k \in KType
  BY DEF KOK, CallsOK
<1>2. /\ j \in KType /\ j.calls = k.calls /\ j.pending = k.pending /\ j.mode = k.mode
      /\ j.status = k.status /\ j.kbd = k.kbd /\ j.mouse = k.mouse
  BY <1>1 DEF KType
<1> HIDE DEF j
<1>3. KOK(j)
  BY <1>2, Unseen
<1>4. QED
  BY <1>3 DEF j

LEMMA WriteKeyboardKeeps ==
    ASSUME NEW k, KOK(k), NEW val PROVE KOK(ps2_write_keyboard(k, val))
<1>1. KOK(Send(k, "kbd", "ack", 1)) /\ KOK(Send(k, "kbd", "id", 3)) /\ KOK(Send(k, "kbd", "por", 2))
  BY SendKeeps DEF Devs, Messages
<1>2. KOK([Send(k, "kbd", "ack", 1) EXCEPT !.kbd.write_cmd = "none"])
  BY <1>1, KbdKeeps
<1>3. val \in {"set_leds", "set_rate"} =>
        KOK(Send([k EXCEPT !.kbd.write_cmd = val], "kbd", "ack", 1))
  <2>1. val \in {"set_leds", "set_rate"} => KOK([k EXCEPT !.kbd.write_cmd = val])
    BY KbdKeeps
  <2>2. QED
    BY <2>1, SendKeeps DEF Devs, Messages
<1>4. QED
  BY <1>1, <1>2, <1>3 DEF ps2_write_keyboard

LEMMA ClampType ==
    ASSUME NEW v \in Int, NEW n \in Nat PROVE Clamp(v, n) \in Int
  BY DEF Clamp

LEMMA PacketKeeps ==
    ASSUME NEW k, KOK(k) PROVE KOK(ps2_mouse_send_packet(k))
<1> DEFINE m == k.mouse
           n == IF m.type = 0 THEN 3 ELSE 4
           h == Send(k, "mouse", "packet", n)
           dx1 == Clamp(m.dx, MaxDelta)
           dy1 == Clamp(m.dy, MaxDelta)
           dz1 == CASE m.type = 3 -> Clamp(m.dz, MaxDelta)
                    [] m.type = 4 -> Clamp(m.dz, MaxWheel)
                    [] OTHER -> m.dz
           o == [h.mouse EXCEPT !.dx = @ - dx1, !.dy = @ - dy1, !.dz = @ - dz1]
<1>1. m \in Mouse
  BY DEF KOK, CallsOK, KType
<1>2. dx1 \in Int /\ dy1 \in Int /\ dz1 \in Int
  <2>1. m.dx \in Int /\ m.dy \in Int /\ m.dz \in Int
    BY <1>1 DEF Mouse
  <2>2. Clamp(m.dz, MaxDelta) \in Int /\ Clamp(m.dz, MaxWheel) \in Int
    BY <2>1, ClampType, Ps2Assumption
  <2>3. QED
    BY <2>1, <2>2, ClampType, Ps2Assumption
<1>3. KOK(h)
  BY SendKeeps DEF Devs, Messages
<1>4. ps2_mouse_send_packet(k) = [h EXCEPT !.mouse.dx = @ - dx1, !.mouse.dy = @ - dy1,
                                           !.mouse.dz = @ - dz1]
  BY DEF ps2_mouse_send_packet
<1> HIDE DEF m, n, h, dx1, dy1, dz1
<1>5. h \in KType
  BY <1>3 DEF KOK, CallsOK
<1>6. o \in Mouse /\ o.queue = h.mouse.queue
  <2>1. h.mouse \in Mouse
    BY <1>5 DEF KType
  <2>2. h.mouse.dx - dx1 \in Int /\ h.mouse.dy - dy1 \in Int /\ h.mouse.dz - dz1 \in Int
    <3>1. h.mouse.dx \in Int /\ h.mouse.dy \in Int /\ h.mouse.dz \in Int
      BY <2>1 DEF Mouse
    <3>2. QED
      BY <1>2, <3>1
  <2> DEFINE x == h.mouse.dx - dx1
             y == h.mouse.dy - dy1
             z == h.mouse.dz - dz1
  <2>3. o = [h.mouse EXCEPT !.dx = x, !.dy = y, !.dz = z]
    OBVIOUS
  <2>4. x \in Int /\ y \in Int /\ z \in Int
    BY <2>2
  <2> HIDE DEF o, x, y, z
  <2> DEFINE v == h.mouse
  <2> HIDE DEF v
  <2>5. v \in Mouse
    BY <2>1 DEF v
  <2>6. LET u == [v EXCEPT !.dx = x, !.dy = y, !.dz = z] IN u \in Mouse /\ u.queue = v.queue
    BY <2>4, <2>5 DEF Mouse
  <2>7. QED
    BY <2>3, <2>6 DEF v
<1>7. ps2_mouse_send_packet(k) = [h EXCEPT !.mouse = o]
  BY <1>4, <1>5 DEF KType, Mouse
<1> HIDE DEF o
<1>8. QED
  BY <1>3, <1>6, <1>7, MouseKeeps

PacketStep(k, i, e) ==
    With(e, LAMBDA s : IF IsStill(s.mouse) THEN s ELSE ps2_mouse_send_packet(s))

Packets ==
    INSTANCE Loops WITH Base <- LAMBDA k : With(k, ps2_mouse_send_packet), Step <- PacketStep,
                        Inv <- LAMBDA k, i, e : KOK(e)

LEMMA PacketsKeep ==
    ASSUME NEW k, KOK(k) PROVE KOK(ps2_mouse_send_packets(k))
<1> DEFINE n == Turns(k.mouse)
<1>1. ps2_mouse_send_packets(k) = Packets!After(k, n)[n]
  BY DEF ps2_mouse_send_packets, Packets!After, PacketStep, With
<1>2. n \in Nat
  <2>1. k.mouse.dx \in Int /\ k.mouse.dy \in Int /\ k.mouse.dz \in Int
    BY DEF KOK, CallsOK, KType, Mouse
  <2>2. QED
    BY <2>1 DEF Turns
<1>3. KOK(With(k, ps2_mouse_send_packet))
  <2>1. With(k, ps2_mouse_send_packet) = ps2_mouse_send_packet(k)
    BY DEF With
  <2>2. QED
    BY <2>1, PacketKeeps
<1>4. ASSUME NEW i \in 1 .. n, NEW e, KOK(e) PROVE KOK(PacketStep(k, i, e))
  <2>1. PacketStep(k, i, e) = IF IsStill(e.mouse) THEN e ELSE ps2_mouse_send_packet(e)
    BY DEF PacketStep, With
  <2>2. QED
    BY <1>4, <2>1, PacketKeeps
<1> HIDE DEF n
<1>5. \A i \in 0 .. n : KOK(Packets!After(k, n)[i])
  BY <1>2, <1>3, <1>4, Packets!LoopKeeps
<1>6. QED
  BY <1>1, <1>2, <1>5

LEMMA EventKeeps ==
    ASSUME NEW k, KOK(k), NEW e \in [dx : Int, dy : Int, dz : Int, buttons : Int]
    PROVE  KOK(ps2_mouse_event(k, e))
<1> DEFINE m == [k.mouse EXCEPT !.dx = @ + e.dx, !.dy = @ - e.dy, !.dz = @ + e.dz]
           o == [m EXCEPT !.buttons = e.buttons]
<1>1. k.mouse \in Mouse
  BY DEF KOK, CallsOK, KType
<1>2. m \in Mouse /\ m.queue = k.mouse.queue /\ o \in Mouse /\ o.queue = k.mouse.queue
  <2>1. /\ k.mouse.dx + e.dx \in Int /\ k.mouse.dy - e.dy \in Int /\ k.mouse.dz + e.dz \in Int
        /\ e.buttons \in Int
    <3>1. k.mouse.dx \in Int /\ k.mouse.dy \in Int /\ k.mouse.dz \in Int
      BY <1>1 DEF Mouse
    <3>2. QED
      BY <3>1
  <2> DEFINE x == k.mouse.dx + e.dx
             y == k.mouse.dy - e.dy
             z == k.mouse.dz + e.dz
  <2>4. m = [k.mouse EXCEPT !.dx = x, !.dy = y, !.dz = z]
    OBVIOUS
  <2>5. x \in Int /\ y \in Int /\ z \in Int
    BY <2>1
  <2> HIDE DEF m, x, y, z
  <2>2. m \in Mouse /\ m.queue = k.mouse.queue
    <3> DEFINE v == k.mouse
    <3>1. v \in Mouse
      BY <1>1
    <3> HIDE DEF v
    <3>2. LET u == [v EXCEPT !.dx = x, !.dy = y, !.dz = z] IN u \in Mouse /\ u.queue = v.queue
      BY <2>5, <3>1 DEF Mouse
    <3>3. QED
      BY <2>4, <3>2 DEF v
  <2>3. QED
    BY <2>1, <2>2 DEF Mouse
<1>3. ps2_mouse_event(k, e) \in
        {k, [k EXCEPT !.mouse = m], [k EXCEPT !.mouse = o],
         ps2_mouse_send_packets([k EXCEPT !.mouse = o])}
  BY DEF ps2_mouse_event
<1> HIDE DEF m, o
<1>4. KOK([k EXCEPT !.mouse = m]) /\ KOK([k EXCEPT !.mouse = o])
  BY <1>2, MouseKeeps
<1>5. KOK(ps2_mouse_send_packets([k EXCEPT !.mouse = o]))
  BY <1>4, PacketsKeep
<1>6. QED
  BY <1>3, <1>4, <1>5

LEMMA AckKeeps ==
    ASSUME NEW k, KOK(k), NEW m \in Mouse, m.queue = k.mouse.queue
    PROVE  KOK(Ack([k EXCEPT !.mouse = m]))
<1>1. KOK([k EXCEPT !.mouse = m])
  BY MouseKeeps
<1>2. QED
  BY <1>1, SendKeeps DEF Ack, Devs, Messages

LEMMA MouseCommandKeeps ==
    ASSUME NEW k, KOK(k), NEW val PROVE KOK(MouseCommand(k, val))
<1> DEFINE m == k.mouse
           reset == [m EXCEPT !.status = {}, !.type = 0]
<1>1. k \in KType /\ m \in Mouse
  BY DEF KOK, CallsOK, KType
<1>2. \A s \in SUBSET {"enabled", "remote", "scale21"} :
        KOK(Ack([k EXCEPT !.mouse = [m EXCEPT !.status = s]]))
  BY <1>1, AckKeeps DEF Mouse
<1>3. \A s \in SUBSET {"enabled", "remote", "scale21"} :
        [k EXCEPT !.mouse = [m EXCEPT !.status = s]] = [k EXCEPT !.mouse.status = s]
  OBVIOUS
<1>4. m.status \in SUBSET {"enabled", "remote", "scale21"}
  BY <1>1 DEF Mouse
<1>5. /\ KOK(Ack([k EXCEPT !.mouse.status = @ \ {"scale21"}]))
      /\ KOK(Ack([k EXCEPT !.mouse.status = @ \cup {"scale21"}]))
      /\ KOK(Ack([k EXCEPT !.mouse.status = @ \ {"remote"}]))
      /\ KOK(Ack([k EXCEPT !.mouse.status = @ \cup {"remote"}]))
      /\ KOK(Ack([k EXCEPT !.mouse.status = @ \ {"enabled"}]))
      /\ KOK(Ack([k EXCEPT !.mouse.status = @ \cup {"enabled"}]))
      /\ KOK(Ack([k EXCEPT !.mouse.status = {}]))
  BY <1>2, <1>3, <1>4
<1>6. KOK(Ack([k EXCEPT !.mouse.wrap = TRUE]))
  <2>1. [m EXCEPT !.wrap = TRUE] \in Mouse /\ [m EXCEPT !.wrap = TRUE].queue = m.queue
    BY <1>1 DEF Mouse
  <2>2. QED
    BY <2>1, AckKeeps
<1>7. val \in {"set_res", "set_sample"} => KOK(Ack([k EXCEPT !.mouse.write_cmd = val]))
  <2>1. val \in {"set_res", "set_sample"} =>
          [m EXCEPT !.write_cmd = val] \in Mouse /\ [m EXCEPT !.write_cmd = val].queue = m.queue
    BY <1>1 DEF Mouse
  <2>2. QED
    BY <2>1, AckKeeps
<1>8. KOK(Send(k, "mouse", "type", 2)) /\ KOK(Send(k, "mouse", "scale", 4)) /\ KOK(Ack(k))
  BY SendKeeps DEF Ack, Devs, Messages
<1>9. KOK(ps2_mouse_send_packet(Ack(k)))
  BY <1>8, PacketKeeps
<1>10. KOK(Send([k EXCEPT !.mouse.status = {}, !.mouse.type = 0], "mouse", "reset", 3))
  <2>1. reset \in Mouse /\ reset.queue = m.queue
    BY <1>1 DEF Mouse
  <2>2. [k EXCEPT !.mouse.status = {}, !.mouse.type = 0] = [k EXCEPT !.mouse = reset]
    BY <1>1 DEF KType
  <2> HIDE DEF reset
  <2>3. KOK([k EXCEPT !.mouse = reset])
    BY <2>1, MouseKeeps
  <2>4. QED
    BY <2>2, <2>3, SendKeeps DEF Devs, Messages
<1>11. QED
  BY <1>5, <1>6, <1>7, <1>8, <1>9, <1>10 DEF MouseCommand

LEMMA DetectTypeIs ==
    ASSUME NEW m \in Mouse, NEW rate
    PROVE  DetectType(m, rate) \in Mouse /\ DetectType(m, rate).queue = m.queue
<1>1. m.detect_state \in {0, 1, 2, 3}
  BY DEF Mouse
<1>2. CASE m.detect_state = 0
  BY <1>2 DEF DetectType, Mouse
<1>3. CASE m.detect_state = 1
  BY <1>3, SMTT(40) DEF DetectType, Mouse
<1>4. CASE m.detect_state \in {2, 3}
  <2> DEFINE h == [m EXCEPT !.detect_state = 0]
  <2>1. h \in Mouse /\ h.queue = m.queue
    BY DEF Mouse
  <2>2. DetectType(m, rate) \in {h, [h EXCEPT !.type = 3], [h EXCEPT !.type = 4]}
    <3>1. CASE rate = 80
      BY <1>4, <3>1 DEF DetectType
    <3>2. CASE rate # 80
      <4>1. [m EXCEPT !.detect_state = 0, !.type = @] = h
        BY DEF Mouse
      <4>2. QED
        BY <1>4, <3>2, <4>1 DEF DetectType
    <3>3. QED
      BY <3>1, <3>2
  <2> HIDE DEF h
  <2>3. ASSUME NEW type \in Nat
        PROVE  [h EXCEPT !.type = type] \in Mouse /\ [h EXCEPT !.type = type].queue = m.queue
    BY <2>1 DEF Mouse
  <2>4. CASE DetectType(m, rate) = h
    BY <2>1, <2>4, Zenon
  <2>5. CASE DetectType(m, rate) = [h EXCEPT !.type = 3]
    <3>1. [h EXCEPT !.type = 3] \in Mouse /\ [h EXCEPT !.type = 3].queue = m.queue
      BY <2>3
    <3>2. QED
      BY <2>5, <3>1, Zenon
  <2>6. CASE DetectType(m, rate) = [h EXCEPT !.type = 4]
    <3>1. [h EXCEPT !.type = 4] \in Mouse /\ [h EXCEPT !.type = 4].queue = m.queue
      BY <2>3
    <3>2. QED
      BY <2>6, <3>1, Zenon
  <2>7. QED
    BY <2>2, <2>4, <2>5, <2>6, Zenon
<1>6. QED
  BY <1>1, <1>2, <1>3, <1>4

LEMMA WriteMouseKeeps ==
    ASSUME NEW k, KOK(k), NEW val PROVE KOK(ps2_write_mouse(k, val))
<1> DEFINE m == k.mouse
           m1 == DetectType(m, val)
           h == Ack([k EXCEPT !.mouse = m1])
<1>1. k \in KType /\ m \in Mouse
  BY DEF KOK, CallsOK, KType
<1>2. ASSUME NEW j, KOK(j) PROVE KOK([j EXCEPT !.mouse.write_cmd = "none"])
  <2> DEFINE o == [j.mouse EXCEPT !.write_cmd = "none"]
  <2>1. j.mouse \in Mouse
    BY <1>2 DEF KOK, CallsOK, KType
  <2>2. o \in Mouse /\ o.queue = j.mouse.queue
    BY <2>1 DEF Mouse
  <2>3. [j EXCEPT !.mouse.write_cmd = "none"] = [j EXCEPT !.mouse = o]
    OBVIOUS
  <2> HIDE DEF o
  <2>4. QED
    BY <1>2, <2>2, <2>3, MouseKeeps
<1>3. KOK(h)
  BY <1>1, DetectTypeIs, AckKeeps
<1>4. KOK([h EXCEPT !.mouse.write_cmd = "none"])
  <2> HIDE DEF h
  <2>1. QED
    BY <1>2, <1>3
<1>5. [k EXCEPT !.mouse = DetectType(@, val)] = [k EXCEPT !.mouse = m1]
  OBVIOUS
<1>6. KOK(Ack(k)) /\ KOK(Send(k, "mouse", "echo", 1))
  BY SendKeeps DEF Ack, Devs, Messages
<1>7. KOK([Ack(k) EXCEPT !.mouse.write_cmd = "none"])
  BY <1>2, <1>6
<1>8. KOK(Ack([k EXCEPT !.mouse.wrap = FALSE]))
  <2> DEFINE o == [m EXCEPT !.wrap = FALSE]
  <2>1. o \in Mouse /\ o.queue = m.queue
    BY <1>1 DEF Mouse
  <2>2. [k EXCEPT !.mouse.wrap = FALSE] = [k EXCEPT !.mouse = o]
    OBVIOUS
  <2> HIDE DEF o
  <2>3. QED
    BY <2>1, <2>2, AckKeeps
<1>9. KOK(MouseCommand(k, val))
  BY MouseCommandKeeps
<1>10. QED
  BY <1>4, <1>5, <1>6, <1>7, <1>8, <1>9 DEF ps2_write_mouse
-----------------------------------------------------------------------------
(* The controller's commands, and the driver's reads *)

Modes == {"kbd_int", "mouse_int", "disable_kbd", "disable_mouse"}

\* A new mode, and the lines that follow.
LEMMA ModeKeeps ==
    ASSUME NEW k, KOK(k), NEW mode \in SUBSET Modes
    PROVE  KOK(kbd_update_irq([k EXCEPT !.mode = mode]))
<1> DEFINE h == [k EXCEPT !.mode = mode]
<1>1. k \in KType
  BY DEF KOK, CallsOK
<1>2. /\ h \in KType /\ h.calls = k.calls /\ h.pending = k.pending
      /\ h["kbd"] = k["kbd"] /\ h["mouse"] = k["mouse"]
  BY <1>1 DEF KType, Modes
<1> HIDE DEF h
<1>3. CallsOK(h)
  BY <1>2 DEF KOK, CallsOK, PicsOf
<1>4. \A d \in h.pending : h[d].queue # << >>
  BY <1>1, <1>2 DEF KOK, KType, Devs
<1>5. KOK(kbd_update_irq(h))
  BY <1>3, <1>4, UpdateKeeps
<1>6. QED
  BY <1>5 DEF h

LEMMA WriteCommandKeeps ==
    ASSUME NEW k, KOK(k), NEW val PROVE KOK(kbd_write_command(k, val))
<1> DEFINE t == [k EXCEPT !.status = @ \cup {"selftest"}]
<1>1. k \in KType /\ k.mode \in SUBSET Modes
  BY DEF KOK, CallsOK, KType, Modes
<1>2. KOK(Send(k, "mouse", "mode", 1)) /\ KOK(Send(k, "kbd", "test", 1))
  BY SendKeeps DEF Devs, Messages
<1>3. val \in {"write_mode", "write_obuf", "write_aux_obuf", "write_mouse"} =>
        KOK([k EXCEPT !.write_cmd = val])
  BY CommandKeeps
<1>4. KOK([k EXCEPT !.mode = @ \cup {"disable_mouse"}])
  <2> DEFINE j == [k EXCEPT !.mode = @ \cup {"disable_mouse"}]
  <2>1. /\ j \in KType /\ j.calls = k.calls /\ j.pending = k.pending /\ j.kbd = k.kbd
        /\ j.mouse = k.mouse /\ j.status = k.status /\ j.mode = k.mode \cup {"disable_mouse"}
    BY <1>1 DEF KType
  <2> HIDE DEF j
  <2>2. KOK(j)
    BY <2>1, Unseen
  <2>3. QED
    BY <2>2 DEF j
<1>5. KOK([k EXCEPT !.mode = @ \ {"disable_mouse"}])
  <2> DEFINE j == [k EXCEPT !.mode = @ \ {"disable_mouse"}]
  <2>1. /\ j \in KType /\ j.calls = k.calls /\ j.pending = k.pending /\ j.kbd = k.kbd
        /\ j.mouse = k.mouse /\ j.status = k.status /\ j.mode = k.mode \ {"disable_mouse"}
    BY <1>1 DEF KType
  <2> HIDE DEF j
  <2>2. KOK(j)
    BY <2>1, Unseen
  <2>3. QED
    BY <2>2 DEF j
<1>6. /\ KOK(kbd_update_irq([k EXCEPT !.mode = @ \cup {"disable_kbd"}]))
      /\ KOK(kbd_update_irq([k EXCEPT !.mode = @ \ {"disable_kbd"}]))
  <2>1. k.mode \cup {"disable_kbd"} \in SUBSET Modes /\ k.mode \ {"disable_kbd"} \in SUBSET Modes
    BY <1>1 DEF Modes
  <2>2. QED
    BY <2>1, ModeKeeps
<1>7. KOK(Send(t, "kbd", "test", 1))
  <2>1. /\ t \in KType /\ t.calls = k.calls /\ t.pending = k.pending /\ t.kbd = k.kbd
        /\ t.mouse = k.mouse /\ t.mode = k.mode 
        /\ \A b \in {"obf", "mouse_obf"} : b \in t.status <=> b \in k.status
    BY <1>1 DEF KType
  <2> HIDE DEF t
  <2>2. KOK(t)
    BY <2>1, Unseen
  <2>3. QED
    BY <2>2, SendKeeps DEF Devs, Messages
<1>8. QED
  BY <1>2, <1>3, <1>4, <1>5, <1>6, <1>7 DEF kbd_write_command

LEMMA WriteDataKeeps ==
    ASSUME NEW k, KOK(k), NEW val, k.write_cmd = "write_mode" => val \in SUBSET Modes
    PROVE  KOK(kbd_write_data(k, val))
<1> DEFINE j == CASE k.write_cmd = "none" -> ps2_write_keyboard(k, val)
                  [] k.write_cmd = "write_mode" -> kbd_update_irq([k EXCEPT !.mode = val])
                  [] k.write_cmd = "write_obuf" -> Send(k, "kbd", "obuf", 1)
                  [] k.write_cmd = "write_aux_obuf" -> Send(k, "mouse", "obuf", 1)
                  [] k.write_cmd = "write_mouse" -> ps2_write_mouse(k, val)
                  [] OTHER -> k
<1>1. KOK(Send(k, "kbd", "obuf", 1)) /\ KOK(Send(k, "mouse", "obuf", 1))
  BY SendKeeps DEF Devs, Messages
<1>2. KOK(j)
  BY <1>1, WriteKeyboardKeeps, WriteMouseKeeps, ModeKeeps
<1>3. kbd_write_data(k, val) = [j EXCEPT !.write_cmd = "none"]
  BY DEF kbd_write_data
<1> HIDE DEF j
<1>4. QED
  BY <1>2, <1>3, CommandKeeps

\* When a byte has been read both lines have been down.
LEMMA ReadKeeps ==
    ASSUME NEW k, KOK(k)
    PROVE  /\ KOK(kbd_read_data(k))
           /\ \A irq \in {IRQ_KBD, IRQ_MOUSE} : ~Taken(PicsOf(kbd_read_data(k)), irq)
<1> DEFINE d == ReadFrom(k)
           q == [k EXCEPT ![d].queue = Tail(@)]
           h == SetPending(q, d, FALSE)
           j == SetPending(h, d, h[d].queue # << >>)
<1>1. k \in KType /\ k.pending \subseteq Devs
  BY DEF KOK, CallsOK, KType
<1>2. d \in Devs
  BY DEF ReadFrom, Devs
<1>a. CASE k[d].queue = << >>
  <2>1. kbd_read_data(k) = k
    BY <1>a DEF kbd_read_data, ps2_read_data
  <2>2. k.pending = {}
    BY <1>1, <1>a DEF KOK, ReadFrom, Devs
  <2>3. ~KbdLevel(k) /\ ~MouseLevel(k)
    BY <2>2 DEF KbdLevel, MouseLevel
  <2>4. QED
    BY <2>1, <2>3 DEF KOK, Taken
<1> SUFFICES ASSUME k[d].queue # << >>
             PROVE  /\ KOK(kbd_read_data(k))
                    /\ \A irq \in {IRQ_KBD, IRQ_MOUSE} : ~Taken(PicsOf(kbd_read_data(k)), irq)
  BY <1>a
<1>3. k[d].queue # << >> /\ k[d].queue \in Seq(Bytes)
  BY <1>1, <1>2 DEF KType, Devs, Kbd, Mouse
<1>4. kbd_read_data(k) = j
  BY <1>3 DEF kbd_read_data, ps2_read_data, With
<1>5. /\ q \in KType /\ q.calls = k.calls /\ q.pending = k.pending /\ q.mode = k.mode
      /\ \A e \in Devs \ {d} : q[e] = k[e]
  <2>1. Tail(k[d].queue) \in Seq(Bytes)
    BY <1>3, HeadTailProperties
  <2> HIDE DEF d
  <2>2. QED
    BY <1>1, <1>2, <2>1, ZenonT(60) DEF KType, Devs, Kbd, Mouse
<1> HIDE DEF q
<1>6. CallsOK(q) /\ PicsOf(q) = PicsOf(k)
  BY <1>5 DEF KOK, CallsOK, PicsOf
<1>7. \A e \in q.pending \ {d} : q[e].queue # << >>
  BY <1>1, <1>5 DEF KOK
<1>8. /\ KOK(h) /\ h.pending = k.pending \ {d} /\ h.mode = k.mode
      /\ \A irq \in {IRQ_KBD, IRQ_MOUSE} : Taken(PicsOf(h), irq) => Taken(PicsOf(k), irq)
  <2> HIDE DEF d
  <2>1. FALSE => q[d].queue # << >>
    OBVIOUS
  <2>2. /\ KOK(h) /\ h.pending = (IF FALSE THEN q.pending \cup {d} ELSE q.pending \ {d})
        /\ h.mode = q.mode
        /\ \A irq \in {IRQ_KBD, IRQ_MOUSE} : Taken(PicsOf(h), irq) => Taken(PicsOf(q), irq)
    BY <1>2, <1>6, <1>7, <2>1, PendingKeeps, ZenonT(60)
  <2> HIDE DEF h
  <2>3. QED
    BY <1>5, <1>6, <2>2
<1> HIDE DEF h
<1>9. \A irq \in {IRQ_KBD, IRQ_MOUSE} : ~Taken(PicsOf(h), irq)
  <2>1. ~Up(PicsOf(h), IRQ_KBD)
    <3>1. ~KbdLevel(h)
      BY <1>1, <1>8 DEF KbdLevel, Devs, ReadFrom
    <3>2. QED
      BY <1>8, <3>1 DEF KOK
  <2>2. CASE d = "mouse"
    <3>1. ~MouseLevel(h)
      BY <1>8, <2>2 DEF MouseLevel
    <3>2. QED
      BY <1>8, <2>1, <3>1 DEF KOK, Taken
  <2>3. CASE d = "kbd"
    <3>1. ~MouseLevel(k)
      BY <2>3 DEF MouseLevel, ReadFrom
    <3>2. ~Taken(PicsOf(k), IRQ_MOUSE)
      BY <3>1 DEF KOK, Taken
    <3>3. QED
      BY <1>8, <2>1, <3>2 DEF Taken
  <2>4. QED
    BY <1>2, <2>2, <2>3 DEF Devs
<1>10. /\ KOK(j)
       /\ \A irq \in {IRQ_KBD, IRQ_MOUSE} : Taken(PicsOf(j), irq) => Taken(PicsOf(h), irq)
  <2>1. CallsOK(h) /\ \A e \in h.pending \ {d} : h[e].queue # << >>
    BY <1>8 DEF KOK
  <2>2. CASE h[d].queue # << >>
    <3>1. j = SetPending(h, d, TRUE)
      BY <2>2 DEF SetPending, With
    <3>2. TRUE => h[d].queue # << >>
      BY <2>2
    <3> HIDE DEF d, j
    <3>3. LET i == SetPending(h, d, TRUE)
          IN  /\ KOK(i)
              /\ \A irq \in {IRQ_KBD, IRQ_MOUSE} :
                   Taken(PicsOf(i), irq) => Taken(PicsOf(h), irq)
      BY <1>2, <2>1, <3>2, PendingKeeps, Zenon
    <3>4. QED
      BY <3>1, <3>3
  <2>3. CASE h[d].queue = << >>
    <3>1. j = SetPending(h, d, FALSE)
      BY <2>3 DEF SetPending, With
    <3>2. FALSE => h[d].queue # << >>
      OBVIOUS
    <3> HIDE DEF d, j
    <3>3. LET i == SetPending(h, d, FALSE)
          IN  /\ KOK(i)
              /\ \A irq \in {IRQ_KBD, IRQ_MOUSE} :
                   Taken(PicsOf(i), irq) => Taken(PicsOf(h), irq)
      BY <1>2, <2>1, <3>2, PendingKeeps, Zenon
    <3>4. QED
      BY <3>1, <3>3
  <2>4. QED
    BY <2>2, <2>3
<1>11. QED
  BY <1>4, <1>9, <1>10
-----------------------------------------------------------------------------
(* What a step must do to keep each part of the invariant.  The lines of S   *)
(* may change.                                                               *)

Irqs == {IRQ_KBD, IRQ_CLOCK, IRQ_MOUSE, IRQ_IDE} \cup Elcr

LEMMA IrqsAre ==
    /\ Irqs \subseteq Lines \ {0, 2} /\ IRQ_CLOCK \notin Elcr /\ IRQ_IDE \notin Elcr
    /\ {IRQ_KBD, IRQ_CLOCK, IRQ_MOUSE, IRQ_IDE} \subseteq Irqs /\ Elcr \subseteq Irqs
    /\ IRQ_KBD = 1 /\ IRQ_CLOCK = 8 /\ IRQ_MOUSE = 12 /\ IRQ_IDE = 14
  BY PciAssumption DEF Irqs, Lines, Elcr, Pins, IRQ_KBD, IRQ_CLOCK, IRQ_MOUSE, IRQ_IDE

LEMMA LinesKeep ==
    ASSUME LinesInv, PicOK(pics'), NEW S, SameBut(pics, pics', S),
           \A irq \in S \cap Irqs : Taken(pics', irq) => Taken(pics, irq),
           \A irq \in Irqs \ Elcr : Taken(pics', irq) /\ InService(irq) => InService(irq)'
    PROVE  LinesInv'
<1>1. ASSUME NEW irq \in Irqs, Taken(pics', irq) PROVE Taken(pics, irq)
  <2>1. CASE irq \in S
    BY <1>1, <2>1
  <2>2. CASE irq \notin S
    BY <1>1, <2>2, IrqsAre DEF SameBut, Taken
  <2>3. QED
    BY <2>1, <2>2
<1>2. ASSUME NEW irq \in Irqs, Taken(pics', irq) PROVE InService(irq)' /\ irq \notin Elcr
  BY <1>1, <1>2 DEF LinesInv, Irqs
<1>3. QED
  BY <1>2 DEF LinesInv, Irqs

LEMMA ClockKeep ==
    ASSUME ClockInv, NEW S, SameBut(pics, pics', S), IRQ_CLOCK \notin S, reg_c' = reg_c
    PROVE  ClockInv'
<1>1. IRQ_CLOCK \in Lines \ {2}
  BY IrqsAre
<1>2. QED
  BY <1>1 DEF ClockInv, SameBut

LEMMA PciKeep ==
    ASSUME PciInv, NEW S, SameBut(pics, pics', S), guest = "pci" => S \cap Elcr = {},
           guest' = guest, irq_state' = irq_state
    PROVE  PciInv'
<1>1. ASSUME NEW irq \in Elcr, PciNeedsService(irq) PROVE Latched(pics', irq)
  <2>1. guest = "pci"
    <3>1. PICK d \in PciDevices : d \in irq_state[bus_map_irq(d)]
      BY <1>1 DEF PciNeedsService, Raises
    <3>2. bus_map_irq(d) \in Pins
      BY PciAssumption DEF bus_map_irq, Pins
    <3>3. QED
      BY <3>1, <3>2 DEF PciInv
  <2>2. Latched(pics, irq)
    BY <1>1 DEF PciInv
  <2>3. QED
    BY <2>1, <2>2, IrqsAre DEF SameBut
<1>2. \A irq : PciNeedsService(irq)' = PciNeedsService(irq)
  BY DEF PciNeedsService, Raises
<1>3. QED
  BY <1>1, <1>2 DEF PciInv

LEMMA KbcKeep ==
    ASSUME KbcInv, NEW S, SameBut(pics, pics', S), UsesPs2 => S \cap {IRQ_KBD, IRQ_MOUSE} = {},
           guest' = guest, kbc' = kbc
    PROVE  KbcInv'
<1>1. UsesPs2' = UsesPs2 /\ KbdLevel(kbc)' = KbdLevel(kbc) /\ MouseLevel(kbc)' = MouseLevel(kbc)
  BY DEF UsesPs2, KbdLevel, MouseLevel
<1>2. UsesPs2 => /\ Up(pics', IRQ_KBD) <=> Up(pics, IRQ_KBD)
                 /\ Up(pics', IRQ_MOUSE) <=> Up(pics, IRQ_MOUSE)
  BY IrqsAre DEF SameBut
<1>3. QED
  BY <1>1, <1>2 DEF KbcInv

LEMMA IdeKeep ==
    ASSUME IdeInv, NEW S, SameBut(pics, pics', S), guest = "ide" => IRQ_IDE \notin S,
           guest' = guest, UNCHANGED ideVars
    PROVE  IdeInv'
<1>1. IdeCore'
  BY DEF IdeInv, ideVars, IdeCore, IdeTypes, WriteInv, ReadInv, OtherInv, Busy, HasDrq, IsIdle,
         Failed, Written, Fetched, Sending, ContentsOf, PioDelivers
<1>2. IdeNeedsService' = IdeNeedsService
  BY DEF IdeNeedsService, ideVars
<1>3. IdeNeedsService => guest = "ide"
  BY DEF IdeInv, IdeNeedsService
<1>4. guest = "ide" => (Up(pics', IRQ_IDE) <=> Up(pics, IRQ_IDE))
  BY IrqsAre DEF SameBut
<1>5. QED
  BY <1>1, <1>2, <1>3, <1>4 DEF IdeInv, ideVars
-----------------------------------------------------------------------------
(* The timer, the clock and the PCI devices *)

\* One call of set_irq.
LEMMA SetIrqStep ==
    ASSUME PicOK(pics), NEW irq \in Lines \ {2}, NEW level \in {0, 1},
           SetIrqs(<< <<irq, level>> >>)
    PROVE  /\ PicOK(pics') /\ SameBut(pics, pics', {irq})
           /\ Up(pics', irq) <=> level = 1
           /\ irq \in Elcr => (Latched(pics', irq) <=> level = 1)
           /\ Taken(pics', irq) => Taken(pics, irq)
<1>1. pics' = pic2_set_irq(pics, irq, level)
  BY OneCall DEF SetIrqs
<1>2. QED
  BY <1>1, SetIrqIs

LEMMA TickKeeps ==
    ASSUME IInv, Tick PROVE IInv'
<1> DEFINE a == <<IRQ_TIMER, 1>>
           b == <<IRQ_TIMER, 0>>
           x == pic2_set_irq(pics, IRQ_TIMER, 1)
           y == pic2_set_irq(x, IRQ_TIMER, 0)
<1>1. pics' = y
  <2>2. a[1] = IRQ_TIMER /\ a[2] = 1 /\ b[1] = IRQ_TIMER /\ b[2] = 0
    OBVIOUS
  <2> HIDE DEF a, b
  <2> DEFINE S == {a, b}
             none == << >>
  <2>1. none \in Seq(S) /\ none \o <<a, b>> = <<a, b>> /\ a \in S /\ b \in S
    OBVIOUS
  <2> HIDE DEF S, none
  <2>3. AfterCalls(pics, none \o <<a, b>>)
          = pic2_set_irq(pic2_set_irq(AfterCalls(pics, none), a[1], a[2]), b[1], b[2])
    BY <2>1, TwoMoreCalls
  <2>4. AfterCalls(pics, <<a, b>>) = y
    <3>1. AfterCalls(pics, none) = pics
      BY NoCall DEF none
    <3>2. QED
      BY <2>1, <2>2, <2>3, <3>1
  <2>5. pics' = AfterCalls(pics, <<a, b>>)
    BY DEF Tick, SetIrqs, a, b
  <2>6. QED
    BY <2>4, <2>5
<1>2. PicOK(pics) /\ IRQ_TIMER \in Lines \ {2} /\ IRQ_TIMER = 0
  BY DEF IInv, LinesInv, IRQ_TIMER, Lines
<1>3. PicOK(x) /\ SameBut(pics, x, {0})
  BY <1>2, SetIrqIs
<1> HIDE DEF x
<1>4. PicOK(y) /\ SameBut(x, y, {0})
  BY <1>2, <1>3, SetIrqIs
<1>5. PicOK(pics') /\ SameBut(pics, pics', {0})
  BY <1>1, <1>3, <1>4 DEF SameBut
<1>6. {0} \cap Irqs = {} /\ {0} \cap Elcr = {} /\ IRQ_CLOCK \notin {0} /\ IRQ_IDE \notin {0}
      /\ {0} \cap {IRQ_KBD, IRQ_MOUSE} = {}
  BY IrqsAre
<1>7. UNCHANGED <<guest, cpu, reg_c, irq_state, unvisited, kbc, ideVars>>
  BY DEF Tick, ps2Vars, pci, others
<1>8. LinesInv'
  BY <1>5, <1>6, <1>7, LinesKeep DEF IInv, InService
<1>9. CpuInv' /\ ClockInv' /\ PciInv' /\ KbcInv' /\ IdeInv'
  BY <1>5, <1>6, <1>7, ClockKeep, PciKeep, KbcKeep, IdeKeep DEF IInv, CpuInv
<1>10. QED
  BY <1>8, <1>9 DEF IInv

LEMMA ClockTickKeeps ==
    ASSUME IInv, ClockTick PROVE IInv'
<1>1. UNCHANGED <<guest, cpu, irq_state, unvisited, kbc, ideVars>> /\ guest = "clock"
  BY DEF ClockTick, ps2Vars, pci, others
<1>2. /\ PicOK(pics') /\ SameBut(pics, pics', {IRQ_CLOCK}) /\ Up(pics', IRQ_CLOCK)
      /\ Taken(pics', IRQ_CLOCK) => Taken(pics, IRQ_CLOCK)
  BY SetIrqStep, IrqsAre DEF ClockTick, IInv, LinesInv
<1>3. LinesInv'
  BY <1>1, <1>2, LinesKeep DEF IInv, InService
<1>4. ClockInv'
  BY <1>2 DEF ClockInv
<1>5. CpuInv' /\ PciInv' /\ KbcInv' /\ IdeInv'
  BY <1>1, <1>2, PciKeep, KbcKeep, IdeKeep DEF IInv, UsesPs2, CpuInv
<1>6. QED
  BY <1>3, <1>4, <1>5 DEF IInv

\* A device changes its part of the level of a line.
LEMMA PciIrqKeeps ==
    ASSUME IInv, guest = "pci", NEW d \in PciDevices, NEW level \in {0, 1}, PciIrq(d, level),
           UNCHANGED <<guest, cpu, reg_c, kbc, ideVars>>, unvisited' \subseteq unvisited
    PROVE  IInv'
<1> DEFINE pin == bus_map_irq(d)
           line == pci_irqs[pin]
           state == [irq_state EXCEPT ![pin] = IF level = 1 THEN @ \cup {d} ELSE @ \ {d}]
           up == IF \E n \in Pins : pci_irqs[n] = line /\ state[n] # {} THEN 1 ELSE 0
<1>1. pin \in Pins /\ line \in Elcr /\ line \in Lines \ {2}
  BY PciAssumption, IrqsAre DEF bus_map_irq, Pins, Elcr
<1>2. irq_state \in [Pins -> SUBSET PciDevices]
  BY DEF IInv, PciInv
<1>3. state \in [Pins -> SUBSET PciDevices] /\ \A n \in Pins \ {pin} : state[n] = irq_state[n]
  BY <1>1, <1>2
<1>4. irq_state' = state /\ SetIrqs(<< <<line, up>> >>) /\ up \in {0, 1}
  BY DEF PciIrq
<1>5. up = 1 <=> \E n \in Pins : pci_irqs[n] = line /\ state[n] # {}
  OBVIOUS
<1> HIDE DEF state, up, line, pin
<1>6. /\ PicOK(pics') /\ SameBut(pics, pics', {line})
      /\ Latched(pics', line) <=> up = 1
      /\ Taken(pics', line) => Taken(pics, line)
  BY <1>1, <1>4, SetIrqStep DEF IInv, LinesInv
<1>7. LinesInv'
  BY <1>6, LinesKeep DEF IInv, InService
<1>8. PciInv'
  <2>1. ASSUME NEW irq \in Elcr, PciNeedsService(irq)' PROVE Latched(pics', irq)
    <3>1. PICK e \in PciDevices : e \in state[bus_map_irq(e)] /\ pci_irqs[bus_map_irq(e)] = irq
      BY <1>4, <2>1 DEF PciNeedsService, Raises
    <3>2. bus_map_irq(e) \in Pins
      BY PciAssumption DEF bus_map_irq, Pins
    <3>3. CASE irq = line
      BY <1>5, <1>6, <3>1, <3>2, <3>3
    <3>4. CASE irq # line
      <4>1. bus_map_irq(e) # pin
        BY <3>1, <3>4 DEF line
      <4>2. e \in irq_state[bus_map_irq(e)]
        BY <1>3, <3>1, <3>2, <4>1
      <4>3. PciNeedsService(irq)
        BY <3>1, <4>2 DEF PciNeedsService, Raises
      <4>4. Latched(pics, irq)
        BY <4>3 DEF IInv, PciInv
      <4>5. QED
        BY <1>6, <3>4, <4>4, IrqsAre DEF SameBut
    <3>5. QED
      BY <3>3, <3>4
  <2>2. QED
    BY <1>3, <1>4, <2>1 DEF PciInv
<1>9. CpuInv' /\ ClockInv' /\ KbcInv' /\ IdeInv'
  BY <1>1, <1>6, ClockKeep, KbcKeep, IdeKeep, IrqsAre DEF IInv, UsesPs2, CpuInv
<1>10. QED
  BY <1>7, <1>8, <1>9 DEF IInv
-----------------------------------------------------------------------------
(* The CPU *)

LEMMA TakeInterruptKeeps ==
    ASSUME IInv, TakeInterrupt PROVE IInv'
<1> DEFINE taken == pic2_get_hard_intno(pics)
<1>1. /\ cpu.at = "run" /\ pics' = taken.pics
      /\ cpu' = [at |-> IF style = "mask" THEN "entry" ELSE "serve", irq |-> taken.irq]
      /\ UNCHANGED <<guest, reg_c, irq_state, kbc, ideVars>>
  BY DEF TakeInterrupt, ps2Vars
<1>2. /\ taken.irq \in Lines /\ PicOK(taken.pics)
      /\ \A irq \in Lines \ {2} :
           /\ Up(taken.pics, irq) <=> Up(pics, irq)
           /\ Latched(pics, irq) =>
                Latched(taken.pics, irq) \/ (taken.irq = irq /\ irq \notin Elcr)
  BY AcknowledgeIs DEF IInv, LinesInv
<1> HIDE DEF taken
<1>3. LinesInv'
  <2>1. ASSUME NEW irq \in Irqs, Taken(pics', irq) PROVE InService(irq)' /\ irq \notin Elcr
    <3>1. Up(pics, irq) /\ ~Latched(pics', irq)
      BY <1>1, <1>2, <2>1, IrqsAre DEF Taken
    <3>2. ~InService(irq)
      BY <1>1 DEF InService
    <3>3. Latched(pics, irq)
      BY <3>1, <3>2 DEF Taken, IInv, LinesInv, Irqs
    <3>4. taken.irq = irq /\ irq \notin Elcr
      BY <1>1, <1>2, <3>1, <3>3, IrqsAre
    <3>5. QED
      BY <1>1, <3>4 DEF InService
  <2>2. QED
    BY <1>1, <1>2, <2>1 DEF LinesInv, Irqs
<1>4. ClockInv'
  BY <1>1, <1>2, IrqsAre DEF IInv, ClockInv
<1>5. PciInv'
  <2>1. \A irq \in Elcr : Latched(pics, irq) => Latched(pics', irq)
    BY <1>1, <1>2, IrqsAre
  <2>2. \A irq : PciNeedsService(irq)' = PciNeedsService(irq)
    BY <1>1 DEF PciNeedsService, Raises
  <2>3. QED
    BY <1>1, <2>1, <2>2 DEF IInv, PciInv
<1>6. KbcInv'
  <2>1. UsesPs2' = UsesPs2 /\ KbdLevel(kbc)' = KbdLevel(kbc) /\ MouseLevel(kbc)' = MouseLevel(kbc)
    BY <1>1 DEF UsesPs2, KbdLevel, MouseLevel
  <2>2. /\ Up(pics', IRQ_KBD) <=> Up(pics, IRQ_KBD)
        /\ Up(pics', IRQ_MOUSE) <=> Up(pics, IRQ_MOUSE)
    BY <1>1, <1>2, IrqsAre
  <2>3. QED
    BY <1>1, <2>1, <2>2 DEF IInv, KbcInv
<1>7. IdeInv'
  <2>1. IdeCore'
    BY <1>1 DEF IInv, IdeInv, ideVars, IdeCore, IdeTypes, WriteInv, ReadInv, OtherInv, Busy, HasDrq,
             IsIdle, Failed, Written, Fetched, Sending, ContentsOf, PioDelivers
  <2>2. IdeNeedsService' = IdeNeedsService
    BY <1>1 DEF IdeNeedsService, ideVars
  <2>3. Up(pics', IRQ_IDE) <=> Up(pics, IRQ_IDE)
    BY <1>1, <1>2, IrqsAre
  <2>4. QED
    BY <1>1, <2>1, <2>2, <2>3 DEF IInv, IdeInv, ideVars
<1>8. CpuInv'
  BY <1>1, <1>2 DEF CpuInv, TakeInterrupt
<1>9. QED
  BY <1>3, <1>4, <1>5, <1>6, <1>7, <1>8 DEF IInv

\* No line changes.
LEMMA LinesStay ==
    ASSUME IInv, CpuInv', PicOK(pics'), SameBut(pics, pics', {}),
           UNCHANGED <<guest, reg_c, irq_state, kbc, ideVars>>,
           \A irq \in Irqs \ Elcr : Taken(pics', irq) /\ InService(irq) => InService(irq)'
    PROVE  IInv'
<1>1. LinesInv'
  BY LinesKeep DEF IInv
<1>2. ClockInv' /\ PciInv' /\ KbcInv' /\ IdeInv'
  BY ClockKeep, PciKeep, KbcKeep, IdeKeep DEF IInv
<1>3. QED
  BY <1>1, <1>2 DEF IInv

LEMMA NoChange ==
    SameBut(pics, pics, {})
  BY DEF SameBut

LEMMA MaskWriteIs ==
    ASSUME NEW b PROVE GuestWrite(MaskWrite(b))
<1> DEFINE w == MaskWrite(b)
<1>1. w[1] \in {"m", "s"} /\ w[2] = 1
  <2>1. CASE cpu.irq \in SlaveIrqs
    BY <2>1 DEF MaskWrite
  <2>2. CASE cpu.irq \notin SlaveIrqs
    BY <2>2 DEF MaskWrite
  <2>3. QED
    BY <2>1, <2>2
<1> HIDE DEF w
<1>2. GuestWrite(w)
  BY <1>1 DEF GuestWrite
<1>3. QED
  BY <1>2 DEF w

LEMMA EntryKeeps ==
    ASSUME IInv, Entry PROVE IInv'
<1> DEFINE ws == IF cpu.irq \in SlaveIrqs
                 THEN << MaskWrite(TRUE), <<"s", 0, 96 + (cpu.irq % 8)>>, <<"m", 0, 98>> >>
                 ELSE << MaskWrite(TRUE), <<"m", 0, 96 + cpu.irq>> >>
<1>1. pics' = pic_writes(pics, ws) /\ cpu.at = "entry" /\ cpu' = [cpu EXCEPT !.at = "serve"]
  BY DEF Entry
<1>2. UNCHANGED <<guest, reg_c, irq_state, unvisited, kbc, ideVars>>
  BY DEF Entry, ps2Vars, pci
<1>3. GuestWrite(MaskWrite(TRUE))
  BY MaskWriteIs, Zenon
<1>4. cpu \in [at : {"run", "entry", "serve", "byte", "data", "end"}, irq : Lines]
  BY DEF IInv, CpuInv
<1>5. Len(ws) \in Nat /\ \A i \in 1 .. Len(ws) : GuestWrite(ws[i])
  <2> DEFINE v == MaskWrite(TRUE)
  <2> HIDE DEF v
  <2>1. CASE cpu.irq \in SlaveIrqs
    <3> DEFINE b == <<"s", 0, 96 + (cpu.irq % 8)>>
               c == <<"m", 0, 98>>
    <3>1. GuestWrite(b) /\ GuestWrite(c)
      BY <1>4 DEF GuestWrite, Lines
    <3>2. ws = <<v, b, c>>
      BY <2>1 DEF v
    <3>3. GuestWrite(v)
      BY <1>3 DEF v
    <3> HIDE DEF ws, b, c
    <3>4. QED
      BY <3>1, <3>2, <3>3
  <2>2. CASE cpu.irq \notin SlaveIrqs
    <3> DEFINE b == <<"m", 0, 96 + cpu.irq>>
    <3>1. GuestWrite(b)
      BY <1>4, <2>2 DEF GuestWrite, Lines, SlaveIrqs
    <3>2. ws = <<v, b>>
      BY <2>2 DEF v
    <3>3. GuestWrite(v)
      BY <1>3 DEF v
    <3> HIDE DEF ws, b
    <3>4. QED
      BY <3>1, <3>2, <3>3
  <2>3. QED
    BY <2>1, <2>2
<1> HIDE DEF ws
<1>6. PicOK(pics') /\ SameBut(pics, pics', {})
  BY <1>1, <1>5, WritesAre DEF IInv, LinesInv
<1>7. CpuInv' /\ \A irq : InService(irq) => InService(irq)'
  BY <1>1, <1>2, <1>4 DEF IInv, CpuInv, InService
<1>8. QED
  BY <1>2, <1>6, <1>7, LinesStay

LEMMA EndKeeps ==
    ASSUME IInv, End PROVE IInv'
<1> DEFINE ws == IF style = "mask" THEN << MaskWrite(FALSE) >>
                 ELSE IF cpu.irq \in SlaveIrqs THEN << <<"s", 0, 32>>, <<"m", 0, 32>> >>
                 ELSE << <<"m", 0, 32>> >>
<1>1. pics' = pic_writes(pics, ws) /\ cpu.at = "end" /\ cpu' = [at |-> "run", irq |-> 0]
  BY DEF End
<1>2. UNCHANGED <<guest, reg_c, irq_state, unvisited, kbc, ideVars>>
  BY DEF End, ps2Vars, pci
<1>3. Len(ws) \in Nat /\ \A i \in 1 .. Len(ws) : GuestWrite(ws[i])
  <2> DEFINE v == MaskWrite(FALSE)
             b == <<"s", 0, 32>>
             c == <<"m", 0, 32>>
  <2>1. GuestWrite(v) /\ GuestWrite(b) /\ GuestWrite(c)
    <3>1. GuestWrite(v)
      BY MaskWriteIs, Zenon
    <3>2. QED
      BY <3>1 DEF GuestWrite
  <2>2. ws \in {<<v>>, <<b, c>>, <<c>>}
    OBVIOUS
  <2> HIDE DEF ws, v, b, c
  <2>3. QED
    BY <2>1, <2>2
<1> HIDE DEF ws
<1>4. PicOK(pics') /\ SameBut(pics, pics', {})
  BY <1>1, <1>3, WritesAre DEF IInv, LinesInv
<1>5. CpuInv' /\ \A irq : ~InService(irq)
  BY <1>1, <1>2 DEF IInv, CpuInv, InService, Lines
<1>6. QED
  BY <1>2, <1>4, <1>5, LinesStay

LEMMA ServeClockKeeps ==
    ASSUME IInv, cpu.at = "serve", ServeClock PROVE IInv'
<1>1. /\ cpu.irq = IRQ_CLOCK /\ reg_c' = FALSE /\ cpu' = [cpu EXCEPT !.at = "end"]
      /\ UNCHANGED <<guest, irq_state, unvisited, kbc, ideVars>>
  BY DEF ServeClock, Go, ps2Vars, pci
<1>2. /\ PicOK(pics') /\ SameBut(pics, pics', {IRQ_CLOCK}) /\ ~Up(pics', IRQ_CLOCK)
      /\ Taken(pics', IRQ_CLOCK) => Taken(pics, IRQ_CLOCK)
  BY SetIrqStep, IrqsAre DEF ServeClock, IInv, LinesInv
<1>3. CpuInv'
  BY <1>1 DEF IInv, CpuInv
<1>4. LinesInv'
  <2>1. \A irq \in Irqs \ Elcr : Taken(pics', irq) /\ InService(irq) => InService(irq)'
    BY <1>1, <1>2 DEF InService, Taken
  <2>2. QED
    BY <1>2, <2>1, LinesKeep DEF IInv
<1>5. ClockInv'
  BY <1>1 DEF ClockInv
<1>6. PciInv' /\ KbcInv' /\ IdeInv'
  <2>1. {IRQ_CLOCK} \cap Elcr = {} /\ {IRQ_CLOCK} \cap {IRQ_KBD, IRQ_MOUSE} = {}
        /\ IRQ_IDE \notin {IRQ_CLOCK}
    BY IrqsAre
  <2>2. QED
    BY <1>1, <1>2, <2>1, PciKeep, KbcKeep, IdeKeep DEF IInv
<1>7. QED
  BY <1>3, <1>4, <1>5, <1>6 DEF IInv

\* A line that is not taken by the CPU may leave its handler.
LEMMA HandlerEnds ==
    ASSUME IInv, cpu' = [cpu EXCEPT !.at = "end"],
           UNCHANGED <<pics, guest, reg_c, irq_state, unvisited, kbc, ideVars>>,
           cpu.irq \in Irqs \ Elcr => ~Taken(pics, cpu.irq)
    PROVE  IInv'
<1>1. CpuInv'
  BY DEF IInv, CpuInv
<1>2. PicOK(pics') /\ SameBut(pics, pics', {})
  BY NoChange DEF IInv, LinesInv
<1>3. \A irq \in Irqs \ Elcr : Taken(pics', irq) /\ InService(irq) => InService(irq)'
  BY DEF InService
<1>4. QED
  BY <1>1, <1>2, <1>3, LinesStay

LEMMA ServeNothingKeeps ==
    ASSUME IInv, cpu.at = "serve", ServeNothing PROVE IInv'
<1>1. /\ cpu.irq \in {0, 7, 15} /\ cpu' = [cpu EXCEPT !.at = "end"]
      /\ UNCHANGED <<pics, guest, reg_c, irq_state, unvisited, kbc, ideVars>>
  BY DEF ServeNothing, Go, ps2Vars, pci, IRQ_TIMER
<1>2. cpu.irq \notin Irqs \ Elcr
  BY <1>1, IrqsAre DEF Irqs
<1>3. QED
  BY <1>1, <1>2, HandlerEnds

LEMMA ServePciKeeps ==
    ASSUME IInv, cpu.at = "serve", ServePci PROVE IInv'
<1>1. /\ cpu.irq \in Elcr /\ guest = "pci"
      /\ UNCHANGED <<reg_c, kbc, ideVars>>
  BY DEF ServePci, ps2Vars
<1>2. CASE UNCHANGED <<pics, pci>> /\ Go("end")
  BY <1>1, <1>2, HandlerEnds DEF Go, pci
<1>3. CASE \E d \in unvisited : /\ unvisited' = unvisited \ {d} /\ PciIrq(d, 0)
                                  /\ UNCHANGED <<guest, style, cpu>>
  <2>1. PICK d \in unvisited : PciIrq(d, 0) /\ UNCHANGED <<guest, style, cpu>>
    BY <1>3
  <2>2. d \in PciDevices
    BY DEF IInv, CpuInv
  <2>3. unvisited' \subseteq unvisited
    BY <1>3
  <2>4. QED
    BY <1>1, <2>1, <2>2, <2>3, PciIrqKeeps
<1>4. CASE UNCHANGED <<pics, irq_state, guest, style, cpu>> /\ unvisited' \subseteq unvisited
  <2>1. PicOK(pics') /\ SameBut(pics, pics', {})
    BY <1>4, NoChange DEF IInv, LinesInv
  <2>2. CpuInv' /\ \A irq : InService(irq) => InService(irq)'
    BY <1>4 DEF IInv, CpuInv, InService
  <2>3. QED
    BY <1>1, <1>4, <2>1, <2>2, LinesStay
<1>5. QED
  BY <1>2, <1>3, <1>4 DEF ServePci
-----------------------------------------------------------------------------
(* Keyboard and mouse *)

LEMMA KbcIsOK ==
    ASSUME IInv, UsesPs2 PROVE KOK(kbc) /\ PicsOf(kbc) = pics
<1>1. PicsOf(kbc) = pics
  BY NoCall DEF PicsOf, IInv, KbcInv
<1>2. SameBut(pics, pics, {IRQ_KBD, IRQ_MOUSE})
  BY DEF SameBut
<1>3. QED
  BY <1>1, <1>2 DEF KOK, CallsOK, IInv, KbcInv, LinesInv

\* What a step of the devices leaves, and the calls that follow.
LEMMA Ps2StepKeeps ==
    ASSUME IInv, UsesPs2, NEW j, KOK(j), Ps2Step(j), CpuInv',
           UNCHANGED <<guest, reg_c, irq_state, ideVars>>,
           \A irq \in Irqs \ Elcr : Taken(PicsOf(j), irq) /\ InService(irq) => InService(irq)'
    PROVE  IInv'
<1>1. kbc' = [j EXCEPT !.calls = << >>] /\ pics' = PicsOf(j)
  BY DEF Ps2Step, SetIrqs, PicsOf
<1>2. /\ PicOK(pics') /\ SameBut(pics, pics', {IRQ_KBD, IRQ_MOUSE})
      /\ \A irq \in {IRQ_KBD, IRQ_MOUSE} : Taken(pics', irq) => Taken(pics, irq)
  BY <1>1 DEF KOK, CallsOK
<1>3. LinesInv'
  BY <1>1, <1>2, LinesKeep DEF IInv
<1>4. guest # "pci" /\ guest # "ide" /\ IRQ_CLOCK \notin {IRQ_KBD, IRQ_MOUSE}
      /\ IRQ_IDE \notin {IRQ_KBD, IRQ_MOUSE}
  BY IrqsAre DEF UsesPs2
<1>5. ClockInv' /\ PciInv' /\ IdeInv'
  BY <1>2, <1>4, ClockKeep, PciKeep, IdeKeep DEF IInv
<1>6. KbcInv'
  <2>1. j \in KType
    BY DEF KOK, CallsOK
  <2>2. /\ kbc' \in KType /\ kbc'.calls = << >> /\ kbc'.status = j.status
        /\ kbc'.pending = j.pending /\ kbc'.mode = j.mode
        /\ \A d \in Devs : kbc'[d] = j[d]
    <3>1. /\ kbc'.kbd = j.kbd /\ kbc'.mouse = j.mouse /\ kbc'.write_cmd = j.write_cmd
          /\ kbc'.status = j.status /\ kbc'.mode = j.mode /\ kbc'.pending = j.pending
          /\ kbc'.calls = << >>
      BY <1>1, <2>1 DEF KType
    <3>2. kbc' \in KType
      <4> DEFINE C == Seq({IRQ_KBD, IRQ_MOUSE} \X {0, 1})
      <4>1. << >> \in C
        OBVIOUS
      <4> HIDE DEF C
      <4>2. QED
        BY <1>1, <2>1, <4>1 DEF KType, C
    <3>3. QED
      BY <2>1, <3>1, <3>2 DEF KType, Devs
  <2>3. UsesPs2' /\ KbdLevel(kbc') = KbdLevel(j) /\ MouseLevel(kbc') = MouseLevel(j)
    BY <2>2 DEF UsesPs2, KbdLevel, MouseLevel
  <2>4. \A d \in kbc'.pending : kbc'[d].queue # << >>
    BY <2>1, <2>2 DEF KOK, KType
  <2>5. QED
    BY <1>1, <2>2, <2>3, <2>4 DEF KOK, KbcInv
<1>7. QED
  BY <1>3, <1>5, <1>6 DEF IInv

LEMMA HostPs2Keeps ==
    ASSUME IInv, UsesPs2, KeyEvent \/ MouseEvent, UNCHANGED <<ps2_others, others>> PROVE IInv'
<1>1. UNCHANGED <<guest, cpu, reg_c, irq_state, unvisited, ideVars>>
  BY DEF ps2_others, others, pci
<1>2. CpuInv' /\ \A irq : InService(irq) => InService(irq)'
  BY <1>1 DEF IInv, CpuInv, InService
<1>3. KOK(kbc)
  BY KbcIsOK
<1>4. CASE KeyEvent
  <2>1. PICK is_extended \in BOOLEAN : Ps2Step(ps2_put_keycode(kbc, is_extended))
    BY <1>4 DEF KeyEvent
  <2>2. KOK(ps2_put_keycode(kbc, is_extended))
    BY <1>3, SendKeeps DEF ps2_put_keycode, Devs, Messages
  <2>3. QED
    BY <1>1, <1>2, <2>1, <2>2, Ps2StepKeeps
<1>5. CASE MouseEvent
  <2>1. PICK e \in Movements : vmmouse_send_mouse_event(e)
    BY <1>5 DEF MouseEvent
  <2>2. KOK(ps2_mouse_event(kbc, e)) /\ KOK(ps2_mouse_event(kbc, Nudge))
    <3>1. e \in [dx : Int, dy : Int, dz : Int, buttons : Int]
      BY Ps2Assumption
    <3>2. Nudge \in [dx : Int, dy : Int, dz : Int, buttons : Int]
      BY DEF Nudge
    <3>3. QED
      BY <1>3, <3>1, <3>2, EventKeeps
  <2>3. CASE Ps2Step(ps2_mouse_event(kbc, e)) \/ Ps2Step(ps2_mouse_event(kbc, Nudge))
    BY <1>1, <1>2, <2>2, <2>3, Ps2StepKeeps
  <2>4. CASE UNCHANGED <<kbc, pics>>
    BY <1>1, <1>2, <2>4, LinesStay, NoChange DEF IInv, LinesInv
  <2>5. QED
    BY <2>1, <2>3, <2>4 DEF vmmouse_send_mouse_event
<1>6. QED
  BY <1>4, <1>5

LEMMA GuestPs2Keeps ==
    ASSUME IInv, GuestPs2 PROVE IInv'
<1>1. UsesPs2 /\ UNCHANGED <<guest, cpu, reg_c, irq_state, unvisited, ideVars>>
  BY DEF GuestPs2, ps2_others, others, pci
<1>2. CpuInv' /\ \A irq : InService(irq) => InService(irq)'
  BY <1>1 DEF IInv, CpuInv, InService
<1>3. KOK(kbc)
  BY <1>1, KbcIsOK
<1>4. ASSUME NEW j, KOK(j), Ps2Step(j) PROVE IInv'
  BY <1>1, <1>2, <1>4, Ps2StepKeeps
<1>5. CASE WriteKeyboard
  <2>1. PICK val \in KeyboardCommands : Ps2Step(kbd_write_data(kbc, val))
    BY <1>5 DEF WriteKeyboard
  <2>2. kbc.write_cmd # "write_mode"
    BY <1>5 DEF WriteKeyboard
  <2>3. KOK(kbd_write_data(kbc, val))
    BY <1>3, <2>2, WriteDataKeeps
  <2>4. QED
    BY <1>4, <2>1, <2>3
<1>6. CASE WriteController
  <2>1. PICK val \in ControllerCommands : Ps2Step(kbd_write_command(kbc, val))
    BY <1>6 DEF WriteController
  <2>2. QED
    BY <1>3, <1>4, <2>1, WriteCommandKeeps
<1>7. CASE WriteArgument
  <2>1. PICK val : /\ Ps2Step(kbd_write_data(kbc, val))
                   /\ kbc.write_cmd = "write_mode" => val \in SUBSET Modes
    BY <1>7 DEF WriteArgument, DriverData, Modes
  <2>2. KOK(kbd_write_data(kbc, val))
    BY <1>3, <2>1, WriteDataKeeps
  <2>3. QED
    BY <1>4, <2>1, <2>2
<1>8. CASE VmCommand \/ ReadWords
  <2>1. UNCHANGED <<kbc, pics>>
    BY <1>8 DEF VmCommand, ReadWords
  <2>2. QED
    BY <1>1, <1>2, <2>1, LinesStay, NoChange DEF IInv, LinesInv
<1>9. QED
  BY <1>5, <1>6, <1>7, <1>8 DEF GuestPs2

LEMMA ServePs2Keeps ==
    ASSUME IInv, cpu.at = "serve", ServePs2 PROVE IInv'
<1>1. /\ UsesPs2 /\ cpu.irq \in {IRQ_KBD, IRQ_MOUSE}
      /\ UNCHANGED <<pics, kbc, guest, reg_c, irq_state, unvisited, ideVars>>
  BY DEF ServePs2, ReadStatus, Go, ps2_others, pci
<1>2. KOK(kbc) /\ PicsOf(kbc) = pics
  BY <1>1, KbcIsOK
<1>3. CASE cpu' = [cpu EXCEPT !.at = "byte"]
  <2>1. CpuInv' /\ \A irq : InService(irq) => InService(irq)'
    BY <1>1, <1>3 DEF IInv, CpuInv, InService, UsesPs2
  <2>2. PicOK(pics') /\ SameBut(pics, pics', {})
    BY <1>1, NoChange DEF IInv, LinesInv
  <2>3. QED
    BY <1>1, <2>1, <2>2, LinesStay
<1>4. CASE "obf" \notin kbc.status /\ cpu' = [cpu EXCEPT !.at = "end"]
  <2>1. ~KbdLevel(kbc) /\ ~MouseLevel(kbc)
    BY <1>2, <1>4 DEF KOK, KbdLevel, MouseLevel
  <2>2. ~Taken(pics, cpu.irq)
    BY <1>1, <1>2, <2>1 DEF KOK, Taken
  <2>3. QED
    BY <1>1, <1>4, <2>2, HandlerEnds
<1>5. QED
  BY <1>3, <1>4 DEF ServePs2, Go

LEMMA ServeByteKeeps ==
    ASSUME IInv, ServeByte PROVE IInv'
<1> DEFINE j == kbd_read_data(kbc)
<1>1. /\ cpu.at = "byte" /\ UsesPs2 /\ cpu.irq \in {IRQ_KBD, IRQ_MOUSE}
      /\ cpu' = [cpu EXCEPT !.at = "end"] /\ Ps2Step(j)
      /\ UNCHANGED <<guest, reg_c, irq_state, unvisited, ideVars>>
  BY DEF ServeByte, ReadByte, Go, ps2_others, pci, IInv, CpuInv, UsesPs2
<1>2. CpuInv'
  BY <1>1 DEF IInv, CpuInv
<1>3. KOK(j) /\ \A irq \in {IRQ_KBD, IRQ_MOUSE} : ~Taken(PicsOf(j), irq)
  BY <1>1, KbcIsOK, ReadKeeps
<1> HIDE DEF j
<1>4. \A irq \in Irqs \ Elcr : Taken(PicsOf(j), irq) /\ InService(irq) => InService(irq)'
  BY <1>1, <1>3 DEF InService
<1>5. QED
  BY <1>1, <1>2, <1>3, <1>4, Ps2StepKeeps
-----------------------------------------------------------------------------
(* Arithmetic of the registers of the drive *)

\* Quotient and remainder are the only ones.
LEMMA DivModIs ==
    ASSUME NEW b \in Nat \ {0}, NEW q \in Int, NEW r \in 0 .. b - 1
    PROVE  (b * q + r) \div b = q /\ (b * q + r) % b = r
<1> DEFINE a == b * q + r
           d == a \div b
           m == a % b
<1>1. a \in Int
  OBVIOUS
<1>2. d \in Int /\ m \in 0 .. b - 1 /\ a = b * d + m
  <2> HIDE DEF a
  <2>1. QED
    BY <1>1
<1> HIDE DEF d, m
<1>3. b * (q - d) = m - r
  BY <1>2
<1>4. ~(q > d)
  BY <1>2, <1>3
<1>5. ~(q < d)
  BY <1>2, <1>3
<1>6. q = d
  BY <1>2, <1>4, <1>5
<1>7. m = r
  BY <1>2, <1>3, <1>6
<1>8. QED
  BY <1>6, <1>7 DEF a, d, m

LEMMA DivMod ==
    ASSUME NEW a \in Nat, NEW b \in Nat \ {0}
    PROVE  /\ a \div b \in Nat /\ a % b \in 0 .. b - 1
           /\ a = b * (a \div b) + (a % b)
  OBVIOUS

LEMMA DivDiv ==
    ASSUME NEW n \in Nat, NEW a \in Nat \ {0}, NEW b \in Nat \ {0}
    PROVE  (n \div a) \div b = n \div (a * b)
<1> DEFINE q == n \div a
           r == n % a
           p == q \div b
           s == q % b
           ab == a * b
           t == a * s + r
<1>1. q \in Nat /\ r \in 0 .. a - 1 /\ n = a * q + r
  BY DivMod
<1> HIDE DEF q, r
<1>2. p \in Nat /\ s \in 0 .. b - 1 /\ q = b * p + s
  BY <1>1, DivMod
<1> HIDE DEF p, s
<1>3. ab \in Nat \ {0}
  OBVIOUS
<1>4. t \in 0 .. ab - 1
  <2>1. a * s <= a * (b - 1)
    BY <1>2
  <2>2. t \in Int /\ 0 <= t /\ t <= ab - 1
    BY <1>1, <1>2, <2>1
  <2> HIDE DEF t, ab
  <2>3. QED
    BY <1>3, <2>2
<1>5. n = ab * p + t
  BY <1>1, <1>2
<1> HIDE DEF ab, t
<1>6. (ab * p + t) \div ab = p
  BY <1>2, <1>3, <1>4, DivModIs
<1>7. QED
  BY <1>5, <1>6 DEF q, p, ab

LEMMA DivLess ==
    ASSUME NEW n \in Nat, NEW a \in Nat \ {0}, NEW m \in Nat, n < a * m
    PROVE  n \div a < m
<1> DEFINE q == n \div a
<1>1. q \in Nat /\ a * q <= n
  BY DivMod
<1> HIDE DEF q
<1>2. ~(q >= m)
  <2>1. q >= m => a * q >= a * m
    BY <1>1
  <2>2. QED
    BY <1>1, <2>1
<1>3. QED
  BY <1>1, <1>2 DEF q

LEMMA ModSmall ==
    ASSUME NEW n \in Nat, NEW b \in Nat \ {0}, n < b
    PROVE  n % b = n
<1>1. b * 0 + n = n /\ n \in 0 .. b - 1
  OBVIOUS
<1>2. (b * 0 + n) % b = n
  BY <1>1, DivModIs
<1>3. QED
  BY <1>1, <1>2

\* A sector's number from its parts, with R values of a register.
LEMMA ByNumber ==
    ASSUME NEW R \in Nat \ {0}, NEW n \in Nat, n < 16 * (R * R * R)
    PROVE  ((((((n \div (R * R * R)) % 16) * R) + ((n \div (R * R)) % R)) * R
                + ((n \div R) % R)) * R) + (n % R) = n
<1> DEFINE RR == R * R
           RRR == RR * R
           q1 == n \div R
           q2 == q1 \div R
           q3 == q2 \div R
           h == (n \div (R * R * R)) % 16
           c == (n \div (R * R)) % R
           l == (n \div R) % R
           s == n % R
<1>1. RR \in Nat \ {0} /\ RRR \in Nat \ {0} /\ n < RRR * 16
  <2>1. RR \in Nat \ {0}
    OBVIOUS
  <2>2. n < RRR * 16
    OBVIOUS
  <2> HIDE DEF RR
  <2>3. RRR \in Nat \ {0}
    BY <2>1
  <2>4. QED
    BY <2>1, <2>2, <2>3
<1>2. RRR = R * R * R /\ RR = R * R
  OBVIOUS
<1> HIDE DEF RR, RRR
<1>3. n = R * q1 + s /\ s \in 0 .. R - 1 /\ q1 \in Nat
  BY DivMod
<1>4. q2 = n \div RR
  BY <1>2, DivDiv
<1>5. q2 \in Nat /\ q1 = R * q2 + (q1 % R) /\ q1 % R \in 0 .. R - 1
  BY <1>3, DivMod
<1>6. q3 = n \div RRR
  <2>1. (n \div RR) \div R = n \div RRR
    BY <1>1, DivDiv DEF RRR
  <2>2. QED
    BY <1>4, <2>1, Zenon
<1>7. q3 \in Nat /\ q2 = R * q3 + (q2 % R) /\ q2 % R \in 0 .. R - 1
  BY <1>5, DivMod
<1>8. n \div RRR < 16
  BY <1>1, DivLess
<1>9. q3 % 16 = q3
  <2> HIDE DEF q3
  <2>1. QED
    BY <1>6, <1>7, <1>8, ModSmall
<1>10. h = q3
  BY <1>2, <1>6, <1>9, Zenon
<1>11. c = q2 % R
  BY <1>2, <1>4, Zenon
<1>12. l = q1 % R
  OBVIOUS
<1>13. ((h * R + c) * R + l) * R + s = n
  <2> DEFINE x == q1 % R
             y == q2 % R
  <2>1. /\ h = q3 /\ c = y /\ l = x /\ q1 \in Nat /\ q2 \in Nat /\ q3 \in Nat
        /\ x \in 0 .. R - 1 /\ y \in 0 .. R - 1 /\ s \in 0 .. R - 1
        /\ n = R * q1 + s /\ q1 = R * q2 + x /\ q2 = R * q3 + y
    BY <1>3, <1>5, <1>7, <1>10, <1>11, <1>12, Zenon
  <2> HIDE DEF h, c, l, s, q1, q2, q3, x, y
  <2>2. h * R + c = q2
    BY <2>1
  <2>3. q2 * R + l = q1
    BY <2>1
  <2>4. q1 * R + s = n
    BY <2>1
  <2>5. QED
    BY <2>2, <2>3, <2>4
<1>14. QED
  BY <1>13, Zenon DEF h, c, l, s

\* And by cylinder, head and sector.
LEMMA ByCylinder ==
    ASSUME NEW R \in Nat \ {0}, NEW H \in 1 .. 16, NEW S \in Nat \ {0}, NEW n \in Nat,
           n < R * R * H * S
    PROVE  LET cyl == n \div (H * S)
               r   == n % (H * S)
           IN  ((((((cyl \div R) % R) * R) + (cyl % R)) * H) * S) + (((r \div S) % 16) * S)
                 + (((r % S) + 1) - 1) = n
<1> DEFINE HS == H * S
           RR == R * R
           cyl == n \div HS
           r == n % HS
           hcyl == cyl \div R
           lcyl == cyl % R
           head == r \div S
           sector == r % S
<1>1. HS \in Nat \ {0} /\ RR \in Nat /\ n < HS * RR
  OBVIOUS
<1>2. \A x \in Int : (x * H) * S = HS * x
  OBVIOUS
<1>3. \A x \in Nat : x < HS => x < S * H
  OBVIOUS
<1>4. \A x \in Nat : x < RR => x < R * R
  OBVIOUS
<1> HIDE DEF HS, RR
<1>5. cyl \in Nat /\ r \in 0 .. HS - 1 /\ n = HS * cyl + r
  BY <1>1, DivMod
<1>6. cyl < RR
  BY <1>1, DivLess
<1> HIDE DEF cyl, r
<1>7. hcyl \in Nat /\ cyl = R * hcyl + lcyl /\ lcyl \in 0 .. R - 1
  BY <1>5, DivMod
<1>8. hcyl < R
  BY <1>4, <1>5, <1>6, DivLess
<1>9. r \in Nat /\ r < S * H
  BY <1>1, <1>3, <1>5
<1>10. head \in Nat /\ r = S * head + sector /\ sector \in 0 .. S - 1
  BY <1>9, DivMod
<1>11. head < H
  BY <1>9, DivLess
<1> HIDE DEF hcyl, lcyl, head, sector
<1>12. hcyl % R = hcyl /\ head % 16 = head
  BY <1>7, <1>8, <1>10, <1>11, ModSmall
<1>13. ((((hcyl % R) * R + lcyl) * H) * S) + ((head % 16) * S) + ((sector + 1) - 1) = n
  <2>1. (hcyl % R) * R + lcyl = cyl
    BY <1>7, <1>12
  <2>2. (cyl * H) * S = HS * cyl
    BY <1>2, <1>5
  <2>3. ((head % 16) * S) + ((sector + 1) - 1) = r
    BY <1>10, <1>12
  <2>4. HS * cyl \in Int /\ (head % 16) * S \in Int /\ (sector + 1) - 1 \in Int
    BY <1>1, <1>5, <1>10, <1>12
  <2>5. QED
    BY <1>5, <2>1, <2>2, <2>3, <2>4
<1>14. QED
  BY <1>13, Zenon DEF hcyl, lcyl, head, sector, cyl, r, HS

\* What is left of a count in a register, which holds 0 for all.
LEMMA LeftModulo ==
    ASSUME NEW R \in Nat \ {0}, NEW count \in 0 .. R - 1, NEW done \in 0 .. R,
           done <= (IF count = 0 THEN R ELSE count)
    PROVE  (count - done) % R = IF count = 0 /\ done > 0 THEN R - done ELSE count - done
<1>1. CASE count = 0 /\ done > 0
  <2>1. R * (-1) + (R - done) = count - done /\ R - done \in 0 .. R - 1
    BY <1>1
  <2>2. (R * (-1) + (R - done)) % R = R - done
    BY <2>1, DivModIs
  <2>3. QED
    BY <1>1, <2>1, <2>2
<1>2. CASE ~(count = 0 /\ done > 0)
  <2>1. R * 0 + (count - done) = count - done /\ count - done \in 0 .. R - 1
    BY <1>2
  <2>2. (R * 0 + (count - done)) % R = count - done
    BY <2>1, DivModIs
  <2>3. QED
    BY <1>2, <2>1, <2>2
<1>3. QED
  BY <1>1, <1>2
-----------------------------------------------------------------------------
(* The drive: registers *)

\* The same but for the address.
Rest(e, d) ==
    /\ e.lba = d.lba /\ e.nsector = d.nsector /\ e.status = d.status /\ e.error = d.error
    /\ e.mult_sectors = d.mult_sectors /\ e.io_nb_sectors = d.io_nb_sectors
    /\ e.req_nb_sectors = d.req_nb_sectors /\ e.end_transfer = d.end_transfer
    /\ e.data_index = d.data_index /\ e.data_end = d.data_end /\ e.io_buffer = d.io_buffer

SameAddress(e, d) ==
    e.lba = d.lba /\ e.head = d.head /\ e.hcyl = d.hcyl /\ e.lcyl = d.lcyl /\ e.sector = d.sector

LEMMA AddressOnly ==
    ASSUME NEW e, NEW d, SameAddress(e, d) PROVE ide_get_sector(e) = ide_get_sector(d)
  BY DEF SameAddress, ide_get_sector

LEMMA AddressType ==
    ASSUME NEW d \in DriveType PROVE ide_get_sector(d) \in Int
<1>1. /\ d.head \in Int /\ d.hcyl \in Int /\ d.lcyl \in Int /\ d.sector \in Int
      /\ RegSize \in Int /\ Heads \in Int /\ Sectors \in Int
  BY IdeAssumption DEF DriveType
<1>2. QED
  BY <1>1 DEF ide_get_sector

LEMMA SetSectorType ==
    ASSUME NEW d \in DriveType, NEW n \in Int
    PROVE  ide_set_sector(d, n) \in DriveType /\ Rest(ide_set_sector(d, n), d)
<1> DEFINE hs == Heads * Sectors
           r2 == RegSize * RegSize
           r3 == RegSize * RegSize * RegSize
<1>1. hs \in Nat \ {0} /\ r2 \in Nat \ {0} /\ r3 \in Nat \ {0}
  <2>1. r2 \in Nat \ {0} /\ hs \in Nat \ {0}
    BY IdeAssumption
  <2>2. r3 = r2 * RegSize
    OBVIOUS
  <2> HIDE DEF r2, r3
  <2>3. QED
    BY <2>1, <2>2, IdeAssumption
<1>2. ASSUME NEW a \in Int, NEW b \in Nat \ {0} PROVE a \div b \in Int /\ a % b \in Int
  OBVIOUS
<1>3. RegSize \in Nat \ {0} /\ Sectors \in Nat \ {0} /\ 16 \in Nat \ {0}
  BY IdeAssumption
<1>4. CASE d.lba
  <2> DEFINE a == (n \div r3) % 16
             b == (n \div r2) % RegSize
             c == (n \div RegSize) % RegSize
             s == n % RegSize
  <2>1. a \in Int /\ b \in Int /\ c \in Int /\ s \in Int
    BY <1>1, <1>2, <1>3
  <2>2. ide_set_sector(d, n) = [d EXCEPT !.head = a, !.hcyl = b, !.lcyl = c, !.sector = s]
    BY <1>4 DEF ide_set_sector
  <2> HIDE DEF a, b, c, s
  <2>3. QED
    BY <2>1, <2>2, ZenonT(60) DEF DriveType, Rest
<1>5. CASE ~d.lba
  <2> DEFINE cyl == n \div hs
             r == n % hs
             b == (cyl \div RegSize) % RegSize
             c == cyl % RegSize
             a == (r \div Sectors) % 16
             s == (r % Sectors) + 1
  <2>1. cyl \in Int /\ r \in Int
    BY <1>1, <1>2
  <2>2. ide_set_sector(d, n) = [d EXCEPT !.hcyl = b, !.lcyl = c, !.head = a, !.sector = s]
    BY <1>5 DEF ide_set_sector
  <2> HIDE DEF cyl, r
  <2>3. a \in Int /\ b \in Int /\ c \in Int /\ s \in Int
    BY <1>2, <1>3, <2>1
  <2> HIDE DEF a, b, c, s
  <2>4. QED
    BY <2>2, <2>3, ZenonT(60) DEF DriveType, Rest
<1>6. QED
  BY <1>4, <1>5

\* A sector that the registers can name is found again.
LEMMA SetSectorIs ==
    ASSUME NEW d \in DriveType, NEW n \in Nat, n < Capacity(d.lba)
    PROVE  ide_get_sector(ide_set_sector(d, n)) = n
<1> DEFINE e == ide_set_sector(d, n)
<1>1. CASE d.lba
  <2>1. /\ e.lba /\ e.head = (n \div (RegSize * RegSize * RegSize)) % 16
        /\ e.hcyl = (n \div (RegSize * RegSize)) % RegSize
        /\ e.lcyl = (n \div RegSize) % RegSize /\ e.sector = n % RegSize
    BY <1>1 DEF ide_set_sector, DriveType
  <2>2. n < 16 * (RegSize * RegSize * RegSize) /\ RegSize \in Nat \ {0}
    BY <1>1, IdeAssumption DEF Capacity
  <2> HIDE DEF e
  <2>3. ide_get_sector(e) =
          ((((e.head * RegSize) + e.hcyl) * RegSize + e.lcyl) * RegSize) + e.sector
    BY <2>1 DEF ide_get_sector
  <2>4. ide_get_sector(e) = n
    BY <2>1, <2>2, <2>3, ByNumber, Zenon
  <2>5. QED
    BY <2>4 DEF e
<1>2. CASE ~d.lba
  <2> DEFINE cyl == n \div (Heads * Sectors)
             r == n % (Heads * Sectors)
  <2>1. /\ ~e.lba /\ e.hcyl = (cyl \div RegSize) % RegSize /\ e.lcyl = cyl % RegSize
        /\ e.head = (r \div Sectors) % 16 /\ e.sector = (r % Sectors) + 1
    BY <1>2 DEF ide_set_sector, DriveType
  <2>2. n < RegSize * RegSize * Heads * Sectors /\ RegSize \in Nat \ {0}
        /\ Heads \in 1 .. 16 /\ Sectors \in Nat \ {0}
    BY <1>2, IdeAssumption DEF Capacity
  <2> HIDE DEF e
  <2>3. ide_get_sector(e) =
          (((e.hcyl * RegSize) + e.lcyl) * Heads * Sectors) + (e.head * Sectors) + (e.sector - 1)
    BY <2>1 DEF ide_get_sector
  <2>4. ide_get_sector(e) = n
    BY <2>1, <2>2, <2>3, ByCylinder, Zenon
  <2>5. QED
    BY <2>4 DEF e
<1>3. QED
  BY <1>1, <1>2

\* What AtSector says, for a command that moves sectors.
LEMMA AtSectorIs ==
    ASSUME NEW c \in IdeCommands, IsTransfer(c), NEW d \in DriveType, NEW done,
           AtSector(d, c, done)
    PROVE  /\ CountOf(c) \in 1 .. RegSize /\ done \in 0 .. CountOf(c) /\ c.first \in Nat
           /\ c.count \in 0 .. RegSize - 1 /\ CountOf(c) = (IF c.count = 0 THEN RegSize ELSE c.count)
           /\ c.first + CountOf(c) <= Capacity(d.lba) /\ Capacity(d.lba) \in Int
           /\ d.nsector = IF c.count = 0 /\ done > 0 THEN RegSize - done ELSE c.count - done
<1>1. /\ c.first \in Nat /\ c.count \in 0 .. RegSize - 1 /\ RegSize \in Nat \ {0}
      /\ c.first + CountOf(c) <= Capacity(c.lba)
  BY IdeAssumption
<1>2. CountOf(c) \in 1 .. RegSize /\ CountOf(c) = (IF c.count = 0 THEN RegSize ELSE c.count)
  BY <1>1 DEF CountOf
<1>3. done \in 0 .. CountOf(c) /\ d.lba = c.lba /\ d.nsector = (c.count - done) % RegSize
  BY DEF AtSector
<1>4. done \in 0 .. RegSize /\ done <= (IF c.count = 0 THEN RegSize ELSE c.count)
  BY <1>1, <1>2, <1>3
<1>5. (c.count - done) % RegSize
        = IF c.count = 0 /\ done > 0 THEN RegSize - done ELSE c.count - done
  <2> DEFINE n == c.count
  <2> HIDE DEF n
  <2>1. n \in 0 .. RegSize - 1 /\ done <= (IF n = 0 THEN RegSize ELSE n)
    BY <1>1, <1>4 DEF n
  <2>2. (n - done) % RegSize = IF n = 0 /\ done > 0 THEN RegSize - done ELSE n - done
    BY <1>1, <1>4, <2>1, LeftModulo
  <2>3. QED
    BY <2>2 DEF n
<1>6. Capacity(d.lba) \in Int
  <2>1. RegSize \in Int /\ Heads \in Int /\ Sectors \in Int
    BY IdeAssumption
  <2>2. QED
    BY <2>1 DEF Capacity
<1>7. QED
  BY <1>1, <1>2, <1>3, <1>5, <1>6

\* The next transfer stays within the command.
LEMMA NextCountIs ==
    ASSUME NEW c \in IdeCommands, IsTransfer(c), NEW d \in DriveType, NEW done,
           AtSector(d, c, done), done < CountOf(c)
    PROVE  NextCount(d) \in 1 .. CountOf(c) - done
<1>1. /\ CountOf(c) \in 1 .. RegSize /\ done \in 0 .. CountOf(c)
      /\ c.count \in 0 .. RegSize - 1 /\ CountOf(c) = (IF c.count = 0 THEN RegSize ELSE c.count)
      /\ d.nsector = IF c.count = 0 /\ done > 0 THEN RegSize - done ELSE c.count - done
  BY AtSectorIs
<1>2. (IF d.nsector = 0 THEN RegSize ELSE d.nsector) = CountOf(c) - done
  BY <1>1, IdeAssumption
<1>3. d.req_nb_sectors \in Nat /\ d.req_nb_sectors >= 1
  BY DEF AtSector, DriveType, Sizes
<1>4. QED
  BY <1>1, <1>2, <1>3 DEF NextCount

LEMMA MovedType ==
    ASSUME NEW d \in DriveType
    PROVE  LET e == ide_set_sector(d, ide_get_sector(d) + d.io_nb_sectors)
           IN  /\ Moved(d) \in DriveType
               /\ Moved(d) = [e EXCEPT !.nsector = (d.nsector - d.io_nb_sectors) % RegSize]
               /\ e \in DriveType /\ Rest(e, d)
<1> DEFINE n == ide_get_sector(d) + d.io_nb_sectors
           e == ide_set_sector(d, n)
           k == (d.nsector - d.io_nb_sectors) % RegSize
<1>1. d.nsector \in Int /\ d.io_nb_sectors \in Nat
  BY IdeAssumption DEF DriveType, Sizes
<1>2. k \in 0 .. RegSize - 1
  BY <1>1, IdeAssumption
<1>3. n \in Int
  BY <1>1, AddressType
<1>4. Moved(d) = [e EXCEPT !.nsector = (@ - d.io_nb_sectors) % RegSize]
  BY DEF Moved
<1> HIDE DEF n
<1>5. e \in DriveType /\ Rest(e, d)
  BY <1>3, SetSectorType
<1> HIDE DEF e
<1>6. Moved(d) = [e EXCEPT !.nsector = k]
  BY <1>4, <1>5 DEF Rest
<1> HIDE DEF k
<1>7. Moved(d) \in DriveType
  BY <1>2, <1>5, <1>6 DEF DriveType
<1>8. QED
  BY <1>5, <1>6, <1>7 DEF e, n, k

\* The registers after a transfer of n sectors.
LEMMA MovedIs ==
    ASSUME NEW c \in IdeCommands, IsTransfer(c), NEW d \in DriveType, NEW done,
           AtSector(d, c, done), d.io_nb_sectors \in 1 .. CountOf(c) - done
    PROVE  LET e == Moved(d)
               n == d.io_nb_sectors
           IN  /\ e \in DriveType /\ AtSector(e, c, done + n)
               /\ e.nsector = 0 <=> done + n = CountOf(c)
               /\ e.status = d.status /\ e.error = d.error /\ e.mult_sectors = d.mult_sectors
               /\ e.io_nb_sectors = n /\ e.io_buffer = d.io_buffer
               /\ e.req_nb_sectors = d.req_nb_sectors
<1> DEFINE n == d.io_nb_sectors
           first == ide_get_sector(d)
           f == ide_set_sector(d, first + n)
           e == Moved(d)
           k == (d.nsector - n) % RegSize
<1>1. /\ CountOf(c) \in 1 .. RegSize /\ done \in 0 .. CountOf(c) /\ c.first \in Nat
      /\ c.count \in 0 .. RegSize - 1 /\ CountOf(c) = (IF c.count = 0 THEN RegSize ELSE c.count)
      /\ c.first + CountOf(c) <= Capacity(d.lba) /\ Capacity(d.lba) \in Int
      /\ d.nsector = IF c.count = 0 /\ done > 0 THEN RegSize - done ELSE c.count - done
  BY AtSectorIs
<1>2. /\ e \in DriveType /\ e = [f EXCEPT !.nsector = k] /\ f \in DriveType /\ Rest(f, d)
  BY MovedType
<1>3. n \in 1 .. CountOf(c) - done /\ RegSize \in Nat \ {0, 1}
  BY IdeAssumption
<1>4. done < CountOf(c) /\ first = c.first + done /\ d.lba = c.lba /\ d.req_nb_sectors >= 1
  BY <1>1, <1>3 DEF AtSector
<1>5. done + n < CountOf(c) => ide_get_sector(f) = c.first + done + n
  <2> SUFFICES ASSUME done + n < CountOf(c) PROVE ide_get_sector(f) = c.first + done + n
    OBVIOUS
  <2> DEFINE s == first + n
  <2>1. s \in Nat /\ s < Capacity(d.lba) /\ s = c.first + done + n
    BY <1>1, <1>3, <1>4
  <2> HIDE DEF s
  <2>2. ide_get_sector(ide_set_sector(d, s)) = s
    BY <2>1, SetSectorIs
  <2>3. QED
    BY <2>1, <2>2 DEF s
<1> HIDE DEF f, first
<1>6. ide_get_sector(e) = ide_get_sector(f) /\ e.lba = c.lba /\ e.nsector = k
  <2>1. SameAddress(e, f) /\ e.lba = f.lba /\ e.nsector = k
    BY <1>2 DEF SameAddress, DriveType
  <2>2. QED
    BY <1>2, <1>4, <2>1, AddressOnly DEF Rest
<1>7. /\ e.status = d.status /\ e.error = d.error /\ e.mult_sectors = d.mult_sectors
      /\ e.io_nb_sectors = n /\ e.io_buffer = d.io_buffer
      /\ e.req_nb_sectors = d.req_nb_sectors
  BY <1>2 DEF Rest, DriveType
<1>8. k = (c.count - (done + n)) % RegSize /\ (k = 0 <=> done + n = CountOf(c))
  <2> DEFINE m == c.count
             s == d.nsector
             count == CountOf(c)
  <2>1. /\ m \in 0 .. RegSize - 1 /\ done \in 0 .. RegSize /\ n \in 1 .. RegSize
        /\ done + n \in 0 .. RegSize
        /\ count = (IF m = 0 THEN RegSize ELSE m) /\ done + n <= count
        /\ s = IF m = 0 /\ done > 0 THEN RegSize - done ELSE m - done
    BY <1>1, <1>3
  <2> HIDE DEF m, s, n, count
  <2>2. (m - (done + n)) % RegSize
          = IF m = 0 /\ done + n > 0 THEN RegSize - (done + n) ELSE m - (done + n)
    BY <1>3, <2>1, LeftModulo
  <2>3. (s - n) % RegSize = IF s = 0 THEN RegSize - n ELSE s - n
    <3>1. s \in 0 .. RegSize - 1 /\ n \in 0 .. RegSize /\ n <= (IF s = 0 THEN RegSize ELSE s)
      BY <1>3, <2>1
    <3>2. (s - n) % RegSize = IF s = 0 /\ n > 0 THEN RegSize - n ELSE s - n
      BY <1>3, <3>1, LeftModulo
    <3>3. QED
      BY <2>1, <3>2
  <2>4. (s - n) % RegSize = (m - (done + n)) % RegSize
    BY <1>3, <2>1, <2>2, <2>3
  <2>5. (m - (done + n)) % RegSize = 0 <=> done + n = count
    BY <1>3, <2>1, <2>2
  <2>6. QED
    BY <2>4, <2>5 DEF m, s, n, count
<1> HIDE DEF e, k
<1>9. AtSector(e, c, done + n)
  <2>1. done + n \in 0 .. CountOf(c)
    BY <1>1, <1>3
  <2>2. e.req_nb_sectors >= 1
    BY <1>4, <1>7
  <2>3. done + n < CountOf(c) => ide_get_sector(e) = c.first + (done + n)
    BY <1>1, <1>3, <1>5, <1>6
  <2>4. QED
    BY <1>6, <1>8, <2>1, <2>2, <2>3 DEF AtSector
<1>10. QED
  BY <1>2, <1>6, <1>7, <1>8, <1>9 DEF e, n
-----------------------------------------------------------------------------
(* The drive: transfers *)

LEMMA TransferIs ==
    ASSUME NEW d \in DriveType, NEW size \in Sizes,
           NEW end \in {"stop", "sector_read", "read_cb_end", "write_cb1", "identify_cb"}
    PROVE  LET r == ide_transfer_start(d, size, end)
           IN  /\ r \in DriveType /\ SameAddress(r, d) /\ r.nsector = d.nsector
               /\ r.end_transfer = end /\ r.data_index = 0 /\ r.data_end = size
               /\ r.io_buffer = d.io_buffer /\ r.io_nb_sectors = d.io_nb_sectors
               /\ r.req_nb_sectors = d.req_nb_sectors /\ r.status = d.status
  BY DEF ide_transfer_start, DriveType, SameAddress

LEMMA SizesAre == Sizes \subseteq Nat /\ 0 \in Sizes /\ 1 \in Sizes
  BY IdeAssumption DEF Sizes

LEMMA NextCountType ==
    ASSUME NEW d \in DriveType PROVE NextCount(d) \in Sizes
<1> DEFINE m == d.req_nb_sectors
           n == IF d.nsector = 0 THEN RegSize ELSE d.nsector
<1>1. m \in 0 .. MAX_MULT_SECTORS /\ n \in Nat /\ MAX_MULT_SECTORS \in Nat
  BY IdeAssumption DEF DriveType, Sizes
<1>2. NextCount(d) = IF n > m THEN m ELSE n
  BY DEF NextCount
<1> HIDE DEF m, n
<1>3. QED
  BY <1>1, <1>2 DEF Sizes

LEMMA ReadCbType ==
    ASSUME NEW d \in DriveType
    PROVE  LET e == Moved(d)
               r == ide_sector_read_cb(d)
           IN  /\ r \in DriveType /\ SameAddress(r, e) /\ r.nsector = e.nsector
               /\ r.req_nb_sectors = e.req_nb_sectors
               /\ r.status = {"ready", "seek", "drq"}
               /\ r.io_buffer = e.io_buffer /\ r.data_index = 0 /\ r.data_end = d.io_nb_sectors
               /\ r.end_transfer = IF e.nsector = 0 THEN "read_cb_end" ELSE "sector_read"
<1> DEFINE e == Moved(d)
           end == IF e.nsector = 0 THEN "read_cb_end" ELSE "sector_read"
           t == ide_transfer_start(e, d.io_nb_sectors, end)
<1>1. ide_sector_read_cb(d) = [t EXCEPT !.status = {"ready", "seek", "drq"}, !.error = FALSE]
  BY DEF ide_sector_read_cb
<1>2. e \in DriveType
  BY MovedType
<1>3. d.io_nb_sectors \in Sizes
  BY DEF DriveType
<1> HIDE DEF e
<1>4. end \in {"stop", "sector_read", "read_cb_end", "write_cb1", "identify_cb"}
  OBVIOUS
<1>5. /\ t \in DriveType /\ SameAddress(t, e) /\ t.nsector = e.nsector
      /\ t.end_transfer = end /\ t.data_index = 0 /\ t.data_end = d.io_nb_sectors
      /\ t.io_buffer = e.io_buffer /\ t.req_nb_sectors = e.req_nb_sectors
  <2> DEFINE size == d.io_nb_sectors
  <2>1. size \in Sizes /\ end \in {"stop", "sector_read", "read_cb_end", "write_cb1", "identify_cb"}
    BY <1>3, <1>4
  <2> HIDE DEF end, size
  <2>2. /\ ide_transfer_start(e, size, end) \in DriveType
        /\ SameAddress(ide_transfer_start(e, size, end), e)
    BY <1>2, <2>1, TransferIs, Zenon
  <2>3. QED
    BY <1>2, <2>1, <2>2 DEF ide_transfer_start, DriveType, size
<1> HIDE DEF t
<1> DEFINE r == [t EXCEPT !.status = {"ready", "seek", "drq"}, !.error = FALSE]
<1>6. /\ r \in DriveType /\ SameAddress(r, t) /\ r.nsector = t.nsector
      /\ r.status = {"ready", "seek", "drq"} /\ r.io_buffer = t.io_buffer
      /\ r.data_index = t.data_index /\ r.data_end = t.data_end
      /\ r.end_transfer = t.end_transfer /\ r.req_nb_sectors = t.req_nb_sectors
  BY <1>5 DEF DriveType, SameAddress
<1> HIDE DEF r, end
<1>7. SameAddress(r, e)
  BY <1>5, <1>6 DEF SameAddress
<1>8. QED
  BY <1>1, <1>5, <1>6, <1>7, Zenon DEF r, e, end

\* What ide_sector_read_cb leaves of a command.
LEMMA ReadCbIs ==
    ASSUME NEW c \in IdeCommands, IsTransfer(c), NEW d \in DriveType, NEW done,
           AtSector(d, c, done), d.io_nb_sectors \in 1 .. CountOf(c) - done
    PROVE  LET r == ide_sector_read_cb(d)
               n == d.io_nb_sectors
           IN  /\ r \in DriveType /\ AtSector(r, c, done + n)
               /\ r.status = {"ready", "seek", "drq"} /\ r.data_index = 0 /\ r.data_end = n
               /\ r.io_buffer = d.io_buffer
               /\ r.end_transfer = IF done + n = CountOf(c) THEN "read_cb_end" ELSE "sector_read"
<1> DEFINE e == Moved(d)
           r == ide_sector_read_cb(d)
           n == d.io_nb_sectors
<1>1. /\ e \in DriveType /\ AtSector(e, c, done + n)
      /\ e.nsector = 0 <=> done + n = CountOf(c)
      /\ e.io_buffer = d.io_buffer
  BY MovedIs
<1>2. /\ r \in DriveType /\ SameAddress(r, e) /\ r.nsector = e.nsector
      /\ r.req_nb_sectors = e.req_nb_sectors
      /\ r.status = {"ready", "seek", "drq"}
      /\ r.io_buffer = e.io_buffer /\ r.data_index = 0 /\ r.data_end = n
      /\ r.end_transfer = IF e.nsector = 0 THEN "read_cb_end" ELSE "sector_read"
  BY ReadCbType
<1> HIDE DEF e, r, n
<1>3. AtSector(r, c, done + n)
  <2>1. ide_get_sector(r) = ide_get_sector(e) /\ r.lba = e.lba
    BY <1>2, AddressOnly DEF SameAddress
  <2>2. QED
    BY <1>1, <1>2, <2>1 DEF AtSector
<1>4. QED
  BY <1>1, <1>2, <1>3 DEF r, n

LEMMA WantDataType ==
    ASSUME NEW d \in DriveType
    PROVE  LET r == WantData(d)
               n == NextCount(d)
           IN  /\ r \in DriveType /\ SameAddress(r, d) /\ r.nsector = d.nsector
               /\ r.req_nb_sectors = d.req_nb_sectors /\ r.io_nb_sectors = n
               /\ r.data_end = n /\ r.data_index = 0 /\ r.end_transfer = "write_cb1"
               /\ r.status = {"ready", "seek", "drq"} /\ r.io_buffer = d.io_buffer
<1> DEFINE n == NextCount(d)
           e == [d EXCEPT !.io_nb_sectors = n]
           t == ide_transfer_start(e, n, "write_cb1")
           r == [t EXCEPT !.status = {"ready", "seek", "drq"}]
<1>1. WantData(d) = r
  BY DEF WantData
<1>2. n \in Sizes
  BY NextCountType
<1> HIDE DEF n
<1>3. /\ e \in DriveType /\ SameAddress(e, d) /\ e.nsector = d.nsector /\ e.io_nb_sectors = n
      /\ e.req_nb_sectors = d.req_nb_sectors /\ e.io_buffer = d.io_buffer
  BY <1>2 DEF DriveType, SameAddress
<1> HIDE DEF e
<1>4. /\ t \in DriveType /\ SameAddress(t, e) /\ t.nsector = e.nsector
      /\ t.end_transfer = "write_cb1" /\ t.data_index = 0 /\ t.data_end = n
      /\ t.io_buffer = e.io_buffer /\ t.io_nb_sectors = e.io_nb_sectors
      /\ t.req_nb_sectors = e.req_nb_sectors
  <2> DEFINE end == "write_cb1"
  <2>1. end \in {"stop", "sector_read", "read_cb_end", "write_cb1", "identify_cb"}
    OBVIOUS
  <2>2. t \in DriveType /\ SameAddress(t, e)
    <3> HIDE DEF end
    <3>1. /\ ide_transfer_start(e, n, end) \in DriveType
          /\ SameAddress(ide_transfer_start(e, n, end), e)
      BY <1>2, <1>3, <2>1, TransferIs, ZenonT(60)
    <3>2. QED
      BY <3>1 DEF end
  <2>3. QED
    BY <1>2, <1>3, <2>2 DEF ide_transfer_start, DriveType
<1> HIDE DEF t
<1>5. /\ r \in DriveType /\ SameAddress(r, t) /\ r.nsector = t.nsector
      /\ r.io_nb_sectors = t.io_nb_sectors /\ r.req_nb_sectors = t.req_nb_sectors
      /\ r.data_end = t.data_end /\ r.data_index = t.data_index
      /\ r.end_transfer = t.end_transfer /\ r.status = {"ready", "seek", "drq"}
      /\ r.io_buffer = t.io_buffer
  BY <1>4 DEF DriveType, SameAddress
<1> HIDE DEF r
<1>6. SameAddress(r, d)
  BY <1>3, <1>4, <1>5 DEF SameAddress
<1>7. QED
  BY <1>1, <1>3, <1>4, <1>5, <1>6 DEF n

\* The transfer of the next sectors of a command from its driver.
LEMMA WantDataIs ==
    ASSUME NEW c \in IdeCommands, IsTransfer(c), NEW d \in DriveType, NEW done,
           AtSector(d, c, done), done < CountOf(c)
    PROVE  LET r == WantData(d)
           IN  /\ r \in DriveType /\ AtSector(r, c, done)
               /\ r.io_nb_sectors = r.data_end /\ r.data_end \in 1 .. CountOf(c) - done
               /\ r.data_index = 0 /\ r.end_transfer = "write_cb1"
               /\ r.status = {"ready", "seek", "drq"}
<1> DEFINE r == WantData(d)
           n == NextCount(d)
<1>1. n \in 1 .. CountOf(c) - done
  BY NextCountIs
<1>2. /\ r \in DriveType /\ SameAddress(r, d) /\ r.nsector = d.nsector
      /\ r.req_nb_sectors = d.req_nb_sectors /\ r.io_nb_sectors = n
      /\ r.data_end = n /\ r.data_index = 0 /\ r.end_transfer = "write_cb1"
      /\ r.status = {"ready", "seek", "drq"}
  BY WantDataType
<1> HIDE DEF r, n
<1>3. AtSector(r, c, done)
  <2>1. ide_get_sector(r) = ide_get_sector(d) /\ r.lba = d.lba
    BY <1>2, AddressOnly DEF SameAddress
  <2>2. QED
    BY <1>2, <2>1 DEF AtSector
<1>4. QED
  BY <1>1, <1>2, <1>3 DEF r

LEMMA WriteCb2Type ==
    ASSUME NEW d \in DriveType
    PROVE  LET e == Moved(d)
               r == ide_sector_write_cb2(d)
           IN  /\ e \in DriveType /\ r \in DriveType
               /\ IF e.nsector = 0 THEN r = [e EXCEPT !.status = {"ready", "seek"}]
                  ELSE r = WantData(e)
<1> DEFINE e == Moved(d)
<1>1. e \in DriveType
  BY MovedType
<1>2. ide_sector_write_cb2(d) =
        IF e.nsector = 0 THEN [e EXCEPT !.status = {"ready", "seek"}] ELSE WantData(e)
  BY DEF ide_sector_write_cb2
<1> HIDE DEF e
<1>3. [e EXCEPT !.status = {"ready", "seek"}] \in DriveType
  BY <1>1 DEF DriveType
<1>4. WantData(e) \in DriveType
  BY <1>1, WantDataType
<1>5. QED
  BY <1>1, <1>2, <1>3, <1>4 DEF e

\* What ide_sector_write_cb2 leaves of a command: it has ended, or wants data.
LEMMA WriteCb2Is ==
    ASSUME NEW c \in IdeCommands, IsTransfer(c), NEW d \in DriveType, NEW done,
           AtSector(d, c, done), d.io_nb_sectors \in 1 .. CountOf(c) - done
    PROVE  LET r == ide_sector_write_cb2(d)
               to == done + d.io_nb_sectors
           IN  \/ r.status = {"ready", "seek"} /\ to = CountOf(c)
               \/ /\ r.status = {"ready", "seek", "drq"} /\ AtSector(r, c, to)
                  /\ r.io_nb_sectors = r.data_end /\ r.data_end \in 1 .. CountOf(c) - to
                  /\ r.data_index = 0 /\ r.end_transfer = "write_cb1"
<1> DEFINE e == Moved(d)
           r == ide_sector_write_cb2(d)
           to == done + d.io_nb_sectors
<1>1. /\ e \in DriveType /\ AtSector(e, c, to)
      /\ e.nsector = 0 <=> to = CountOf(c)
  BY MovedIs
<1>2. IF e.nsector = 0 THEN r = [e EXCEPT !.status = {"ready", "seek"}] ELSE r = WantData(e)
  BY WriteCb2Type
<1> HIDE DEF e, r
<1>3. CASE e.nsector = 0
  <2>1. r.status = {"ready", "seek"}
    BY <1>1, <1>2, <1>3 DEF DriveType
  <2>2. QED
    BY <1>1, <1>3, <2>1 DEF r
<1>4. CASE e.nsector # 0
  <2>1. to < CountOf(c)
    <3>1. CountOf(c) \in Int
      BY IdeAssumption DEF CountOf
    <3>2. QED
      BY <1>1, <1>4, <3>1 DEF AtSector
  <2> HIDE DEF to
  <2>2. /\ AtSector(r, c, to)
        /\ r.io_nb_sectors = r.data_end /\ r.data_end \in 1 .. CountOf(c) - to
        /\ r.data_index = 0 /\ r.end_transfer = "write_cb1"
        /\ r.status = {"ready", "seek", "drq"}
    BY <1>1, <1>2, <1>4, <2>1, WantDataIs
  <2>3. QED
    BY <2>2 DEF r, to
<1>5. QED
  BY <1>3, <1>4
-----------------------------------------------------------------------------
(* The drive: sectors of the disk *)

LEMMA ContentsType ==
    ASSUME disk \in DiskType, NEW first \in Nat, NEW n \in Nat, first + n <= NbSectors
    PROVE  /\ ContentsOf(first, n) \in Seq(Sector) /\ Len(ContentsOf(first, n)) = n
           /\ \A i \in 1 .. n : ContentsOf(first, n)[i] = disk[first + i - 1]
<1> DEFINE s == ContentsOf(first, n)
<1>1. \A i \in 1 .. n : disk[first + i - 1] \in Sector
  BY IdeAssumption DEF DiskType
<1>2. s = [i \in 1 .. n |-> disk[first + i - 1]]
  BY DEF ContentsOf
<1>3. s \in Seq(Sector)
  BY <1>1, <1>2
<1> HIDE DEF s
<1>4. DOMAIN s = 1 .. n /\ \A i \in 1 .. n : s[i] = disk[first + i - 1]
  BY <1>2
<1>5. Len(s) = n
  BY <1>3, <1>4
<1>6. QED
  BY <1>3, <1>4, <1>5 DEF s

\* One more sector.
LEMMA ContentsMore ==
    ASSUME disk \in DiskType, NEW first \in Nat, NEW n \in Nat, first + n + 1 <= NbSectors
    PROVE  Append(ContentsOf(first, n), disk[first + n]) = ContentsOf(first, n + 1)
<1> DEFINE s == ContentsOf(first, n)
           t == ContentsOf(first, n + 1)
           x == disk[first + n]
           u == Append(s, x)
<1>1. /\ s \in Seq(Sector) /\ Len(s) = n
      /\ \A i \in 1 .. n : s[i] = disk[first + i - 1]
  BY ContentsType, IdeAssumption
<1>2. /\ t \in Seq(Sector) /\ Len(t) = n + 1
      /\ \A i \in 1 .. n + 1 : t[i] = disk[first + i - 1]
  <2> DEFINE m == n + 1
  <2>1. m \in Nat /\ first + m <= NbSectors
    BY IdeAssumption
  <2> HIDE DEF m
  <2>2. /\ ContentsOf(first, m) \in Seq(Sector) /\ Len(ContentsOf(first, m)) = m
        /\ \A i \in 1 .. m : ContentsOf(first, m)[i] = disk[first + i - 1]
    BY <2>1, ContentsType
  <2>3. QED
    BY <2>2 DEF m
<1>3. x \in Sector /\ x = disk[first + (n + 1) - 1]
  BY IdeAssumption DEF DiskType
<1> HIDE DEF s, t, x
<1>4. u \in Seq(Sector) /\ Len(u) = n + 1 /\ u[n + 1] = x /\ \A i \in 1 .. n : u[i] = s[i]
  BY <1>1, <1>3
<1> HIDE DEF u
<1>5. \A i \in 1 .. n + 1 : u[i] = t[i]
  <2> SUFFICES ASSUME NEW i \in 1 .. n + 1 PROVE u[i] = t[i]
    OBVIOUS
  <2>1. CASE i = n + 1
    BY <1>2, <1>3, <1>4, <2>1
  <2>2. CASE i \in 1 .. n
    BY <1>1, <1>2, <1>4, <2>2
  <2>3. QED
    BY <2>1, <2>2
<1>6. u = t
  <2>1. Len(u) = Len(t) /\ \A i \in 1 .. Len(u) : u[i] = t[i]
    BY <1>2, <1>4, <1>5
  <2>2. u \in Seq(Sector) /\ t \in Seq(Sector)
    BY <1>2, <1>4
  <2>3. QED
    BY <2>1, <2>2, SeqEqual, Zenon
<1>7. QED
  BY <1>6 DEF s, t, x, u

\* Sectors that are read into the buffer, with nothing else of the drive.
LEMMA LoadedIs ==
    ASSUME disk \in DiskType, NEW d \in DriveType, NEW first \in Nat, NEW n \in Sizes,
           first + n <= NbSectors
    PROVE  LET f == Loaded(d, first, n)
           IN  /\ f \in DriveType /\ SameAddress(f, d) /\ f.nsector = d.nsector
               /\ f.req_nb_sectors = d.req_nb_sectors /\ f.io_nb_sectors = d.io_nb_sectors
               /\ Fetched(f, first, n)
<1> DEFINE b == [i \in 1 .. MAX_MULT_SECTORS |->
                   IF i <= n THEN disk[first + i - 1] ELSE d.io_buffer[i]]
           f == Loaded(d, first, n)
<1>1. NbSectors \in Nat /\ MAX_MULT_SECTORS \in Nat /\ n \in 0 .. MAX_MULT_SECTORS
  BY IdeAssumption DEF Sizes
<1>2. d.io_buffer \in [1 .. MAX_MULT_SECTORS -> Sector]
  BY DEF DriveType
<1>3. f = [d EXCEPT !.io_buffer = b]
  BY Zenon DEF Loaded
<1>4. b \in [1 .. MAX_MULT_SECTORS -> Sector]
  <2>1. ASSUME NEW i \in 1 .. MAX_MULT_SECTORS, i <= n PROVE disk[first + i - 1] \in Sector
    BY <1>1, <2>1 DEF DiskType
  <2>2. QED
    BY <1>2, <2>1
<1>5. \A i \in 1 .. n : b[i] = disk[first + i - 1]
  BY <1>1
<1> HIDE DEF b, f
<1>6. /\ f \in DriveType /\ SameAddress(f, d) /\ f.nsector = d.nsector
      /\ f.req_nb_sectors = d.req_nb_sectors /\ f.io_nb_sectors = d.io_nb_sectors
      /\ f.io_buffer = b
  BY <1>3, <1>4 DEF DriveType, SameAddress
<1>7. QED
  BY <1>5, <1>6 DEF Fetched, f

LEMMA StoredType ==
    ASSUME disk \in DiskType, NEW d \in DriveType, NEW first \in Int, NEW n \in Sizes
    PROVE  Stored(d, first, n) \in DiskType
<1>1. d.io_buffer \in [1 .. MAX_MULT_SECTORS -> Sector]
  BY DEF DriveType
<1>2. n \in 0 .. MAX_MULT_SECTORS /\ NbSectors \in Nat /\ MAX_MULT_SECTORS \in Nat
  BY IdeAssumption DEF Sizes
<1>3. ASSUME NEW x \in 0 .. NbSectors - 1, x \in first .. first + n - 1
      PROVE  d.io_buffer[x - first + 1] \in Sector
  <2>1. x - first + 1 \in 1 .. MAX_MULT_SECTORS
    BY <1>2, <1>3
  <2>2. QED
    BY <1>1, <2>1
<1>4. QED
  BY <1>3 DEF Stored, DiskType

\* The sectors of a command that a block stores come after those before.
LEMMA StoredIs ==
    ASSUME disk \in DiskType, NEW c \in IdeCommands, NEW base \in Nat, NEW n \in Nat \ {0},
           base > 0 => Written(c, base), c.first + base + n <= NbSectors,
           NEW d, Sending(d, c, base, n), disk' = Stored(d, c.first + base, n)
    PROVE  /\ c.first + base + n <= NbSectors
           /\ \A i \in 0 .. base + n - 1 : disk'[c.first + i] = NewData(c, i)
<1> DEFINE first == c.first + base
<1>1. c.first \in Nat /\ first \in Nat /\ NbSectors \in Nat
  BY IdeAssumption
<1>4. ASSUME NEW i \in 0 .. base + n - 1 PROVE disk'[c.first + i] = NewData(c, i)
  <2> DEFINE x == c.first + i
  <2>1. x \in 0 .. NbSectors - 1
    BY <1>1
  <2>2. disk'[x] = IF x \in first .. first + n - 1 THEN d.io_buffer[x - first + 1] ELSE disk[x]
    BY <2>1 DEF Stored
  <2>3. CASE i >= base
    <3> DEFINE j == x - first + 1
    <3>1. j \in 1 .. n /\ base + j - 1 = i /\ x \in first .. first + n - 1
      BY <1>1, <2>3
    <3>2. disk'[x] = d.io_buffer[j]
      BY <2>2, <3>1
    <3> HIDE DEF j, x, first
    <3>3. disk'[x] = NewData(c, i)
      BY <3>1, <3>2 DEF Sending
    <3>4. QED
      BY <3>3 DEF x
  <2>4. CASE i < base
    <3>1. i \in 0 .. base - 1 /\ x \notin first .. first + n - 1
      BY <1>1, <2>4
    <3>2. disk'[x] = disk[x]
      BY <2>2, <3>1
    <3>3. disk[x] = NewData(c, i)
      BY <2>4, <3>1 DEF Written
    <3>4. QED
      BY <3>2, <3>3
  <2>5. QED
    BY <2>3, <2>4
<1>5. QED
  BY <1>4
-----------------------------------------------------------------------------
(* The drive: what the operations leave of a command *)

\* The line rises, or the driver has nothing to wait for.
Signals ==
    \/ SetIrqs(IdeIrq) /\ ide_cmd' = ide_cmd
    \/ pics' = pics /\ ~IdeNeedsService'

LEMMA IdeIrqIs ==
    ASSUME PicOK(pics), Signals
    PROVE  /\ PicOK(pics') /\ SameBut(pics, pics', {IRQ_IDE})
           /\ Taken(pics', IRQ_IDE) => Taken(pics, IRQ_IDE)
           /\ IdeNeedsService' => Up(pics', IRQ_IDE)
<1>1. CASE pics' = pics /\ ~IdeNeedsService'
  BY <1>1 DEF SameBut
<1>2. CASE SetIrqs(IdeIrq) /\ ide_cmd' = ide_cmd
  <2>1. CASE "disable_irq" \in ide_cmd
    <3>1. pics' = pics
      BY <1>2, <2>1, NoCall DEF SetIrqs, IdeIrq
    <3>2. ~IdeNeedsService'
      BY <1>2, <2>1 DEF IdeNeedsService
    <3>3. QED
      BY <3>1, <3>2 DEF SameBut
  <2>2. CASE "disable_irq" \notin ide_cmd
    <3>1. SetIrqs(<< <<IRQ_IDE, 1>> >>)
      BY <1>2, <2>2 DEF IdeIrq
    <3>2. QED
      BY <3>1, SetIrqStep, IrqsAre
  <2>3. QED
    BY <2>1, <2>2
<1>3. QED
  BY <1>1, <1>2 DEF Signals

\* What a step of the drive must do.
LEMMA IdeStepKeeps ==
    ASSUME IInv, CpuInv', IdeCore', UNCHANGED <<guest, reg_c, irq_state, kbc>>,
           PicOK(pics'), SameBut(pics, pics', {IRQ_IDE}),
           Taken(pics', IRQ_IDE) => Taken(pics, IRQ_IDE),
           IdeNeedsService' => Up(pics', IRQ_IDE),
           guest # "ide" => ide_drv'.at = "idle",
           \A irq \in Irqs \ Elcr : Taken(pics', irq) /\ InService(irq) => InService(irq)'
    PROVE  IInv'
<1> DEFINE S == {IRQ_IDE}
<1>1. S \cap Elcr = {} /\ S \cap {IRQ_KBD, IRQ_MOUSE} = {} /\ IRQ_CLOCK \notin S
  BY IrqsAre
<1>2. LinesInv'
  BY LinesKeep DEF IInv
<1>3. ClockInv' /\ PciInv' /\ KbcInv'
  BY <1>1, ClockKeep, PciKeep, KbcKeep DEF IInv
<1>4. IdeInv'
  BY DEF IdeInv
<1>5. QED
  BY <1>2, <1>3, <1>4 DEF IInv

LEMMA AbortIs ==
    ASSUME NEW d \in DriveType
    PROVE  ide_abort_command(d) \in DriveType /\ ide_abort_command(d).status = {"ready", "err"}
  BY DEF ide_abort_command, DriveType

\* What every operation keeps.
Typed == drive' \in DriveType /\ disk' \in DiskType /\ Requested(request')

\* A request of the block device, or what it has forgotten of one.
LEMMA RequestIs ==
    ASSUME NEW w \in BOOLEAN, NEW first \in Int, NEW n \in Sizes, OnDrive(first, n),
           NEW m \in Sizes, m <= n
    PROVE  LET r == [is_write |-> w, sector |-> first, n |-> m]
           IN  Requested(r) /\ r # NoRequest
<1>1. first \in Nat /\ n \in Nat /\ m \in Nat /\ first + m <= NbSectors
  BY SizesAre, IdeAssumption DEF OnDrive
<1> DEFINE r == [is_write |-> w, sector |-> first, n |-> m]
<1>2. r.sector = first /\ NoRequest.sector = -1
  BY DEF NoRequest
<1>3. r # NoRequest
  BY <1>1, <1>2
<1>4. Requested(r)
  BY <1>1 DEF Requested
<1>5. QED
  BY <1>3, <1>4

LEMMA ServedIs ==
    ASSUME NEW w \in BOOLEAN, NEW first \in Int, NEW n \in Sizes, OnDrive(first, n),
           ServedAtOnce(w, first)
    PROVE  Requested(request') /\ (request = NoRequest => request' = NoRequest)
<1> DEFINE zero == 0
<1>1. zero \in Sizes /\ zero <= n
  BY SizesAre
<1>2. \/ request' = NoRequest
      \/ request # NoRequest /\ request' = [is_write |-> w, sector |-> first, n |-> zero]
  BY DEF ServedAtOnce
<1> HIDE DEF zero
<1>3. Requested([is_write |-> w, sector |-> first, n |-> zero])
  BY <1>1, RequestIs
<1>4. Requested(NoRequest)
  BY DEF Requested
<1>5. CASE request' = NoRequest
  BY <1>4, <1>5
<1>6. CASE request # NoRequest /\ request' = [is_write |-> w, sector |-> first, n |-> zero]
  BY <1>3, <1>6
<1>7. QED
  BY <1>2, <1>5, <1>6

\* The drive is at work.
LEMMA BusyIs ==
    ASSUME NEW e \in DriveType, NEW b \in BOOLEAN
    PROVE  LET r == [e EXCEPT !.status = {"ready", "seek", "busy"}, !.error = b]
           IN  /\ r \in DriveType /\ SameAddress(r, e) /\ r.nsector = e.nsector
               /\ r.req_nb_sectors = e.req_nb_sectors /\ r.io_nb_sectors = e.io_nb_sectors
               /\ r.io_buffer = e.io_buffer /\ r.status = {"ready", "seek", "busy"}
  BY DEF DriveType, SameAddress

LEMMA BusyWriteIs ==
    ASSUME NEW e \in DriveType
    PROVE  LET r == [e EXCEPT !.status = {"ready", "seek", "busy"}]
           IN  /\ r \in DriveType /\ SameAddress(r, e) /\ r.nsector = e.nsector
               /\ r.req_nb_sectors = e.req_nb_sectors /\ r.io_nb_sectors = e.io_nb_sectors
               /\ r.io_buffer = e.io_buffer /\ r.status = {"ready", "seek", "busy"}
  BY DEF DriveType, SameAddress

\* A read of sectors: refused, served at once or later.
LEMMA SectorReadType ==
    ASSUME IdeTypes, NEW d \in DriveType, ide_sector_read(d)
    PROVE  LET n == NextCount(d)
               e == [d EXCEPT !.io_nb_sectors = n]
               first == ide_get_sector(d)
           IN  /\ Typed /\ disk' = disk
               /\ SetIrqs(IdeIrq) \/ (pics' = pics /\ request' # NoRequest)
               /\ e \in DriveType /\ SameAddress(e, d) /\ e.nsector = d.nsector
               /\ e.req_nb_sectors = d.req_nb_sectors /\ e.io_nb_sectors = n
               /\ \/ drive' = ide_abort_command(e) /\ request' = request
                  \/ /\ OnDrive(first, n) /\ drive' = ide_sector_read_cb(Loaded(e, first, n))
                     /\ request = NoRequest => request' = NoRequest
                  \/ /\ OnDrive(first, n)
                     /\ request' = [is_write |-> FALSE, sector |-> first, n |-> n]
                     /\ drive' = [e EXCEPT !.status = {"ready", "seek", "busy"}, !.error = FALSE]
<1> DEFINE n == NextCount(d)
           e == [d EXCEPT !.io_nb_sectors = n]
           first == ide_get_sector(d)
           f == Loaded(e, first, n)
           no == FALSE
           next == [is_write |-> no, sector |-> first, n |-> n]
           busy == [e EXCEPT !.status = {"ready", "seek", "busy"}, !.error = no]
<1>1. n \in Sizes /\ first \in Int /\ disk \in DiskType /\ Requested(request) /\ no \in BOOLEAN
  BY NextCountType, AddressType DEF IdeTypes
<1>2. /\ disk' = disk
      /\ \/ drive' = ide_abort_command(e) /\ SetIrqs(IdeIrq) /\ request' = request
         \/ /\ OnDrive(first, n) /\ drive' = ide_sector_read_cb(f)
            /\ SetIrqs(IdeIrq) /\ ServedAtOnce(no, first)
         \/ OnDrive(first, n) /\ request' = next /\ drive' = busy /\ pics' = pics
  <2>1. e.io_nb_sectors = n
    BY DEF DriveType
  <2>2. QED
    BY <2>1, Zenon DEF ide_sector_read
<1> HIDE DEF n, first
<1>3. e \in DriveType /\ SameAddress(e, d) /\ e.nsector = d.nsector
      /\ e.req_nb_sectors = d.req_nb_sectors /\ e.io_nb_sectors = n
  BY <1>1 DEF DriveType, SameAddress
<1> HIDE DEF e, no
<1>4. CASE drive' = ide_abort_command(e) /\ SetIrqs(IdeIrq) /\ request' = request
  <2>1. drive' \in DriveType
    BY <1>3, <1>4, AbortIs
  <2>2. QED
    BY <1>1, <1>2, <1>3, <1>4, <2>1 DEF Typed, n, e, first
<1>5. CASE /\ OnDrive(first, n) /\ drive' = ide_sector_read_cb(f)
           /\ SetIrqs(IdeIrq) /\ ServedAtOnce(no, first)
  <2>1. first \in Nat /\ first + n <= NbSectors
    BY <1>1, <1>5 DEF OnDrive
  <2>2. f \in DriveType
    BY <1>1, <1>3, <2>1, LoadedIs
  <2> HIDE DEF f
  <2>3. drive' \in DriveType
    BY <1>5, <2>2, ReadCbType, Zenon
  <2>4. Requested(request') /\ (request = NoRequest => request' = NoRequest)
    BY <1>1, <1>5, ServedIs
  <2>5. QED
    BY <1>1, <1>2, <1>3, <1>5, <2>3, <2>4 DEF Typed, n, e, first, f
<1>6. CASE OnDrive(first, n) /\ request' = next /\ drive' = busy /\ pics' = pics
  <2>1. Requested(next) /\ next # NoRequest
    <3>1. n <= n
      BY <1>1, SizesAre
    <3>2. QED
      BY <1>1, <1>6, <3>1, RequestIs
  <2>2. busy \in DriveType
    BY <1>1, <1>3, BusyIs
  <2> HIDE DEF next, busy
  <2>3. QED
    BY <1>1, <1>2, <1>3, <1>6, <2>1, <2>2 DEF Typed, n, e, first, next, busy, no
<1>7. QED
  BY <1>2, <1>4, <1>5, <1>6

\* A read of the next sectors of a command: they are there, the drive is at
\* work, or the command has failed.
LEMMA SectorReadIs ==
    ASSUME IdeTypes, NEW c \in IdeCommands, c.cmd \in {"READ", "MULTREAD"},
           NEW d \in DriveType, NEW done \in Nat, done < CountOf(c), AtSector(d, c, done),
           request = NoRequest, ide_sector_read(d), ide_cmd' = ide_cmd,
           ide_drv'.at = "wait", ide_drv'.command = c, ide_drv'.sent = done,
           ide_drv'.got = ContentsOf(c.first, done)
    PROVE  Signals /\ ReadInv' /\ Typed /\ disk' = disk
<1> DEFINE n == NextCount(d)
           e == [d EXCEPT !.io_nb_sectors = n]
           first == ide_get_sector(d)
           f == Loaded(e, first, n)
           next == [is_write |-> FALSE, sector |-> first, n |-> n]
<1>1. IsTransfer(c) /\ c.first \in Nat /\ CountOf(c) \in Nat /\ disk \in DiskType
  BY IdeAssumption DEF IsTransfer, CountOf, IdeTypes
<1>2. n \in 1 .. CountOf(c) - done /\ n \in Sizes
  BY <1>1, NextCountIs, NextCountType
<1>3. first = c.first + done /\ first \in Nat
  BY <1>1 DEF AtSector
<1>4. /\ Typed /\ disk' = disk
      /\ SetIrqs(IdeIrq) \/ (pics' = pics /\ request' # NoRequest)
      /\ e \in DriveType /\ SameAddress(e, d) /\ e.nsector = d.nsector
      /\ e.req_nb_sectors = d.req_nb_sectors /\ e.io_nb_sectors = n
      /\ \/ drive' = ide_abort_command(e) /\ request' = request
         \/ OnDrive(first, n) /\ drive' = ide_sector_read_cb(f) /\ request' = NoRequest
         \/ /\ OnDrive(first, n) /\ request' = next
            /\ drive' = [e EXCEPT !.status = {"ready", "seek", "busy"}, !.error = FALSE]
  BY SectorReadType, Zenon
<1> HIDE DEF n, first
<1>5. Signals
  BY <1>4 DEF Signals, IdeNeedsService
<1>6. AtSector(e, c, done)
  <2> HIDE DEF e
  <2>1. ide_get_sector(e) = first /\ e.lba = d.lba
    BY <1>4, AddressOnly DEF SameAddress, first
  <2>2. QED
    BY <1>4, <2>1 DEF AtSector, first
<1> HIDE DEF e
<1>7. ide_drv'.got = ContentsOf(c.first, done)'
  BY <1>4 DEF ContentsOf
<1>8. CASE drive' = ide_abort_command(e) /\ request' = request
  <2>1. drive'.status = {"ready", "err"}
    BY <1>4, <1>8, AbortIs
  <2>2. Failed'
    BY <1>8, <2>1 DEF Failed, IsIdle
  <2>3. QED
    BY <1>4, <1>5, <1>7, <2>2 DEF ReadInv
<1>9. CASE OnDrive(first, n) /\ drive' = ide_sector_read_cb(f) /\ request' = NoRequest
  <2>1. first + n <= NbSectors
    BY <1>9 DEF OnDrive
  <2>2. f \in DriveType /\ SameAddress(f, e) /\ f.nsector = e.nsector
        /\ f.req_nb_sectors = e.req_nb_sectors /\ f.io_nb_sectors = n /\ Fetched(f, first, n)
    BY <1>1, <1>2, <1>3, <1>4, <2>1, LoadedIs
  <2> HIDE DEF f
  <2>3. AtSector(f, c, done)
    <3>1. ide_get_sector(f) = ide_get_sector(e) /\ f.lba = e.lba
      BY <2>2, AddressOnly DEF SameAddress
    <3>2. QED
      BY <1>6, <2>2, <3>1 DEF AtSector
  <2>4. /\ drive' \in DriveType /\ AtSector(drive', c, done + n)
        /\ drive'.status = {"ready", "seek", "drq"} /\ drive'.data_index = 0
        /\ drive'.data_end = n /\ drive'.io_buffer = f.io_buffer
        /\ drive'.end_transfer = IF done + n = CountOf(c) THEN "read_cb_end" ELSE "sector_read"
    <3>1. f.io_nb_sectors \in 1 .. CountOf(c) - done
      BY <1>2, <2>2
    <3>2. LET r == ide_sector_read_cb(f)
              m == f.io_nb_sectors
          IN  /\ r \in DriveType /\ AtSector(r, c, done + m)
              /\ r.status = {"ready", "seek", "drq"} /\ r.data_index = 0 /\ r.data_end = m
              /\ r.io_buffer = f.io_buffer
              /\ r.end_transfer = IF done + m = CountOf(c) THEN "read_cb_end" ELSE "sector_read"
      BY <1>1, <2>2, <2>3, <3>1, ReadCbIs, Zenon
    <3>3. QED
      BY <1>9, <2>2, <3>2, Zenon
  <2>5. HasDrq'
    BY <1>2, <1>9, <2>4 DEF HasDrq
  <2>6. (ide_drv.sent - drive.data_index)' = done
    BY <2>4
  <2>7. \A i \in 1 .. n : drive'.io_buffer[i] = disk'[first + i - 1]
    BY <1>4, <2>2, <2>4 DEF Fetched
  <2>8. Fetched(drive, c.first + (ide_drv.sent - drive.data_index), drive.data_end)'
    <3> DEFINE base == ide_drv.sent - drive.data_index
    <3>1. (c.first + base)' = first /\ drive'.data_end = n
      BY <1>3, <2>4, <2>6
    <3> HIDE DEF base
    <3>2. Fetched(drive, c.first + base, drive.data_end)'
      BY <2>7, <3>1 DEF Fetched
    <3>3. QED
      BY <3>2 DEF base
  <2>9. ReadInv'
    BY <1>3, <1>7, <2>1, <2>4, <2>5, <2>6, <2>8 DEF ReadInv
  <2>10. QED
    BY <1>4, <1>5, <2>9
<1>10. CASE /\ OnDrive(first, n) /\ request' = next
            /\ drive' = [e EXCEPT !.status = {"ready", "seek", "busy"}, !.error = FALSE]
  <2>1. /\ drive' \in DriveType /\ SameAddress(drive', e) /\ drive'.nsector = e.nsector
        /\ drive'.req_nb_sectors = e.req_nb_sectors /\ drive'.io_nb_sectors = n
        /\ drive'.status = {"ready", "seek", "busy"}
    BY <1>4, <1>10, BusyIs
  <2>2. AtSector(drive', c, done)
    <3> DEFINE g == drive'
    <3>1. SameAddress(g, e) /\ g.nsector = e.nsector /\ g.req_nb_sectors = e.req_nb_sectors
      BY <2>1
    <3> HIDE DEF g
    <3>2. ide_get_sector(g) = ide_get_sector(e) /\ g.lba = e.lba
      BY <3>1, AddressOnly DEF SameAddress
    <3>3. AtSector(g, c, done)
      BY <1>6, <3>1, <3>2 DEF AtSector
    <3>4. QED
      BY <3>3 DEF g
  <2>3. Busy'
    BY <2>1 DEF Busy
  <2>4. request' = [is_write |-> FALSE, sector |-> c.first + done, n |-> drive'.io_nb_sectors]
    BY <1>3, <1>10, <2>1
  <2>5. ReadInv'
    BY <1>2, <1>7, <2>1, <2>2, <2>3, <2>4 DEF ReadInv
  <2>6. QED
    BY <1>4, <1>5, <2>5
<1>11. QED
  BY <1>4, <1>8, <1>9, <1>10

\* When sectors of a write have been stored.
LEMMA AfterStore ==
    ASSUME NEW c \in IdeCommands, IsWrite(c), NEW d \in DriveType, NEW base \in Nat,
           AtSector(d, c, base), d.io_nb_sectors \in 1 .. CountOf(c) - base,
           drive' = ide_sector_write_cb2(d), request' = NoRequest,
           ide_drv'.at = "wait", ide_drv'.command = c,
           ide_drv'.sent = base + d.io_nb_sectors,
           c.first + base + d.io_nb_sectors <= NbSectors,
           \A i \in 0 .. base + d.io_nb_sectors - 1 : disk'[c.first + i] = NewData(c, i)
    PROVE  WriteInv'
<1> DEFINE to == base + d.io_nb_sectors
           r == ide_sector_write_cb2(d)
<1>1. IsTransfer(c) /\ CountOf(c) \in Nat /\ c.first \in Nat
  BY IdeAssumption DEF IsWrite, IsTransfer, CountOf
<1>2. to \in Nat /\ c.first + to <= NbSectors
  BY <1>1, IdeAssumption
<1>3. Written(c, to)'
  BY <1>1, <1>2, IdeAssumption DEF Written
<1>4. \/ r.status = {"ready", "seek"} /\ to = CountOf(c)
      \/ /\ r.status = {"ready", "seek", "drq"} /\ AtSector(r, c, to)
         /\ r.io_nb_sectors = r.data_end /\ r.data_end \in 1 .. CountOf(c) - to
         /\ r.data_index = 0 /\ r.end_transfer = "write_cb1"
  BY <1>1, WriteCb2Is
<1>5. drive' = r /\ ide_drv'.sent = to
  OBVIOUS
<1> HIDE DEF r, to
<1>6. CASE r.status = {"ready", "seek"} /\ to = CountOf(c)
  <2>1. IsIdle' /\ "err" \notin drive'.status
    BY <1>5, <1>6 DEF IsIdle
  <2>2. QED
    BY <1>3, <1>5, <1>6, <2>1 DEF WriteInv
<1>7. CASE /\ r.status = {"ready", "seek", "drq"} /\ AtSector(r, c, to)
           /\ r.io_nb_sectors = r.data_end /\ r.data_end \in 1 .. CountOf(c) - to
           /\ r.data_index = 0 /\ r.end_transfer = "write_cb1"
  <2>1. HasDrq'
    BY <1>1, <1>2, <1>5, <1>7 DEF HasDrq
  <2>2. (ide_drv.sent - drive.data_index)' = to
    BY <1>2, <1>5, <1>7
  <2>3. Sending(drive, c, ide_drv.sent - drive.data_index, drive.data_index)'
    BY <1>5, <1>7 DEF Sending
  <2>4. QED
    BY <1>2, <1>3, <1>5, <1>7, <2>1, <2>2, <2>3 DEF WriteInv
<1>8. QED
  BY <1>4, <1>6, <1>7

LEMMA StopIs ==
    ASSUME NEW d \in DriveType
    PROVE  LET e == ide_transfer_stop(d)
           IN  /\ e \in DriveType /\ SameAddress(e, d) /\ e.nsector = d.nsector
               /\ e.req_nb_sectors = d.req_nb_sectors /\ e.io_nb_sectors = d.io_nb_sectors
               /\ e.io_buffer = d.io_buffer
<1> DEFINE end == "stop"
           size == 0
<1>1. /\ end \in {"stop", "sector_read", "read_cb_end", "write_cb1", "identify_cb"}
      /\ size \in Sizes
  BY SizesAre
<1>2. ide_transfer_stop(d) = ide_transfer_start(d, size, end)
  BY DEF ide_transfer_stop
<1> HIDE DEF end, size
<1>3. LET r == ide_transfer_start(d, size, end)
      IN  /\ r \in DriveType /\ SameAddress(r, d) /\ r.nsector = d.nsector
          /\ r.end_transfer = end /\ r.data_index = 0 /\ r.data_end = size
          /\ r.io_buffer = d.io_buffer /\ r.io_nb_sectors = d.io_nb_sectors
          /\ r.req_nb_sectors = d.req_nb_sectors /\ r.status = d.status
  BY <1>1, TransferIs, ZenonT(60)
<1>4. QED
  BY <1>2, <1>3

\* A write of sectors: refused, served at once or later.
LEMMA SectorWriteType ==
    ASSUME IdeTypes, NEW d \in DriveType, ide_sector_write_cb1(d)
    PROVE  LET n == d.io_nb_sectors
               e == ide_transfer_stop(d)
               first == ide_get_sector(d)
           IN  /\ Typed
               /\ SetIrqs(IdeIrq) \/ (pics' = pics /\ request' # NoRequest)
               /\ \/ /\ drive' = ide_abort_command(e) /\ request' = request /\ disk' = disk
                  \/ /\ OnDrive(first, n) /\ drive' = ide_sector_write_cb2(e)
                     /\ disk' = Stored(d, first, n)
                     /\ request = NoRequest => request' = NoRequest
                  \/ /\ OnDrive(first, n) /\ disk' = disk
                     /\ request' = [is_write |-> TRUE, sector |-> first, n |-> n]
                     /\ drive' = [e EXCEPT !.status = {"ready", "seek", "busy"}]
<1> DEFINE n == d.io_nb_sectors
           e == ide_transfer_stop(d)
           first == ide_get_sector(d)
           yes == TRUE
           next == [is_write |-> yes, sector |-> first, n |-> n]
           busy == [e EXCEPT !.status = {"ready", "seek", "busy"}]
<1>1. n \in Sizes /\ first \in Int /\ disk \in DiskType /\ Requested(request) /\ yes \in BOOLEAN
  BY AddressType DEF IdeTypes, DriveType
<1>2. \/ /\ drive' = ide_abort_command(e) /\ SetIrqs(IdeIrq)
         /\ request' = request /\ disk' = disk
      \/ /\ OnDrive(first, n) /\ disk' = Stored(d, first, n)
         /\ drive' = ide_sector_write_cb2(e) /\ SetIrqs(IdeIrq) /\ ServedAtOnce(yes, first)
      \/ /\ OnDrive(first, n) /\ request' = next /\ drive' = busy
         /\ pics' = pics /\ disk' = disk
  BY Zenon DEF ide_sector_write_cb1
<1>3. e \in DriveType
  BY StopIs
<1> HIDE DEF n, first, e, yes
<1>4. CASE /\ drive' = ide_abort_command(e) /\ SetIrqs(IdeIrq)
           /\ request' = request /\ disk' = disk
  <2>1. drive' \in DriveType
    BY <1>3, <1>4, AbortIs
  <2>2. QED
    BY <1>1, <1>4, <2>1 DEF Typed, n, e, first
<1>5. CASE /\ OnDrive(first, n) /\ disk' = Stored(d, first, n)
           /\ drive' = ide_sector_write_cb2(e) /\ SetIrqs(IdeIrq) /\ ServedAtOnce(yes, first)
  <2>1. disk' \in DiskType
    BY <1>1, <1>5, StoredType
  <2>2. drive' \in DriveType
    BY <1>3, <1>5, WriteCb2Type, Zenon
  <2>3. Requested(request') /\ (request = NoRequest => request' = NoRequest)
    BY <1>1, <1>5, ServedIs
  <2>4. QED
    BY <1>5, <2>1, <2>2, <2>3 DEF Typed, n, e, first
<1>6. CASE /\ OnDrive(first, n) /\ request' = next /\ drive' = busy
           /\ pics' = pics /\ disk' = disk
  <2>1. Requested(next) /\ next # NoRequest
    <3>1. n <= n
      BY <1>1, SizesAre
    <3>2. QED
      BY <1>1, <1>6, <3>1, RequestIs
  <2>2. busy \in DriveType
    BY <1>3, BusyWriteIs
  <2> HIDE DEF next, busy
  <2>3. QED
    BY <1>1, <1>6, <2>1, <2>2 DEF Typed, n, e, first, next, busy, yes
<1>7. QED
  BY <1>2, <1>4, <1>5, <1>6

\* The sectors that the driver has sent are stored, or the command has failed.
LEMMA SectorWriteIs ==
    ASSUME IdeTypes, NEW c \in IdeCommands, IsWrite(c), NEW d \in DriveType, NEW base \in Nat,
           AtSector(d, c, base), d.io_nb_sectors \in 1 .. CountOf(c) - base,
           base > 0 => Written(c, base), Sending(d, c, base, d.io_nb_sectors),
           request = NoRequest, ide_sector_write_cb1(d), ide_cmd' = ide_cmd,
           ide_drv'.at = "wait", ide_drv'.command = c,
           ide_drv'.sent = base + d.io_nb_sectors
    PROVE  Signals /\ WriteInv' /\ Typed
<1> DEFINE n == d.io_nb_sectors
           e == ide_transfer_stop(d)
           first == ide_get_sector(d)
           next == [is_write |-> TRUE, sector |-> first, n |-> n]
<1>1. IsTransfer(c) /\ CountOf(c) \in Nat /\ c.first \in Nat /\ disk \in DiskType
  BY IdeAssumption DEF IsWrite, IsTransfer, CountOf, IdeTypes
<1>2. n \in Nat \ {0} /\ n \in 1 .. CountOf(c) - base
  BY <1>1
<1>3. first = c.first + base /\ first \in Nat
  BY <1>1, <1>2 DEF AtSector
<1>4. /\ Typed
      /\ SetIrqs(IdeIrq) \/ (pics' = pics /\ request' # NoRequest)
      /\ \/ /\ drive' = ide_abort_command(e) /\ request' = request /\ disk' = disk
         \/ /\ OnDrive(first, n) /\ drive' = ide_sector_write_cb2(e)
            /\ disk' = Stored(d, first, n) /\ request' = NoRequest
         \/ /\ OnDrive(first, n) /\ disk' = disk /\ request' = next
            /\ drive' = [e EXCEPT !.status = {"ready", "seek", "busy"}]
  BY SectorWriteType, Zenon
<1>5. Signals
  BY <1>4 DEF Signals, IdeNeedsService
<1>6. Sending(e, c, base, n)
  <2>1. e.io_buffer = d.io_buffer
    BY StopIs
  <2> HIDE DEF e
  <2>2. QED
    BY <2>1 DEF Sending
<1> HIDE DEF first
<1>7. e \in DriveType /\ SameAddress(e, d) /\ e.nsector = d.nsector
      /\ e.req_nb_sectors = d.req_nb_sectors /\ e.io_nb_sectors = n
  BY StopIs
<1> HIDE DEF e
<1>8. AtSector(e, c, base)
  <2>1. ide_get_sector(e) = first /\ e.lba = d.lba
    BY <1>7, AddressOnly DEF SameAddress, first
  <2>2. QED
    BY <1>7, <2>1 DEF AtSector, first
<1> HIDE DEF n
<1>9. CASE drive' = ide_abort_command(e) /\ request' = request /\ disk' = disk
  <2>1. drive'.status = {"ready", "err"}
    BY <1>7, <1>9, AbortIs
  <2>2. Failed'
    BY <1>9, <2>1 DEF Failed, IsIdle
  <2>3. QED
    BY <1>4, <1>5, <2>2 DEF WriteInv
<1>10. CASE /\ OnDrive(first, n) /\ drive' = ide_sector_write_cb2(e)
            /\ disk' = Stored(d, first, n) /\ request' = NoRequest
  <2>1. /\ c.first + base + n <= NbSectors
        /\ \A i \in 0 .. base + n - 1 : disk'[c.first + i] = NewData(c, i)
    <3>1. disk' = Stored(d, c.first + base, n) /\ c.first + base + n <= NbSectors
      BY <1>3, <1>10 DEF OnDrive
    <3>2. Sending(d, c, base, n)
      BY DEF n
    <3>3. QED
      BY <1>1, <1>2, <3>1, <3>2, StoredIs
  <2>2. ide_drv'.sent = base + n
    BY DEF n
  <2>3. WriteInv'
    BY <1>2, <1>7, <1>8, <1>10, <2>1, <2>2, AfterStore
  <2>4. QED
    BY <1>4, <1>5, <2>3
<1>11. CASE /\ OnDrive(first, n) /\ disk' = disk /\ request' = next
            /\ drive' = [e EXCEPT !.status = {"ready", "seek", "busy"}]
  <2>1. /\ drive' \in DriveType /\ SameAddress(drive', e) /\ drive'.nsector = e.nsector
        /\ drive'.req_nb_sectors = e.req_nb_sectors /\ drive'.io_nb_sectors = n
        /\ drive'.status = {"ready", "seek", "busy"} /\ drive'.io_buffer = e.io_buffer
    BY <1>7, <1>11, BusyWriteIs
  <2>2. AtSector(drive', c, base) /\ Sending(drive', c, base, n)
    <3> DEFINE g == drive'
    <3>1. SameAddress(g, e) /\ g.nsector = e.nsector /\ g.req_nb_sectors = e.req_nb_sectors
          /\ g.io_buffer = e.io_buffer
      BY <2>1
    <3> HIDE DEF g
    <3>2. ide_get_sector(g) = ide_get_sector(e) /\ g.lba = e.lba
      BY <3>1, AddressOnly DEF SameAddress
    <3>3. AtSector(g, c, base) /\ Sending(g, c, base, n)
      BY <1>6, <1>8, <3>1, <3>2 DEF AtSector, Sending
    <3>4. QED
      BY <3>3 DEF g
  <2>3. Busy'
    BY <2>1 DEF Busy
  <2>4. ide_drv'.sent = base + n /\ base + n - n = base
    BY <1>2 DEF n
  <2>5. Written(c, base)'
    <3>1. c.first + base <= NbSectors
      BY <1>1, <1>2, <1>3, <1>11, IdeAssumption DEF OnDrive
    <3>2. base > 0 => \A i \in 0 .. base - 1 : disk[c.first + i] = NewData(c, i)
      BY DEF Written
    <3>3. \A i \in 0 .. base - 1 : disk[c.first + i] = NewData(c, i)
      BY <3>2
    <3>4. QED
      BY <1>11, <3>1, <3>3 DEF Written
  <2>6. WriteInv'
    <3> DEFINE sent == ide_drv.sent
               m == drive.io_nb_sectors
    <3>1. m' = n /\ (sent - m)' = base /\ (c.first + sent - m)' = c.first + base
      BY <1>1, <1>2, <2>1, <2>4
    <3>2. /\ (sent - m)' >= 0 /\ AtSector(drive, c, sent - m)'
          /\ m' \in 1 .. CountOf(c) - (sent - m)' /\ Written(c, sent - m)'
          /\ request' = [is_write |-> TRUE, sector |-> (c.first + sent - m)', n |-> m']
          /\ Sending(drive, c, sent - m, m)'
      <4>1. AtSector(drive, c, sent - m)'
        <5> HIDE DEF sent, m
        <5>1. QED
          BY <2>2, <3>1 DEF AtSector, ide_get_sector
      <4>2. Written(c, sent - m)'
        <5> HIDE DEF sent, m
        <5>1. QED
          BY <2>5, <3>1 DEF Written
      <4>3. Sending(drive, c, sent - m, m)'
        <5> HIDE DEF sent, m
        <5>1. QED
          BY <2>2, <3>1 DEF Sending
      <4> HIDE DEF sent, m
      <4>4. (sent - m)' >= 0 /\ m' \in 1 .. CountOf(c) - (sent - m)'
        BY <1>2, <3>1
      <4>5. request' = [is_write |-> TRUE, sector |-> (c.first + sent - m)', n |-> m']
        BY <1>3, <1>11, <3>1
      <4>6. QED
        BY <4>1, <4>2, <4>3, <4>4, <4>5, Zenon
    <3>3. ide_drv'.command = c
      OBVIOUS
    <3>4. QED
      BY <2>3, <3>2, <3>3 DEF WriteInv
  <2>7. QED
    BY <1>4, <1>5, <2>6
<1>12. QED
  BY <1>4, <1>9, <1>10, <1>11

\* The states in which the block device is serving a request.
LEMMA RequestOf ==
    ASSUME IdeCore, request # NoRequest, ide_drv.at \in {"wait", "data"}, ~ide_drv.overtaken
    PROVE  LET c == ide_drv.command
               n == drive.io_nb_sectors
               done == IF IsWrite(c) THEN ide_drv.sent - n ELSE ide_drv.sent
           IN  /\ Busy /\ c \in IdeCommands /\ IsTransfer(c) /\ done \in Nat
               /\ AtSector(drive, c, done) /\ n \in 1 .. CountOf(c) - done
               /\ c.first + done + n <= NbSectors
               /\ request = [is_write |-> IsWrite(c), sector |-> c.first + done, n |-> n]
               /\ IF IsWrite(c)
                  THEN ide_drv.sent = done + n /\ Written(c, done) /\ Sending(drive, c, done, n)
                  ELSE /\ c.cmd \in {"READ", "MULTREAD"}
                       /\ ide_drv.got = ContentsOf(c.first, done)
<1> DEFINE c == ide_drv.command
           n == drive.io_nb_sectors
           sent == ide_drv.sent
<1>1. c \in IdeCommands /\ sent \in Nat /\ n \in Nat /\ c.first \in Nat
  BY IdeAssumption, SizesAre DEF IdeCore, IdeTypes, DriveType, DrvType
<1>2. ~HasDrq /\ ~IsIdle /\ ~Failed
  BY DEF HasDrq, IsIdle, Failed
<1>3. request.sector + request.n <= NbSectors
  BY DEF IdeCore, IdeTypes, Requested
<1>4. CASE IsWrite(c)
  <2>1. WriteInv
    BY <1>4 DEF IdeCore, IsWrite
  <2>2. /\ Busy /\ sent - n >= 0 /\ AtSector(drive, c, sent - n)
        /\ n \in 1 .. CountOf(c) - (sent - n) /\ Written(c, sent - n)
        /\ request = [is_write |-> TRUE, sector |-> c.first + sent - n, n |-> n]
        /\ Sending(drive, c, sent - n, n)
    BY <1>2, <2>1 DEF WriteInv
  <2>3. IsTransfer(c)
    BY <1>4 DEF IsWrite, IsTransfer
  <2> HIDE DEF c, n, sent
  <2> DEFINE done == sent - n
  <2>4. done \in Nat /\ sent = done + n /\ c.first + sent - n = c.first + done
    BY <1>1, <2>2
  <2>5. c.first + done + n <= NbSectors
    BY <1>1, <1>3, <2>2, <2>4
  <2>6. request = [is_write |-> IsWrite(c), sector |-> c.first + done, n |-> n]
    BY <1>4, <2>2, <2>4
  <2>7. QED
    BY <1>1, <1>4, <2>2, <2>3, <2>4, <2>5, <2>6, Zenon DEF c, n, sent
<1>5. CASE ~IsWrite(c)
  <2>1. c.cmd \in {"READ", "MULTREAD"} /\ ReadInv
    <3>1. ~OtherInv
      BY <1>2 DEF OtherInv
    <3>2. QED
      BY <1>5, <3>1 DEF IdeCore
  <2>2. /\ Busy /\ AtSector(drive, c, sent) /\ n \in 1 .. CountOf(c) - sent
        /\ request = [is_write |-> FALSE, sector |-> c.first + sent, n |-> n]
        /\ ide_drv.got = ContentsOf(c.first, sent)
    BY <1>2, <2>1 DEF ReadInv
  <2>3. IsTransfer(c)
    BY <2>1 DEF IsTransfer
  <2> HIDE DEF c, n, sent
  <2>4. c.first + sent + n <= NbSectors
    BY <1>1, <1>3, <2>2
  <2>5. request = [is_write |-> IsWrite(c), sector |-> c.first + sent, n |-> n]
    <3>1. IsWrite(c) = FALSE
      BY <1>5 DEF IsWrite
    <3>2. QED
      BY <2>2, <3>1, Zenon
  <2>6. QED
    BY <1>1, <1>5, <2>1, <2>2, <2>3, <2>4, <2>5, Zenon DEF c, n, sent
<1>6. QED
  BY <1>4, <1>5

\* The end of a request, whatever it is a request of.
LEMMA IdeEndType ==
    ASSUME IdeTypes, IdeEnd
    PROVE  LET f == Loaded(drive, request.sector, request.n)
           IN  /\ Typed /\ Signals
               /\ f \in DriveType /\ SameAddress(f, drive) /\ f.nsector = drive.nsector
               /\ f.req_nb_sectors = drive.req_nb_sectors
               /\ f.io_nb_sectors = drive.io_nb_sectors
               /\ Fetched(f, request.sector, request.n)
<1> DEFINE first == request.sector
           n == request.n
           f == Loaded(drive, first, n)
<1>1. /\ request # NoRequest /\ request' = NoRequest /\ SetIrqs(IdeIrq) /\ ide_cmd' = ide_cmd
      /\ IF request.is_write
         THEN disk' = Stored(drive, first, n) /\ drive' = ide_sector_write_cb2(drive)
         ELSE disk' = disk /\ drive' = ide_sector_read_cb(f)
  BY Zenon DEF IdeEnd
<1>2. drive \in DriveType /\ disk \in DiskType /\ first \in Nat /\ n \in Sizes
      /\ first + n <= NbSectors
  BY <1>1 DEF IdeTypes, Requested
<1> HIDE DEF first, n
<1>3. /\ f \in DriveType /\ SameAddress(f, drive) /\ f.nsector = drive.nsector
      /\ f.req_nb_sectors = drive.req_nb_sectors
      /\ f.io_nb_sectors = drive.io_nb_sectors /\ Fetched(f, first, n)
  BY <1>2, LoadedIs
<1> HIDE DEF f
<1>4. drive' \in DriveType /\ disk' \in DiskType
  <2>1. CASE request.is_write
    BY <1>1, <1>2, <2>1, StoredType, WriteCb2Type
  <2>2. CASE ~request.is_write
    <3>1. ide_sector_read_cb(f) \in DriveType
      BY <1>3, ReadCbType, Zenon
    <3>2. QED
      BY <1>1, <1>2, <2>2, <3>1
  <2>3. QED
    BY <2>1, <2>2
<1>5. Requested(request')
  <2>1. Requested(NoRequest)
    BY DEF Requested
  <2>2. QED
    BY <1>1, <2>1
<1>6. QED
  BY <1>1, <1>3, <1>4, <1>5 DEF Typed, Signals, f, first, n

LEMMA IdeEndIs ==
    ASSUME IdeCore, IdeEnd PROVE IdeCore' /\ Signals
<1> DEFINE f == Loaded(drive, request.sector, request.n)
<1>1. /\ request # NoRequest /\ request' = NoRequest
      /\ ide_cmd' = ide_cmd /\ ide_drv' = ide_drv
  BY DEF IdeEnd
<1>2. IdeTypes /\ drive \in DriveType /\ disk \in DiskType
      /\ (~ide_drv.overtaken => ide_drv.at # "ready")
  BY <1>1 DEF IdeCore, IdeTypes
<1>3. /\ Typed /\ Signals
      /\ f \in DriveType /\ SameAddress(f, drive) /\ f.nsector = drive.nsector
      /\ f.req_nb_sectors = drive.req_nb_sectors
      /\ f.io_nb_sectors = drive.io_nb_sectors
      /\ Fetched(f, request.sector, request.n)
  BY <1>2, IdeEndType, Zenon
<1>4. IF request.is_write
      THEN /\ disk' = Stored(drive, request.sector, request.n)
           /\ drive' = ide_sector_write_cb2(drive)
      ELSE disk' = disk /\ drive' = ide_sector_read_cb(f)
  BY Zenon DEF IdeEnd
<1> HIDE DEF f
<1>5. IdeTypes'
  BY <1>1, <1>2, <1>3 DEF IdeTypes, Typed
<1>6. ASSUME ide_drv.at \in {"wait", "data"}, ~ide_drv.overtaken
      PROVE  /\ ide_drv'.command \in IdeCommands
             /\ IF IsWrite(ide_drv'.command) THEN WriteInv'
                ELSE ide_drv'.command.cmd \in {"READ", "MULTREAD"} /\ ReadInv'
  <2>1. \E c \in IdeCommands, n \in Nat, done \in Nat :
          /\ ide_drv.command = c /\ drive.io_nb_sectors = n
          /\ done = (IF IsWrite(c) THEN ide_drv.sent - n ELSE ide_drv.sent)
          /\ Busy /\ IsTransfer(c) /\ AtSector(drive, c, done) /\ n \in 1 .. CountOf(c) - done
          /\ c.first + done + n <= NbSectors
          /\ request = [is_write |-> IsWrite(c), sector |-> c.first + done, n |-> n]
          /\ IF IsWrite(c)
             THEN ide_drv.sent = done + n /\ Written(c, done) /\ Sending(drive, c, done, n)
             ELSE /\ c.cmd \in {"READ", "MULTREAD"}
                  /\ ide_drv.got = ContentsOf(c.first, done)
    <3>1. drive.io_nb_sectors \in Nat
      BY <1>2, SizesAre DEF DriveType
    <3>2. QED
      BY <1>1, <1>6, <3>1, RequestOf, Zenon
  <2>2. PICK c \in IdeCommands, n \in Nat, done \in Nat :
          /\ ide_drv.command = c /\ drive.io_nb_sectors = n
          /\ done = (IF IsWrite(c) THEN ide_drv.sent - n ELSE ide_drv.sent)
          /\ Busy /\ IsTransfer(c) /\ AtSector(drive, c, done) /\ n \in 1 .. CountOf(c) - done
          /\ c.first + done + n <= NbSectors
          /\ request = [is_write |-> IsWrite(c), sector |-> c.first + done, n |-> n]
          /\ IF IsWrite(c)
             THEN ide_drv.sent = done + n /\ Written(c, done) /\ Sending(drive, c, done, n)
             ELSE /\ c.cmd \in {"READ", "MULTREAD"}
                  /\ ide_drv.got = ContentsOf(c.first, done)
    BY <2>1, Zenon
  <2>3. CountOf(c) \in Nat /\ c.first \in Nat
    BY IdeAssumption DEF CountOf
  <2>4. n \in Nat \ {0} /\ ide_drv'.command = c /\ ide_drv'.at = "wait"
    BY <1>1, <2>2, <2>3 DEF Busy
  <2>5. CASE IsWrite(c)
    <3>1. disk' = Stored(drive, c.first + done, n) /\ drive' = ide_sector_write_cb2(drive)
      BY <1>4, <2>2, <2>5
    <3>2. /\ c.first + done + n <= NbSectors
          /\ \A i \in 0 .. done + n - 1 : disk'[c.first + i] = NewData(c, i)
      BY <1>2, <2>2, <2>4, <2>5, <3>1, StoredIs
    <3>3. ide_drv'.sent = done + n
      BY <1>1, <2>2, <2>5
    <3>4. WriteInv'
      BY <1>1, <1>2, <2>2, <2>4, <2>5, <3>1, <3>2, <3>3, AfterStore
    <3>5. QED
      BY <2>4, <2>5, <3>4
  <2>6. CASE ~IsWrite(c)
    <3>1. disk' = disk /\ drive' = ide_sector_read_cb(f)
      BY <1>4, <2>2, <2>6
    <3>2. done = ide_drv.sent
      BY <2>2, <2>6
    <3>3. AtSector(f, c, done)
      <4>1. ide_get_sector(f) = ide_get_sector(drive) /\ f.lba = drive.lba
        BY <1>3, AddressOnly DEF SameAddress
      <4>2. QED
        BY <1>3, <2>2, <4>1 DEF AtSector
    <3>4. LET r == ide_sector_read_cb(f)
              m == f.io_nb_sectors
          IN  /\ r \in DriveType /\ AtSector(r, c, done + m)
              /\ r.status = {"ready", "seek", "drq"} /\ r.data_index = 0 /\ r.data_end = m
              /\ r.io_buffer = f.io_buffer
              /\ r.end_transfer = IF done + m = CountOf(c) THEN "read_cb_end" ELSE "sector_read"
      <4>1. f.io_nb_sectors \in 1 .. CountOf(c) - done
        BY <1>3, <2>2
      <4>2. IsTransfer(c) /\ f \in DriveType
        BY <1>3, <2>2
      <4>3. QED
        BY <3>3, <4>1, <4>2, ReadCbIs, Zenon
    <3>5. /\ AtSector(drive', c, done + n)
          /\ drive'.status = {"ready", "seek", "drq"} /\ drive'.data_index = 0
          /\ drive'.data_end = n /\ drive'.io_buffer = f.io_buffer
          /\ drive'.end_transfer = IF done + n = CountOf(c) THEN "read_cb_end" ELSE "sector_read"
      BY <1>3, <2>2, <3>1, <3>4, Zenon
    <3>6. \A i \in 1 .. n : drive'.io_buffer[i] = disk'[c.first + done + i - 1]
      <4>1. request.sector = c.first + done /\ request.n = n
        BY <2>2
      <4>2. QED
        BY <1>3, <3>1, <3>5, <4>1 DEF Fetched
    <3>7. HasDrq'
      BY <1>1, <2>4, <3>5 DEF HasDrq
    <3>8. (ide_drv.sent - drive.data_index)' = done /\ ide_drv'.sent = done
      BY <1>1, <3>2, <3>5
    <3>9. ide_drv'.got = ContentsOf(c.first, done)'
      BY <1>1, <2>2, <2>6, <3>1 DEF ContentsOf
    <3>10. ReadInv'
      <4>1. /\ (ide_drv.sent - drive.data_index)' >= 0
            /\ AtSector(drive, c, (ide_drv.sent - drive.data_index) + drive.data_end)'
            /\ (c.first + (ide_drv.sent - drive.data_index) + drive.data_end)' <= NbSectors
            /\ Fetched(drive, c.first + (ide_drv.sent - drive.data_index), drive.data_end)'
        <5> DEFINE base == ide_drv.sent - drive.data_index
        <5>1. base' = done /\ drive'.data_end = n /\ (base + drive.data_end)' = done + n
              /\ (c.first + base)' = c.first + done
          BY <3>5, <3>8
        <5> HIDE DEF base
        <5>2. AtSector(drive, c, base + drive.data_end)'
          BY <3>5, <5>1 DEF AtSector, ide_get_sector
        <5>3. Fetched(drive, c.first + base, drive.data_end)'
          BY <3>6, <5>1 DEF Fetched
        <5>4. base' >= 0 /\ (c.first + base + drive.data_end)' <= NbSectors
          BY <2>2, <2>3, <5>1
        <5>5. QED
          BY <5>2, <5>3, <5>4 DEF base
      <4>2. drive'.end_transfer
              = IF (ide_drv.sent - drive.data_index + drive.data_end)' = CountOf(c)
                THEN "read_cb_end" ELSE "sector_read"
        BY <3>5, <3>8
      <4>3. QED
        BY <2>4, <3>7, <3>8, <3>9, <4>1, <4>2 DEF ReadInv
    <3>11. QED
      BY <2>2, <2>4, <2>6, <3>10
  <2>7. QED
    BY <2>5, <2>6
<1>7. QED
  <2>1. IsWrite(ide_drv'.command) => ide_drv'.command.cmd \notin {"READ", "MULTREAD"}
    BY DEF IsWrite
  <2>2. PioDelivers'
    BY <1>1, <1>2 DEF PioDelivers
  <2>3. ide_drv'.at \in {"wait", "data"} /\ ~ide_drv'.overtaken =>
          /\ ide_drv'.command \in IdeCommands
          /\ CASE IsWrite(ide_drv'.command) -> WriteInv'
               [] ide_drv'.command.cmd \in {"READ", "MULTREAD"} -> ReadInv'
               [] OTHER -> OtherInv'
    BY <1>1, <1>6, <2>1
  <2>4. QED
    BY <1>1, <1>3, <1>5, <2>2, <2>3 DEF IdeCore

LEMMA ContentsNone ==
    ASSUME NEW first PROVE ContentsOf(first, 0) = << >>
<1> DEFINE s == ContentsOf(first, 0)
           none == << >>
           S == Sector
<1>1. s \in Seq(S) /\ Len(s) = 0
  BY DEF ContentsOf
<1>2. none \in Seq(S) /\ Len(none) = 0
  OBVIOUS
<1> HIDE DEF s, none, S
<1>3. Len(s) = Len(none) /\ \A i \in 1 .. Len(s) : s[i] = none[i]
  BY <1>1, <1>2
<1>4. s = none
  BY <1>1, <1>2, <1>3, SeqEqual
<1>5. QED
  BY <1>4 DEF s, none

\* The registers that name the sectors of a command.
LEMMA AddressedIs ==
    ASSUME IdeTypes, NEW c \in IdeCommands
    PROVE  /\ Addressed(c) \in DriveType /\ Addressed(c).lba = c.lba
           /\ Addressed(c).nsector = c.count
           /\ IsTransfer(c) => ide_get_sector(Addressed(c)) = c.first
<1> DEFINE a == [drive EXCEPT !.lba = c.lba]
           e == ide_set_sector(a, c.first)
           d == Addressed(c)
<1>1. c.first \in Nat /\ c.lba \in BOOLEAN /\ c.count \in 0 .. RegSize - 1
  BY IdeAssumption
<1>2. a \in DriveType /\ a.lba = c.lba
  BY <1>1 DEF IdeTypes, DriveType
<1>3. d = [e EXCEPT !.nsector = c.count]
  BY DEF Addressed
<1> HIDE DEF a
<1>4. e \in DriveType /\ Rest(e, a)
  <2> DEFINE first == c.first
  <2>1. first \in Int
    BY <1>1
  <2> HIDE DEF first
  <2>2. ide_set_sector(a, first) \in DriveType /\ Rest(ide_set_sector(a, first), a)
    BY <1>2, <2>1, SetSectorType
  <2>3. QED
    BY <2>2 DEF first
<1>5. IsTransfer(c) => ide_get_sector(e) = c.first
  <2> SUFFICES ASSUME IsTransfer(c) PROVE ide_get_sector(e) = c.first
    OBVIOUS
  <2>1. c.first + CountOf(c) <= Capacity(c.lba) /\ CountOf(c) \in Nat \ {0}
    BY IdeAssumption DEF CountOf
  <2>2. Capacity(c.lba) \in Int
    <3>1. RegSize \in Int /\ Heads \in Int /\ Sectors \in Int
      BY IdeAssumption
    <3>2. QED
      BY <3>1 DEF Capacity
  <2>3. c.first < Capacity(a.lba)
    BY <1>1, <1>2, <2>1, <2>2
  <2> DEFINE first == c.first
  <2>4. first \in Nat /\ first < Capacity(a.lba)
    BY <1>1, <2>3
  <2> HIDE DEF first
  <2>5. ide_get_sector(ide_set_sector(a, first)) = first
    BY <1>2, <2>4, SetSectorIs
  <2>6. QED
    BY <2>5 DEF first
<1> HIDE DEF e, d
<1>6. d \in DriveType /\ SameAddress(d, e) /\ d.nsector = c.count /\ d.lba = c.lba
  <2>1. e.lba = c.lba
    BY <1>2, <1>4 DEF Rest
  <2>2. QED
    BY <1>1, <1>3, <1>4, <2>1 DEF DriveType, SameAddress
<1>7. ide_get_sector(d) = ide_get_sector(e)
  BY <1>6, AddressOnly
<1>8. QED
  BY <1>5, <1>6, <1>7 DEF d

\* The start of a transfer, of req sectors at a time.
LEMMA StartIs ==
    ASSUME IdeTypes, NEW c \in IdeCommands, IsTransfer(c), NEW req \in Sizes \ {0}
    PROVE  LET e == [Addressed(c) EXCEPT !.req_nb_sectors = req]
           IN  e \in DriveType /\ AtSector(e, c, 0) /\ 0 < CountOf(c)
<1> DEFINE d == Addressed(c)
           e == [d EXCEPT !.req_nb_sectors = req]
<1>1. d \in DriveType /\ d.lba = c.lba /\ d.nsector = c.count /\ ide_get_sector(d) = c.first
  BY AddressedIs
<1>2. c.count \in 0 .. RegSize - 1 /\ c.first \in Nat /\ CountOf(c) \in Nat \ {0}
  BY IdeAssumption DEF CountOf
<1> HIDE DEF d
<1>3. /\ e \in DriveType /\ SameAddress(e, d) /\ e.nsector = d.nsector
      /\ e.req_nb_sectors = req
  BY <1>1 DEF DriveType, SameAddress
<1> HIDE DEF e
<1>4. ide_get_sector(e) = c.first /\ e.lba = c.lba
  BY <1>1, <1>3, AddressOnly DEF SameAddress
<1>5. (c.count - 0) % RegSize = c.count
  <2> DEFINE n == c.count
  <2>1. n \in Nat /\ n < RegSize /\ RegSize \in Nat \ {0} /\ n - 0 = n
    BY <1>2, IdeAssumption
  <2> HIDE DEF n
  <2>2. n % RegSize = n
    BY <2>1, ModSmall
  <2>3. QED
    BY <2>1, <2>2 DEF n
<1>6. AtSector(e, c, 0)
  <2>1. e.req_nb_sectors >= 1
    BY <1>3, SizesAre
  <2>2. QED
    BY <1>1, <1>2, <1>3, <1>4, <1>5, <2>1 DEF AtSector
<1>7. QED
  BY <1>2, <1>3, <1>6 DEF e, d

LEMMA SetMultIs ==
    ASSUME NEW d \in DriveType, d.nsector <= MAX_MULT_SECTORS
    PROVE  [d EXCEPT !.mult_sectors = d.nsector, !.status = {"ready"}] \in DriveType
<1>1. d.nsector \in Sizes
  BY IdeAssumption DEF DriveType, Sizes
<1>2. QED
  BY <1>1 DEF DriveType

LEMMA IdentifyIs ==
    ASSUME NEW d \in DriveType
    PROVE  LET e == [ide_transfer_start(d, 1, "identify_cb")
                       EXCEPT !.status = {"ready", "seek", "drq"}, !.io_buffer[1] = <<"id", 0>>]
           IN  /\ e \in DriveType /\ e.status = {"ready", "seek", "drq"} /\ e.data_index = 0
               /\ e.data_end = 1 /\ e.end_transfer = "identify_cb"
<1> DEFINE end == "identify_cb"
           size == 1
           id == <<"id", 0>>
           t == ide_transfer_start(d, size, end)
           b == [t.io_buffer EXCEPT ![size] = id]
           e == [t EXCEPT !.status = {"ready", "seek", "drq"}, !.io_buffer[size] = id]
<1>1. /\ end \in {"stop", "sector_read", "read_cb_end", "write_cb1", "identify_cb"}
      /\ size \in Sizes /\ id \in Sector
  BY SizesAre DEF Sector
<1>2. t.data_index = 0 /\ t.data_end = 1 /\ t.end_transfer = "identify_cb"
  BY DEF ide_transfer_start, DriveType
<1> HIDE DEF end, size, id
<1>3. t \in DriveType
  BY <1>1, TransferIs, Zenon
<1> HIDE DEF t
<1>4. b \in [1 .. MAX_MULT_SECTORS -> Sector]
  BY <1>1, <1>3 DEF DriveType
<1>5. e = [t EXCEPT !.status = {"ready", "seek", "drq"}, !.io_buffer = b]
  BY <1>3 DEF DriveType
<1> HIDE DEF b, e
<1>6. /\ e \in DriveType /\ e.status = {"ready", "seek", "drq"} /\ e.data_index = 0
      /\ e.data_end = 1 /\ e.end_transfer = "identify_cb"
  BY <1>2, <1>3, <1>4, <1>5 DEF DriveType
<1>7. QED
  BY <1>6 DEF e, t, end, size, id

\* What any command keeps, whatever the block device is doing.
LEMMA ExecType ==
    ASSUME IdeTypes, NEW d \in DriveType, NEW cmd \in STRING, ide_exec_cmd(d, cmd), disk' = disk
    PROVE  Typed /\ (SetIrqs(IdeIrq) \/ pics' = pics)
<1>1. disk \in DiskType /\ Requested(request)
  BY DEF IdeTypes
<1>2. ASSUME NEW e \in DriveType, EndsAs(e) PROVE Typed /\ SetIrqs(IdeIrq)
  BY <1>1, <1>2 DEF EndsAs, Typed
<1>3. ASSUME NEW req \in Sizes, ide_sector_read([d EXCEPT !.req_nb_sectors = req])
      PROVE  Typed /\ (SetIrqs(IdeIrq) \/ pics' = pics)
  <2> DEFINE e == [d EXCEPT !.req_nb_sectors = req]
  <2>1. e \in DriveType
    BY DEF DriveType
  <2>2. ide_sector_read(e)
    BY <1>3
  <2> HIDE DEF e
  <2>3. QED
    BY <2>1, <2>2, SectorReadType
<1>4. ASSUME NEW req \in Sizes, drive' = WantData([d EXCEPT !.req_nb_sectors = req]),
             UNCHANGED <<disk, request, pics>>
      PROVE  Typed /\ pics' = pics
  <2> DEFINE e == [d EXCEPT !.req_nb_sectors = req]
  <2>1. e \in DriveType
    BY DEF DriveType
  <2>2. drive' = WantData(e)
    BY <1>4
  <2> HIDE DEF e
  <2>3. WantData(e) \in DriveType
    BY <2>1, WantDataType
  <2>4. QED
    BY <1>1, <1>4, <2>2, <2>3 DEF Typed
<1>5. ide_abort_command(d) \in DriveType
  BY AbortIs
<1>6. d.mult_sectors \in Sizes /\ 1 \in Sizes
  BY SizesAre DEF DriveType
<1>7. CASE cmd = "IDENTIFY"
  <2> DEFINE e == [ide_transfer_start(d, 1, "identify_cb")
                     EXCEPT !.status = {"ready", "seek", "drq"}, !.io_buffer[1] = <<"id", 0>>]
  <2>1. EndsAs(e)
    BY <1>7 DEF ide_exec_cmd
  <2>2. e \in DriveType
    BY IdentifyIs
  <2> HIDE DEF e
  <2>3. QED
    BY <1>2, <2>1, <2>2
<1>8. CASE cmd = "RECAL"
  <2> DEFINE e == [d EXCEPT !.error = FALSE, !.status = {"ready", "seek"}]
  <2>1. EndsAs(e)
    BY <1>8 DEF ide_exec_cmd
  <2>2. e \in DriveType
    BY DEF DriveType
  <2> HIDE DEF e
  <2>3. QED
    BY <1>2, <2>1, <2>2
<1>9. CASE cmd = "SETMULT"
  <2> DEFINE e == [d EXCEPT !.mult_sectors = d.nsector, !.status = {"ready"}]
  <2>1. (EndsAs(e) /\ d.nsector <= MAX_MULT_SECTORS) \/ EndsAs(ide_abort_command(d))
    BY <1>9 DEF ide_exec_cmd
  <2>2. d.nsector <= MAX_MULT_SECTORS => e \in DriveType
    BY SetMultIs
  <2> HIDE DEF e
  <2>3. QED
    BY <1>2, <1>5, <2>1, <2>2
<1>10. CASE cmd = "READ"
  <2> DEFINE one == 1
  <2>1. ide_sector_read([d EXCEPT !.req_nb_sectors = one]) /\ one \in Sizes
    BY <1>6, <1>10 DEF ide_exec_cmd
  <2> HIDE DEF one
  <2>2. QED
    BY <1>3, <2>1
<1>11. CASE cmd = "WRITE"
  <2> DEFINE one == 1
  <2>1. /\ drive' = WantData([d EXCEPT !.req_nb_sectors = one])
        /\ UNCHANGED <<disk, request, pics>> /\ one \in Sizes
    BY <1>6, <1>11 DEF ide_exec_cmd
  <2> HIDE DEF one
  <2>2. QED
    BY <1>4, <2>1
<1>12. CASE cmd = "MULTREAD"
  <2> DEFINE req == d.mult_sectors
  <2>1. EndsAs(ide_abort_command(d)) \/ ide_sector_read([d EXCEPT !.req_nb_sectors = req])
    BY <1>12 DEF ide_exec_cmd
  <2>2. req \in Sizes
    BY <1>6
  <2> HIDE DEF req
  <2>3. QED
    BY <1>2, <1>3, <1>5, <2>1, <2>2
<1>13. CASE cmd = "MULTWRITE"
  <2> DEFINE req == d.mult_sectors
  <2>1. \/ EndsAs(ide_abort_command(d))
        \/ /\ drive' = WantData([d EXCEPT !.req_nb_sectors = req])
           /\ UNCHANGED <<disk, request, pics>>
    BY <1>13 DEF ide_exec_cmd
  <2>2. req \in Sizes
    BY <1>6
  <2> HIDE DEF req
  <2>3. QED
    BY <1>2, <1>4, <1>5, <2>1, <2>2
<1>14. CASE cmd = "READ_NATIVE_MAX"
  <2> DEFINE n == NbSectors - 1
             s == ide_set_sector(d, n)
             e == [s EXCEPT !.status = {"ready"}]
  <2>1. EndsAs(e)
    BY <1>14 DEF ide_exec_cmd
  <2>2. n \in Int
    BY IdeAssumption
  <2> HIDE DEF n
  <2>3. s \in DriveType
    BY <2>2, SetSectorType
  <2> HIDE DEF s
  <2>4. e \in DriveType
    BY <2>3 DEF DriveType
  <2> HIDE DEF e
  <2>5. QED
    BY <1>2, <2>1, <2>4
<1>15. CASE cmd \notin {"IDENTIFY", "RECAL", "SETMULT", "READ", "WRITE", "MULTREAD", "MULTWRITE",
                        "READ_NATIVE_MAX"}
  <2>1. EndsAs(ide_abort_command(d))
    BY <1>15 DEF ide_exec_cmd
  <2>2. QED
    BY <1>2, <1>5, <2>1
<1>16. QED
  BY <1>7, <1>8, <1>9, <1>10, <1>11, <1>12, <1>13, <1>14, <1>15

\* The driver that has given a command.
LEMMA CommandDrv ==
    ASSUME IdeTypes, NEW c \in IdeCommands, IdeCommand(c)
    PROVE  /\ ide_drv'.at = IF IsWrite(c) /\ "drq" \in drive'.status THEN "data" ELSE "wait"
           /\ ide_drv'.command = c /\ ide_drv'.got = << >> /\ ide_drv'.sent = 0
           /\ ide_drv'.overtaken = (request # NoRequest)
           /\ ide_drv' \in DrvType(ide_drv'.got)
<1> DEFINE A == {"idle", "wait", "data", "ready", "reset"}
           C == IdeCommands \cup {NoCommand}
           at == IF IsWrite(c) /\ "drq" \in drive'.status THEN "data" ELSE "wait"
           got == ide_drv.got
           none == << >>
           zero == 0
           k == ide_drv.commands + 1
           over == request # NoRequest
<1>1. ide_drv' = [ide_drv EXCEPT !.at = at, !.command = c, !.got = none, !.sent = zero,
                                 !.overtaken = over, !.commands = k]
  BY DEF IdeCommand
<1>2. at \in A /\ c \in C /\ zero \in Nat /\ over \in BOOLEAN
  OBVIOUS
<1>3. ide_drv \in [at : A, command : C, got : {got}, sent : Nat, overtaken : BOOLEAN,
                   commands : Nat, resets : Nat]
  BY DEF IdeTypes, DrvType
<1> HIDE DEF A, C, at, none, zero, over, got
<1>4. k \in Nat
  BY <1>3
<1> HIDE DEF k
<1>5. /\ ide_drv' \in [at : A, command : C, got : {none}, sent : Nat, overtaken : BOOLEAN,
                       commands : Nat, resets : Nat]
      /\ ide_drv'.at = at /\ ide_drv'.command = c /\ ide_drv'.got = none /\ ide_drv'.sent = zero
      /\ ide_drv'.overtaken = over
  BY <1>1, <1>2, <1>3, <1>4
<1>6. ide_drv' \in DrvType(ide_drv'.got)
  BY <1>5 DEF DrvType, A, C
<1>7. QED
  BY <1>5, <1>6 DEF at, none, zero, over

\* What a command leaves, by its kind.
LEMMA CommandIs ==
    ASSUME IdeCore, NEW c \in IdeCommands, IdeCommand(c) PROVE IdeCore' /\ Signals
<1> DEFINE d == Addressed(c)
<1>1. /\ ide_exec_cmd(d, c.cmd) /\ ide_cmd' = ide_cmd /\ disk' = disk
  BY DEF IdeCommand
<1>2. IdeTypes
  BY DEF IdeCore
<1>3. /\ ide_drv'.at = (IF IsWrite(c) /\ "drq" \in drive'.status THEN "data" ELSE "wait")
      /\ ide_drv'.command = c /\ ide_drv'.got = << >> /\ ide_drv'.sent = 0
      /\ ide_drv'.overtaken = (request # NoRequest)
      /\ ide_drv' \in DrvType(ide_drv'.got)
  BY <1>2, CommandDrv
<1>4. d \in DriveType /\ d.lba = c.lba
  BY <1>2, AddressedIs
<1>5. c.first \in Nat /\ c.count \in 0 .. RegSize - 1 /\ c.cmd \in STRING
  BY IdeAssumption
<1>6. ide_drv'.got = ContentsOf(c.first, 0)
  BY <1>3, ContentsNone
<1> HIDE DEF d
<1>7. Typed /\ (SetIrqs(IdeIrq) \/ pics' = pics)
  <2> DEFINE cmd == c.cmd
  <2>1. ide_exec_cmd(d, cmd) /\ cmd \in STRING
    BY <1>1, <1>5
  <2> HIDE DEF cmd
  <2>2. QED
    BY <1>1, <1>2, <1>4, <2>1, ExecType
<1>8. IdeTypes' /\ PioDelivers'
  <2>1. IdeTypes'
    BY <1>1, <1>2, <1>3, <1>7 DEF IdeTypes, Typed
  <2>2. ide_drv'.at \in {"wait", "data"}
    BY <1>3
  <2>3. QED
    BY <2>1, <2>2 DEF PioDelivers
<1>9. CASE request # NoRequest
  <2>1. ide_drv'.overtaken
    BY <1>3, <1>9
  <2>2. ~IdeNeedsService'
    BY <2>1 DEF IdeNeedsService
  <2>3. QED
    BY <1>1, <1>7, <1>8, <2>1, <2>2 DEF IdeCore, Signals
<1>10. ASSUME Signals,
              IF IsWrite(c) THEN WriteInv'
              ELSE IF c.cmd \in {"READ", "MULTREAD"} THEN ReadInv' ELSE OtherInv'
       PROVE  IdeCore' /\ Signals
  <2>1. ide_drv'.at \in {"wait", "data"}
    BY <1>3
  <2>2. IsWrite(ide_drv'.command) => ide_drv'.command.cmd \notin {"READ", "MULTREAD"}
    BY DEF IsWrite
  <2>3. /\ ide_drv'.command \in IdeCommands
        /\ CASE IsWrite(ide_drv'.command) -> WriteInv'
             [] ide_drv'.command.cmd \in {"READ", "MULTREAD"} -> ReadInv'
             [] OTHER -> OtherInv'
    BY <1>3, <1>10, <2>2
  <2>4. QED
    BY <1>8, <1>10, <2>1, <2>3 DEF IdeCore
\* A command that ends at once.
<1>11. ASSUME request = NoRequest, NEW e \in DriveType, EndsAs(e),
              "drq" \notin e.status, "busy" \notin e.status,
              IsTransfer(c) => "err" \in e.status,
              c.cmd = "READ_NATIVE_MAX" => ide_get_sector(e) = NbSectors - 1
       PROVE  IdeCore' /\ Signals
  <2>1. drive' = e /\ request' = NoRequest /\ Signals
    BY <1>1, <1>11 DEF EndsAs, Signals
  <2>2. IsIdle' /\ ("err" \in e.status => Failed')
    BY <1>3, <1>11, <2>1 DEF IsIdle, Failed
  <2>3. CASE IsWrite(c)
    <3>1. WriteInv'
      BY <1>11, <2>2, <2>3 DEF WriteInv, IsWrite, IsTransfer
    <3>2. QED
      BY <1>10, <2>1, <2>3, <3>1
  <2>4. CASE ~IsWrite(c) /\ c.cmd \in {"READ", "MULTREAD"}
    <3>1. ide_drv'.got = ContentsOf(c.first, 0)'
      BY <1>1, <1>6 DEF ContentsOf
    <3>2. Failed'
      BY <1>11, <2>2, <2>4 DEF IsTransfer
    <3>3. ReadInv'
      BY <1>3, <3>1, <3>2 DEF ReadInv
    <3>4. QED
      BY <1>10, <2>1, <2>4, <3>3
  <2>5. CASE ~IsWrite(c) /\ c.cmd \notin {"READ", "MULTREAD"}
    <3>1. OtherInv'
      <4>1. c.cmd = "READ_NATIVE_MAX" => ide_get_sector(drive)' = NbSectors - 1
        BY <1>11, <2>1 DEF ide_get_sector
      <4>2. QED
        BY <1>3, <2>2, <4>1 DEF OtherInv
    <3>2. QED
      BY <1>10, <2>1, <2>5, <3>1
  <2>6. QED
    BY <2>3, <2>4, <2>5
<1>12. ASSUME request = NoRequest, EndsAs(ide_abort_command(d)), c.cmd # "READ_NATIVE_MAX"
       PROVE  IdeCore' /\ Signals
  <2> DEFINE e == ide_abort_command(d)
  <2>1. e \in DriveType /\ e.status = {"ready", "err"}
    BY <1>4, AbortIs
  <2> HIDE DEF e
  <2>2. EndsAs(e)
    BY <1>12 DEF e
  <2>3. "drq" \notin e.status /\ "busy" \notin e.status /\ "err" \in e.status
    BY <2>1
  <2>4. QED
    BY <1>11, <1>12, <2>1, <2>2, <2>3
<1>13. ASSUME request = NoRequest, NEW req \in Sizes \ {0}, c.cmd \in {"READ", "MULTREAD"},
              ide_sector_read([d EXCEPT !.req_nb_sectors = req])
       PROVE  IdeCore' /\ Signals
  <2> DEFINE e == [d EXCEPT !.req_nb_sectors = req]
             zero == 0
  <2>1. e \in DriveType /\ AtSector(e, c, zero) /\ zero < CountOf(c) /\ zero \in Nat
    BY <1>2, <1>13, StartIs DEF IsTransfer, d
  <2>2. ide_sector_read(e)
    BY <1>13
  <2>3. /\ ide_drv'.at = "wait" /\ ide_drv'.sent = zero /\ ide_drv'.command = c
        /\ ide_drv'.got = ContentsOf(c.first, zero)
    BY <1>3, <1>6, <1>13 DEF IsWrite
  <2> HIDE DEF e, zero
  <2>4. Signals /\ ReadInv'
    BY <1>1, <1>2, <1>13, <2>1, <2>2, <2>3, SectorReadIs
  <2>5. QED
    BY <1>10, <1>13, <2>4 DEF IsWrite
<1>14. ASSUME request = NoRequest, NEW req \in Sizes \ {0}, IsWrite(c),
              drive' = WantData([d EXCEPT !.req_nb_sectors = req]),
              UNCHANGED <<disk, request, pics>>
       PROVE  IdeCore' /\ Signals
  <2> DEFINE e == [d EXCEPT !.req_nb_sectors = req]
             r == WantData(e)
             zero == 0
  <2>1. IsTransfer(c)
    BY <1>14 DEF IsWrite, IsTransfer
  <2>2. e \in DriveType /\ AtSector(e, c, zero) /\ zero < CountOf(c)
    BY <1>2, <2>1, StartIs DEF d
  <2> HIDE DEF e
  <2>3. /\ r \in DriveType /\ AtSector(r, c, zero)
        /\ r.io_nb_sectors = r.data_end /\ r.data_end \in 1 .. CountOf(c) - zero
        /\ r.data_index = 0 /\ r.end_transfer = "write_cb1"
        /\ r.status = {"ready", "seek", "drq"}
    <3> HIDE DEF zero
    <3>1. QED
      BY <2>1, <2>2, WantDataIs
  <2>4. drive' = r
    BY <1>14 DEF e
  <2> HIDE DEF r
  <2>5. ide_drv'.at = "data" /\ Signals
    <3>1. "drq" \in drive'.status
      BY <2>3, <2>4
    <3>2. ide_drv'.at = "data"
      BY <1>3, <1>14, <3>1
    <3>3. QED
      BY <1>14, <3>2 DEF Signals, IdeNeedsService
  <2>6. CountOf(c) \in Nat
    BY IdeAssumption DEF CountOf
  <2>7. HasDrq'
    <3>1. r.data_end > 0
      BY <2>3, <2>6
    <3>2. request' = NoRequest
      BY <1>14
    <3>3. drive'.data_index < drive'.data_end
      BY <2>3, <2>4, <3>1
    <3>4. "drq" \in drive'.status /\ drive'.status \cap {"busy", "err"} = {}
      BY <2>3, <2>4
    <3>5. QED
      BY <2>5, <3>2, <3>3, <3>4 DEF HasDrq
  <2>8. (ide_drv.sent - drive.data_index)' = 0
    BY <1>3, <2>3, <2>4
  <2>9. Sending(drive, c, ide_drv.sent - drive.data_index, drive.data_index)'
    BY <2>3, <2>4 DEF Sending
  <2>10. WriteInv'
    BY <1>3, <2>3, <2>4, <2>7, <2>8, <2>9 DEF WriteInv
  <2>11. QED
    BY <1>10, <1>14, <2>5, <2>10
<1>15. d.mult_sectors \in Sizes /\ 1 \in Sizes
  BY <1>4, SizesAre DEF DriveType
<1>16. ASSUME request = NoRequest, c.cmd = "IDENTIFY" PROVE IdeCore' /\ Signals
  <2> DEFINE e == [ide_transfer_start(d, 1, "identify_cb")
                     EXCEPT !.status = {"ready", "seek", "drq"}, !.io_buffer[1] = <<"id", 0>>]
  <2>1. EndsAs(e)
    BY <1>1, <1>16 DEF ide_exec_cmd
  <2>2. /\ e.status = {"ready", "seek", "drq"} /\ e.data_index = 0
        /\ e.data_end = 1 /\ e.end_transfer = "identify_cb"
    BY <1>4, IdentifyIs
  <2> HIDE DEF e
  <2>3. drive' = e /\ request' = NoRequest /\ Signals
    BY <1>1, <1>16, <2>1 DEF EndsAs, Signals
  <2>4. ide_drv'.at = "wait" /\ ~IsWrite(c)
    BY <1>3, <1>16 DEF IsWrite
  <2>5. HasDrq'
    BY <2>2, <2>3, <2>4 DEF HasDrq
  <2>6. OtherInv'
    BY <1>3, <1>16, <2>2, <2>3, <2>5 DEF OtherInv
  <2>7. QED
    BY <1>10, <1>16, <2>3, <2>4, <2>6
<1>17. ASSUME request = NoRequest, c.cmd = "RECAL" PROVE IdeCore' /\ Signals
  <2> DEFINE e == [d EXCEPT !.error = FALSE, !.status = {"ready", "seek"}]
  <2>1. EndsAs(e)
    BY <1>1, <1>17 DEF ide_exec_cmd
  <2>2. e \in DriveType /\ e.status = {"ready", "seek"}
    BY <1>4 DEF DriveType
  <2> HIDE DEF e
  <2>3. "drq" \notin e.status /\ "busy" \notin e.status /\ ~IsTransfer(c)
    BY <1>17, <2>2 DEF IsTransfer
  <2>4. QED
    BY <1>11, <1>17, <2>1, <2>2, <2>3
<1>18. ASSUME request = NoRequest, c.cmd = "SETMULT" PROVE IdeCore' /\ Signals
  <2> DEFINE e == [d EXCEPT !.mult_sectors = d.nsector, !.status = {"ready"}]
  <2>1. (EndsAs(e) /\ d.nsector <= MAX_MULT_SECTORS) \/ EndsAs(ide_abort_command(d))
    BY <1>1, <1>18 DEF ide_exec_cmd
  <2>2. CASE EndsAs(e) /\ d.nsector <= MAX_MULT_SECTORS
    <3>1. e \in DriveType
      BY <1>4, <2>2, SetMultIs
    <3>2. e.status = {"ready"}
      BY <1>4 DEF DriveType
    <3> HIDE DEF e
    <3>3. "drq" \notin e.status /\ "busy" \notin e.status /\ ~IsTransfer(c)
      BY <1>18, <3>2 DEF IsTransfer
    <3>4. QED
      BY <1>11, <1>18, <2>2, <3>1, <3>3
  <2>3. QED
    BY <1>12, <1>18, <2>1, <2>2
<1>19. ASSUME request = NoRequest, c.cmd = "READ" PROVE IdeCore' /\ Signals
  <2> DEFINE one == 1
  <2>1. ide_sector_read([d EXCEPT !.req_nb_sectors = one]) /\ one \in Sizes \ {0}
    BY <1>1, <1>15, <1>19 DEF ide_exec_cmd
  <2> HIDE DEF one
  <2>2. QED
    BY <1>13, <1>19, <2>1
<1>20. ASSUME request = NoRequest, c.cmd = "WRITE" PROVE IdeCore' /\ Signals
  <2> DEFINE one == 1
  <2>1. /\ drive' = WantData([d EXCEPT !.req_nb_sectors = one])
        /\ UNCHANGED <<disk, request, pics>> /\ one \in Sizes \ {0}
    BY <1>1, <1>15, <1>20 DEF ide_exec_cmd
  <2> HIDE DEF one
  <2>2. IsWrite(c)
    BY <1>20 DEF IsWrite
  <2>3. QED
    BY <1>14, <1>20, <2>1, <2>2
<1>21. ASSUME request = NoRequest, c.cmd = "MULTREAD" PROVE IdeCore' /\ Signals
  <2> DEFINE req == d.mult_sectors
  <2>1. IF req = 0 THEN EndsAs(ide_abort_command(d))
        ELSE ide_sector_read([d EXCEPT !.req_nb_sectors = req])
    BY <1>1, <1>21 DEF ide_exec_cmd
  <2>2. req \in Sizes
    BY <1>15
  <2> HIDE DEF req
  <2>3. QED
    BY <1>12, <1>13, <1>21, <2>1, <2>2
<1>22. ASSUME request = NoRequest, c.cmd = "MULTWRITE" PROVE IdeCore' /\ Signals
  <2> DEFINE req == d.mult_sectors
  <2>1. IF req = 0 THEN EndsAs(ide_abort_command(d))
        ELSE /\ drive' = WantData([d EXCEPT !.req_nb_sectors = req])
             /\ UNCHANGED <<disk, request, pics>>
    BY <1>1, <1>22 DEF ide_exec_cmd
  <2>2. req \in Sizes /\ IsWrite(c)
    BY <1>15, <1>22 DEF IsWrite
  <2> HIDE DEF req
  <2>3. QED
    BY <1>12, <1>14, <1>22, <2>1, <2>2
<1>23. ASSUME request = NoRequest, c.cmd = "READ_NATIVE_MAX" PROVE IdeCore' /\ Signals
  <2> DEFINE n == NbSectors - 1
             s == ide_set_sector(d, n)
             e == [s EXCEPT !.status = {"ready"}]
  <2>1. EndsAs(e)
    BY <1>1, <1>23 DEF ide_exec_cmd
  <2>2. n \in Nat /\ n < Capacity(d.lba)
    <3>1. NbSectors \in Nat \ {0} /\ NbSectors <= Capacity(c.lba) /\ RegSize \in Int
          /\ Heads \in Int /\ Sectors \in Int
      BY <1>23, IdeAssumption
    <3>2. Capacity(c.lba) \in Int
      BY <3>1 DEF Capacity
    <3>3. QED
      BY <1>4, <3>1, <3>2
  <2> HIDE DEF n
  <2>3. s \in DriveType /\ ide_get_sector(s) = n
    BY <1>4, <2>2, SetSectorType, SetSectorIs
  <2> HIDE DEF s
  <2>4. e \in DriveType /\ e.status = {"ready"} /\ SameAddress(e, s)
    BY <2>3 DEF DriveType, SameAddress
  <2> HIDE DEF e
  <2>5. ide_get_sector(e) = NbSectors - 1
    BY <2>3, <2>4, AddressOnly DEF n
  <2>6. "drq" \notin e.status /\ "busy" \notin e.status /\ ~IsTransfer(c)
    BY <1>23, <2>4 DEF IsTransfer
  <2>7. QED
    BY <1>11, <1>23, <2>1, <2>4, <2>5, <2>6
<1>24. ASSUME request = NoRequest,
              c.cmd \notin {"IDENTIFY", "RECAL", "SETMULT", "READ", "WRITE", "MULTREAD",
                            "MULTWRITE", "READ_NATIVE_MAX"}
       PROVE  IdeCore' /\ Signals
  <2>1. EndsAs(ide_abort_command(d))
    BY <1>1, <1>24 DEF ide_exec_cmd
  <2>2. QED
    BY <1>12, <1>24, <2>1
<1>25. QED
  BY <1>9, <1>16, <1>17, <1>18, <1>19, <1>20, <1>21, <1>22, <1>23, <1>24

\* The driver goes on.
LEMMA DrvAt ==
    ASSUME ide_drv \in DrvType(ide_drv.got),
           NEW at \in {"idle", "wait", "data", "ready", "reset"},
           ide_drv' = [ide_drv EXCEPT !.at = at]
    PROVE  /\ ide_drv' \in DrvType(ide_drv'.got) /\ ide_drv'.at = at
           /\ ide_drv'.command = ide_drv.command /\ ide_drv'.got = ide_drv.got
           /\ ide_drv'.sent = ide_drv.sent /\ ide_drv'.overtaken = ide_drv.overtaken
<1> DEFINE got == ide_drv.got
<1>1. ide_drv \in DrvType(got)
  OBVIOUS
<1> HIDE DEF got
<1>2. /\ ide_drv' \in DrvType(got) /\ ide_drv'.at = at /\ ide_drv'.got = got
      /\ ide_drv'.command = ide_drv.command /\ ide_drv'.sent = ide_drv.sent
      /\ ide_drv'.overtaken = ide_drv.overtaken
  BY <1>1 DEF DrvType
<1>3. QED
  BY <1>2 DEF got

\* What the driver makes of a status.
LEMMA LookIs ==
    ASSUME IdeCore, Look, ide_drv.at = "wait", UNCHANGED <<drive, ide_cmd, disk, request>>
    PROVE  IdeCore' /\ ~IdeNeedsService'
<1> DEFINE at == CASE "busy" \notin drive.status /\ "drq" \in drive.status -> "data"
                   [] "err" \in drive.status -> "idle"
                   [] drive.status \cap {"busy", "drq", "err"} = {} -> "ready"
                   [] OTHER -> ide_drv.at
           c == ide_drv.command
<1>1. IdeTypes /\ ide_drv \in DrvType(ide_drv.got)
  BY DEF IdeCore, IdeTypes
<1>2. ide_drv' = [ide_drv EXCEPT !.at = at]
  BY DEF Look
<1>3. at \in {"idle", "wait", "data", "ready", "reset"}
  OBVIOUS
<1>4. /\ ide_drv' \in DrvType(ide_drv'.got) /\ ide_drv'.at = at
      /\ ide_drv'.command = c /\ ide_drv'.got = ide_drv.got
      /\ ide_drv'.sent = ide_drv.sent /\ ide_drv'.overtaken = ide_drv.overtaken
  <2> HIDE DEF at
  <2>1. QED
    BY <1>1, <1>2, <1>3, DrvAt
<1>5. IdeTypes'
  BY <1>1, <1>4 DEF IdeTypes
<1>6. CASE ide_drv.overtaken
  <2>1. ide_drv'.overtaken
    BY <1>4, <1>6
  <2>2. PioDelivers' /\ ~IdeNeedsService'
    BY <2>1 DEF PioDelivers, IdeNeedsService
  <2>3. QED
    BY <1>5, <2>1, <2>2 DEF IdeCore
<1>7. CASE ~ide_drv.overtaken
  <2>1. /\ c \in IdeCommands
        /\ CASE IsWrite(c) -> WriteInv
             [] c.cmd \in {"READ", "MULTREAD"} -> ReadInv
             [] OTHER -> OtherInv
    BY <1>7 DEF IdeCore
  <2>2. IsWrite(c) => c.cmd \notin {"READ", "MULTREAD"}
    BY DEF IsWrite
  <2>3. CountOf(c) \in Nat /\ ide_drv.sent \in Nat /\ drive.io_nb_sectors \in Nat
    BY <1>1, <2>1, IdeAssumption, SizesAre DEF CountOf, IdeTypes, DriveType, DrvType
  <2>4. CASE Busy /\ request # NoRequest
    <3>1. at = ide_drv.at
      BY <2>4 DEF Busy
    <3>2. ~IdeNeedsService'
      BY <2>4 DEF IdeNeedsService
    <3>3. ide_drv' = ide_drv
      <4> HIDE DEF at
      <4>1. QED
        BY <1>1, <1>2, <3>1 DEF DrvType
    <3>4. IdeCore'
      BY <3>3 DEF IdeCore, IdeTypes, WriteInv, ReadInv, OtherInv, Busy, HasDrq, IsIdle,
         Failed, Written, Fetched, Sending, ContentsOf, PioDelivers
    <3>5. QED
      BY <3>2, <3>4
  <2>5. CASE HasDrq
    <3>1. at = "data"
      BY <2>5 DEF HasDrq
    <3>2. ~IdeNeedsService' /\ HasDrq'
      BY <1>4, <2>5, <3>1 DEF IdeNeedsService, HasDrq
    <3>3. ~Busy /\ ~IsIdle /\ ~Failed
      BY <2>5 DEF Busy, HasDrq, IsIdle, Failed
    <3>4. PioDelivers'
      BY <1>4, <3>1 DEF PioDelivers
    <3>5. CASE IsWrite(c)
      <4>1. WriteInv
        BY <2>1, <2>2, <3>5
      <4>2. WriteInv'
        BY <1>4, <3>2, <3>3, <4>1 DEF WriteInv, Written, Sending
      <4>3. QED
        BY <1>4, <1>5, <2>1, <2>2, <3>1, <3>2, <3>4, <3>5, <4>2 DEF IdeCore
    <3>6. CASE c.cmd \in {"READ", "MULTREAD"}
      <4>1. ReadInv
        BY <2>1, <2>2, <3>6
      <4>2. ReadInv'
        BY <1>4, <3>2, <3>3, <4>1 DEF ReadInv, ContentsOf, Fetched
      <4>3. QED
        BY <1>4, <1>5, <2>1, <2>2, <3>1, <3>2, <3>4, <3>6, <4>2 DEF IdeCore
    <3>7. CASE ~IsWrite(c) /\ c.cmd \notin {"READ", "MULTREAD"}
      <4>1. OtherInv
        BY <2>1, <2>2, <3>7
      <4>2. OtherInv'
        BY <1>4, <3>2, <3>3, <4>1 DEF OtherInv
      <4>3. QED
        BY <1>4, <1>5, <2>1, <2>2, <3>1, <3>2, <3>4, <3>7, <4>2 DEF IdeCore
    <3>8. QED
      BY <3>5, <3>6, <3>7
  <2>6. CASE IsIdle
    <3>1. CASE "err" \in drive.status
      <4>1. at = "idle"
        BY <2>6, <3>1 DEF IsIdle
      <4>2. QED
        BY <1>4, <1>5, <4>1 DEF IdeCore, IdeNeedsService, PioDelivers
    <3>2. CASE "err" \notin drive.status
      <4>1. at = "ready"
        BY <2>6, <3>2 DEF IsIdle
      <4>2. request' = NoRequest /\ ~IdeNeedsService'
        BY <1>4, <2>6, <4>1 DEF IsIdle, IdeNeedsService
      <4>3. ~Busy /\ ~HasDrq /\ ~Failed
        BY <2>6, <3>2 DEF Busy, HasDrq, IsIdle, Failed
      <4>4. PioDelivers'
        <5>1. CASE IsWrite(c)
          <6>1. WriteInv
            BY <2>1, <2>2, <5>1
          <6>2. ide_drv.sent = CountOf(c) /\ Written(c, ide_drv.sent)
            BY <4>3, <6>1 DEF WriteInv
          <6>3. \A i \in 0 .. CountOf(c) - 1 : disk[c.first + i] = NewData(c, i)
            BY <6>2 DEF Written
          <6>4. QED
            <7>1. /\ ide_drv'.command.cmd \notin {"READ", "MULTREAD"} /\ IsWrite(ide_drv'.command)
                  /\ \A i \in 0 .. CountOf(ide_drv'.command) - 1 :
                       disk'[ide_drv'.command.first + i] = NewData(ide_drv'.command, i)
              BY <1>4, <2>2, <5>1, <6>3
            <7>2. QED
              BY <7>1 DEF PioDelivers, IsWrite
        <5>2. CASE c.cmd \in {"READ", "MULTREAD"}
          <6>1. ReadInv
            BY <2>1, <2>2, <5>2
          <6>2. QED
            BY <4>3, <6>1 DEF ReadInv
        <5>3. CASE ~IsWrite(c) /\ c.cmd \notin {"READ", "MULTREAD"}
          <6>1. OtherInv
            BY <2>1, <2>2, <5>3
          <6>2. c.cmd = "READ_NATIVE_MAX" => ide_get_sector(drive) = NbSectors - 1
            BY <3>2, <4>3, <6>1 DEF OtherInv
          <6>3. ide_get_sector(drive)' = ide_get_sector(drive)
            BY DEF ide_get_sector
          <6>4. QED
            BY <1>4, <5>3, <6>2, <6>3 DEF PioDelivers
        <5>4. QED
          BY <5>1, <5>2, <5>3
      <4>5. QED
        BY <1>4, <1>5, <4>1, <4>2, <4>4 DEF IdeCore
    <3>3. QED
      BY <3>1, <3>2
  <2>7. (Busy /\ request # NoRequest) \/ HasDrq \/ IsIdle
    <3>1. CASE IsWrite(c)
      <4>1. WriteInv
        BY <2>1, <2>2, <3>1
      <4>2. CASE Busy
        <5>1. HasDrq \/ IsIdle \/ (/\ drive.io_nb_sectors >= 1
                                   /\ request.n = drive.io_nb_sectors)
          BY <2>3, <4>1 DEF WriteInv, Failed
        <5>2. QED
          BY <4>2, <5>1 DEF NoRequest
      <4>3. QED
        BY <4>1, <4>2 DEF WriteInv, Failed
    <3>2. CASE c.cmd \in {"READ", "MULTREAD"}
      <4>1. ReadInv
        BY <2>1, <2>2, <3>2
      <4>2. CASE Busy
        <5>1. HasDrq \/ IsIdle \/ (/\ drive.io_nb_sectors >= 1
                                   /\ request.n = drive.io_nb_sectors)
          BY <2>3, <4>1 DEF ReadInv, Failed
        <5>2. QED
          BY <4>2, <5>1 DEF NoRequest
      <4>3. QED
        BY <4>1, <4>2 DEF ReadInv, Failed
    <3>3. CASE ~IsWrite(c) /\ c.cmd \notin {"READ", "MULTREAD"}
      BY <2>1, <2>2, <3>3 DEF OtherInv
    <3>4. QED
      BY <3>1, <3>2, <3>3
  <2>8. QED
    BY <2>4, <2>5, <2>6, <2>7
<1>8. QED
  BY <1>6, <1>7

\* A read of the status, by a driver that waits or one that does not.
LEMMA StatusIs ==
    ASSUME IdeCore, NEW waiting \in BOOLEAN, IdeStatus(waiting),
           waiting => ide_drv.at = "wait",
           ide_drv.at = "wait" /\ "disable_irq" \notin ide_cmd => waiting
    PROVE  /\ IdeCore' /\ ~IdeNeedsService'
           /\ ide_drv.at = "idle" => ide_drv'.at = "idle"
<1>1. UNCHANGED <<drive, ide_cmd, disk, request>>
  BY DEF IdeStatus
<1>2. CASE waiting
  BY <1>1, <1>2, LookIs DEF IdeStatus
<1>3. CASE ~waiting
  <2>1. ide_drv' = ide_drv
    BY <1>3 DEF IdeStatus
  <2>2. ~IdeNeedsService'
    BY <1>1, <1>3, <2>1 DEF IdeNeedsService
  <2>3. IdeCore'
    BY <1>1, <2>1 DEF IdeCore, IdeTypes, WriteInv, ReadInv, OtherInv, Busy, HasDrq, IsIdle,
       Failed, Written, Fetched, Sending, ContentsOf, PioDelivers
  <2>4. QED
    BY <2>1, <2>2, <2>3
<1>4. QED
  BY <1>2, <1>3

\* What follows the last word of a transfer, and any word.
LEMMA AccessType ==
    ASSUME IdeTypes, NEW d \in DriveType, DataAccess(d)
    PROVE  Typed /\ (SetIrqs(IdeIrq) \/ pics' = pics)
<1> DEFINE m == d.data_index + 1
           e == [d EXCEPT !.data_index = m]
<1>1. IF e.data_index >= e.data_end THEN EndTransfer(e)
      ELSE drive' = e /\ UNCHANGED <<disk, request, pics>>
  BY DEF DataAccess
<1>2. m \in Nat
  BY DEF DriveType
<1> HIDE DEF m
<1>3. e \in DriveType
  BY <1>2 DEF DriveType
<1> HIDE DEF e
<1>4. disk \in DiskType /\ Requested(request)
  BY DEF IdeTypes
<1>5. CASE drive' = e /\ UNCHANGED <<disk, request, pics>>
  BY <1>3, <1>4, <1>5 DEF Typed
<1>6. CASE EndTransfer(e)
  <2> DEFINE s == ide_transfer_stop(e)
             r == [s EXCEPT !.status = {"ready", "seek"}, !.error = FALSE]
             q == [s EXCEPT !.status = {"ready"}]
  <2>1. \/ ide_sector_read(e)
        \/ ide_sector_write_cb1(e)
        \/ drive' \in {r, q, s} /\ UNCHANGED <<disk, request, pics>>
    <3>1. CASE e.end_transfer = "sector_read"
      BY <1>6, <3>1 DEF EndTransfer
    <3>2. CASE e.end_transfer = "write_cb1"
      BY <1>6, <3>2 DEF EndTransfer
    <3>3. CASE e.end_transfer = "read_cb_end"
      BY <1>6, <3>3 DEF EndTransfer
    <3>4. CASE e.end_transfer = "identify_cb"
      BY <1>6, <3>4 DEF EndTransfer
    <3>5. CASE e.end_transfer = "stop"
      BY <1>6, <3>5 DEF EndTransfer
    <3>6. QED
      BY <1>3, <3>1, <3>2, <3>3, <3>4, <3>5 DEF DriveType
  <2>2. s \in DriveType
    BY <1>3, StopIs
  <2> HIDE DEF s
  <2>3. r \in DriveType /\ q \in DriveType
    BY <2>2 DEF DriveType
  <2> HIDE DEF r, q
  <2>4. CASE ide_sector_read(e)
    BY <1>3, <2>4, SectorReadType
  <2>5. CASE ide_sector_write_cb1(e)
    BY <1>3, <2>5, SectorWriteType
  <2>6. CASE drive' \in {r, q, s} /\ UNCHANGED <<disk, request, pics>>
    BY <1>4, <2>2, <2>3, <2>6 DEF Typed
  <2>7. QED
    BY <2>1, <2>4, <2>5, <2>6
<1>7. QED
  BY <1>1, <1>5, <1>6

\* The word that the driver writes, or reads.
LEMMA WordIs ==
    ASSUME IdeTypes, IdeData
    PROVE  LET c == ide_drv.command
               i == drive.data_index
               d == IF IsWrite(c)
                    THEN [drive EXCEPT !.io_buffer[i + 1] = NewData(c, ide_drv.sent)] ELSE drive
           IN  /\ d \in DriveType /\ DataAccess(d)
               /\ SameAddress(d, drive) /\ d.nsector = drive.nsector
               /\ d.req_nb_sectors = drive.req_nb_sectors
               /\ d.io_nb_sectors = drive.io_nb_sectors /\ d.status = drive.status
               /\ d.data_index = i /\ d.data_end = drive.data_end
               /\ d.end_transfer = drive.end_transfer
               /\ \A j \in 1 .. MAX_MULT_SECTORS :
                    d.io_buffer[j] = IF IsWrite(c) /\ j = i + 1 THEN NewData(c, ide_drv.sent)
                                     ELSE drive.io_buffer[j]
<1> DEFINE c == ide_drv.command
           i == drive.data_index
           x == NewData(c, ide_drv.sent)
           b == [drive.io_buffer EXCEPT ![i + 1] = x]
           e == [drive EXCEPT !.io_buffer = b]
           d == IF IsWrite(c) THEN [drive EXCEPT !.io_buffer[i + 1] = x] ELSE drive
<1>1. drive \in DriveType /\ drive.io_buffer \in [1 .. MAX_MULT_SECTORS -> Sector]
  BY DEF IdeTypes, DriveType
<1>2. x \in Sector
  <2>1. c \in IdeCommands \cup {NoCommand} /\ ide_drv.sent \in Nat
    BY DEF IdeTypes, DrvType
  <2>2. c.first \in Nat
    BY <2>1, IdeAssumption DEF NoCommand
  <2>3. QED
    BY <2>1, <2>2 DEF NewData, Sector
<1>3. d = IF IsWrite(c) THEN e ELSE drive
  OBVIOUS
<1>4. DataAccess(d)
  BY DEF IdeData
<1> HIDE DEF x
<1>5. /\ b \in [1 .. MAX_MULT_SECTORS -> Sector]
      /\ \A j \in 1 .. MAX_MULT_SECTORS : b[j] = IF j = i + 1 THEN x ELSE drive.io_buffer[j]
  BY <1>1, <1>2
<1> HIDE DEF b
<1>6. /\ e \in DriveType /\ SameAddress(e, drive) /\ e.nsector = drive.nsector
      /\ e.req_nb_sectors = drive.req_nb_sectors
      /\ e.io_nb_sectors = drive.io_nb_sectors /\ e.status = drive.status
      /\ e.data_index = i /\ e.data_end = drive.data_end
      /\ e.end_transfer = drive.end_transfer /\ e.io_buffer = b
  BY <1>1, <1>5 DEF DriveType, SameAddress
<1> HIDE DEF e
<1>7. /\ d \in DriveType /\ DataAccess(d)
      /\ SameAddress(d, drive) /\ d.nsector = drive.nsector
      /\ d.req_nb_sectors = drive.req_nb_sectors
      /\ d.io_nb_sectors = drive.io_nb_sectors /\ d.status = drive.status
      /\ d.data_index = i /\ d.data_end = drive.data_end
      /\ d.end_transfer = drive.end_transfer
      /\ \A j \in 1 .. MAX_MULT_SECTORS :
           d.io_buffer[j] = IF IsWrite(c) /\ j = i + 1 THEN x ELSE drive.io_buffer[j]
  <2>1. CASE IsWrite(c)
    <3> HIDE DEF d
    <3>1. d = e
      BY <1>3, <2>1
    <3>2. QED
      BY <1>4, <1>5, <1>6, <2>1, <3>1
  <2>2. CASE ~IsWrite(c)
    <3> HIDE DEF d
    <3>1. d = drive
      BY <1>3, <2>2
    <3>2. QED
      BY <1>1, <1>4, <2>2, <3>1 DEF SameAddress
  <2>3. QED
    BY <2>1, <2>2
<1>8. QED
  BY <1>7 DEF x

\* The driver after a word.
LEMMA WordDrv ==
    ASSUME IdeTypes, IdeData
    PROVE  LET c == ide_drv.command
               i == drive.data_index
               total == IF IsTransfer(c) THEN CountOf(c) ELSE 1
           IN  /\ ide_drv' \in DrvType(ide_drv'.got)
               /\ ide_drv'.command = c /\ ide_drv'.sent = ide_drv.sent + 1
               /\ ide_drv'.overtaken = ide_drv.overtaken
               /\ ide_drv'.got = IF IsWrite(c) THEN ide_drv.got
                                 ELSE Append(ide_drv.got, drive.io_buffer[i + 1])
               /\ ide_drv'.at = IF i + 1 < drive.data_end THEN "data"
                                ELSE IF ~IsWrite(c) /\ ide_drv.sent + 1 = total
                                THEN "ready" ELSE "wait"
<1> DEFINE c == ide_drv.command
           i == drive.data_index
           total == IF IsTransfer(c) THEN CountOf(c) ELSE 1
           got == ide_drv.got
           g == IF IsWrite(c) THEN got ELSE Append(got, drive.io_buffer[i + 1])
           m == ide_drv.sent + 1
           at == IF i + 1 < drive.data_end THEN "data"
                 ELSE IF ~IsWrite(c) /\ ide_drv.sent + 1 = total THEN "ready" ELSE "wait"
<1>1. ide_drv' = [ide_drv EXCEPT !.got = g, !.sent = m, !.at = at]
  BY DEF IdeData
<1>2. ide_drv \in DrvType(got) /\ at \in {"idle", "wait", "data", "ready", "reset"}
  BY DEF IdeTypes
<1> HIDE DEF at, g, got
<1>3. m \in Nat
  BY <1>2 DEF DrvType
<1> HIDE DEF m
<1>4. /\ ide_drv' \in DrvType(g) /\ ide_drv'.command = ide_drv.command /\ ide_drv'.sent = m
      /\ ide_drv'.overtaken = ide_drv.overtaken /\ ide_drv'.got = g /\ ide_drv'.at = at
  BY <1>1, <1>2, <1>3 DEF DrvType
<1>5. QED
  BY <1>4 DEF m, at, g, got

\* What a transfer in progress says, with the numbers that it keeps.
Transfer(c, base, index, n) ==
    /\ ide_drv.command = c /\ ide_drv.at = "data" /\ HasDrq
    /\ drive.data_index = index /\ drive.data_end = n /\ ide_drv.sent = base + index
    /\ index < n

LEMMA TransferOf ==
    ASSUME IdeCore, ide_drv.at = "data", ~ide_drv.overtaken
    PROVE  \E c \in IdeCommands, base \in Int, index \in Nat, n \in Sizes :
             /\ Transfer(c, base, index, n)
             /\ CASE IsWrite(c) ->
                       /\ base >= 0 /\ AtSector(drive, c, base)
                       /\ drive.io_nb_sectors = n /\ n \in 1 .. CountOf(c) - base
                       /\ (base > 0 => Written(c, base))
                       /\ Sending(drive, c, base, index)
                       /\ drive.end_transfer = "write_cb1"
                  [] c.cmd \in {"READ", "MULTREAD"} ->
                       /\ ide_drv.got = ContentsOf(c.first, base + index)
                       /\ base >= 0 /\ AtSector(drive, c, base + n)
                       /\ c.first + base + n <= NbSectors
                       /\ Fetched(drive, c.first + base, n)
                       /\ drive.end_transfer = IF base + n = CountOf(c)
                                               THEN "read_cb_end" ELSE "sector_read"
                  [] OTHER ->
                       /\ c.cmd = "IDENTIFY" /\ base = 0 /\ index = 0 /\ n = 1
                       /\ drive.end_transfer = "identify_cb"
<1> DEFINE c == ide_drv.command
           sent == ide_drv.sent
           index == drive.data_index
           n == drive.data_end
           base == sent - index
<1>1. /\ c \in IdeCommands /\ sent \in Nat /\ index \in Nat /\ n \in Sizes
      /\ ~Busy /\ ~IsIdle /\ ~Failed
  BY DEF IdeCore, IdeTypes, DriveType, DrvType, Busy, IsIdle, Failed
<1>2. base \in Int /\ sent = base + index /\ n \in Nat
  <2>1. sent \in Nat /\ index \in Nat /\ n \in Nat
    BY <1>1, SizesAre
  <2> HIDE DEF sent, index, n
  <2>2. QED
    BY <2>1
<1>3. IsWrite(c) => c.cmd \notin {"READ", "MULTREAD"}
  BY DEF IsWrite
<1>4. CASE IsWrite(c)
  <2>1. WriteInv
    BY <1>3, <1>4 DEF IdeCore
  <2>2. /\ HasDrq /\ base >= 0 /\ AtSector(drive, c, base)
        /\ drive.io_nb_sectors = n /\ n \in 1 .. CountOf(c) - base
        /\ (base > 0 => Written(c, base))
        /\ Sending(drive, c, base, index)
        /\ drive.end_transfer = "write_cb1"
    BY <1>1, <2>1 DEF WriteInv
  <2>3. Transfer(c, base, index, n)
    BY <1>2, <2>2 DEF Transfer, HasDrq
  <2> HIDE DEF c, sent, index, n, base
  <2>4. QED
    BY <1>1, <1>2, <1>3, <1>4, <2>2, <2>3
<1>5. CASE c.cmd \in {"READ", "MULTREAD"}
  <2>1. ReadInv
    BY <1>3, <1>5 DEF IdeCore
  <2>2. /\ ide_drv.got = ContentsOf(c.first, sent)
        /\ HasDrq /\ base >= 0 /\ AtSector(drive, c, base + n)
        /\ c.first + base + n <= NbSectors
        /\ Fetched(drive, c.first + base, n)
        /\ drive.end_transfer = IF base + n = CountOf(c) THEN "read_cb_end" ELSE "sector_read"
    BY <1>1, <2>1 DEF ReadInv
  <2>3. Transfer(c, base, index, n)
    BY <1>2, <2>2 DEF Transfer, HasDrq
  <2>4. ide_drv.got = ContentsOf(c.first, base + index)
    BY <1>2, <2>2
  <2> HIDE DEF c, sent, index, n, base
  <2>5. QED
    BY <1>1, <1>2, <1>3, <1>5, <2>2, <2>3, <2>4
<1>6. CASE ~IsWrite(c) /\ c.cmd \notin {"READ", "MULTREAD"}
  <2>1. OtherInv
    BY <1>6 DEF IdeCore
  <2>2. /\ c.cmd = "IDENTIFY" /\ HasDrq
        /\ sent = 0 /\ n = 1 /\ drive.end_transfer = "identify_cb"
    BY <1>1, <2>1 DEF OtherInv
  <2>3. Transfer(c, base, index, n)
    BY <1>2, <2>2 DEF Transfer, HasDrq
  <2>4. index = 0 /\ base = 0
    BY <1>1, <2>2 DEF HasDrq
  <2> HIDE DEF c, sent, index, n, base
  <2>5. QED
    BY <1>1, <1>2, <1>6, <2>2, <2>3, <2>4
<1>7. QED
  BY <1>4, <1>5, <1>6

\* A word of the data register.
LEMMA DataIs ==
    ASSUME IdeCore, IdeData PROVE IdeCore' /\ Signals
<1> DEFINE k == ide_drv.command
           i == drive.data_index
           d == IF IsWrite(k)
                THEN [drive EXCEPT !.io_buffer[i + 1] = NewData(k, ide_drv.sent)] ELSE drive
<1>1. IdeTypes /\ drive \in DriveType /\ ide_drv.at = "data" /\ ide_cmd' = ide_cmd
  BY DEF IdeCore, IdeTypes, IdeData
<1>2. /\ d \in DriveType /\ DataAccess(d)
      /\ SameAddress(d, drive) /\ d.nsector = drive.nsector
      /\ d.req_nb_sectors = drive.req_nb_sectors
      /\ d.io_nb_sectors = drive.io_nb_sectors /\ d.status = drive.status
      /\ d.data_index = i /\ d.data_end = drive.data_end
      /\ d.end_transfer = drive.end_transfer
      /\ \A j \in 1 .. MAX_MULT_SECTORS :
           d.io_buffer[j] = IF IsWrite(k) /\ j = i + 1 THEN NewData(k, ide_drv.sent)
                            ELSE drive.io_buffer[j]
  BY <1>1, WordIs, Zenon
<1> HIDE DEF d
<1>3. /\ ide_drv' \in DrvType(ide_drv'.got)
      /\ ide_drv'.command = k /\ ide_drv'.sent = ide_drv.sent + 1
      /\ ide_drv'.overtaken = ide_drv.overtaken
      /\ ide_drv'.got = IF IsWrite(k) THEN ide_drv.got
                        ELSE Append(ide_drv.got, drive.io_buffer[i + 1])
      /\ ide_drv'.at = IF i + 1 < drive.data_end THEN "data"
                       ELSE IF /\ ~IsWrite(k)
                               /\ ide_drv.sent + 1 = (IF IsTransfer(k) THEN CountOf(k) ELSE 1)
                       THEN "ready" ELSE "wait"
  BY <1>1, WordDrv, Zenon
<1>4. Typed /\ (SetIrqs(IdeIrq) \/ pics' = pics)
  BY <1>1, <1>2, AccessType
<1>5. IdeTypes'
  BY <1>1, <1>3, <1>4 DEF IdeTypes, Typed
<1>6. CASE ide_drv.overtaken
  <2>1. ide_drv'.overtaken
    BY <1>3, <1>6
  <2>2. PioDelivers' /\ ~IdeNeedsService'
    BY <2>1 DEF PioDelivers, IdeNeedsService
  <2>3. QED
    BY <1>1, <1>4, <1>5, <2>1, <2>2 DEF IdeCore, Signals
<1>7. CASE ~ide_drv.overtaken
  <2>1. PICK c \in IdeCommands, base \in Int, index \in Nat, n \in Sizes :
          /\ Transfer(c, base, index, n)
          /\ CASE IsWrite(c) ->
                    /\ base >= 0 /\ AtSector(drive, c, base)
                    /\ drive.io_nb_sectors = n /\ n \in 1 .. CountOf(c) - base
                    /\ (base > 0 => Written(c, base))
                    /\ Sending(drive, c, base, index)
                    /\ drive.end_transfer = "write_cb1"
               [] c.cmd \in {"READ", "MULTREAD"} ->
                    /\ ide_drv.got = ContentsOf(c.first, base + index)
                    /\ base >= 0 /\ AtSector(drive, c, base + n)
                    /\ c.first + base + n <= NbSectors
                    /\ Fetched(drive, c.first + base, n)
                    /\ drive.end_transfer = IF base + n = CountOf(c)
                                            THEN "read_cb_end" ELSE "sector_read"
               [] OTHER ->
                    /\ c.cmd = "IDENTIFY" /\ base = 0 /\ index = 0 /\ n = 1
                    /\ drive.end_transfer = "identify_cb"
    BY <1>1, <1>7, TransferOf, Zenon
  <2>2. /\ request = NoRequest /\ "drq" \in drive.status
        /\ drive.status \cap {"busy", "err"} = {}
        /\ k = c /\ ide_drv.sent = base + index /\ index < n
        /\ i = index /\ drive.data_end = n
    BY <2>1 DEF Transfer, HasDrq
  <2> DEFINE m == index + 1
             to == base + m
             e == [d EXCEPT !.data_index = m]
             got == drive.io_buffer[m]
  <2>3. CountOf(c) \in Nat /\ c.first \in Nat /\ NbSectors \in Nat /\ MAX_MULT_SECTORS \in Nat
        /\ n \in 0 .. MAX_MULT_SECTORS /\ disk \in DiskType /\ ide_drv.sent \in Nat
    BY <1>1, IdeAssumption DEF CountOf, IdeTypes, DrvType, Sizes
  <2>4. m \in 1 .. n /\ m \in 1 .. MAX_MULT_SECTORS /\ to \in Nat /\ to = base + index + 1
    BY <2>2, <2>3
  <2>5. /\ ide_drv'.command = c /\ ide_drv'.sent = to
        /\ ide_drv'.got = IF IsWrite(c) THEN ide_drv.got ELSE Append(ide_drv.got, got)
        /\ ide_drv'.at = IF m < n THEN "data"
                         ELSE IF ~IsWrite(c) /\ to = (IF IsTransfer(c) THEN CountOf(c) ELSE 1)
                         THEN "ready" ELSE "wait"
    BY <1>3, <2>2, <2>4
  <2>6. IF m >= n THEN EndTransfer(e) ELSE drive' = e /\ UNCHANGED <<disk, request, pics>>
    <3>1. d.data_index = index /\ d.data_end = n
      BY <1>2, <2>2
    <3>2. e = [d EXCEPT !.data_index = @ + 1] /\ e.data_end = n /\ e.data_index = m
      BY <1>2, <3>1 DEF DriveType
    <3> HIDE DEF e
    <3>3. QED
      BY <1>2, <3>2 DEF DataAccess
  <2> HIDE DEF m, to, got
  <2>7. /\ e \in DriveType /\ SameAddress(e, drive) /\ e.nsector = drive.nsector
        /\ e.req_nb_sectors = drive.req_nb_sectors /\ e.io_nb_sectors = drive.io_nb_sectors
        /\ e.status = drive.status /\ e.data_index = m /\ e.data_end = n
        /\ e.end_transfer = drive.end_transfer /\ e.io_buffer = d.io_buffer
    <3>1. m \in Nat /\ d \in DriveType
      BY <1>2, <2>3, <2>4
    <3> HIDE DEF i, k
    <3>2. /\ e \in DriveType /\ SameAddress(e, d) /\ e.nsector = d.nsector
          /\ e.req_nb_sectors = d.req_nb_sectors /\ e.io_nb_sectors = d.io_nb_sectors
          /\ e.status = d.status /\ e.data_index = m /\ e.data_end = d.data_end
          /\ e.end_transfer = d.end_transfer /\ e.io_buffer = d.io_buffer
      BY <3>1 DEF DriveType, SameAddress
    <3> HIDE DEF e
    <3>3. SameAddress(e, drive)
      BY <1>2, <3>2 DEF SameAddress
    <3>4. QED
      BY <1>2, <2>2, <3>2, <3>3
  <2> HIDE DEF e
  <2>8. ASSUME NEW done, AtSector(drive, c, done) PROVE AtSector(e, c, done)
    <3>1. ide_get_sector(e) = ide_get_sector(drive) /\ e.lba = drive.lba
      BY <2>7, AddressOnly DEF SameAddress
    <3>2. QED
      BY <2>7, <2>8, <3>1 DEF AtSector
  <2>9. ASSUME Signals,
               ide_drv'.at = "ready" => request' = NoRequest /\ PioDelivers',
               ide_drv'.at # "ready" => IF IsWrite(c) THEN WriteInv'
                                        ELSE c.cmd \in {"READ", "MULTREAD"} /\ ReadInv'
        PROVE  IdeCore' /\ Signals
    <3>1. PioDelivers'
      BY <2>9 DEF PioDelivers
    <3>2. ide_drv'.at \in {"wait", "data"} =>
            /\ ide_drv'.command \in IdeCommands
            /\ CASE IsWrite(ide_drv'.command) -> WriteInv'
                 [] ide_drv'.command.cmd \in {"READ", "MULTREAD"} -> ReadInv'
                 [] OTHER -> OtherInv'
      <4>1. IsWrite(c) => c.cmd \notin {"READ", "MULTREAD"}
        BY DEF IsWrite
      <4>2. QED
        BY <2>5, <2>9, <4>1
    <3>3. QED
      BY <1>5, <2>9, <3>1, <3>2 DEF IdeCore
  <2>10. CASE IsWrite(c)
    <3>1. /\ base \in Nat /\ AtSector(e, c, base)
          /\ e.io_nb_sectors = n /\ n \in 1 .. CountOf(c) - base
          /\ (base > 0 => Written(c, base))
          /\ e.end_transfer = "write_cb1" /\ Sending(drive, c, base, index)
      <4>1. c.cmd \notin {"READ", "MULTREAD"}
        BY <2>10 DEF IsWrite
      <4>2. /\ base >= 0 /\ AtSector(drive, c, base)
            /\ drive.io_nb_sectors = n /\ n \in 1 .. CountOf(c) - base
            /\ (base > 0 => Written(c, base))
            /\ Sending(drive, c, base, index)
            /\ drive.end_transfer = "write_cb1"
        BY <2>1, <2>10, <4>1
      <4>3. QED
        BY <2>7, <2>8, <4>2
    <3>2. Sending(e, c, base, m)
      <4> SUFFICES ASSUME NEW j \in 1 .. m PROVE e.io_buffer[j] = NewData(c, base + j - 1)
        BY DEF Sending
      <4>1. j \in 1 .. MAX_MULT_SECTORS /\ (j # m => j \in 1 .. index)
        BY <2>3, <2>4 DEF m
      <4>2. e.io_buffer[j] = IF j = m THEN NewData(c, base + index) ELSE drive.io_buffer[j]
        BY <1>2, <2>2, <2>7, <2>10, <4>1 DEF m
      <4>3. base + m - 1 = base + index
        BY <3>1 DEF m
      <4>4. CASE j = m
        BY <4>2, <4>3, <4>4
      <4>5. CASE j # m
        BY <3>1, <4>1, <4>2, <4>5 DEF Sending
      <4>6. QED
        BY <4>4, <4>5
    <3>3. CASE m < n
      <4>1. drive' = e /\ UNCHANGED <<disk, request, pics>> /\ ide_drv'.at = "data"
        BY <2>3, <2>4, <2>5, <2>6, <3>3
      <4>2. HasDrq'
        BY <2>2, <2>7, <3>3, <4>1 DEF HasDrq
      <4> DEFINE b == ide_drv.sent - drive.data_index
      <4>3. b' = base
        BY <2>4, <2>5, <2>7, <4>1 DEF to
      <4>4. WriteInv'
        <5> HIDE DEF b
        <5>1. AtSector(drive, c, b)'
          BY <3>1, <4>1, <4>3 DEF AtSector, ide_get_sector
        <5>2. base > 0 => Written(c, b)'
          BY <3>1, <4>1, <4>3 DEF Written
        <5>3. Sending(drive, c, b, drive.data_index)'
          BY <2>7, <3>2, <4>1, <4>3 DEF Sending
        <5>4. /\ drive'.io_nb_sectors = drive'.data_end
              /\ drive'.io_nb_sectors \in 1 .. CountOf(c) - base
              /\ drive'.end_transfer = "write_cb1"
          BY <2>7, <3>1, <4>1
        <5>5. QED
          BY <2>5, <3>1, <4>2, <4>3, <5>1, <5>2, <5>3, <5>4 DEF WriteInv, b
      <4>5. Signals
        BY <4>1 DEF Signals, IdeNeedsService
      <4>6. QED
        BY <2>9, <2>10, <4>1, <4>4, <4>5
    <3>4. CASE ~(m < n)
      <4>1. m = n /\ ide_drv'.at = "wait"
        BY <2>3, <2>4, <2>5, <2>10, <3>4
      <4>2. ide_sector_write_cb1(e)
        BY <2>3, <2>6, <3>1, <4>1 DEF EndTransfer
      <4>3. Sending(e, c, base, e.io_nb_sectors) /\ ide_drv'.sent = base + e.io_nb_sectors
        BY <2>5, <3>1, <3>2, <4>1 DEF to
      <4>4. e.io_nb_sectors \in 1 .. CountOf(c) - base
        BY <3>1
      <4>5. Signals /\ WriteInv'
        BY <1>1, <2>2, <2>5, <2>7, <2>10, <3>1, <4>1, <4>2, <4>3, <4>4, SectorWriteIs
      <4>6. QED
        BY <2>9, <2>10, <4>1, <4>5
    <3>5. QED
      BY <3>3, <3>4
  <2>11. CASE c.cmd \in {"READ", "MULTREAD"}
    <3> DEFINE first == c.first + base
    <3>1. /\ ide_drv.got = ContentsOf(c.first, base + index)
          /\ base \in Nat /\ AtSector(e, c, base + n)
          /\ first + n <= NbSectors /\ Fetched(e, first, n) /\ got = disk[first + m - 1]
          /\ e.end_transfer = IF base + n = CountOf(c) THEN "read_cb_end" ELSE "sector_read"
          /\ ~IsWrite(c) /\ IsTransfer(c)
      <4>1. ~IsWrite(c) /\ IsTransfer(c)
        BY <2>11 DEF IsWrite, IsTransfer
      <4>2. /\ ide_drv.got = ContentsOf(c.first, base + index)
            /\ base >= 0 /\ AtSector(drive, c, base + n)
            /\ first + n <= NbSectors /\ Fetched(drive, first, n)
            /\ drive.end_transfer = IF base + n = CountOf(c) THEN "read_cb_end" ELSE "sector_read"
        BY <2>1, <2>11, <4>1
      <4>3. \A j \in 1 .. n : e.io_buffer[j] = drive.io_buffer[j]
        BY <1>2, <2>2, <2>3, <2>7, <4>1
      <4> HIDE DEF first
      <4>4. Fetched(e, first, n)
        BY <4>2, <4>3 DEF Fetched
      <4>5. got = disk[first + m - 1]
        BY <2>4, <4>2 DEF Fetched, got
      <4>6. QED
        BY <2>7, <2>8, <4>1, <4>2, <4>4, <4>5
    <3>2. ide_drv'.got = ContentsOf(c.first, to)
      <4> DEFINE x == base + index
      <4>1. x \in Nat /\ c.first + x + 1 <= NbSectors /\ first + m - 1 = c.first + x /\ to = x + 1
        BY <2>3, <2>4, <3>1 DEF m, to
      <4>2. ide_drv'.got = Append(ContentsOf(c.first, x), disk[c.first + x])
        BY <2>5, <3>1, <4>1
      <4> HIDE DEF x
      <4>3. Append(ContentsOf(c.first, x), disk[c.first + x]) = ContentsOf(c.first, x + 1)
        BY <2>3, <4>1, ContentsMore
      <4>4. QED
        BY <4>1, <4>2, <4>3
    <3>3. CASE m < n
      <4>1. drive' = e /\ UNCHANGED <<disk, request, pics>> /\ ide_drv'.at = "data"
        BY <2>3, <2>4, <2>5, <2>6, <3>3
      <4>2. HasDrq'
        BY <2>2, <2>7, <3>3, <4>1 DEF HasDrq
      <4>3. ReadInv'
        <5> DEFINE b == ide_drv.sent - drive.data_index
        <5>1. b' = base /\ drive'.data_end = n
          BY <2>4, <2>5, <2>7, <4>1 DEF to
        <5>2. ide_drv'.got = ContentsOf(c.first, ide_drv.sent)'
          BY <2>5, <3>2, <4>1 DEF ContentsOf
        <5> HIDE DEF b
        <5>3. AtSector(drive, c, b + drive.data_end)'
          BY <3>1, <4>1, <5>1 DEF AtSector, ide_get_sector
        <5>4. Fetched(drive, c.first + b, drive.data_end)'
          BY <3>1, <4>1, <5>1 DEF Fetched
        <5>5. b' >= 0 /\ (c.first + b + drive.data_end)' <= NbSectors
          BY <3>1, <5>1
        <5>6. drive'.end_transfer
                = IF (b + drive.data_end)' = CountOf(c) THEN "read_cb_end" ELSE "sector_read"
          BY <3>1, <4>1, <5>1
        <5>7. QED
          BY <2>5, <4>2, <5>2, <5>3, <5>4, <5>5, <5>6 DEF ReadInv, b
      <4>4. Signals
        BY <4>1 DEF Signals, IdeNeedsService
      <4>5. QED
        BY <2>9, <2>11, <3>1, <4>1, <4>3, <4>4
    <3>4. CASE ~(m < n) /\ base + n = CountOf(c)
      <4>1. ide_drv'.at = "ready" /\ e.end_transfer = "read_cb_end" /\ EndTransfer(e)
            /\ to = CountOf(c)
        BY <2>3, <2>4, <2>5, <2>6, <3>1, <3>4 DEF to
      <4>2. UNCHANGED <<disk, request, pics>>
        BY <4>1 DEF EndTransfer
      <4>3. PioDelivers'
        <5>1. ide_drv'.got = ContentsOf(c.first, CountOf(c))'
          BY <3>2, <4>1, <4>2 DEF ContentsOf
        <5>2. QED
          BY <2>5, <2>11, <3>1, <5>1 DEF PioDelivers
      <4>4. Signals
        BY <4>1, <4>2 DEF Signals, IdeNeedsService
      <4>5. QED
        BY <2>2, <2>9, <4>1, <4>2, <4>3, <4>4
    <3>5. CASE ~(m < n) /\ base + n # CountOf(c)
      <4>1. m = n /\ to = base + n /\ to # CountOf(c)
        BY <2>3, <2>4, <3>5 DEF to
      <4>2. ide_drv'.at = "wait" /\ e.end_transfer = "sector_read" /\ EndTransfer(e)
        BY <2>3, <2>5, <2>6, <3>1, <4>1
      <4>3. ide_sector_read(e)
        BY <4>2 DEF EndTransfer
      <4>4. AtSector(e, c, to)
        BY <3>1, <4>1
      <4>5. to < CountOf(c)
        BY <2>3, <4>1, <4>4 DEF AtSector
      <4>6. Signals /\ ReadInv'
        BY <1>1, <2>2, <2>4, <2>5, <2>7, <2>11, <3>2, <4>2, <4>3, <4>4, <4>5, SectorReadIs
      <4>7. QED
        BY <2>9, <2>11, <3>1, <4>2, <4>6
    <3>6. QED
      BY <3>3, <3>4, <3>5
  <2>12. CASE ~IsWrite(c) /\ c.cmd \notin {"READ", "MULTREAD"}
    <3>1. /\ c.cmd = "IDENTIFY" /\ base = 0 /\ index = 0 /\ n = 1
          /\ e.end_transfer = "identify_cb"
      BY <2>1, <2>7, <2>12
    <3>2. ide_drv'.at = "ready"
      BY <2>5, <2>12, <3>1 DEF IsTransfer, m, to
    <3>3. UNCHANGED <<disk, request, pics>>
      BY <2>6, <3>1 DEF EndTransfer, m
    <3>4. PioDelivers'
      BY <2>5, <2>12, <3>1 DEF PioDelivers
    <3>5. Signals
      BY <3>2, <3>3 DEF Signals, IdeNeedsService
    <3>6. QED
      BY <2>2, <2>9, <3>2, <3>3, <3>4, <3>5
  <2>13. QED
    BY <2>10, <2>11, <2>12
<1>8. QED
  BY <1>6, <1>7
-----------------------------------------------------------------------------
(* The drive: its steps *)

\* A step of the drive while the CPU is where it was.
LEMMA SignalsKeep ==
    ASSUME IInv, guest = "ide", IdeCore', Signals,
           UNCHANGED <<guest, cpu, reg_c, irq_state, unvisited, kbc>>
    PROVE  IInv'
<1>1. CpuInv' /\ \A irq : InService(irq) => InService(irq)'
  BY DEF IInv, CpuInv, InService
<1>2. /\ PicOK(pics') /\ SameBut(pics, pics', {IRQ_IDE})
      /\ Taken(pics', IRQ_IDE) => Taken(pics, IRQ_IDE)
      /\ IdeNeedsService' => Up(pics', IRQ_IDE)
  BY IdeIrqIs DEF IInv, LinesInv
<1>3. QED
  BY <1>1, <1>2, IdeStepKeeps

LEMMA HostIdeKeeps ==
    ASSUME IInv, guest = "ide", IdeEnd, UNCHANGED <<ide_others, others>> PROVE IInv'
<1>1. IdeCore' /\ Signals
  BY IdeEndIs DEF IInv, IdeInv
<1>2. UNCHANGED <<guest, cpu, reg_c, irq_state, unvisited, kbc>>
  BY DEF ide_others, others, pci, ps2Vars
<1>3. QED
  BY <1>1, <1>2, SignalsKeep

LEMMA StatusLines ==
    ASSUME PicOK(pics), NEW waiting, IdeStatus(waiting)
    PROVE  /\ PicOK(pics') /\ SameBut(pics, pics', {IRQ_IDE}) /\ ~Taken(pics', IRQ_IDE)
<1>1. SetIrqs(<< <<IRQ_IDE, 0>> >>)
  BY DEF IdeStatus
<1>2. /\ PicOK(pics') /\ SameBut(pics, pics', {IRQ_IDE}) /\ ~Up(pics', IRQ_IDE)
  BY <1>1, SetIrqStep, IrqsAre
<1>3. QED
  BY <1>2 DEF Taken

LEMMA GuestIdeKeeps ==
    ASSUME IInv, GuestIde PROVE IInv'
<1>1. guest = "ide" /\ UNCHANGED <<guest, cpu, reg_c, irq_state, unvisited, kbc>>
  BY DEF GuestIde, ide_others, others, pci, ps2Vars
<1>2. IdeCore /\ IdeTypes /\ ide_drv \in DrvType(ide_drv.got)
  BY DEF IInv, IdeInv, IdeCore, IdeTypes
<1>3. ASSUME IdeCore', Signals PROVE IInv'
  BY <1>1, <1>3, SignalsKeep
<1>4. CASE \E c \in IdeCommands : IdeCommand(c)
  BY <1>2, <1>3, <1>4, CommandIs
<1>5. CASE IdeData
  BY <1>2, <1>3, <1>5, DataIs
<1>6. CASE IdePoll
  <2>1. IdeCore' /\ ~IdeNeedsService' /\ pics' = pics
    BY <1>2, <1>6, LookIs DEF IdePoll
  <2>2. Signals
    BY <2>1 DEF Signals
  <2>3. QED
    BY <1>3, <2>1, <2>2
<1>7. CASE IdePolling
  <2>1. ide_cmd' = {"disable_irq"} /\ UNCHANGED <<drive, disk, request, ide_drv, pics>>
        /\ ide_drv.at \in {"idle", "ready"}
    BY <1>7 DEF IdePolling
  <2>2. IdeCore'
    BY <1>2, <2>1 DEF IdeCore, IdeTypes, PioDelivers, ContentsOf
  <2>3. Signals
    BY <2>1 DEF Signals, IdeNeedsService
  <2>4. QED
    BY <1>3, <2>2, <2>3
<1>8. CASE ResetHigh
  <2>1. /\ ide_cmd' = ide_cmd \cup {"reset"}
        /\ drive' = [drive EXCEPT !.status = {"busy", "seek"}, !.error = TRUE]
        /\ ide_drv' = [ide_drv EXCEPT !.at = "reset", !.resets = @ + 1]
        /\ UNCHANGED <<disk, request, pics>>
    BY <1>8 DEF ResetHigh
  <2>2. drive' \in DriveType
    <3>1. drive \in DriveType
      BY <1>2 DEF IdeTypes
    <3> DEFINE busy == {"busy", "seek"}
    <3>2. busy \subseteq {"ready", "seek", "drq", "busy", "err"}
      OBVIOUS
    <3>3. drive' = [drive EXCEPT !.status = busy, !.error = TRUE]
      BY <2>1
    <3> HIDE DEF busy
    <3>4. QED
      BY <3>1, <3>2, <3>3 DEF DriveType
  <2>3. ide_drv' \in DrvType(ide_drv'.got) /\ ide_drv'.at = "reset"
    <3> DEFINE n == ide_drv.resets + 1
               reset == "reset"
               got == ide_drv.got
    <3>1. n \in Nat /\ reset \in {"idle", "wait", "data", "ready", "reset"}
          /\ ide_drv \in DrvType(got)
      BY <1>2 DEF DrvType
    <3>2. ide_drv' = [ide_drv EXCEPT !.at = reset, !.resets = n]
      BY <2>1
    <3> HIDE DEF n, reset, got
    <3>3. ide_drv' \in DrvType(got) /\ ide_drv'.at = reset /\ ide_drv'.got = got
      BY <3>1, <3>2 DEF DrvType
    <3>4. QED
      BY <3>3 DEF reset
  <2>4. IdeTypes'
    <3>1. ide_cmd' \subseteq {"reset", "disable_irq"}
      BY <1>2, <2>1 DEF IdeTypes
    <3>2. QED
      BY <1>2, <2>1, <2>2, <2>3, <3>1 DEF IdeTypes
  <2>5. IdeCore' /\ Signals
    BY <2>1, <2>3, <2>4 DEF IdeCore, PioDelivers, Signals, IdeNeedsService
  <2>6. QED
    BY <1>3, <2>5
<1>9. CASE ResetLow
  <2>1. /\ ide_cmd' = ide_cmd \ {"reset"}
        /\ drive' = [drive EXCEPT !.status = {"ready", "seek"}, !.head = 0, !.nsector = 1,
                                  !.sector = 1, !.lcyl = 0, !.hcyl = 0]
        /\ ide_drv' = [ide_drv EXCEPT !.at = "idle"]
        /\ UNCHANGED <<disk, request, pics>>
    BY <1>9 DEF ResetLow
  <2>2. drive' \in DriveType
    <3> DEFINE zero == 0
               one == 1
    <3>1. zero \in Int /\ one \in Int /\ one \in 0 .. RegSize - 1
      BY IdeAssumption
    <3>2. drive' = [drive EXCEPT !.status = {"ready", "seek"}, !.head = zero, !.nsector = one,
                                 !.sector = one, !.lcyl = zero, !.hcyl = zero]
      BY <2>1
    <3> HIDE DEF zero, one
    <3>3. QED
      BY <1>2, <3>1, <3>2 DEF IdeTypes, DriveType
  <2>3. ide_drv' \in DrvType(ide_drv'.got) /\ ide_drv'.at = "idle"
    <3> DEFINE at == "idle"
    <3>1. at \in {"idle", "wait", "data", "ready", "reset"}
      OBVIOUS
    <3>2. ide_drv' = [ide_drv EXCEPT !.at = at]
      BY <2>1
    <3> HIDE DEF at
    <3>3. QED
      BY <1>2, <3>1, <3>2, DrvAt DEF at
  <2>4. IdeTypes'
    BY <1>2, <2>1, <2>2, <2>3 DEF IdeTypes
  <2>5. IdeCore' /\ Signals
    BY <2>1, <2>3, <2>4 DEF IdeCore, PioDelivers, Signals, IdeNeedsService
  <2>6. QED
    BY <1>3, <2>5
<1>10. QED
  BY <1>4, <1>5, <1>6, <1>7, <1>8, <1>9 DEF GuestIde

LEMMA ServeIdeKeeps ==
    ASSUME IInv, cpu.at = "serve", ServeIde PROVE IInv'
<1> DEFINE waiting == ide_drv.at = "wait" /\ "disable_irq" \notin ide_cmd
<1>1. /\ cpu.irq = IRQ_IDE /\ IdeStatus(waiting)
      /\ cpu' = [cpu EXCEPT !.at = IF ide_drv'.at = "data" THEN "data" ELSE "end"]
      /\ UNCHANGED <<guest, reg_c, irq_state, unvisited, kbc>>
  BY DEF ServeIde, Go, ide_others, pci, ps2Vars
<1>2. waiting \in BOOLEAN
  OBVIOUS
<1>3. /\ IdeCore' /\ ~IdeNeedsService'
      /\ ide_drv.at = "idle" => ide_drv'.at = "idle"
  <2>1. (waiting => ide_drv.at = "wait")
        /\ (ide_drv.at = "wait" /\ "disable_irq" \notin ide_cmd => waiting)
    OBVIOUS
  <2> HIDE DEF waiting
  <2>2. QED
    BY <1>1, <1>2, <2>1, StatusIs DEF IInv, IdeInv
<1> HIDE DEF waiting
<1>4. PicOK(pics') /\ SameBut(pics, pics', {IRQ_IDE}) /\ ~Taken(pics', IRQ_IDE)
  BY <1>1, StatusLines DEF IInv, LinesInv
<1>5. CpuInv' /\ \A irq : InService(irq) => irq = IRQ_IDE
  BY <1>1 DEF IInv, CpuInv, InService
<1>6. guest # "ide" => ide_drv'.at = "idle"
  BY <1>3 DEF IInv, IdeInv
<1>7. \A irq \in Irqs \ Elcr : Taken(pics', irq) /\ InService(irq) => InService(irq)'
  BY <1>4, <1>5
<1>8. QED
  BY <1>1, <1>3, <1>4, <1>5, <1>6, <1>7, IdeStepKeeps

LEMMA ServeDataKeeps ==
    ASSUME IInv, ServeData PROVE IInv'
<1>1. /\ cpu.at = "data" /\ IdeData /\ UNCHANGED <<guest, reg_c, irq_state, unvisited, kbc>>
      /\ \E at \in {"data", "end"} : cpu' = [cpu EXCEPT !.at = at]
  BY DEF ServeData, Go, ide_others, pci, ps2Vars
<1>2. IdeCore' /\ Signals
  BY <1>1, DataIs DEF IInv, IdeInv
<1>3. CpuInv' /\ \A irq : ~InService(irq)
  BY <1>1 DEF IInv, CpuInv, InService
<1>4. /\ PicOK(pics') /\ SameBut(pics, pics', {IRQ_IDE})
      /\ Taken(pics', IRQ_IDE) => Taken(pics, IRQ_IDE)
      /\ IdeNeedsService' => Up(pics', IRQ_IDE)
  BY <1>2, IdeIrqIs DEF IInv, LinesInv
<1>5. guest = "ide"
  BY <1>1 DEF IInv, IdeInv, IdeData
<1>6. QED
  BY <1>1, <1>2, <1>3, <1>4, <1>5, IdeStepKeeps
-----------------------------------------------------------------------------
(* The machine starts: init_8259A has written to both controllers, and no     *)
(* line has been up.                                                          *)

LEMMA CommandStarts ==
    ASSUME NEW p \in PicType
    PROVE  LET q == CommandWritten(p, 17)
           IN  /\ q \in PicType /\ q.elcr = p.elcr /\ q.last_irr = {}
               /\ q.init_state = 1 /\ q.init4 = 1
<1>1. HasBit(17, 4) /\ 17 % 2 = 1
  BY DEF HasBit
<1>2. CommandWritten(p, 17) = [pic_reset(p.elcr) EXCEPT !.init_state = 1, !.init4 = 1]
  BY <1>1 DEF CommandWritten
<1> DEFINE r == pic_reset(p.elcr)
           one == 1
<1>3. /\ r \in PicType /\ r.elcr = p.elcr /\ r.last_irr = {}
  BY DEF pic_reset, PicType, Line
<1>4. one = 1 /\ one \in {0, 1} /\ one \in 0 .. 3
  OBVIOUS
<1> HIDE DEF r, one
<1>5. CommandWritten(p, 17) = [r EXCEPT !.init_state = one, !.init4 = one]
  BY <1>2 DEF r, one
<1>6. [r EXCEPT !.init_state = one, !.init4 = one] \in PicType
  BY <1>3, <1>4 DEF PicType
<1>7. QED
  BY <1>3, <1>4, <1>5, <1>6 DEF PicType

LEMMA DataStarts ==
    ASSUME NEW p \in PicType, p.init_state # 0, p.init4 = 1, NEW val \in Nat
    PROVE  LET q == DataWritten(p, val)
           IN  /\ q \in PicType /\ q.elcr = p.elcr /\ q.last_irr = p.last_irr
               /\ q.init_state = (IF p.init_state = 3 THEN 0 ELSE p.init_state + 1)
               /\ q.init4 = 1
<1>1. CASE p.init_state = 1
  <2>1. DataWritten(p, val) = [p EXCEPT !.irq_base = val - (val % 8), !.init_state = 2]
    BY <1>1 DEF DataWritten
  <2> DEFINE base == val - (val % 8)
             two == 2
  <2>2. base \in Int /\ two \in 0 .. 3 /\ two = 2
    OBVIOUS
  <2>3. DataWritten(p, val) = [p EXCEPT !.irq_base = base, !.init_state = two]
    BY <2>1
  <2> HIDE DEF base, two
  <2> DEFINE r == [p EXCEPT !.irq_base = base]
  <2>4. /\ r \in PicType /\ r.elcr = p.elcr /\ r.last_irr = p.last_irr /\ r.init4 = p.init4
        /\ [p EXCEPT !.irq_base = base, !.init_state = two] = [r EXCEPT !.init_state = two]
    BY <2>2 DEF PicType
  <2> HIDE DEF r
  <2>5. QED
    BY <1>1, <2>2, <2>3, <2>4 DEF PicType
<1>2. CASE p.init_state = 2
  <2>1. DataWritten(p, val) = [p EXCEPT !.init_state = 3]
    BY <1>2 DEF DataWritten
  <2> DEFINE three == 3
  <2>2. three \in 0 .. 3 /\ three = 3 /\ DataWritten(p, val) = [p EXCEPT !.init_state = three]
    BY <2>1
  <2> HIDE DEF three
  <2>3. QED
    BY <1>2, <2>2 DEF PicType
<1>3. CASE p.init_state = 3
  <2>1. DataWritten(p, val) = [p EXCEPT !.auto_eoi = Only(val, 1), !.init_state = 0]
    BY <1>3 DEF DataWritten
  <2> DEFINE eoi == Only(val, 1)
             zero == 0
  <2>2. eoi \in {0, 1} /\ zero \in 0 .. 3 /\ zero = 0
    BY DEF Only
  <2>3. DataWritten(p, val) = [p EXCEPT !.auto_eoi = eoi, !.init_state = zero]
    BY <2>1
  <2> HIDE DEF eoi, zero
  <2>4. QED
    BY <1>3, <2>2, <2>3 DEF PicType
<1>4. QED
  BY <1>1, <1>2, <1>3 DEF PicType

\* After the first i writes.
StartBase(ws) == PicsReset
Starting(ws, i, x) ==
    /\ x \in [m : PicType, s : PicType, pin : {0, 1}]
    /\ x.m.init_state = (IF i \in 1 .. 3 THEN i ELSE 0)
    /\ x.s.init_state = (IF i \in 5 .. 7 THEN i - 4 ELSE 0)
    /\ x.m.init_state # 0 => x.m.init4 = 1
    /\ x.s.init_state # 0 => x.s.init4 = 1
    /\ x.m.elcr = {n \in Line : n \in Elcr} /\ x.s.elcr = {n \in Line : n + 8 \in Elcr}
    /\ \A irq \in Lines \ {2} : ~Up(x, irq)

Starts == INSTANCE Loops WITH Base <- StartBase, Step <- WriteStep, Inv <- Starting

LEMMA InitWritesAre ==
    /\ Len(InitWrites) = 10
    /\ \A i \in {1, 5} : InitWrites[i] = <<IF i = 1 THEN "m" ELSE "s", 0, 17>>
    /\ \A i \in (2 .. 4) \cup (6 .. 8) :
         /\ InitWrites[i][1] = (IF i < 5 THEN "m" ELSE "s")
         /\ InitWrites[i][2] = 1 /\ InitWrites[i][3] \in Nat
    /\ \A i \in {9, 10} : GuestWrite(InitWrites[i])
  BY DEF InitWrites, GuestWrite

LEMMA CommandStep ==
    ASSUME NEW ws, NEW i \in {1, 5}, NEW x, Starting(ws, i - 1, x),
           NEW w, w = <<IF i = 1 THEN "m" ELSE "s", 0, 17>>
    PROVE  Starting(ws, i, pic_write(x, w))
<1> DEFINE c == IF i = 1 THEN "m" ELSE "s"
           q == CommandWritten(x[c], 17)
<1>1. pic_write(x, w) = [x EXCEPT ![c] = q]
  BY DEF pic_write
<1>2. x[c] \in PicType
  BY DEF Starting
<1>3. q \in PicType /\ q.elcr = x[c].elcr /\ q.last_irr = {} /\ q.init_state = 1 /\ q.init4 = 1
  <2> HIDE DEF c
  <2>1. QED
    BY <1>2, CommandStarts
<1> DEFINE y == pic_write(x, w)
           d == IF i = 1 THEN "s" ELSE "m"
<1>4. /\ y[c] = q /\ y[d] = x[d] /\ y.pin = x.pin
      /\ y \in [m : PicType, s : PicType, pin : {0, 1}]
  <2> HIDE DEF q, y
  <2>1. y = [x EXCEPT ![c] = q] /\ x \in [m : PicType, s : PicType, pin : {0, 1}]
    BY <1>1 DEF Starting, y
  <2>2. CASE i = 1
    BY <1>3, <2>1, <2>2
  <2>3. CASE i = 5
    BY <1>3, <2>1, <2>3
  <2>4. QED
    BY <2>2, <2>3
<1> HIDE DEF y, q
<1>5. ASSUME NEW irq \in Lines \ {2} PROVE ~Up(y, irq)
  <2>1. ~Up(x, irq)
    BY DEF Starting
  <2>2. CASE i = 1
    BY <1>3, <1>4, <2>1, <2>2 DEF Up
  <2>3. CASE i = 5
    BY <1>3, <1>4, <2>1, <2>3 DEF Up
  <2>4. QED
    BY <2>2, <2>3
<1>6. CASE i = 1
  BY <1>3, <1>4, <1>5, <1>6 DEF Starting, y
<1>7. CASE i = 5
  BY <1>3, <1>4, <1>5, <1>7 DEF Starting, y
<1>8. QED
  BY <1>6, <1>7

LEMMA DataStep ==
    ASSUME NEW ws, NEW i \in (2 .. 4) \cup (6 .. 8), NEW x, Starting(ws, i - 1, x),
           NEW w, w[1] = (IF i < 5 THEN "m" ELSE "s"), w[2] = 1, w[3] \in Nat
    PROVE  Starting(ws, i, pic_write(x, w))
<1> DEFINE c == IF i < 5 THEN "m" ELSE "s"
           q == DataWritten(x[c], w[3])
<1>1. x[c] \in PicType /\ x[c].init_state = (IF i < 5 THEN i - 1 ELSE i - 5) /\ x[c].init4 = 1
  <2>1. CASE i \in 2 .. 4
    BY <2>1 DEF Starting
  <2>2. CASE i \in 6 .. 8
    BY <2>2 DEF Starting
  <2>3. QED
    BY <2>1, <2>2
<1>2. x[c].init_state # 0
  BY <1>1
<1>3. pic_write(x, w) = [x EXCEPT ![c] = q]
  BY <1>2 DEF pic_write
<1>4. /\ q \in PicType /\ q.elcr = x[c].elcr /\ q.last_irr = x[c].last_irr
      /\ q.init_state = (IF x[c].init_state = 3 THEN 0 ELSE x[c].init_state + 1)
      /\ q.init4 = 1
  <2> HIDE DEF c
  <2>1. QED
    BY <1>1, <1>2, DataStarts
<1> HIDE DEF q
<1>5. CASE i \in 2 .. 4
  BY <1>1, <1>3, <1>4, <1>5 DEF Starting, Up
<1>6. CASE i \in 6 .. 8
  BY <1>1, <1>3, <1>4, <1>6 DEF Starting, Up
<1>7. QED
  BY <1>5, <1>6

LEMMA PicsStart ==
    /\ PicOK(pic_writes(PicsReset, InitWrites))
    /\ \A irq \in Lines \ {2} : ~Up(pic_writes(PicsReset, InitWrites), irq)
<1> DEFINE ws == InitWrites
           n == Len(ws)
<1>1. pic_writes(PicsReset, ws) = Starts!After(ws, n)[n]
  BY DEF pic_writes, Starts!After, StartBase, WriteStep, With
<1>2. n = 10
  BY InitWritesAre
<1>3. Starting(ws, 0, PicsReset)
  <2>1. Elcr \cap Line = {i \in Line : i \in Elcr}
    OBVIOUS
  <2>2. PicsReset \in [m : PicType, s : PicType, pin : {0, 1}]
    BY DEF PicsReset, pic_reset, PicType, Line
  <2>3. PicsReset.m.elcr = {i \in Line : i \in Elcr} /\ PicsReset.s.elcr = {i \in Line : i + 8 \in Elcr}
        /\ PicsReset.m.init_state = 0 /\ PicsReset.s.init_state = 0
        /\ PicsReset.m.last_irr = {} /\ PicsReset.s.last_irr = {}
    BY <2>1 DEF PicsReset, pic_reset
  <2>4. QED
    BY <2>2, <2>3 DEF Starting, Up
<1> HIDE DEF ws, n
<1>4. ASSUME NEW i \in 1 .. n, NEW x, Starting(ws, i - 1, x)
      PROVE  Starting(ws, i, WriteStep(ws, i, x))
  <2>1. WriteStep(ws, i, x) = pic_write(x, ws[i])
    BY DEF WriteStep, With
  <2>2. CASE i \in {1, 5}
    <3>1. ws[i] = <<IF i = 1 THEN "m" ELSE "s", 0, 17>>
      BY <2>2, InitWritesAre DEF ws
    <3>2. QED
      BY <1>4, <2>1, <2>2, <3>1, CommandStep
  <2>3. CASE i \in (2 .. 4) \cup (6 .. 8)
    <3>1. ws[i][1] = (IF i < 5 THEN "m" ELSE "s") /\ ws[i][2] = 1 /\ ws[i][3] \in Nat
      BY <2>3, InitWritesAre DEF ws
    <3>2. QED
      BY <1>4, <2>1, <2>3, <3>1, DataStep
  <2>4. CASE i \in {9, 10}
    <3>1. GuestWrite(ws[i])
      BY <2>4, InitWritesAre DEF ws
    <3>2. PicOK(x) /\ \A irq \in Lines \ {2} : ~Up(x, irq)
      BY <1>4, <2>4 DEF Starting, PicOK
    <3> DEFINE y == pic_write(x, ws[i])
    <3>3. PicOK(y) /\ SameBut(x, y, {})
      BY <3>1, <3>2, WriteIs
    <3> HIDE DEF y
    <3>4. \A irq \in Lines \ {2} : ~Up(y, irq)
      BY <3>2, <3>3 DEF SameBut
    <3>5. Starting(ws, i, y)
      BY <2>4, <3>3, <3>4 DEF Starting, PicOK
    <3>6. QED
      BY <2>1, <3>5 DEF y
  <2>5. QED
    BY <1>2, <2>2, <2>3, <2>4
<1>5. StartBase(ws) = PicsReset /\ n \in Nat
  BY <1>2 DEF StartBase
<1>6. \A i \in 0 .. n : Starting(ws, i, Starts!After(ws, n)[i])
  BY <1>3, <1>4, <1>5, Starts!LoopKeeps
<1>7. Starting(ws, 10, pic_writes(PicsReset, ws))
  BY <1>1, <1>2, <1>6
<1>8. QED
  BY <1>7 DEF Starting, PicOK, ws
LEMMA KbcStarts ==
    ASSUME NEW type \in Nat, Ps2Init(type)
    PROVE  kbc \in KType /\ kbc.calls = << >> /\ kbc.pending = {} /\ kbc.status = {}
<1> DEFINE none == << >>
           status == IF type = 0 THEN {} ELSE {"enabled"}
           wrap == FALSE
           zero == 0
           free == "none"
           m == [queue |-> none, write_cmd |-> free, status |-> status, wrap |-> wrap,
                 type |-> type, detect_state |-> zero, dx |-> zero, dy |-> zero, dz |-> zero,
                 buttons |-> zero]
           k == [queue |-> none, write_cmd |-> free]
           mode == {"kbd_int", "mouse_int"}
           empty == {}
<1>1. kbc = [kbd |-> k, mouse |-> m, write_cmd |-> free, status |-> empty, mode |-> mode,
             pending |-> empty, calls |-> none]
  BY DEF Ps2Init, MouseOf
<1>2. none \in Seq(Bytes) /\ none \in Seq({IRQ_KBD, IRQ_MOUSE} \X {0, 1})
  OBVIOUS
<1>3. status \in SUBSET {"enabled", "remote", "scale21"} /\ wrap \in BOOLEAN
  OBVIOUS
<1>4. zero \in Int /\ zero \in 0 .. 3
  OBVIOUS
<1>5. /\ free \in {"none", "set_res", "set_sample"} /\ free \in {"none", "set_leds", "set_rate"}
      /\ free \in {"none", "write_mode", "write_obuf", "write_aux_obuf", "write_mouse"}
  OBVIOUS
<1>6. /\ mode \in SUBSET {"kbd_int", "mouse_int", "disable_kbd", "disable_mouse"}
      /\ empty \in SUBSET {"obf", "mouse_obf", "selftest"} /\ empty \in SUBSET Devs
  OBVIOUS
<1> HIDE DEF none, status, wrap, zero, free, mode, empty
<1>7. m \in Mouse
  BY <1>2, <1>3, <1>4, <1>5 DEF Mouse
<1>8. k \in Kbd
  BY <1>2, <1>5 DEF Kbd
<1> HIDE DEF m, k
<1>9. kbc \in KType
  BY <1>1, <1>2, <1>5, <1>6, <1>7, <1>8 DEF KType
<1>10. QED
  BY <1>1, <1>9 DEF none, empty

LEMMA IdeStarts ==
    ASSUME IdeInit PROVE IdeCore /\ ide_drv.at = "idle" /\ request = NoRequest
<1> DEFINE none == << >>
           zero == 0
           ready == {"ready", "seek"}
           no == FALSE
           stop == "stop"
           idle == "idle"
           zeroes == [i \in 1 .. MAX_MULT_SECTORS |-> <<"zero", 0>>]
           most == MAX_MULT_SECTORS
           command == NoCommand
           free == {}
<1>1. /\ drive = [nsector |-> zero, sector |-> zero, lcyl |-> zero, hcyl |-> zero, lba |-> no,
                  head |-> zero, status |-> ready, error |-> no,
                  mult_sectors |-> most, io_nb_sectors |-> zero,
                  req_nb_sectors |-> zero, end_transfer |-> stop, data_index |-> zero,
                  data_end |-> zero, io_buffer |-> zeroes]
      /\ ide_drv = [at |-> idle, command |-> command, got |-> none, sent |-> zero,
                    overtaken |-> no, commands |-> zero, resets |-> zero]
      /\ ide_cmd = free
  BY DEF IdeInit
<1>2. zero \in Int /\ zero \in Nat /\ zero \in 0 .. RegSize - 1 /\ zero \in Sizes /\ most \in Sizes
  BY IdeAssumption DEF Sizes
<1>3. ready \in SUBSET {"ready", "seek", "drq", "busy", "err"} /\ no \in BOOLEAN
  OBVIOUS
<1>4. /\ stop \in {"stop", "sector_read", "read_cb_end", "write_cb1", "identify_cb"}
      /\ idle \in {"idle", "wait", "data", "ready", "reset"}
      /\ free \subseteq {"reset", "disable_irq"}
  OBVIOUS
<1>5. command \in IdeCommands \cup {NoCommand} /\ none \in {none}
  OBVIOUS
<1>6. zeroes \in [1 .. MAX_MULT_SECTORS -> Sector]
  BY DEF Sector
<1>7. request = NoRequest
  BY DEF IdeInit
<1>8. disk \in DiskType
  <2>1. ASSUME NEW n \in 0 .. NbSectors - 1 PROVE <<"old", n>> \in Sector
    BY DEF Sector
  <2>2. QED
    BY <2>1 DEF IdeInit, DiskType
<1> HIDE DEF none, zero, ready, no, stop, idle, zeroes, most, command, free
<1>9. drive \in DriveType
  BY <1>1, <1>2, <1>3, <1>4, <1>6 DEF DriveType
<1>10. ide_drv \in DrvType(none) /\ ide_drv.got = none /\ ide_drv.at = idle
  BY <1>1, <1>2, <1>3, <1>4, <1>5 DEF DrvType
<1>11. ide_drv.at = "idle"
  BY <1>10 DEF idle
<1>12. IdeTypes
  BY <1>1, <1>4, <1>7, <1>8, <1>9, <1>10 DEF IdeTypes, Requested
<1>13. QED
  BY <1>7, <1>11, <1>12 DEF IdeCore, PioDelivers

LEMMA InitIs ==
    ASSUME Init PROVE IInv
<1>1. PicOK(pics) /\ \A irq \in Lines \ {2} : ~Up(pics, irq)
  BY PicsStart DEF Init
<1>2. CpuInv
  <2> DEFINE run == "run"
             zero == 0
  <2>1. run \in {"run", "entry", "serve", "byte", "data", "end"} /\ run # "byte" /\ zero \in Lines
    BY DEF Lines
  <2>2. cpu = [at |-> run, irq |-> zero] /\ unvisited = {}
    BY DEF Init
  <2> HIDE DEF run, zero
  <2>3. QED
    BY <2>1, <2>2 DEF CpuInv
<1>3. LinesInv
  BY <1>1, IrqsAre DEF LinesInv, Taken
<1>4. ClockInv
  BY DEF Init, ClockInv
<1>5. PciInv
  <2>1. irq_state = [n \in Pins |-> {}]
    BY DEF Init
  <2>2. \A d \in PciDevices : ~Raises(d)
    <3>1. \A d \in PciDevices : bus_map_irq(d) \in Pins
      BY PciAssumption DEF bus_map_irq, Pins
    <3>2. QED
      BY <2>1, <3>1 DEF Raises
  <2>3. QED
    BY <2>1, <2>2 DEF PciInv, PciNeedsService
<1>6. KbcInv
  <2> DEFINE type == CASE guest = "wheel" -> 4 [] guest = "vmmouse" -> 3 [] OTHER -> 0
  <2>1. type \in Nat
    <3>1. CASE guest = "wheel"
      BY <3>1
    <3>2. CASE guest = "vmmouse"
      BY <3>2
    <3>3. CASE guest # "wheel" /\ guest # "vmmouse"
      BY <3>3
    <3>4. QED
      BY <3>1, <3>2, <3>3
  <2>2. Ps2Init(type)
    BY DEF Init
  <2> HIDE DEF type
  <2>3. kbc \in KType /\ kbc.calls = << >> /\ kbc.pending = {} /\ kbc.status = {}
    BY <2>1, <2>2, KbcStarts
  <2>4. QED
    BY <1>1, <2>3, IrqsAre DEF KbcInv, KbdLevel, MouseLevel
<1>7. IdeInv
  <2>1. IdeCore /\ ide_drv.at = "idle"
    BY IdeStarts DEF Init
  <2>2. QED
    BY <2>1 DEF IdeInv, IdeNeedsService
<1>8. QED
  BY <1>2, <1>3, <1>4, <1>5, <1>6, <1>7 DEF IInv
-----------------------------------------------------------------------------
(* The theorems *)

LEMMA StepKeeps ==
    ASSUME IInv, [Next]_vars PROVE IInv'
<1>1. CASE UNCHANGED vars
  <2>1. UNCHANGED <<pics, guest, reg_c, irq_state, unvisited, cpu, kbc, ideVars>>
    BY <1>1 DEF vars, ps2Vars
  <2>2. CpuInv' /\ PicOK(pics') /\ SameBut(pics, pics', {})
    BY <2>1, NoChange DEF IInv, CpuInv, LinesInv
  <2>3. \A irq \in Irqs \ Elcr : Taken(pics', irq) /\ InService(irq) => InService(irq)'
    BY <2>1 DEF InService
  <2>4. QED
    BY <2>1, <2>2, <2>3, LinesStay
<1>2. CASE Tick
  BY <1>2, TickKeeps
<1>3. CASE ClockTick
  BY <1>3, ClockTickKeeps
<1>4. CASE PciEvent
  <2>1. PICK d \in PciDevices : PciIrq(d, 1)
    BY <1>4 DEF PciEvent
  <2>2. guest = "pci" /\ UNCHANGED <<guest, cpu, reg_c, kbc, ideVars>> /\ unvisited' = unvisited
    BY <1>4 DEF PciEvent, ps2Vars, others
  <2>3. QED
    BY <2>1, <2>2, PciIrqKeeps
<1>5. CASE guest = "ide" /\ IdeEnd /\ UNCHANGED <<ide_others, others>>
  BY <1>5, HostIdeKeeps
<1>6. CASE UsesPs2 /\ (KeyEvent \/ MouseEvent) /\ UNCHANGED <<ps2_others, others>>
  BY <1>6, HostPs2Keeps
<1>7. CASE GuestIde
  BY <1>7, GuestIdeKeeps
<1>8. CASE GuestPs2
  BY <1>8, GuestPs2Keeps
<1>9. CASE TakeInterrupt
  BY <1>9, TakeInterruptKeeps
<1>10. CASE Entry
  BY <1>10, EntryKeeps
<1>11. CASE Serve
  BY <1>11, ServeClockKeeps, ServeIdeKeeps, ServePs2Keeps, ServePciKeeps, ServeNothingKeeps
     DEF Serve
<1>12. CASE ServeByte
  BY <1>12, ServeByteKeeps
<1>13. CASE ServeData
  BY <1>13, ServeDataKeeps
<1>14. CASE End
  BY <1>14, EndKeeps
<1>15. QED
  BY <1>1, <1>2, <1>3, <1>4, <1>5, <1>6, <1>7, <1>8, <1>9, <1>10, <1>11, <1>12, <1>13, <1>14
     DEF Next, Host, Handler

LEMMA AllLatched ==
    ASSUME IInv PROVE RequestsNotLost
<1> SUFFICES ASSUME cpu.at = "run" PROVE RequestsNotLost
  BY DEF RequestsNotLost
<1>1. ASSUME NEW irq \in Irqs, Up(pics, irq) PROVE Latched(pics, irq)
  BY <1>1 DEF IInv, LinesInv, Irqs, InService, Taken
<1>2. {IRQ_KBD, IRQ_CLOCK, IRQ_MOUSE, IRQ_IDE} \subseteq Irqs
  BY IrqsAre
<1>3. \A irq : Latched(pics, irq) <=> IsLatched(irq)
  BY DEF Latched, IsLatched
<1>4. IdeNeedsService => IsLatched(IRQ_IDE)
  BY <1>1, <1>2, <1>3 DEF IInv, IdeInv
<1>5. KbdNeedsService => IsLatched(IRQ_KBD)
  <2>1. KbdNeedsService => UsesPs2 /\ KbdLevel(kbc)
    BY DEF IInv, KbcInv, KbdNeedsService, KbdLevel, ReadFrom
  <2>2. QED
    BY <1>1, <1>2, <1>3, <2>1 DEF IInv, KbcInv
<1>6. MouseNeedsService => IsLatched(IRQ_MOUSE)
  <2>1. MouseNeedsService => UsesPs2 /\ MouseLevel(kbc)
    BY DEF IInv, KbcInv, MouseNeedsService, MouseLevel
  <2>2. QED
    BY <1>1, <1>2, <1>3, <2>1 DEF IInv, KbcInv
<1>7. reg_c => IsLatched(IRQ_CLOCK)
  BY <1>1, <1>2, <1>3 DEF IInv, ClockInv
<1>8. \A irq \in Elcr : PciNeedsService(irq) => IsLatched(irq)
  BY <1>3 DEF IInv, PciInv
<1>9. QED
  BY <1>4, <1>5, <1>6, <1>7, <1>8 DEF RequestsNotLost

\* Outside of the guest's handlers a device that needs it has its request in an
\* interrupt controller, of whichever device and in whichever order the edges,
\* the acknowledgement, the masks and the ends of the interrupts come
\* (pic_set_irq1, pic2_get_hard_intno, pic_write, ps2_read_data, ide_ioport_read,
\* pci_device_set_irq).  The drive is one that the answer to a command given up
\* by a reset has not put out of step.
THEOREM RequestsAreKept == Spec => []RequestsNotLost
<1>1. Init => IInv
  BY InitIs
<1>2. IInv /\ [Next]_vars => IInv'
  BY StepKeeps
<1>3. IInv => RequestsNotLost
  BY AllLatched
<1>4. QED
  BY <1>1, <1>2, <1>3, PTL DEF Spec

\* A command of the drive that ends without error has moved its sectors, all of
\* them and in their order, whatever its address, its count, the sectors of a
\* block and the times at which the block device answers, but for a command
\* that follows a reset while the block device still serves the one before it,
\* which the answer then completes with what is not its own (ide_sector_read,
\* ide_sector_read_cb, ide_sector_write_cb1, ide_sector_write_cb2,
\* ide_set_sector).
THEOREM PioAlwaysDelivers == Spec => []PioDelivers
<1>1. Init => IInv
  BY InitIs
<1>2. IInv /\ [Next]_vars => IInv'
  BY StepKeeps
<1>3. IInv => PioDelivers
  BY DEF IInv, IdeInv, IdeCore
<1>4. QED
  BY <1>1, <1>2, <1>3, PTL DEF Spec
-----------------------------------------------------------------------------
(* The bytes in their order *)

Words == (Messages \cup {"none", "move", "id"}) \X Nat \X Nat

Follows(a, b) == IF a[2] < a[3] THEN b = <<a[1], a[2] + 1, a[3]>> ELSE b[2] = 1

\* What InStep says, of the queue alone.
Stream(last, q) ==
    /\ q = << >> => last[2] = last[3]
    /\ q # << >> => /\ Follows(last, q[1]) /\ q[Len(q)][2] = q[Len(q)][3]
                    /\ \A i \in 1 .. Len(q) - 1 : Follows(q[i], q[i + 1])

LEMMA InStepIs ==
    ASSUME NEW last, NEW q \in Seq(Words)
    PROVE  InStep(last, q) <=> Stream(last, q)
<1> DEFINE b == <<last>> \o q
           n == Len(q)
<1>1. n \in Nat /\ Len(b) = n + 1 /\ b[1] = last /\ \A i \in 1 .. n : b[i + 1] = q[i]
  OBVIOUS
<1>2. InStep(last, q) <=> /\ \A i \in 1 .. n : Follows(b[i], b[i + 1])
                          /\ b[n + 1][2] = b[n + 1][3]
  BY <1>1 DEF InStep, Follows
<1> HIDE DEF b
<1>3. CASE q = << >>
  BY <1>1, <1>2, <1>3 DEF Stream
<1>4. CASE q # << >>
  <2>1. n \in Nat \ {0}
    BY <1>4
  <2>2. b[n + 1] = q[n]
    BY <1>1, <2>1
  <2>3. ASSUME \A i \in 1 .. n : Follows(b[i], b[i + 1])
        PROVE  /\ Follows(last, q[1]) /\ \A i \in 1 .. n - 1 : Follows(q[i], q[i + 1])
    <3>1. Follows(b[1], b[1 + 1]) /\ b[1 + 1] = q[1]
      BY <1>1, <2>1, <2>3
    <3>2. ASSUME NEW i \in 1 .. n - 1 PROVE Follows(q[i], q[i + 1])
      <4>1. i + 1 \in 1 .. n /\ i \in 1 .. n
        BY <2>1
      <4>2. Follows(b[i + 1], b[(i + 1) + 1])
        BY <2>3, <4>1
      <4>3. b[i + 1] = q[i] /\ b[(i + 1) + 1] = q[i + 1]
        BY <1>1, <4>1
      <4>4. QED
        BY <4>2, <4>3
    <3>3. QED
      BY <1>1, <3>1, <3>2
  <2>4. ASSUME Follows(last, q[1]), \A i \in 1 .. n - 1 : Follows(q[i], q[i + 1]),
               NEW i \in 1 .. n
        PROVE  Follows(b[i], b[i + 1])
    <3>1. CASE i = 1
      BY <1>1, <2>1, <2>4, <3>1
    <3>2. CASE i # 1
      <4>1. i - 1 \in 1 .. n - 1 /\ i - 1 \in 1 .. n /\ (i - 1) + 1 = i
        BY <2>1, <3>2
      <4>2. Follows(q[i - 1], q[i]) /\ b[i] = q[i - 1] /\ b[i + 1] = q[i]
        BY <1>1, <2>4, <4>1
      <4>3. QED
        BY <4>2
    <3>3. QED
      BY <3>1, <3>2
  <2>5. Stream(last, q) <=> /\ Follows(last, q[1]) /\ q[n][2] = q[n][3]
                            /\ \A i \in 1 .. n - 1 : Follows(q[i], q[i + 1])
    BY <1>4 DEF Stream
  <2> HIDE DEF n
  <2>6. QED
    BY <1>2, <2>2, <2>3, <2>4, <2>5
<1>5. QED
  BY <1>3, <1>4

\* Whoever reads the first byte is in step with the others.
LEMMA StreamTail ==
    ASSUME NEW last, NEW q \in Seq(Words), q # << >>, Stream(last, q)
    PROVE  Stream(Head(q), Tail(q))
<1> DEFINE n == Len(q)
           t == Tail(q)
<1>1. /\ n \in Nat \ {0} /\ Len(t) = n - 1 /\ Head(q) = q[1] /\ t \in Seq(Words)
      /\ \A i \in 1 .. n - 1 : t[i] = q[i + 1]
  OBVIOUS
<1>2. q[n][2] = q[n][3] /\ \A i \in 1 .. n - 1 : Follows(q[i], q[i + 1])
  BY DEF Stream
<1> HIDE DEF n, t
<1>3. CASE n = 1
  <2>1. t = << >>
    BY <1>1, <1>3
  <2>2. QED
    BY <1>1, <1>2, <1>3, <2>1 DEF Stream, t
<1>4. CASE n > 1
  <2>1. t # << >> /\ t[1] = q[2] /\ t[n - 1] = q[n]
    <3>1. (n - 1) \in 1 .. n - 1 /\ (n - 1) + 1 = n /\ 1 \in 1 .. n - 1 /\ 1 + 1 = 2
      BY <1>1, <1>4
    <3>2. t[n - 1] = q[(n - 1) + 1] /\ t[1] = q[1 + 1]
      BY <1>1, <3>1
    <3>3. QED
      BY <1>1, <1>4, <3>1, <3>2
  <2>2. Follows(q[1], t[1])
    BY <1>1, <1>2, <1>4, <2>1
  <2>3. ASSUME NEW i \in 1 .. (n - 1) - 1 PROVE Follows(t[i], t[i + 1])
    <3>1. i \in 1 .. n - 1 /\ i + 1 \in 1 .. n - 1
      BY <1>1
    <3>2. t[i] = q[i + 1] /\ t[i + 1] = q[(i + 1) + 1] /\ Follows(q[i + 1], q[(i + 1) + 1])
      BY <1>1, <1>2, <3>1
    <3>3. QED
      BY <3>2
  <2>4. QED
    BY <1>1, <1>2, <2>1, <2>2, <2>3 DEF Stream, t
<1>5. QED
  BY <1>1, <1>3, <1>4

LEMMA ConcatenationIs ==
    ASSUME NEW S, NEW p \in Seq(S), NEW q \in Seq(S)
    PROVE  /\ p \o q \in Seq(S) /\ Len(p) \in Nat /\ Len(p \o q) = Len(p) + Len(q)
           /\ \A i \in 1 .. Len(p) + Len(q) :
                (p \o q)[i] = IF i <= Len(p) THEN p[i] ELSE q[i - Len(p)]
  OBVIOUS

Message(message, n) == [i \in 1 .. n |-> <<message, i, n>>]

\* A whole message more.
LEMMA StreamGrows ==
    ASSUME NEW last \in Words, NEW q \in Seq(Words), Stream(last, q),
           NEW message \in Messages \cup {"move", "id"}, NEW n \in Nat \ {0}
    PROVE  Message(message, n) \in Seq(Words) /\ Stream(last, q \o Message(message, n))
<1> DEFINE r == Message(message, n)
           l == Len(q)
           s == q \o r
<1>1. /\ r \in Seq(Words) /\ Len(r) = n /\ \A i \in 1 .. n : r[i] = <<message, i, n>>
  BY DEF Message, Words
<1> HIDE DEF r
<1>2. /\ l \in Nat /\ Len(s) = l + n /\ s # << >>
      /\ \A i \in 1 .. l : s[i] = q[i]
      /\ \A i \in 1 .. n : s[l + i] = r[i]
  <2>1. /\ l \in Nat /\ Len(s) = l + n
        /\ \A i \in 1 .. l + n : s[i] = IF i <= l THEN q[i] ELSE r[i - l]
    BY <1>1, ConcatenationIs
  <2> HIDE DEF s, l
  <2>2. ASSUME NEW i \in 1 .. n PROVE s[l + i] = r[i]
    <3>1. l + i \in 1 .. l + n /\ ~(l + i <= l) /\ (l + i) - l = i
      BY <2>1
    <3>2. QED
      BY <2>1, <3>1
  <2>3. \A i \in 1 .. l : s[i] = q[i]
    BY <2>1
  <2>4. s # << >>
    <3>1. Len(s) # 0
      BY <2>1
    <3>2. QED
      BY <3>1
  <2>5. QED
    BY <2>1, <2>2, <2>3, <2>4
<1>3. \A i \in 1 .. n : /\ s[l + i] = <<message, i, n>>
                        /\ s[l + i][1] = message /\ s[l + i][2] = i /\ s[l + i][3] = n
  BY <1>1, <1>2
<1> HIDE DEF s
<1>4. ASSUME NEW i \in 1 .. n - 1 PROVE Follows(s[l + i], s[l + (i + 1)])
  <2>1. i \in 1 .. n /\ i + 1 \in 1 .. n /\ i < n
    OBVIOUS
  <2>2. QED
    BY <1>3, <2>1 DEF Follows
<1>5. s[l + 1][2] = 1 /\ s[l + n][2] = s[l + n][3]
  <2>1. 1 \in 1 .. n /\ n \in 1 .. n
    OBVIOUS
  <2>2. QED
    BY <1>3, <2>1
<1>6. CASE q = << >>
  <2>1. l = 0
    BY <1>6
  <2>2. \A i \in 1 .. n - 1 : Follows(s[i], s[i + 1])
    BY <1>4, <2>1
  <2>3. Follows(last, s[1])
    <3>1. last[2] = last[3] /\ last[3] \in Nat
      BY <1>6 DEF Stream, Words
    <3>2. QED
      BY <1>5, <2>1, <3>1 DEF Follows
  <2> HIDE DEF l
  <2>4. Len(s) = n /\ s # << >> /\ s[n][2] = s[n][3]
    BY <1>2, <1>5, <2>1
  <2>5. Stream(last, s)
    BY <2>2, <2>3, <2>4 DEF Stream
  <2>6. QED
    BY <1>1, <2>5 DEF r, s
<1>7. CASE q # << >>
  <2>1. l \in Nat \ {0} /\ l \in 1 .. l /\ 1 \in 1 .. l
    BY <1>7
  <2>2. Follows(last, s[1])
    BY <1>2, <1>7, <2>1 DEF Stream
  <2>3. Follows(s[l], s[l + 1])
    <3>1. q[l][2] = q[l][3] /\ q[l] \in Words
      BY <1>7, <2>1 DEF Stream
    <3>2. s[l] = q[l] /\ q[l][3] \in Nat
      BY <1>2, <2>1, <3>1 DEF Words
    <3>3. QED
      BY <1>5, <3>1, <3>2 DEF Follows
  <2>4. ASSUME NEW i \in 1 .. (l + n) - 1 PROVE Follows(s[i], s[i + 1])
    <3>1. CASE i < l
      <4>1. i \in 1 .. l - 1 /\ i \in 1 .. l /\ i + 1 \in 1 .. l
        BY <2>1, <3>1
      <4>2. Follows(q[i], q[i + 1])
        BY <1>7, <4>1 DEF Stream
      <4>3. QED
        BY <1>2, <4>1, <4>2
    <3>2. CASE i = l
      BY <2>3, <3>2
    <3>3. CASE i > l
      <4>1. i - l \in 1 .. n - 1 /\ l + (i - l) = i /\ l + ((i - l) + 1) = i + 1
        BY <2>1, <3>3
      <4>2. Follows(s[l + (i - l)], s[l + ((i - l) + 1)])
        BY <1>4, <4>1
      <4>3. QED
        BY <4>1, <4>2
    <3>4. QED
      BY <2>1, <3>1, <3>2, <3>3
  <2> HIDE DEF l
  <2>5. QED
    BY <1>1, <1>2, <1>5, <2>2, <2>4 DEF Stream, r, s
<1>8. QED
  BY <1>6, <1>7
-----------------------------------------------------------------------------
(* What the operators add to the mouse's queue *)

\* Some bytes of d more: no device has less for the driver, the others no more.
Holds(k, j, d) ==
    k.pending \subseteq j.pending /\ j.pending \subseteq k.pending \cup {d}

Size(k) == Len(k.mouse.queue)

\* Whole messages, of n bytes at most.
Grows(k, j, n) ==
    /\ Size(j) <= Size(k) + n
    /\ \A last \in Words : Stream(last, k.mouse.queue) => Stream(last, j.mouse.queue)

LEMMA QueueIsSeq ==
    ASSUME NEW k, KOK(k)
    PROVE  /\ k \in KType /\ k.mouse \in Mouse /\ k.mouse.queue \in Seq(Bytes)
           /\ k.mouse.queue \in Seq(Words) /\ Size(k) \in Nat
           /\ Size(k) = Len(k.mouse.queue)
<1>1. k \in KType /\ k.mouse \in Mouse /\ k.mouse.queue \in Seq(Bytes)
  BY DEF KOK, CallsOK, KType, Mouse
<1>2. Bytes \subseteq Words
  BY DEF Bytes, Words
<1>3. QED
  BY <1>1, <1>2 DEF Size

LEMMA Unmoved ==
    ASSUME NEW k, KOK(k), NEW j, j.mouse.queue = k.mouse.queue PROVE Grows(k, j, 0)
<1>1. Size(j) = Size(k) /\ Size(k) \in Nat
  BY QueueIsSeq DEF Size
<1>2. Size(j) <= Size(k) + 0
  BY <1>1
<1>3. QED
  BY <1>2 DEF Grows

LEMMA GrowsOn ==
    ASSUME NEW k, NEW j, NEW h, KOK(k), KOK(j), KOK(h), NEW a \in Nat, NEW b \in Nat,
           Grows(k, j, a), Grows(j, h, b)
    PROVE  Grows(k, h, a + b)
<1>1. Size(k) \in Nat /\ Size(j) \in Nat /\ Size(h) \in Nat
  BY QueueIsSeq
<1>2. /\ Size(j) <= Size(k) + a
      /\ Size(h) <= Size(j) + b
  BY Zenon DEF Grows
<1>3. Size(h) <= Size(k) + (a + b)
  BY <1>1, <1>2
<1>4. QED
  BY <1>3, Zenon DEF Grows

LEMMA QueueIs ==
    ASSUME NEW k, KOK(k), NEW d \in Devs, NEW b \in Bytes
    PROVE  LET h == ps2_queue(k, d, b)
           IN  /\ Holds(k, h, d)
               /\ d = "kbd" => h.mouse = k.mouse
               /\ d = "mouse" /\ Size(k) < PS2_QUEUE_SIZE =>
                    h.mouse = [k.mouse EXCEPT !.queue = Append(@, b)]
<1> DEFINE q == [k EXCEPT ![d].queue = Append(@, b)]
           h == ps2_queue(k, d, b)
<1>0. k \in KType /\ k[d].queue \in Seq(Bytes) /\ Len(k[d].queue) \in Nat /\ k["mouse"] = k.mouse
  BY DEF KOK, CallsOK, KType, Devs, Kbd, Mouse
<1>1. CASE Len(k[d].queue) >= PS2_QUEUE_SIZE
  <2>1. h = k
    BY <1>1 DEF ps2_queue
  <2>2. ~(d = "mouse" /\ Size(k) < PS2_QUEUE_SIZE)
    BY <1>0, <1>1, Ps2Assumption DEF Size
  <2>3. QED
    BY <2>1, <2>2 DEF Holds
<1>2. CASE ~(Len(k[d].queue) >= PS2_QUEUE_SIZE)
  <2>1. h = SetPending(q, d, TRUE)
    BY <1>2 DEF ps2_queue, With
  <2>3. Append(k[d].queue, b) \in Seq(Bytes) /\ Append(k[d].queue, b) # << >>
    BY <1>0, AppendProperties
  <2>4. /\ q \in KType /\ q.calls = k.calls /\ q.pending = k.pending
        /\ q[d] = [k[d] EXCEPT !.queue = Append(@, b)]
        /\ q[d].queue = Append(k[d].queue, b)
        /\ \A e \in Devs \ {d} : q[e] = k[e]
    BY <1>0, <2>3, ZenonT(60) DEF KType, Devs, Kbd, Mouse
  <2>10. q.mouse = q["mouse"] /\ k.mouse = k["mouse"]
    OBVIOUS
  <2> HIDE DEF q
  <2>5. CallsOK(q)
    BY <2>4 DEF KOK, CallsOK, PicsOf
  <2>6. \A e \in q.pending \ {d} : q[e].queue # << >>
    BY <1>0, <2>4 DEF KOK, KType
  <2>7. q[d].queue # << >>
    BY <2>3, <2>4
  <2>8. /\ SetPending(q, d, TRUE).mouse = q.mouse
        /\ SetPending(q, d, TRUE).pending = q.pending \cup {d}
    BY <2>5, <2>6, <2>7, PendingKeeps, Zenon
  <2>9. h.mouse = q.mouse /\ h.pending = k.pending \cup {d}
    BY <2>1, <2>4, <2>8
  <2> HIDE DEF h
  <2>11. CASE d = "mouse"
    <3>1. h.mouse = [k.mouse EXCEPT !.queue = Append(@, b)]
      BY <2>4, <2>9, <2>10, <2>11, Zenon
    <3>2. QED
      BY <2>9, <2>11, <3>1 DEF Holds, h
  <2>12. CASE d = "kbd"
    <3>1. h.mouse = k.mouse
      BY <2>4, <2>9, <2>10, <2>12 DEF Devs
    <3>2. QED
      BY <2>9, <2>12, <3>1 DEF Holds, h
  <2>13. QED
    BY <2>11, <2>12 DEF Devs, h
<1>3. QED
  BY <1>1, <1>2

\* What of the message the first i turns have put into a queue with room for it.
SentInv(m, i, e) ==
    /\ KOK(e)
    /\ m.d = "kbd" => e.mouse = m.k.mouse
    /\ m.d = "mouse" => e.mouse = [m.k.mouse EXCEPT !.queue =
                                     @ \o [j \in 1 .. i |-> <<m.message, j, m.n>>]]

Speaking == INSTANCE Loops WITH Base <- LAMBDA m : m.k, Step <- SendStep, Inv <- SentInv

WithQueue(m, q) == [m EXCEPT !.queue = q]

LEMMA SendIs ==
    ASSUME NEW k, KOK(k), NEW d \in Devs, NEW message \in Messages, NEW n \in Nat,
           d = "mouse" => Size(k) + n <= PS2_QUEUE_SIZE
    PROVE  LET h == Send(k, d, message, n)
           IN  /\ KOK(h)
               /\ d = "kbd" => h.mouse = k.mouse
               /\ d = "mouse" =>
                    h.mouse = WithQueue(k.mouse, k.mouse.queue \o Message(message, n))
<1> DEFINE m == [k |-> k, d |-> d, message |-> message, n |-> n]
           part(i) == [j \in 1 .. i |-> <<message, j, n>>]
<1>1. m.k = k /\ m.d = d /\ m.message = message /\ m.n = n
  OBVIOUS
<1> HIDE DEF m
<1>2. Send(k, d, message, n) = Speaking!After(m, n)[n]
  BY <1>1 DEF Send, Speaking!After, SendStep, With
<1>3. /\ k.mouse \in Mouse /\ k.mouse.queue \in Seq(Bytes) /\ Size(k) \in Nat
      /\ Size(k) = Len(k.mouse.queue)
  BY QueueIsSeq
<1>4. SentInv(m, 0, k)
  <2>1. k.mouse.queue \o part(0) = k.mouse.queue
    <3>1. part(0) = << >>
      OBVIOUS
    <3> HIDE DEF part
    <3>2. QED
      BY <1>3, <3>1
  <2>2. [k.mouse EXCEPT !.queue = k.mouse.queue] = k.mouse
    BY <1>3 DEF Mouse
  <2>3. [k.mouse EXCEPT !.queue = @ \o part(0)] = k.mouse
    BY <2>1, <2>2
  <2>4. QED
    BY <1>1, <2>3 DEF SentInv
<1>5. ASSUME NEW i \in 1 .. n, NEW e, SentInv(m, i - 1, e) PROVE SentInv(m, i, SendStep(m, i, e))
  <2> DEFINE b == <<message, i, n>>
             h == ps2_queue(e, d, b)
  <2>1. b \in Bytes
    BY DEF Bytes
  <2>2. SendStep(m, i, e) = h
    BY <1>1 DEF SendStep, With
  <2>3. KOK(e) /\ KOK(h)
    BY <1>5, <2>1, QueueKeeps DEF SentInv
  <2>4. /\ d = "kbd" => h.mouse = e.mouse
        /\ d = "mouse" /\ Size(e) < PS2_QUEUE_SIZE =>
             h.mouse = [e.mouse EXCEPT !.queue = Append(@, b)]
    BY <2>1, <2>3, QueueIs
  <2> HIDE DEF h
  <2>5. ASSUME d = "mouse"
        PROVE  h.mouse = [k.mouse EXCEPT !.queue = @ \o part(i)]
    <3> DEFINE q == k.mouse.queue
    <3>1. e.mouse = [k.mouse EXCEPT !.queue = q \o part(i - 1)]
      BY <1>1, <1>5, <2>5 DEF SentInv
    <3>2. /\ part(i - 1) \in Seq(Bytes) /\ Len(part(i - 1)) = i - 1
          /\ Append(part(i - 1), b) = part(i)
      <4>1. part(i - 1) \in Seq(Bytes) /\ Len(part(i - 1)) = i - 1
        BY DEF Bytes
      <4>2. part(i) \in Seq(Bytes) /\ Len(part(i)) = i
        BY DEF Bytes
      <4>3. Append(part(i - 1), b) \in Seq(Bytes) /\ Len(Append(part(i - 1), b)) = i
        BY <2>1, <4>1
      <4>4. ASSUME NEW j \in 1 .. i PROVE Append(part(i - 1), b)[j] = part(i)[j]
        <5>1. part(i)[j] = <<message, j, n>>
          OBVIOUS
        <5>2. CASE j = i
          BY <4>1, <5>1, <5>2
        <5>3. CASE j # i
          <6>1. j \in 1 .. i - 1
            BY <5>3
          <6>2. part(i - 1)[j] = <<message, j, n>>
            BY <6>1
          <6>3. QED
            BY <4>1, <5>1, <6>1, <6>2
        <5>4. QED
          BY <5>2, <5>3
      <4> HIDE DEF part, b
      <4>5. QED
        BY <4>1, <4>2, <4>3, <4>4
    <3> HIDE DEF part, b
    <3>3. /\ q \o part(i - 1) \in Seq(Bytes) /\ Len(q \o part(i - 1)) = Len(q) + (i - 1)
          /\ Append(q \o part(i - 1), b) = q \o part(i)
      <4> DEFINE r == part(i - 1)
      <4>1. q \in Seq(Bytes) /\ r \in Seq(Bytes) /\ Len(r) = i - 1 /\ b \in Bytes
        BY <1>3, <2>1, <3>2 DEF b
      <4> HIDE DEF q, r
      <4>2. /\ q \o r \in Seq(Bytes) /\ Len(q \o r) = Len(q) + (i - 1)
            /\ Append(q \o r, b) = q \o Append(r, b)
        <5>1. /\ q \o r \in Seq(Bytes) /\ Len(q \o r) = Len(q) + Len(r)
          BY <4>1, ConcatenationIs
        <5>2. Append(q \o r, b) = q \o Append(r, b)
          BY <4>1
        <5>3. QED
          BY <4>1, <5>1, <5>2
      <4>3. QED
        BY <3>2, <4>2 DEF r
    <3>4. e.mouse.queue = q \o part(i - 1)
      BY <1>3, <3>1, <3>3 DEF Mouse
    <3>5. Size(e) < PS2_QUEUE_SIZE
      <4>1. Size(e) = Size(k) + (i - 1)
        BY <1>3, <3>3, <3>4 DEF Size, q
      <4>2. QED
        BY <1>3, <2>5, <4>1, Ps2Assumption
    <3>6. h.mouse = [e.mouse EXCEPT !.queue = Append(q \o part(i - 1), b)]
      BY <2>4, <2>5, <3>4, <3>5
    <3>7. QED
      BY <1>3, <3>1, <3>3, <3>6 DEF Mouse
  <2>6. QED
    BY <1>1, <1>5, <2>2, <2>3, <2>4, <2>5 DEF SentInv
<1>6. \A i \in 0 .. n : SentInv(m, i, Speaking!After(m, n)[i])
  BY <1>1, <1>4, <1>5, Speaking!LoopKeeps
<1>7. SentInv(m, n, Send(k, d, message, n))
  BY <1>2, <1>6
<1>8. QED
  BY <1>1, <1>7 DEF SentInv, Message, WithQueue

LEMMA SendGrows ==
    ASSUME NEW k, KOK(k), NEW d \in Devs, NEW message \in Messages, NEW n \in Nat \ {0},
           d = "mouse" => Size(k) + n <= PS2_QUEUE_SIZE
    PROVE  LET h == Send(k, d, message, n)
           IN  /\ KOK(h) /\ Grows(k, h, n)
               /\ h.mouse = WithQueue(k.mouse, h.mouse.queue)
<1> DEFINE h == Send(k, d, message, n)
           r == Message(message, n)
<1>0. n \in Nat
  OBVIOUS
<1>1. /\ KOK(h)
      /\ d = "kbd" => h.mouse = k.mouse
      /\ d = "mouse" => h.mouse = WithQueue(k.mouse, k.mouse.queue \o r)
  <2>1. /\ KOK(h)
        /\ d = "kbd" => h.mouse = k.mouse
    BY <1>0, SendIs
  <2>2. d = "mouse" => h.mouse = WithQueue(k.mouse, k.mouse.queue \o Message(message, n))
    BY <1>0, SendIs
  <2>3. QED
    BY <2>1, <2>2
<1> HIDE DEF h
<1>2. k.mouse \in Mouse /\ k.mouse.queue \in Seq(Words) /\ Size(k) \in Nat
  BY QueueIsSeq
<1>3. CASE d = "kbd"
  <2>1. h.mouse = k.mouse
    BY <1>1, <1>3
  <2>2. Size(h) <= Size(k) + n
    BY <1>2, <2>1 DEF Size
  <2>3. Grows(k, h, n)
    BY <1>1, <2>1, <2>2 DEF Grows
  <2>4. QED
    BY <1>1, <1>2, <2>1, <2>3 DEF Mouse, WithQueue, h
<1>4. CASE d = "mouse"
  <2>1. h.mouse = WithQueue(k.mouse, k.mouse.queue \o r)
    BY <1>1, <1>4
  <2>2. h.mouse.queue = k.mouse.queue \o r
    BY <1>2, <2>1 DEF Mouse, WithQueue
  <2>3. r \in Seq(Words) /\ Len(r) = n
    BY DEF Message, Words
  <2> HIDE DEF r
  <2>4. Size(h) = Size(k) + n
    <3>1. Len(k.mouse.queue \o r) = Len(k.mouse.queue) + Len(r)
      BY <1>2, <2>3, ConcatenationIs, Zenon
    <3>2. QED
      BY <2>2, <2>3, <3>1 DEF Size
  <2>5. ASSUME NEW last \in Words, Stream(last, k.mouse.queue) PROVE Stream(last, h.mouse.queue)
    BY <1>2, <2>2, <2>5, StreamGrows DEF r
  <2>6. Grows(k, h, n)
    BY <1>1, <1>2, <2>4, <2>5 DEF Grows
  <2>7. QED
    BY <1>1, <2>1, <2>2, <2>6 DEF h
<1>5. QED
  BY <1>3, <1>4 DEF Devs
-----------------------------------------------------------------------------
(* Bytes of one device do not hide or show those of the other *)

Holding ==
    INSTANCE Loops WITH Base <- LAMBDA m : m.k, Step <- SendStep,
                        Inv <- LAMBDA m, i, e : KOK(e) /\ Holds(m.k, e, m.d)

LEMMA SendHolds ==
    ASSUME NEW k, KOK(k), NEW d \in Devs, NEW message \in Messages, NEW n \in Nat
    PROVE  Holds(k, Send(k, d, message, n), d)
<1> DEFINE m == [k |-> k, d |-> d, message |-> message, n |-> n]
<1>1. m.k = k /\ m.d = d /\ m.message = message /\ m.n = n
  OBVIOUS
<1> HIDE DEF m
<1>2. Send(k, d, message, n) = Holding!After(m, n)[n]
  BY <1>1 DEF Send, Holding!After, SendStep, With
<1>3. ASSUME NEW i \in 1 .. n, NEW e, KOK(e) /\ Holds(m.k, e, m.d)
      PROVE  KOK(SendStep(m, i, e)) /\ Holds(m.k, SendStep(m, i, e), m.d)
  <2>1. <<message, i, n>> \in Bytes
    BY DEF Bytes
  <2>2. SendStep(m, i, e) = ps2_queue(e, d, <<message, i, n>>)
    BY <1>1 DEF SendStep, With
  <2>3. /\ KOK(ps2_queue(e, d, <<message, i, n>>))
        /\ Holds(e, ps2_queue(e, d, <<message, i, n>>), d)
    BY <1>3, <2>1, QueueKeeps, QueueIs
  <2>4. QED
    BY <1>1, <1>3, <2>2, <2>3 DEF Holds
<1>4. KOK(m.k) /\ Holds(m.k, m.k, m.d)
  BY <1>1 DEF Holds
<1>5. \A i \in 0 .. n : KOK(Holding!After(m, n)[i]) /\ Holds(m.k, Holding!After(m, n)[i], m.d)
  BY <1>3, <1>4, Holding!LoopKeeps
<1>6. QED
  BY <1>1, <1>2, <1>5

LEMMA PacketHolds ==
    ASSUME NEW k, KOK(k) PROVE Holds(k, ps2_mouse_send_packet(k), "mouse")
<1> DEFINE m == k.mouse
           n == IF m.type = 0 THEN 3 ELSE 4
           h == Send(k, "mouse", "packet", n)
           dx1 == Clamp(m.dx, MaxDelta)
           dy1 == Clamp(m.dy, MaxDelta)
           dz1 == CASE m.type = 3 -> Clamp(m.dz, MaxDelta)
                    [] m.type = 4 -> Clamp(m.dz, MaxWheel)
                    [] OTHER -> m.dz
           j == ps2_mouse_send_packet(k)
<1>1. KOK(h) /\ Holds(k, h, "mouse")
  <2>1. "mouse" \in Devs /\ "packet" \in Messages /\ n \in Nat
    BY DEF Devs, Messages
  <2> HIDE DEF n
  <2>2. QED
    BY <2>1, SendKeeps, SendHolds
<1>2. j = [h EXCEPT !.mouse.dx = @ - dx1, !.mouse.dy = @ - dy1, !.mouse.dz = @ - dz1]
  BY DEF ps2_mouse_send_packet
<1> HIDE DEF n, h, j, dx1, dy1, dz1
<1>3. j.pending = h.pending
  <2>1. h \in KType /\ h.mouse \in Mouse
    BY <1>1, QueueIsSeq
  <2>2. QED
    BY <1>2, <2>1 DEF KType, Mouse
<1>4. QED
  BY <1>1, <1>3 DEF Holds, j

PacketsHolding ==
    INSTANCE Loops WITH Base <- LAMBDA k : With(k, ps2_mouse_send_packet), Step <- PacketStep,
                        Inv <- LAMBDA k, i, e : KOK(e) /\ Holds(k, e, "mouse")

LEMMA PacketsHold ==
    ASSUME NEW k, KOK(k) PROVE Holds(k, ps2_mouse_send_packets(k), "mouse")
<1> DEFINE n == Turns(k.mouse)
<1>1. ps2_mouse_send_packets(k) = PacketsHolding!After(k, n)[n]
  BY DEF ps2_mouse_send_packets, PacketsHolding!After, PacketStep, With
<1>2. n \in Nat
  <2>1. k.mouse.dx \in Int /\ k.mouse.dy \in Int /\ k.mouse.dz \in Int
    BY DEF KOK, CallsOK, KType, Mouse
  <2>2. QED
    BY <2>1 DEF Turns
<1>3. KOK(With(k, ps2_mouse_send_packet)) /\ Holds(k, With(k, ps2_mouse_send_packet), "mouse")
  <2>1. With(k, ps2_mouse_send_packet) = ps2_mouse_send_packet(k)
    BY DEF With
  <2>2. QED
    BY <2>1, PacketKeeps, PacketHolds
<1>4. ASSUME NEW i \in 1 .. n, NEW e, KOK(e) /\ Holds(k, e, "mouse")
      PROVE  KOK(PacketStep(k, i, e)) /\ Holds(k, PacketStep(k, i, e), "mouse")
  <2>1. PacketStep(k, i, e) = IF IsStill(e.mouse) THEN e ELSE ps2_mouse_send_packet(e)
    BY DEF PacketStep, With
  <2>2. KOK(ps2_mouse_send_packet(e)) /\ Holds(e, ps2_mouse_send_packet(e), "mouse")
    BY <1>4, PacketKeeps, PacketHolds
  <2>3. QED
    BY <1>4, <2>1, <2>2 DEF Holds
<1> HIDE DEF n
<1>5. \A i \in 0 .. n : /\ KOK(PacketsHolding!After(k, n)[i])
                         /\ Holds(k, PacketsHolding!After(k, n)[i], "mouse")
  BY <1>2, <1>3, <1>4, PacketsHolding!LoopKeeps
<1>6. QED
  BY <1>1, <1>2, <1>5
-----------------------------------------------------------------------------
(* Packets *)

Near(v, b) == -b <= v /\ v <= b

LEMMA ClampNear ==
    ASSUME NEW v \in Int, NEW n \in Nat, NEW a \in Nat, NEW b \in Nat, a <= n, Near(v, b + a)
    PROVE  Near(v - Clamp(v, n), b)
  BY DEF Near, Clamp

\* What of a movement b packets can send.
Moves(m, b) ==
    /\ Near(m.dx, MaxDelta * b) /\ Near(m.dy, MaxDelta * b) /\ Near(m.dz, MaxWheel * b)

LEMMA PacketGrows ==
    ASSUME NEW k, KOK(k), Size(k) + 4 <= PS2_QUEUE_SIZE
    PROVE  LET j == ps2_mouse_send_packet(k)
           IN  /\ KOK(j) /\ Grows(k, j, 4)
               /\ \A b \in Nat : Moves(k.mouse, b + 1) => Moves(j.mouse, b)
<1> DEFINE m == k.mouse
           n == IF m.type = 0 THEN 3 ELSE 4
           h == Send(k, "mouse", "packet", n)
           dx1 == Clamp(m.dx, MaxDelta)
           dy1 == Clamp(m.dy, MaxDelta)
           dz1 == CASE m.type = 3 -> Clamp(m.dz, MaxDelta)
                    [] m.type = 4 -> Clamp(m.dz, MaxWheel)
                    [] OTHER -> m.dz
           j == ps2_mouse_send_packet(k)
<1>1. m \in Mouse /\ Size(k) \in Nat /\ m.dx \in Int /\ m.dy \in Int /\ m.dz \in Int
  BY QueueIsSeq DEF Mouse
<1>2. n \in Nat \ {0} /\ n <= 4 /\ Size(k) + n <= PS2_QUEUE_SIZE
  BY <1>1, Ps2Assumption
<1>3. KOK(h) /\ Grows(k, h, n) /\ h.mouse = WithQueue(k.mouse, h.mouse.queue)
  <2>1. "mouse" \in Devs /\ "packet" \in Messages
    BY DEF Devs, Messages
  <2> HIDE DEF n, m
  <2>2. QED
    BY <1>2, <2>1, SendGrows
<1>4. j = [h EXCEPT !.mouse.dx = @ - dx1, !.mouse.dy = @ - dy1, !.mouse.dz = @ - dz1]
  BY DEF ps2_mouse_send_packet
<1>5. KOK(j)
  BY PacketKeeps
<1> HIDE DEF n, h, j, dx1, dy1, dz1
<1>6. /\ h \in KType /\ h.mouse.dx = m.dx /\ h.mouse.dy = m.dy /\ h.mouse.dz = m.dz
      /\ h.mouse \in Mouse /\ Size(h) \in Nat
  <2>1. h \in KType /\ h.mouse \in Mouse /\ Size(h) \in Nat
    BY <1>3, QueueIsSeq
  <2>2. h.mouse.dx = m.dx /\ h.mouse.dy = m.dy /\ h.mouse.dz = m.dz
    BY <1>1, <1>3 DEF WithQueue, Mouse
  <2>3. QED
    BY <2>1, <2>2
<1>7. /\ j.mouse.queue = h.mouse.queue /\ j.pending = h.pending
      /\ j.mouse.dx = m.dx - dx1 /\ j.mouse.dy = m.dy - dy1 /\ j.mouse.dz = m.dz - dz1
  BY <1>4, <1>6 DEF KType, Mouse
<1>8. Grows(k, j, 4)
  <2>1. Grows(h, j, 0)
    BY <1>3, <1>7, Unmoved
  <2>2. Grows(k, j, n + 0)
    BY <1>2, <1>3, <1>5, <2>1, GrowsOn
  <2>3. Size(j) <= Size(k) + 4
    <3>1. Size(j) <= Size(k) + (n + 0) /\ Size(j) \in Nat
      BY <1>5, <2>2, QueueIsSeq, Zenon DEF Grows
    <3>2. QED
      BY <1>1, <1>2, <3>1
  <2>4. QED
    BY <2>2, <2>3 DEF Grows
<1>9. ASSUME NEW b \in Nat, Moves(m, b + 1) PROVE Moves(j.mouse, b)
  <2> DEFINE D == MaxDelta * b
             W == MaxWheel * b
  <2>1. /\ MaxDelta \in Nat /\ MaxWheel \in Nat /\ MaxWheel <= MaxDelta /\ D \in Nat /\ W \in Nat
        /\ MaxDelta * (b + 1) = D + MaxDelta /\ MaxWheel * (b + 1) = W + MaxWheel
    BY Ps2Assumption
  <2> HIDE DEF D, W
  <2>2. Near(m.dx, D + MaxDelta) /\ Near(m.dy, D + MaxDelta) /\ Near(m.dz, W + MaxWheel)
    BY <1>9, <2>1 DEF Moves
  <2>3. Near(m.dx - dx1, D) /\ Near(m.dy - dy1, D)
    <3>1. MaxDelta <= MaxDelta
      BY <2>1
    <3>2. Near(m.dx - Clamp(m.dx, MaxDelta), D)
      BY <1>1, <2>1, <2>2, <3>1, ClampNear
    <3>3. Near(m.dy - Clamp(m.dy, MaxDelta), D)
      BY <1>1, <2>1, <2>2, <3>1, ClampNear
    <3>4. QED
      BY <3>2, <3>3 DEF dx1, dy1
  <2>4. Near(m.dz - dz1, W)
    <3>1. CASE m.type = 3
      <4>1. dz1 = Clamp(m.dz, MaxDelta)
        BY <3>1 DEF dz1
      <4>2. QED
        BY <1>1, <2>1, <2>2, <4>1, ClampNear
    <3>2. CASE m.type = 4
      <4>1. dz1 = Clamp(m.dz, MaxWheel)
        BY <3>2 DEF dz1
      <4>2. QED
        BY <1>1, <2>1, <2>2, <4>1, ClampNear
    <3>3. CASE m.type # 3 /\ m.type # 4
      <4>1. dz1 = m.dz
        BY <3>3 DEF dz1
      <4>2. QED
        BY <1>1, <2>1, <4>1 DEF Near
    <3>4. QED
      BY <3>1, <3>2, <3>3
  <2>5. QED
    BY <1>7, <2>3, <2>4 DEF Moves, D, W
<1>10. QED
  BY <1>5, <1>8, <1>9 DEF j

Room == EventRoom \div 4

\* Some packets have been sent, and what is left fits in the others.
PacketsInv(k, i, e) ==
    /\ KOK(e)
    /\ \E p \in 1 .. Room : Grows(k, e, 4 * p) /\ Moves(e.mouse, Room - p)

Packeting ==
    INSTANCE Loops WITH Base <- LAMBDA k : With(k, ps2_mouse_send_packet), Step <- PacketStep,
                        Inv <- PacketsInv

LEMMA RoomIs ==
    Room \in Nat \ {0} /\ 4 * Room <= EventRoom
  BY Ps2Assumption DEF Room

LEMMA PacketsGrow ==
    ASSUME NEW k, KOK(k), Size(k) < PS2_QUEUE_SIZE - EventRoom, Moves(k.mouse, Room)
    PROVE  LET j == ps2_mouse_send_packets(k)
           IN  KOK(j) /\ Grows(k, j, EventRoom)
<1> DEFINE n == Turns(k.mouse)
           j == ps2_mouse_send_packets(k)
<1>1. j = Packeting!After(k, n)[n]
  BY DEF ps2_mouse_send_packets, Packeting!After, PacketStep, With
<1>2. n \in Nat
  <2>1. k.mouse.dx \in Int /\ k.mouse.dy \in Int /\ k.mouse.dz \in Int
    BY DEF KOK, CallsOK, KType, Mouse
  <2>2. QED
    BY <2>1 DEF Turns
<1>3. Size(k) \in Nat
  BY QueueIsSeq
<1>4. PacketsInv(k, 0, With(k, ps2_mouse_send_packet))
  <2> DEFINE h == ps2_mouse_send_packet(k)
  <2>1. With(k, ps2_mouse_send_packet) = h
    BY DEF With
  <2>2. Size(k) + 4 <= PS2_QUEUE_SIZE
    BY <1>3, Ps2Assumption
  <2>3. KOK(h) /\ Grows(k, h, 4) /\ \A b \in Nat : Moves(k.mouse, b + 1) => Moves(h.mouse, b)
    BY <2>2, PacketGrows
  <2> HIDE DEF h
  <2>4. Room - 1 \in Nat /\ (Room - 1) + 1 = Room /\ 1 \in 1 .. Room /\ 4 * 1 = 4
    BY RoomIs
  <2>5. Moves(h.mouse, Room - 1)
    BY <2>3, <2>4
  <2>6. QED
    BY <2>1, <2>3, <2>4, <2>5 DEF PacketsInv
<1>5. ASSUME NEW i \in 1 .. n, NEW e, PacketsInv(k, i - 1, e) PROVE PacketsInv(k, i, PacketStep(k, i, e))
  <2> DEFINE h == ps2_mouse_send_packet(e)
  <2>1. PacketStep(k, i, e) = IF IsStill(e.mouse) THEN e ELSE h
    BY DEF PacketStep, With
  <2>2. KOK(e)
    BY <1>5 DEF PacketsInv
  <2>3. PICK p \in 1 .. Room : Grows(k, e, 4 * p) /\ Moves(e.mouse, Room - p)
    BY <1>5 DEF PacketsInv
  <2>4. CASE IsStill(e.mouse)
    BY <1>5, <2>1, <2>4 DEF PacketsInv
  <2>5. CASE ~IsStill(e.mouse)
    <3>1. e.mouse.dx \in Int /\ e.mouse.dy \in Int /\ e.mouse.dz \in Int
      BY <2>2, QueueIsSeq DEF Mouse
    <3>2. p # Room
      <4>1. SUFFICES ASSUME p = Room PROVE FALSE
        OBVIOUS
      <4>2. MaxDelta * (Room - p) = 0 /\ MaxWheel * (Room - p) = 0
        BY <4>1, RoomIs, Ps2Assumption
      <4>3. Near(e.mouse.dx, 0) /\ Near(e.mouse.dy, 0) /\ Near(e.mouse.dz, 0)
        BY <2>3, <4>2 DEF Moves
      <4>4. QED
        BY <2>5, <3>1, <4>3 DEF Near, IsStill
    <3>3. p + 1 \in 1 .. Room /\ Room - (p + 1) \in Nat /\ (Room - (p + 1)) + 1 = Room - p
      BY <3>2, RoomIs
    <3>4. Size(e) + 4 <= PS2_QUEUE_SIZE
      <4>1. Size(e) <= Size(k) + 4 * p /\ Size(e) \in Nat
        BY <2>2, <2>3, QueueIsSeq, Zenon DEF Grows
      <4>2. 4 * p + 4 <= EventRoom
        BY <3>3, RoomIs, Ps2Assumption
      <4>3. QED
        BY <1>3, <4>1, <4>2, Ps2Assumption
    <3>5. KOK(h) /\ Grows(e, h, 4) /\ \A b \in Nat : Moves(e.mouse, b + 1) => Moves(h.mouse, b)
      BY <2>2, <3>4, PacketGrows
    <3> HIDE DEF h
    <3>6. Moves(h.mouse, Room - (p + 1))
      BY <2>3, <3>3, <3>5
    <3>7. Grows(k, h, 4 * p + 4) /\ 4 * p + 4 = 4 * (p + 1)
      BY <2>2, <2>3, <3>5, GrowsOn
    <3>8. PacketsInv(k, i, h)
      BY <3>3, <3>5, <3>6, <3>7 DEF PacketsInv
    <3>9. QED
      BY <2>1, <2>5, <3>8
  <2>6. QED
    BY <2>4, <2>5
<1> HIDE DEF n
<1>6. \A i \in 0 .. n : PacketsInv(k, i, Packeting!After(k, n)[i])
  BY <1>2, <1>4, <1>5, Packeting!LoopKeeps
<1>7. PacketsInv(k, n, j)
  BY <1>1, <1>2, <1>6
<1> HIDE DEF j
<1>8. KOK(j) /\ \E p \in 1 .. Room : Grows(k, j, 4 * p)
  BY <1>7 DEF PacketsInv
<1>9. PICK p \in 1 .. Room : Grows(k, j, 4 * p)
  BY <1>8
<1>10. Size(j) <= Size(k) + EventRoom
  <2>1. Size(j) <= Size(k) + 4 * p /\ Size(j) \in Nat
    BY <1>8, <1>9, QueueIsSeq, Zenon DEF Grows
  <2>2. QED
    BY <1>3, <2>1, RoomIs, Ps2Assumption
<1>11. QED
  BY <1>8, <1>9, <1>10 DEF Grows, j

\* The mouse that an event leaves, or that sends packets.
LEMMA EventIs ==
    ASSUME NEW k, KOK(k), NEW e \in [dx : Int, dy : Int, dz : Int, buttons : Int]
    PROVE  \E o \in Mouse :
             /\ o.queue = k.mouse.queue
             /\ Fits(k.mouse, e) => Moves(o, Room)
             /\ \/ ps2_mouse_event(k, e) \in {k, [k EXCEPT !.mouse = o]}
                \/ /\ ps2_mouse_event(k, e) = ps2_mouse_send_packets([k EXCEPT !.mouse = o])
                   /\ HasRoom(o)
<1> DEFINE m == [k.mouse EXCEPT !.dx = @ + e.dx, !.dy = @ - e.dy, !.dz = @ + e.dz]
           o == [m EXCEPT !.buttons = e.buttons]
           j == [k EXCEPT !.mouse = o]
           x == k.mouse.dx + e.dx
           y == k.mouse.dy - e.dy
           z == k.mouse.dz + e.dz
<1>7. \/ ps2_mouse_event(k, e) \in {k, [k EXCEPT !.mouse = m], j}
      \/ ps2_mouse_event(k, e) = ps2_mouse_send_packets(j) /\ HasRoom(m)
  <2> DEFINE quiet == IsStill(m) /\ m.buttons = e.buttons
  <2>1. ps2_mouse_event(k, e) =
          CASE "enabled" \notin k.mouse.status -> k
            [] "enabled" \in k.mouse.status /\ quiet -> [k EXCEPT !.mouse = m]
            [] OTHER -> IF "remote" \in m.status \/ ~HasRoom(m) THEN j
                        ELSE ps2_mouse_send_packets(j)
    BY DEF ps2_mouse_event
  <2> HIDE DEF m, j, quiet
  <2>2. CASE "enabled" \notin k.mouse.status
    BY <2>1, <2>2
  <2>3. CASE "enabled" \in k.mouse.status /\ quiet
    BY <2>1, <2>3
  <2>4. CASE "enabled" \in k.mouse.status /\ ~quiet
    BY <2>1, <2>4
  <2>5. QED
    BY <2>2, <2>3, <2>4
<1>1. /\ k \in KType /\ k.mouse \in Mouse /\ Size(k) \in Nat
      /\ k.mouse.dx \in Int /\ k.mouse.dy \in Int /\ k.mouse.dz \in Int
  BY QueueIsSeq DEF Mouse
<1>2. x \in Int /\ y \in Int /\ z \in Int /\ e.buttons \in Int
  BY <1>1
<1>3. Fits(k.mouse, e) => /\ Near(x, MaxDelta * Room) /\ Near(y, MaxDelta * Room)
                          /\ Near(z, MaxWheel * Room)
  <2>1. ASSUME NEW v \in Int, NEW most \in Nat, Within(v, most) PROVE Near(v, most * Room)
    <3> DEFINE b == most * Room
    <3>1. b \in Nat
      BY RoomIs
    <3>2. Clamp(v, b) = v
      BY <2>1 DEF Within, Room
    <3> HIDE DEF b
    <3>3. Near(v, b)
      BY <3>1, <3>2 DEF Clamp, Near
    <3>4. QED
      BY <3>3 DEF b
  <2>2. Fits(k.mouse, e) => Within(x, MaxDelta) /\ Within(y, MaxDelta) /\ Within(z, MaxWheel)
    BY DEF Fits
  <2>3. MaxDelta \in Nat /\ MaxWheel \in Nat
    BY Ps2Assumption
  <2> HIDE DEF x, y, z
  <2>4. QED
    BY <1>2, <2>1, <2>2, <2>3
<1>4. m = [k.mouse EXCEPT !.dx = x, !.dy = y, !.dz = z]
  OBVIOUS
<1> HIDE DEF x, y, z, m
<1>5. /\ m \in Mouse /\ m.queue = k.mouse.queue /\ m.dx = x /\ m.dy = y /\ m.dz = z
  <2> DEFINE v == k.mouse
  <2>1. v \in Mouse
    BY <1>1
  <2> HIDE DEF v
  <2>2. LET u == [v EXCEPT !.dx = x, !.dy = y, !.dz = z]
        IN  u \in Mouse /\ u.queue = v.queue /\ u.dx = x /\ u.dy = y /\ u.dz = z
    BY <1>2, <2>1 DEF Mouse
  <2>3. QED
    BY <1>4, <2>2 DEF v
<1>6. /\ o \in Mouse /\ o.queue = k.mouse.queue /\ o.dx = x /\ o.dy = y /\ o.dz = z
  BY <1>2, <1>5 DEF Mouse
<1>8. Fits(k.mouse, e) => Moves(m, Room) /\ Moves(o, Room)
  BY <1>3, <1>5, <1>6 DEF Moves
<1>9. HasRoom(m) => HasRoom(o)
  BY <1>5, <1>6 DEF HasRoom
<1> HIDE DEF o
<1>10. CASE ps2_mouse_event(k, e) = [k EXCEPT !.mouse = m]
  BY <1>5, <1>8, <1>10
<1>11. CASE ps2_mouse_event(k, e) \in {k, j}
  BY <1>6, <1>8, <1>11
<1>12. CASE ps2_mouse_event(k, e) = ps2_mouse_send_packets(j) /\ HasRoom(m)
  BY <1>6, <1>8, <1>9, <1>12
<1>13. QED
  BY <1>7, <1>10, <1>11, <1>12

LEMMA MouseIs ==
    ASSUME NEW k, KOK(k), NEW o \in Mouse, o.queue = k.mouse.queue
    PROVE  LET j == [k EXCEPT !.mouse = o]
           IN  KOK(j) /\ j.mouse = o /\ j.pending = k.pending /\ Grows(k, j, 0) /\ Size(j) = Size(k)
<1> DEFINE j == [k EXCEPT !.mouse = o]
<1>1. k \in KType
  BY QueueIsSeq
<1>2. j.mouse = o /\ j.pending = k.pending
  BY <1>1 DEF KType
<1>3. KOK(j)
  BY MouseKeeps
<1> HIDE DEF j
<1>4. Grows(k, j, 0) /\ Size(j) = Size(k)
  BY <1>2, Unmoved DEF Size
<1>5. QED
  BY <1>2, <1>3, <1>4 DEF j

LEMMA EventHolds ==
    ASSUME NEW k, KOK(k), NEW e \in [dx : Int, dy : Int, dz : Int, buttons : Int]
    PROVE  Holds(k, ps2_mouse_event(k, e), "mouse")
<1>1. PICK o \in Mouse :
             /\ o.queue = k.mouse.queue
             /\ ps2_mouse_event(k, e) \in
                  {k, [k EXCEPT !.mouse = o], ps2_mouse_send_packets([k EXCEPT !.mouse = o])}
  BY EventIs
<1> DEFINE j == [k EXCEPT !.mouse = o]
<1>2. KOK(j) /\ j.pending = k.pending
  BY <1>1, MouseIs
<1>3. ps2_mouse_event(k, e) \in {k, j, ps2_mouse_send_packets(j)}
  BY <1>1
<1> HIDE DEF j
<1>4. Holds(j, ps2_mouse_send_packets(j), "mouse")
  BY <1>2, PacketsHold
<1>5. QED
  BY <1>2, <1>3, <1>4 DEF Holds

\* A movement, with what had added up, that fits.
LEMMA EventGrows ==
    ASSUME NEW k, KOK(k), NEW e \in [dx : Int, dy : Int, dz : Int, buttons : Int],
           Fits(k.mouse, e)
    PROVE  Grows(k, ps2_mouse_event(k, e), EventRoom)
<1>1. PICK o \in Mouse :
             /\ o.queue = k.mouse.queue
             /\ Moves(o, Room)
             /\ \/ ps2_mouse_event(k, e) \in {k, [k EXCEPT !.mouse = o]}
                \/ /\ ps2_mouse_event(k, e) = ps2_mouse_send_packets([k EXCEPT !.mouse = o])
                   /\ HasRoom(o)
  BY EventIs
<1> DEFINE j == [k EXCEPT !.mouse = o]
<1>2. KOK(j) /\ Grows(k, j, 0) /\ j.mouse = o /\ Size(j) = Size(k) /\ Size(k) \in Nat
  BY <1>1, MouseIs, QueueIsSeq
<1>3. \/ ps2_mouse_event(k, e) \in {k, j}
      \/ ps2_mouse_event(k, e) = ps2_mouse_send_packets(j) /\ HasRoom(o)
  BY <1>1
<1> HIDE DEF j
<1>4. ASSUME NEW h, Grows(k, h, 0), KOK(h) PROVE Grows(k, h, EventRoom)
  <2>1. Size(h) <= Size(k) + 0 /\ Size(h) \in Nat
    BY <1>4, QueueIsSeq, Zenon DEF Grows
  <2>2. Size(h) <= Size(k) + EventRoom
    BY <1>2, <2>1, Ps2Assumption
  <2>3. QED
    BY <1>4, <2>2 DEF Grows
<1>5. CASE ps2_mouse_event(k, e) \in {k, j}
  <2>1. Grows(k, k, 0)
    BY Unmoved
  <2>2. QED
    BY <1>2, <1>4, <1>5, <2>1
<1>6. CASE ps2_mouse_event(k, e) = ps2_mouse_send_packets(j) /\ HasRoom(o)
  <2>1. Size(j) < PS2_QUEUE_SIZE - EventRoom /\ Moves(j.mouse, Room)
    BY <1>1, <1>2, <1>6 DEF HasRoom, Size
  <2> DEFINE h == ps2_mouse_send_packets(j)
  <2>2. KOK(h) /\ Grows(j, h, EventRoom)
    BY <1>2, <2>1, PacketsGrow
  <2> HIDE DEF h
  <2>3. Grows(k, h, 0 + EventRoom) /\ 0 + EventRoom = EventRoom
    <3>1. EventRoom \in Nat /\ 0 \in Nat /\ 0 + EventRoom = EventRoom
      BY Ps2Assumption
    <3>2. QED
      BY <1>2, <2>2, <3>1, GrowsOn
  <2>4. QED
    BY <1>6, <2>3 DEF h
<1>7. QED
  BY <1>3, <1>5, <1>6
-----------------------------------------------------------------------------
(* Commands, given when the mouse's queue has room for their answers *)

Spacious(k) == KOK(k) /\ Size(k) + 5 <= PS2_QUEUE_SIZE

LEMMA SpaciousAck ==
    ASSUME NEW k, Spacious(k), NEW m \in Mouse, m.queue = k.mouse.queue
    PROVE  LET j == Ack([k EXCEPT !.mouse = m])
           IN  KOK(j) /\ Grows(k, j, 1)
<1> DEFINE h == [k EXCEPT !.mouse = m]
           j == Ack(h)
<1>1. KOK(k) /\ k \in KType /\ Size(k) \in Nat
  BY QueueIsSeq DEF Spacious
<1>2. h.mouse = m
  BY <1>1 DEF KType
<1>3. KOK(h)
  BY <1>1, MouseKeeps DEF Spacious
<1> HIDE DEF h
<1>4. Size(h) = Size(k)
  BY <1>2 DEF Size
<1>5. KOK(j) /\ Grows(h, j, 1)
  <2>1. Size(h) + 1 <= PS2_QUEUE_SIZE /\ "mouse" \in Devs /\ "ack" \in Messages /\ 1 \in Nat \ {0}
    BY <1>1, <1>4, Ps2Assumption DEF Devs, Messages, Spacious
  <2>2. QED
    BY <1>3, <2>1, SendGrows DEF Ack
<1>6. Grows(k, h, 0)
  BY <1>1, <1>2, Unmoved
<1> HIDE DEF j
<1>7. Grows(k, j, 0 + 1) /\ 0 + 1 = 1
  BY <1>1, <1>3, <1>5, <1>6, GrowsOn
<1>8. QED
  BY <1>5, <1>7 DEF h, j

\* An answer of one kind or another.
LEMMA SpaciousSend ==
    ASSUME NEW k, Spacious(k), NEW d \in Devs, NEW message \in Messages, NEW n \in 1 .. 4
    PROVE  LET j == Send(k, d, message, n)
           IN  KOK(j) /\ Grows(k, j, 5)
<1> DEFINE j == Send(k, d, message, n)
<1>1. KOK(k) /\ Size(k) \in Nat
  BY QueueIsSeq DEF Spacious
<1>2. n \in Nat \ {0} /\ Size(k) + n <= PS2_QUEUE_SIZE
  BY <1>1, Ps2Assumption DEF Spacious
<1>3. KOK(j) /\ Grows(k, j, n)
  BY <1>1, <1>2, SendGrows
<1> HIDE DEF j
<1>4. Size(j) <= Size(k) + n /\ Size(j) \in Nat
  BY <1>3, QueueIsSeq, Zenon DEF Grows
<1>5. Size(j) <= Size(k) + 5
  BY <1>1, <1>4
<1>6. QED
  BY <1>3, <1>5 DEF Grows, j

LEMMA GrowsMore ==
    ASSUME NEW k, NEW j, KOK(k), KOK(j), NEW n \in 0 .. 5, Grows(k, j, n) PROVE Grows(k, j, 5)
<1>1. Size(j) <= Size(k) + n /\ Size(j) \in Nat /\ Size(k) \in Nat
  BY QueueIsSeq, Zenon DEF Grows
<1>2. Size(j) <= Size(k) + 5
  BY <1>1
<1>3. QED
  BY <1>2 DEF Grows

LEMMA SpaciousAcked ==
    ASSUME NEW k, Spacious(k), NEW m \in Mouse, m.queue = k.mouse.queue
    PROVE  Grows(k, Ack([k EXCEPT !.mouse = m]), 5)
<1> DEFINE j == Ack([k EXCEPT !.mouse = m])
<1>1. KOK(j) /\ Grows(k, j, 1)
  BY SpaciousAck
<1> HIDE DEF j
<1>2. Grows(k, j, 5)
  BY <1>1, GrowsMore DEF Spacious
<1>3. QED
  BY <1>2 DEF j

\* What leaves the mouse alone.
LEMMA Untouched ==
    ASSUME NEW k, NEW j, KOK(k), KOK(j), j.mouse.queue = k.mouse.queue
    PROVE  Grows(k, j, 5)
<1>1. Grows(k, j, 0) /\ 0 \in 0 .. 5
  BY Unmoved
<1>2. QED
  BY <1>1, GrowsMore

LEMMA MouseCommandGrows ==
    ASSUME NEW k, Spacious(k), NEW val PROVE Grows(k, MouseCommand(k, val), 5)
<1> DEFINE m == k.mouse
           Flags == {"enabled", "remote", "scale21"}
<1>1. k \in KType /\ m \in Mouse /\ KOK(k) 
  BY QueueIsSeq DEF Spacious
<1>2. ASSUME NEW s \in SUBSET Flags PROVE Grows(k, Ack([k EXCEPT !.mouse.status = s]), 5)
  <2>1. [m EXCEPT !.status = s] \in Mouse /\ [m EXCEPT !.status = s].queue = m.queue
    BY <1>1 DEF Mouse
  <2>2. [k EXCEPT !.mouse = [m EXCEPT !.status = s]] = [k EXCEPT !.mouse.status = s]
    OBVIOUS
  <2>3. QED
    BY <2>1, <2>2, SpaciousAcked
<1>4. m.status \in SUBSET Flags
  BY <1>1 DEF Mouse
<1>5. /\ Grows(k, Ack([k EXCEPT !.mouse.status = @ \ {"scale21"}]), 5)
      /\ Grows(k, Ack([k EXCEPT !.mouse.status = @ \cup {"scale21"}]), 5)
      /\ Grows(k, Ack([k EXCEPT !.mouse.status = @ \ {"remote"}]), 5)
      /\ Grows(k, Ack([k EXCEPT !.mouse.status = @ \cup {"remote"}]), 5)
      /\ Grows(k, Ack([k EXCEPT !.mouse.status = @ \ {"enabled"}]), 5)
      /\ Grows(k, Ack([k EXCEPT !.mouse.status = @ \cup {"enabled"}]), 5)
      /\ Grows(k, Ack([k EXCEPT !.mouse.status = {}]), 5)
  BY <1>2, <1>4
<1>6. Grows(k, Ack([k EXCEPT !.mouse.wrap = TRUE]), 5)
  <2>1. [m EXCEPT !.wrap = TRUE] \in Mouse /\ [m EXCEPT !.wrap = TRUE].queue = m.queue
    BY <1>1 DEF Mouse
  <2>2. QED
    BY <2>1, SpaciousAcked
<1>7. val \in {"set_res", "set_sample"} => Grows(k, Ack([k EXCEPT !.mouse.write_cmd = val]), 5)
  <2>1. val \in {"set_res", "set_sample"} =>
          [m EXCEPT !.write_cmd = val] \in Mouse /\ [m EXCEPT !.write_cmd = val].queue = m.queue
    BY <1>1 DEF Mouse
  <2>2. QED
    BY <2>1, SpaciousAcked
<1>8. Grows(k, Send(k, "mouse", "type", 2), 5) /\ Grows(k, Send(k, "mouse", "scale", 4), 5)
  <2>1. 2 \in 1 .. 4 /\ 4 \in 1 .. 4 /\ "mouse" \in Devs /\ {"type", "scale"} \subseteq Messages
    BY DEF Devs, Messages
  <2>2. QED
    BY <2>1, SpaciousSend
<1>9. Grows(k, ps2_mouse_send_packet(Ack(k)), 5)
  <2> DEFINE h == Ack(k)
             j == ps2_mouse_send_packet(h)
  <2>1. KOK(h) /\ Grows(k, h, 1)
    <3>1. [k EXCEPT !.mouse = m] = k
      BY <1>1 DEF KType
    <3>2. LET i == Ack([k EXCEPT !.mouse = m]) IN KOK(i) /\ Grows(k, i, 1)
      BY <1>1, SpaciousAck
    <3> HIDE DEF m
    <3>3. QED
      BY <3>1, <3>2
  <2> HIDE DEF h
  <2>2. Size(h) + 4 <= PS2_QUEUE_SIZE
    <3>1. Size(h) \in Nat /\ Size(k) \in Nat /\ Size(h) <= Size(k) + 1
      BY <1>1, <2>1, QueueIsSeq, Zenon DEF Grows
    <3>2. QED
      BY <3>1, Ps2Assumption DEF Spacious
  <2>3. KOK(j) /\ Grows(h, j, 4)
    BY <2>1, <2>2, PacketGrows
  <2> HIDE DEF j
  <2>4. Grows(k, j, 1 + 4) /\ 1 + 4 = 5
    BY <1>1, <2>1, <2>3, GrowsOn
  <2>5. QED
    BY <2>4 DEF h, j
<1>10. Grows(k, Send([k EXCEPT !.mouse.status = {}, !.mouse.type = 0], "mouse", "reset", 3), 5)
  <2> DEFINE reset == [m EXCEPT !.status = {}, !.type = 0]
             h == [k EXCEPT !.mouse = reset]
             j == Send(h, "mouse", "reset", 3)
  <2>1. reset \in Mouse /\ reset.queue = m.queue
    BY <1>1 DEF Mouse
  <2>2. [k EXCEPT !.mouse.status = {}, !.mouse.type = 0] = h
    BY <1>1 DEF KType
  <2> HIDE DEF reset
  <2>3. KOK(h) /\ h.mouse = reset
    BY <1>1, <2>1, MouseKeeps DEF KType
  <2> HIDE DEF h
  <2>4. Spacious(h) /\ Grows(k, h, 0)
    BY <1>1, <2>1, <2>3, Unmoved DEF Spacious, Size
  <2>5. KOK(j) /\ Grows(h, j, 3)
    <3>1. Size(h) \in Nat
      BY <2>3, QueueIsSeq
    <3>2. Size(h) + 3 <= PS2_QUEUE_SIZE /\ 3 \in Nat \ {0} /\ "mouse" \in Devs /\ "reset" \in Messages
      BY <2>4, <3>1, Ps2Assumption DEF Devs, Messages, Spacious
    <3>3. QED
      BY <2>3, <3>2, SendGrows
  <2> HIDE DEF j
  <2>6. Grows(k, j, 0 + 3) /\ 0 + 3 = 3
    BY <1>1, <2>3, <2>4, <2>5, GrowsOn
  <2>7. Grows(k, j, 5)
    <3>1. 3 \in 0 .. 5
      OBVIOUS
    <3>2. QED
      BY <1>1, <2>5, <2>6, <3>1, GrowsMore
  <2>8. QED
    BY <2>2, <2>7 DEF j
<1>11. Grows(k, k, 5)
  BY <1>1, Untouched
<1> HIDE DEF m
<1>12. QED
  BY <1>5, <1>6, <1>7, <1>8, <1>9, <1>10, <1>11 DEF MouseCommand

\* What changes besides the queue.
LEMMA GrowsSo ==
    ASSUME NEW k, NEW j, NEW h, KOK(k), KOK(j), KOK(h), Grows(k, j, 5),
           h.mouse.queue = j.mouse.queue
    PROVE  Grows(k, h, 5)
<1>1. Grows(j, h, 0)
  BY Unmoved
<1>2. Grows(k, h, 5 + 0) /\ 5 + 0 = 5
  BY <1>1, GrowsOn
<1>3. QED
  BY <1>2

LEMMA WriteMouseGrows ==
    ASSUME NEW k, Spacious(k), NEW val PROVE Grows(k, ps2_write_mouse(k, val), 5)
<1> DEFINE m == k.mouse
           m1 == DetectType(m, val)
<1>1. k \in KType /\ m \in Mouse /\ KOK(k) 
  BY QueueIsSeq DEF Spacious
<1>2. ASSUME NEW j, KOK(j), Grows(k, j, 5) PROVE Grows(k, [j EXCEPT !.mouse.write_cmd = "none"], 5)
  <2> DEFINE o == [j.mouse EXCEPT !.write_cmd = "none"]
             h == [j EXCEPT !.mouse = o]
  <2>1. j \in KType /\ j.mouse \in Mouse
    BY <1>2, QueueIsSeq
  <2>2. o \in Mouse /\ o.queue = j.mouse.queue
    BY <2>1 DEF Mouse
  <2>3. [j EXCEPT !.mouse.write_cmd = "none"] = h
    OBVIOUS
  <2> HIDE DEF o
  <2>4. KOK(h) /\ h.mouse = o /\ h.pending = j.pending
    BY <1>2, <2>1, <2>2, MouseKeeps DEF KType
  <2> HIDE DEF h
  <2>5. Grows(k, h, 5)
    BY <1>1, <1>2, <2>2, <2>4, GrowsSo
  <2>6. QED
    BY <2>3, <2>5
<1>3. ASSUME NEW i \in Mouse, i.queue = m.queue
      PROVE  KOK(Ack([k EXCEPT !.mouse = i])) /\ Grows(k, Ack([k EXCEPT !.mouse = i]), 5)
  BY <1>3, SpaciousAck, SpaciousAcked
<1>4. Grows(k, [Ack([k EXCEPT !.mouse = m1]) EXCEPT !.mouse.write_cmd = "none"], 5)
  <2>1. m1 \in Mouse /\ m1.queue = m.queue
    BY <1>1, DetectTypeIs
  <2> DEFINE j == Ack([k EXCEPT !.mouse = m1])
  <2>2. KOK(j) /\ Grows(k, j, 5)
    BY <1>3, <2>1
  <2> HIDE DEF j
  <2>3. Grows(k, [j EXCEPT !.mouse.write_cmd = "none"], 5)
    BY <1>2, <2>2
  <2>4. QED
    BY <2>3 DEF j
<1>5. [k EXCEPT !.mouse = DetectType(@, val)] = [k EXCEPT !.mouse = m1]
  OBVIOUS
<1>6. Grows(k, [Ack(k) EXCEPT !.mouse.write_cmd = "none"], 5)
  <2> DEFINE j == Ack(k)
  <2>1. [k EXCEPT !.mouse = m] = k
    BY <1>1 DEF KType
  <2>2. KOK(Ack([k EXCEPT !.mouse = m])) /\ Grows(k, Ack([k EXCEPT !.mouse = m]), 5)
    BY <1>1, <1>3
  <2>3. KOK(j) /\ Grows(k, j, 5)
    BY <2>1, <2>2
  <2> HIDE DEF j
  <2>4. Grows(k, [j EXCEPT !.mouse.write_cmd = "none"], 5)
    BY <1>2, <2>3
  <2>5. QED
    BY <2>4 DEF j
<1>7. Grows(k, Send(k, "mouse", "echo", 1), 5)
  <2>1. 1 \in 1 .. 4 /\ "mouse" \in Devs /\ "echo" \in Messages
    BY DEF Devs, Messages
  <2>2. QED
    BY <2>1, SpaciousSend
<1>8. Grows(k, Ack([k EXCEPT !.mouse.wrap = FALSE]), 5)
  <2> DEFINE o == [m EXCEPT !.wrap = FALSE]
  <2>1. o \in Mouse /\ o.queue = m.queue
    BY <1>1 DEF Mouse
  <2>2. [k EXCEPT !.mouse.wrap = FALSE] = [k EXCEPT !.mouse = o]
    OBVIOUS
  <2> HIDE DEF o
  <2>3. QED
    BY <1>3, <2>1, <2>2
<1>9. Grows(k, MouseCommand(k, val), 5)
  BY MouseCommandGrows
<1> HIDE DEF m, m1
<1>10. QED
  BY <1>4, <1>5, <1>6, <1>7, <1>8, <1>9 DEF ps2_write_mouse, m1, m

LEMMA ModeGrows ==
    ASSUME NEW k, Spacious(k), NEW mode \in SUBSET Modes
    PROVE  Grows(k, kbd_update_irq([k EXCEPT !.mode = mode]), 5)
<1> DEFINE h == [k EXCEPT !.mode = mode]
           j == kbd_update_irq(h)
<1>1. KOK(k) /\ k \in KType
  BY QueueIsSeq DEF Spacious
<1>2. KOK(j)
  BY <1>1, ModeKeeps
<1>3. /\ h \in KType /\ h.calls = k.calls /\ h.pending = k.pending
      /\ h["kbd"] = k["kbd"] /\ h["mouse"] = k["mouse"]
  BY <1>1 DEF KType, Modes
<1> HIDE DEF h
<1>4. CallsOK(h)
  BY <1>1, <1>3 DEF KOK, CallsOK, PicsOf
<1>5. \A d \in h.pending : h[d].queue # << >>
  BY <1>1, <1>3 DEF KOK, KType, Devs
<1>6. j.mouse = h.mouse /\ j.pending = h.pending
  BY <1>4, <1>5, UpdateKeeps
<1>7. j.mouse = k.mouse /\ j.pending = k.pending
  BY <1>3, <1>6
<1> HIDE DEF j
<1>8. Grows(k, j, 5)
  BY <1>1, <1>2, <1>7, Untouched
<1>9. QED
  BY <1>8 DEF j, h

LEMMA WriteCommandGrows ==
    ASSUME NEW k, Spacious(k), NEW val PROVE Grows(k, kbd_write_command(k, val), 5)
<1> DEFINE t == [k EXCEPT !.status = @ \cup {"selftest"}]
<1>1. KOK(k) /\ k \in KType /\ k.mode \in SUBSET Modes
  BY QueueIsSeq DEF Spacious, KType, Modes
<1>2. ASSUME NEW j, j.mouse = k.mouse, j.pending = k.pending, KOK(j) PROVE Grows(k, j, 5)
  BY <1>1, <1>2, Untouched
<1>3. Grows(k, k, 5)
  BY <1>1, <1>2
<1>4. ASSUME NEW cmd PROVE [k EXCEPT !.write_cmd = cmd].mouse = k.mouse
                           /\ [k EXCEPT !.write_cmd = cmd].pending = k.pending
  BY <1>1 DEF KType
<1>5. val \in {"write_mode", "write_obuf", "write_aux_obuf", "write_mouse"} =>
        Grows(k, [k EXCEPT !.write_cmd = val], 5)
  BY <1>1, <1>2, <1>4, CommandKeeps
<1>6. /\ Grows(k, [k EXCEPT !.mode = @ \cup {"disable_mouse"}], 5)
      /\ Grows(k, [k EXCEPT !.mode = @ \ {"disable_mouse"}], 5)
  <2>1. ASSUME NEW mode \in SUBSET Modes,
               \A b \in {"kbd_int", "mouse_int", "disable_kbd"} : b \in mode <=> b \in k.mode
        PROVE  Grows(k, [k EXCEPT !.mode = mode], 5)
    <3> DEFINE j == [k EXCEPT !.mode = mode]
    <3>1. /\ j \in KType /\ j.calls = k.calls /\ j.pending = k.pending /\ j.kbd = k.kbd
          /\ j.mouse = k.mouse /\ j.status = k.status /\ j.mode = mode
      BY <1>1 DEF KType, Modes
    <3> HIDE DEF j
    <3>2. KOK(j)
      BY <1>1, <2>1, <3>1, Unseen
    <3>3. Grows(k, j, 5)
      BY <1>2, <3>1, <3>2
    <3>4. QED
      BY <3>3 DEF j
  <2>2. /\ k.mode \cup {"disable_mouse"} \in SUBSET Modes /\ k.mode \ {"disable_mouse"} \in SUBSET Modes
    BY <1>1 DEF Modes
  <2>3. QED
    BY <2>1, <2>2
<1>7. \A mode \in SUBSET Modes : Grows(k, kbd_update_irq([k EXCEPT !.mode = mode]), 5)
  BY ModeGrows
<1>8. /\ Grows(k, kbd_update_irq([k EXCEPT !.mode = @ \cup {"disable_kbd"}]), 5)
      /\ Grows(k, kbd_update_irq([k EXCEPT !.mode = @ \ {"disable_kbd"}]), 5)
  <2>1. k.mode \cup {"disable_kbd"} \in SUBSET Modes /\ k.mode \ {"disable_kbd"} \in SUBSET Modes
    BY <1>1 DEF Modes
  <2>2. QED
    BY <1>7, <2>1
<1>9. /\ 1 \in 1 .. 4 /\ "mouse" \in Devs /\ "kbd" \in Devs /\ "mode" \in Messages
      /\ "test" \in Messages
  BY DEF Devs, Messages
<1>10. Grows(k, Send(k, "mouse", "mode", 1), 5) /\ Grows(k, Send(k, "kbd", "test", 1), 5)
  BY <1>9, SpaciousSend
<1>11. Grows(k, Send(t, "kbd", "test", 1), 5)
  <2> DEFINE j == Send(t, "kbd", "test", 1)
  <2>1. /\ t \in KType /\ t.calls = k.calls /\ t.pending = k.pending /\ t.kbd = k.kbd
        /\ t.mouse = k.mouse /\ t.mode = k.mode 
        /\ \A b \in {"obf", "mouse_obf"} : b \in t.status <=> b \in k.status
    BY <1>1 DEF KType
  <2> HIDE DEF t
  <2>2. KOK(t)
    BY <1>1, <2>1, Unseen
  <2>3. Grows(k, t, 0) /\ Spacious(t)
    BY <1>1, <2>1, <2>2, Unmoved DEF Spacious, Size
  <2>4. KOK(j) /\ Grows(t, j, 5)
    BY <1>9, <2>3, SpaciousSend
  <2> HIDE DEF j
  <2>5. Grows(k, j, 0 + 5) /\ 0 + 5 = 5
    BY <1>1, <2>2, <2>3, <2>4, GrowsOn
  <2>6. QED
    BY <2>5 DEF j
<1>12. QED
  BY <1>3, <1>5, <1>6, <1>8, <1>10, <1>11 DEF kbd_write_command

\* The keyboard answers in its own queue.
LEMMA WriteKeyboardIs ==
    ASSUME NEW k, KOK(k), NEW val
    PROVE  ps2_write_keyboard(k, val).mouse = k.mouse
<1>1. /\ {1, 2, 3} \subseteq Nat /\ "kbd" \in Devs /\ {"ack", "id", "por"} \subseteq Messages
      /\ "kbd" # "mouse"
  BY DEF Devs, Messages
<1>2. k \in KType
  BY QueueIsSeq
<1>3. ASSUME NEW h, KOK(h), h.mouse = k.mouse, NEW message \in {"ack", "id", "por"},
             NEW n \in {1, 2, 3}
      PROVE  KOK(Send(h, "kbd", message, n)) /\ Send(h, "kbd", message, n).mouse = k.mouse
  BY <1>1, <1>3, SendIs
<1>4. [Send(k, "kbd", "ack", 1) EXCEPT !.kbd.write_cmd = "none"].mouse = k.mouse
  <2> DEFINE j == Send(k, "kbd", "ack", 1)
  <2>1. KOK(j) /\ j.mouse = k.mouse
    BY <1>3
  <2> HIDE DEF j
  <2>2. j \in KType
    BY <2>1, QueueIsSeq
  <2>3. [j EXCEPT !.kbd.write_cmd = "none"].mouse = k.mouse
    BY <2>1, <2>2 DEF KType
  <2>4. QED
    BY <2>3 DEF j
<1>5. ASSUME val \in {"set_leds", "set_rate"}
      PROVE  Send([k EXCEPT !.kbd.write_cmd = val], "kbd", "ack", 1).mouse = k.mouse
  <2> DEFINE h == [k EXCEPT !.kbd.write_cmd = val]
  <2>1. KOK(h) /\ h.mouse = k.mouse
    BY <1>2, <1>5, KbdKeeps DEF KType
  <2> HIDE DEF h
  <2>2. Send(h, "kbd", "ack", 1).mouse = k.mouse
    BY <1>3, <2>1
  <2>3. QED
    BY <2>2 DEF h
<1>6. /\ Send(k, "kbd", "ack", 1).mouse = k.mouse /\ Send(k, "kbd", "id", 3).mouse = k.mouse
      /\ Send(k, "kbd", "por", 2).mouse = k.mouse
  BY <1>3
<1>7. QED
  BY <1>4, <1>5, <1>6 DEF ps2_write_keyboard

LEMMA WriteKeyboardGrows ==
    ASSUME NEW k, KOK(k), NEW val PROVE Grows(k, ps2_write_keyboard(k, val), 5)
<1> DEFINE j == ps2_write_keyboard(k, val)
<1>1. KOK(j) /\ j.mouse = k.mouse
  BY WriteKeyboardKeeps, WriteKeyboardIs
<1> HIDE DEF j
<1>2. Grows(k, j, 5)
  BY <1>1, Untouched
<1>3. QED
  BY <1>2 DEF j

LEMMA WriteDataGrows ==
    ASSUME NEW k, Spacious(k), NEW val, k.write_cmd = "write_mode" => val \in SUBSET Modes
    PROVE  Grows(k, kbd_write_data(k, val), 5)
<1> DEFINE j == CASE k.write_cmd = "none" -> ps2_write_keyboard(k, val)
                  [] k.write_cmd = "write_mode" -> kbd_update_irq([k EXCEPT !.mode = val])
                  [] k.write_cmd = "write_obuf" -> Send(k, "kbd", "obuf", 1)
                  [] k.write_cmd = "write_aux_obuf" -> Send(k, "mouse", "obuf", 1)
                  [] k.write_cmd = "write_mouse" -> ps2_write_mouse(k, val)
                  [] OTHER -> k
           h == [j EXCEPT !.write_cmd = "none"]
<1>1. KOK(k)
  BY DEF Spacious
<1>2. /\ KOK(Send(k, "kbd", "obuf", 1)) /\ Grows(k, Send(k, "kbd", "obuf", 1), 5)
      /\ KOK(Send(k, "mouse", "obuf", 1)) /\ Grows(k, Send(k, "mouse", "obuf", 1), 5)
  <2>1. 1 \in 1 .. 4 /\ "mouse" \in Devs /\ "kbd" \in Devs /\ "obuf" \in Messages
    BY DEF Devs, Messages
  <2>2. QED
    BY <2>1, SpaciousSend
<1>3. KOK(j) /\ Grows(k, j, 5)
  BY <1>1, <1>2, WriteKeyboardKeeps, WriteMouseKeeps, ModeKeeps, WriteKeyboardGrows,
     WriteMouseGrows, ModeGrows, Untouched
<1>4. kbd_write_data(k, val) = h
  BY DEF kbd_write_data
<1> HIDE DEF j
<1>5. KOK(h) /\ h.mouse = j.mouse /\ h.pending = j.pending
  <2>1. j \in KType
    BY <1>3, QueueIsSeq
  <2>2. h.mouse = j.mouse /\ h.pending = j.pending
    BY <2>1 DEF KType
  <2>3. KOK(h)
    BY <1>3, CommandKeeps
  <2>4. QED
    BY <2>2, <2>3
<1> HIDE DEF h
<1>6. Grows(k, h, 5)
  BY <1>1, <1>3, <1>5, GrowsSo
<1>7. QED
  BY <1>4, <1>6

\* The driver gets the first byte, of the device the controller gives.
LEMMA ReadIs ==
    ASSUME NEW k, KOK(k), k.pending # {}
    PROVE  LET j == kbd_read_data(k)
               d == ReadFrom(k)
           IN  /\ d \in Devs /\ k[d].queue # << >>
               /\ d = "kbd" => j.mouse.queue = k.mouse.queue
               /\ d = "mouse" => j.mouse.queue = Tail(k.mouse.queue)
<1> DEFINE d == ReadFrom(k)
           q == [k EXCEPT ![d].queue = Tail(@)]
           h == SetPending(q, d, FALSE)
           j == SetPending(h, d, h[d].queue # << >>)
<1>1. k \in KType /\ k.pending \subseteq Devs
  BY DEF KOK, CallsOK, KType
<1>2. d \in Devs /\ d \in k.pending
  BY <1>1 DEF ReadFrom, Devs
<1>3. k[d].queue # << >> /\ k[d].queue \in Seq(Bytes)
  BY <1>1, <1>2 DEF KOK, KType, Devs, Kbd, Mouse
<1>4. kbd_read_data(k) = j
  BY <1>3 DEF kbd_read_data, ps2_read_data, With
<1>5. /\ q \in KType /\ q.calls = k.calls /\ q.pending = k.pending /\ q.mode = k.mode
      /\ q[d].queue = Tail(k[d].queue)
      /\ \A e \in Devs \ {d} : q[e] = k[e]
  <2>1. Tail(k[d].queue) \in Seq(Bytes)
    BY <1>3, HeadTailProperties
  <2> HIDE DEF d
  <2>2. QED
    BY <1>1, <1>2, <2>1, ZenonT(60) DEF KType, Devs, Kbd, Mouse
<1> HIDE DEF q, d
<1>6. CallsOK(q)
  BY <1>5 DEF KOK, CallsOK, PicsOf
<1>7. \A e \in q.pending \ {d} : q[e].queue # << >>
  BY <1>1, <1>5 DEF KOK
<1>8. KOK(h) /\ h.kbd = q.kbd /\ h.mouse = q.mouse /\ h.pending = k.pending \ {d}
  <2>1. FALSE => q[d].queue # << >>
    OBVIOUS
  <2>2. /\ KOK(h) /\ h.kbd = q.kbd /\ h.mouse = q.mouse
        /\ h.pending = (IF FALSE THEN q.pending \cup {d} ELSE q.pending \ {d})
    BY <1>2, <1>6, <1>7, <2>1, PendingKeeps, ZenonT(60)
  <2> HIDE DEF h
  <2>3. QED
    BY <1>5, <2>2
<1> HIDE DEF h
<1>9. j.mouse = h.mouse
  <2> DEFINE more == h[d].queue # << >>
  <2>1. CallsOK(h) /\ \A e \in h.pending \ {d} : h[e].queue # << >>
    BY <1>8 DEF KOK
  <2>2. more \in BOOLEAN /\ (more => h[d].queue # << >>)
    OBVIOUS
  <2>3. j = SetPending(h, d, more)
    OBVIOUS
  <2> HIDE DEF more, j
  <2>4. CASE more
    <3>1. LET i == SetPending(h, d, TRUE)
          IN  i.mouse = h.mouse
      BY <1>2, <2>1, <2>2, <2>4, PendingKeeps, Zenon
    <3>2. SetPending(h, d, more) = SetPending(h, d, TRUE)
      BY <2>4 DEF SetPending, With
    <3>3. QED
      BY <2>3, <2>4, <3>1, <3>2 DEF more
  <2>5. CASE ~more
    <3>0. FALSE => h[d].queue # << >>
      OBVIOUS
    <3>1. LET i == SetPending(h, d, FALSE)
          IN  i.mouse = h.mouse
      BY <1>2, <2>1, <3>0, PendingKeeps, Zenon
    <3>2. SetPending(h, d, more) = SetPending(h, d, FALSE)
      BY <2>5 DEF SetPending, With
    <3>3. QED
      BY <2>3, <2>5, <3>1, <3>2 DEF more
  <2>6. QED
    BY <2>4, <2>5
<1> HIDE DEF j
<1>10. /\ j.mouse.queue = q["mouse"].queue /\ h["mouse"] = q["mouse"]
  BY <1>8, <1>9
<1>11. CASE d = "kbd"
  <2>1. q["mouse"] = k["mouse"] /\ k["mouse"] = k.mouse
    BY <1>5, <1>11 DEF Devs
  <2>2. j.mouse.queue = k.mouse.queue
    BY <1>10, <2>1
  <2>3. QED
    BY <1>2, <1>3, <1>4, <1>11, <2>2 DEF d
<1>12. CASE d = "mouse"
  <2>1. q["mouse"].queue = Tail(k.mouse.queue)
    BY <1>5, <1>12
  <2>2. j.mouse.queue = Tail(k.mouse.queue)
    BY <1>10, <2>1
  <2>3. QED
    BY <1>2, <1>3, <1>4, <1>12, <2>2 DEF d
<1>13. QED
  BY <1>2, <1>11, <1>12 DEF Devs
-----------------------------------------------------------------------------
(* The words of the VMware mouse *)

\* The first message in a queue is there whole.
LEMMA WholeFirst ==
    ASSUME NEW last \in Words, last[2] = last[3], NEW q \in Seq(Words), q # << >>, Stream(last, q),
           q[1][3] \in Nat \ {0}
    PROVE  q[1][3] <= Len(q) /\ q[q[1][3]][2] = q[q[1][3]][3]
<1> DEFINE n == q[1][3]
           a == q[1][1]
           l == Len(q)
           T == {i \in Nat : i = 0 \/ (i <= l /\ q[i] = <<a, i, n>>)}
<1>1. l \in Nat \ {0} /\ \A i \in 1 .. l : q[i] \in Words
  OBVIOUS
<1>2. /\ q[1] = <<a, 1, n>> /\ n \in Nat \ {0}
  <2>1. q[1][2] = 1
    <3>1. Follows(last, q[1]) /\ last[3] \in Nat
      BY DEF Stream, Words
    <3>2. QED
      BY <3>1 DEF Follows
  <2>2. q[1] \in Words
    BY <1>1
  <2>3. QED
    BY <2>1, <2>2 DEF Words
<1>3. q[l][2] = q[l][3] /\ \A i \in 1 .. l - 1 : Follows(q[i], q[i + 1])
  BY DEF Stream
<1> HIDE DEF n, a, l
<1>4. 0 \in T
  OBVIOUS
<1>5. ASSUME NEW i \in 1 .. n, i - 1 \in T PROVE i \in T
  <2>1. CASE i = 1
    BY <1>1, <1>2, <2>1
  <2>2. CASE i # 1
    <3> DEFINE o == i - 1
    <3>1. o \in 1 .. n /\ o < n /\ o <= l /\ q[o] = <<a, o, n>> /\ o + 1 = i
      BY <1>2, <1>5, <2>2
    <3> HIDE DEF o
    <3>2. q[o][1] = a /\ q[o][2] = o /\ q[o][3] = n
      BY <3>1
    <3>3. o # l
      BY <1>2, <1>3, <3>1, <3>2
    <3>4. Follows(q[o], q[o + 1]) /\ i <= l
      <4>1. o \in 1 .. l - 1 /\ i <= l
        BY <1>1, <3>1, <3>3
      <4>2. QED
        BY <1>3, <4>1
    <3>5. q[i] = <<a, i, n>>
      BY <1>2, <3>1, <3>2, <3>4 DEF Follows
    <3>6. QED
      BY <3>4, <3>5
  <2>3. QED
    BY <2>1, <2>2
<1>6. n \in T
  <2> HIDE DEF T
  <2>1. n \in Nat
    BY <1>2
  <2>2. 0 .. n \subseteq T
    BY <1>4, <1>5, <2>1, Speaking!LoopInduction
  <2>3. QED
    BY <2>1, <2>2
<1>7. n <= l /\ q[n] = <<a, n, n>>
  BY <1>2, <1>6
<1>8. q[n][2] = n /\ q[n][3] = n
  BY <1>7
<1>9. QED
  BY <1>7, <1>8 DEF n, l

\* What is left when the first n words have been read.
LEMMA StreamRest ==
    ASSUME NEW last, NEW q \in Seq(Words), Stream(last, q), NEW n \in 1 .. Len(q)
    PROVE  /\ SubSeq(q, n + 1, Len(q)) \in Seq(Words)
           /\ Len(SubSeq(q, n + 1, Len(q))) = Len(q) - n
           /\ \A i \in 1 .. Len(q) - n : SubSeq(q, n + 1, Len(q))[i] = q[n + i]
           /\ q[n][2] = q[n][3] => Stream(q[n], SubSeq(q, n + 1, Len(q)))
<1> DEFINE l == Len(q)
           r == SubSeq(q, n + 1, l)
<1>1. l \in Nat \ {0} /\ n \in 1 .. l
  OBVIOUS
<1>2. /\ r \in Seq(Words) /\ Len(r) = l - n /\ \A i \in 1 .. l - n : r[i] = q[n + i]
  <2>1. r = [i \in 1 .. (l - (n + 1)) + 1 |-> q[(i + (n + 1)) - 1]]
    BY <1>1
  <2>2. (l - (n + 1)) + 1 = l - n /\ \A i \in Int : (i + (n + 1)) - 1 = n + i
    BY <1>1
  <2>3. r = [i \in 1 .. l - n |-> q[n + i]]
    BY <2>1, <2>2
  <2>4. \A i \in 1 .. l - n : q[n + i] \in Words
    BY <1>1
  <2> HIDE DEF r, l
  <2>5. QED
    BY <1>1, <2>3, <2>4
<1>3. q[l][2] = q[l][3] /\ \A i \in 1 .. l - 1 : Follows(q[i], q[i + 1])
  BY DEF Stream
<1> HIDE DEF r, l
<1>4. ASSUME q[n][2] = q[n][3] PROVE Stream(q[n], r)
  <2>1. CASE n = l
    <3>1. r = << >>
      BY <1>1, <1>2, <2>1
    <3>2. QED
      BY <1>4, <3>1 DEF Stream
  <2>2. CASE n # l
    <3>1. n \in 1 .. l - 1 /\ 1 \in 1 .. l - n /\ l - n \in 1 .. l - n /\ n + (l - n) = l
      BY <1>1, <2>2
    <3>2. r[1] = q[n + 1] /\ r[Len(r)] = q[l] /\ r # << >>
      <4>1. r[l - n] = q[n + (l - n)]
        BY <1>2, <3>1
      <4>2. QED
        BY <1>2, <3>1, <4>1
    <3>3. Follows(q[n], r[1])
      BY <1>3, <3>1, <3>2
    <3>4. ASSUME NEW i \in 1 .. Len(r) - 1 PROVE Follows(r[i], r[i + 1])
      <4>1. i \in 1 .. l - n /\ i + 1 \in 1 .. l - n /\ n + i \in 1 .. l - 1 /\ n + (i + 1) = (n + i) + 1
        BY <1>1, <1>2
      <4>2. r[i] = q[n + i] /\ r[i + 1] = q[(n + i) + 1]
        BY <1>2, <4>1
      <4>3. QED
        BY <1>3, <4>1, <4>2
    <3>5. QED
      BY <1>3, <3>2, <3>3, <3>4 DEF Stream
  <2>3. QED
    BY <2>1, <2>2
<1>5. QED
  BY <1>2, <1>4 DEF r, l

\* Words that there is room for.
LEMMA PutIs ==
    ASSUME NEW v \in [fifo : Seq(Words), enabled : BOOLEAN, absolute : BOOLEAN],
           NEW message \in {"move", "id"}, NEW n \in Nat \ {0}, Len(v.fifo) + n <= FIFO_SIZE
    PROVE  vmmouse_put(v, message, n) = [v EXCEPT !.fifo = @ \o Message(message, n)]
<1> DEFINE q == v.fifo
           r == Message(message, n)
           s == q \o r
<1>1. q \in Seq(Words) /\ Len(q) \in Nat
  OBVIOUS
<1>2. r \in Seq(Words) /\ Len(r) = n
  BY DEF Message, Words
<1>3. s \in Seq(Words) /\ Len(s) = Len(q) + n
  <2> HIDE DEF q, r
  <2>1. q \o r \in Seq(Words) /\ Len(q \o r) = Len(q) + Len(r)
    BY <1>1, <1>2, ConcatenationIs
  <2>2. QED
    BY <1>2, <2>1
<1>4. SubSeq(s, 1, Len(s)) = s
  <2> HIDE DEF s
  <2>1. QED
    BY <1>3
<1>5. ~(Len(q) + n > FIFO_SIZE)
  BY <1>1, Ps2Assumption
<1>6. vmmouse_put(v, message, n) = [v EXCEPT !.fifo = SubSeq(s, 1, Len(q) + n)]
  BY <1>5 DEF vmmouse_put, Message
<1> HIDE DEF s
<1>7. vmmouse_put(v, message, n) = [v EXCEPT !.fifo = s]
  BY <1>3, <1>4, <1>6
<1>8. QED
  BY <1>7 DEF s
-----------------------------------------------------------------------------
(* The drivers' step *)

MouseStream ==
    ps2_drv.fits /\ ~ps2_drv.crossed => Stream(ps2_drv.last["mouse"], kbc.mouse.queue)

FifoStream ==
    /\ vmmouse \in [fifo : Seq(Words), enabled : BOOLEAN, absolute : BOOLEAN]
    /\ \A i \in 1 .. Len(vmmouse.fifo) : vmmouse.fifo[i][3] # 0
    /\ ps2_drv.last["fifo"][2] = ps2_drv.last["fifo"][3]
    /\ Stream(ps2_drv.last["fifo"], vmmouse.fifo)

Ps2DrvType ==
    [last : [{"kbd", "mouse", "fifo"} -> Words], seen : {"none", "kbd", "mouse"},
     fits : BOOLEAN, crossed : BOOLEAN, events : Nat, commands : Nat]

\* Between the status and the byte the device that it shows keeps its byte, and
\* only a key takes the place of one of the mouse.
SeenInv ==
    /\ cpu.at = "byte" <=> ps2_drv.seen # "none"
    /\ ps2_drv.seen = "kbd" => "kbd" \in kbc.pending
    /\ ps2_drv.seen = "mouse" => "mouse" \in kbc.pending
    /\ ps2_drv.seen = "mouse" /\ ~ps2_drv.crossed => kbc.pending = {"mouse"}

StreamInv == ps2_drv \in Ps2DrvType /\ SeenInv /\ MouseStream /\ FifoStream

LEMMA StreamStarts ==
    ASSUME Init PROVE StreamInv
<1>1. PICK type : Ps2Init(type)
  BY DEF Init
<1>2. kbc.mouse.queue = << >> /\ vmmouse = [fifo |-> << >>, enabled |-> FALSE, absolute |-> FALSE]
  BY <1>1 DEF Ps2Init, MouseOf
<1> DEFINE none == <<"none", 1, 1>>
           devs == {"kbd", "mouse", "fifo"}
           seq == << >>
           seen == "none"
           no == FALSE
           yes == TRUE
           zero == 0
           last == [d \in devs |-> none]
<1>3. none \in Words /\ none[2] = none[3] /\ seq \in Seq(Words)
  BY DEF Words
<1>4. ps2_drv = [last |-> last, seen |-> seen, fits |-> yes, crossed |-> no, events |-> zero,
                 commands |-> zero]
  BY <1>1 DEF Ps2Init
<1>5. /\ last \in [devs -> Words] /\ last["mouse"] = none /\ last["fifo"] = none
      /\ seen \in {"none", "kbd", "mouse"} /\ no \in BOOLEAN /\ yes \in BOOLEAN /\ zero \in Nat
  <2> HIDE DEF none
  <2>1. QED
    BY <1>3
<1> HIDE DEF none, last, seen, no, yes, zero
<1>6. ps2_drv \in Ps2DrvType /\ ps2_drv.last = last /\ ps2_drv.seen = seen
  BY <1>4, <1>5 DEF Ps2DrvType
<1>7. MouseStream
  BY <1>2, <1>3, <1>5, <1>6 DEF MouseStream, Stream
<1>8. FifoStream
  <2>1. vmmouse.fifo = << >> /\ vmmouse \in [fifo : Seq(Words), enabled : BOOLEAN, absolute : BOOLEAN]
    BY <1>2, <1>3
  <2>2. QED
    BY <1>3, <1>5, <1>6, <2>1 DEF FifoStream, Stream
<1>9. SeenInv
  BY <1>6 DEF SeenInv, seen, Init
<1>10. QED
  BY <1>6, <1>7, <1>8, <1>9 DEF StreamInv

\* One more step of the driver or the host, that reads no byte: the queue grows
\* by whole messages.
LEMMA StreamMoves ==
    ASSUME StreamInv, KOK(kbc), NEW j, KOK(j), Ps2Step(j), UNCHANGED cpu,
           ps2_drv' \in Ps2DrvType, UNCHANGED <<ps2_drv.last, ps2_drv.seen>>,
           ps2_drv.crossed => ps2_drv'.crossed,
           ps2_drv'.fits /\ ~ps2_drv'.crossed => ps2_drv.fits /\ \E n : Grows(kbc, j, n),
           ps2_drv.seen # "none" => kbc.pending \subseteq j.pending,
           ps2_drv.seen = "mouse" /\ ~ps2_drv'.crossed => j.pending \subseteq kbc.pending \cup {"mouse"},
           FifoStream'
    PROVE  StreamInv'
<1>1. kbc'.mouse = j.mouse /\ kbc'.pending = j.pending
  <2>1. j \in KType
    BY QueueIsSeq
  <2>2. QED
    BY <2>1 DEF Ps2Step, KType
<1>2. ps2_drv'.last = ps2_drv.last /\ ps2_drv'.seen = ps2_drv.seen /\ cpu'.at = cpu.at
  OBVIOUS
<1>3. ps2_drv.last["mouse"] \in Words
  BY DEF StreamInv, Ps2DrvType
<1>4. MouseStream'
  <2>1. SUFFICES ASSUME ps2_drv'.fits, ~ps2_drv'.crossed
                 PROVE  Stream(ps2_drv.last["mouse"], j.mouse.queue)
    BY <1>1, <1>2 DEF MouseStream
  <2>2. Stream(ps2_drv.last["mouse"], kbc.mouse.queue)
    BY <2>1 DEF StreamInv, MouseStream
  <2>3. QED
    BY <1>3, <2>1, <2>2, Zenon DEF Grows
<1>5. SeenInv'
  <2>1. (cpu.at = "byte" <=> ps2_drv.seen # "none")'
    BY <1>2 DEF StreamInv, SeenInv
  <2>2. (ps2_drv.seen = "kbd" => "kbd" \in kbc.pending)'
    BY <1>1, <1>2 DEF StreamInv, SeenInv
  <2>3. (ps2_drv.seen = "mouse" => "mouse" \in kbc.pending)'
    BY <1>1, <1>2 DEF StreamInv, SeenInv
  <2>4. (ps2_drv.seen = "mouse" /\ ~ps2_drv.crossed => kbc.pending = {"mouse"})'
    BY <1>1, <1>2, <2>3 DEF StreamInv, SeenInv
  <2>5. QED
    BY <2>1, <2>2, <2>3, <2>4 DEF SeenInv
<1>6. QED
  BY <1>4, <1>5 DEF StreamInv

LEMMA KeyEventStreams ==
    ASSUME StreamInv, KOK(kbc), KeyEvent, UNCHANGED cpu PROVE StreamInv'
<1>1. PICK is_extended \in BOOLEAN : Ps2Step(ps2_put_keycode(kbc, is_extended))
  BY DEF KeyEvent
<1> DEFINE n == IF is_extended THEN 2 ELSE 1
           j == Send(kbc, "kbd", "key", n)
           crossed == ps2_drv.crossed \/ ps2_drv.seen = "mouse"
           events == ps2_drv.events + 1
<1>2. Ps2Step(j)
  BY <1>1 DEF ps2_put_keycode
<1>3. KOK(j) /\ Grows(kbc, j, n) /\ Holds(kbc, j, "kbd")
  <2>1. "kbd" \in Devs /\ "key" \in Messages /\ n \in Nat \ {0} /\ n \in Nat /\ "kbd" # "mouse"
    BY DEF Devs, Messages
  <2> HIDE DEF n
  <2>2. QED
    BY <2>1, SendGrows, SendHolds
<1> HIDE DEF j, n
<1>4. /\ ps2_drv' \in Ps2DrvType /\ ps2_drv'.last = ps2_drv.last /\ ps2_drv'.seen = ps2_drv.seen
      /\ ps2_drv'.fits = ps2_drv.fits /\ ps2_drv'.crossed = crossed
  <2>1. /\ crossed \in BOOLEAN /\ events \in Nat /\ ps2_drv.fits \in BOOLEAN /\ ps2_drv.commands \in Nat
        /\ ps2_drv \in Ps2DrvType
    BY DEF StreamInv, Ps2DrvType
  <2>2. ps2_drv' = [ps2_drv EXCEPT !.events = events, !.crossed = crossed]
    BY DEF KeyEvent
  <2> HIDE DEF crossed, events
  <2>3. QED
    BY <2>1, <2>2 DEF Ps2DrvType
<1>5. FifoStream'
  BY <1>4 DEF KeyEvent, StreamInv, FifoStream
<1>6. ps2_drv'.fits /\ ~ps2_drv'.crossed => ps2_drv.fits /\ \E m : Grows(kbc, j, m)
  BY <1>3, <1>4
<1>7. QED
  BY <1>2, <1>3, <1>4, <1>5, <1>6, StreamMoves DEF Holds

\* The words of an event, or of the answer to a command.
LEMMA FifoPut ==
    ASSUME StreamInv, NEW message \in {"move", "id"}, NEW n \in Nat \ {0},
           Len(vmmouse.fifo) + n <= FIFO_SIZE,
           NEW enabled \in BOOLEAN,
           vmmouse' = [vmmouse_put(vmmouse, message, n) EXCEPT !.enabled = enabled],
           ps2_drv'.last = ps2_drv.last
    PROVE  FifoStream'
<1> DEFINE q == vmmouse.fifo
           s == q \o Message(message, n)
           last == ps2_drv.last["fifo"]
<1>1. /\ vmmouse \in [fifo : Seq(Words), enabled : BOOLEAN, absolute : BOOLEAN]
      /\ q \in Seq(Words) /\ last \in Words /\ Stream(last, q) /\ last[2] = last[3]
      /\ \A i \in 1 .. Len(q) : q[i][3] # 0
  BY DEF StreamInv, FifoStream, Ps2DrvType
<1>2. vmmouse_put(vmmouse, message, n) = [vmmouse EXCEPT !.fifo = s]
  BY <1>1, PutIs
<1>3. Message(message, n) \in Seq(Words) /\ Stream(last, s)
  BY <1>1, StreamGrows
<1>4. s \in Seq(Words) /\ \A i \in 1 .. Len(s) : s[i][3] # 0
  <2> DEFINE r == Message(message, n)
  <2>1. Len(r) = n /\ \A i \in 1 .. n : r[i][3] = n
    BY DEF Message
  <2>2. r \in Seq(Words)
    BY <1>3
  <2> HIDE DEF r, q
  <2>3. /\ q \o r \in Seq(Words) /\ Len(q) \in Nat /\ Len(q \o r) = Len(q) + Len(r)
        /\ \A i \in 1 .. Len(q) + Len(r) :
             (q \o r)[i] = IF i <= Len(q) THEN q[i] ELSE r[i - Len(q)]
    BY <1>1, <2>2, ConcatenationIs
  <2>4. ASSUME NEW i \in 1 .. Len(q \o r) PROVE (q \o r)[i][3] # 0
    <3>1. CASE i <= Len(q)
      BY <1>1, <2>1, <2>3, <3>1
    <3>2. CASE ~(i <= Len(q))
      <4>1. i - Len(q) \in 1 .. n
        BY <2>1, <2>3, <3>2
      <4>2. QED
        BY <2>1, <2>3, <3>2, <4>1
    <3>3. QED
      BY <3>1, <3>2
  <2>5. QED
    BY <2>3, <2>4 DEF r
<1> HIDE DEF s
<1>5. vmmouse' \in [fifo : Seq(Words), enabled : BOOLEAN, absolute : BOOLEAN] /\ vmmouse'.fifo = s
  BY <1>1, <1>2, <1>4
<1>6. QED
  BY <1>1, <1>3, <1>4, <1>5 DEF FifoStream

LEMMA MouseEventStreams ==
    ASSUME StreamInv, KOK(kbc), MouseEvent, UNCHANGED cpu PROVE StreamInv'
<1>1. PICK e \in Movements :
         /\ vmmouse_send_mouse_event(e)
         /\ ps2_drv' = [ps2_drv EXCEPT !.events = @ + 1,
                          !.fits = @ /\ Fits(kbc.mouse, IF vmmouse.enabled THEN Nudge ELSE e)]
  BY DEF MouseEvent
<1> DEFINE f == IF vmmouse.enabled THEN Nudge ELSE e
           j == ps2_mouse_event(kbc, f)
<1>2. f \in [dx : Int, dy : Int, dz : Int, buttons : Int]
  BY Ps2Assumption DEF Nudge
<1>3. /\ ps2_drv' \in Ps2DrvType /\ ps2_drv'.last = ps2_drv.last /\ ps2_drv'.seen = ps2_drv.seen
      /\ ps2_drv'.fits => ps2_drv.fits /\ Fits(kbc.mouse, f)
      /\ ps2_drv'.crossed = ps2_drv.crossed
  <2> DEFINE fits == ps2_drv.fits /\ Fits(kbc.mouse, f)
             events == ps2_drv.events + 1
  <2>1. /\ fits \in BOOLEAN /\ events \in Nat /\ ps2_drv.crossed \in BOOLEAN
        /\ ps2_drv.commands \in Nat /\ ps2_drv \in Ps2DrvType
    BY DEF StreamInv, Ps2DrvType
  <2>2. ps2_drv' = [ps2_drv EXCEPT !.events = events, !.fits = fits]
    BY <1>1
  <2> HIDE DEF fits, events, f
  <2>3. /\ ps2_drv' \in Ps2DrvType /\ ps2_drv'.last = ps2_drv.last /\ ps2_drv'.seen = ps2_drv.seen
        /\ ps2_drv'.fits = fits /\ ps2_drv'.crossed = ps2_drv.crossed
    BY <2>1, <2>2 DEF Ps2DrvType
  <2>4. QED
    BY <2>3 DEF fits
<1>4. CASE vmmouse.enabled /\ Len(vmmouse.fifo) + 4 > FIFO_SIZE
  <2>1. UNCHANGED <<kbc, vmmouse>>
    BY <1>1, <1>4 DEF vmmouse_send_mouse_event
  <2>2. QED
    BY <1>3, <2>1 DEF StreamInv, SeenInv, MouseStream, FifoStream
<1>5. CASE ~(vmmouse.enabled /\ Len(vmmouse.fifo) + 4 > FIFO_SIZE)
  <2>1. Ps2Step(j)
    BY <1>1, <1>5 DEF vmmouse_send_mouse_event
  <2>2. FifoStream'
    <3>1. CASE ~vmmouse.enabled
      <4>1. UNCHANGED vmmouse
        BY <1>1, <3>1 DEF vmmouse_send_mouse_event
      <4>2. QED
        BY <1>3, <4>1 DEF StreamInv, FifoStream
    <3>2. CASE vmmouse.enabled
      <4>1. Len(vmmouse.fifo) + 4 <= FIFO_SIZE /\ 4 \in Nat \ {0}
        BY <1>5, <3>2, Ps2Assumption DEF StreamInv, FifoStream
      <4>2. vmmouse' = [vmmouse_put(vmmouse, "move", 4) EXCEPT !.enabled = TRUE]
        <5> DEFINE s == vmmouse.fifo \o Message("move", 4)
        <5>1. vmmouse' = vmmouse_put(vmmouse, "move", 4)
          BY <1>1, <1>5, <3>2 DEF vmmouse_send_mouse_event
        <5>2. /\ vmmouse \in [fifo : Seq(Words), enabled : BOOLEAN, absolute : BOOLEAN]
              /\ "move" \in {"move", "id"}
          BY DEF StreamInv, FifoStream
        <5>3. vmmouse_put(vmmouse, "move", 4) = [vmmouse EXCEPT !.fifo = s]
          BY <4>1, <5>2, PutIs
        <5> HIDE DEF s
        <5>4. [vmmouse EXCEPT !.fifo = s] = [[vmmouse EXCEPT !.fifo = s] EXCEPT !.enabled = TRUE]
          BY <3>2, <5>2
        <5>5. QED
          BY <5>1, <5>3, <5>4
      <4>3. QED
        BY <1>3, <4>1, <4>2, FifoPut
    <3>3. QED
      BY <3>1, <3>2
  <2>3. KOK(j) /\ Holds(kbc, j, "mouse") /\ (Fits(kbc.mouse, f) => Grows(kbc, j, EventRoom))
    BY <1>2, EventKeeps, EventHolds, EventGrows
  <2> HIDE DEF j, f
  <2>4. ps2_drv'.fits /\ ~ps2_drv'.crossed => ps2_drv.fits /\ \E n : Grows(kbc, j, n)
    BY <1>3, <2>3
  <2>5. QED
    BY <1>3, <2>1, <2>2, <2>3, <2>4, StreamMoves DEF Holds
<1>6. QED
  BY <1>4, <1>5

\* A command or its byte comes outside of the handler; its answer fits, or the
\* mouse has none.
LEMMA CommandStreams ==
    ASSUME StreamInv, KOK(kbc), cpu.at = "run", UNCHANGED <<cpu, vmmouse>>,
           NEW j, KOK(j), Ps2Step(j), Spacious(kbc) => Grows(kbc, j, 5),
           NEW fits \in BOOLEAN, NEW commands \in Nat,
           ps2_drv' = [ps2_drv EXCEPT !.fits = fits, !.commands = commands],
           fits => ps2_drv.fits /\ (j.mouse.queue = kbc.mouse.queue \/ Spacious(kbc))
    PROVE  StreamInv'
<1>1. /\ ps2_drv' \in Ps2DrvType /\ ps2_drv'.last = ps2_drv.last /\ ps2_drv'.seen = ps2_drv.seen
      /\ ps2_drv'.fits = fits /\ ps2_drv'.crossed = ps2_drv.crossed
  BY DEF StreamInv, Ps2DrvType
<1>2. ps2_drv'.fits => ps2_drv.fits /\ \E n : Grows(kbc, j, n)
  BY <1>1, Untouched
<1>3. ps2_drv.seen = "none"
  BY DEF StreamInv, SeenInv
<1>4. FifoStream'
  BY <1>1 DEF StreamInv, FifoStream
<1>5. QED
  BY <1>1, <1>2, <1>3, <1>4, StreamMoves

LEMMA VmCommandStreams ==
    ASSUME StreamInv, VmCommand, UNCHANGED cpu PROVE StreamInv'
<1>1. PICK cmd \in {"read_id", "disable", "absolute"} : vmmouse' = vmmouse_command(cmd)
  BY DEF VmCommand
<1>2. /\ ps2_drv' \in Ps2DrvType /\ ps2_drv'.last = ps2_drv.last /\ ps2_drv'.seen = ps2_drv.seen
      /\ ps2_drv'.fits = ps2_drv.fits /\ ps2_drv'.crossed = ps2_drv.crossed /\ UNCHANGED kbc
  BY DEF VmCommand, CountCommand, StreamInv, Ps2DrvType
<1>3. MouseStream' /\ SeenInv'
  BY <1>2 DEF StreamInv, SeenInv, MouseStream
<1>4. FifoStream'
  <2>1. CASE vmmouse' = vmmouse
    BY <1>2, <2>1 DEF StreamInv, FifoStream
  <2>2. CASE cmd = "read_id" /\ Len(vmmouse.fifo) < FIFO_SIZE
    <3>1. vmmouse' = [vmmouse_put(vmmouse, "id", 1) EXCEPT !.enabled = TRUE]
      BY <1>1, <2>2 DEF vmmouse_command
    <3>2. Len(vmmouse.fifo) + 1 <= FIFO_SIZE /\ 1 \in Nat \ {0}
      BY <2>2, Ps2Assumption DEF StreamInv, FifoStream
    <3>3. QED
      BY <1>2, <3>1, <3>2, FifoPut
  <2>3. CASE vmmouse' \in {[vmmouse EXCEPT !.enabled = FALSE], [vmmouse EXCEPT !.absolute = TRUE]}
    <3>1. /\ vmmouse' \in [fifo : Seq(Words), enabled : BOOLEAN, absolute : BOOLEAN]
          /\ vmmouse'.fifo = vmmouse.fifo
      BY <2>3 DEF StreamInv, FifoStream
    <3>2. QED
      BY <1>2, <3>1 DEF StreamInv, FifoStream
  <2>4. QED
    BY <1>1, <2>1, <2>2, <2>3 DEF vmmouse_command
<1>5. QED
  BY <1>2, <1>3, <1>4 DEF StreamInv

LEMMA StatusStreams ==
    ASSUME StreamInv, KOK(kbc), cpu.at = "serve", CpuInv, ServePs2
    PROVE  StreamInv'
<1> DEFINE seen == CASE "obf" \notin kbc.status -> "none"
                     [] "mouse_obf" \in kbc.status -> "mouse"
                     [] OTHER -> "kbd"
<1>1. /\ ps2_drv' = [ps2_drv EXCEPT !.seen = seen] /\ UNCHANGED <<kbc, vmmouse>>
      /\ cpu' = [cpu EXCEPT !.at = IF "obf" \in kbc.status THEN "byte" ELSE "end"]
  BY DEF ServePs2, ReadStatus, Go
<1>2. kbc.pending \subseteq Devs
  BY DEF KOK, CallsOK, KType
<1>3. /\ seen \in {"none", "kbd", "mouse"}
      /\ seen = "none" <=> "obf" \notin kbc.status
      /\ seen = "kbd" => "kbd" \in kbc.pending
      /\ seen = "mouse" => kbc.pending = {"mouse"}
  <2>1. CASE kbc.pending = {}
    BY <2>1 DEF KOK
  <2>2. CASE kbc.pending = {"mouse"}
    BY <2>2 DEF KOK
  <2>3. CASE kbc.pending # {} /\ kbc.pending # {"mouse"}
    <3>1. "kbd" \in kbc.pending
      BY <1>2, <2>3 DEF Devs
    <3>2. QED
      BY <2>3, <3>1 DEF KOK
  <2>4. QED
    BY <2>1, <2>2, <2>3
<1> HIDE DEF seen
<1>4. cpu'.at = "byte" <=> seen # "none"
  BY <1>1, <1>3 DEF CpuInv
<1>5. /\ ps2_drv' \in Ps2DrvType /\ ps2_drv'.last = ps2_drv.last /\ ps2_drv'.seen = seen
      /\ ps2_drv'.fits = ps2_drv.fits /\ ps2_drv'.crossed = ps2_drv.crossed
  BY <1>1, <1>3 DEF StreamInv, Ps2DrvType
<1>6. QED
  BY <1>1, <1>3, <1>4, <1>5 DEF StreamInv, SeenInv, MouseStream, FifoStream

LEMMA ReadByteStreams ==
    ASSUME StreamInv, KOK(kbc), CpuInv, ServeByte PROVE StreamInv'
<1> DEFINE d == ReadFrom(kbc)
           e == ps2_drv.seen
           j == kbd_read_data(kbc)
           byte == Head(kbc[d].queue)
<1>0. /\ cpu'.at = "end" /\ e \in {"kbd", "mouse"}
      /\ e = "kbd" => "kbd" \in kbc.pending
      /\ e = "mouse" => "mouse" \in kbc.pending
      /\ e = "mouse" /\ ~ps2_drv.crossed => d = "mouse"
  BY DEF ServeByte, Go, StreamInv, SeenInv, Ps2DrvType, ReadFrom, CpuInv
<1>1. kbc.pending # {} /\ Ps2Step(j) /\ vmmouse' = vmmouse
  BY <1>0 DEF ServeByte, ReadByte
<1>2. /\ d \in Devs /\ kbc[d].queue # << >>
      /\ d = "kbd" => j.mouse.queue = kbc.mouse.queue
      /\ d = "mouse" => j.mouse.queue = Tail(kbc.mouse.queue)
  BY <1>1, ReadIs
<1>3. KOK(j)
  BY <1>1, ReadKeeps
<1>4. kbc'.mouse = j.mouse
  <2> HIDE DEF j
  <2>1. j \in KType
    BY <1>3, QueueIsSeq
  <2>2. QED
    BY <1>1, <2>1 DEF Ps2Step, KType
<1>5. byte \in Words
  <2> DEFINE q == kbc[d].queue
  <2>1. q \in Seq(Bytes) /\ q # << >>
    BY <1>2 DEF KOK, CallsOK, KType, Kbd, Mouse, Devs
  <2> HIDE DEF q
  <2>2. Head(q) \in Bytes
    BY <2>1
  <2>3. Bytes \subseteq Words
    BY DEF Bytes, Words
  <2>4. QED
    BY <2>2, <2>3 DEF q
<1>6. ps2_drv' = [ps2_drv EXCEPT !.last[e] = byte, !.seen = "none"]
  BY DEF ServeByte, ReadByte
<1>d. e = "kbd" => d = "kbd"
  BY <1>0 DEF ReadFrom
<1> HIDE DEF d, e, j, byte
<1>7. /\ ps2_drv' \in Ps2DrvType /\ ps2_drv'.seen = "none"
      /\ ps2_drv'.fits = ps2_drv.fits /\ ps2_drv'.crossed = ps2_drv.crossed
      /\ ps2_drv'.last["fifo"] = ps2_drv.last["fifo"]
      /\ e = "kbd" => ps2_drv'.last["mouse"] = ps2_drv.last["mouse"]
      /\ e = "mouse" => ps2_drv'.last["mouse"] = byte
  <2> DEFINE last == [ps2_drv.last EXCEPT ![e] = byte]
             seen == "none"
  <2>1. /\ last \in [{"kbd", "mouse", "fifo"} -> Words] /\ last["fifo"] = ps2_drv.last["fifo"]
        /\ e = "kbd" => last["mouse"] = ps2_drv.last["mouse"]
        /\ e = "mouse" => last["mouse"] = byte
        /\ seen \in {"none", "kbd", "mouse"}
    BY <1>0, <1>5 DEF StreamInv, Ps2DrvType
  <2>2. ps2_drv' = [ps2_drv EXCEPT !.last = last, !.seen = seen]
    BY <1>6 DEF StreamInv, Ps2DrvType
  <2> HIDE DEF last, seen
  <2>3. /\ ps2_drv' \in Ps2DrvType /\ ps2_drv'.seen = seen /\ ps2_drv'.last = last
        /\ ps2_drv'.fits = ps2_drv.fits /\ ps2_drv'.crossed = ps2_drv.crossed
    BY <2>1, <2>2 DEF StreamInv, Ps2DrvType
  <2>4. QED
    BY <2>1, <2>3 DEF seen
<1>8. FifoStream'
  BY <1>1, <1>7 DEF StreamInv, FifoStream
<1>9. MouseStream'
  <2>1. SUFFICES ASSUME ps2_drv.fits, ~ps2_drv.crossed
                 PROVE  Stream(ps2_drv'.last["mouse"], kbc'.mouse.queue)
    BY <1>7 DEF MouseStream
  <2>2. Stream(ps2_drv.last["mouse"], kbc.mouse.queue)
    BY <2>1 DEF StreamInv, MouseStream
  <2>3. CASE e = "kbd"
    BY <1>2, <1>4, <1>7, <1>d, <2>2, <2>3
  <2>4. CASE e = "mouse"
    <3> DEFINE q == kbc.mouse.queue
    <3>1. d = "mouse"
      BY <1>0, <2>1, <2>4
    <3>2. q \in Seq(Words) /\ q # << >> /\ byte = Head(q)
      <4>1. kbc["mouse"] = kbc.mouse
        OBVIOUS
      <4>2. QED
        BY <1>2, <3>1, <4>1, QueueIsSeq DEF byte
    <3> HIDE DEF q
    <3>3. Stream(byte, Tail(q))
      BY <2>2, <3>2, StreamTail DEF q
    <3>4. QED
      BY <1>2, <1>4, <1>7, <2>4, <3>1, <3>3 DEF q
  <2>5. QED
    BY <1>0, <2>3, <2>4
<1>10. SeenInv'
  BY <1>0, <1>7 DEF SeenInv
<1>11. QED
  BY <1>7, <1>8, <1>9, <1>10 DEF StreamInv

LEMMA ReadWordsStreams ==
    ASSUME StreamInv, ReadWords, UNCHANGED cpu PROVE StreamInv'
<1> DEFINE q == vmmouse.fifo
           n == Head(q)[3]
           last == ps2_drv.last["fifo"]
           r == SubSeq(q, n + 1, Len(q))
<1>1. /\ vmmouse \in [fifo : Seq(Words), enabled : BOOLEAN, absolute : BOOLEAN]
      /\ q \in Seq(Words) /\ q # << >> /\ last \in Words /\ Stream(last, q) /\ last[2] = last[3]
      /\ \A i \in 1 .. Len(q) : q[i][3] # 0
  BY DEF StreamInv, FifoStream, ReadWords, Ps2DrvType
<1>2. /\ vmmouse' = vmmouse_read(n) /\ ps2_drv' = [ps2_drv EXCEPT !.last["fifo"] = q[n]]
      /\ kbc' = kbc
  BY DEF ReadWords
<1> HIDE DEF q, last
<1>3. n = q[1][3] /\ n \in Nat \ {0} /\ Len(q) \in Nat \ {0}
  <2>1. Len(q) \in Nat \ {0} /\ q[1] \in Words /\ Head(q) = q[1]
    BY <1>1
  <2>2. q[1][3] \in Nat /\ q[1][3] # 0
    BY <1>1, <2>1 DEF Words
  <2>3. QED
    BY <2>1, <2>2
<1> HIDE DEF n
<1>4. n <= Len(q) /\ q[n][2] = q[n][3]
  BY <1>1, <1>3, WholeFirst
<1>5. n \in 1 .. Len(q) /\ q[n] \in Words
  BY <1>1, <1>3, <1>4
<1>6. r \in Seq(Words) /\ Stream(q[n], r)
  BY <1>1, <1>4, <1>5, StreamRest
<1>7. \A i \in 1 .. Len(r) : r[i][3] # 0
  <2>1. \A i \in 1 .. Len(q) - n : r[i] = q[n + i]
    BY <1>1, <1>5, StreamRest
  <2>2. Len(r) = Len(q) - n
    BY <1>1, <1>5, StreamRest
  <2> HIDE DEF r
  <2>3. ASSUME NEW i \in 1 .. Len(r) PROVE r[i][3] # 0
    <3>1. n + i \in 1 .. Len(q) /\ i \in 1 .. Len(q) - n
      BY <1>3, <1>4, <2>2
    <3>2. QED
      BY <1>1, <2>1, <3>1
  <2>4. QED
    BY <2>3
<1>8. vmmouse' = [vmmouse EXCEPT !.fifo = r]
  <2>1. ~(n > Len(vmmouse.fifo))
    BY <1>3, <1>4 DEF q
  <2>2. QED
    BY <1>2, <2>1 DEF vmmouse_read, q
<1> HIDE DEF r
<1>9. /\ ps2_drv' \in Ps2DrvType /\ ps2_drv'.seen = ps2_drv.seen
      /\ ps2_drv'.fits = ps2_drv.fits /\ ps2_drv'.crossed = ps2_drv.crossed
      /\ ps2_drv'.last["mouse"] = ps2_drv.last["mouse"]
      /\ ps2_drv'.last["fifo"] = q[n]
  <2> DEFINE lasts == [ps2_drv.last EXCEPT !["fifo"] = q[n]]
  <2>1. /\ lasts \in [{"kbd", "mouse", "fifo"} -> Words]
        /\ lasts["mouse"] = ps2_drv.last["mouse"] /\ lasts["fifo"] = q[n]
    BY <1>5 DEF StreamInv, Ps2DrvType
  <2>2. ps2_drv' = [ps2_drv EXCEPT !.last = lasts]
    BY <1>2 DEF StreamInv, Ps2DrvType
  <2> HIDE DEF lasts
  <2>3. QED
    BY <2>1, <2>2 DEF StreamInv, Ps2DrvType
<1>10. MouseStream' /\ SeenInv'
  BY <1>2, <1>9 DEF StreamInv, SeenInv, MouseStream
<1>11. FifoStream'
  BY <1>1, <1>4, <1>6, <1>7, <1>8, <1>9 DEF FifoStream
<1>12. QED
  BY <1>9, <1>10, <1>11 DEF StreamInv

\* AnswerFits, of the operators.
LEMMA AnswerIs ==
    ASSUME NEW j, KOK(j), KOK(kbc), Ps2Step(j), AnswerFits
    PROVE  j.mouse.queue = kbc.mouse.queue \/ Spacious(kbc)
<1>1. j \in KType
  BY QueueIsSeq
<1>2. kbc'.mouse = j.mouse
  BY <1>1 DEF Ps2Step, KType
<1>3. QED
  BY <1>2 DEF AnswerFits, LongestAnswer, Spacious, Size

LEMMA GuestStreams ==
    ASSUME StreamInv, KOK(kbc), GuestPs2 PROVE StreamInv'
<1> DEFINE fits == ps2_drv.fits /\ AnswerFits
           next == ps2_drv.commands + 1
<1>1. /\ cpu.at = "run" /\ UNCHANGED cpu /\ ps2_drv \in Ps2DrvType /\ ps2_drv.fits \in BOOLEAN
      /\ ps2_drv.commands \in Nat /\ fits \in BOOLEAN /\ next \in Nat
  BY DEF GuestPs2, ps2_others, others, StreamInv, Ps2DrvType
<1>2. CASE VmCommand
  BY <1>1, <1>2, VmCommandStreams
<1>3. CASE ReadWords
  BY <1>1, <1>3, ReadWordsStreams
<1>4. CASE WriteController
  <2>1. PICK val \in ControllerCommands : Ps2Step(kbd_write_command(kbc, val))
    BY <1>4 DEF WriteController
  <2> DEFINE j == kbd_write_command(kbc, val)
  <2>2. KOK(j) /\ (Spacious(kbc) => Grows(kbc, j, 5)) /\ Ps2Step(j)
    BY <2>1, WriteCommandKeeps, WriteCommandGrows
  <2> HIDE DEF j
  <2>3. ps2_drv' = [ps2_drv EXCEPT !.fits = fits, !.commands = next] /\ UNCHANGED vmmouse
    <3>1. ps2_drv' = [ps2_drv EXCEPT !.commands = next, !.fits = fits] /\ UNCHANGED vmmouse
      BY <1>4 DEF WriteController
    <3> HIDE DEF fits, next
    <3>2. QED
      BY <1>1, <3>1 DEF Ps2DrvType
  <2>4. fits => ps2_drv.fits /\ (j.mouse.queue = kbc.mouse.queue \/ Spacious(kbc))
    BY <2>2, AnswerIs
  <2> HIDE DEF fits, next
  <2>5. QED
    BY <1>1, <2>2, <2>3, <2>4, CommandStreams
<1>5. CASE WriteKeyboard
  <2>1. PICK val : kbc.write_cmd = "none" /\ Ps2Step(kbd_write_data(kbc, val))
    BY <1>5 DEF WriteKeyboard
  <2> DEFINE j == kbd_write_data(kbc, val)
             h == ps2_write_keyboard(kbc, val)
  <2>2. KOK(j) /\ (Spacious(kbc) => Grows(kbc, j, 5)) /\ Ps2Step(j)
    BY <2>1, WriteDataKeeps, WriteDataGrows
  <2>3. j.mouse.queue = kbc.mouse.queue
    <3>1. j = [h EXCEPT !.write_cmd = "none"]
      BY <2>1 DEF kbd_write_data
    <3>2. KOK(h) /\ h.mouse = kbc.mouse
      BY WriteKeyboardKeeps, WriteKeyboardIs
    <3> HIDE DEF h, j
    <3>3. h \in KType
      BY <3>2, QueueIsSeq
    <3>4. QED
      BY <3>1, <3>2, <3>3 DEF KType
  <2> HIDE DEF j
  <2>4. ps2_drv' = [ps2_drv EXCEPT !.fits = ps2_drv.fits, !.commands = next] /\ UNCHANGED vmmouse
    <3>1. ps2_drv' = [ps2_drv EXCEPT !.commands = next] /\ UNCHANGED vmmouse
      BY <1>5 DEF WriteKeyboard, CountCommand
    <3> HIDE DEF next
    <3>2. QED
      BY <1>1, <3>1 DEF Ps2DrvType
  <2> HIDE DEF next
  <2>5. QED
    BY <1>1, <2>2, <2>3, <2>4, CommandStreams
<1>6. CASE WriteArgument
  <2>1. PICK val : /\ Ps2Step(kbd_write_data(kbc, val))
                   /\ kbc.write_cmd = "write_mode" => val \in SUBSET Modes
    BY <1>6 DEF WriteArgument, DriverData, Modes
  <2> DEFINE j == kbd_write_data(kbc, val)
  <2>2. KOK(j) /\ (Spacious(kbc) => Grows(kbc, j, 5)) /\ Ps2Step(j)
    BY <2>1, WriteDataKeeps, WriteDataGrows
  <2> HIDE DEF j
  <2>3. ps2_drv' = [ps2_drv EXCEPT !.fits = fits, !.commands = ps2_drv.commands]
        /\ UNCHANGED vmmouse
    <3>1. ps2_drv' = [ps2_drv EXCEPT !.fits = fits] /\ UNCHANGED vmmouse
      BY <1>6 DEF WriteArgument, DriverData
    <3> HIDE DEF fits
    <3>2. QED
      BY <1>1, <3>1 DEF Ps2DrvType
  <2>4. fits => ps2_drv.fits /\ (j.mouse.queue = kbc.mouse.queue \/ Spacious(kbc))
    BY <2>2, AnswerIs
  <2> HIDE DEF fits
  <2>5. QED
    BY <1>1, <2>2, <2>3, <2>4, CommandStreams
<1>7. QED
  BY <1>2, <1>3, <1>4, <1>5, <1>6 DEF GuestPs2

LEMMA StreamStepKeeps ==
    ASSUME IInv, StreamInv, [Next]_vars PROVE StreamInv'
<1>0. CpuInv
  BY DEF IInv
<1>1. CASE UNCHANGED ps2Vars /\ (cpu'.at = "byte" <=> cpu.at = "byte")
  BY <1>1 DEF ps2Vars, StreamInv, SeenInv, MouseStream, FifoStream
<1>2. CASE UsesPs2 /\ (KeyEvent \/ MouseEvent) /\ UNCHANGED cpu
  BY <1>2, KbcIsOK, KeyEventStreams, MouseEventStreams
<1>3. CASE GuestPs2
  BY <1>3, KbcIsOK, GuestStreams DEF GuestPs2
<1>4. CASE UsesPs2 /\ cpu.at = "serve" /\ ServePs2
  BY <1>0, <1>4, KbcIsOK, StatusStreams
<1>5. CASE ServeByte
  <2>1. UsesPs2
    BY <1>5 DEF ServeByte, IInv, CpuInv, UsesPs2
  <2>2. QED
    BY <1>0, <1>5, <2>1, KbcIsOK, ReadByteStreams
<1>6. CASE Host
  <2>1. CASE UsesPs2 /\ (KeyEvent \/ MouseEvent) /\ UNCHANGED <<ps2_others, others>>
    BY <1>2, <2>1 DEF others
  <2>2. CASE ~(UsesPs2 /\ (KeyEvent \/ MouseEvent) /\ UNCHANGED <<ps2_others, others>>)
    <3>1. UNCHANGED ps2Vars /\ UNCHANGED cpu
      BY <1>6, <2>2 DEF Host, Tick, ClockTick, PciEvent, ide_others, others
    <3>2. QED
      BY <1>1, <3>1
  <2>3. QED
    BY <2>1, <2>2
<1>7. CASE GuestIde
  BY <1>1, <1>7 DEF GuestIde, ide_others, others
<1>8. CASE TakeInterrupt \/ Entry \/ End
  <2>1. UNCHANGED ps2Vars /\ cpu.at # "byte" /\ cpu'.at # "byte"
    BY <1>0, <1>8 DEF TakeInterrupt, Entry, End, CpuInv
  <2>2. QED
    BY <1>1, <2>1
<1>9. CASE Serve
  <2>1. CASE ServePs2
    BY <1>4, <1>9, <2>1 DEF Serve, ServePs2
  <2>2. CASE ServeClock \/ ServeIde \/ ServePci \/ ServeNothing
    <3>1. UNCHANGED ps2Vars /\ cpu.at = "serve" /\ cpu'.at # "byte"
      BY <1>0, <1>9, <2>2
         DEF Serve, ServeClock, ServeIde, ServePci, ServeNothing, Go, ide_others, CpuInv
    <3>2. QED
      BY <1>1, <3>1
  <2>3. QED
    BY <1>9, <2>1, <2>2 DEF Serve
<1>10. CASE ServeData
  <2>1. UNCHANGED ps2Vars /\ cpu.at = "data" /\ cpu'.at # "byte"
    BY <1>0, <1>10 DEF ServeData, Go, ide_others, CpuInv
  <2>2. QED
    BY <1>1, <2>1
<1>11. CASE UNCHANGED vars
  BY <1>1, <1>11 DEF vars
<1>12. QED
  BY <1>3, <1>5, <1>6, <1>7, <1>8, <1>9, <1>10, <1>11 DEF Next, Handler

LEMMA StreamsAreInStep ==
    ASSUME IInv, StreamInv PROVE StreamInStep
<1>1. kbc.mouse.queue \in Seq(Words) /\ vmmouse.fifo \in Seq(Words)
  <2>1. kbc.mouse.queue \in Seq(Bytes)
    BY DEF IInv, KbcInv, KType, Mouse
  <2>2. Bytes \subseteq Words
    BY DEF Bytes, Words
  <2>3. kbc.mouse.queue \in Seq(Words)
    BY <2>1, <2>2
  <2>4. QED
    BY <2>3 DEF StreamInv, FifoStream
<1>2. /\ InStep(ps2_drv.last["mouse"], kbc.mouse.queue)
           <=> Stream(ps2_drv.last["mouse"], kbc.mouse.queue)
      /\ InStep(ps2_drv.last["fifo"], vmmouse.fifo) <=> Stream(ps2_drv.last["fifo"], vmmouse.fifo)
  BY <1>1, InStepIs
<1>3. QED
  BY <1>2 DEF StreamInStep, StreamInv, MouseStream, FifoStream

\* Whatever the sizes of the queues, and whatever order events, commands,
\* looks at the status and reads come in, the driver of either mouse reads
\* whole messages.  Of the PS/2 mouse that is true until a movement that has
\* added up or an answer does not fit in its queue, of which ps2_queue then
\* drops a part, and until a key crosses the reading of a byte, between
\* kbd_read_status and kbd_read_data: a packet is only begun when there is room
\* for all that the movement needs, as long as it fits (ps2_mouse_event,
\* ps2_mouse_send_packet), and a byte is taken from the front (ps2_read_data).
\* An event of the VMware mouse is put whole or not at all
\* (vmmouse_send_mouse_event).
THEOREM StreamStaysInStep == Spec => []StreamInStep
<1>1. Init => IInv /\ StreamInv
  BY InitIs, StreamStarts
<1>2. IInv /\ StreamInv /\ [Next]_vars => IInv' /\ StreamInv'
  BY StepKeeps, StreamStepKeeps
<1>3. IInv /\ StreamInv => StreamInStep
  BY StreamsAreInStep
<1>4. QED
  BY <1>1, <1>2, <1>3, PTL DEF Spec
=============================================================================
