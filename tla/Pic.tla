--------------------------------- MODULE Pic ---------------------------------
(***************************************************************************)
(* The two interrupt controllers of the PC (x86_machine.c:288-678) and the *)
(* pin through which they ask the CPU for an interrupt.  The registers of  *)
(* a controller are sets of its lines, 0 to 7; line 2 of the master stands *)
(* for the slave.  The registers that only a read returns are left out.    *)
(***************************************************************************)
EXTENDS Integers, Sequences, FiniteSets, SequencesExt

VARIABLE pics   \* [m |-> master, s |-> slave, pin |-> level given to the CPU]

Line == 0 .. 7
\* F(v), with v evaluated once.
With(v, F(_)) == CHOOSE r \in {F(x) : x \in {v}} : TRUE

HasBit(val, i) == (val \div 2^i) % 2 = 1
Bits(val) == {i \in Line : HasBit(val, i)}
Only(val, i) == IF HasBit(val, i) THEN 1 ELSE 0

pic_reset(elcr) ==
    [last_irr |-> {}, irr |-> {}, imr |-> {}, isr |-> {}, priority_add |-> 0,
     irq_base |-> 0, init_state |-> 0, auto_eoi |-> 0, rotate_on_autoeoi |-> 0,
     init4 |-> 0, elcr |-> elcr]

\* A line of elcr follows its level; another latches the edge.
pic_set_irq1(p, irq, level) ==
    LET latched == irq \in p.elcr \/ irq \notin p.last_irr
    IN  IF level = 1
        THEN [p EXCEPT !.irr = IF latched THEN @ \cup {irq} ELSE @,
                       !.last_irr = @ \cup {irq}]
        ELSE [p EXCEPT !.irr = IF irq \in p.elcr THEN @ \ {irq} ELSE @,
                       !.last_irr = @ \ {irq}]

pic_get_priority(p, mask) ==
    IF mask = {} THEN -1 ELSE Max({(irq - p.priority_add) % 8 : irq \in mask})

\* What it returns is a priority: the number of the line as long as the
\* priorities are not rotated.
pic_get_irq(p) ==
    LET priority == pic_get_priority(p, p.irr \ p.imr)
    IN  IF priority > pic_get_priority(p, p.isr) THEN priority ELSE -1

pic_intack(p, irq) ==
    LET q == IF p.auto_eoi = 1
             THEN [p EXCEPT !.priority_add =
                              IF p.rotate_on_autoeoi = 1 THEN (irq + 1) % 8 ELSE @]
             ELSE [p EXCEPT !.isr = @ \cup {irq}]
    IN  [q EXCEPT !.irr = IF irq \in p.elcr THEN @ ELSE @ \ {irq}]

EndOfInterrupt(p) ==
    LET priority == pic_get_priority(p, p.isr)
    IN  IF priority < 0 THEN p
        ELSE [p EXCEPT !.isr = @ \ {(priority + p.priority_add) % 8}]

\* A write of the first register: initialisation and operation commands.
CommandWritten(p, val) ==
    CASE HasBit(val, 4) ->
           [pic_reset(p.elcr) EXCEPT !.init_state = 1, !.init4 = val % 2]
      [] ~HasBit(val, 4) /\ HasBit(val, 3) -> p
      [] val \in {0, 128} -> [p EXCEPT !.rotate_on_autoeoi = val \div 128]
      [] val = 32 -> EndOfInterrupt(p)
      [] val = 160 -> [EndOfInterrupt(p) EXCEPT !.priority_add = (@ + 1) % 8]
      [] val \in 96 .. 103 -> [p EXCEPT !.isr = @ \ {val % 8}]
      [] val \in 192 .. 199 -> [p EXCEPT !.priority_add = (val + 1) % 8]
      [] val \in 224 .. 231 ->
           [p EXCEPT !.isr = @ \ {val % 8}, !.priority_add = (val + 1) % 8]
      [] OTHER -> p

\* A write of the second one.
DataWritten(p, val) ==
    CASE p.init_state = 0 -> [p EXCEPT !.imr = Bits(val)]
      [] p.init_state = 1 -> [p EXCEPT !.irq_base = val - (val % 8), !.init_state = 2]
      [] p.init_state = 2 -> [p EXCEPT !.init_state = IF p.init4 = 1 THEN 3 ELSE 0]
      [] p.init_state = 3 -> [p EXCEPT !.auto_eoi = Only(val, 1), !.init_state = 0]
-----------------------------------------------------------------------------
(* Both controllers *)

\* The master's request becomes the level of the pin.
PinSet(x) == [x EXCEPT !.pin = IF pic_get_irq(x.m) >= 0 THEN 1 ELSE 0]

\* Faulty: the line between the controllers stays up.
UpdateLeavesCascade(x) ==
    With(IF pic_get_irq(x.s) >= 0 THEN [x EXCEPT !.m = pic_set_irq1(x.m, 2, 1)] ELSE x, PinSet)

pic2_update_irq(x) ==
    With(IF pic_get_irq(x.s) >= 0
         THEN [x EXCEPT !.m = With(pic_set_irq1(x.m, 2, 1), LAMBDA m : pic_set_irq1(m, 2, 0))]
         ELSE x, PinSet)

pic2_set_irq(x, irq, level) ==
    With(IF irq < 8 THEN [x EXCEPT !.m = pic_set_irq1(x.m, irq, level)]
         ELSE [x EXCEPT !.s = pic_set_irq1(x.s, irq - 8, level)], pic2_update_irq)

\* Writes <<controller, register, val>>: only a new mask updates the pin.
pic_write(x, w) ==
    LET p == x[w[1]]
    IN  IF w[2] = 0 THEN [x EXCEPT ![w[1]] = CommandWritten(p, w[3])]
        ELSE IF p.init_state = 0
        THEN With([x EXCEPT ![w[1]] = DataWritten(p, w[3])], pic2_update_irq)
        ELSE [x EXCEPT ![w[1]] = DataWritten(p, w[3])]

pic_writes(x, ws) ==
    LET after[i \in 0 .. Len(ws)] ==
          IF i = 0 THEN x ELSE With(after[i - 1], LAMBDA y : pic_write(y, ws[i]))
    IN  after[Len(ws)]

\* The CPU takes the interrupt: the line it is told, and the controllers.
pic2_get_hard_intno(x) ==
    LET irq  == pic_get_irq(x.m)
        irq2 == pic_get_irq(x.s)
    IN  CASE irq < 0 -> [irq |-> 7, pics |-> pic2_update_irq(x)]
          [] irq = 2 /\ irq2 < 0 ->
               [irq |-> 15, pics |-> With([x EXCEPT !.m = pic_intack(x.m, 2)], pic2_update_irq)]
          [] irq = 2 /\ irq2 >= 0 ->
               [irq |-> irq2 + 8,
                pics |-> With([x EXCEPT !.m = pic_intack(x.m, 2), !.s = pic_intack(x.s, irq2)],
                              pic2_update_irq)]
          [] OTHER ->
               [irq |-> irq, pics |-> With([x EXCEPT !.m = pic_intack(x.m, irq)], pic2_update_irq)]

\* Calls of set_irq, one after the other, for pairs <<line, level>>.
AfterCalls(x, calls) ==
    LET after[i \in 0 .. Len(calls)] ==
          IF i = 0 THEN x
          ELSE With(after[i - 1], LAMBDA y : pic2_set_irq(y, calls[i][1], calls[i][2]))
    IN  after[Len(calls)]

SetIrqs(calls) == pics' = AfterCalls(pics, calls)

\* Is the request of the line waiting for the CPU?
IsLatched(irq) == IF irq < 8 THEN irq \in pics.m.irr ELSE irq - 8 \in pics.s.irr
=============================================================================
