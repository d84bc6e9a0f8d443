-------------------------------- MODULE I8042 --------------------------------
(***************************************************************************)
(* The PS/2 keyboard and mouse (ps2.c), their controller (pckbd.c) and the *)
(* VMware mouse in front of the PS/2 one (vmmouse.c).                      *)
(*                                                                         *)
(* The operators take and return the state of them all, k, and collect in  *)
(* k.calls the calls of set_irq.  A byte in a queue is <<message, i, n>>:  *)
(* the i-th of the n that the device sends for one packet, scan code or    *)
(* command.                                                                *)
(***************************************************************************)
EXTENDS Pic

CONSTANTS
    PS2_QUEUE_SIZE,
    EventRoom,      \* 16, the room there must be for a movement of the mouse
    MaxDelta,       \* 127, the largest one in a packet
    MaxWheel,       \* 7, the largest one of the wheel, for an Explorer mouse
    FIFO_SIZE,      \* of the VMware mouse
    Movements,      \* the events [dx, dy, dz, buttons] of the host
    KeyboardCommands, MouseCommands, ControllerCommands, \* what the driver writes
    MaxEvents,      \* events of the host
    MaxPs2Commands  \* commands of the driver

\* The room is for a packet at least, and the longest answer, to a poll, is an
\* acknowledgement and a packet.
ASSUME Ps2Assumption ==
    /\ PS2_QUEUE_SIZE \in Nat /\ PS2_QUEUE_SIZE >= 5 /\ FIFO_SIZE \in Nat
    /\ EventRoom \in Nat /\ EventRoom >= 4
    /\ MaxDelta \in Nat \ {0} /\ MaxWheel \in Nat \ {0} /\ MaxWheel <= MaxDelta
    /\ Movements \subseteq [dx : Int, dy : Int, dz : Int, buttons : Int]

VARIABLES
    kbc,       \* keyboard, mouse, controller
    vmmouse,   \* [fifo, enabled, absolute]
    ps2_drv    \* the driver: the last byte it has taken for each device's, the
               \* device "seen" in the status, what it and the host have done; did
               \* all movements and answers fit in the mouse's queue, has a key
               \* crossed its reading of a byte of the mouse?

ps2Vars == <<kbc, vmmouse, ps2_drv>>

IRQ_KBD == 1
IRQ_MOUSE == 12

\* A mouse that the guest has set up, with a wheel, or that nobody has enabled.
MouseOf(type) ==
    [queue |-> <<>>, write_cmd |-> "none", status |-> IF type = 0 THEN {} ELSE {"enabled"},
     wrap |-> FALSE, type |-> type, detect_state |-> 0, dx |-> 0, dy |-> 0, dz |-> 0, buttons |-> 0]

Ps2Init(type) ==
    /\ kbc = [kbd |-> [queue |-> <<>>, write_cmd |-> "none"], mouse |-> MouseOf(type),
              write_cmd |-> "none", status |-> {}, mode |-> {"kbd_int", "mouse_int"},
              pending |-> {}, calls |-> <<>>]
    /\ vmmouse = [fifo |-> <<>>, enabled |-> FALSE, absolute |-> FALSE]
    /\ ps2_drv = [last |-> [d \in {"kbd", "mouse", "fifo"} |-> <<"none", 1, 1>>],
                  seen |-> "none", fits |-> TRUE, crossed |-> FALSE,
                  events |-> 0, commands |-> 0]
-----------------------------------------------------------------------------
(* Queues and interrupts *)

\* The keyboard goes first: its bytes hide those of the mouse.
kbd_update_irq(k) ==
    LET mouse == k.pending = {"mouse"}
        kbd   == k.pending # {} /\ ~mouse
    IN  [k EXCEPT
           !.status = (@ \ {"obf", "mouse_obf"})
                        \cup (IF k.pending # {} THEN {"obf"} ELSE {})
                        \cup (IF mouse THEN {"mouse_obf"} ELSE {}),
           !.calls = @ \o
             << <<IRQ_KBD, IF kbd /\ "kbd_int" \in k.mode /\ "disable_kbd" \notin k.mode
                           THEN 1 ELSE 0>>,
                <<IRQ_MOUSE, IF mouse /\ "mouse_int" \in k.mode THEN 1 ELSE 0>> >>]

\* kbd_update_kbd_irq, kbd_update_aux_irq
SetPending(k, d, level) ==
    With([k EXCEPT !.pending = IF level THEN @ \cup {d} ELSE @ \ {d}], kbd_update_irq)

ps2_queue(k, d, b) ==
    IF Len(k[d].queue) >= PS2_QUEUE_SIZE THEN k
    ELSE With([k EXCEPT ![d].queue = Append(@, b)], LAMBDA q : SetPending(q, d, TRUE))

\* One message of n bytes.
Send(k, d, message, n) ==
    LET after[i \in 0 .. n] ==
          IF i = 0 THEN k
          ELSE With(after[i - 1], LAMBDA s : ps2_queue(s, d, <<message, i, n>>))
    IN  after[n]

\* Faulty: the line stays up while there is more to read.
ReadDataLineUp(k, d) ==
    IF k[d].queue = <<>> THEN k
    ELSE SetPending([k EXCEPT ![d].queue = Tail(@)], d, Len(k[d].queue) > 1)

\* An empty queue gives its last byte once more, and changes nothing.
ps2_read_data(k, d) ==
    IF k[d].queue = <<>> THEN k
    ELSE With(SetPending([k EXCEPT ![d].queue = Tail(@)], d, FALSE),
              LAMBDA q : SetPending(q, d, q[d].queue # <<>>))

\* Some keys are two bytes.
ps2_put_keycode(k, is_extended) ==
    Send(k, "kbd", "key", IF is_extended THEN 2 ELSE 1)
-----------------------------------------------------------------------------
(* The keyboard's commands.  LEDs and rate take a second byte. *)

ps2_write_keyboard(k, val) ==
    CASE k.kbd.write_cmd # "none" ->
           [Send(k, "kbd", "ack", 1) EXCEPT !.kbd.write_cmd = "none"]
      [] k.kbd.write_cmd = "none" /\ val \in {"set_leds", "set_rate"} ->
           Send([k EXCEPT !.kbd.write_cmd = val], "kbd", "ack", 1)
      [] k.kbd.write_cmd = "none" /\ val = "get_id" -> Send(k, "kbd", "id", 3)
      [] k.kbd.write_cmd = "none" /\ val = "reset" -> Send(k, "kbd", "por", 2)
      [] OTHER -> Send(k, "kbd", "ack", 1)   \* or the echo, or a resend
-----------------------------------------------------------------------------
(* The mouse *)

Clamp(v, n) == IF v > n THEN n ELSE IF v < -n THEN -n ELSE v

\* A packet is three bytes, or four with a wheel; without one its movement is
\* dropped.
ps2_mouse_send_packet(k) ==
    LET m   == k.mouse
        dx1 == Clamp(m.dx, MaxDelta)
        dy1 == Clamp(m.dy, MaxDelta)
        dz1 == CASE m.type = 3 -> Clamp(m.dz, MaxDelta)
                 [] m.type = 4 -> Clamp(m.dz, MaxWheel)
                 [] OTHER -> m.dz
    IN  [Send(k, "mouse", "packet", IF m.type = 0 THEN 3 ELSE 4)
           EXCEPT !.mouse.dx = @ - dx1, !.mouse.dy = @ - dy1, !.mouse.dz = @ - dz1]

IsStill(m) == m.dx = 0 /\ m.dy = 0 /\ m.dz = 0

\* Faulty: any room will do.
AnyRoom(m) == Len(m.queue) < PS2_QUEUE_SIZE

HasRoom(m) == Len(m.queue) < PS2_QUEUE_SIZE - EventRoom

\* The turns it can take: each packet brings what is left nearer to nothing.
Turns(m) ==
    LET Abs(v) == IF v < 0 THEN -v ELSE v
    IN  Abs(m.dx) + Abs(m.dy) + Abs(m.dz)

\* One packet after the other, until the movement is sent.
ps2_mouse_send_packets(k) ==
    LET after[i \in 0 .. Turns(k.mouse)] ==
          IF i = 0 THEN With(k, ps2_mouse_send_packet)
          ELSE With(after[i - 1], LAMBDA s : IF IsStill(s.mouse) THEN s
                                             ELSE ps2_mouse_send_packet(s))
    IN  after[Turns(k.mouse)]

\* Nothing when disabled; while there is no room the movements add up.
ps2_mouse_event(k, e) ==
    LET m == [k.mouse EXCEPT !.dx = @ + e.dx, !.dy = @ - e.dy, !.dz = @ + e.dz]
        j == [k EXCEPT !.mouse = [m EXCEPT !.buttons = e.buttons]]
    IN  CASE "enabled" \notin k.mouse.status -> k
          [] "enabled" \in k.mouse.status /\ IsStill(m) /\ m.buttons = e.buttons ->
               [k EXCEPT !.mouse = m]
          [] OTHER ->
               IF "remote" \in m.status \/ ~HasRoom(m) THEN j
               ELSE ps2_mouse_send_packets(j)

\* How the sample rates 200, 100, 80 make a wheel appear.
DetectType(m, rate) ==
    CASE m.detect_state = 0 -> [m EXCEPT !.detect_state = IF rate = 200 THEN 1 ELSE 0]
      [] m.detect_state = 1 ->
           [m EXCEPT !.detect_state = CASE rate = 100 -> 2 [] rate = 200 -> 3 [] OTHER -> 0]
      [] m.detect_state = 2 ->
           [m EXCEPT !.detect_state = 0, !.type = IF rate = 80 THEN 3 ELSE @]
      [] m.detect_state = 3 ->
           [m EXCEPT !.detect_state = 0, !.type = IF rate = 80 THEN 4 ELSE @]

Ack(k) == Send(k, "mouse", "ack", 1)

\* A command of the mouse, or the value that the last one waits for.
MouseCommand(k, val) ==
    CASE val = "set_scale11" -> Ack([k EXCEPT !.mouse.status = @ \ {"scale21"}])
      [] val = "set_scale21" -> Ack([k EXCEPT !.mouse.status = @ \cup {"scale21"}])
      [] val = "set_stream"  -> Ack([k EXCEPT !.mouse.status = @ \ {"remote"}])
      [] val = "set_remote"  -> Ack([k EXCEPT !.mouse.status = @ \cup {"remote"}])
      [] val = "set_wrap"    -> Ack([k EXCEPT !.mouse.wrap = TRUE])
      [] val = "get_type"    -> Send(k, "mouse", "type", 2)
      [] val \in {"set_res", "set_sample"} -> Ack([k EXCEPT !.mouse.write_cmd = val])
      [] val = "get_scale"   -> Send(k, "mouse", "scale", 4)
      [] val = "poll"        -> ps2_mouse_send_packet(Ack(k))
      [] val = "enable"      -> Ack([k EXCEPT !.mouse.status = @ \cup {"enabled"}])
      [] val = "disable"     -> Ack([k EXCEPT !.mouse.status = @ \ {"enabled"}])
      [] val = "set_default" -> Ack([k EXCEPT !.mouse.status = {}])
      [] val = "reset" ->
           Send([k EXCEPT !.mouse.status = {}, !.mouse.type = 0], "mouse", "reset", 3)
      [] OTHER -> k

ps2_write_mouse(k, val) ==
    CASE k.mouse.write_cmd = "set_sample" ->
           [Ack([k EXCEPT !.mouse = DetectType(@, val)]) EXCEPT !.mouse.write_cmd = "none"]
      [] k.mouse.write_cmd = "set_res" -> [Ack(k) EXCEPT !.mouse.write_cmd = "none"]
      [] k.mouse.write_cmd = "none" /\ k.mouse.wrap /\ val = "reset_wrap" ->
           Ack([k EXCEPT !.mouse.wrap = FALSE])
      [] k.mouse.write_cmd = "none" /\ k.mouse.wrap /\ val \notin {"reset_wrap", "reset"} ->
           Send(k, "mouse", "echo", 1)
      [] OTHER -> MouseCommand(k, val)
-----------------------------------------------------------------------------
(* The controller *)

kbd_write_command(k, val) ==
    CASE val = "read_mode" -> Send(k, "mouse", "mode", 1)
      [] val \in {"write_mode", "write_obuf", "write_aux_obuf", "write_mouse"} ->
           [k EXCEPT !.write_cmd = val]
      [] val = "mouse_disable" -> [k EXCEPT !.mode = @ \cup {"disable_mouse"}]
      [] val = "mouse_enable"  -> [k EXCEPT !.mode = @ \ {"disable_mouse"}]
      [] val = "kbd_disable"   -> kbd_update_irq([k EXCEPT !.mode = @ \cup {"disable_kbd"}])
      [] val = "kbd_enable"    -> kbd_update_irq([k EXCEPT !.mode = @ \ {"disable_kbd"}])
      [] val = "self_test" -> Send([k EXCEPT !.status = @ \cup {"selftest"}], "kbd", "test", 1)
      [] val \in {"kbd_test", "test_mouse", "read_inport", "read_outport"} ->
           Send(k, "kbd", "test", 1)
      [] OTHER -> k

\* A byte for whom the last command says.
kbd_write_data(k, val) ==
    [(CASE k.write_cmd = "none" -> ps2_write_keyboard(k, val)
        [] k.write_cmd = "write_mode" -> kbd_update_irq([k EXCEPT !.mode = val])
        [] k.write_cmd = "write_obuf" -> Send(k, "kbd", "obuf", 1)
        [] k.write_cmd = "write_aux_obuf" -> Send(k, "mouse", "obuf", 1)
        [] k.write_cmd = "write_mouse" -> ps2_write_mouse(k, val)
        [] OTHER -> k) EXCEPT !.write_cmd = "none"]

ReadFrom(k) == IF k.pending = {"mouse"} THEN "mouse" ELSE "kbd"

kbd_read_data(k) == ps2_read_data(k, ReadFrom(k))
-----------------------------------------------------------------------------
(* The VMware mouse: an event is four words. *)

vmmouse_put(v, message, n) ==
    [v EXCEPT !.fifo = SubSeq(@ \o [i \in 1 .. n |-> <<message, i, n>>], 1,
                              IF Len(@) + n > FIFO_SIZE THEN FIFO_SIZE ELSE Len(@) + n)]

\* Beside its words the driver gets a movement of the PS/2 mouse, to be woken.
Nudge == [dx |-> 1, dy |-> 0, dz |-> 0, buttons |-> 0]

\* Driver actions and host's events: the calls go to the interrupt controller.
Ps2Step(j) ==
    \E k \in {j} :
      /\ kbc' = [k EXCEPT !.calls = <<>>]
      /\ SetIrqs(k.calls)

vmmouse_send_mouse_event(e) ==
    IF ~vmmouse.enabled THEN Ps2Step(ps2_mouse_event(kbc, e)) /\ UNCHANGED vmmouse
    ELSE IF Len(vmmouse.fifo) + 4 > FIFO_SIZE THEN UNCHANGED <<kbc, pics, vmmouse>>
    ELSE /\ vmmouse' = vmmouse_put(vmmouse, "move", 4)
         /\ Ps2Step(ps2_mouse_event(kbc, Nudge))

\* read_data: more than there is turns the mouse off.
vmmouse_read(size) ==
    IF size > Len(vmmouse.fifo) THEN [vmmouse EXCEPT !.enabled = FALSE]
    ELSE [vmmouse EXCEPT !.fifo = SubSeq(@, size + 1, Len(@))]

\* The other commands of vmmouse_handler that change its state.
vmmouse_command(cmd) ==
    CASE cmd = "read_id" -> IF Len(vmmouse.fifo) < FIFO_SIZE
                            THEN [vmmouse_put(vmmouse, "id", 1) EXCEPT !.enabled = TRUE]
                            ELSE vmmouse
      [] cmd = "disable"  -> [vmmouse EXCEPT !.enabled = FALSE]
      [] cmd = "relative" -> [vmmouse EXCEPT !.absolute = FALSE]
      [] cmd = "absolute" -> [vmmouse EXCEPT !.absolute = TRUE]
-----------------------------------------------------------------------------
(* The host *)

MayEvent == ps2_drv.events < MaxEvents

\* A key may be pressed between the status that shows a byte of the mouse and
\* the read of that byte.
KeyEvent ==
    /\ MayEvent
    /\ \E is_extended \in BOOLEAN : Ps2Step(ps2_put_keycode(kbc, is_extended))
    /\ ps2_drv' = [ps2_drv EXCEPT !.events = @ + 1, !.crossed = @ \/ ps2_drv.seen = "mouse"]
    /\ UNCHANGED vmmouse

\* Are the packets for a movement within the room that is looked for?  What
\* adds up while there is none may need more, and is sent all the same.
Within(v, most) == Clamp(v, most * (EventRoom \div 4)) = v
Fits(m, e) == /\ Within(m.dx + e.dx, MaxDelta) /\ Within(m.dy - e.dy, MaxDelta)
              /\ Within(m.dz + e.dz, MaxWheel)

MouseEvent ==
    /\ MayEvent
    /\ \E e \in Movements :
         /\ vmmouse_send_mouse_event(e)
         /\ ps2_drv' = [ps2_drv EXCEPT !.events = @ + 1,
                          !.fits = @ /\ Fits(kbc.mouse, IF vmmouse.enabled THEN Nudge ELSE e)]
-----------------------------------------------------------------------------
(* The driver.  It gives a command at any time, and its handler looks at    *)
(* the status before it reads a byte.                                       *)

MayCommand == ps2_drv.commands < MaxPs2Commands
CountCommand == ps2_drv' = [ps2_drv EXCEPT !.commands = @ + 1]

\* Of a longer answer than there is room for a part is dropped.
LongestAnswer == 5
AnswerFits ==
    kbc'.mouse.queue # kbc.mouse.queue => Len(kbc.mouse.queue) + LongestAnswer <= PS2_QUEUE_SIZE

\* A byte for the keyboard, or for what the controller has been told.
DriverData(vals) ==
    /\ \E val \in vals : Ps2Step(kbd_write_data(kbc, val))
    /\ ps2_drv' = [ps2_drv EXCEPT !.fits = @ /\ AnswerFits]
    /\ UNCHANGED vmmouse

WriteKeyboard ==
    /\ kbc.write_cmd = "none"
    /\ MayCommand /\ CountCommand
    /\ \E val \in KeyboardCommands : Ps2Step(kbd_write_data(kbc, val))
    /\ UNCHANGED vmmouse

WriteController ==
    /\ kbc.write_cmd = "none"
    /\ MayCommand
    /\ \E val \in ControllerCommands : Ps2Step(kbd_write_command(kbc, val))
    /\ ps2_drv' = [ps2_drv EXCEPT !.commands = @ + 1, !.fits = @ /\ AnswerFits]
    /\ UNCHANGED vmmouse

\* The byte after a command, in whatever follows it.
WriteArgument ==
    \/ kbc.write_cmd = "write_mouse" /\ kbc.mouse.write_cmd = "none" /\ DriverData(MouseCommands)
    \/ kbc.write_cmd = "write_mouse" /\ kbc.mouse.write_cmd # "none" /\ DriverData({200, 100, 80})
    \/ /\ kbc.write_cmd = "write_mode"
       /\ DriverData({{"kbd_int", "mouse_int"}, {"mouse_int"}})
    \/ kbc.write_cmd \in {"write_obuf", "write_aux_obuf"} /\ DriverData({"byte"})

VmCommand ==
    /\ MayCommand /\ CountCommand
    /\ \E cmd \in {"read_id", "disable", "absolute"} :
         vmmouse' = vmmouse_command(cmd)
    /\ UNCHANGED <<kbc, pics>>

\* kbd_read_status: is there a byte, and whose?
ReadStatus ==
    /\ ps2_drv' = [ps2_drv EXCEPT !.seen =
                     CASE "obf" \notin kbc.status -> "none"
                       [] "mouse_obf" \in kbc.status -> "mouse"
                       [] OTHER -> "kbd"]
    /\ UNCHANGED <<kbc, pics, vmmouse>>

\* The byte that there is now it takes for one of the device it has seen.
ReadByte ==
    /\ Ps2Step(kbd_read_data(kbc))
    /\ ps2_drv' = [ps2_drv EXCEPT !.last[ps2_drv.seen] = Head(kbc[ReadFrom(kbc)].queue),
                                  !.seen = "none"]
    /\ UNCHANGED vmmouse

\* It asks how many words there are and reads one event, or the answer.
ReadWords ==
    /\ vmmouse.fifo # <<>>
    /\ LET n == Head(vmmouse.fifo)[3]
       IN  /\ vmmouse' = vmmouse_read(n)
           /\ ps2_drv' = [ps2_drv EXCEPT !.last["fifo"] = vmmouse.fifo[n]]
    /\ UNCHANGED <<kbc, pics>>
=============================================================================
