----------------------------- MODULE VirtioHost -----------------------------
(***************************************************************************)
(* The network, console and input devices (virtio.c:1135-1645) between a   *)
(* driver in the guest and the host: queue 0 (manual_recv) takes what the  *)
(* host hands over, queue 1 what the guest sends.  A call of the host, or  *)
(* an access of the guest, runs to its end before anything else.           *)
(*                                                                         *)
(* A cell of a buffer is one input event <<type, code, value>>; the header *)
(* of a packet, some bytes and an empty cell have the same form.           *)
(***************************************************************************)
EXTENDS Virtio

CONSTANTS
    Devices,     \* the devices to model: "net", "console", "keyboard", "mouse", "tablet"
    QueueNum,    \* device -> size of its queues
    Posted,      \* device -> queue -> chains it may have at once
    Buffers,     \* device -> the chains its driver posts on queue 0
    Layout,      \* queue -> addresses of its descriptors, its rings
    MaxCells,    \* cells of the buffers of one chain
    Payloads,    \* contents of packets and of what is typed at the console
    Sizes,       \* sizes of the console
    ButtonsList, \* buttons_list
    Offsets,     \* dx and dy
    Wheel,       \* dz
    Sent         \* device -> the chains its driver posts on queue 1

\* The device has the two queues.  The driver keeps their parts at addresses
\* of their own, and has no more chains in a queue than it has entries; those of
\* queue 0 are in cells of their own, and one for an input event has room for
\* it, as the driver of such a device has no other use for it.
ASSUME HostAssumption ==
    /\ NQueues >= 2
    /\ QueueNum \in [Devices -> 1 .. MaxQueueNum]
    /\ \A d \in Devices :
         /\ IdxSize % QueueNum[d] = 0
         /\ \A q \in {0, 1} : /\ Posted[d][q] \in 0 .. QueueNum[d]
                              /\ Posted[d][q] < IdxSize
    /\ \A q \in QueueId : Layout[q] \in [desc : Addr, avail : Addr \ {0}, used : Addr \ {0}]
    /\ \A p, q \in QueueId :
         /\ Layout[p].avail # Layout[q].used
         /\ p # q => /\ Layout[p].desc # Layout[q].desc
                     /\ Layout[p].avail # Layout[q].avail
                     /\ Layout[p].used # Layout[q].used
    /\ ButtonsList \in Seq(Range(ButtonsList))
    /\ \A p \in Payloads : p \in Seq(Range(p))

ASSUME BuffersAssumption ==
    /\ MaxCells \in Nat \ {0}
    /\ 0 .. (MaxQueueNum * MaxCells) - 1 \subseteq Cell
    /\ \A d \in Devices : \A c \in Buffers[d] :
         /\ c \in Seq([write : BOOLEAN, len : Nat]) /\ c # <<>>
         /\ CellsBefore(c)[Len(c)] <= MaxCells
         /\ d \notin {"net", "console"} => c[1].write /\ c[1].len > 0

VARIABLES
    dev,
    used_len,       \* slot of the used ring of queue 0 -> length in it
    config,         \* the size in the configuration space of the console
    buttons_state,
    drv,            \* the driver: "off", "run", "ack" (it has read the causes)
                    \* or "scan" (it has acknowledged them)
    causes,         \* the causes it has read
    config_read,    \* the size it has read
    seen,           \* queue -> the used index up to which it has read
    owned           \* queue -> the heads it has given to the device

driver == <<drv, causes, config_read, seen, owned>>
vars == <<virtioVars, dev, used_len, config, buttons_state, driver>>

Header == <<"net_hdr", "", 0>>     \* virtio_net_hdr, all zero
Empty == <<"", "", 0>>
IsInput == dev \in {"keyboard", "mouse", "tablet"}

Init ==
    /\ VirtioInit
    /\ dev \in Devices
    /\ used_len = [i \in DescIdx |-> 0]
    /\ \E s \in Sizes : config = s /\ config_read = s
    /\ buttons_state = {}
    /\ drv = "off" /\ causes = {}
    /\ seen = [q \in QueueId |-> 0] /\ owned = [q \in QueueId |-> {}]
-----------------------------------------------------------------------------
(* Queue 0.  e holds what the host's calls change: the device takes the     *)
(* chains at last, and fills their buffers and the used ring.               *)

Filled == [last |-> queue[0].last_avail_idx, used |-> ring[queue[0].used_addr],
           len |-> used_len, data |-> data]

\* virtio_net_can_write_packet, virtio_console_can_write_data
CanWrite(e) == queue[0].ready = 1 /\ e.last # AvailIdx(0)

FirstHead(e) == ring[queue[0].avail_addr].ring[Slot(0, e.last)]
FirstChain(e) == ChainOf(0, FirstHead(e))

\* Faulty: the chain to fill is the one that was first before the call.
PutInFirst(e, buf) ==
    [last |-> (e.last + 1) % IdxSize,
     used |-> WithEntry(0, e.used, FirstHead(e)),
     len  |-> [e.len EXCEPT ![Slot(0, e.used.idx)] = Len(buf)],
     data |-> CopiedTo(e.data, FirstChain(Filled), buf)]

\* memcpy_to_queue, virtio_consume_desc and last_avail_idx++.
Put(e, buf) ==
    [last |-> (e.last + 1) % IdxSize,
     used |-> WithEntry(0, e.used, FirstHead(e)),
     len  |-> [e.len EXCEPT ![Slot(0, e.used.idx)] = Len(buf)],
     data |-> CopiedTo(e.data, FirstChain(e), buf)]

\* One message after the other, until there is no chain for the next.
PutAll(msgs) ==
    LET after[i \in 0 .. Len(msgs)] ==
          IF i = 0 THEN Filled
          ELSE LET e == after[i - 1] IN IF CanWrite(e) THEN Put(e, msgs[i]) ELSE e
    IN  after[Len(msgs)]

Room == IF queue[0].ready = 1
        THEN (AvailIdx(0) - queue[0].last_avail_idx) % IdxSize ELSE 0

Fill(msgs) ==
    LET e == PutAll(msgs)
    IN  /\ queue' = [queue EXCEPT ![0].last_avail_idx = e.last]
        /\ ring' = [ring EXCEPT ![queue[0].used_addr] = e.used]
        /\ used_len' = e.len
        /\ data' = e.data
        /\ IF e.last = queue[0].last_avail_idx THEN UNCHANGED <<int_status, irq>>
           ELSE int_status' = int_status \cup {"used"} /\ irq' = 1
        /\ UNCHANGED <<desc, status, queue_sel, dev, config, driver>>

\* virtio_net_write_packet: a packet that the first chain is too short for is
\* lost.
Packet ==
    /\ dev = "net"
    /\ \E p \in Payloads :
         Fill(IF /\ Room > 0
                 /\ WellFormed(FirstChain(Filled))
                 /\ 1 + Len(p) <= Len(WritableCells(FirstChain(Filled)))
              THEN << <<Header>> \o p >> ELSE <<>>)
    /\ UNCHANGED buttons_state

\* virtio_console_get_write_len
WriteLen ==
    IF Room > 0 /\ WellFormed(FirstChain(Filled))
    THEN Len(WritableCells(FirstChain(Filled))) ELSE 0

\* The main loop takes no more characters than there is room for.
Typed ==
    /\ dev = "console"
    /\ \E p \in Payloads : Len(p) <= WriteLen /\ Fill(<<p>>)
    /\ UNCHANGED buttons_state

\* virtio_console_resize_event
Resize ==
    /\ dev = "console"
    /\ \E s \in Sizes : config' = s
    /\ int_status' = int_status \cup {"config"} /\ irq' = 1
    /\ UNCHANGED <<status, queue_sel, queue, ram, dev, used_len, buttons_state, driver>>

Event(type, code, value) == << <<type, code, value>> >>
Syn == Event("SYN", "", 0)

\* virtio_input_send_key_event
Key ==
    /\ dev = "keyboard"
    /\ \E is_down \in {0, 1} : Fill(<<Event("KEY", "key", is_down), Syn>>)
    /\ UNCHANGED buttons_state

\* The buttons of S, in the order of buttons_list.
Listed(S) ==
    LET first[i \in 0 .. Len(ButtonsList)] ==
          IF i = 0 THEN <<>>
          ELSE IF ButtonsList[i] \in S THEN Append(first[i - 1], ButtonsList[i])
          ELSE first[i - 1]
    IN  first[Len(ButtonsList)]

Changed(pressed) ==
    Listed({b \in Range(ButtonsList) : (b \in pressed) # (b \in buttons_state)})

\* What virtio_input_send_mouse_event queues before the SYN.
Moves(axis, dx, dy, dz, changes, pressed) ==
    <<Event(axis, "X", dx), Event(axis, "Y", dy)>>
    \o (IF dz # 0 THEN <<Event("REL", "WHEEL", dz)>> ELSE <<>>)
    \o [i \in 1 .. Len(changes) |->
          Event("KEY", changes[i], IF changes[i] \in pressed THEN 1 ELSE 0)]

\* The buttons are taken to be reported when there was room for all of them.
Mouse ==
    /\ dev \in {"mouse", "tablet"}
    /\ \E dx, dy \in Offsets, dz \in Wheel, pressed \in SUBSET Range(ButtonsList) :
         LET moves == Moves(IF dev = "mouse" THEN "REL" ELSE "ABS", dx, dy, dz,
                            Changed(pressed), pressed)
         IN  /\ Fill(Append(moves, Syn))
             /\ buttons_state' = IF Room >= Len(moves) THEN pressed ELSE buttons_state
-----------------------------------------------------------------------------
(* Queue 1: queue_notify takes every chain there is.  A packet without a     *)
(* header is stepped over, and never put in the used ring.                  *)

Pending1 == (AvailIdx(1) - queue[1].last_avail_idx) % IdxSize
Head1(i) == ring[queue[1].avail_addr].ring[Slot(1, queue[1].last_avail_idx + i - 1)]
IsTaken(c) == WellFormed(c) /\ (dev = "net" => CanCopyFrom(c, 0, 1))

Notify ==
    LET a == queue[1].used_addr
        taken == {i \in 1 .. Pending1 : IsTaken(ChainOf(1, Head1(i)))}
        used[i \in 0 .. Pending1] ==
          IF i = 0 THEN ring[a]
          ELSE IF i \in taken THEN WithEntry(1, used[i - 1], Head1(i)) ELSE used[i - 1]
    IN  /\ drv = "run" /\ Pending1 > 0
        /\ ring' = [ring EXCEPT ![a] = used[Pending1]]
        /\ queue' = [queue EXCEPT ![1].last_avail_idx = AvailIdx(1)]
        /\ IF taken = {} THEN UNCHANGED <<int_status, irq>>
           ELSE int_status' = int_status \cup {"used"} /\ irq' = 1
        /\ UNCHANGED <<status, queue_sel, desc, data, dev, used_len, config, buttons_state,
                       driver>>
-----------------------------------------------------------------------------
(* The driver.                                                              *)

others == <<dev, used_len, config, buttons_state>>

\* The rings are cleared and both queues made ready.
SetUp ==
    /\ drv = "off"
    /\ ring' = [a \in Addr |-> [idx |-> 0, ring |-> [h \in DescIdx |-> 0]]]
    /\ desc' = [a \in Addr |-> [h \in DescIdx |-> <<>>]]
    /\ data' = [x \in Cell |-> Empty]
    /\ queue' = [q \in QueueId |->
                   [ready |-> 1, num |-> QueueNum[dev], last_avail_idx |-> 0,
                    desc_addr |-> Layout[q].desc, avail_addr |-> Layout[q].avail,
                    used_addr |-> Layout[q].used]]
    /\ status' = 4
    /\ config_read' = config
    /\ drv' = "run"
    /\ UNCHANGED <<int_status, irq, queue_sel, others, causes, seen, owned>>

Reset ==
    /\ drv # "off"
    /\ WriteStatus(0)
    /\ drv' = "off" /\ causes' = {}
    /\ seen' = [q \in QueueId |-> 0] /\ owned' = [q \in QueueId |-> {}]
    /\ UNCHANGED <<others, config_read>>

\* A chain of queue q in the buffers of its first free head.
Post(q, c) ==
    LET h == CHOOSE h \in DescIdx : h \notin owned[q] /\ \A k \in 0 .. h - 1 : k \in owned[q]
        chain == ChainFrom((q * MaxQueueNum + h) * MaxCells, c)
    IN  /\ drv = "run"
        /\ Cardinality(owned[q]) < Posted[dev][q]
        /\ desc' = [desc EXCEPT ![queue[q].desc_addr][h] = chain]
        /\ ring' = [ring EXCEPT ![queue[q].avail_addr] = WithEntry(q, @, h)]
        /\ owned' = [owned EXCEPT ![q] = @ \cup {h}]
        /\ UNCHANGED <<registers, queue, data, others, drv, causes, config_read, seen>>

ReadCauses ==
    /\ drv = "run" /\ irq = 1
    /\ drv' = "ack"
    /\ causes' = int_status
    /\ UNCHANGED <<virtioVars, others, config_read, seen, owned>>

Acknowledge ==
    /\ drv = "ack"
    /\ InterruptAck(causes)
    /\ drv' = "scan"
    /\ UNCHANGED <<others, causes, config_read, seen, owned>>

AcknowledgePCI ==
    /\ drv = "run" /\ irq = 1
    /\ ReadISR
    /\ drv' = "scan"
    /\ causes' = int_status
    /\ UNCHANGED <<others, config_read, seen, owned>>

\* The slots of the used ring of q that the driver has not read.
Slots(q) ==
    [i \in 1 .. (ring[queue[q].used_addr].idx - seen[q]) % IdxSize |->
       Slot(q, seen[q] + i - 1)]
UsedHeads(q) ==
    [i \in 1 .. Len(Slots(q)) |-> ring[queue[q].used_addr].ring[Slots(q)[i]]]

\* It reads what is used, and the configuration when that has changed; it
\* clears what it has read, so that stale memory makes no other states.
Scan ==
    /\ drv = "scan"
    /\ drv' = "run" /\ causes' = {}
    /\ seen' = [q \in QueueId |-> ring[queue[q].used_addr].idx]
    /\ owned' = [q \in QueueId |-> owned[q] \ Range(UsedHeads(q))]
    /\ data' = [x \in Cell |-> IF x \div MaxCells \in owned'[0] THEN data[x] ELSE Empty]
    /\ desc' = [a \in Addr |-> [h \in DescIdx |->
                 IF \E q \in QueueId : a = queue[q].desc_addr /\ h \in owned'[q]
                 THEN desc[a][h] ELSE <<>>]]
    /\ ring' = [a \in Addr |->
                 IF \E q \in QueueId : a = queue[q].used_addr
                 THEN [ring[a] EXCEPT !.ring = [h \in DescIdx |-> 0]] ELSE ring[a]]
    /\ used_len' = [i \in DescIdx |-> 0]
    /\ config_read' = IF "config" \in causes THEN config ELSE config_read
    /\ UNCHANGED <<registers, queue, dev, config, buttons_state>>

Driver ==
    \/ SetUp \/ Reset \/ Notify
    \/ \E c \in Buffers[dev] : Post(0, c)
    \/ \E c \in Sent[dev] : Post(1, c)
    \/ ReadCauses \/ Acknowledge \/ AcknowledgePCI \/ Scan

Next == Packet \/ Typed \/ Resize \/ Key \/ Mouse \/ Driver

Spec == Init /\ [][Next]_vars
-----------------------------------------------------------------------------
(* Properties *)

\* The messages in the used buffers that the driver has not read.
Message(slot, cells) == [j \in 1 .. used_len[slot] |-> data[cells[j]]]

Unread ==
    LET u == ring[queue[0].used_addr]
    IN  [i \in 1 .. (u.idx - seen[0]) % IdxSize |->
           LET slot == Slot(0, seen[0] + i - 1)
           IN  Message(slot, WritableCells(ChainOf(0, u.ring[slot])))]

\* The calls there may be, for any state of the buttons.
AnyCall ==
    {<< <<Header>> \o p >> : p \in Payloads} \cup {<<p>> : p \in Payloads}
    \cup {<<Event("KEY", "key", v), Syn>> : v \in {0, 1}}
    \cup {Append(Moves(axis, dx, dy, dz, Listed(S), pressed), Syn) :
            axis \in {"REL", "ABS"}, dx \in Offsets, dy \in Offsets, dz \in Wheel,
            S \in SUBSET Range(ButtonsList), pressed \in SUBSET Range(ButtonsList)}

Fifo == INSTANCE HostFifo WITH Calls <- AnyCall, fifo <- Unread

\* Whatever the driver posts, acknowledges or resets between the calls of the
\* host, it reads in the used buffers the messages it was handed, each whole,
\* once and in order (virtio_net_write_packet, virtio_console_write_data,
\* virtio_input_queue_event).
ImplementsFifo == Fifo!Spec

\* While the driver has used buffers to read, or a size of the console, the
\* interrupt that tells it is pending or its handler has yet to look
\* (virtio_consume_desc, virtio_config_change_notify, INTERRUPT_ACK).
HostIsSignalled ==
    drv # "off" =>
      /\ (\E q \in QueueId : Slots(q) # <<>>) =>
           drv \in {"ack", "scan"} \/ ("used" \in int_status /\ irq = 1)
      /\ config # config_read =>
           (drv \in {"ack", "scan"} /\ "config" \in causes) \/ ("config" \in int_status /\ irq = 1)
=============================================================================
