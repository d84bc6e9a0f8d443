------------------------------- MODULE Virtio -------------------------------
(***************************************************************************)
(* The transport of the virtio devices (virtio.c:30-976): the registers of *)
(* the MMIO and PCI bindings, the split rings in the guest's memory and    *)
(* the copies along descriptor chains.  A device extends this module.      *)
(*                                                                         *)
(* Guest memory is kept in three parts that a driver never overlaps: the   *)
(* rings, the descriptor tables and the buffers.  A cell of a buffer is a  *)
(* field of a header, a sector or a status byte, so that all lengths count *)
(* cells.  Address 0 stands for the memory a queue points to before it is  *)
(* configured.                                                             *)
(***************************************************************************)
EXTENDS Integers, Sequences, FiniteSets, SequencesExt

CONSTANTS NQueues,      \* MAX_QUEUE
          MaxQueueNum,  \* MAX_QUEUE_NUM
          IdxSize,      \* 2^16, the range of the ring indices
          Addr,         \* addresses of rings and descriptor tables, with 0
          Cell          \* addresses in the buffers

ASSUME VirtioAssumption ==
    /\ NQueues \in Nat \ {0} /\ MaxQueueNum \in Nat \ {0}
    /\ IdxSize \in Nat \ {0} /\ IdxSize % MaxQueueNum = 0
    /\ 0 \in Addr
    /\ Cell \subseteq Nat

VARIABLES int_status,  \* the set of pending causes, "used" and "config"
          irq,         \* the level of the interrupt line
          status,      \* the device status written by the driver
          queue_sel,
          queue,       \* QueueState of each queue
          ring,        \* address -> index and entries of a ring
          desc,        \* address -> first descriptor -> chain
          data         \* cell -> contents

registers == <<int_status, irq, status, queue_sel>>
ram == <<ring, desc, data>>
virtioVars == <<registers, queue, ram>>

QueueId == 0 .. NQueues - 1
Idx == 0 .. IdxSize - 1
DescIdx == 0 .. MaxQueueNum - 1
Descriptor == [write : BOOLEAN, addr : Cell, len : Nat]
Ring == [idx : Idx, ring : [DescIdx -> DescIdx]]
IsPowerOfTwo(n) == n > 0 /\ \E k \in 0 .. n : n = 2^k

QueueState == [ready : {0, 1}, num : Nat \ {0}, last_avail_idx : Idx,
               desc_addr : Addr, avail_addr : Addr, used_addr : Addr]

ResetQueue == [ready |-> 0, num |-> MaxQueueNum, last_avail_idx |-> 0,
               desc_addr |-> 0, avail_addr |-> 0, used_addr |-> 0]

VirtioInit ==
    /\ int_status = {} /\ irq = 0 /\ status = 0 /\ queue_sel = 0
    /\ queue = [q \in QueueId |-> ResetQueue]
    /\ ring = [a \in Addr |-> [idx |-> 0, ring |-> [h \in DescIdx |-> 0]]]
    /\ desc = [a \in Addr |-> [h \in DescIdx |-> <<>>]]
    /\ data = [c \in Cell |-> 0]
-----------------------------------------------------------------------------
(* Descriptor chains *)

Cells(d) == [i \in 1 .. d.len |-> d.addr + i - 1]

\* The cells of the chain c that the device may only read: those before the
\* first descriptor with VRING_DESC_F_WRITE.
ReadableCells(c) ==
    FlattenSeq([i \in 1 .. Len(c) |->
                  IF \A j \in 1 .. i : ~c[j].write THEN Cells(c[i]) ELSE <<>>])

\* The cells of the chain c that a copy to the queue reaches: from the first
\* writable descriptor to the next one that is not.
WritableCells(c) ==
    FlattenSeq([i \in 1 .. Len(c) |->
                  IF /\ c[i].write
                     /\ \A j \in 1 .. i : c[j].write =>
                            \A k \in j .. i : c[k].write
                  THEN Cells(c[i]) ELSE <<>>])

\* get_desc_rw_size returns 0: no descriptor to be read follows one to be
\* written.  Then the lengths of the two lists of cells are its results.
WellFormed(c) ==
    \A i, j \in 1 .. Len(c) : i < j /\ c[i].write => c[j].write

\* memcpy_from_queue returns 0.
CanCopyFrom(c, offset, count) ==
    count = 0 \/ offset + count <= Len(ReadableCells(c))

CopyFromQueue(c, offset, count) ==
    [i \in 1 .. count |-> data[ReadableCells(c)[offset + i]]]

\* Faulty: forgets the last cell.
CopyToQueueShort(c, buf) ==
    LET cells == WritableCells(c)
    IN  [x \in Cell |->
           IF \E i \in 1 .. Len(buf) - 1 : cells[i] = x
           THEN buf[CHOOSE i \in 1 .. Len(buf) - 1 : cells[i] = x]
           ELSE data[x]]

\* The guest's buffers, mem, after memcpy_to_queue of buf at the start of c; a
\* chain that is too short takes what it can.
CopiedTo(mem, c, buf) ==
    LET cells == WritableCells(c)
        n     == IF Len(buf) < Len(cells) THEN Len(buf) ELSE Len(cells)
    IN  [x \in Cell |->
           IF \E i \in 1 .. n : cells[i] = x
           THEN buf[CHOOSE i \in 1 .. n : cells[i] = x]
           ELSE mem[x]]

CopyToQueue(c, buf) == CopiedTo(data, c, buf)

\* A driver gives the descriptors of the chain c, of known lengths, the cells
\* from base on, one after the other.
CellsBefore(c) ==
    LET before[i \in 0 .. Len(c)] == IF i = 0 THEN 0 ELSE before[i - 1] + c[i].len
    IN  before
ChainFrom(base, c) ==
    [i \in 1 .. Len(c) |-> [write |-> c[i].write, len |-> c[i].len,
                           addr  |-> base + CellsBefore(c)[i - 1]]]
-----------------------------------------------------------------------------
(* Rings *)

AvailIdx(q) == ring[queue[q].avail_addr].idx

Slot(q, i) == i % queue[q].num

\* The head of the next chain the driver has made available.
NextHead(q) ==
    ring[queue[q].avail_addr].ring[Slot(q, queue[q].last_avail_idx)]

ChainOf(q, h) == desc[queue[q].desc_addr][h]

Advance(q) ==
    queue' = [queue EXCEPT ![q].last_avail_idx = (@ + 1) % IdxSize]

\* The ring r of queue q with the chain h in its next slot.
WithEntry(q, r, h) ==
    [idx |-> (r.idx + 1) % IdxSize, ring |-> [r.ring EXCEPT ![Slot(q, r.idx)] = h]]

ConsumeDesc(q, h) ==
    /\ ring' = [ring EXCEPT ![queue[q].used_addr] = WithEntry(q, @, h)]
    /\ int_status' = int_status \cup {"used"}
    /\ irq' = 1
-----------------------------------------------------------------------------
(* Registers: one action for each register with an effect *)

WriteQueueSel(v) ==
    /\ queue_sel' = IF v \in QueueId THEN v ELSE queue_sel
    /\ UNCHANGED <<int_status, irq, status, queue, ram>>

WriteQueueNum(v) ==
    /\ queue' = IF IsPowerOfTwo(v)
                THEN [queue EXCEPT ![queue_sel].num = v] ELSE queue
    /\ UNCHANGED <<registers, ram>>

WriteQueueAddr(field, a) ==
    /\ queue' = [queue EXCEPT ![queue_sel][field] = a]
    /\ UNCHANGED <<registers, ram>>

WriteQueueReady(v) ==
    /\ queue' = [queue EXCEPT ![queue_sel].ready = v % 2]
    /\ UNCHANGED <<registers, ram>>

\* Writing 0 resets the device; the memory of the guest is not touched.
WriteStatus(v) ==
    /\ status' = v
    /\ IF v = 0
       THEN /\ int_status' = {} /\ irq' = 0 /\ queue_sel' = 0
            /\ queue' = [q \in QueueId |-> ResetQueue]
       ELSE UNCHANGED <<int_status, irq, queue_sel, queue>>
    /\ UNCHANGED ram

\* Faulty: forgets the causes that came after the driver's read.
InterruptAckAll(causes) ==
    /\ int_status' = {}
    /\ irq' = 0
    /\ UNCHANGED <<status, queue_sel, queue, ram>>

\* INTERRUPT_ACK of the MMIO binding.
InterruptAck(causes) ==
    /\ int_status' = int_status \ causes
    /\ irq' = IF int_status' = {} THEN 0 ELSE irq
    /\ UNCHANGED <<status, queue_sel, queue, ram>>

\* Faulty: leaves the line up.
ReadISRLineUp ==
    /\ int_status' = {}
    /\ UNCHANGED <<irq, status, queue_sel, queue, ram>>

\* Reading the ISR register of the PCI binding clears it.
ReadISR ==
    /\ int_status' = {}
    /\ irq' = 0
    /\ UNCHANGED <<status, queue_sel, queue, ram>>
-----------------------------------------------------------------------------
\* The interrupt line is up exactly while a cause is pending.
LineIsLevel == (irq = 1) <=> (int_status # {})
=============================================================================
