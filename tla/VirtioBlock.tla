---------------------------- MODULE VirtioBlock ----------------------------
(***************************************************************************)
(* The virtio block device (virtio.c:518-544 and 980-1132) between a       *)
(* driver in the guest and a block device of the host (module Disk).       *)
(*                                                                         *)
(* Register accesses, and the callback of the block device, run            *)
(* queue_notify and what it calls to the end before the guest goes on: the *)
(* steps of that loop are the actions with host # "guest".  The guest may  *)
(* run, and the block device may move sectors, while host = "guest".       *)
(***************************************************************************)
EXTENDS Virtio

CONSTANTS Template,  \* the requests of the driver, see MCVirtioBlock
          Layout,    \* where the driver puts the parts of its queue
          TypeIn, TypeOut,     \* VIRTIO_BLK_T_IN, VIRTIO_BLK_T_OUT
          StatusOK, StatusErr, \* VIRTIO_BLK_S_OK, VIRTIO_BLK_S_IOERR
          Contents,  \* of the disk at power on
          Garbage,   \* what freed or fresh memory holds
          MaxCells   \* cells of the buffers of one request

\* A driver keeps its descriptors and its two rings apart, and a full ring can
\* be told from an empty one: 16 descriptors and indices of 16 bits.
ASSUME LayoutAssumption ==
    /\ Layout \in Seq([field : {"desc_addr", "avail_addr", "used_addr"},
                       addr : Addr])
    /\ \A i, j \in 1 .. Len(Layout) :
         Layout[i].field # Layout[j].field => Layout[i].addr # Layout[j].addr

ASSUME QueueAssumption == MaxQueueNum < IdxSize

\* The buffers of a chain have its head's cells, and a byte that the device may
\* write: it takes write_size - 1 of them for the sectors, unchecked.
ASSUME RequestAssumption ==
    /\ TypeIn # TypeOut
    /\ MaxCells \in Nat \ {0}
    /\ 0 .. (MaxQueueNum * MaxCells) - 1 \subseteq Cell
    /\ \A t \in Template :
         /\ t.chain \in Seq([write : BOOLEAN, len : Nat]) /\ t.chain # <<>>
         /\ CellsBefore(t.chain)[Len(t.chain)] <= MaxCells
         /\ \E i \in 1 .. Len(t.chain) : t.chain[i].write /\ t.chain[i].len > 0

VARIABLES req_in_progress,
          req,          \* BlockRequest: [type, head, write_size]
          avail_idx,    \* the local variable of queue_notify
          host,         \* "guest", "notify", "backend" or "undefined"
          disk, request, buffer, moved, busy,  \* the block device
          drv,          \* the driver: see below
          causes,       \* the causes it has read
          seen,         \* the used index up to which it has read
          owned,        \* the heads it has given to the device
          fresh,        \* those it has not notified yet
          dropped,      \* those that queue_notify stepped over unused
          stale         \* is the request in progress older than the reset?

Backend == INSTANCE Disk WITH Request <- {}

device == <<req_in_progress, req, avail_idx, host>>
backend == <<disk, request, buffer, moved, busy>>
driver == <<drv, causes, seen, owned, fresh>>
history == <<dropped, stale>>
vars == <<virtioVars, device, backend, driver, history>>

Q == 0              \* the only queue of the device that drivers use
HeaderSize == 2     \* type and sector_num

Init ==
    /\ VirtioInit
    /\ req_in_progress = FALSE
    /\ req = [type |-> TypeIn, head |-> 0, write_size |-> 0]
    /\ avail_idx = 0 /\ host = "guest"
    /\ Backend!Init
    /\ drv = "setup" /\ causes = {} /\ seen = 0 /\ owned = {} /\ fresh = {}
    /\ dropped = {} /\ stale = FALSE
-----------------------------------------------------------------------------
(* queue_notify and the device's part *)

EnterNotify ==
    /\ avail_idx' = AvailIdx(Q)
    /\ host' = "notify"

QueueNotify ==
    /\ EnterNotify
    /\ UNCHANGED <<virtioVars, req_in_progress, req, backend, history>>

NotifyReturns ==
    /\ host = "notify"
    /\ queue[Q].last_avail_idx = avail_idx
    /\ host' = "guest" /\ avail_idx' = 0
    /\ UNCHANGED <<virtioVars, req_in_progress, req, backend, driver, history>>

Candidate == NextHead(Q)
CandidateChain == ChainOf(Q, Candidate)
Processing == host = "notify" /\ queue[Q].last_avail_idx # avail_idx

HeaderOf(c) == CopyFromQueue(c, 0, HeaderSize)
TypeOf(c) == HeaderOf(c)[1]
SectorOf(c) == HeaderOf(c)[2]
ReadSize(c) == Len(ReadableCells(c))
WriteSize(c) == Len(WritableCells(c))

\* The chain is malformed, or has no header, or is neither a read nor a write:
\* it is stepped over, and never put in the used ring.
HasHeader(c) == WellFormed(c) /\ CanCopyFrom(c, 0, HeaderSize)
IsRequest(c) == HasHeader(c) /\ TypeOf(c) \in {TypeIn, TypeOut}

Drop ==
    /\ Processing
    /\ ~WellFormed(CandidateChain) \/ ~req_in_progress
    /\ ~IsRequest(CandidateChain)
    /\ req' = IF HasHeader(CandidateChain) /\ ~req_in_progress
              THEN [req EXCEPT !.type = TypeOf(CandidateChain),
                               !.head = Candidate]
              ELSE req
    /\ Advance(Q)
    /\ dropped' = dropped \cup {Candidate}
    /\ UNCHANGED <<registers, ram, req_in_progress, avail_idx, host, backend,
                   driver, stale>>

\* Faulty: returns 0 when a request is in progress.
StopAndSkip ==
    /\ Processing
    /\ WellFormed(CandidateChain)
    /\ req_in_progress
    /\ Advance(Q)
    /\ UNCHANGED <<registers, ram, device, backend, driver, history>>

\* A request is in progress: the notification stops before this chain.
Stop ==
    /\ Processing
    /\ WellFormed(CandidateChain)
    /\ req_in_progress
    /\ host' = "guest" /\ avail_idx' = 0
    /\ UNCHANGED <<virtioVars, req_in_progress, req, backend, driver, history>>

\* read_async or write_async is called.
Submit ==
    /\ Processing
    /\ IsRequest(CandidateChain) /\ ~req_in_progress
    /\ LET c == CandidateChain
           w == TypeOf(c) = TypeOut
           n == IF w THEN ReadSize(c) - HeaderSize ELSE WriteSize(c) - 1
           b == IF w THEN CopyFromQueue(c, HeaderSize, n)
                ELSE [i \in 1 .. n |-> Garbage]
       IN  /\ req' = [type |-> TypeOf(c), head |-> Candidate,
                      write_size |-> IF w THEN req.write_size
                                     ELSE WriteSize(c)]
           /\ request' = [is_write |-> w, sector_num |-> SectorOf(c), data |-> b]
           /\ buffer' = b
    /\ moved' = 0 /\ busy' = TRUE
    /\ host' = "backend"
    /\ UNCHANGED <<virtioVars, req_in_progress, avail_idx, disk, driver,
                   history>>

\* virtio_block_req_end: the buffer and the status go to the guest.
ReqEnd(ok) ==
    LET s == IF ok THEN StatusOK ELSE StatusErr
        b == IF req.type = TypeIn THEN Append(buffer, s) ELSE <<s>>
    IN  /\ data' = CopyToQueue(ChainOf(Q, req.head), b)
        /\ ConsumeDesc(Q, req.head)
        /\ UNCHANGED <<desc, status, queue_sel>>

\* The block device has answered at once, well or with an error.
SyncEnd ==
    /\ host = "backend"
    /\ \/ Backend!Complete /\ ReqEnd(TRUE)
       \/ Backend!Fail /\ ReqEnd(FALSE)
    /\ Advance(Q)
    /\ host' = "notify"
    /\ UNCHANGED <<req_in_progress, req, avail_idx, driver, history>>

\* Faulty: does not say that a request is in progress.
AsyncReturnIdle ==
    /\ host = "backend"
    /\ moved < Len(buffer)
    /\ Advance(Q)
    /\ host' = "notify"
    /\ UNCHANGED <<registers, ram, req_in_progress, req, avail_idx, backend,
                   driver, history>>

\* It will answer later.  The buffer of a write is freed at once.
AsyncReturn ==
    /\ host = "backend"
    /\ moved < Len(buffer)
    /\ req_in_progress' = TRUE
    /\ buffer' = IF req.type = TypeOut
                 THEN [i \in 1 .. Len(buffer) |-> Garbage] ELSE buffer
    /\ Advance(Q)
    /\ host' = "notify"
    /\ UNCHANGED <<registers, ram, req, avail_idx, disk, request, moved, busy,
                   driver, history>>

Transfer ==
    /\ host \in {"backend", "guest"}
    /\ \E n \in 1 .. Len(buffer) - moved : Backend!Transfer(n)
    /\ UNCHANGED <<virtioVars, device, driver, history>>

Configured(q) ==
    0 \notin {queue[q].desc_addr, queue[q].avail_addr, queue[q].used_addr}

\* Faulty: does not go on with the queue.
CallbackOnly ==
    /\ host = "guest" /\ ~stale
    /\ Backend!Complete
    /\ ReqEnd(TRUE)
    /\ req_in_progress' = FALSE
    /\ UNCHANGED <<queue, req, avail_idx, host, driver, history>>

\* Faulty: goes on while the request is still marked.
CallbackStillBusy ==
    /\ host = "guest" /\ ~stale
    /\ Backend!Complete
    /\ ReqEnd(TRUE)
    /\ EnterNotify
    /\ UNCHANGED <<queue, req_in_progress, req, driver, history>>

\* virtio_block_req_cb
Callback ==
    /\ host = "guest" /\ ~stale
    /\ Backend!Complete
    /\ ReqEnd(TRUE)
    /\ req_in_progress' = FALSE
    /\ EnterNotify
    /\ UNCHANGED <<queue, req, driver, history>>

\* virtio_reset leaves req_in_progress and req alone: a request that ends after
\* a reset is given to whatever is now at its place, the rings of the next
\* driver or the memory at address 0, and the model stops there.
LateCallback ==
    /\ host = "guest" /\ stale
    /\ Backend!Complete
    /\ host' = "undefined"
    /\ UNCHANGED <<virtioVars, req_in_progress, req, avail_idx, driver, history>>
-----------------------------------------------------------------------------
(* The driver in the guest.  drv is "setup" after a reset, "zeroed" when it  *)
(* has cleared the memory it will use, "run" when the device is live, "ack" *)
(* when its interrupt handler has read the causes, "scan" when it has        *)
(* acknowledged them and goes through the used ring.                         *)

ClearRings ==
    /\ drv = "setup"
    /\ drv' = "zeroed"
    /\ ring' = [a \in Addr |-> [idx |-> 0, ring |-> [h \in DescIdx |-> 0]]]
    /\ desc' = [a \in Addr |-> [h \in DescIdx |-> <<>>]]
    /\ data' = [x \in Cell |-> 0]
    /\ UNCHANGED <<registers, queue, device, backend, causes, seen, owned,
                   fresh, history>>

SetUp ==
    /\ drv = "zeroed"
    /\ \/ \E v \in 0 .. NQueues : WriteQueueSel(v)
       \/ \E v \in {0, MaxQueueNum} : WriteQueueNum(v)
       \/ \E i \in 1 .. Len(Layout) :
            /\ \A j \in 1 .. i - 1 : queue[Q][Layout[j].field] # 0
            /\ WriteQueueAddr(Layout[i].field, Layout[i].addr)
       \/ Configured(Q) /\ WriteQueueReady(1)
    /\ UNCHANGED <<device, backend, driver, history>>

DriverOK ==
    /\ drv = "zeroed"
    /\ queue[Q].ready = 1 /\ Configured(Q)
    /\ WriteStatus(4)
    /\ drv' = "run"
    /\ UNCHANGED <<device, backend, causes, seen, owned, fresh, history>>

Reset ==
    /\ WriteStatus(0)
    /\ drv' = "setup"
    /\ causes' = {} /\ seen' = 0 /\ owned' = {} /\ fresh' = {}
    /\ dropped' = {} /\ stale' = req_in_progress
    /\ UNCHANGED <<device, backend>>

\* The chain of template t in the buffers of head h, and its contents.
ChainAt(h, t) == ChainFrom(h * MaxCells, t.chain)

\* The driver makes a request available, with the first free descriptor.
Post(h, t) ==
    /\ drv = "run"
    /\ h < queue[Q].num /\ h \notin owned /\ 0 .. h - 1 \subseteq owned
    /\ desc' = [desc EXCEPT ![queue[Q].desc_addr][h] = ChainAt(h, t)]
    /\ data' = [x \in Cell |->
                  IF x \in h * MaxCells .. ((h + 1) * MaxCells) - 1
                  THEN LET i == x - (h * MaxCells) + 1
                       IN  IF i \in DOMAIN t.contents THEN t.contents[i]
                           ELSE Garbage
                  ELSE data[x]]
    /\ ring' = [ring EXCEPT ![queue[Q].avail_addr] = WithEntry(Q, @, h)]
    /\ owned' = owned \cup {h} /\ fresh' = fresh \cup {h}
    /\ UNCHANGED <<registers, queue, device, backend, drv, causes, seen, history>>

Notify ==
    /\ drv = "run"
    /\ fresh # {}
    /\ fresh' = {}
    /\ QueueNotify
    /\ UNCHANGED <<drv, causes, seen, owned>>

\* The interrupt handler: with MMIO it reads the causes, then acknowledges
\* them; with PCI one read does both.
ReadCauses ==
    /\ drv = "run" /\ irq = 1
    /\ drv' = "ack"
    /\ causes' = int_status
    /\ UNCHANGED <<virtioVars, device, backend, seen, owned, fresh, history>>

Acknowledge ==
    /\ drv = "ack"
    /\ InterruptAck(causes)
    /\ drv' = "scan" /\ causes' = {}
    /\ UNCHANGED <<device, backend, seen, owned, fresh, history>>

AcknowledgePCI ==
    /\ drv = "run" /\ irq = 1
    /\ ReadISR
    /\ drv' = "scan"
    /\ UNCHANGED <<device, backend, causes, seen, owned, fresh, history>>

\* The used entries the driver has not read, first the oldest.
Unseen ==
    LET u == ring[queue[Q].used_addr]
    IN  [i \in 1 .. (u.idx - seen) % IdxSize |-> u.ring[Slot(Q, seen + i - 1)]]

Scan ==
    /\ drv = "scan"
    /\ drv' = "run"
    /\ seen' = ring[queue[Q].used_addr].idx
    /\ owned' = owned \ Range(Unseen) /\ fresh' = fresh \ Range(Unseen)
    /\ UNCHANGED <<virtioVars, device, backend, causes, history>>

Driver ==
    /\ host = "guest"
    /\ \/ ClearRings \/ SetUp \/ DriverOK \/ Reset
       \/ \E h \in DescIdx, t \in Template : Post(h, t)
       \/ Notify \/ ReadCauses \/ Acknowledge \/ AcknowledgePCI \/ Scan

Device ==
    \/ NotifyReturns \/ Drop \/ Stop \/ Submit \/ SyncEnd \/ AsyncReturn
    \/ Transfer \/ Callback \/ LateCallback

Next == Driver \/ Device

Spec == Init /\ [][Next]_vars

\* The program goes on with what it has begun and the block device answers in
\* the end.  Nothing is assumed of the driver.
FairSpec == Spec /\ WF_vars(Device)
-----------------------------------------------------------------------------
(* Properties *)

Live == drv \in {"run", "ack", "scan"} /\ host # "undefined"

\* The chains made available that queue_notify has not come to.
Pending ==
    LET a == ring[queue[Q].avail_addr]
        l == queue[Q].last_avail_idx
    IN  [i \in 1 .. (a.idx - l) % IdxSize |-> a.ring[Slot(Q, l + i - 1)]]

\* Is one of them covered by a notification?
NotifiedWaiting == ~(Range(Pending) \subseteq fresh)

\* The chain in the hands of the block device.
InService ==
    IF busy /\ ~stale THEN {req.head} ELSE {}

\* virtio_consume_desc, last_avail_idx and the return value -1 of the device
\* (virtio.c:119) together: no chain that the driver has given to the device is
\* forgotten, taken twice or given back twice, whatever the wrap-around of the
\* indices.  It is waiting in the available ring, or with the block device, or
\* in the used ring, or was stepped over, and only one of these.  (While
\* read_async runs, last_avail_idx is still at the chain being served.)
ChainsAccounted ==
    Live =>
        LET waiting == IF host = "backend" THEN Tail(Pending) ELSE Pending
        IN  /\ owned = UNION {Range(waiting), InService, Range(Unseen), dropped}
            /\ IsInjective(waiting) /\ IsInjective(Unseen)
            /\ Len(waiting) + Cardinality(InService) + Len(Unseen)
                 + Cardinality(dropped) = Cardinality(owned)

\* An interrupt is not lost between virtio_consume_desc and the two ways to
\* acknowledge it: as long as the driver has not read a used entry the line is
\* up, or its handler is on the way to the used ring.
UsedIsSignalled ==
    /\ LineIsLevel
    /\ Live /\ Unseen # <<>> => irq = 1 \/ drv \in {"ack", "scan"}

\* virtio.c:119: a notification stopped by -1 must be restarted later.  When
\* the guest runs, chains that it has notified are left in the available ring
\* only while a request is in progress, whose end goes on with them.
StoppedIsRestarted ==
    Live /\ host = "guest" /\ NotifiedWaiting => req_in_progress

\* The fields of the request in progress are not reused: the block device is
\* busy exactly with that one, and is never given a second.
OneRequest ==
    /\ host \in {"guest", "notify"} => (busy <=> req_in_progress)
    /\ host = "backend" => busy /\ ~req_in_progress

\* A read that ends well fills the writable part of its chain, however it is
\* divided in descriptors, with the sectors of the disk and the status, and no
\* other byte of the guest is changed.  Its chain is still the one of the
\* request, unless it is older than a reset.  (A read of no sector may fail when
\* it has moved all of them.)
ReadsDeliver ==
    [][~stale /\ Live /\ req.type = TypeIn /\ busy /\ ~busy' /\ moved = Len(buffer)
         => LET c == ChainOf(Q, req.head)
                w == WritableCells(c)
            IN  /\ Len(w) = Len(buffer) + 1
                /\ \A i \in 1 .. Len(buffer) : data'[w[i]] = disk[SectorOf(c) + i - 1]
                /\ buffer # <<>> => data'[w[Len(w)]] = StatusOK
                /\ \A x \in Cell \ Range(w) : data'[x] = data[x]]_vars

\* readme.txt:142 says that a disk image may be served over HTTP, and
\* block_net.c:66 that modified data is stored: a write that ends well leaves
\* on the disk what the driver had in its buffers.
WritesReachDisk ==
    [][~stale /\ Live /\ req.type = TypeOut /\ busy /\ ~busy' /\ moved = Len(buffer)
         => LET c == ChainOf(Q, req.head)
            IN  \A i \in 1 .. ReadSize(c) - HeaderSize :
                  disk[SectorOf(c) + i - 1]
                    = CopyFromQueue(c, HeaderSize + i - 1, 1)[1]]_vars

\* What is notified is taken in the end, also behind requests that last, unless
\* the driver resets the device.
NotifiedIsTaken ==
    (Live /\ NotifiedWaiting) ~> (~Live \/ ~NotifiedWaiting)
=============================================================================
