# TinyEMU in TLA+

TinyEMU runs a RISC-V (or PC) machine in one process, on a desktop or in a
browser. This directory holds TLA+ specifications of the parts of it whose
correctness depends on the order of events, the TLC instances that check them
and TLAPS proofs of the properties that matter most. The code modelled is the C
code of `src/source_c`; `PROJECT.json` gives, for every definition, the lines it
translates.

    tlc -workers 2 -config MCBlockNet.cfg MCBlockNet      # a run
    tlapm BlockNetProofs.tla                              # a proof

Contents: [the program](#the-program), [modules](#modules-and-code),
[runs](#runs), [proofs](#proofs), [findings](#findings),
[not modelled](#not-modelled), [plan](#plan).

## The program

The program has one thread. `virt_machine_run` (temu.c) repeats three steps: ask
the machine how long it may sleep (which also raises the timer interrupt), poll
the host's descriptors and run the devices' callbacks, interpret a slice of guest
instructions. Nothing is preempted, so every hard behaviour comes from one of
these:

- a register access of the guest runs a device to the end of its handler, inside
  an instruction;
- a device that cannot answer at once returns "later", and its callback runs from
  the event loop between two slices, when the guest has gone on, has reset the
  device, or has posted more requests;
- a callback may call back into its client, which may make the next request
  before the callback's caller has finished;
- values cached for speed (host addresses, blocks, dirty bits) must be dropped
  by whoever makes them wrong.

| part | state | operations | interacts with | what makes it correct |
|---|---|---|---|---|
| HTTP block device, `block_net.c` | LRU list of blocks being loaded or loaded, written clusters, the request in progress, downloads | `read_async`, `write_async`, prefetch, end of a download | called by virtio block and IDE; calls `fs_wget`, and its client when a request ends | it is a disk: what is read is what was written, else the image; each request ends once; no download fills a freed block |
| virtio transport, `virtio.c` | registers, queues, rings in guest memory | register accesses of MMIO and PCI, `queue_notify`, `virtio_consume_desc` | the guest's driver, each device, the interrupt lines | no chain lost or used twice; no interrupt lost |
| virtio block, `virtio.c` | the request in progress | `virtio_block_recv_request`, `virtio_block_req_cb` | transport, block device | one request at a time, the queue restarted after it, data to the right cells |
| virtio network, console, input | host-filled queues, button state | packets and events from the host | transport, event loop | no event torn or repeated |
| virtio 9P, `virtio.c`; `fs_disk.c`, `fs_net.c` | fids; inodes with reference and open counts, load states, cache | 9P requests, asynchronous open, downloads, archives | transport, `fs_wget` | no fid or inode used after it is freed; every open ends; cache limit |
| HTTP transfers, `fs_wget.c` | transfers, decryption | start, data, end, error | `curl` or the browser | each transfer ends once, and errors are told |
| MMU and TLBs, `riscv_cpu.c` | page tables in RAM, three TLBs, the interpreter's code pointer | walks, hits, CSR writes, traps, `sfence.vma` | memory map, display | nothing cached is refused by the current state, or outlives a fence |
| traps and interrupts, `riscv_cpu.c` | mstatus, mip, mie, mideleg, sleep | traps, returns, CSR writes, `wfi` | CLINT, PLIC, interpreter loop | no interrupt or wake-up lost; traps nest |
| machine, `riscv_machine.c`, `temu.c` | timecmp, lines up, lines claimed | CLINT and PLIC registers, `set_irq`, sleep, slice | hart, devices | the timer is never early and is seen; lines are reported |
| memory map, `iomem.c`; `simplefb.c` | ranges, dirty bits in two buffers | registration, dirty bits taken at each refresh | MMU, display | every change of the framebuffer is drawn |
| IDE, `ide.c` | registers, buffer, transfer in progress | PIO commands, asynchronous ends, reset | block device, PC interrupt lines | a transfer belongs to the command that began it |
| PS/2, `ps2.c`, `pckbd.c`; `vmmouse.c` | bounded queues, controller status | keys, mouse, commands | interrupt lines, host's events | the stream stays in step; lines follow the queues |
| PCI, PC machine, VGA | lines shared, ROM and BAR mapping, interrupt controllers, timer, clock | configuration accesses, end of an interrupt | devices, KVM | shared lines stay up until all let go; edges are not lost; requests reach the CPU |
| interpreter, floating point | registers, flags | arithmetic instructions | hart | the exact result, rounded once, with its flags |
| parsers, AES, SHA-256, tools | none that lasts | pure functions | | values, better tested than model-checked |

## Modules and code

    Disk  <-- refinement --  BlockNet          Virtio  <-- extends --  VirtioBlock --> Disk
                             BlockNetProofs    VirtioProofs            VirtioBlockProofs
                             MCBlockNet                                MCVirtioBlock
    RiscvMmu                                   RiscvHart <-- extends -- RiscvMachine
    RiscvMmuProofs, MCRiscvMmu                                          RiscvMachineProofs, MCRiscvMachine

    HostFifo  <-- refinement --  VirtioHost --> Virtio        FsNet <-- FsFile <-- Virtio9p
                                 VirtioHostProofs, MCVirtioHost                    MCVirtio9p
    Softfp <-- RiscvFpOps <-- RiscvArith --> FloatReference   Pic <-- Ide, I8042 <-- PcMachine
                              MCRiscvArith                                           PcMachineProofs, MCPcMachine

VirtioBlockProofs, VirtioHostProofs and PcMachineProofs use **Loops**, which is about
no part of the program: a loop of n turns over a value, what it computes and what it keeps.

**Disk** is the abstract specification of `struct BlockDevice` (virtio.h): one
request at a time; it moves its sectors in ascending order, in pieces, between
the caller's buffer and the disk, and completes once all have been moved, or
fails having moved none. VirtioBlock uses it as its block device (so it covers
the raw file of temu.c, the snapshot mode and the HTTP device), and BlockNet is
shown to implement it.

**BlockNet** is `block_net.c`. Each iteration of the loop of `bf_rw_async1` is an
action (`RwCluster`, `RwWait`, `RwAllocCluster`, `RwRead`, `RwStartLoad`,
`RwEnd`), as are the eviction loop of `bf_add_block` (`Evict`), the prefetch of
`bf_init_onload` and `bf_update_block` for each block of a group. There is one
thread, so `rw` and `host` stand for the call stack: they tell whether the loop
is active and what it returns to. `heap` holds the `CachedBlock`s by address,
so that a download that keeps an address of a freed block is seen.

**Virtio** is the transport: the registers of the MMIO binding and the
acknowledging read of the PCI one, the queues, the descriptor chains and the
copies along them. Guest memory is three maps a driver keeps apart: rings,
descriptor tables and buffers; a cell of a buffer is a header field, a sector or
a status byte. **VirtioBlock** adds the block device and a driver that, in any
order the specification of virtio lets it, configures its queue, posts chains,
notifies (or not yet), reads the causes of an interrupt, acknowledges them,
walks the used ring and resets. The steps of `queue_notify` are actions with
`host # "guest"`, in which the guest does not run. A request that outlives a
reset and ends when the queue points elsewhere (`LateCallback`) writes wherever
the registers point then: the model goes to `host = "undefined"` and stops there,
which is why this module's runs do not check deadlock. BlockNet's do not either,
because the program may exit on a failed download.

**RiscvMmu** is address translation. A page stands for its addresses, and the
page table is the leaf found for each page, with its accessed and dirty bits:
the levels above only find the leaf. `get_phys_addr` is the operators `Untranslated`,
`Permits`, `Touched` and `Walked`; hits, walks and faults of each kind of access
are actions; so are every CSR write that flushes or should, `sfence.vma`, traps,
returns, stores to page tables, stores of devices and the refresh of the display
(`Refresh`, which takes the dirty bits and drops the framebuffer's write
entries). `code` is the pointer the interpreter keeps into the current code page,
which lives until the end of the block of instructions. Two history variables
hold what a guest may rely on: `stale` (leaves rewritten and not yet fenced) and
`unshown` (framebuffer pages changed since they were drawn); an entry also
remembers its leaf.

**RiscvHart** is traps, returns, delegation, the choice of the interrupt, `wfi`
and the registers that decide them, including the XLEN of each privilege.
**RiscvMachine** adds the CLINT's timer (`timecmp` is written in two halves), the
PLIC and the three phases of the main loop. `block` says that the interpreter is
inside a block, where interrupts are not looked at. The history variable `saved`
holds what the last trap to each level interrupted, until it returns or the guest
writes the status register. A write of `sip` replaces every delegated bit, the level
the PLIC drives among them; `seip_written` remembers that the guest has changed SEIP so,
until the PLIC drives it again, and `LinesAreReported` speaks of SEIP when it has not.
`timecmp` and the clock are numbers below `Width`, and their difference is read as a
signed one, as in the code. Causes, program counters and trap values are left out.

**VirtioHost** is the network, console and input devices on Virtio: queue 0, which
`manual_recv` leaves to the host, and queue 1 for what the guest sends. A call of
the host (a packet, typed bytes, a key, a movement with its buttons, a new size of the
console) runs to its end as an action. The driver posts chains, reads the causes,
acknowledges them, walks the used rings and resets, in any order.
**HostFifo** is the abstract specification: the driver receives whole messages, once
and in order; a call may be cut after any of its messages, since that is what the code
does when the queue is full half way (`virtio.c:1502`).

**FsNet** and **FsFile** are `fs_net.c` as operators on one record `s`, each of which
returns the state its C function leaves: inodes with their two counts, directory
entries, the states of a file, open records, transfers, the cache list and its sizes,
archives, base URLs and the commands of `.fscmd`. A failed assertion, and the use of what
has been freed, stop the program and put a name in `s.stop`. **Virtio9p** is the 9P
device on it and the event loop that calls back transfers. An open that had to wait
ends inside such a callback and handles the next requests there, in the middle of the
loop over an archive's members; `stack` is that call stack. The guest opens what it has
walked to, gives files their URL at any time, has up to two commands with a transfer under
way, and keeps fid 1 on the root and fid 2 on `.fscmd`; there is one base URL. `lent` marks
a file that was given its URL while a fid had it open: that fid may write to it while it is
loaded, so `LoadedIsTheServers` speaks of its size only. The post and read
callbacks of a command, and encrypted commands, are not modelled.

**Softfp** is `softfp_template.h` for a format of any size, with the sizes the source
has as macros as constants; **RiscvFpOps** instantiates it per format as the
instructions use it, and **RiscvArith** is the instructions that compute: integer,
multiplication, division, atomic operations on a word, floating point with boxing,
rounding modes, flags and the state FS. Products of two words are computed in halves
and division by shifts and subtractions, as the source does where no type is wide enough.
**FloatReference** is what the result should be, the exact value as a fraction rounded
once, and shares nothing with Softfp. `add_sf` wants three bits below the mantissa,
hence exponents of 5 bits or more. The model keeps what the code does to the register
state: comparisons and conversions to integers change the flags without making FS dirty, and
sign injections and `fmv` leave the upper bits as the code does. Loads and stores of
floats are not modelled.

**Pic** is the two interrupt controllers of `x86_machine.c`, as operators on a record.
**Ide** is `ide.c` with one drive, over a block device that refuses, answers at once or
answers later, and a driver that moves sectors by number or by cylinder, with
interrupts or by polling, and may give a command up by a reset. **I8042** is the PS/2
keyboard and mouse, their controller and the VMware mouse in front of them; its
operators collect the calls of `set_irq` a C function makes. **PcMachine** composes
them with the timer, the clock, PCI devices that share lines, and a guest whose
handlers end an interrupt in one of two styles: mask the line and end the
interrupt first, as Linux does, or end it when the device has been served. The CPU is a
stub in the repository, and external here: it takes an interrupt whenever the pin is up
and it is in no handler. Parts of `x86_machine.c`, `pckbd.c` and `pci.c` are on
their way to D and write `s.irr` for `s->irr`; they are read as the C they were.
The guest of a drive has no way to see a request that outlives a reset, so that its next
command may overtake one: the block device then goes on with what it was asked last, or with
nothing, as `block_net.c` does, and `overtaken` remembers it. That guest counts the words of
a block as the drive does. The sectors of a request move together, when it ends, and a
request beyond the drive is refused. The guest of the keyboard controller gives commands at
any time, and reads the status and the byte in two steps (`ReadStatus`, `ReadByte`) with
events between them: `seen` is the device that the status showed, `crossed` remembers a
key between the two, `fits` whether everything fitted in the mouse's queue. No driver rotates
priorities. Late requests of the block device succeed: the code ignores their result
(`ide.c:401`). `With` evaluates its argument once and says nothing of the system.

## Runs

| run | what it asks | bounds |
|---|---|---|
| `block_net` | Downloads fill live blocks only; a waiting request waits for a block being loaded and is continued by it; the cache returns to its limit; requests end; the whole is a `Disk` | 3 blocks of 4 sectors, clusters of 2, a cache of 1 block, groups of 2; requests within and across clusters and blocks |
| `block_net_span` | A read across two clusters of a block (violated, see findings) | the same, one more request |
| `virtio_block` | No chain lost or used twice; no interrupt lost; a stopped queue restarted; one request at a time; reads fill exactly their cells; what is notified is taken | 1 queue of 2 chains, ring indices modulo 4, 2 sectors, 4 kinds of chains, two of them malformed |
| `virtio_block_write` | A write that ends well is on the disk (violated) | the same |
| `riscv_mmu` | What is cached is permitted, fenced, recorded in the page table and shown | 3 pages (kernel; user code or framebuffer; device, unmapped), TLBs of 1 entry, 3 values of mstatus |
| `riscv_mmu_mprv` | The same without the exception for MPRV (violated) | the same |
| `riscv_machine` | No wake-up, timer or line lost; handlers not entered twice; returns restore; sleepers wake and timers are taken | 1 line, halves of timecmp in {0, 1}, of 4 times in all, clock up to 1, one value per register |
| `riscv_arith` | Floating point rounds and compares as it should, in every mode; integer results are those of the identities that define them | floats of 8 bits (all of them as first operand) and of 14, registers of 14 bits, 23 integers on either side of each boundary |
| `virtio_host` | What the host hands over arrives whole, once and in order; no interrupt is lost | five devices, queues of 2 (4 for the mouse), up to 3 chains posted, indices modulo 4 |
| `virtio_9p` | Counts are uses; sizes add up; what is loaded is the server's; opens end; nothing freed is used and no assertion fails but in the ways `FaultsKnown` names | 8 inodes, 3 files (one an archive of the others), a cache of the archive's size, eight kinds of guests of 2 to 5 requests, two commands with transfers at once |
| `pc` | Transfers deliver, but for a command overtaken by the answer of one a reset gave up; edges are not lost; the mouse stays in step until its queue overflows or a key crosses a read; requests are served | registers of 2 bits, 8 sectors, blocks of 2, 2 commands and a reset; a mouse queue of 10 bytes with room for two packets, 2 events, 2 commands; 3 PCI devices on 2 lines |
| `riscv_xlen` | The interpreter always has a loop for the XLEN (violated) | every UXL and SXL |

The type invariants are those the proofs start from; the other properties relate several
parts of the state.

*Why the bounds are enough.* A cache of one block with groups of two forces
eviction beside blocks being loaded, growth beyond the limit and return to it;
three blocks let a download be evicted, replaced and asked again; a cluster
shares its block with another. Indices modulo 4 wrap around twice the ring
within a run and the queue of two holds one chain in service and one behind it.
TLBs of one entry make all pages compete, so every fill also evicts. One line
and one value per register are enough for the machine because the properties
relate levels, enable bits and phases; `timecmp` takes values on either side of half of
all times (`Width`), and `sip` is written with SEIP set; the proofs remove these bounds. A float of 5 and 2 bits has subnormals, ties, overflow and a sticky bit in every
operation, and all 256 values times 40 that sit at its boundaries; the larger format makes a
narrowing lose 5 bits. The cache of `virtio_9p` is smaller than the three files, so each
load may evict, and its archive holds the two files that guests also open, unlink and
truncate; its inodes, open records and transfers never run out (more of each
add no state); a third command beside two whose transfers are under way is the one request
that its bounds hide. Registers of two bits make an IDE address take two registers, with a carry, and
a count of 0 stand for four sectors, so that a transfer is two blocks, the last one shorter.
The queue of the mouse is full after two packets, so that movements add up, overrun it and
crowd an answer out of it; a reset leaves a request outstanding that the next command meets
or overtakes. The clock
stops at `MaxTime`, the only bound of a counter; `SleeperWakes` speaks of timers due
by then.

*Fairness.* BlockNet and VirtioBlock: the program goes on with what it has begun
(`WF` of the steps of its thread), and a download or the block device answers in
the end, possibly with a failure; neither the guest nor a client has to make
requests. RiscvMachine: time passes; the main loop does its next step; a block of
instructions ends, at the latest at the end of its page; the number of cycles
bounds a slice (`SF` of `EndSlice`, which is possible between two blocks only); every
slice begins with a look at the interrupts (`SF` of `TakeInterrupt`). PcMachine: the main loop runs the timer again and again (`WF` of
`Tick`) and a handler goes on (`WF` of `Handler`). That is needed: the end of an
interrupt does not update the pin (`x86_machine.c:604`), and only the next change of a
line does. The timer has the lowest priority in this code (line 7 is the highest), and
`RequestsAreServed` does not speak of it, since a clock that always ticks could starve
it. The safety properties use no fairness, and the other modules have no liveness
property: `OpensEnd` says as an invariant that whatever waits has a transfer that ends it.

## Proofs

For every value of the constants that satisfies the modules' assumptions, which are
what the code relies on:

- sizes are positive and values of their types; the client's requests lie within the
  disk, and the prefetch list within the image, which the code does not check;
- `NullAssumption`: a null pointer is neither a cell nor a block nor a cluster;
- `LayoutAssumption`, `QueueAssumption`: a driver keeps the parts of a queue at addresses
  of their own, and a queue is smaller than the range of its indices (in the code
  `MAX_QUEUE_NUM` is 16 and an index has 16 bits), without which a full ring looks empty;
- `HostAssumption`: the same of the two queues of the other devices; the name of a button
  and the contents of a packet are sequences;
- `BuffersAssumption`: a driver gives each chain of queue 0 cells of its own, as it would
  not know whose message it reads otherwise, and a chain for an input event room for one;
  `RequestAssumption`: the same of the requests to the disk, each with a byte for the
  status, which the code does not check (`virtio.c:1088` takes `write_size - 1`);
- `IdeAssumption`: the driver asks for sectors that the registers can address, 16
  heads at most; `Ps2Assumption`: a packet can carry a movement, the wheel's part of it
  is no larger than the others, the mouse's queue holds the longest answer (five bytes)
  and the room that is looked for is that of a packet at least (256, 16 and 4 bytes in
  the code);
- `PciAssumption`: PCI lines are among those that may follow their level and not the
  drive's (`pic2_init`; the machine takes 9 to 12). Line 12, which the mouse also
  drives, is allowed, since a guest of the model uses one device.

Every inductive invariant has been checked by TLC on the instance of its module
before it was proved.

- **BlockNetProofs**: `TypeCorrect`, `DownloadsLive`, `WaitsCorrect`, from the
  inductive invariant `IInv`: the list holds each live cell once, and no other
  (`ListInv`); no block is cached twice (`NumsInv`); each group in flight asks for a
  block and is not the one being delivered (`TabsInv`); while the loop runs the
  request is not complete and no loading block bears `cur_block_num` (`ControlInv`);
  with the three properties themselves. `ControlInv` is needed since the write path
  leaves `cur_block_num` behind: what makes this harmless is that the block it
  names is loaded by then, or has been freed and can only be loaded again by a
  request that sets it. `CacheStaysBounded` is the action property of the eviction.
  The refinement is in two steps. `ImplementsUnlessStale`: whatever the requests, the
  device is a disk as long as what it reads is the modified data; the map sends the
  cached image and the written clusters to the contents of the disk, and the steps of
  the loop that move no data to stutters. `ModifiedDataIsRead`: a client whose reads
  take no two clusters of one block reads modified data; `ImplementsTheDisk` combines
  them. That hypothesis is the negation of finding 1, and without it the theorem is
  false. The other one, that a block holds whole clusters, excludes the images whose
  blocks are smaller than a cluster, which the code reads past their end
  (`block_net.c:310`).
- **VirtioBlockProofs** (on **VirtioProofs**, lemmas about ring indices): `TypesHold`,
  `OneRequestAtATime`, `NoInterruptIsLost`, `StoppedHasARequest`, `NoChainIsLost` and
  `ReadsAreDelivered`. The
  inductive invariant adds to them that nothing is in the rings before set up, when a
  request of the block device is older than the reset (`SetUpInv`), that the index
  `queue_notify` has read is still that of the ring and the chain being served is
  the next one (`HostInv`), and that a chain is in exactly one of the available
  ring, the device, the unread part of the used ring, and those the device has
  dropped (`ChainsInv`). That sets of chains are disjoint, not only that their numbers add
  up, is what makes it inductive: the two windows of the rings move independently and
  wrap around. `ReadsAreDelivered` is the action property `ReadsDeliver`, from `DataInv`:
  the chain of a head that the driver has given away is still the one it was given
  (`ChainsInv` puts the request in service among them), and what a request to read has
  moved is in the sectors of its header, with one cell more in the chain than in the
  buffer (`ReadAtWork`). It needs that the cells of two heads are apart (`ZonesOf`), when
  the driver fills another chain meanwhile, and that those of one chain rise
  (`WritableFrom`), so that no cell is copied over twice (`CopyIs`).
- **VirtioHostProofs**: `TypesHold`, `HostIsAlwaysSignalled` and `MessagesArriveInOrder`.
  A call of the host hands over several messages in a loop; that it raises the line
  whenever it has used a chain is the comparison of its first and last index, and needs
  that a call never uses as many chains as make an index come round (`HandedKeeps`).
  `MessagesArriveInOrder` is the refinement of HostFifo, from the invariant `QueueInv`. What
  the driver may read or the device may fill is a value, the view of queue 0 (`View`), so that the
  turns of the loop and the steps of the program have one invariant, `ViewInv`: the heads
  in the unread part of the used ring, followed by those in the available ring, are
  different heads of the driver's (`HeadsInv`); the cells of each chain are its own and
  rise (`CellsInv`), so that filling one leaves the messages in the others; and no
  message is longer than its chain (`LensInv`). Putting a message in a chain, posting a
  chain and looking at the used ring keep it (`PutView`, `PostView`, `ScanView`) and do to
  the messages what the queue promises; a call does so as often as there is room
  (`CallKeeps`). That the heads differ is what needs fewer chains than a ring has slots
  and than an index has values (`SlotsApart`, `ModsDiffer`).
- **PcMachineProofs**: `RequestsAreKept`, `PioAlwaysDelivers` and `StreamStaysInStep`.
  The first two are from one invariant, `IInv`. The controllers (`LinesInv`): a line that is up and no longer latched is
  being served, before the device has been read, and does not follow its level. Each
  device keeps its line in step with its state (`ClockInv`, `PciInv`, `KbcInv`, `IdeInv`),
  so that when no handler runs every line up is latched. For the keyboard controller the
  invariant is kept by every operator on its record, with the calls of `set_irq` that it
  has collected (`KOK`). For the drive it says, of each
  state of a command, which sectors have been moved, what the buffer holds and where the
  registers point (`ReadInv`, `WriteInv`, `AtSector`): the count and the address survive
  the carries between the registers (`SetSectorIs`, `ByNumber`, `ByCylinder`), and a late
  answer of a command that a reset gave up changes nothing the driver relies on, as long as
  it comes before the next command: of a command that overtakes it the invariant keeps the
  types only (`IdeCore`).
  `StreamStaysInStep` adds `StreamInv`: what follows the last byte read, to the end of the
  queue, is a stream of whole messages (`Stream`), and between the status and the byte the
  device that the driver has seen still has a byte, the only one with any if it is the mouse
  and no key has come (`SeenInv`, which rests on what `KbcInv` says of the status register).
  A command may find bytes in the queue; its answer is whole where there is room for
  the longest (`Spacious`), which is what `fits` says of answers. Every
  operator of the keyboard, the mouse and the controller adds whole messages of so many
  bytes at most (`Grows`). For a movement that takes several packets that is a sum over
  the turns of a loop: each carries what is left, a full packet nearer to nothing, so that
  the turns that send are as many as the room has packets (`PacketsInv`, `PacketsGrow`),
  which is what `fits` says of the sum of movements. The VMware mouse's words are read an
  event at a time, of the size its first word tells (`WholeFirst`).
- **Loops** is lemmas about no part of the program: induction over the turns of a loop, by
  the least turn that would fail. The loops of the models over descriptors, messages, calls of `set_irq`, register writes
  and mouse packets are recursive functions, and their proofs instantiate this module.
- **RiscvMmuProofs**: `TypeCorrect`; `CachesAreSafe`, from `TlbPermitted` and
  `CodePermitted`, which are per access so that each flush is a step of its own;
  `DisplayIsComplete`, which needs that a page in the write TLB has its dirty bit
  (`WritesAreTracked`); `FencesWork` and `BitsAreSet`, from `AllInStep`, which ties
  each cached entry to the page table's leaf and bits at once.
- **RiscvMachineProofs**: `TypeCorrect`, `NoWakeupIsLost`, `TimerIsOnTime`,
  `NoLineIsLost`, each inductive with the types; `ReturnsAreRight` and
  `HandlersKeepWhatTheySaved`, from `TrapsAreSaved`: an open trap keeps its level's
  enable bit clear and its saved fields equal to what was interrupted
  (`MachineTrapIsSaved`, `SupervisorTrapIsSaved`), and a trap to the machine inside
  one to the supervisor came from the supervisor's handler or from the machine
  (`TrapsNest`), without which the return of the outer one could not be shown to
  keep the inner one.

Only model-checked:

- the liveness properties (`RequestEnds`, `NotifiedIsTaken`, `SleeperWakes`,
  `TimerIsTaken`, `RequestsAreServed`), which need fairness and ENABLED;
- the properties of `virtio_9p`, whose operators fold over lists, directories and archives
  and call each other as deep as the program's stack;
- the arithmetic, whose reference and algorithms are RECURSIVE operators.

## Findings

1. `block_net.c:290` A read that begins in a cluster never written takes the
   rest of its block from the cached image, although "modified data is stored per
   cluster" (`block_net.c:66`): sectors the guest has written in following
   clusters are read as they were in the image. Run `block_net_span`.
2. `virtio.c:1103` The buffer of a write is freed when `write_async` returns, also
   when it returns that it will end later. `block_net.c` keeps it and stores from
   it after a download. Run `virtio_block_write`.
3. `riscv_cpu.c:1114` `set_mstatus` flushes the TLBs when MPP changes under MPRV; a
   trap or `mret` that stays in machine mode changes MPP without a flush. Run
   `riscv_mmu_mprv`. The invariant `CachedArePermitted` states the rest of the
   property with this case named (`LentInMachineMode`).
4. `riscv_cpu.c:694` SXL is checked with the bits of UXL; an unsupported SXL is
   stored and the interpreter aborts. Run `riscv_xlen`.

Reached by the run `virtio_9p`, whose invariant `FaultsKnown` names them and excludes
every other fault, the failure of the other assertions the model has among them: a file posted
by a command that is not local fails `fs_net.c:2548`; a request that makes, links or renames a name in
something that is not a directory, which only some of the handlers refuse, fails
`fs_net.c:456`; a file created through a fid on a directory that has been removed is entered in it, and
the directory, which only the fid held, is then freed with an entry (`fs_net.c:1098` fails
`fs_net.c:376`); an archive unlinked while one of its members is in the hands of its callback
fails `fs_net.c:750`; the callback of one
member of an archive may free the open record of the next (`fs_net.c:768`); a file that cannot be
decrypted has its record freed while its transfer goes on (`fs_net.c:813`); renaming a name
onto itself uses a freed entry (`fs_net.c:1450`); a base URL reset twice is freed
(`fs_net.c:1662`); a file that is given its URL while a fid has it open becomes unloaded, with a size
and no buffer (`fs_net.c:1686`), and that fid's next read or write uses the null buffer
(`fs_net.c:1279`). Such a fid may also write to the file while it is loaded, and what is then said to
be loaded is not the server's content (`lent` in `LoadedIsTheServers`).

Reached by `pc`, and excepted by name in its properties, since the code does go wrong there:

- a reset does not end the request of the command that is given up, and shows a drive that is ready
  (`ide.c:706`). The block device ends it in the middle of the next command, which takes
  its data as its own (`ide.c:401`); or the next request replaces it (`block_net.c:370`) and its end is
  never told. `PioDelivers` and `RequestsNotLost` except such a command (`overtaken`);
- movements that add up while the mouse's queue is full are sent without a further look at the
  room (`ps2.c:323`); beyond four packets single bytes are dropped and the driver loses its
  step. So does an answer to a command that comes when the queue has no room for all of
  it (`ps2.c:119`). `StreamInStep` excepts both (`fits`);
- the device of a read is chosen when it is made (`pckbd.c:257`), so that a key that comes after the
  driver has read the status gives it a byte of the keyboard as the mouse's (`crossed`).

Seen while reading, and not the subject of a run:

- the mask of `mie` lacks MEIP (`riscv_cpu.c:987`), so the machine's external interrupt is never enabled;
- a write of the low half of `timecmp` clears the high half (`riscv_machine.c:229`: `~0xffffffff` is the
  number 0 in 32 bits, and widened as such), so that a guest must write the low half first;
- `timecmp - time` is read as a signed number (`riscv_machine.c:973`): a `timecmp` of `time` + 2^63 or
  more, the all ones of a guest that wants no timer among them, raises the timer at once;
- MPP may be written as 2 (`riscv_cpu.c:1146`); a write of `sip` replaces the level the PLIC drives (`riscv_cpu.c:933`);
- code of a user page that the supervisor runs with SUM goes on after SUM is cleared (`riscv_cpu.c:959`), which
  `CachedArePermitted` excepts;
- an unaligned store into a page that faults has stored its first bytes (`riscv_cpu.c:452`); a
  reservation is a virtual address that nothing clears (`riscv_cpu_template.h:1391`);
- `temu.c:575` gives `select` milliseconds as microseconds;
- `prefetch_group_len` 0 makes `block_net.c:505` loop; a block smaller than a cluster is read past its end (`block_net.c:310`);
- a packet larger than the first posted buffer is dropped and the buffer stays first (`virtio.c:1210`);
- a transfer that fails before any answer has the HTTP code 0, which its client takes for the end of the file (`fs_wget.c:273`);
- the keyboard controller's answer to READ_MODE goes to the mouse's queue (`pckbd.c:194`);
- the PIRQ of a PCI device may be routed to line 12, which the mouse also drives: each lowers the other's level (`pci.c:511`); the model routes PCI to lines 10 and 11;
- `pic_get_irq` returns a priority where its callers want a line: the two differ once priorities are rotated.

The list of hazards in `PROJECT.json` says which property covers which.

## Not modelled

`PROJECT.json` lists every part with its reason. In short: the D port is a
transcription of the same hart and memory map; VGA, SDL and the JavaScript front end are
output and glue; JSON, command line and machine start run once; AES and SHA-256 are
third-party code; `fs_disk.c` keeps no state between two system calls. Within modelled
parts: upper levels of page tables, unaligned accesses across pages, LR/SC, the decoding of
instructions and jumps, the memory ranges the PC moves, HTIF, the virtio configuration space but
for the console's size, the 9P marshalling, the file list's parser, the second IDE drive,
the counters of the PC's timer, its date, its serial port (which the machine does not create), KVM.

## Plan

Done: every module above. What would come next:

1. Proofs: `CountsAreUses` of Virtio9p operator by operator.
2. RiscvMmu with LR/SC and accesses that cross pages; the memory map's ranges and BARs
   of PCI devices.
3. A block device that fails late under Ide, once `ide.c` looks at the result.
