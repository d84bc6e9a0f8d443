--------------------------------- MODULE Ide ---------------------------------
(***************************************************************************)
(* The IDE interface with one drive (ide.c), over a block device that      *)
(* serves a request at once, later or not at all, and the driver of the    *)
(* guest that moves the data.  What the code counts in words of the data   *)
(* register is counted in sectors.                                         *)
(***************************************************************************)
EXTENDS Pic

CONSTANTS
    RegSize,          \* 2^8, the values of a register
    Heads, Sectors,   \* the geometry
    MAX_MULT_SECTORS,
    NbSectors,        \* sectors of the drive
    IdeCommands,      \* the commands [cmd, lba, first, count] of the driver
    MaxCommands,      \* how many of them it gives
    MaxResets         \* how often it resets the interface

\* The sectors that the registers can name, by number or by cylinder.
Capacity(lba) ==
    IF lba THEN 16 * (RegSize * RegSize * RegSize) ELSE RegSize * RegSize * Heads * Sectors

IsWrite(c) == c.cmd \in {"WRITE", "MULTWRITE"}
IsTransfer(c) == c.cmd \in {"READ", "MULTREAD", "WRITE", "MULTWRITE"}
CountOf(c) == IF c.count = 0 THEN RegSize ELSE c.count

\* The driver asks for sectors that it can address.
ASSUME IdeAssumption ==
    /\ RegSize \in Nat \ {0, 1} /\ NbSectors \in Nat \ {0}
    /\ MAX_MULT_SECTORS \in Nat \ {0}
    /\ Heads \in 1 .. 16 /\ Sectors \in Nat \ {0}
    /\ IdeCommands \subseteq [cmd : STRING, lba : BOOLEAN, first : Nat, count : 0 .. RegSize - 1]
    /\ \A c \in IdeCommands :
         /\ IsTransfer(c) => c.first + CountOf(c) <= Capacity(c.lba)
         /\ c.cmd = "READ_NATIVE_MAX" => NbSectors <= Capacity(c.lba)

VARIABLES
    drive,     \* registers, transfer and buffer of the drive
    ide_cmd,   \* the control register, a subset of {"reset", "disable_irq"}
    disk,      \* sector -> contents
    request,   \* the request the block device is serving, if any
    ide_drv    \* the driver

ideVars == <<drive, ide_cmd, disk, request, ide_drv>>

NoRequest == [is_write |-> FALSE, sector |-> -1, n |-> 0]
NoCommand == [cmd |-> "none", lba |-> TRUE, first |-> 0, count |-> 0]
IRQ_IDE == 14

IdeInit ==
    /\ drive = [nsector |-> 0, sector |-> 0, lcyl |-> 0, hcyl |-> 0, lba |-> FALSE, head |-> 0,
                status |-> {"ready", "seek"}, error |-> FALSE,
                mult_sectors |-> MAX_MULT_SECTORS, io_nb_sectors |-> 0, req_nb_sectors |-> 0,
                end_transfer |-> "stop", data_index |-> 0, data_end |-> 0,
                io_buffer |-> [i \in 1 .. MAX_MULT_SECTORS |-> <<"zero", 0>>]]
    /\ ide_cmd = {}
    /\ disk = [n \in 0 .. NbSectors - 1 |-> <<"old", n>>]
    /\ request = NoRequest
    /\ ide_drv = [at |-> "idle", command |-> NoCommand, got |-> <<>>, sent |-> 0,
                  overtaken |-> FALSE, commands |-> 0, resets |-> 0]
-----------------------------------------------------------------------------
(* Registers and transfers *)

\* ide_set_irq
IdeIrq == IF "disable_irq" \in ide_cmd THEN <<>> ELSE << <<IRQ_IDE, 1>> >>

ide_transfer_start(d, size, end) ==
    [d EXCEPT !.end_transfer = end, !.data_index = 0, !.data_end = size]
ide_transfer_stop(d) == ide_transfer_start(d, 0, "stop")

ide_abort_command(d) == [d EXCEPT !.status = {"ready", "err"}, !.error = TRUE]

ide_get_sector(d) ==
    IF d.lba THEN ((((d.head * RegSize) + d.hcyl) * RegSize + d.lcyl) * RegSize) + d.sector
    ELSE (((d.hcyl * RegSize) + d.lcyl) * Heads * Sectors) + (d.head * Sectors) + (d.sector - 1)

ide_set_sector(d, n) ==
    IF d.lba
    THEN [d EXCEPT !.head = (n \div (RegSize * RegSize * RegSize)) % 16,
                   !.hcyl = (n \div (RegSize * RegSize)) % RegSize,
                   !.lcyl = (n \div RegSize) % RegSize, !.sector = n % RegSize]
    ELSE LET cyl == n \div (Heads * Sectors)
             r   == n % (Heads * Sectors)
         IN  [d EXCEPT !.hcyl = (cyl \div RegSize) % RegSize, !.lcyl = cyl % RegSize,
                       !.head = (r \div Sectors) % 16, !.sector = (r % Sectors) + 1]

\* The sectors of the next transfer: a count of 0 stands for 256.
NextCount(d) ==
    LET n == IF d.nsector = 0 THEN RegSize ELSE d.nsector
    IN  IF n > d.req_nb_sectors THEN d.req_nb_sectors ELSE n

\* Faulty: the next sectors are where the last ones were.
MovedInPlace(d) == [d EXCEPT !.nsector = (@ - d.io_nb_sectors) % RegSize]

\* The address and the count after io_nb_sectors.
Moved(d) ==
    [ide_set_sector(d, ide_get_sector(d) + d.io_nb_sectors)
       EXCEPT !.nsector = (@ - d.io_nb_sectors) % RegSize]

ContentsOf(first, n) == [i \in 1 .. n |-> disk[first + i - 1]]

\* n sectors between the disk and the buffer.
Loaded(d, first, n) ==
    [d EXCEPT !.io_buffer =
       [i \in 1 .. MAX_MULT_SECTORS |-> IF i <= n THEN disk[first + i - 1] ELSE @[i]]]
Stored(d, first, n) ==
    [x \in 0 .. NbSectors - 1 |->
       IF x \in first .. first + n - 1 THEN d.io_buffer[x - first + 1] ELSE disk[x]]

ide_sector_read_cb(d) ==
    LET e == Moved(d)
    IN  [ide_transfer_start(e, d.io_nb_sectors,
                            IF e.nsector = 0 THEN "read_cb_end" ELSE "sector_read")
           EXCEPT !.status = {"ready", "seek", "drq"}, !.error = FALSE]

\* The transfer of the next sectors from the driver.
WantData(d) ==
    LET n == NextCount(d)
    IN  [ide_transfer_start([d EXCEPT !.io_nb_sectors = n], n, "write_cb1")
           EXCEPT !.status = {"ready", "seek", "drq"}]

ide_sector_write_cb2(d) ==
    LET e == Moved(d)
    IN  IF e.nsector = 0 THEN [e EXCEPT !.status = {"ready", "seek"}] ELSE WantData(e)
-----------------------------------------------------------------------------
(* Operations: each gives drive, disk, request and pics their next values. *)

\* The sectors of a request are on the drive: there is no other check of them.
OnDrive(first, n) == first >= 0 /\ first + n <= NbSectors

\* The block device has one request only.  One that it serves at once makes it
\* forget what it waits for, or not: then it calls back once more when that
\* comes, with nothing left to move.  One that it serves later replaces it.
ServedAtOnce(is_write, first) ==
    request' \in IF request = NoRequest THEN {NoRequest}
                 ELSE {NoRequest, [is_write |-> is_write, sector |-> first, n |-> 0]}

\* The block device refuses, has done it when it returns, or will do it.
ide_sector_read(d) ==
    LET e     == [d EXCEPT !.io_nb_sectors = NextCount(d)]
        n     == e.io_nb_sectors
        first == ide_get_sector(d)
    IN  /\ UNCHANGED disk
        /\ \/ /\ drive' = ide_abort_command(e)
              /\ SetIrqs(IdeIrq) /\ UNCHANGED request
           \/ /\ OnDrive(first, n)
              /\ drive' = ide_sector_read_cb(Loaded(e, first, n))
              /\ SetIrqs(IdeIrq) /\ ServedAtOnce(FALSE, first)
           \/ /\ OnDrive(first, n)
              /\ request' = [is_write |-> FALSE, sector |-> first, n |-> n]
              /\ drive' = [e EXCEPT !.status = {"ready", "seek", "busy"}, !.error = FALSE]
              /\ UNCHANGED pics

ide_sector_write_cb1(d) ==
    LET e     == ide_transfer_stop(d)
        n     == d.io_nb_sectors
        first == ide_get_sector(d)
    IN  \/ /\ drive' = ide_abort_command(e)
           /\ SetIrqs(IdeIrq) /\ UNCHANGED <<request, disk>>
        \/ /\ OnDrive(first, n)
           /\ disk' = Stored(d, first, n)
           /\ drive' = ide_sector_write_cb2(e)
           /\ SetIrqs(IdeIrq) /\ ServedAtOnce(TRUE, first)
        \/ /\ OnDrive(first, n)
           /\ request' = [is_write |-> TRUE, sector |-> first, n |-> n]
           /\ drive' = [e EXCEPT !.status = {"ready", "seek", "busy"}]
           /\ UNCHANGED <<pics, disk>>

\* The end of a request that the block device serves later: whatever has
\* happened to the interface and its buffer meanwhile.
IdeEnd ==
    /\ request # NoRequest
    /\ request' = NoRequest
    /\ IF request.is_write
       THEN /\ disk' = Stored(drive, request.sector, request.n)
            /\ drive' = ide_sector_write_cb2(drive)
       ELSE /\ UNCHANGED disk
            /\ drive' = ide_sector_read_cb(Loaded(drive, request.sector, request.n))
    /\ SetIrqs(IdeIrq)
    /\ UNCHANGED <<ide_cmd, ide_drv>>

\* What follows the last word of a transfer.
EndTransfer(d) ==
    \/ d.end_transfer = "sector_read" /\ ide_sector_read(d)
    \/ d.end_transfer = "write_cb1" /\ ide_sector_write_cb1(d)
    \/ /\ d.end_transfer \in {"read_cb_end", "identify_cb", "stop"}
       /\ drive' = CASE d.end_transfer = "read_cb_end" ->
                          [ide_transfer_stop(d) EXCEPT !.status = {"ready", "seek"},
                                                       !.error = FALSE]
                     [] d.end_transfer = "identify_cb" ->
                          [ide_transfer_stop(d) EXCEPT !.status = {"ready"}]
                     [] d.end_transfer = "stop" -> ide_transfer_stop(d)
       /\ UNCHANGED <<disk, request, pics>>

\* One access of the data register.
DataAccess(d) ==
    LET e == [d EXCEPT !.data_index = @ + 1]
    IN  IF e.data_index >= e.data_end THEN EndTransfer(e)
        ELSE drive' = e /\ UNCHANGED <<disk, request, pics>>

\* A command that ends at once with an interrupt.
EndsAs(d) == drive' = d /\ SetIrqs(IdeIrq) /\ UNCHANGED <<disk, request>>

IsPower2(n) == \E k \in 0 .. n : n = 2^k

ide_exec_cmd(d, cmd) ==
    CASE cmd = "IDENTIFY" ->
           EndsAs([ide_transfer_start(d, 1, "identify_cb")
                     EXCEPT !.status = {"ready", "seek", "drq"},
                            !.io_buffer[1] = <<"id", 0>>])
      [] cmd = "RECAL" -> EndsAs([d EXCEPT !.error = FALSE, !.status = {"ready", "seek"}])
      [] cmd = "SETMULT" ->
           EndsAs(IF d.nsector <= MAX_MULT_SECTORS /\ (d.nsector = 0 \/ IsPower2(d.nsector))
                  THEN [d EXCEPT !.mult_sectors = d.nsector, !.status = {"ready"}]
                  ELSE ide_abort_command(d))
      [] cmd = "READ" -> ide_sector_read([d EXCEPT !.req_nb_sectors = 1])
      [] cmd = "WRITE" ->
           /\ drive' = WantData([d EXCEPT !.req_nb_sectors = 1])
           /\ UNCHANGED <<disk, request, pics>>
      [] cmd = "MULTREAD" ->
           IF d.mult_sectors = 0 THEN EndsAs(ide_abort_command(d))
           ELSE ide_sector_read([d EXCEPT !.req_nb_sectors = d.mult_sectors])
      [] cmd = "MULTWRITE" ->
           IF d.mult_sectors = 0 THEN EndsAs(ide_abort_command(d))
           ELSE /\ drive' = WantData([d EXCEPT !.req_nb_sectors = d.mult_sectors])
                /\ UNCHANGED <<disk, request, pics>>
      [] cmd = "READ_NATIVE_MAX" ->
           EndsAs([ide_set_sector(d, NbSectors - 1) EXCEPT !.status = {"ready"}])
      [] OTHER -> EndsAs(ide_abort_command(d))
-----------------------------------------------------------------------------
(* The driver.  It is "wait"ing for the drive, "look"ing at the status it   *)
(* has just read, in the middle of a transfer ("data"), or between two      *)
(* commands: "idle", or "ready" when a command has ended without error.     *)

NewData(c, i) == <<"new", c.first + i>>

\* The registers are written, the drive does nothing before the command.
Addressed(c) ==
    [ide_set_sector([drive EXCEPT !.lba = c.lba], c.first) EXCEPT !.nsector = c.count]

\* The status does not show a request that a reset has left outstanding: a
\* command may overtake it.
IdeCommand(c) ==
    /\ ide_drv.at \in {"idle", "ready"} /\ ide_drv.commands < MaxCommands
    /\ ide_exec_cmd(Addressed(c), c.cmd)
    /\ ide_drv' = [ide_drv EXCEPT !.at = IF IsWrite(c) /\ "drq" \in drive'.status
                                         THEN "data" ELSE "wait",
                                  !.command = c, !.got = <<>>, !.sent = 0,
                                  !.overtaken = request # NoRequest, !.commands = @ + 1]
    /\ UNCHANGED <<ide_cmd, disk>>

\* What the driver makes of a status, when it is waiting for the drive.
Look ==
    ide_drv' =
      [ide_drv EXCEPT !.at =
         CASE "busy" \notin drive.status /\ "drq" \in drive.status -> "data"
           [] "err" \in drive.status -> "idle"
           [] drive.status \cap {"busy", "drq", "err"} = {} -> "ready"
           [] OTHER -> @]

\* ide_ioport_read of the status, which lowers the line.
IdeStatus(waiting) ==
    /\ SetIrqs(<< <<IRQ_IDE, 0>> >>)
    /\ IF waiting THEN Look ELSE UNCHANGED ide_drv
    /\ UNCHANGED <<drive, ide_cmd, disk, request>>

\* Without interrupts the driver reads the alternate status, which leaves the
\* line, until the drive is ready (ide_status_read).
IdePoll ==
    /\ "disable_irq" \in ide_cmd /\ ide_drv.at = "wait"
    /\ "busy" \notin drive.status
    /\ Look
    /\ UNCHANGED <<drive, ide_cmd, disk, request, pics>>

\* After the last word of a write it waits; after that of a read, when it has
\* all, it is done.
IdeData ==
    /\ ide_drv.at = "data"
    /\ LET c   == ide_drv.command
       IN  /\ DataAccess(IF IsWrite(c)
                         THEN [drive EXCEPT !.io_buffer[drive.data_index + 1] =
                                              NewData(c, ide_drv.sent)]
                         ELSE drive)
           /\ ide_drv' =
                [ide_drv EXCEPT
                   !.got = IF IsWrite(c) THEN @
                           ELSE Append(@, drive.io_buffer[drive.data_index + 1]),
                   !.sent = @ + 1,
                   !.at = IF drive.data_index + 1 < drive.data_end THEN "data"
                          ELSE IF /\ ~IsWrite(c)
                                  /\ ide_drv.sent + 1 = (IF IsTransfer(c) THEN CountOf(c) ELSE 1)
                          THEN "ready" ELSE "wait"]
           /\ UNCHANGED ide_cmd

\* The driver chooses between interrupts and polling.
IdePolling ==
    /\ ide_drv.at \in {"idle", "ready"} /\ ide_drv.commands = 0
    /\ ide_cmd' = {"disable_irq"}
    /\ UNCHANGED <<drive, disk, request, ide_drv, pics>>

\* It gives a command up by a reset: ide_cmd_write, from low to high and back.
ResetHigh ==
    /\ ide_drv.at = "wait" /\ ide_drv.resets < MaxResets
    /\ "reset" \notin ide_cmd
    /\ ide_cmd' = ide_cmd \cup {"reset"}
    /\ drive' = [drive EXCEPT !.status = {"busy", "seek"}, !.error = TRUE]
    /\ ide_drv' = [ide_drv EXCEPT !.at = "reset", !.resets = @ + 1]
    /\ UNCHANGED <<disk, request, pics>>

ResetLow ==
    /\ ide_drv.at = "reset"
    /\ ide_cmd' = ide_cmd \ {"reset"}
    /\ drive' = [drive EXCEPT !.status = {"ready", "seek"}, !.head = 0, !.nsector = 1,
                              !.sector = 1, !.lcyl = 0, !.hcyl = 0]
    /\ ide_drv' = [ide_drv EXCEPT !.at = "idle"]
    /\ UNCHANGED <<disk, request, pics>>
=============================================================================
