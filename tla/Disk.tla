-------------------------------- MODULE Disk --------------------------------
(***************************************************************************)
(* What a block device promises to its only client (struct BlockDevice of  *)
(* virtio.h:60): one request at a time; a request moves its sectors in     *)
(* ascending order, some at a time, between the caller's buffer and the    *)
(* disk, and is completed once, when all of them have been moved.          *)
(***************************************************************************)
EXTENDS Integers, Sequences

CONSTANTS Request,  \* the requests a client may make
          Contents  \* the contents of the disk at power on

VARIABLES disk,     \* sector -> contents
          request,  \* the last request made
          buffer,   \* the caller's buffer, one element per sector
          moved,    \* number of sectors already moved
          busy      \* is the request still to be completed?

diskVars == <<disk, request, buffer, moved, busy>>

Init ==
    /\ disk = Contents
    /\ request \in [is_write : {FALSE}, sector_num : {0}, data : {<<>>}]
    /\ buffer = <<>>
    /\ moved = 0
    /\ busy = FALSE

Submit ==
    /\ ~busy
    /\ \E r \in Request : request' = r /\ buffer' = r.data
    /\ moved' = 0
    /\ busy' = TRUE
    /\ UNCHANGED disk

\* Moves the next n sectors.
Transfer(n) ==
    LET first == request.sector_num + moved
        now   == moved + 1 .. moved + n     \* positions in the buffer
    IN  /\ busy
        /\ moved' = moved + n
        /\ IF request.is_write
           THEN /\ disk' = [s \in DOMAIN disk |->
                              IF s \in first .. first + n - 1
                              THEN buffer[s - request.sector_num + 1]
                              ELSE disk[s]]
                /\ UNCHANGED buffer
           ELSE /\ buffer' = [i \in DOMAIN buffer |->
                                IF i \in now
                                THEN disk[request.sector_num + i - 1]
                                ELSE buffer[i]]
                /\ UNCHANGED disk
        /\ UNCHANGED <<request, busy>>

Complete ==
    /\ busy
    /\ moved = Len(buffer)
    /\ busy' = FALSE
    /\ UNCHANGED <<disk, request, buffer, moved>>

\* The disk may be read-only or absent: nothing is moved.
Fail ==
    /\ busy
    /\ moved = 0
    /\ busy' = FALSE
    /\ UNCHANGED <<disk, request, buffer, moved>>

Next ==
    \/ Submit
    \/ \E n \in 1 .. Len(buffer) - moved : Transfer(n)
    \/ Complete
    \/ Fail

Spec == Init /\ [][Next]_diskVars
=============================================================================
