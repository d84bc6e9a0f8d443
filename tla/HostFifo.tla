------------------------------ MODULE HostFifo ------------------------------
(***************************************************************************)
(* What a virtio device promises about the data that the host hands to it: *)
(* the driver receives the messages whole and in order.  A call of the     *)
(* host that finds no room may be cut after some of its messages.          *)
(***************************************************************************)
EXTENDS Naturals, Sequences

CONSTANT Calls  \* the sequences of messages that calls of the host are for

VARIABLE fifo   \* messages handed over and not received

Init == fifo = <<>>

Beginnings == UNION {{SubSeq(c, 1, n) : n \in 1 .. Len(c)} : c \in Calls}

Send ==
    /\ Len(fifo') > Len(fifo)
    /\ SubSeq(fifo', 1, Len(fifo)) = fifo
    /\ SubSeq(fifo', Len(fifo) + 1, Len(fifo')) \in Beginnings

\* The driver receives some; those left when it resets the device are lost.
Receive ==
    /\ Len(fifo') < Len(fifo)
    /\ fifo' = SubSeq(fifo, Len(fifo) - Len(fifo') + 1, Len(fifo))

Next == Send \/ Receive

Spec == Init /\ [][Next]_fifo
=============================================================================
