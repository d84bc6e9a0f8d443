---------------------------- MODULE MCVirtioHost ----------------------------
(***************************************************************************)
(* An instance of VirtioHost for TLC: the five devices, up to two chains   *)
(* in a queue, three for the mouse, whose calls are for three to six       *)
(* events, and indices that wrap around at four.                           *)
(***************************************************************************)
EXTENDS VirtioHost

Byte(n) == <<"byte", "", n>>
R(n) == [write |-> FALSE, len |-> n]
W(n) == [write |-> TRUE, len |-> n]

MCDevices == {"net", "console", "keyboard", "mouse", "tablet"}
MCQueueNum == [d \in MCDevices |-> IF d \in {"mouse", "tablet"} THEN 4 ELSE 2]
MCPosted ==
    [d \in MCDevices |->
       CASE d = "console" -> [q \in 0 .. 1 |-> 1]
         [] d \in {"net", "keyboard"} -> [q \in 0 .. 1 |-> 2 - q]
         [] d = "mouse" -> [q \in 0 .. 1 |-> 3]
         [] d = "tablet" -> [q \in 0 .. 1 |-> 2]]
MCBuffers ==
    [d \in MCDevices |->
       CASE d = "net" -> {<<W(1), W(1)>>, <<W(2), W(1)>>}
         [] d = "console" -> {<<W(1), W(1)>>}
         [] d \in {"keyboard", "mouse", "tablet"} -> {<<W(1)>>}]
MCLayout == [q \in 0 .. 1 |-> [desc |-> (3 * q) + 1, avail |-> (3 * q) + 2, used |-> (3 * q) + 3]]
MCPayloads == {<<Byte(1)>>, <<Byte(1), Byte(2)>>}
MCSent ==
    [d \in MCDevices |->
       CASE d = "net" -> {<<R(1)>>, <<R(0)>>}
         [] d \in {"console", "keyboard"} -> {<<R(1)>>}
         [] d \in {"mouse", "tablet"} -> {}]
MCButtonsList == <<"left", "right">>
MCAddr == 0 .. 6
MCCell == 0 .. 14
=============================================================================
