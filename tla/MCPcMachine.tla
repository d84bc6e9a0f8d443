----------------------------- MODULE MCPcMachine -----------------------------
(***************************************************************************)
(* An instance of PcMachine for TLC.  Registers of two bits make the       *)
(* addresses of the eight sectors take two of them, and a count of 0 stand *)
(* for four; a movement of the mouse is up to two packets.                 *)
(***************************************************************************)
EXTENDS PcMachine

MCGuests ==
    ({"clock", "pci", "wheel"} \X {"mask", "eoi"})
      \cup {<<"ide", "eoi">>, <<"ps2", "eoi">>, <<"vmmouse", "eoi">>}

Cmd(cmd, lba, first, count) == [cmd |-> cmd, lba |-> lba, first |-> first, count |-> count]

MCIdeCommands ==
    {Cmd("MULTREAD", TRUE, 3, 0), Cmd("MULTWRITE", FALSE, 3, 3),
     Cmd("READ", FALSE, 3, 2), Cmd("WRITE", TRUE, 3, 2), Cmd("SETMULT", TRUE, 0, 0),
     Cmd("IDENTIFY", TRUE, 0, 1), Cmd("RECAL", TRUE, 0, 1), Cmd("NOP", TRUE, 0, 1),
     Cmd("READ_NATIVE_MAX", FALSE, 0, 1)}

Move(dx, dz, buttons) == [dx |-> dx, dy |-> 0, dz |-> dz, buttons |-> buttons]
MCMovements == {Move(2, 0, 0), Move(-1, 1, 1)}
MCpci_irqs == [n \in 0 .. 3 |-> 10 + (n % 2)]
=============================================================================
