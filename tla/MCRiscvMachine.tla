--------------------------- MODULE MCRiscvMachine ---------------------------
(* Instance of RiscvMachine: a 64 bit hart, one device, a timer with two       *)
(* values per half, and a guest that writes a few values to each register.     *)
EXTENDS RiscvMachine

Status(user, supervisor, machine, spp, mpp, uxl, sxl) ==
    [ie |-> [p \in 0 .. 3 |-> CASE p = PRV_U -> user [] p = PRV_S -> supervisor
                                [] p = PRV_M -> machine [] OTHER -> FALSE],
     spie |-> TRUE, mpie |-> TRUE, spp |-> spp, mpp |-> mpp, uxl |-> uxl, sxl |-> sxl]

\* Interrupts of both levels enabled, and a return to user or to supervisor mode.
MCMstatusVals ==
    {Status(FALSE, TRUE, TRUE, PRV_U, PRV_S, 2, 2)}

MCMieVals == {{SSIP, MTIP, SEIP}}

\* The masks of mip and mideleg drop MTIP, and that of mip SEIP, which a write of
\* sip sets whatever the lines say.
MCMipVals == {{SSIP, MTIP, SEIP}}

MCMidelegVals == {{SSIP, MTIP, SEIP}}

\* UXL and SXL are written as they come.
XlenMstatusVals ==
    {Status(FALSE, FALSE, FALSE, PRV_U, PRV_S, uxl, sxl) : uxl \in 0 .. 3, sxl \in 0 .. 3}

=============================================================================
