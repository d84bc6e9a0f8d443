----------------------------- MODULE MCRiscvMmu -----------------------------
(* Instance of RiscvMmu: two pages of RAM, the second one the framebuffer, and *)
(* a device page, behind TLBs of one entry, in which all pages compete.         *)
EXTENDS RiscvMmu

MCPages == 0 .. 2

To(p, xwr, u) == [ppage |-> p, xwr |-> xwr, u |-> u]

\* A kernel page, a page that the kernel makes a user page to execute only or a
\* user page of the framebuffer, and one that is not mapped.
MCMappings ==
    [v \in MCPages |->
        CASE v = 0 -> {To(0, {"read", "write", "code"}, FALSE)}
          [] v = 1 -> {To(0, {"code"}, TRUE), To(1, {"read", "write"}, TRUE)}
          [] v = 2 -> {To(0, {}, FALSE)}]

Status(mprv, sum, mxr, mpp) ==
    [mprv |-> mprv, sum |-> sum, mxr |-> mxr, spp |-> PRV_U, mpp |-> mpp]

MCMstatusVals ==
    {Status(FALSE, FALSE, FALSE, PRV_U), Status(TRUE, FALSE, FALSE, PRV_S),
     Status(FALSE, TRUE, TRUE, PRV_S)}

=============================================================================
