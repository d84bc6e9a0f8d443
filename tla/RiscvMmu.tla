------------------------------ MODULE RiscvMmu ------------------------------
(* Address translation of the RISC-V hart (riscv_cpu.c, riscv_cpu_priv.h,      *)
(* riscv_cpu_template.h) and the memory it shares with the display (iomem.c,   *)
(* simplefb.c).  Three software TLBs, one per kind of access, and the code     *)
(* pointer of the interpreter cache host addresses; privilege changes, CSR     *)
(* writes, sfence.vma and the refresh of the display have to drop them.        *)
(*                                                                             *)
(* Pages stand for addresses.  A page table is the leaf found for each virtual *)
(* page: the levels above it are left out.  What a load returns and what a     *)
(* store writes are left out, except that a store changes its page.            *)
EXTENDS Naturals, Integers

CONSTANTS
    Pages,       \* page numbers, virtual and physical
    RamPages,    \* the physical pages with memory behind them; the others are devices
    FbPages,     \* those of the framebuffer, which have dirty bits
    TlbSize,     \* entries of each TLB
    Mappings,    \* Mappings[v]: the leaves the guest writes for virtual page v
    MstatusVals, \* what the guest writes to mstatus and to sstatus
    Delegated    \* causes set in medeleg and mideleg

PRV_U == 0
PRV_S == 1
PRV_M == 3

Accesses == {"read", "write", "code"}

Mstatus == [mprv : BOOLEAN, sum : BOOLEAN, mxr : BOOLEAN, spp : 0 .. 1, mpp : 0 .. 3]

Leaf == [ppage : Pages, xwr : SUBSET Accesses, u : BOOLEAN]

\* A page table entry: a leaf, and its accessed and dirty bits.
Pte == [leaf : Leaf, a : BOOLEAN, d : BOOLEAN]

\* The leaf of a translation that reads no page table.
NoLeaf == [ppage |-> -1, xwr |-> {}, u |-> FALSE]

NoEntry == [vpage |-> -1, ppage |-> -1, leaf |-> NoLeaf]

\* "leaf" is not in the code: it remembers where the entry comes from.
Entry == [vpage : Pages, ppage : RamPages, leaf : Leaf \cup {NoLeaf}] \cup {NoEntry}

ASSUME MmuAssumption ==
    /\ Pages \subseteq Nat
    /\ RamPages \subseteq Pages
    /\ FbPages \subseteq RamPages
    /\ TlbSize \in Nat \ {0}
    /\ Mappings \in [Pages -> SUBSET Leaf]
    /\ MstatusVals \subseteq Mstatus

VARIABLES
    priv,    \* privilege of the hart
    mstatus, \* the fields of mstatus that translation reads, and SPP
    satp,    \* "bare", or "paged" for an Sv mode
    pt,      \* pt[v]: the entry in memory for virtual page v
    tlb,     \* tlb[access][i]: the software TLBs
    code,    \* the page under the code pointer of the interpreter
    dirty,   \* framebuffer pages whose dirty bit is set
    unshown, \* framebuffer pages changed since they were last drawn
    stale    \* history: pages whose leaf the guest rewrote since its last fence

cpuVars == <<priv, mstatus, satp>>
fbVars == <<dirty, unshown>>
vars == <<priv, mstatus, satp, pt, tlb, code, dirty, unshown, stale>>

-----------------------------------------------------------------------------
(* Translation: get_phys_addr.                                                 *)

\* The privilege an access is made with: MPRV lends MPP to loads and stores.
AccessPriv(access) ==
    IF mstatus.mprv /\ access # "code" THEN mstatus.mpp ELSE priv

Untranslated(access) == AccessPriv(access) = PRV_M \/ satp = "bare"

\* The checks made on a leaf.
Permits(leaf, access) ==
    /\ leaf.xwr \notin {{}, {"write"}, {"write", "code"}}
    /\ IF AccessPriv(access) = PRV_S THEN leaf.u => mstatus.sum ELSE leaf.u
    /\ \/ access \in leaf.xwr
       \/ access = "read" /\ mstatus.mxr /\ "code" \in leaf.xwr

\* Faulty: a page that has been accessed is not written again.
TouchedOnce(pte, access) ==
    IF pte.a THEN pte ELSE [pte EXCEPT !.a = TRUE, !.d = access = "write"]

Touched(pte, access) ==
    [pte EXCEPT !.a = TRUE, !.d = pte.d \/ access = "write"]

Translates(v, access) == Untranslated(access) \/ Permits(pt[v].leaf, access)

\* The entry a successful walk yields, and the page table it leaves behind.
Walked(v, access) ==
    IF Untranslated(access)
    THEN [vpage |-> v, ppage |-> v, leaf |-> NoLeaf]
    ELSE [vpage |-> v, ppage |-> pt[v].leaf.ppage, leaf |-> pt[v].leaf]

PtAfter(v, access) ==
    IF Untranslated(access) THEN pt ELSE [pt EXCEPT ![v] = Touched(pt[v], access)]

-----------------------------------------------------------------------------
(* The TLBs.                                                                   *)

Index(v) == v % TlbSize

EmptyTlb == [access \in Accesses |-> [i \in 0 .. TlbSize - 1 |-> NoEntry]]

Hit(v, access) == tlb[access][Index(v)].vpage = v

\* Only RAM is cached.
TlbFilled(entry, access) ==
    IF entry.ppage \in RamPages
    THEN [tlb EXCEPT ![access] = [@ EXCEPT ![Index(entry.vpage)] = entry]]
    ELSE tlb

\* flush_tlb_write_range_ram: drops the entries for writes to the range.
WriteRangeFlushed(range) ==
    [tlb EXCEPT !["write"] =
        [i \in 0 .. TlbSize - 1 |->
            IF tlb["write"][i].ppage \in range THEN NoEntry ELSE tlb["write"][i]]]

-----------------------------------------------------------------------------
(* Privilege: set_mstatus, set_priv, raise_exception2 and the returns.         *)

\* Faulty: only MPRV is taken for a change of the MMU configuration.
MprvChanges(val) ==
    \/ mstatus.mprv # val.mprv
    \/ mstatus.mprv /\ mstatus.mpp # val.mpp

\* The condition under which set_mstatus flushes.
MmuConfigChanges(val) ==
    \/ mstatus.mprv # val.mprv
    \/ mstatus.sum # val.sum
    \/ mstatus.mxr # val.mxr
    \/ mstatus.mprv /\ mstatus.mpp # val.mpp

SetMstatus(val) ==
    /\ mstatus' = val
    /\ tlb' = IF MmuConfigChanges(val) THEN EmptyTlb ELSE tlb

SetPriv(p) ==
    /\ priv' = p
    /\ tlb' = IF p # priv THEN EmptyTlb ELSE tlb

\* Faulty: machine mode delegates too.
IsDelegatedAnywhere(cause) == cause \in Delegated

IsDelegated(cause) == priv <= PRV_S /\ cause \in Delegated

\* raise_exception2; the interpreter loop is left, and with it the code pointer.
RaiseException(cause) ==
    /\ IF IsDelegated(cause)
       THEN /\ mstatus' = [mstatus EXCEPT !.spp = priv]
            /\ SetPriv(PRV_S)
       ELSE /\ mstatus' = [mstatus EXCEPT !.mpp = priv]
            /\ SetPriv(PRV_M)
    /\ code' = NoEntry
    /\ UNCHANGED <<satp, dirty, unshown, stale>>

-----------------------------------------------------------------------------
(* Instructions.  The hart runs when its code pointer is set.                  *)

Running == code # NoEntry

\* A jump, a branch or the end of a page: the next block is looked up.
EndBlock ==
    /\ Running
    /\ code' = NoEntry
    /\ UNCHANGED <<cpuVars, pt, tlb, fbVars, stale>>

\* An interrupt is taken between two blocks.
Interrupt(cause) ==
    /\ ~Running
    /\ cause \in Delegated => priv <= PRV_S
    /\ RaiseException(cause)
    /\ UNCHANGED pt

FetchHit(v) ==
    /\ ~Running
    /\ Hit(v, "code")
    /\ code' = tlb["code"][Index(v)]
    /\ UNCHANGED <<cpuVars, pt, tlb, fbVars, stale>>

\* target_read_insn_slow: code is only run from RAM.
FetchWalk(v) ==
    /\ ~Running
    /\ ~Hit(v, "code")
    /\ Translates(v, "code")
    /\ Walked(v, "code").ppage \in RamPages
    /\ pt' = PtAfter(v, "code")
    /\ tlb' = TlbFilled(Walked(v, "code"), "code")
    /\ code' = Walked(v, "code")
    /\ UNCHANGED <<cpuVars, fbVars, stale>>

FetchDevice(v) ==
    /\ ~Running
    /\ ~Hit(v, "code")
    /\ Translates(v, "code")
    /\ Walked(v, "code").ppage \notin RamPages
    /\ pt' = PtAfter(v, "code")
    /\ RaiseException("fault_fetch")

FetchFault(v) ==
    /\ ~Running
    /\ ~Hit(v, "code")
    /\ ~Translates(v, "code")
    /\ RaiseException("fetch_page_fault")
    /\ UNCHANGED pt

LoadWalk(v) ==
    /\ Running
    /\ ~Hit(v, "read")
    /\ Translates(v, "read")
    /\ pt' = PtAfter(v, "read")
    /\ tlb' = TlbFilled(Walked(v, "read"), "read")
    /\ UNCHANGED <<cpuVars, code, fbVars, stale>>

LoadFault(v) ==
    /\ Running
    /\ ~Hit(v, "read")
    /\ ~Translates(v, "read")
    /\ RaiseException("load_page_fault")
    /\ UNCHANGED pt

\* The fast path of target_write: no dirty bit is set.
StoreHit(v) ==
    /\ Running
    /\ Hit(v, "write")
    /\ unshown' = unshown \cup ({tlb["write"][Index(v)].ppage} \cap FbPages)
    /\ UNCHANGED <<cpuVars, pt, tlb, code, dirty, stale>>

\* target_write_slow: the dirty bit is set before the entry is.
StoreWalk(v) ==
    /\ Running
    /\ ~Hit(v, "write")
    /\ Translates(v, "write")
    /\ LET entry == Walked(v, "write") IN
       /\ pt' = PtAfter(v, "write")
       /\ tlb' = TlbFilled(entry, "write")
       /\ dirty' = dirty \cup ({entry.ppage} \cap FbPages)
       /\ unshown' = unshown \cup ({entry.ppage} \cap FbPages)
    /\ UNCHANGED <<cpuVars, code, stale>>

StoreFault(v) ==
    /\ Running
    /\ ~Hit(v, "write")
    /\ ~Translates(v, "write")
    /\ RaiseException("store_page_fault")
    /\ UNCHANGED pt

\* A store of the kernel into its page table, which lies outside Pages.
WritePte(v, leaf) ==
    /\ Running
    /\ priv >= PRV_S
    /\ pt' = [pt EXCEPT ![v] = [leaf |-> leaf, a |-> FALSE, d |-> FALSE]]
    /\ stale' = stale \cup {v}
    /\ UNCHANGED <<cpuVars, tlb, code, fbVars>>

Ecall ==
    /\ Running
    /\ RaiseException(CASE priv = PRV_U -> "user_ecall"
                        [] priv = PRV_S -> "supervisor_ecall"
                        [] OTHER -> "machine_ecall")
    /\ UNCHANGED pt

\* csr_write of mstatus; the code pointer is kept, whatever was flushed.
WriteMstatus(val) ==
    /\ Running
    /\ priv = PRV_M
    /\ SetMstatus(val)
    /\ UNCHANGED <<priv, satp, pt, code, fbVars, stale>>

\* csr_write of sstatus: the machine's fields keep their value.
WriteSstatus(val) ==
    /\ Running
    /\ priv >= PRV_S
    /\ SetMstatus([val EXCEPT !.mprv = mstatus.mprv, !.mpp = mstatus.mpp])
    /\ UNCHANGED <<priv, satp, pt, code, fbVars, stale>>

\* csr_write of satp flushes and has the interpreter look its code up again.
WriteSatp(mode) ==
    /\ Running
    /\ priv >= PRV_S
    /\ satp' = mode
    /\ tlb' = EmptyTlb
    /\ code' = NoEntry
    /\ stale' = {}
    /\ UNCHANGED <<priv, mstatus, pt, fbVars>>

\* Faulty: the code pointer is kept.
SfenceKeepsCode ==
    /\ Running
    /\ priv >= PRV_S
    /\ tlb' = EmptyTlb
    /\ stale' = {}
    /\ UNCHANGED <<cpuVars, pt, code, fbVars>>

SfenceVma ==
    /\ Running
    /\ priv >= PRV_S
    /\ tlb' = EmptyTlb
    /\ code' = NoEntry
    /\ stale' = {}
    /\ UNCHANGED <<cpuVars, pt, fbVars>>

Sret ==
    /\ Running
    /\ priv >= PRV_S
    /\ mstatus' = [mstatus EXCEPT !.spp = PRV_U]
    /\ SetPriv(mstatus.spp)
    /\ code' = NoEntry
    /\ UNCHANGED <<satp, pt, fbVars, stale>>

Mret ==
    /\ Running
    /\ priv = PRV_M
    /\ mstatus' = [mstatus EXCEPT !.mpp = PRV_U]
    /\ SetPriv(mstatus.mpp)
    /\ code' = NoEntry
    /\ UNCHANGED <<satp, pt, fbVars, stale>>

-----------------------------------------------------------------------------
(* The devices and the display.                                                *)

\* A device stores to a page of the framebuffer through phys_mem_get_ram_ptr.
DeviceWrite(p) ==
    /\ dirty' = dirty \cup {p}
    /\ unshown' = unshown \cup {p}
    /\ UNCHANGED <<cpuVars, pt, tlb, code, stale>>

\* Faulty: the write TLB is kept when the dirty bits are cleared.
RefreshKeepsTlb ==
    /\ dirty' = {}
    /\ unshown' = unshown \ dirty
    /\ code' = NoEntry
    /\ UNCHANGED <<cpuVars, pt, tlb, stale>>

\* Between two runs of the interpreter: default_get_dirty_bits takes the bits
\* and simplefb_refresh draws their pages.
Refresh ==
    /\ tlb' = IF dirty # {} THEN WriteRangeFlushed(FbPages) ELSE tlb
    /\ dirty' = {}
    /\ unshown' = unshown \ dirty
    /\ code' = NoEntry
    /\ UNCHANGED <<cpuVars, pt, stale>>

Init ==
    /\ priv = PRV_M
    /\ mstatus = [mprv |-> FALSE, sum |-> FALSE, mxr |-> FALSE, spp |-> PRV_U, mpp |-> PRV_U]
    /\ satp = "bare"
    /\ pt \in [Pages -> [leaf : UNION {Mappings[v] : v \in Pages}, a : {FALSE}, d : {FALSE}]]
    /\ \A v \in Pages : pt[v].leaf \in Mappings[v]
    /\ tlb = EmptyTlb
    /\ code = NoEntry
    /\ dirty = {}
    /\ unshown = {}
    /\ stale = {}

Next ==
    \/ EndBlock
    \/ \E cause \in {"irq_m", "irq_s"} : Interrupt(cause)
    \/ \E v \in Pages : FetchHit(v)
    \/ \E v \in Pages : FetchWalk(v)
    \/ \E v \in Pages : FetchDevice(v)
    \/ \E v \in Pages : FetchFault(v)
    \/ \E v \in Pages : LoadWalk(v)
    \/ \E v \in Pages : LoadFault(v)
    \/ \E v \in Pages : StoreHit(v)
    \/ \E v \in Pages : StoreWalk(v)
    \/ \E v \in Pages : StoreFault(v)
    \/ \E v \in Pages : \E leaf \in Mappings[v] : WritePte(v, leaf)
    \/ Ecall
    \/ \E val \in MstatusVals : WriteMstatus(val)
    \/ \E val \in MstatusVals : WriteSstatus(val)
    \/ \E mode \in {"bare", "paged"} : WriteSatp(mode)
    \/ SfenceVma
    \/ Sret
    \/ Mret
    \/ \E p \in FbPages : DeviceWrite(p)
    \/ Refresh

-----------------------------------------------------------------------------
(* Properties.                                                                 *)

\* Every variable keeps its type: among others SPP fits its bit, and a TLB is
\* only filled within its entries.
TypeOK ==
    /\ priv \in 0 .. 3
    /\ mstatus \in Mstatus
    /\ satp \in {"bare", "paged"}
    /\ pt \in [Pages -> Pte]
    /\ tlb \in [Accesses -> [0 .. TlbSize - 1 -> Entry]]
    /\ code \in Entry
    /\ dirty \subseteq FbPages
    /\ unshown \subseteq FbPages
    /\ stale \subseteq Pages

\* What get_phys_addr would answer now for the leaf the entry was made from.
Permitted(entry, access) ==
    IF Untranslated(access)
    THEN entry.leaf = NoLeaf /\ entry.ppage = entry.vpage
    ELSE /\ entry.leaf # NoLeaf
         /\ entry.ppage = entry.leaf.ppage
         /\ Permits(entry.leaf, access)

Cached(access) == {tlb[access][i] : i \in 0 .. TlbSize - 1} \ {NoEntry}

\* In machine mode MPRV lends MPP to loads and stores, and a trap or an mret
\* that stays in machine mode changes MPP without a flush.
LentInMachineMode(access) == access # "code" /\ mstatus.mprv /\ priv = PRV_M

\* A cached translation is one the current privilege, mstatus and satp allow:
\* each change of them that matters drops the entries it makes wrong
\* (set_priv, set_mstatus, csr_write of satp).  The code pointer may outlive a
\* change of SUM only.
CachedArePermitted ==
    /\ \A access \in Accesses : \A entry \in Cached(access) :
        Permitted(entry, access) \/ LentInMachineMode(access)
    /\ code # NoEntry => Permitted(code, "code") \/ (priv = PRV_S /\ code.leaf.u)

\* The same without the exception: "flush the TLBs if change of MMU config".
EveryCachedIsPermitted ==
    \A access \in Accesses : \A entry \in Cached(access) : Permitted(entry, access)

\* A page whose leaf the guest has not rewritten since its last sfence.vma is
\* reached as its leaf says, through the TLBs and the code pointer alike.
ReachedAsMapped(entry) ==
    entry.leaf # NoLeaf /\ entry.vpage \notin stale => entry.leaf = pt[entry.vpage].leaf

FencesAreObeyed ==
    /\ \A access \in Accesses : \A entry \in Cached(access) : ReachedAsMapped(entry)
    /\ ReachedAsMapped(code)

\* What is read or written through a TLB has its accessed and dirty bits set
\* in the page table: the kernel can trust them after a fence.
AccessesAreRecorded ==
    \A access \in Accesses : \A entry \in Cached(access) :
        entry.leaf # NoLeaf /\ entry.vpage \notin stale =>
            pt[entry.vpage].a /\ (access = "write" => pt[entry.vpage].d)

\* A page of the framebuffer that was changed since it was drawn has its dirty
\* bit, although a store through the TLB sets none: the next refresh draws it.
ChangesAreShown == unshown \subseteq dirty

Spec == Init /\ [][Next]_vars

=============================================================================
