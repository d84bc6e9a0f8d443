--------------------------- MODULE RiscvMmuProofs ---------------------------
(* Proofs about RiscvMmu, for every set of pages, every size of the TLBs and   *)
(* every page table and mstatus a guest writes.                                *)
EXTENDS RiscvMmu, TLAPS

USE DEF PRV_U, PRV_S, PRV_M

\* An index into a TLB is one of its entries.
LEMMA IndexType ==
    ASSUME NEW v \in Pages
    PROVE  Index(v) \in 0 .. TlbSize - 1
  BY MmuAssumption DEF Index

\* What a TLB caches is an entry for a page.
LEMMA CachedType ==
    ASSUME TypeOK, NEW access \in Accesses, NEW e \in Cached(access)
    PROVE  e \in Entry /\ e.vpage \in Pages
  <1>1. e \in Entry /\ e # NoEntry
    <2>1. PICK i \in 0 .. TlbSize - 1 : e = tlb[access][i]
      BY DEF Cached
    <2>2. tlb[access] \in [0 .. TlbSize - 1 -> Entry]
      BY DEF TypeOK
    <2> QED
      BY <2>1, <2>2 DEF Cached
  <1>2. e \in [vpage : Pages, ppage : RamPages, leaf : Leaf \cup {NoLeaf}]
    BY <1>1 DEF Entry
  <1> QED
    BY <1>1, <1>2

\* A flushed TLB caches nothing.
LEMMA EmptyCached ==
    ASSUME tlb' = EmptyTlb, NEW access \in Accesses
    PROVE  Cached(access)' = {}
  BY DEF EmptyTlb, Cached

\* A walk adds at most its own entry, in RAM, to the TLB of its access.
LEMMA FilledCached ==
    ASSUME TypeOK, NEW entry, NEW filled \in Accesses, entry.vpage \in Pages,
           tlb' = TlbFilled(entry, filled),
           NEW access \in Accesses, NEW e \in Cached(access)'
    PROVE  e \in Cached(access) \/ (access = filled /\ e = entry /\ entry.ppage \in RamPages)
  <1>1. Index(entry.vpage) \in 0 .. TlbSize - 1
    BY IndexType
  <1>2. tlb \in [Accesses -> [0 .. TlbSize - 1 -> Entry]]
    BY DEF TypeOK
  <1> QED
    BY <1>1, <1>2 DEF TlbFilled, Cached

\* The flush of a range only removes entries, those that write to the range.
LEMMA FlushedCached ==
    ASSUME TypeOK, NEW range, tlb' = WriteRangeFlushed(range),
           NEW access \in Accesses, NEW e \in Cached(access)'
    PROVE  e \in Cached(access) /\ (access = "write" => e.ppage \notin range)
  <1>1. tlb \in [Accesses -> [0 .. TlbSize - 1 -> Entry]]
    BY DEF TypeOK
  <1> QED
    BY <1>1 DEF WriteRangeFlushed, Cached, Accesses

-----------------------------------------------------------------------------
(* Types.                                                                      *)

\* A successful walk yields the page of the leaf, and touches its entry.
LEMMA WalkType ==
    ASSUME TypeOK, NEW v \in Pages, NEW access \in Accesses
    PROVE  /\ Walked(v, access).vpage = v
           /\ Walked(v, access).ppage \in Pages
           /\ Walked(v, access).ppage \in RamPages => Walked(v, access) \in Entry
           /\ PtAfter(v, access) \in [Pages -> Pte]
  <1>1. pt \in [Pages -> Pte] /\ pt[v] \in Pte
    BY DEF TypeOK
  <1>2. Touched(pt[v], access) \in Pte
    BY <1>1 DEF Touched, Pte
  <1>3. pt[v].leaf \in Leaf /\ pt[v].leaf.ppage \in Pages
    BY <1>1 DEF Pte, Leaf
  <1> QED
    BY <1>1, <1>2, <1>3 DEF Walked, PtAfter, Entry

LEMMA TlbTypes ==
    ASSUME TypeOK
    PROVE  /\ EmptyTlb \in [Accesses -> [0 .. TlbSize - 1 -> Entry]]
           /\ \A entry, access : (entry.ppage \in RamPages => entry \in Entry)
                => TlbFilled(entry, access) \in [Accesses -> [0 .. TlbSize - 1 -> Entry]]
           /\ \A range : WriteRangeFlushed(range) \in [Accesses -> [0 .. TlbSize - 1 -> Entry]]
  <1>1. tlb \in [Accesses -> [0 .. TlbSize - 1 -> Entry]]
    BY DEF TypeOK
  <1>2. NoEntry \in Entry
    BY DEF Entry
  <1>3. EmptyTlb \in [Accesses -> [0 .. TlbSize - 1 -> Entry]]
    BY <1>2 DEF EmptyTlb
  <1>4. ASSUME NEW entry, NEW access, entry.ppage \in RamPages => entry \in Entry
        PROVE  TlbFilled(entry, access) \in [Accesses -> [0 .. TlbSize - 1 -> Entry]]
    BY <1>1, <1>4 DEF TlbFilled
  <1>5. ASSUME NEW range
        PROVE  WriteRangeFlushed(range) \in [Accesses -> [0 .. TlbSize - 1 -> Entry]]
    BY <1>1, <1>2 DEF WriteRangeFlushed
  <1> QED
    BY <1>3, <1>4, <1>5

\* The privilege, mstatus and the TLBs keep their types through a trap.
LEMMA RaiseType ==
    ASSUME TypeOK, NEW cause, RaiseException(cause)
    PROVE  /\ priv' \in 0 .. 3 /\ mstatus' \in Mstatus
           /\ tlb' \in [Accesses -> [0 .. TlbSize - 1 -> Entry]]
           /\ code' \in Entry
           /\ UNCHANGED <<satp, dirty, unshown, stale>>
  <1>1. priv \in 0 .. 3 /\ mstatus \in Mstatus
    BY DEF TypeOK
  <1>2. IsDelegated(cause) => priv \in 0 .. 1
    BY <1>1 DEF IsDelegated
  <1>3. mstatus' \in Mstatus
    BY <1>1, <1>2 DEF RaiseException, Mstatus
  <1>4. tlb' \in [Accesses -> [0 .. TlbSize - 1 -> Entry]]
    BY TlbTypes DEF RaiseException, SetPriv, TypeOK
  <1> QED
    BY <1>3, <1>4 DEF RaiseException, SetPriv, Entry

LEMMA WalkFills ==
    ASSUME TypeOK, NEW v \in Pages, NEW access \in Accesses
    PROVE  TlbFilled(Walked(v, access), access) \in [Accesses -> [0 .. TlbSize - 1 -> Entry]]
  <1>1. Walked(v, access).ppage \in RamPages => Walked(v, access) \in Entry
    BY WalkType
  <1> QED
    BY <1>1, TlbTypes

LEMMA InitType == Init => TypeOK
  <1> SUFFICES ASSUME Init PROVE TypeOK
    OBVIOUS
  <1>1. mstatus \in Mstatus
    BY DEF Init, Mstatus
  <1>2. ASSUME NEW v \in Pages
        PROVE  pt[v] \in Pte
    <2>1. pt[v].leaf \in Leaf
      BY MmuAssumption DEF Init
    <2>2. pt[v] \in [leaf : UNION {Mappings[w] : w \in Pages}, a : {FALSE}, d : {FALSE}]
      BY DEF Init
    <2> QED
      BY <2>1, <2>2 DEF Pte
  <1>3. pt \in [Pages -> Pte]
    BY <1>2 DEF Init
  <1>4. tlb \in [Accesses -> [0 .. TlbSize - 1 -> Entry]]
    BY DEF Init, EmptyTlb, Entry
  <1> QED
    BY <1>1, <1>3, <1>4 DEF Init, TypeOK, Entry

LEMMA NextType == TypeOK /\ [Next]_vars => TypeOK'
  <1> SUFFICES ASSUME TypeOK, [Next]_vars PROVE TypeOK'
    OBVIOUS
  <1> USE DEF cpuVars, fbVars
  <1>t. /\ priv \in 0 .. 3 /\ mstatus \in Mstatus /\ satp \in {"bare", "paged"}
        /\ pt \in [Pages -> Pte]
        /\ tlb \in [Accesses -> [0 .. TlbSize - 1 -> Entry]]
        /\ code \in Entry /\ dirty \subseteq FbPages /\ unshown \subseteq FbPages
        /\ stale \subseteq Pages
    BY DEF TypeOK
  <1>a. {"read", "write", "code"} = Accesses
    BY DEF Accesses
  <1>1. CASE EndBlock
    BY <1>t, <1>1 DEF EndBlock, TypeOK, Entry
  <1>2. ASSUME NEW cause, Interrupt(cause) PROVE TypeOK'
    BY <1>t, <1>2, RaiseType DEF Interrupt, TypeOK
  <1>3. ASSUME NEW v \in Pages, FetchHit(v) PROVE TypeOK'
    BY <1>t, <1>3, IndexType DEF FetchHit, TypeOK, Accesses
  <1>4. ASSUME NEW v \in Pages, FetchWalk(v) PROVE TypeOK'
    <2>1. "code" \in Accesses
      BY <1>a
    <2> QED
      BY <1>t, <1>4, <2>1, WalkType, WalkFills DEF FetchWalk, TypeOK
  <1>5. ASSUME NEW v \in Pages, FetchDevice(v) PROVE TypeOK'
    BY <1>t, <1>a, <1>5, WalkType, RaiseType DEF FetchDevice, TypeOK
  <1>6. ASSUME NEW v \in Pages, FetchFault(v) PROVE TypeOK'
    BY <1>t, <1>6, RaiseType DEF FetchFault, TypeOK
  <1>7. ASSUME NEW v \in Pages, LoadWalk(v) PROVE TypeOK'
    <2>1. "read" \in Accesses
      BY <1>a
    <2> QED
      BY <1>t, <1>7, <2>1, WalkType, WalkFills DEF LoadWalk, TypeOK
  <1>8. ASSUME NEW v \in Pages, LoadFault(v) PROVE TypeOK'
    BY <1>t, <1>8, RaiseType DEF LoadFault, TypeOK
  <1>9. ASSUME NEW v \in Pages, StoreHit(v) PROVE TypeOK'
    BY <1>t, <1>9 DEF StoreHit, TypeOK
  <1>10. ASSUME NEW v \in Pages, StoreWalk(v) PROVE TypeOK'
    <2>1. "write" \in Accesses
      BY <1>a
    <2> QED
      BY <1>t, <1>10, <2>1, WalkType, WalkFills DEF StoreWalk, TypeOK
  <1>11. ASSUME NEW v \in Pages, StoreFault(v) PROVE TypeOK'
    BY <1>t, <1>11, RaiseType DEF StoreFault, TypeOK
  <1>12. ASSUME NEW v \in Pages, NEW leaf \in Mappings[v], WritePte(v, leaf) PROVE TypeOK'
    <2>1. [leaf |-> leaf, a |-> FALSE, d |-> FALSE] \in Pte
      BY MmuAssumption DEF Pte
    <2> QED
      BY <1>t, <1>12, <2>1 DEF WritePte, TypeOK
  <1>13. CASE Ecall
    BY <1>t, <1>13, RaiseType DEF Ecall, TypeOK
  <1>14. ASSUME NEW val \in Mstatus, SetMstatus(val),
                UNCHANGED <<priv, satp, pt, code, fbVars, stale>>
         PROVE  TypeOK'
    BY <1>t, <1>14, TlbTypes DEF SetMstatus, TypeOK
  <1>15. ASSUME NEW val \in MstatusVals, WriteMstatus(val) PROVE TypeOK'
    BY <1>14, <1>15, MmuAssumption DEF WriteMstatus
  <1>16. ASSUME NEW val \in MstatusVals, WriteSstatus(val) PROVE TypeOK'
    <2>1. [val EXCEPT !.mprv = mstatus.mprv, !.mpp = mstatus.mpp] \in Mstatus
      BY <1>t, MmuAssumption DEF Mstatus
    <2> QED
      BY <1>14, <1>16, <2>1 DEF WriteSstatus
  <1>17. ASSUME NEW mode \in {"bare", "paged"}, WriteSatp(mode) PROVE TypeOK'
    BY <1>t, <1>17, TlbTypes DEF WriteSatp, TypeOK, Entry
  <1>18. CASE SfenceVma
    BY <1>t, <1>18, TlbTypes DEF SfenceVma, TypeOK, Entry
  <1>19. CASE Sret
    <2>1. mstatus' \in Mstatus /\ mstatus.spp \in 0 .. 3
      BY <1>t, <1>19 DEF Sret, Mstatus
    <2> QED
      BY <1>t, <1>19, <2>1, TlbTypes DEF Sret, SetPriv, TypeOK, Entry
  <1>20. CASE Mret
    <2>1. mstatus' \in Mstatus /\ mstatus.mpp \in 0 .. 3
      BY <1>t, <1>20 DEF Mret, Mstatus
    <2> QED
      BY <1>t, <1>20, <2>1, TlbTypes DEF Mret, SetPriv, TypeOK, Entry
  <1>21. ASSUME NEW p \in FbPages, DeviceWrite(p) PROVE TypeOK'
    BY <1>t, <1>21 DEF DeviceWrite, TypeOK
  <1>22. CASE Refresh
    BY <1>t, <1>22, TlbTypes DEF Refresh, TypeOK, Entry
  <1>23. CASE UNCHANGED vars
    BY <1>t, <1>23 DEF vars, TypeOK
  <1> QED
    BY <1>1, <1>2, <1>3, <1>4, <1>5, <1>6, <1>7, <1>8, <1>9, <1>10, <1>11, <1>12, <1>13,
       <1>15, <1>16, <1>17, <1>18, <1>19, <1>20, <1>21, <1>22, <1>23 DEF Next

\* The types hold in every behaviour: SPP fits its bit because machine mode
\* delegates nothing, and walks stay within the TLBs.
THEOREM TypeCorrect == Spec => []TypeOK
  BY InitType, NextType, PTL DEF Spec

-----------------------------------------------------------------------------
(* What is cached is permitted.                                                *)

TlbPermitted ==
    \A access \in Accesses : \A entry \in Cached(access) :
        Permitted(entry, access) \/ LentInMachineMode(access)

CodePermitted ==
    code # NoEntry => Permitted(code, "code") \/ (priv = PRV_S /\ code.leaf.u)

\* What an access may do depends on its privilege, SUM, MXR and satp only.
LEMMA ContextKept ==
    ASSUME NEW access, NEW entry,
           AccessPriv(access)' = AccessPriv(access),
           mstatus'.sum = mstatus.sum, mstatus'.mxr = mstatus.mxr, satp' = satp
    PROVE  Permitted(entry, access)' <=> Permitted(entry, access)
  BY DEF Permitted, Permits, Untranslated

\* A walk that succeeds caches what it was allowed to do.
LEMMA WalkPermitted ==
    ASSUME TypeOK, NEW v \in Pages, NEW access \in Accesses, Translates(v, access)
    PROVE  Permitted(Walked(v, access), access)
  <1>1. pt[v].leaf \in Leaf
    BY DEF TypeOK, Pte
  <1>2. pt[v].leaf # NoLeaf
    BY <1>1, MmuAssumption DEF Leaf, NoLeaf
  <1> QED
    BY <1>2 DEF Translates, Walked, Permitted

LEMMA EmptyPermitted ==
    ASSUME tlb' = EmptyTlb
    PROVE  TlbPermitted'
  BY EmptyCached DEF TlbPermitted

\* Nothing that translation depends on has changed, and no entry was added.
LEMMA KeptPermitted ==
    ASSUME TlbPermitted, UNCHANGED <<priv, mstatus, satp>>,
           \A access \in Accesses : Cached(access)' \subseteq Cached(access)
    PROVE  TlbPermitted'
  <1>1. \A access \in Accesses : /\ AccessPriv(access)' = AccessPriv(access)
                                /\ LentInMachineMode(access)' = LentInMachineMode(access)
    BY DEF AccessPriv, LentInMachineMode
  <1> QED
    BY <1>1, ContextKept DEF TlbPermitted

LEMMA WalkKeepsPermitted ==
    ASSUME TypeOK, TlbPermitted, UNCHANGED <<priv, mstatus, satp>>,
           NEW v \in Pages, NEW filled \in Accesses, Translates(v, filled),
           tlb' = TlbFilled(Walked(v, filled), filled)
    PROVE  TlbPermitted'
  <1>1. ASSUME NEW access \in Accesses, NEW e \in Cached(access)'
        PROVE  Permitted(e, access)' \/ LentInMachineMode(access)'
    <2>1. /\ AccessPriv(access)' = AccessPriv(access)
          /\ LentInMachineMode(access)' = LentInMachineMode(access)
      BY DEF AccessPriv, LentInMachineMode
    <2>2. Permitted(e, access)' <=> Permitted(e, access)
      BY <2>1, ContextKept
    <2>3. Walked(v, filled).vpage \in Pages
      BY WalkType
    <2>4. e \in Cached(access) \/ (access = filled /\ e = Walked(v, filled))
      BY <2>3, FilledCached
    <2>5. CASE e \in Cached(access)
      BY <2>1, <2>2, <2>5 DEF TlbPermitted
    <2>6. CASE access = filled /\ e = Walked(v, filled)
      BY <2>2, <2>6, WalkPermitted
    <2> QED
      BY <2>4, <2>5, <2>6
  <1> QED
    BY <1>1 DEF TlbPermitted

\* A trap, or a return, that changes the privilege flushes; one that does not
\* changes MPP in machine mode only.
LEMMA SamePrivPermitted ==
    ASSUME TypeOK, TlbPermitted, mstatus' \in Mstatus,
           priv' = priv, satp' = satp, tlb' = tlb,
           mstatus'.mprv = mstatus.mprv, mstatus'.sum = mstatus.sum,
           mstatus'.mxr = mstatus.mxr,
           mstatus'.mpp = mstatus.mpp \/ priv = PRV_M
    PROVE  TlbPermitted'
  <1>1. ASSUME NEW access \in Accesses, NEW e \in Cached(access)'
        PROVE  Permitted(e, access)' \/ LentInMachineMode(access)'
    <2>1. e \in Cached(access)
      BY DEF Cached
    <2>2. LentInMachineMode(access)' = LentInMachineMode(access)
      BY DEF LentInMachineMode
    <2>3. CASE LentInMachineMode(access)
      BY <2>2, <2>3
    <2>4. CASE ~LentInMachineMode(access)
      <3>1. AccessPriv(access)' = AccessPriv(access)
        BY <2>4 DEF AccessPriv, LentInMachineMode
      <3> QED
        BY <2>1, <2>4, <3>1, ContextKept DEF TlbPermitted
    <2> QED
      BY <2>3, <2>4
  <1> QED
    BY <1>1 DEF TlbPermitted

LEMMA RaisePermitted ==
    ASSUME TypeOK, TlbPermitted, NEW cause, RaiseException(cause)
    PROVE  TlbPermitted' /\ CodePermitted'
  <1>1. CodePermitted'
    BY DEF RaiseException, CodePermitted
  <1>2. CASE priv' # priv
    BY <1>1, <1>2, EmptyPermitted DEF RaiseException, SetPriv
  <1>3. CASE priv' = priv
    <2>1. mstatus \in Mstatus /\ mstatus' \in Mstatus /\ satp' = satp
      BY RaiseType DEF TypeOK
    <2>2. tlb' = tlb
      BY <1>3 DEF RaiseException, SetPriv
    <2>3. /\ mstatus'.mprv = mstatus.mprv /\ mstatus'.sum = mstatus.sum
          /\ mstatus'.mxr = mstatus.mxr
          /\ mstatus'.mpp = mstatus.mpp \/ priv = PRV_M
      BY <1>3, <2>1 DEF RaiseException, SetPriv, Mstatus
    <2> QED
      BY <1>1, <1>3, <2>1, <2>2, <2>3, SamePrivPermitted
  <1> QED
    BY <1>1, <1>2, <1>3

\* set_mstatus flushes for every change that matters to a load or a store.
LEMMA SetMstatusPermitted ==
    ASSUME TypeOK, TlbPermitted, CodePermitted, NEW val \in Mstatus, SetMstatus(val),
           UNCHANGED <<priv, satp, code>>
    PROVE  TlbPermitted' /\ CodePermitted'
  <1>1. mstatus \in Mstatus /\ mstatus' \in Mstatus /\ mstatus' = val
    BY DEF SetMstatus, TypeOK
  <1>2. CodePermitted'
    <2>1. AccessPriv("code") = priv /\ AccessPriv("code")' = priv
      BY DEF AccessPriv
    <2> QED
      BY <2>1 DEF CodePermitted, Permitted, Permits, Untranslated
  <1>3. CASE MmuConfigChanges(val)
    BY <1>2, <1>3, EmptyPermitted DEF SetMstatus
  <1>4. CASE ~MmuConfigChanges(val)
    <2>1. /\ tlb' = tlb /\ mstatus'.mprv = mstatus.mprv /\ mstatus'.sum = mstatus.sum
          /\ mstatus'.mxr = mstatus.mxr
          /\ mstatus.mprv => mstatus'.mpp = mstatus.mpp
      BY <1>1, <1>4 DEF SetMstatus, MmuConfigChanges
    <2>2. \A access \in Accesses : /\ AccessPriv(access)' = AccessPriv(access)
                                  /\ LentInMachineMode(access)' = LentInMachineMode(access)
                                  /\ Cached(access)' = Cached(access)
      BY <2>1 DEF AccessPriv, LentInMachineMode, Cached
    <2> QED
      BY <1>2, <2>1, <2>2, ContextKept DEF TlbPermitted
  <1> QED
    BY <1>3, <1>4

LEMMA NextPermitted ==
    TypeOK /\ TlbPermitted /\ CodePermitted /\ [Next]_vars => TlbPermitted' /\ CodePermitted'
  <1> SUFFICES ASSUME TypeOK, TlbPermitted, CodePermitted, [Next]_vars
               PROVE  TlbPermitted' /\ CodePermitted'
    OBVIOUS
  <1> USE DEF cpuVars, fbVars
  <1>t. mstatus \in Mstatus /\ "read" \in Accesses /\ "write" \in Accesses /\ "code" \in Accesses
    BY DEF TypeOK, Accesses
  <1>c. ASSUME UNCHANGED <<priv, mstatus, satp>>, code' \in {code, NoEntry}
        PROVE  CodePermitted'
    BY <1>c DEF CodePermitted, Permitted, Permits, Untranslated, AccessPriv
  <1>k. ASSUME UNCHANGED <<priv, mstatus, satp, tlb>>, code' \in {code, NoEntry}
        PROVE  TlbPermitted' /\ CodePermitted'
    BY <1>k, <1>c, KeptPermitted DEF Cached
  <1>e. ASSUME tlb' = EmptyTlb, code' = NoEntry
        PROVE  TlbPermitted' /\ CodePermitted'
    BY <1>e, EmptyPermitted DEF CodePermitted
  <1>1. CASE EndBlock
    BY <1>1, <1>k DEF EndBlock
  <1>2. ASSUME NEW cause, Interrupt(cause) PROVE TlbPermitted' /\ CodePermitted'
    BY <1>2, RaisePermitted DEF Interrupt
  <1>3. ASSUME NEW v \in Pages, FetchHit(v) PROVE TlbPermitted' /\ CodePermitted'
    <2>1. UNCHANGED <<priv, mstatus, satp, tlb>> /\ code' = tlb["code"][Index(v)]
      BY <1>3 DEF FetchHit
    <2>2. code' \in Cached("code")
      <3>1. tlb["code"][Index(v)].vpage = v /\ v # -1
        BY <1>3, MmuAssumption DEF FetchHit, Hit
      <3> QED
        BY <2>1, <3>1, IndexType DEF Cached, NoEntry
    <2>3. Permitted(code', "code")
      BY <1>t, <2>2 DEF TlbPermitted, LentInMachineMode
    <2>4. CodePermitted'
      BY <2>1, <2>3 DEF CodePermitted, Permitted, Permits, Untranslated, AccessPriv
    <2> QED
      BY <2>1, <2>4, KeptPermitted DEF Cached
  <1>4. ASSUME NEW v \in Pages, FetchWalk(v) PROVE TlbPermitted' /\ CodePermitted'
    <2>1. TlbPermitted'
      BY <1>4, <1>t, WalkKeepsPermitted DEF FetchWalk
    <2>2. UNCHANGED <<priv, mstatus, satp>> /\ code' = Walked(v, "code")
      BY <1>4 DEF FetchWalk
    <2>3. Permitted(code', "code")
      BY <1>4, <1>t, <2>2, WalkPermitted DEF FetchWalk
    <2>4. CodePermitted'
      BY <2>2, <2>3 DEF CodePermitted, Permitted, Permits, Untranslated, AccessPriv
    <2> QED
      BY <2>1, <2>4
  <1>5. ASSUME NEW v \in Pages, FetchDevice(v) PROVE TlbPermitted' /\ CodePermitted'
    BY <1>5, RaisePermitted DEF FetchDevice
  <1>6. ASSUME NEW v \in Pages, FetchFault(v) PROVE TlbPermitted' /\ CodePermitted'
    BY <1>6, RaisePermitted DEF FetchFault
  <1>7. ASSUME NEW v \in Pages, LoadWalk(v) PROVE TlbPermitted' /\ CodePermitted'
    BY <1>7, <1>t, <1>c, WalkKeepsPermitted DEF LoadWalk
  <1>8. ASSUME NEW v \in Pages, LoadFault(v) PROVE TlbPermitted' /\ CodePermitted'
    BY <1>8, RaisePermitted DEF LoadFault
  <1>9. ASSUME NEW v \in Pages, StoreHit(v) PROVE TlbPermitted' /\ CodePermitted'
    BY <1>9, <1>k DEF StoreHit
  <1>10. ASSUME NEW v \in Pages, StoreWalk(v) PROVE TlbPermitted' /\ CodePermitted'
    BY <1>10, <1>t, <1>c, WalkKeepsPermitted DEF StoreWalk
  <1>11. ASSUME NEW v \in Pages, StoreFault(v) PROVE TlbPermitted' /\ CodePermitted'
    BY <1>11, RaisePermitted DEF StoreFault
  <1>12. ASSUME NEW v \in Pages, NEW leaf \in Mappings[v], WritePte(v, leaf)
         PROVE  TlbPermitted' /\ CodePermitted'
    BY <1>12, <1>k DEF WritePte
  <1>13. CASE Ecall
    BY <1>13, RaisePermitted DEF Ecall
  <1>15. ASSUME NEW val \in MstatusVals, WriteMstatus(val)
         PROVE  TlbPermitted' /\ CodePermitted'
    BY <1>15, SetMstatusPermitted, MmuAssumption DEF WriteMstatus
  <1>16. ASSUME NEW val \in MstatusVals, WriteSstatus(val)
         PROVE  TlbPermitted' /\ CodePermitted'
    <2>1. [val EXCEPT !.mprv = mstatus.mprv, !.mpp = mstatus.mpp] \in Mstatus
      BY <1>t, MmuAssumption DEF Mstatus
    <2> QED
      BY <1>16, <2>1, SetMstatusPermitted DEF WriteSstatus
  <1>17. ASSUME NEW mode \in {"bare", "paged"}, WriteSatp(mode)
         PROVE  TlbPermitted' /\ CodePermitted'
    BY <1>17, <1>e DEF WriteSatp
  <1>18. CASE SfenceVma
    BY <1>18, <1>e DEF SfenceVma
  <1>19. CASE Sret
    <2>1. code' = NoEntry /\ satp' = satp /\ mstatus' = [mstatus EXCEPT !.spp = 0]
      BY <1>19 DEF Sret
    <2>2. /\ mstatus' \in Mstatus /\ mstatus'.mprv = mstatus.mprv
          /\ mstatus'.sum = mstatus.sum /\ mstatus'.mxr = mstatus.mxr
          /\ mstatus'.mpp = mstatus.mpp
      BY <1>t, <2>1 DEF Mstatus
    <2>3. CASE priv' # priv
      BY <1>19, <1>e, <2>1, <2>3 DEF Sret, SetPriv
    <2>4. CASE priv' = priv
      <3>1. tlb' = tlb
        BY <1>19, <2>4 DEF Sret, SetPriv
      <3> QED
        BY <2>1, <2>2, <2>4, <3>1, SamePrivPermitted DEF CodePermitted
    <2> QED
      BY <2>3, <2>4
  <1>20. CASE Mret
    <2>1. code' = NoEntry /\ satp' = satp /\ priv = PRV_M /\ mstatus' = [mstatus EXCEPT !.mpp = 0]
      BY <1>20 DEF Mret
    <2>2. /\ mstatus' \in Mstatus /\ mstatus'.mprv = mstatus.mprv
          /\ mstatus'.sum = mstatus.sum /\ mstatus'.mxr = mstatus.mxr
      BY <1>t, <2>1 DEF Mstatus
    <2>3. CASE priv' # priv
      BY <1>20, <1>e, <2>1, <2>3 DEF Mret, SetPriv
    <2>4. CASE priv' = priv
      <3>1. tlb' = tlb
        BY <1>20, <2>4 DEF Mret, SetPriv
      <3> QED
        BY <2>1, <2>2, <2>4, <3>1, SamePrivPermitted DEF CodePermitted
    <2> QED
      BY <2>3, <2>4
  <1>21. ASSUME NEW p \in FbPages, DeviceWrite(p) PROVE TlbPermitted' /\ CodePermitted'
    BY <1>21, <1>k DEF DeviceWrite
  <1>22. CASE Refresh
    <2>1. UNCHANGED <<priv, mstatus, satp>> /\ code' = NoEntry
      BY <1>22 DEF Refresh
    <2>2. \A access \in Accesses : Cached(access)' \subseteq Cached(access)
      <3>1. CASE dirty # {}
        BY <1>22, <3>1, FlushedCached DEF Refresh
      <3>2. CASE dirty = {}
        BY <1>22, <3>2 DEF Refresh, Cached
      <3> QED
        BY <3>1, <3>2
    <2> QED
      BY <1>c, <2>1, <2>2, KeptPermitted
  <1>23. CASE UNCHANGED vars
    BY <1>23, <1>k DEF vars
  <1> QED
    BY <1>1, <1>2, <1>3, <1>4, <1>5, <1>6, <1>7, <1>8, <1>9, <1>10, <1>11, <1>12, <1>13,
       <1>15, <1>16, <1>17, <1>18, <1>19, <1>20, <1>21, <1>22, <1>23 DEF Next

\* No TLB and no code pointer ever holds a translation that the privilege,
\* mstatus and satp of the moment refuse, but for the loads and stores machine
\* mode makes with MPRV set (riscv_cpu.c, set_priv and set_mstatus).
THEOREM CachesAreSafe == Spec => []CachedArePermitted
  <1>1. Init => TlbPermitted /\ CodePermitted
    <2>1. Init => \A access \in Accesses : Cached(access) = {}
      BY DEF Init, EmptyTlb, Cached
    <2> QED
      BY <2>1 DEF Init, TlbPermitted, CodePermitted
  <1>2. TlbPermitted /\ CodePermitted => CachedArePermitted
    BY DEF TlbPermitted, CodePermitted, CachedArePermitted
  <1> QED
    BY <1>1, <1>2, TypeCorrect, NextPermitted, PTL DEF Spec

-----------------------------------------------------------------------------
(* The display.                                                                *)

\* A framebuffer page that can be written without setting its dirty bit has it set.
WritesAreTracked ==
    \A entry \in Cached("write") : entry.ppage \in FbPages => entry.ppage \in dirty

\* Every step but those that store, or take the dirty bits, leaves them alone
\* and adds nothing to the write TLB.
LEMMA QuietStep ==
    ASSUME TypeOK, [Next]_vars
    PROVE  \/ /\ UNCHANGED <<dirty, unshown>>
              /\ Cached("write")' \subseteq Cached("write")
           \/ \E v \in Pages : StoreHit(v) \/ StoreWalk(v)
           \/ \E p \in FbPages : DeviceWrite(p)
           \/ Refresh
  <1> USE DEF cpuVars, fbVars
  <1> DEFINE Quiet == /\ UNCHANGED <<dirty, unshown>>
                      /\ Cached("write")' \subseteq Cached("write")
  <1>a. {"read", "write", "code"} = Accesses
    BY DEF Accesses
  <1>k. ASSUME UNCHANGED <<dirty, unshown>>, tlb' = tlb \/ tlb' = EmptyTlb PROVE Quiet
    BY <1>k, <1>a, EmptyCached DEF Cached
  <1>r. ASSUME NEW cause, RaiseException(cause) PROVE Quiet
    BY <1>r, <1>k DEF RaiseException, SetPriv
  <1>w. ASSUME NEW v \in Pages, NEW access \in Accesses \ {"write"},
               tlb' = TlbFilled(Walked(v, access), access), UNCHANGED <<dirty, unshown>>
        PROVE  Quiet
    BY <1>w, <1>a, WalkType, FilledCached
  <1>m. ASSUME NEW val, SetMstatus(val), UNCHANGED <<dirty, unshown>> PROVE Quiet
    BY <1>m, <1>k DEF SetMstatus
  <1>1. CASE EndBlock
    BY <1>1, <1>k DEF EndBlock
  <1>2. ASSUME NEW cause, Interrupt(cause) PROVE Quiet
    BY <1>2, <1>r DEF Interrupt
  <1>3. ASSUME NEW v \in Pages, FetchHit(v) PROVE Quiet
    BY <1>3, <1>k DEF FetchHit
  <1>4. ASSUME NEW v \in Pages, FetchWalk(v) PROVE Quiet
    BY <1>4, <1>a, <1>w DEF FetchWalk
  <1>5. ASSUME NEW v \in Pages, FetchDevice(v) \/ FetchFault(v) \/ LoadFault(v) \/ StoreFault(v)
        PROVE  Quiet
    BY <1>5, <1>r DEF FetchDevice, FetchFault, LoadFault, StoreFault
  <1>6. ASSUME NEW v \in Pages, LoadWalk(v) PROVE Quiet
    BY <1>6, <1>a, <1>w DEF LoadWalk
  <1>7. ASSUME NEW v \in Pages, NEW leaf, WritePte(v, leaf) PROVE Quiet
    BY <1>7, <1>k DEF WritePte
  <1>8. CASE Ecall
    BY <1>8, <1>r DEF Ecall
  <1>9. ASSUME NEW val, WriteMstatus(val) \/ WriteSstatus(val) PROVE Quiet
    BY <1>9, <1>m DEF WriteMstatus, WriteSstatus
  <1>10. ASSUME NEW mode, WriteSatp(mode) PROVE Quiet
    BY <1>10, <1>k DEF WriteSatp
  <1>11. CASE SfenceVma
    BY <1>11, <1>k DEF SfenceVma
  <1>12. CASE Sret \/ Mret
    BY <1>12, <1>k DEF Sret, Mret, SetPriv
  <1>13. CASE UNCHANGED vars
    BY <1>13, <1>k DEF vars
  <1> QED
    BY <1>1, <1>2, <1>3, <1>4, <1>5, <1>6, <1>7, <1>8, <1>9, <1>10, <1>11, <1>12, <1>13 DEF Next

LEMMA NextTracked ==
    TypeOK /\ WritesAreTracked /\ ChangesAreShown /\ [Next]_vars
        => WritesAreTracked' /\ ChangesAreShown'
  <1> SUFFICES ASSUME TypeOK, WritesAreTracked, ChangesAreShown, [Next]_vars
               PROVE  WritesAreTracked' /\ ChangesAreShown'
    OBVIOUS
  <1>a. "write" \in Accesses
    BY DEF Accesses
  <1>1. CASE /\ UNCHANGED <<dirty, unshown>>
             /\ Cached("write")' \subseteq Cached("write")
    BY <1>1 DEF WritesAreTracked, ChangesAreShown
  <1>2. ASSUME NEW v \in Pages, StoreHit(v) PROVE WritesAreTracked' /\ ChangesAreShown'
    <2>1. tlb["write"][Index(v)] \in Cached("write")
      <3>1. tlb["write"][Index(v)].vpage = v /\ v # -1
        BY <1>2, MmuAssumption DEF StoreHit, Hit
      <3> QED
        BY <3>1, IndexType DEF Cached, NoEntry
    <2> QED
      BY <1>2, <2>1 DEF StoreHit, WritesAreTracked, ChangesAreShown, Cached
  <1>3. ASSUME NEW v \in Pages, StoreWalk(v) PROVE WritesAreTracked' /\ ChangesAreShown'
    <2> DEFINE entry == Walked(v, "write")
    <2>1. /\ tlb' = TlbFilled(entry, "write") /\ entry.vpage \in Pages
          /\ dirty' = dirty \cup ({entry.ppage} \cap FbPages)
          /\ unshown' = unshown \cup ({entry.ppage} \cap FbPages)
      BY <1>3, <1>a, WalkType DEF StoreWalk
    <2> HIDE DEF entry
    <2>2. \A e \in Cached("write")' : e \in Cached("write") \/ e = entry
      BY <1>a, <2>1, FilledCached
    <2> QED
      BY <2>1, <2>2 DEF WritesAreTracked, ChangesAreShown
  <1>4. ASSUME NEW p \in FbPages, DeviceWrite(p) PROVE WritesAreTracked' /\ ChangesAreShown'
    BY <1>4 DEF DeviceWrite, WritesAreTracked, ChangesAreShown, Cached
  <1>5. CASE Refresh
    <2>1. ChangesAreShown'
      BY <1>5 DEF Refresh, ChangesAreShown
    <2>2. CASE dirty # {}
      BY <1>5, <1>a, <2>1, <2>2, FlushedCached DEF Refresh, WritesAreTracked
    <2>3. CASE dirty = {}
      BY <1>5, <2>1, <2>3 DEF Refresh, WritesAreTracked, Cached
    <2> QED
      BY <2>2, <2>3
  <1> QED
    BY <1>1, <1>2, <1>3, <1>4, <1>5, QuietStep

\* A change of the framebuffer is never missed by the display, although stores
\* that hit the write TLB set no dirty bit (iomem.c, default_get_dirty_bits).
THEOREM DisplayIsComplete == Spec => []ChangesAreShown
  <1>1. Init => WritesAreTracked /\ ChangesAreShown
    <2>1. Init => Cached("write") = {}
      BY DEF Init, EmptyTlb, Cached, Accesses
    <2> QED
      BY <2>1 DEF Init, WritesAreTracked, ChangesAreShown
  <1> QED
    BY <1>1, TypeCorrect, NextTracked, PTL DEF Spec

-----------------------------------------------------------------------------
(* The page table.                                                             *)

\* What FencesAreObeyed and AccessesAreRecorded say of one entry.
InStep(access, entry) ==
    entry.leaf # NoLeaf /\ entry.vpage \notin stale =>
        /\ entry.leaf = pt[entry.vpage].leaf
        /\ pt[entry.vpage].a
        /\ access = "write" => pt[entry.vpage].d

AllInStep ==
    /\ \A access \in Accesses : \A entry \in Cached(access) : InStep(access, entry)
    /\ InStep("code", code)

\* A walk rewrites accessed and dirty bits only, and clears none.
LEMMA WalkKeepsLeaves ==
    ASSUME TypeOK, NEW v \in Pages, NEW access \in Accesses, NEW w \in Pages
    PROVE  /\ PtAfter(v, access)[w].leaf = pt[w].leaf
           /\ pt[w].a => PtAfter(v, access)[w].a
           /\ pt[w].d => PtAfter(v, access)[w].d
           /\ Walked(v, access).leaf # NoLeaf =>
                /\ Walked(v, access).leaf = pt[v].leaf
                /\ PtAfter(v, access)[v].a
                /\ access = "write" => PtAfter(v, access)[v].d
  <1>1. pt \in [Pages -> Pte] /\ pt[w] \in Pte /\ pt[v] \in Pte
    BY DEF TypeOK
  <1>2. CASE Untranslated(access)
    BY <1>1, <1>2 DEF PtAfter, Walked
  <1>3. CASE ~Untranslated(access)
    <2>1. PtAfter(v, access) = [pt EXCEPT ![v] = Touched(pt[v], access)]
      BY <1>3 DEF PtAfter
    <2>2. Walked(v, access).leaf = pt[v].leaf
      BY <1>3 DEF Walked
    <2>3. /\ Touched(pt[v], access).leaf = pt[v].leaf
          /\ Touched(pt[v], access).a
          /\ pt[v].d => Touched(pt[v], access).d
          /\ access = "write" => Touched(pt[v], access).d
      BY <1>1 DEF Touched, Pte
    <2> HIDE DEF Touched
    <2> QED
      BY <1>1, <2>1, <2>2, <2>3
  <1> QED
    BY <1>2, <1>3

LEMMA WalkInStep ==
    ASSUME TypeOK, AllInStep, stale' = stale, NEW v \in Pages, NEW filled \in Accesses,
           pt' = PtAfter(v, filled), tlb' = tlb \/ tlb' = TlbFilled(Walked(v, filled), filled),
           NEW access \in Accesses, NEW e \in Cached(access)'
    PROVE  InStep(access, e)'
  <1>1. Walked(v, filled).vpage = v
    BY WalkType
  <1>2. e \in Cached(access) \/ (access = filled /\ e = Walked(v, filled))
    BY <1>1, FilledCached DEF Cached
  <1>3. CASE e \in Cached(access)
    <2>1. e.vpage \in Pages
      BY <1>3, CachedType
    <2> QED
      BY <1>3, <2>1, WalkKeepsLeaves DEF AllInStep, InStep
  <1>4. CASE access = filled /\ e = Walked(v, filled)
    BY <1>1, <1>4, WalkKeepsLeaves DEF InStep
  <1> QED
    BY <1>2, <1>3, <1>4

\* No step but a walk or a store of the kernel changes the page table, and none
\* but a walk adds to the TLBs.
LEMMA KeptInStep ==
    ASSUME TypeOK, AllInStep, pt' = pt, stale' = stale,
           \A access \in Accesses : Cached(access)' \subseteq Cached(access),
           code' = NoEntry \/ code' = code \/ code' \in Cached("code")
    PROVE  AllInStep'
  <1>1. "code" \in Accesses
    BY DEF Accesses
  <1>2. InStep("code", code)'
    <2>1. CASE code' = NoEntry
      BY <2>1 DEF InStep, NoEntry
    <2>2. CASE code' = code
      BY <2>2 DEF AllInStep, InStep
    <2>3. CASE code' \in Cached("code")
      BY <1>1, <2>3 DEF AllInStep, InStep
    <2> QED
      BY <2>1, <2>2, <2>3
  <1>3. ASSUME NEW access \in Accesses, NEW e \in Cached(access)' PROVE InStep(access, e)'
    BY <1>3 DEF AllInStep, InStep
  <1> QED
    BY <1>2, <1>3 DEF AllInStep

LEMMA NextInStep == TypeOK /\ AllInStep /\ [Next]_vars => AllInStep'
  <1> SUFFICES ASSUME TypeOK, AllInStep, [Next]_vars PROVE AllInStep'
    OBVIOUS
  <1> USE DEF cpuVars, fbVars
  <1>a. {"read", "write", "code"} = Accesses
    BY DEF Accesses
  <1>k. ASSUME pt' = pt, stale' = stale, tlb' = tlb \/ tlb' = EmptyTlb,
               code' = NoEntry \/ code' = code
        PROVE  AllInStep'
    <2>1. \A access \in Accesses : Cached(access)' \subseteq Cached(access)
      BY <1>k, EmptyCached DEF Cached
    <2> QED
      BY <1>k, <2>1, KeptInStep
  <1>e. ASSUME tlb' = EmptyTlb, code' = NoEntry PROVE AllInStep'
    BY <1>e, EmptyCached DEF AllInStep, InStep, NoEntry
  <1>r. ASSUME NEW cause, RaiseException(cause), pt' = pt PROVE AllInStep'
    BY <1>r, <1>k DEF RaiseException, SetPriv
  <1>m. ASSUME NEW val, SetMstatus(val), UNCHANGED <<pt, code, stale>> PROVE AllInStep'
    BY <1>m, <1>k DEF SetMstatus
  <1>w. ASSUME NEW v \in Pages, NEW access \in Accesses, pt' = PtAfter(v, access),
               tlb' = tlb \/ tlb' = TlbFilled(Walked(v, access), access),
               UNCHANGED <<code, stale>>
        PROVE  AllInStep'
    <2>1. InStep("code", code)'
      <3>1. CASE code.leaf = NoLeaf
        BY <1>w, <3>1 DEF InStep
      <3>2. CASE code.leaf # NoLeaf
        <4>1. code.vpage \in Pages
          BY <3>2 DEF TypeOK, Entry, NoEntry
        <4> QED
          BY <1>w, <4>1, WalkKeepsLeaves DEF AllInStep, InStep
      <3> QED
        BY <3>1, <3>2
    <2> QED
      BY <1>w, <2>1, WalkInStep DEF AllInStep
  <1>1. CASE EndBlock
    BY <1>1, <1>k DEF EndBlock
  <1>2. ASSUME NEW cause, Interrupt(cause) PROVE AllInStep'
    BY <1>2, <1>r DEF Interrupt
  <1>3. ASSUME NEW v \in Pages, FetchHit(v) PROVE AllInStep'
    <2>1. tlb["code"][Index(v)] \in Cached("code")
      <3>1. tlb["code"][Index(v)].vpage = v /\ v # -1
        BY <1>3, MmuAssumption DEF FetchHit, Hit
      <3> QED
        BY <3>1, IndexType DEF Cached, NoEntry
    <2> QED
      BY <1>3, <2>1, KeptInStep DEF FetchHit, Cached
  <1>4. ASSUME NEW v \in Pages, FetchWalk(v) PROVE AllInStep'
    <2>1. "code" \in Accesses
      BY <1>a
    <2>2. \A access \in Accesses : \A e \in Cached(access)' : InStep(access, e)'
      BY <1>4, <2>1, WalkInStep DEF FetchWalk
    <2>3. InStep("code", code)'
      <3>1. code' = Walked(v, "code") /\ code'.vpage = v /\ pt' = PtAfter(v, "code")
        BY <1>4, <2>1, WalkType DEF FetchWalk
      <3> QED
        BY <2>1, <3>1, WalkKeepsLeaves DEF InStep
    <2> QED
      BY <2>2, <2>3 DEF AllInStep
  <1>5. ASSUME NEW v \in Pages, FetchDevice(v) PROVE AllInStep'
    <2>1. "code" \in Accesses
      BY <1>a
    <2>2. pt' = PtAfter(v, "code") /\ stale' = stale /\ code' = NoEntry
      BY <1>5 DEF FetchDevice, RaiseException
    <2>3. CASE tlb' = EmptyTlb
      BY <2>2, <2>3, <1>e
    <2>4. CASE tlb' = tlb
      <3>1. \A access \in Accesses : \A e \in Cached(access)' : InStep(access, e)'
        BY <2>1, <2>2, <2>4, WalkInStep
      <3> QED
        BY <2>2, <3>1 DEF AllInStep, InStep, NoEntry
    <2> QED
      BY <1>5, <2>3, <2>4 DEF FetchDevice, RaiseException, SetPriv
  <1>6. ASSUME NEW v \in Pages, FetchFault(v) \/ LoadFault(v) \/ StoreFault(v) PROVE AllInStep'
    BY <1>6, <1>r DEF FetchFault, LoadFault, StoreFault
  <1>7. ASSUME NEW v \in Pages, LoadWalk(v) PROVE AllInStep'
    BY <1>7, <1>a, <1>w DEF LoadWalk
  <1>8. ASSUME NEW v \in Pages, StoreHit(v) PROVE AllInStep'
    BY <1>8, <1>k DEF StoreHit
  <1>9. ASSUME NEW v \in Pages, StoreWalk(v) PROVE AllInStep'
    BY <1>9, <1>a, <1>w DEF StoreWalk
  <1>10. ASSUME NEW v \in Pages, NEW leaf \in Mappings[v], WritePte(v, leaf) PROVE AllInStep'
    <2>1. /\ tlb' = tlb /\ code' = code /\ stale' = stale \cup {v}
          /\ \A w \in Pages \ {v} : pt'[w] = pt[w]
      BY <1>10 DEF WritePte, TypeOK
    <2>2. ASSUME NEW access, NEW e \in Entry, InStep(access, e) PROVE InStep(access, e)'
      <3>1. CASE e = NoEntry
        BY <3>1 DEF InStep, NoEntry
      <3>2. CASE e # NoEntry
        <4>1. e \in [vpage : Pages, ppage : RamPages, leaf : Leaf \cup {NoLeaf}]
          BY <3>2 DEF Entry
        <4>2. e.vpage \in Pages
          BY <4>1
        <4> QED
          BY <2>1, <2>2, <4>2 DEF InStep
      <3> QED
        BY <3>1, <3>2
    <2>3. \A access \in Accesses : Cached(access)' = Cached(access)
      BY <2>1 DEF Cached
    <2>4. \A access \in Accesses : \A e \in Cached(access) : e \in Entry
      BY CachedType
    <2>5. code \in Entry
      BY DEF TypeOK
    <2> QED
      BY <2>1, <2>2, <2>3, <2>4, <2>5 DEF AllInStep
  <1>11. CASE Ecall
    BY <1>11, <1>r DEF Ecall
  <1>12. ASSUME NEW val, WriteMstatus(val) \/ WriteSstatus(val) PROVE AllInStep'
    BY <1>12, <1>m DEF WriteMstatus, WriteSstatus
  <1>13. ASSUME NEW mode, WriteSatp(mode) PROVE AllInStep'
    BY <1>13, <1>e DEF WriteSatp
  <1>14. CASE SfenceVma
    BY <1>14, <1>e DEF SfenceVma
  <1>15. CASE Sret \/ Mret
    BY <1>15, <1>k DEF Sret, Mret, SetPriv
  <1>16. ASSUME NEW p, DeviceWrite(p) PROVE AllInStep'
    BY <1>16, <1>k DEF DeviceWrite
  <1>17. CASE Refresh
    <2>1. \A access \in Accesses : Cached(access)' \subseteq Cached(access)
      BY <1>17, FlushedCached DEF Refresh, Cached
    <2> QED
      BY <1>17, <2>1, KeptInStep DEF Refresh
  <1>18. CASE UNCHANGED vars
    BY <1>18, <1>k DEF vars
  <1> QED
    BY <1>1, <1>2, <1>3, <1>4, <1>5, <1>6, <1>7, <1>8, <1>9, <1>10, <1>11, <1>12, <1>13,
       <1>14, <1>15, <1>16, <1>17, <1>18 DEF Next

LEMMA AlwaysInStep == Spec => []AllInStep
  <1>1. Init => AllInStep
    <2>1. Init => \A access \in Accesses : Cached(access) = {}
      BY DEF Init, EmptyTlb, Cached
    <2>2. Init => code = NoEntry
      BY DEF Init
    <2>3. NoEntry.leaf = NoLeaf
      BY DEF NoEntry
    <2> QED
      BY <2>1, <2>2, <2>3 DEF AllInStep, InStep
  <1> QED
    BY <1>1, TypeCorrect, NextInStep, PTL DEF Spec

\* After an sfence.vma no access goes where the page table no longer leads,
\* whatever the TLBs and the interpreter's code pointer held (riscv_cpu.c,
\* riscv_cpu_template.h).
THEOREM FencesWork == Spec => []FencesAreObeyed
  <1>1. AllInStep => FencesAreObeyed
    BY DEF AllInStep, InStep, FencesAreObeyed, ReachedAsMapped
  <1> QED
    BY <1>1, AlwaysInStep, PTL

\* A page reached through a TLB is marked accessed, and a page written through
\* one is marked dirty, in the page table (riscv_cpu.c, get_phys_addr).
THEOREM BitsAreSet == Spec => []AccessesAreRecorded
  <1>1. AllInStep => AccessesAreRecorded
    BY DEF AllInStep, InStep, AccessesAreRecorded
  <1> QED
    BY <1>1, AlwaysInStep, PTL

=============================================================================
