------------------------- MODULE VirtioBlockProofs -------------------------
(***************************************************************************)
(* Theorems about VirtioBlock, for every size of the queue and of its      *)
(* indices, every layout of the rings and every set of requests.           *)
(***************************************************************************)
EXTENDS VirtioBlock, VirtioProofs, FiniteSetTheorems, FunctionTheorems, SequenceTheorems

-----------------------------------------------------------------------------
(* Sequences of chains *)

LEMMA FcnIsSeq ==
    ASSUME NEW S, NEW n \in Nat, NEW f \in [1 .. n -> S]
    PROVE  f \in Seq(S) /\ Len(f) = n /\ DOMAIN f = 1 .. n
<1>1. f \in Seq(S) /\ DOMAIN f = 1 .. n
  BY SeqDef
<1>2. QED
  BY <1>1, LenProperties

\* One more at the end.
LEMMA AppendRange ==
    ASSUME NEW S, NEW s \in Seq(S), NEW e \in S
    PROVE  /\ Range(Append(s, e)) = Range(s) \cup {e}
           /\ IsInjective(s) /\ e \notin Range(s) => IsInjective(Append(s, e))
<1> DEFINE t == Append(s, e)
<1>1. /\ t \in Seq(S) /\ Len(t) = Len(s) + 1 /\ Len(s) \in Nat
      /\ \A i \in 1 .. Len(s) : t[i] = s[i]
      /\ t[Len(s) + 1] = e
      /\ DOMAIN s = 1 .. Len(s) /\ DOMAIN t = 1 .. Len(s) + 1
  BY AppendProperties, LenProperties
<1> HIDE DEF t
<1>2. Range(t) = Range(s) \cup {e}
  <2>1. ASSUME NEW x \in Range(t) PROVE x \in Range(s) \cup {e}
    <3>1. PICK i \in 1 .. Len(s) + 1 : t[i] = x
      BY <1>1 DEF Range
    <3>2. CASE i = Len(s) + 1
      BY <1>1, <3>1, <3>2
    <3>3. CASE i \in 1 .. Len(s)
      BY <1>1, <3>1, <3>3 DEF Range
    <3>4. QED
      BY <1>1, <3>2, <3>3
  <2>2. ASSUME NEW x \in Range(s) PROVE x \in Range(t)
    <3>1. PICK i \in 1 .. Len(s) : s[i] = x
      BY <1>1 DEF Range
    <3>2. i \in 1 .. Len(s) + 1 /\ t[i] = x
      BY <1>1, <3>1
    <3>3. QED
      BY <1>1, <3>2 DEF Range
  <2>3. e \in Range(t)
    <3>1. Len(s) + 1 \in 1 .. Len(s) + 1
      BY <1>1
    <3>2. QED
      BY <1>1, <3>1 DEF Range
  <2>4. QED
    BY <2>1, <2>2, <2>3
<1>3. ASSUME IsInjective(s), e \notin Range(s),
             NEW i \in 1 .. Len(s) + 1, NEW j \in 1 .. Len(s) + 1, t[i] = t[j]
      PROVE  i = j
  <2>1. \A k \in 1 .. Len(s) : t[k] = s[k] /\ s[k] # e
    BY <1>1, <1>3 DEF Range
  <2>2. CASE i \in 1 .. Len(s) /\ j \in 1 .. Len(s)
    BY <1>1, <1>3, <2>1, <2>2 DEF IsInjective
  <2>3. CASE ~(i \in 1 .. Len(s) /\ j \in 1 .. Len(s))
    BY <1>1, <1>3, <2>1, <2>3
  <2>4. QED
    BY <2>2, <2>3
<1>4. IsInjective(s) /\ e \notin Range(s) => IsInjective(t)
  BY <1>1, <1>3 DEF IsInjective
<1>5. QED
  BY <1>2, <1>4 DEF t

\* One less at the front.
LEMMA TailRange ==
    ASSUME NEW S, NEW s \in Seq(S), s # << >>
    PROVE  /\ Head(s) \in Range(s)
           /\ Range(s) = Range(Tail(s)) \cup {Head(s)}
           /\ IsInjective(s) => IsInjective(Tail(s)) /\ Head(s) \notin Range(Tail(s))
<1> DEFINE t == Tail(s)
<1>1. /\ Len(s) \in Nat \ {0} /\ DOMAIN s = 1 .. Len(s)
      /\ t \in Seq(S) /\ Len(t) = Len(s) - 1 /\ DOMAIN t = 1 .. Len(s) - 1
      /\ \A i \in 1 .. Len(s) - 1 : t[i] = s[i + 1]
      /\ Head(s) = s[1]
  BY HeadTailProperties, LenProperties, EmptySeq
<1> HIDE DEF t
<1>2. Head(s) \in Range(s)
  BY <1>1 DEF Range
<1>3. ASSUME NEW x \in Range(t) PROVE x \in Range(s)
  <2>1. PICK i \in 1 .. Len(s) - 1 : t[i] = x
    BY <1>1 DEF Range
  <2>2. i + 1 \in 1 .. Len(s) /\ s[i + 1] = x
    BY <1>1, <2>1
  <2>3. QED
    BY <1>1, <2>2 DEF Range
<1>4. ASSUME NEW x \in Range(s), x # Head(s) PROVE x \in Range(t)
  <2>1. PICK i \in 1 .. Len(s) : s[i] = x
    BY <1>1 DEF Range
  <2>2. i - 1 \in 1 .. Len(s) - 1 /\ t[i - 1] = x
    BY <1>1, <1>4, <2>1
  <2>3. QED
    BY <1>1, <2>2 DEF Range
<1>5. ASSUME IsInjective(s) PROVE IsInjective(t) /\ Head(s) \notin Range(t)
  <2>1. \A i, j \in 1 .. Len(s) : s[i] = s[j] => i = j
    BY <1>1, <1>5 DEF IsInjective
  <2>2. IsInjective(t)
    <3>1. ASSUME NEW i \in 1 .. Len(s) - 1, NEW j \in 1 .. Len(s) - 1, t[i] = t[j]
          PROVE  i = j
      <4>1. i + 1 \in 1 .. Len(s) /\ j + 1 \in 1 .. Len(s) /\ s[i + 1] = s[j + 1]
        BY <1>1, <3>1
      <4>2. i + 1 = j + 1
        BY <2>1, <4>1
      <4>3. QED
        BY <4>2
    <3>2. QED
      BY <1>1, <3>1 DEF IsInjective
  <2>3. ASSUME Head(s) \in Range(t) PROVE FALSE
    <3>1. PICK i \in 1 .. Len(s) - 1 : t[i] = s[1]
      BY <1>1, <2>3 DEF Range
    <3>2. i + 1 \in 1 .. Len(s) /\ 1 \in 1 .. Len(s) /\ s[i + 1] = s[1]
      BY <1>1, <3>1
    <3>3. i + 1 = 1
      BY <2>1, <3>2
    <3>4. QED
      BY <3>3
  <2>4. QED
    BY <2>2, <2>3
<1>6. QED
  BY <1>2, <1>3, <1>4, <1>5 DEF t

\* As many elements as positions.
LEMMA InjectiveLen ==
    ASSUME NEW S, NEW s \in Seq(S), IsInjective(s)
    PROVE  IsFiniteSet(Range(s)) /\ Cardinality(Range(s)) = Len(s)
<1>1. Len(s) \in Nat /\ s \in [1 .. Len(s) -> S] /\ DOMAIN s = 1 .. Len(s)
  BY LenProperties
<1>2. s \in [1 .. Len(s) -> Range(s)]
  BY <1>1 DEF Range
<1>3. s \in Bijection(1 .. Len(s), Range(s))
  BY <1>1, <1>2 DEF Bijection, Injection, Surjection, Range
<1>4. IsFiniteSet(1 .. Len(s)) /\ Cardinality(1 .. Len(s)) = Len(s)
  BY <1>1, FS_Interval, SMTT(40)
<1>5. QED
  BY <1>3, <1>4, FS_Bijection DEF ExistsBijection
-----------------------------------------------------------------------------
(* Entries of a ring *)

\* n entries of a ring, from an index on.
Entries(r, i, n) == [k \in 1 .. n |-> r[SlotOf(i + k - 1)]]

LEMMA EntriesType ==
    ASSUME NEW r \in [DescIdx -> DescIdx], NEW i \in Idx, NEW n \in Nat
    PROVE  /\ Entries(r, i, n) \in Seq(DescIdx)
           /\ Len(Entries(r, i, n)) = n
           /\ DOMAIN Entries(r, i, n) = 1 .. n
<1> USE VirtioAssumption
<1>1. ASSUME NEW k \in 1 .. n PROVE r[SlotOf(i + k - 1)] \in DescIdx
  <2>1. i + k - 1 \in Nat
    BY DEF Idx
  <2>2. QED
    BY <2>1, SlotType
<1>2. Entries(r, i, n) \in [1 .. n -> DescIdx]
  BY <1>1 DEF Entries
<1>3. QED
  BY <1>2, FcnIsSeq

\* The driver, or virtio_consume_desc, puts an entry in the ring.
LEMMA EntriesAppend ==
    ASSUME NEW r \in [DescIdx -> DescIdx], NEW from \in Idx, NEW to \in Idx,
           NEW h \in DescIdx, Count(from, to) < MaxQueueNum
    PROVE  Entries([r EXCEPT ![SlotOf(to)] = h], from, Count(from, to) + 1)
             = Append(Entries(r, from, Count(from, to)), h)
<1> USE VirtioAssumption
<1> DEFINE n == Count(from, to)
           slot == SlotOf(to)
           r2 == [r EXCEPT ![slot] = h]
           s == Entries(r, from, n)
           t == Entries(r2, from, n + 1)
<1>1. from \in Nat /\ to \in Nat
  BY DEF Idx
<1>2. /\ n \in Nat
      /\ from + n = to \/ from + n = to + IdxSize
  BY CountIs DEF Idx
<1>3. slot \in DescIdx
  BY <1>1, SlotType
<1>4. SlotOf(from + n) = slot
  <2> HIDE DEF n
  <2>1. QED
    BY <1>1, <1>2, SlotWraps
<1> HIDE DEF n, slot
<1>5. r2 \in [DescIdx -> DescIdx] /\ r2[slot] = h
  BY <1>3
<1>6. /\ s \in Seq(DescIdx) /\ Len(s) = n
      /\ t \in Seq(DescIdx) /\ Len(t) = n + 1
  <2> HIDE DEF r2
  <2>1. n + 1 \in Nat
    BY <1>2
  <2>2. QED
    BY <1>2, <1>5, <2>1, EntriesType, ZenonT(60)
<1>7. /\ Append(s, h) \in Seq(DescIdx) /\ Len(Append(s, h)) = n + 1
      /\ \A k \in 1 .. n : Append(s, h)[k] = s[k]
      /\ Append(s, h)[n + 1] = h
  <2> HIDE DEF s
  <2>1. QED
    BY <1>6, AppendProperties
<1>8. ASSUME NEW k \in 1 .. n + 1 PROVE t[k] = Append(s, h)[k]
  <2>1. t[k] = r2[SlotOf(from + k - 1)]
    BY DEF Entries
  <2>2. CASE k = n + 1
    <3>1. from + k - 1 = from + n
      BY <1>1, <1>2, <2>2
    <3>2. QED
      BY <1>4, <1>5, <1>7, <2>1, <2>2, <3>1
  <2>3. CASE k \in 1 .. n
    <3> DEFINE x == from + k - 1
    <3>1. x \in Nat /\ from + n \in Nat /\ x < from + n /\ from + n < x + MaxQueueNum
      BY <1>1, <1>2, <2>3 DEF n
    <3>2. SlotOf(x) # slot
      <4> HIDE DEF x
      <4>1. QED
        BY <1>4, <3>1, SlotsDiffer
    <3>3. t[k] = r[SlotOf(x)]
      BY <2>1, <3>2
    <3>4. s[k] = r[SlotOf(x)]
      BY <2>3 DEF Entries
    <3> HIDE DEF s, t
    <3>5. QED
      BY <1>7, <2>3, <3>3, <3>4
  <2>4. k \in 1 .. n \/ k = n + 1
    BY <1>2
  <2>5. QED
    BY <2>2, <2>3, <2>4
<1>9. t = Append(s, h)
  <2> HIDE DEF t, s
  <2>1. QED
    BY <1>2, <1>6, <1>7, <1>8, SeqEqual
<1>10. QED
  BY <1>9 DEF n, slot

\* The reader of the ring takes the first entry.
LEMMA EntriesTail ==
    ASSUME NEW r \in [DescIdx -> DescIdx], NEW i \in Idx, NEW n \in Nat \ {0}
    PROVE  /\ Entries(r, i, n) # << >>
           /\ Head(Entries(r, i, n)) = r[SlotOf(i)]
           /\ Entries(r, (i + 1) % IdxSize, n - 1) = Tail(Entries(r, i, n))
<1> USE VirtioAssumption
<1> DEFINE j == (i + 1) % IdxSize
           s == Entries(r, i, n)
           t == Entries(r, j, n - 1)
<1>1. i \in Nat /\ j \in Idx /\ j \in Nat /\ (j = i + 1 \/ j = i + 1 - IdxSize)
  BY NextIdx DEF Idx
<1>2. /\ s \in Seq(DescIdx) /\ Len(s) = n
      /\ t \in Seq(DescIdx) /\ Len(t) = n - 1
  <2> HIDE DEF j
  <2>1. QED
    BY <1>1, EntriesType
<1>3. s # << >> /\ Head(s) = s[1] /\ s[1] = r[SlotOf(i)]
  <2>1. s[1] = r[SlotOf(i + 1 - 1)]
    BY DEF Entries
  <2>2. i + 1 - 1 = i
    BY <1>1
  <2> HIDE DEF s
  <2>3. s # << >> /\ Head(s) = s[1]
    BY <1>2, EmptySeq, HeadTailProperties
  <2>4. QED
    BY <2>1, <2>2, <2>3
<1>4. /\ Tail(s) \in Seq(DescIdx) /\ Len(Tail(s)) = n - 1
      /\ \A k \in 1 .. n - 1 : Tail(s)[k] = s[k + 1]
  <2> HIDE DEF s
  <2>1. QED
    BY <1>2, <1>3, HeadTailProperties
<1>5. ASSUME NEW k \in 1 .. n - 1 PROVE t[k] = Tail(s)[k]
  <2> DEFINE x == j + k - 1
             y == i + (k + 1) - 1
  <2>1. t[k] = r[SlotOf(x)]
    BY DEF Entries
  <2>2. s[k + 1] = r[SlotOf(y)]
    BY DEF Entries
  <2>3. x \in Nat /\ y \in Nat /\ (x = y \/ x = y - IdxSize)
    <3> HIDE DEF j
    <3>1. QED
      BY <1>1
  <2>4. SlotOf(x) = SlotOf(y)
    <3> HIDE DEF x, y
    <3>1. QED
      BY <2>3, SlotWraps
  <2>5. QED
    BY <1>4, <2>1, <2>2, <2>4
<1>6. t = Tail(s)
  <2> HIDE DEF t, s
  <2>1. QED
    BY <1>2, <1>4, <1>5, SeqEqual
<1>7. QED
  BY <1>3, <1>6

\* A ring with room for h: it holds other chains only.
LEMMA RoomInRing ==
    ASSUME NEW s \in Seq(DescIdx), IsInjective(s), NEW h \in DescIdx, h \notin Range(s)
    PROVE  Len(s) < MaxQueueNum
<1> USE VirtioAssumption
<1>1. IsFiniteSet(Range(s)) /\ Cardinality(Range(s)) = Len(s) /\ Len(s) \in Nat
  BY InjectiveLen
<1>2. Range(s) \cup {h} \subseteq DescIdx
  <2>1. \A i \in 1 .. Len(s) : s[i] \in DescIdx
    BY ElementOfSeq
  <2>2. DOMAIN s = 1 .. Len(s)
    BY LenProperties
  <2>3. QED
    BY <2>1, <2>2 DEF Range
<1>3. IsFiniteSet(DescIdx) /\ Cardinality(DescIdx) = MaxQueueNum
  BY FS_Interval DEF DescIdx
<1>4. Cardinality(Range(s) \cup {h}) = Len(s) + 1
  BY <1>1, FS_AddElement, ZenonT(60)
<1>5. Cardinality(Range(s) \cup {h}) <= MaxQueueNum
  BY <1>2, <1>3, FS_Subset
<1>6. QED
  BY <1>1, <1>4, <1>5

\* An entry is put in the ring at address a, and in no other.
PutIn(rings, a, h) ==
    [rings EXCEPT ![a] = [idx  |-> (rings[a].idx + 1) % IdxSize,
                          ring |-> [rings[a].ring EXCEPT ![SlotOf(rings[a].idx)] = h]]]

LEMMA PutInType ==
    ASSUME NEW rings \in [Addr -> Ring], NEW a \in Addr, NEW h \in DescIdx
    PROVE  /\ PutIn(rings, a, h) \in [Addr -> Ring]
           /\ PutIn(rings, a, h)[a].idx = (rings[a].idx + 1) % IdxSize
           /\ PutIn(rings, a, h)[a].ring
                = [rings[a].ring EXCEPT ![SlotOf(rings[a].idx)] = h]
           /\ \A b \in Addr \ {a} : PutIn(rings, a, h)[b] = rings[b]
<1>1. rings[a].idx \in Idx /\ rings[a].ring \in [DescIdx -> DescIdx]
  BY DEF Ring
<1>2. SlotOf(rings[a].idx) \in DescIdx
  BY <1>1, SlotType DEF Idx
<1>3. (rings[a].idx + 1) % IdxSize \in Idx
  BY <1>1, NextIdx
<1>4. [idx  |-> (rings[a].idx + 1) % IdxSize,
       ring |-> [rings[a].ring EXCEPT ![SlotOf(rings[a].idx)] = h]] \in Ring
  BY <1>1, <1>2, <1>3 DEF Ring
<1>5. QED
  BY <1>4 DEF PutIn
-----------------------------------------------------------------------------
(* The inductive invariant *)

\* Where the driver may have put a part of its queue; nowhere before set up.
Placed(field) ==
    {0} \cup {Layout[i].addr : i \in {j \in 1 .. Len(Layout) : Layout[j].field = field}}

QueueTypeOK ==
    /\ queue \in [QueueId -> QueueState]
    /\ \A q \in QueueId :
         /\ queue[q].num = MaxQueueNum
         /\ queue[q].avail_addr \in Placed("avail_addr")
         /\ queue[q].used_addr \in Placed("used_addr")

TypeOK ==
    /\ int_status \subseteq {"used", "config"} /\ irq \in {0, 1}
    /\ queue_sel \in QueueId
    /\ QueueTypeOK
    /\ ring \in [Addr -> Ring]
    /\ {req_in_progress, busy, stale} \subseteq BOOLEAN
    /\ "head" \in DOMAIN req /\ req.head \in DescIdx /\ avail_idx \in Idx /\ seen \in Idx
    /\ host \in {"guest", "notify", "backend", "undefined"}
    /\ drv \in {"setup", "zeroed", "run", "ack", "scan"}
    /\ owned \subseteq DescIdx /\ fresh \subseteq DescIdx /\ dropped \subseteq DescIdx

\* Until the device is live nothing is in the rings, and a request that the
\* block device still has is older than the reset.
SetUpInv ==
    drv \in {"setup", "zeroed"} =>
        /\ host \in {"guest", "undefined"}
        /\ host = "guest" /\ busy => stale
        /\ owned = {} /\ fresh = {} /\ dropped = {} /\ seen = 0
        /\ queue[Q].last_avail_idx = 0
        /\ drv = "zeroed" => \A a \in Addr : ring[a].idx = 0

\* A live device has its two rings at different addresses.  While queue_notify
\* runs, its copy of the index is that of the ring; the chain in the hands of
\* read_async or write_async is the next one of the ring.
HostInv ==
    /\ drv \in {"run", "ack", "scan"} => Configured(Q)
    /\ host # "undefined" /\ stale => req_in_progress
    /\ host \in {"notify", "backend"} => avail_idx = AvailIdx(Q)
    /\ host = "backend" =>
         /\ queue[Q].last_avail_idx # avail_idx
         /\ req.head = NextHead(Q)

\* A chain is in one place only.
Waiting == IF host = "backend" THEN Tail(Pending) ELSE Pending

InOnePlace(o, w, b, u, d) ==
    /\ o = Range(w) \cup b \cup Range(u) \cup d
    /\ IsInjective(w) /\ IsInjective(u)
    /\ Range(w) \cap (b \cup Range(u) \cup d) = {}
    /\ b \cap (Range(u) \cup d) = {}
    /\ Range(u) \cap d = {}

ChainsInv == Live => InOnePlace(owned, Waiting, InService, Unseen, dropped)

IInv ==
    /\ TypeOK /\ SetUpInv /\ HostInv /\ ChainsInv
    /\ OneRequest /\ UsedIsSignalled /\ StoppedIsRestarted
-----------------------------------------------------------------------------
(* What the steps of the transport do to the rings *)

\* The two windows of the invariant, as entries of their rings.
PendingOf(rings, qs) ==
    Entries(rings[qs.avail_addr].ring, qs.last_avail_idx,
            Count(qs.last_avail_idx, rings[qs.avail_addr].idx))
UnseenOf(rings, qs, from) ==
    Entries(rings[qs.used_addr].ring, from, Count(from, rings[qs.used_addr].idx))

LEMMA WindowsAre ==
    ASSUME QueueTypeOK
    PROVE  Pending = PendingOf(ring, queue[Q]) /\ Unseen = UnseenOf(ring, queue[Q], seen)
<1>1. queue[Q].num = MaxQueueNum
  BY VirtioAssumption DEF QueueTypeOK, QueueId, Q
<1>2. QED
  BY <1>1 DEF Pending, Unseen, PendingOf, UnseenOf, Entries, Count, Slot, SlotOf

LEMMA NextWindowsAre ==
    ASSUME QueueTypeOK'
    PROVE  Pending' = PendingOf(ring', queue'[Q]) /\ Unseen' = UnseenOf(ring', queue'[Q], seen')
<1>1. queue'[Q].num = MaxQueueNum
  BY VirtioAssumption DEF QueueTypeOK, QueueId, Q
<1>2. QED
  BY <1>1 DEF Pending, Unseen, PendingOf, UnseenOf, Entries, Count, Slot, SlotOf

\* The parts of the queue of a live device.
LEMMA QueueIsPlaced ==
    ASSUME TypeOK
    PROVE  /\ Q \in QueueId /\ queue[Q] \in QueueState
           /\ queue[Q].num = MaxQueueNum
           /\ queue[Q].avail_addr \in Addr /\ queue[Q].used_addr \in Addr
           /\ queue[Q].last_avail_idx \in Idx
           /\ Configured(Q) => queue[Q].avail_addr # queue[Q].used_addr
<1>1. /\ Q \in QueueId /\ queue[Q] \in QueueState
      /\ queue[Q].num = MaxQueueNum
      /\ queue[Q].avail_addr \in Placed("avail_addr")
      /\ queue[Q].used_addr \in Placed("used_addr")
  BY VirtioAssumption DEF TypeOK, QueueTypeOK, QueueId, Q
<1>2. ASSUME Configured(Q) PROVE queue[Q].avail_addr # queue[Q].used_addr
  <2>1. queue[Q].avail_addr # 0 /\ queue[Q].used_addr # 0
    BY <1>2 DEF Configured
  <2>2. PICK i \in 1 .. Len(Layout) :
           Layout[i].field = "avail_addr" /\ Layout[i].addr = queue[Q].avail_addr
    BY <1>1, <2>1 DEF Placed
  <2>3. PICK j \in 1 .. Len(Layout) :
           Layout[j].field = "used_addr" /\ Layout[j].addr = queue[Q].used_addr
    BY <1>1, <2>1 DEF Placed
  <2>4. QED
    BY <2>2, <2>3, LayoutAssumption
<1>3. QED
  BY <1>1, <1>2 DEF QueueState

LEMMA WindowsType ==
    ASSUME TypeOK
    PROVE  /\ Pending \in Seq(DescIdx) /\ Unseen \in Seq(DescIdx)
           /\ Len(Pending) = Count(queue[Q].last_avail_idx, AvailIdx(Q))
           /\ Len(Unseen) = Count(seen, ring[queue[Q].used_addr].idx)
           /\ AvailIdx(Q) \in Idx /\ ring[queue[Q].used_addr].idx \in Idx
<1>1. /\ ring[queue[Q].avail_addr] \in Ring /\ ring[queue[Q].used_addr] \in Ring
      /\ queue[Q].last_avail_idx \in Idx /\ seen \in Idx
  BY QueueIsPlaced DEF TypeOK
<1>2. /\ Count(queue[Q].last_avail_idx, AvailIdx(Q)) \in Nat
      /\ Count(seen, ring[queue[Q].used_addr].idx) \in Nat
  BY <1>1, CountIs, VirtioAssumption DEF Ring, Idx, AvailIdx
<1>3. Pending = PendingOf(ring, queue[Q]) /\ Unseen = UnseenOf(ring, queue[Q], seen)
  BY WindowsAre DEF TypeOK
<1>4. QED
  BY <1>1, <1>2, <1>3, EntriesType DEF PendingOf, UnseenOf, Ring, AvailIdx

\* queue_notify goes past the first of the pending chains.
LEMMA AdvanceQueue ==
    ASSUME TypeOK, Advance(Q)
    PROVE  /\ QueueTypeOK' /\ queue' \in [QueueId -> QueueState]
           /\ queue'[Q].avail_addr = queue[Q].avail_addr
           /\ queue'[Q].used_addr = queue[Q].used_addr
           /\ queue'[Q].desc_addr = queue[Q].desc_addr
           /\ queue'[Q].last_avail_idx = (queue[Q].last_avail_idx + 1) % IdxSize
<1>1. Q \in QueueId /\ (queue[Q].last_avail_idx + 1) % IdxSize \in Idx
  BY QueueIsPlaced, NextIdx
<1>2. \A q \in QueueId : queue[q] \in QueueState /\ queue[q].num = MaxQueueNum
  BY DEF TypeOK, QueueTypeOK
<1>3. queue' = [queue EXCEPT ![Q].last_avail_idx = (queue[Q].last_avail_idx + 1) % IdxSize]
  BY DEF Advance
<1>4. queue' = [queue EXCEPT ![Q] =
                  [queue[Q] EXCEPT !.last_avail_idx = (queue[Q].last_avail_idx + 1) % IdxSize]]
  BY <1>3
<1>5. QED
  BY <1>1, <1>2, <1>4, ZenonT(60) DEF TypeOK, QueueTypeOK, QueueState

\* The chain that NextHead names is the first that is pending.
LEMMA NextIsPending ==
    ASSUME TypeOK, queue[Q].last_avail_idx # AvailIdx(Q)
    PROVE  /\ Pending # << >> /\ Head(Pending) = NextHead(Q)
           /\ NextHead(Q) \in DescIdx /\ NextHead(Q) \in Range(Pending)
           /\ Range(Pending) = Range(Tail(Pending)) \cup {NextHead(Q)}
           /\ IsInjective(Pending) =>
                IsInjective(Tail(Pending)) /\ NextHead(Q) \notin Range(Tail(Pending))
<1> DEFINE r == ring[queue[Q].avail_addr]
           l == queue[Q].last_avail_idx
<1>1. /\ r \in Ring /\ l \in Idx /\ l \in Nat /\ queue[Q].num = MaxQueueNum
      /\ r.idx \in Idx /\ l # r.idx
  BY QueueIsPlaced DEF TypeOK, Idx, Ring, AvailIdx
<1>2. Count(l, r.idx) \in Nat \ {0}
  <2> HIDE DEF l, r
  <2>1. QED
    BY <1>1, CountLess
<1>3. NextHead(Q) = r.ring[SlotOf(l)] /\ SlotOf(l) \in DescIdx
  BY <1>1, SlotType DEF NextHead, Slot, SlotOf
<1>4. Pending = Entries(r.ring, l, Count(l, r.idx))
  BY WindowsAre DEF TypeOK, PendingOf
<1>5. Pending # << >> /\ Head(Pending) = NextHead(Q) /\ NextHead(Q) \in DescIdx
  <2> HIDE DEF r, l
  <2>1. QED
    BY <1>1, <1>2, <1>3, <1>4, EntriesTail DEF Ring
<1>6. Pending \in Seq(DescIdx)
  BY WindowsType, SMTT(40)
<1>7. QED
  BY <1>5, <1>6, TailRange

\* queue_notify goes past it.
LEMMA PendingPops ==
    ASSUME TypeOK, Advance(Q), queue[Q].last_avail_idx # AvailIdx(Q),
           ring'[queue[Q].avail_addr] = ring[queue[Q].avail_addr]
    PROVE  Pending' = Tail(Pending)
<1> DEFINE r == ring[queue[Q].avail_addr]
           l == queue[Q].last_avail_idx
           m == (l + 1) % IdxSize
           n == Count(l, r.idx)
<1>1. r \in Ring /\ l \in Idx /\ r.idx \in Idx /\ l # r.idx
  BY QueueIsPlaced DEF TypeOK, Ring, AvailIdx
<1>2. n \in Nat \ {0} /\ Count(m, r.idx) = n - 1
  <2> HIDE DEF l, r
  <2>1. QED
    BY <1>1, CountLess
<1>3. Pending' = Entries(r.ring, m, Count(m, r.idx))
  BY AdvanceQueue, NextWindowsAre DEF PendingOf
<1>4. Pending = Entries(r.ring, l, n)
  BY WindowsAre DEF TypeOK, PendingOf
<1>5. Entries(r.ring, m, n - 1) = Tail(Entries(r.ring, l, n))
  <2> HIDE DEF n, r, l
  <2>1. QED
    BY <1>1, <1>2, EntriesTail DEF Ring
<1>6. QED
  BY <1>2, <1>3, <1>4, <1>5

\* What does not change a ring, nor the index the reader has, changes no window.
LEMMA SamePending ==
    ASSUME QueueTypeOK, QueueTypeOK',
           queue'[Q].avail_addr = queue[Q].avail_addr,
           queue'[Q].last_avail_idx = queue[Q].last_avail_idx,
           ring'[queue[Q].avail_addr] = ring[queue[Q].avail_addr]
    PROVE  Pending' = Pending
  BY WindowsAre, NextWindowsAre DEF PendingOf

LEMMA SameUnseen ==
    ASSUME QueueTypeOK, QueueTypeOK', queue'[Q].used_addr = queue[Q].used_addr,
           seen' = seen, ring'[queue[Q].used_addr] = ring[queue[Q].used_addr]
    PROVE  Unseen' = Unseen
  BY WindowsAre, NextWindowsAre DEF UnseenOf

\* virtio_consume_desc puts a chain at the end of what the driver has to read.
LEMMA ConsumeIsPut ==
    ASSUME TypeOK, NEW h \in DescIdx, ConsumeDesc(Q, h)
    PROVE  /\ ring' = PutIn(ring, queue[Q].used_addr, h)
           /\ ring' \in [Addr -> Ring]
           /\ int_status' = int_status \cup {"used"} /\ irq' = 1
           /\ Configured(Q) =>
                ring'[queue[Q].avail_addr] = ring[queue[Q].avail_addr]
<1> DEFINE a == queue[Q].used_addr
<1>1. /\ a \in Addr /\ ring \in [Addr -> Ring] /\ queue[Q].num = MaxQueueNum
      /\ queue[Q].avail_addr \in Addr
      /\ Configured(Q) => queue[Q].avail_addr # a
  BY QueueIsPlaced DEF TypeOK
<1>2. ring' = PutIn(ring, a, h)
  BY <1>1 DEF ConsumeDesc, WithEntry, PutIn, Slot, SlotOf
<1>3. /\ ring' \in [Addr -> Ring]
      /\ \A b \in Addr \ {a} : ring'[b] = ring[b]
  <2> HIDE DEF a
  <2>1. /\ PutIn(ring, a, h) \in [Addr -> Ring]
        /\ \A b \in Addr \ {a} : PutIn(ring, a, h)[b] = ring[b]
    BY <1>1, PutInType, ZenonT(60)
  <2>2. QED
    BY <1>2, <2>1
<1>4. QED
  BY <1>1, <1>2, <1>3 DEF ConsumeDesc, a

LEMMA UnseenPushed ==
    ASSUME TypeOK, QueueTypeOK', NEW h \in DescIdx,
           ring' = PutIn(ring, queue[Q].used_addr, h),
           queue'[Q].used_addr = queue[Q].used_addr, seen' = seen,
           IsInjective(Unseen), h \notin Range(Unseen)
    PROVE  /\ Unseen' = Append(Unseen, h)
           /\ Range(Unseen') = Range(Unseen) \cup {h} /\ IsInjective(Unseen')
<1> DEFINE a == queue[Q].used_addr
           r == ring[a]
           n == Count(seen, r.idx)
<1>1. a \in Addr /\ r \in Ring /\ seen \in Idx /\ ring \in [Addr -> Ring]
  BY QueueIsPlaced DEF TypeOK
<1>2. /\ Unseen \in Seq(DescIdx) /\ Len(Unseen) = n
      /\ Unseen = Entries(r.ring, seen, n)
  BY WindowsType, WindowsAre DEF TypeOK, UnseenOf
<1>3. n < MaxQueueNum
  <2> HIDE DEF n
  <2>1. QED
    BY <1>2, RoomInRing
<1>4. n \in Nat /\ Count(seen, (r.idx + 1) % IdxSize) = n + 1
  <2>1. r.idx \in Idx
    BY <1>1 DEF Ring
  <2>2. n \in Nat
    BY <1>1, <2>1, CountType DEF Idx
  <2>3. n + 1 < IdxSize
    <3> HIDE DEF n
    <3>1. QED
      BY <1>3, <2>2, QueueAssumption, VirtioAssumption
  <2> HIDE DEF r
  <2>4. QED
    BY <1>1, <2>1, <2>2, <2>3, CountMore
<1>5. /\ ring'[a].idx = (r.idx + 1) % IdxSize
      /\ ring'[a].ring = [r.ring EXCEPT ![SlotOf(r.idx)] = h]
  BY <1>1, PutInType
<1>6. Unseen' = Entries([r.ring EXCEPT ![SlotOf(r.idx)] = h], seen, n + 1)
  BY <1>4, <1>5, NextWindowsAre DEF UnseenOf
<1>7. Unseen' = Append(Unseen, h)
  <2>1. r.idx \in Idx /\ r.ring \in [DescIdx -> DescIdx]
    BY <1>1 DEF Ring
  <2> HIDE DEF r
  <2>2. QED
    BY <1>1, <1>2, <1>3, <1>6, <2>1, EntriesAppend, ZenonT(60)
<1>8. QED
  <2> HIDE DEF a, r, n
  <2>1. Unseen \in Seq(DescIdx)
    BY <1>2
  <2>2. /\ Range(Append(Unseen, h)) = Range(Unseen) \cup {h}
        /\ IsInjective(Append(Unseen, h))
    BY <2>1, AppendRange
  <2>3. QED
    BY <1>7, <2>2

\* The driver makes a chain available.
LEMMA PendingPushed ==
    ASSUME TypeOK, QueueTypeOK', NEW h \in DescIdx,
           ring' = PutIn(ring, queue[Q].avail_addr, h), queue'[Q] = queue[Q],
           IsInjective(Pending), h \notin Range(Pending)
    PROVE  /\ Pending' = Append(Pending, h)
           /\ Range(Pending') = Range(Pending) \cup {h} /\ IsInjective(Pending')
<1> DEFINE a == queue[Q].avail_addr
           l == queue[Q].last_avail_idx
           r == ring[a]
           n == Count(l, r.idx)
<1>1. a \in Addr /\ r \in Ring /\ l \in Idx /\ ring \in [Addr -> Ring]
  BY QueueIsPlaced DEF TypeOK
<1>2. /\ Pending \in Seq(DescIdx) /\ Len(Pending) = n
      /\ Pending = Entries(r.ring, l, n)
  BY WindowsType, WindowsAre DEF TypeOK, PendingOf, AvailIdx
<1>3. n < MaxQueueNum
  <2> HIDE DEF n
  <2>1. QED
    BY <1>2, RoomInRing
<1>4. n \in Nat /\ Count(l, (r.idx + 1) % IdxSize) = n + 1
  <2>1. r.idx \in Idx
    BY <1>1 DEF Ring
  <2>2. n \in Nat
    BY <1>1, <2>1, CountType DEF Idx
  <2>3. n + 1 < IdxSize
    <3> HIDE DEF n
    <3>1. QED
      BY <1>3, <2>2, QueueAssumption, VirtioAssumption
  <2> HIDE DEF r, l
  <2>4. QED
    BY <1>1, <2>1, <2>2, <2>3, CountMore
<1>5. /\ ring'[a].idx = (r.idx + 1) % IdxSize
      /\ ring'[a].ring = [r.ring EXCEPT ![SlotOf(r.idx)] = h]
  BY <1>1, PutInType
<1>6. Pending' = Entries([r.ring EXCEPT ![SlotOf(r.idx)] = h], l, n + 1)
  BY <1>4, <1>5, NextWindowsAre DEF PendingOf
<1>7. Pending' = Append(Pending, h)
  <2>1. r.idx \in Idx /\ r.ring \in [DescIdx -> DescIdx]
    BY <1>1 DEF Ring
  <2> HIDE DEF r, l
  <2>2. QED
    BY <1>1, <1>2, <1>3, <1>6, <2>1, EntriesAppend, ZenonT(60)
<1>8. QED
  <2> HIDE DEF a, l, r, n
  <2>1. Pending \in Seq(DescIdx)
    BY <1>2
  <2>2. /\ Range(Append(Pending, h)) = Range(Pending) \cup {h}
        /\ IsInjective(Append(Pending, h))
    BY <2>1, AppendRange
  <2>3. QED
    BY <1>7, <2>2
-----------------------------------------------------------------------------
(* The steps of the driver *)

\* A step that changes neither the queue nor the rings.
LEMMA SameWindows ==
    ASSUME TypeOK, UNCHANGED <<queue, ring>>
    PROVE  /\ QueueTypeOK' /\ Pending' = Pending /\ AvailIdx(Q)' = AvailIdx(Q)
           /\ NextHead(Q)' = NextHead(Q) /\ Configured(Q)' = Configured(Q)
           /\ seen' = seen => Unseen' = Unseen
<1>1. QueueTypeOK'
  BY DEF TypeOK, QueueTypeOK
<1>2. AvailIdx(Q)' = AvailIdx(Q) /\ NextHead(Q)' = NextHead(Q) /\ Configured(Q)' = Configured(Q)
  BY DEF AvailIdx, NextHead, Configured, Slot
<1>3. Pending' = Pending /\ (seen' = seen => Unseen' = Unseen)
  BY DEF Pending, Unseen, Slot
<1>4. QED
  BY <1>1, <1>2, <1>3

\* Nothing is between two equal indices.
LEMMA NoEntries ==
    ASSUME TypeOK
    PROVE  /\ queue[Q].last_avail_idx = AvailIdx(Q) => Pending = << >> /\ Range(Pending) = {}
           /\ seen = ring[queue[Q].used_addr].idx => Unseen = << >> /\ Range(Unseen) = {}
<1>1. \A i \in Idx : Count(i, i) = 0
  BY CountIs, VirtioAssumption DEF Idx
<1>2. /\ Pending \in Seq(DescIdx) /\ Unseen \in Seq(DescIdx)
      /\ Len(Pending) = Count(queue[Q].last_avail_idx, AvailIdx(Q))
      /\ Len(Unseen) = Count(seen, ring[queue[Q].used_addr].idx)
      /\ AvailIdx(Q) \in Idx /\ ring[queue[Q].used_addr].idx \in Idx
  BY WindowsType
<1>3. ASSUME NEW t \in Seq(DescIdx), Len(t) = 0 PROVE t = << >> /\ Range(t) = {}
  <2>1. t = << >> /\ DOMAIN t = {}
    BY <1>3, EmptySeq, LenProperties
  <2>2. QED
    BY <2>1 DEF Range
<1>4. QED
  BY <1>1, <1>2, <1>3

LEMMA ClearRingsKeeps ==
    ASSUME IInv, host = "guest", ClearRings PROVE IInv'
<1> USE DEF IInv, ClearRings, registers, device, backend, history
<1>1. /\ [idx |-> 0, ring |-> [h \in DescIdx |-> 0]] \in Ring
      /\ \A a \in Addr : ring'[a].idx = 0
  BY VirtioAssumption DEF Ring, Idx, DescIdx
<1>2. TypeOK'
  BY <1>1 DEF TypeOK, QueueTypeOK
<1>3. SetUpInv'
  BY <1>1 DEF SetUpInv
<1>4. HostInv'
  BY DEF HostInv
<1>5. ChainsInv' /\ StoppedIsRestarted'
  BY DEF ChainsInv, StoppedIsRestarted, Live
<1>6. OneRequest'
  BY DEF OneRequest
<1>7. UsedIsSignalled'
  BY DEF UsedIsSignalled, LineIsLevel, Live
<1>8. QED
  BY <1>2, <1>3, <1>4, <1>5, <1>6, <1>7

\* A register write while the device is set up.
LEMMA SetUpQueue ==
    ASSUME TypeOK, SetUp
    PROVE  /\ QueueTypeOK' /\ queue_sel' \in QueueId
           /\ queue'[Q].last_avail_idx = queue[Q].last_avail_idx
           /\ UNCHANGED <<int_status, irq, ring>>
<1> USE DEF registers, ram
<1>1. /\ queue_sel \in QueueId /\ Q \in QueueId /\ MaxQueueNum \in Nat \ {0}
      /\ queue \in [QueueId -> QueueState]
      /\ \A q \in QueueId :
           /\ queue[q].num = MaxQueueNum
           /\ queue[q].avail_addr \in Placed("avail_addr")
           /\ queue[q].used_addr \in Placed("used_addr")
  BY QueueIsPlaced, VirtioAssumption DEF TypeOK, QueueTypeOK
<1>2. CASE \E v \in 0 .. NQueues : WriteQueueSel(v)
  BY <1>1, <1>2 DEF WriteQueueSel, QueueTypeOK
<1>3. CASE \E v \in {0, MaxQueueNum} : WriteQueueNum(v)
  <2>1. \/ queue' = queue
        \/ queue' = [queue EXCEPT ![queue_sel].num = MaxQueueNum]
    <3>1. ~IsPowerOfTwo(0)
      BY DEF IsPowerOfTwo
    <3>2. CASE WriteQueueNum(0)
      BY <3>1, <3>2 DEF WriteQueueNum
    <3>3. CASE WriteQueueNum(MaxQueueNum)
      BY <3>3 DEF WriteQueueNum
    <3>4. QED
      BY <1>3, <3>2, <3>3
  <2>2. UNCHANGED <<int_status, irq, queue_sel, ring>>
    BY <1>3 DEF WriteQueueNum
  <2>3. CASE queue' = queue
    BY <1>1, <2>2, <2>3 DEF QueueTypeOK
  <2>4. CASE queue' = [queue EXCEPT ![queue_sel].num = MaxQueueNum]
    BY <1>1, <2>2, <2>4 DEF QueueTypeOK, QueueState
  <2>5. QED
    BY <2>1, <2>3, <2>4
<1>4. CASE \E i \in 1 .. Len(Layout) : WriteQueueAddr(Layout[i].field, Layout[i].addr)
  <2>1. PICK i \in 1 .. Len(Layout) : WriteQueueAddr(Layout[i].field, Layout[i].addr)
    BY <1>4
  <2> DEFINE a == Layout[i].addr
  <2>2. Layout[i].field \in {"desc_addr", "avail_addr", "used_addr"} /\ a \in Addr
    <3>1. Layout[i] \in [field : {"desc_addr", "avail_addr", "used_addr"}, addr : Addr]
      BY LayoutAssumption, ElementOfSeq
    <3>2. QED
      BY <3>1
  <2>3. \A f \in {"avail_addr", "used_addr"} : Layout[i].field = f => a \in Placed(f)
    BY DEF Placed
  <2>4. /\ queue' = [queue EXCEPT ![queue_sel][Layout[i].field] = a]
        /\ UNCHANGED <<int_status, irq, queue_sel, ring>>
    BY <2>1 DEF WriteQueueAddr
  <2> HIDE DEF a
  <2>5. CASE Layout[i].field = "desc_addr"
    <3>1. queue' = [queue EXCEPT ![queue_sel].desc_addr = a]
      BY <2>4, <2>5
    <3>2. QED
      BY <1>1, <2>2, <2>4, <3>1 DEF QueueTypeOK, QueueState
  <2>6. CASE Layout[i].field = "avail_addr"
    <3>1. queue' = [queue EXCEPT ![queue_sel].avail_addr = a] /\ a \in Placed("avail_addr")
      BY <2>3, <2>4, <2>6
    <3>2. QED
      BY <1>1, <2>2, <2>4, <3>1 DEF QueueTypeOK, QueueState
  <2>7. CASE Layout[i].field = "used_addr"
    <3>1. queue' = [queue EXCEPT ![queue_sel].used_addr = a] /\ a \in Placed("used_addr")
      BY <2>3, <2>4, <2>7
    <3>2. QED
      BY <1>1, <2>2, <2>4, <3>1 DEF QueueTypeOK, QueueState
  <2>8. QED
    BY <2>2, <2>5, <2>6, <2>7
<1>5. CASE WriteQueueReady(1)
  <2>1. /\ queue' = [queue EXCEPT ![queue_sel].ready = 1]
        /\ UNCHANGED <<int_status, irq, queue_sel, ring>>
    BY <1>5 DEF WriteQueueReady
  <2>2. QED
    BY <1>1, <2>1 DEF QueueTypeOK, QueueState
<1>6. QED
  BY <1>2, <1>3, <1>4, <1>5 DEF SetUp

LEMMA SetUpKeeps ==
    ASSUME IInv, host = "guest", SetUp PROVE IInv'
<1> USE DEF IInv, device, backend, driver, history
<1>1. /\ drv = "zeroed" /\ UNCHANGED <<device, backend, driver, history>>
  BY DEF SetUp
<1>2. /\ QueueTypeOK' /\ queue_sel' \in QueueId
      /\ queue'[Q].last_avail_idx = queue[Q].last_avail_idx
      /\ UNCHANGED <<int_status, irq, ring>>
  BY SetUpQueue
<1>3. TypeOK'
  BY <1>1, <1>2 DEF TypeOK
<1>4. SetUpInv'
  BY <1>1, <1>2 DEF SetUpInv
<1>5. HostInv'
  BY <1>1 DEF HostInv
<1>6. ChainsInv' /\ StoppedIsRestarted' /\ OneRequest'
  BY <1>1 DEF ChainsInv, StoppedIsRestarted, OneRequest, Live
<1>7. UsedIsSignalled'
  BY <1>1, <1>2 DEF UsedIsSignalled, LineIsLevel, Live
<1>8. QED
  BY <1>3, <1>4, <1>5, <1>6, <1>7

LEMMA DriverOKKeeps ==
    ASSUME IInv, host = "guest", DriverOK PROVE IInv'
<1> USE DEF IInv, registers, ram, device, backend, history
<1>1. /\ drv = "zeroed" /\ drv' = "run" /\ Configured(Q)
      /\ UNCHANGED <<int_status, irq, queue_sel, queue, ring, device, backend,
                     seen, owned, fresh, history>>
  BY DEF DriverOK, WriteStatus
<1>2. /\ QueueTypeOK' /\ Pending' = Pending /\ Unseen' = Unseen
      /\ AvailIdx(Q)' = AvailIdx(Q) /\ Configured(Q)' = Configured(Q)
  BY <1>1, SameWindows
<1>3. /\ Pending = << >> /\ Unseen = << >> /\ Range(Pending) = {} /\ Range(Unseen) = {}
  <2>1. /\ queue[Q].avail_addr \in Addr /\ queue[Q].used_addr \in Addr
        /\ \A a \in Addr : ring[a].idx = 0
        /\ queue[Q].last_avail_idx = 0 /\ seen = 0
    BY <1>1, QueueIsPlaced DEF SetUpInv
  <2>2. queue[Q].last_avail_idx = AvailIdx(Q) /\ seen = ring[queue[Q].used_addr].idx
    BY <2>1 DEF AvailIdx
  <2>3. QED
    BY <2>2, NoEntries
<1>4. TypeOK'
  BY <1>1, <1>2 DEF TypeOK
<1>5. SetUpInv'
  BY <1>1 DEF SetUpInv
<1>6. HostInv'
  BY <1>1, <1>2 DEF HostInv
<1>7. ChainsInv'
  <2>1. busy => stale
    BY <1>1 DEF SetUpInv
  <2>2. Waiting' = << >> /\ InService' = {} /\ Unseen' = << >> /\ owned' = {} /\ dropped' = {}
    BY <1>1, <1>2, <1>3, <2>1 DEF Waiting, InService, SetUpInv
  <2>3. Range(Waiting') = {} /\ Range(Unseen') = {} /\ IsInjective(Waiting') /\ IsInjective(Unseen')
    BY <1>3, <2>2 DEF IsInjective
  <2>4. QED
    BY <2>2, <2>3 DEF ChainsInv, InOnePlace
<1>8. StoppedIsRestarted'
  BY <1>2, <1>3 DEF StoppedIsRestarted, NotifiedWaiting
<1>9. OneRequest'
  BY <1>1 DEF OneRequest
<1>10. UsedIsSignalled'
  BY <1>1, <1>2, <1>3 DEF UsedIsSignalled, LineIsLevel
<1>11. QED
  BY <1>4, <1>5, <1>6, <1>7, <1>8, <1>9, <1>10

LEMMA ResetKeeps ==
    ASSUME IInv, host = "guest", Reset PROVE IInv'
<1> USE DEF IInv, registers, ram, device, backend, history
<1>1. /\ int_status' = {} /\ irq' = 0 /\ queue_sel' = 0
      /\ queue' = [q \in QueueId |-> ResetQueue]
      /\ drv' = "setup" /\ seen' = 0 /\ owned' = {} /\ fresh' = {} /\ dropped' = {}
      /\ stale' = req_in_progress
      /\ UNCHANGED <<ring, device, backend>>
  BY DEF Reset, WriteStatus
<1>2. /\ Q \in QueueId /\ 0 \in QueueId /\ ResetQueue \in QueueState
      /\ 0 \in Placed("avail_addr") /\ 0 \in Placed("used_addr") /\ 0 \in Idx
  BY VirtioAssumption DEF Q, QueueId, ResetQueue, QueueState, Idx, Placed
<1>3. QueueTypeOK' /\ queue'[Q].last_avail_idx = 0
  BY <1>1, <1>2 DEF QueueTypeOK, ResetQueue
<1>4. TypeOK'
  BY <1>1, <1>2, <1>3 DEF TypeOK
<1>5. SetUpInv'
  BY <1>1, <1>3 DEF SetUpInv, OneRequest
<1>6. HostInv'
  BY <1>1 DEF HostInv
<1>7. ChainsInv' /\ StoppedIsRestarted'
  BY <1>1 DEF ChainsInv, StoppedIsRestarted, Live
<1>8. OneRequest'
  BY <1>1 DEF OneRequest
<1>9. UsedIsSignalled'
  BY <1>1 DEF UsedIsSignalled, LineIsLevel, Live
<1>10. QED
  BY <1>4, <1>5, <1>6, <1>7, <1>8, <1>9

\* Only the causes and the state of the driver change.
LEMMA HandlerKeeps ==
    ASSUME IInv, host = "guest", drv \in {"run", "ack"}, drv' \in {"ack", "scan"},
           int_status' \subseteq int_status, irq' \in {0, 1}, LineIsLevel',
           UNCHANGED <<status, queue_sel, queue, ram, device, backend, seen, owned,
                       fresh, history>>
    PROVE  IInv'
<1> USE DEF IInv, ram, device, backend, history
<1>1. /\ QueueTypeOK' /\ Pending' = Pending /\ Unseen' = Unseen
      /\ AvailIdx(Q)' = AvailIdx(Q) /\ Configured(Q)' = Configured(Q)
  BY SameWindows
<1>2. TypeOK'
  BY <1>1 DEF TypeOK
<1>3. SetUpInv' /\ HostInv'
  BY <1>1 DEF SetUpInv, HostInv
<1>4. ChainsInv'
  <2>1. Waiting' = Waiting /\ InService' = InService
    BY <1>1 DEF Waiting, InService
  <2>2. QED
    BY <1>1, <2>1 DEF ChainsInv, Live
<1>5. StoppedIsRestarted'
  BY <1>1 DEF StoppedIsRestarted, NotifiedWaiting, Live
<1>6. OneRequest'
  BY DEF OneRequest
<1>7. UsedIsSignalled'
  BY DEF UsedIsSignalled
<1>8. QED
  BY <1>2, <1>3, <1>4, <1>5, <1>6, <1>7

LEMMA ReadCausesKeeps ==
    ASSUME IInv, host = "guest", ReadCauses PROVE IInv'
<1>1. /\ drv = "run" /\ drv' = "ack" /\ UNCHANGED <<int_status, irq>>
      /\ UNCHANGED <<status, queue_sel, queue, ram, device, backend, seen, owned,
                     fresh, history>>
  BY DEF ReadCauses, virtioVars, registers
<1>2. LineIsLevel' /\ irq' \in {0, 1}
  BY <1>1 DEF IInv, UsedIsSignalled, LineIsLevel, TypeOK
<1>3. QED
  BY <1>1, <1>2, HandlerKeeps

LEMMA AcknowledgeKeeps ==
    ASSUME IInv, host = "guest", Acknowledge PROVE IInv'
<1>1. /\ drv = "ack" /\ drv' = "scan"
      /\ int_status' = int_status \ causes
      /\ irq' = IF int_status' = {} THEN 0 ELSE irq
      /\ UNCHANGED <<status, queue_sel, queue, ram, device, backend, seen, owned,
                     fresh, history>>
  BY DEF Acknowledge, InterruptAck
<1>2. LineIsLevel /\ irq \in {0, 1}
  BY DEF IInv, UsedIsSignalled, TypeOK
<1>3. LineIsLevel' /\ irq' \in {0, 1}
  BY <1>1, <1>2 DEF LineIsLevel
<1>4. QED
  BY <1>1, <1>3, HandlerKeeps

LEMMA AcknowledgePCIKeeps ==
    ASSUME IInv, host = "guest", AcknowledgePCI PROVE IInv'
<1>1. /\ drv = "run" /\ drv' = "scan" /\ int_status' = {} /\ irq' = 0
      /\ UNCHANGED <<status, queue_sel, queue, ram, device, backend, seen, owned,
                     fresh, history>>
  BY DEF AcknowledgePCI, ReadISR
<1>2. LineIsLevel' /\ irq' \in {0, 1}
  BY <1>1 DEF LineIsLevel
<1>3. QED
  BY <1>1, <1>2, HandlerKeeps

LEMMA NotifyKeeps ==
    ASSUME IInv, host = "guest", Notify PROVE IInv'
<1> USE DEF IInv, virtioVars, registers, ram, backend, history
<1>1. /\ drv = "run" /\ host' = "notify" /\ avail_idx' = AvailIdx(Q)
      /\ UNCHANGED <<int_status, irq, queue_sel, queue, ring, req_in_progress, req,
                     backend, history, drv, seen, owned>>
      /\ fresh' = {}
  BY DEF Notify, QueueNotify, EnterNotify
<1>2. /\ QueueTypeOK' /\ Pending' = Pending /\ Unseen' = Unseen
      /\ AvailIdx(Q)' = AvailIdx(Q) /\ Configured(Q)' = Configured(Q)
  BY <1>1, SameWindows
<1>3. TypeOK'
  BY <1>1, <1>2, WindowsType DEF TypeOK
<1>4. SetUpInv' /\ HostInv'
  BY <1>1, <1>2 DEF SetUpInv, HostInv
<1>5. ChainsInv'
  <2>1. Waiting' = Waiting /\ InService' = InService
    BY <1>1, <1>2 DEF Waiting, InService
  <2>2. QED
    BY <1>1, <1>2, <2>1 DEF ChainsInv, Live
<1>6. StoppedIsRestarted' /\ OneRequest'
  BY <1>1 DEF StoppedIsRestarted, OneRequest
<1>7. UsedIsSignalled'
  BY <1>1, <1>2 DEF UsedIsSignalled, LineIsLevel, Live
<1>8. QED
  BY <1>3, <1>4, <1>5, <1>6, <1>7

LEMMA ScanKeeps ==
    ASSUME IInv, host = "guest", Scan PROVE IInv'
<1> USE DEF IInv, virtioVars, registers, ram, device, backend, history
<1>1. /\ drv = "scan" /\ drv' = "run"
      /\ seen' = ring[queue[Q].used_addr].idx
      /\ owned' = owned \ Range(Unseen) /\ fresh' = fresh \ Range(Unseen)
      /\ UNCHANGED <<int_status, irq, queue_sel, queue, ring, device, backend, history>>
  BY DEF Scan
<1>2. /\ QueueTypeOK' /\ Pending' = Pending
      /\ AvailIdx(Q)' = AvailIdx(Q) /\ Configured(Q)' = Configured(Q)
  BY <1>1, SameWindows
<1>3. TypeOK'
  BY <1>1, <1>2, WindowsType DEF TypeOK
<1>4. Unseen' = << >> /\ Range(Unseen') = {} /\ IsInjective(Unseen')
  <2>1. seen' = ring'[queue'[Q].used_addr].idx
    BY <1>1
  <2>2. Unseen' = << >>
    <3>1. (seen = ring[queue[Q].used_addr].idx => Unseen = << >>)'
      BY <1>3, NoEntries, PTL
    <3>2. QED
      BY <2>1, <3>1
  <2>3. Range(<< >>) = {} /\ IsInjective(<< >>)
    BY DEF Range, IsInjective
  <2>4. QED
    BY <2>2, <2>3
<1>5. SetUpInv' /\ HostInv'
  BY <1>1, <1>2 DEF SetUpInv, HostInv
<1>6. InOnePlace(owned, Waiting, InService, Unseen, dropped)
  BY <1>1 DEF ChainsInv, Live
<1>7. Waiting' = Waiting /\ InService' = InService /\ dropped' = dropped
  BY <1>1, <1>2 DEF Waiting, InService
<1>8. ChainsInv'
  <2>1. InOnePlace(owned', Waiting', InService', Unseen', dropped')
    BY <1>1, <1>4, <1>6, <1>7 DEF InOnePlace
  <2>2. QED
    BY <2>1 DEF ChainsInv
<1>9. StoppedIsRestarted'
  <2>1. Range(Pending) \cap Range(Unseen) = {}
    BY <1>6 DEF InOnePlace, Waiting
  <2>2. NotifiedWaiting' => NotifiedWaiting
    BY <1>1, <1>2, <2>1 DEF NotifiedWaiting
  <2>3. QED
    BY <1>1, <2>2 DEF StoppedIsRestarted, Live
<1>10. OneRequest'
  BY <1>1 DEF OneRequest
<1>11. UsedIsSignalled'
  BY <1>1, <1>4 DEF UsedIsSignalled, LineIsLevel
<1>12. QED
  BY <1>3, <1>5, <1>8, <1>9, <1>10, <1>11

LEMMA PostKeeps ==
    ASSUME IInv, host = "guest", NEW h \in DescIdx, NEW t \in Template, Post(h, t)
    PROVE  IInv'
<1> USE DEF IInv, registers, device, backend, history
<1>1. /\ drv = "run" /\ h \notin owned
      /\ ring' = [ring EXCEPT ![queue[Q].avail_addr] = WithEntry(Q, @, h)]
      /\ owned' = owned \cup {h} /\ fresh' = fresh \cup {h}
      /\ UNCHANGED <<int_status, irq, queue_sel, queue, device, backend, drv, seen, history>>
  BY DEF Post
<1>2. QueueTypeOK' /\ Configured(Q)' = Configured(Q)
  BY <1>1 DEF TypeOK, QueueTypeOK, Configured
<1>3. InOnePlace(owned, Pending, InService, Unseen, dropped)
  BY <1>1, SMTT(40) DEF ChainsInv, Live, Waiting
<1>4. ring' = PutIn(ring, queue[Q].avail_addr, h)
  BY <1>1, QueueIsPlaced DEF WithEntry, PutIn, Slot, SlotOf
<1>5. /\ ring' \in [Addr -> Ring]
      /\ ring'[queue[Q].used_addr] = ring[queue[Q].used_addr]
  <2> DEFINE a == queue[Q].avail_addr
             u == queue[Q].used_addr
  <2>1. a \in Addr /\ u \in Addr /\ u # a /\ ring \in [Addr -> Ring]
    BY <1>1, QueueIsPlaced DEF HostInv, TypeOK
  <2> HIDE DEF a, u
  <2>2. /\ PutIn(ring, a, h) \in [Addr -> Ring]
        /\ \A b \in Addr \ {a} : PutIn(ring, a, h)[b] = ring[b]
    BY <2>1, PutInType, ZenonT(60)
  <2>3. ring' = PutIn(ring, a, h)
    BY <1>4 DEF a
  <2>4. QED
    BY <2>1, <2>2, <2>3 DEF u
<1>6. Unseen' = Unseen
  BY <1>1, <1>2, <1>5, SameUnseen DEF TypeOK
<1>7. /\ Pending' = Append(Pending, h)
      /\ Range(Pending') = Range(Pending) \cup {h} /\ IsInjective(Pending')
  BY <1>1, <1>2, <1>3, <1>4, PendingPushed DEF InOnePlace
<1>8. TypeOK'
  BY <1>1, <1>2, <1>5 DEF TypeOK
<1>9. SetUpInv' /\ HostInv'
  BY <1>1, <1>2 DEF SetUpInv, HostInv
<1>10. ChainsInv'
  <2>1. Waiting' = Pending' /\ InService' = InService /\ dropped' = dropped
    BY <1>1 DEF Waiting, InService
  <2>2. InOnePlace(owned', Waiting', InService', Unseen', dropped')
    BY <1>1, <1>3, <1>6, <1>7, <2>1 DEF InOnePlace
  <2>3. QED
    BY <2>2 DEF ChainsInv
<1>11. StoppedIsRestarted'
  <2>1. NotifiedWaiting' => NotifiedWaiting
    BY <1>1, <1>7 DEF NotifiedWaiting
  <2>2. QED
    BY <1>1, <2>1 DEF StoppedIsRestarted, Live
<1>12. OneRequest'
  BY <1>1 DEF OneRequest
<1>13. UsedIsSignalled'
  BY <1>1, <1>6 DEF UsedIsSignalled, LineIsLevel, Live
<1>14. QED
  BY <1>8, <1>9, <1>10, <1>11, <1>12, <1>13
-----------------------------------------------------------------------------
(* The steps of the device *)

LEMMA NotifyReturnsKeeps ==
    ASSUME IInv, NotifyReturns PROVE IInv'
<1> USE DEF IInv, virtioVars, registers, ram, backend, driver, history
<1>1. /\ host = "notify" /\ host' = "guest" /\ avail_idx' = 0
      /\ queue[Q].last_avail_idx = avail_idx
      /\ UNCHANGED <<int_status, irq, queue_sel, queue, ring, req_in_progress, req,
                     backend, history, drv, seen, owned, fresh>>
  BY DEF NotifyReturns
<1>2. /\ QueueTypeOK' /\ Pending' = Pending /\ Unseen' = Unseen
      /\ Configured(Q)' = Configured(Q)
  BY <1>1, SameWindows
<1>3. Range(Pending) = {}
  BY <1>1, NoEntries DEF HostInv
<1>4. TypeOK'
  BY <1>1, <1>2, VirtioAssumption DEF TypeOK, Idx
<1>5. SetUpInv' /\ HostInv'
  BY <1>1, <1>2 DEF SetUpInv, HostInv
<1>6. ChainsInv'
  <2>1. Waiting' = Waiting /\ InService' = InService
    BY <1>1, <1>2 DEF Waiting, InService
  <2>2. QED
    BY <1>1, <1>2, <2>1 DEF ChainsInv, Live
<1>7. StoppedIsRestarted'
  BY <1>2, <1>3 DEF StoppedIsRestarted, NotifiedWaiting
<1>8. OneRequest'
  BY <1>1 DEF OneRequest
<1>9. UsedIsSignalled'
  BY <1>1, <1>2 DEF UsedIsSignalled, LineIsLevel, Live
<1>10. QED
  BY <1>4, <1>5, <1>6, <1>7, <1>8, <1>9

LEMMA StopKeeps ==
    ASSUME IInv, Stop PROVE IInv'
<1> USE DEF IInv, virtioVars, registers, ram, backend, driver, history
<1>1. /\ host = "notify" /\ host' = "guest" /\ avail_idx' = 0 /\ req_in_progress
      /\ UNCHANGED <<int_status, irq, queue_sel, queue, ring, req_in_progress, req,
                     backend, history, drv, seen, owned, fresh>>
  BY DEF Stop, Processing
<1>2. /\ QueueTypeOK' /\ Pending' = Pending /\ Unseen' = Unseen
      /\ Configured(Q)' = Configured(Q)
  BY <1>1, SameWindows
<1>3. TypeOK'
  BY <1>1, <1>2, VirtioAssumption DEF TypeOK, Idx
<1>4. SetUpInv' /\ HostInv'
  BY <1>1, <1>2 DEF SetUpInv, HostInv
<1>5. ChainsInv'
  <2>1. Waiting' = Waiting /\ InService' = InService
    BY <1>1, <1>2 DEF Waiting, InService
  <2>2. QED
    BY <1>1, <1>2, <2>1 DEF ChainsInv, Live
<1>6. StoppedIsRestarted' /\ OneRequest'
  BY <1>1 DEF StoppedIsRestarted, OneRequest
<1>7. UsedIsSignalled'
  BY <1>1, <1>2 DEF UsedIsSignalled, LineIsLevel, Live
<1>8. QED
  BY <1>3, <1>4, <1>5, <1>6, <1>7

\* While queue_notify or read_async runs the device is live, and the next chain
\* is the first that is pending.
LEMMA Notifying ==
    ASSUME IInv, host \in {"notify", "backend"}, queue[Q].last_avail_idx # avail_idx
    PROVE  /\ Live /\ Configured(Q) /\ avail_idx = AvailIdx(Q)
           /\ queue[Q].last_avail_idx # AvailIdx(Q)
           /\ NextHead(Q) \in DescIdx /\ NextHead(Q) \in Range(Pending)
           /\ Range(Pending) = Range(Tail(Pending)) \cup {NextHead(Q)}
           /\ IsInjective(Pending) =>
                IsInjective(Tail(Pending)) /\ NextHead(Q) \notin Range(Tail(Pending))
<1>1. drv \in {"run", "ack", "scan"}
  BY DEF IInv, TypeOK, SetUpInv
<1>2. avail_idx = AvailIdx(Q) /\ Configured(Q) /\ TypeOK
  BY <1>1 DEF IInv, HostInv
<1>3. QED
  BY <1>1, <1>2, NextIsPending DEF Live

LEMMA DropKeeps ==
    ASSUME IInv, Drop PROVE IInv'
<1> USE DEF IInv, registers, ram, backend, driver
<1>1. /\ host = "notify" /\ queue[Q].last_avail_idx # avail_idx
      /\ Advance(Q) /\ dropped' = dropped \cup {NextHead(Q)}
      /\ UNCHANGED <<int_status, irq, queue_sel, ring, req_in_progress, avail_idx, host,
                     backend, drv, seen, owned, fresh, stale>>
  BY DEF Drop, Processing, Candidate
<1>2. /\ Live /\ Configured(Q) /\ avail_idx = AvailIdx(Q)
      /\ queue[Q].last_avail_idx # AvailIdx(Q)
      /\ NextHead(Q) \in DescIdx /\ NextHead(Q) \in Range(Pending)
      /\ Range(Pending) = Range(Tail(Pending)) \cup {NextHead(Q)}
      /\ IsInjective(Pending) =>
           IsInjective(Tail(Pending)) /\ NextHead(Q) \notin Range(Tail(Pending))
  BY <1>1, Notifying
<1>3. /\ "head" \in DOMAIN req' /\ req'.head \in DescIdx
      /\ req_in_progress => req'.head = req.head
  BY <1>2 DEF Drop, Candidate, TypeOK
<1>4. /\ QueueTypeOK'
      /\ queue'[Q].avail_addr = queue[Q].avail_addr
      /\ queue'[Q].used_addr = queue[Q].used_addr
      /\ queue'[Q].desc_addr = queue[Q].desc_addr
  BY <1>1, AdvanceQueue
<1>5. Pending' = Tail(Pending)
  BY <1>1, <1>2, PendingPops
<1>6. Unseen' = Unseen
  BY <1>1, <1>4, SameUnseen DEF TypeOK
<1>7. TypeOK'
  BY <1>1, <1>2, <1>3, <1>4 DEF TypeOK
<1>8. SetUpInv' /\ HostInv'
  BY <1>1, <1>2, <1>4 DEF SetUpInv, HostInv, Configured, AvailIdx, Live
<1>9. ChainsInv'
  <2>1. Waiting = Pending /\ Waiting' = Tail(Pending)
    BY <1>1, <1>5 DEF Waiting
  <2>2. InService' = InService
    BY <1>1, <1>3 DEF InService, OneRequest
  <2>3. InOnePlace(owned, Pending, InService, Unseen, dropped)
    BY <1>2, <2>1 DEF ChainsInv
  <2>4. InOnePlace(owned', Waiting', InService', Unseen', dropped')
    BY <1>1, <1>2, <1>6, <2>1, <2>2, <2>3 DEF InOnePlace
  <2>5. QED
    BY <2>4 DEF ChainsInv
<1>10. StoppedIsRestarted' /\ OneRequest'
  BY <1>1 DEF StoppedIsRestarted, OneRequest
<1>11. UsedIsSignalled'
  BY <1>1, <1>6 DEF UsedIsSignalled, LineIsLevel, Live
<1>12. QED
  BY <1>7, <1>8, <1>9, <1>10, <1>11

LEMMA SubmitKeeps ==
    ASSUME IInv, Submit PROVE IInv'
<1> USE DEF IInv, virtioVars, registers, ram, driver, history
<1>1. /\ host = "notify" /\ queue[Q].last_avail_idx # avail_idx
      /\ ~req_in_progress /\ host' = "backend" /\ busy' = TRUE
      /\ "head" \in DOMAIN req' /\ req'.head = NextHead(Q)
      /\ UNCHANGED <<int_status, irq, queue_sel, queue, ring, req_in_progress, avail_idx,
                     drv, seen, owned, fresh, history>>
  BY DEF Submit, Processing, Candidate
<1>2. /\ Live /\ Configured(Q) /\ avail_idx = AvailIdx(Q)
      /\ NextHead(Q) \in DescIdx
      /\ Range(Pending) = Range(Tail(Pending)) \cup {NextHead(Q)}
      /\ IsInjective(Pending) =>
           IsInjective(Tail(Pending)) /\ NextHead(Q) \notin Range(Tail(Pending))
  BY <1>1, Notifying
<1>3. /\ QueueTypeOK' /\ Pending' = Pending /\ Unseen' = Unseen
      /\ AvailIdx(Q)' = AvailIdx(Q) /\ Configured(Q)' = Configured(Q)
      /\ NextHead(Q)' = NextHead(Q)
  BY <1>1, SameWindows
<1>4. ~busy /\ ~stale
  BY <1>1 DEF OneRequest, HostInv, TypeOK
<1>5. TypeOK'
  BY <1>1, <1>2, <1>3 DEF TypeOK
<1>6. SetUpInv'
  BY <1>1, <1>2 DEF SetUpInv, Live
<1>7. HostInv'
  BY <1>1, <1>2, <1>3, <1>4 DEF HostInv
<1>8. ChainsInv'
  <2>1. Waiting = Pending /\ Waiting' = Tail(Pending)
    BY <1>1, <1>3 DEF Waiting
  <2>2. InService = {} /\ InService' = {NextHead(Q)}
    BY <1>1, <1>4 DEF InService
  <2>3. InOnePlace(owned, Pending, {}, Unseen, dropped)
    BY <1>2, <2>1, <2>2 DEF ChainsInv
  <2>4. InOnePlace(owned', Waiting', InService', Unseen', dropped')
    BY <1>1, <1>2, <1>3, <2>1, <2>2, <2>3 DEF InOnePlace
  <2>5. QED
    BY <2>4 DEF ChainsInv
<1>9. StoppedIsRestarted' /\ OneRequest'
  BY <1>1 DEF StoppedIsRestarted, OneRequest
<1>10. UsedIsSignalled'
  BY <1>1, <1>3 DEF UsedIsSignalled, LineIsLevel, Live
<1>11. QED
  BY <1>5, <1>6, <1>7, <1>8, <1>9, <1>10

\* The chain of the request in progress is put in the used ring.
LEMMA EndPushes ==
    ASSUME IInv, Live, busy, ~stale, ConsumeDesc(Q, req.head), QueueTypeOK',
           queue'[Q].used_addr = queue[Q].used_addr, seen' = seen
    PROVE  /\ ring' \in [Addr -> Ring] /\ irq' = 1
           /\ int_status' = int_status \cup {"used"}
           /\ ring'[queue[Q].avail_addr] = ring[queue[Q].avail_addr]
           /\ Range(Unseen') = Range(Unseen) \cup {req.head} /\ IsInjective(Unseen')
<1>1. TypeOK /\ req.head \in DescIdx /\ Configured(Q)
  BY DEF IInv, TypeOK, HostInv, Live
<1>2. InOnePlace(owned, Waiting, {req.head}, Unseen, dropped)
  BY DEF IInv, ChainsInv, InService
<1>3. IsInjective(Unseen) /\ req.head \notin Range(Unseen)
  BY <1>2 DEF InOnePlace
<1>4. /\ ring' = PutIn(ring, queue[Q].used_addr, req.head)
      /\ ring' \in [Addr -> Ring]
      /\ int_status' = int_status \cup {"used"} /\ irq' = 1
      /\ ring'[queue[Q].avail_addr] = ring[queue[Q].avail_addr]
  BY <1>1, ConsumeIsPut
<1>5. Range(Unseen') = Range(Unseen) \cup {req.head} /\ IsInjective(Unseen')
  BY <1>1, <1>3, <1>4, UnseenPushed
<1>6. QED
  BY <1>4, <1>5

LEMMA SyncEndKeeps ==
    ASSUME IInv, SyncEnd PROVE IInv'
<1> USE DEF IInv, driver, history
<1>1. /\ host = "backend" /\ host' = "notify" /\ ~busy' /\ busy' \in BOOLEAN
      /\ ConsumeDesc(Q, req.head) /\ Advance(Q)
      /\ UNCHANGED <<queue_sel, req_in_progress, req, avail_idx, drv, seen, owned, fresh,
                     history>>
  BY DEF SyncEnd, ReqEnd, Backend!Complete, Backend!Fail
<1>2. busy /\ ~req_in_progress /\ ~stale /\ queue[Q].last_avail_idx # avail_idx
  BY <1>1 DEF OneRequest, HostInv, TypeOK
<1>3. /\ Live /\ Configured(Q) /\ avail_idx = AvailIdx(Q)
      /\ queue[Q].last_avail_idx # AvailIdx(Q)
  BY <1>1, <1>2, Notifying
<1>4. /\ QueueTypeOK'
      /\ queue'[Q].avail_addr = queue[Q].avail_addr
      /\ queue'[Q].used_addr = queue[Q].used_addr
      /\ queue'[Q].desc_addr = queue[Q].desc_addr
  BY <1>1, AdvanceQueue
<1>5. /\ ring' \in [Addr -> Ring] /\ irq' = 1
      /\ int_status' = int_status \cup {"used"}
      /\ ring'[queue[Q].avail_addr] = ring[queue[Q].avail_addr]
      /\ Range(Unseen') = Range(Unseen) \cup {req.head} /\ IsInjective(Unseen')
  BY <1>1, <1>2, <1>3, <1>4, EndPushes
<1>6. Pending' = Tail(Pending)
  BY <1>1, <1>3, <1>5, PendingPops
<1>7. TypeOK'
  BY <1>1, <1>4, <1>5 DEF TypeOK
<1>8. SetUpInv'
  BY <1>1, <1>3 DEF SetUpInv, Live
<1>9. HostInv'
  BY <1>1, <1>2, <1>3, <1>4, <1>5 DEF HostInv, Configured, AvailIdx
<1>10. ChainsInv'
  <2>1. Waiting = Tail(Pending) /\ Waiting' = Tail(Pending)
    BY <1>1, <1>6 DEF Waiting
  <2>2. InService = {req.head} /\ InService' = {}
    BY <1>1, <1>2 DEF InService
  <2>3. InOnePlace(owned, Tail(Pending), {req.head}, Unseen, dropped)
    BY <1>3, <2>1, <2>2 DEF ChainsInv
  <2>4. InOnePlace(owned', Waiting', InService', Unseen', dropped')
    BY <1>1, <1>5, <2>1, <2>2, <2>3 DEF InOnePlace
  <2>5. QED
    BY <2>4 DEF ChainsInv
<1>11. StoppedIsRestarted' /\ OneRequest'
  BY <1>1, <1>2 DEF StoppedIsRestarted, OneRequest
<1>12. UsedIsSignalled'
  BY <1>5 DEF UsedIsSignalled, LineIsLevel
<1>13. QED
  BY <1>7, <1>8, <1>9, <1>10, <1>11, <1>12

LEMMA AsyncReturnKeeps ==
    ASSUME IInv, AsyncReturn PROVE IInv'
<1> USE DEF IInv, registers, ram, driver, history
<1>1. /\ host = "backend" /\ host' = "notify" /\ req_in_progress' = TRUE
      /\ Advance(Q)
      /\ UNCHANGED <<int_status, irq, queue_sel, ring, req, avail_idx, busy, drv, seen,
                     owned, fresh, history>>
  BY DEF AsyncReturn
<1>2. busy /\ ~stale /\ queue[Q].last_avail_idx # avail_idx
  BY <1>1 DEF OneRequest, HostInv, TypeOK
<1>3. /\ Live /\ Configured(Q) /\ avail_idx = AvailIdx(Q)
      /\ queue[Q].last_avail_idx # AvailIdx(Q)
  BY <1>1, <1>2, Notifying
<1>4. /\ QueueTypeOK'
      /\ queue'[Q].avail_addr = queue[Q].avail_addr
      /\ queue'[Q].used_addr = queue[Q].used_addr
      /\ queue'[Q].desc_addr = queue[Q].desc_addr
  BY <1>1, AdvanceQueue
<1>5. Pending' = Tail(Pending)
  BY <1>1, <1>3, PendingPops
<1>6. Unseen' = Unseen
  BY <1>1, <1>4, SameUnseen DEF TypeOK
<1>7. TypeOK'
  BY <1>1, <1>4 DEF TypeOK
<1>8. SetUpInv'
  BY <1>1, <1>3 DEF SetUpInv, Live
<1>9. HostInv'
  BY <1>1, <1>2, <1>3, <1>4 DEF HostInv, Configured, AvailIdx
<1>10. ChainsInv'
  <2>1. Waiting = Tail(Pending) /\ Waiting' = Tail(Pending) /\ InService' = InService
    BY <1>1, <1>5 DEF Waiting, InService
  <2>2. QED
    BY <1>1, <1>3, <1>6, <2>1 DEF ChainsInv
<1>11. StoppedIsRestarted' /\ OneRequest'
  BY <1>1, <1>2 DEF StoppedIsRestarted, OneRequest
<1>12. UsedIsSignalled'
  BY <1>1, <1>6 DEF UsedIsSignalled, LineIsLevel, Live
<1>13. QED
  BY <1>7, <1>8, <1>9, <1>10, <1>11, <1>12

LEMMA TransferKeeps ==
    ASSUME IInv, Transfer PROVE IInv'
<1> USE DEF IInv, virtioVars, registers, ram, device, driver, history
<1>1. UNCHANGED <<virtioVars, device, busy, driver, history>>
  BY DEF Transfer, Backend!Transfer
<1>2. /\ QueueTypeOK' /\ Pending' = Pending /\ Unseen' = Unseen
      /\ AvailIdx(Q)' = AvailIdx(Q) /\ Configured(Q)' = Configured(Q)
      /\ NextHead(Q)' = NextHead(Q)
  BY <1>1, SameWindows
<1>3. TypeOK'
  BY <1>1, <1>2 DEF TypeOK
<1>4. SetUpInv' /\ HostInv'
  BY <1>1, <1>2 DEF SetUpInv, HostInv
<1>5. ChainsInv'
  <2>1. Waiting' = Waiting /\ InService' = InService
    BY <1>1, <1>2 DEF Waiting, InService
  <2>2. QED
    BY <1>1, <1>2, <2>1 DEF ChainsInv, Live
<1>6. StoppedIsRestarted' /\ OneRequest'
  BY <1>1, <1>2 DEF StoppedIsRestarted, OneRequest, NotifiedWaiting, Live
<1>7. UsedIsSignalled'
  BY <1>1, <1>2 DEF UsedIsSignalled, LineIsLevel, Live
<1>8. QED
  BY <1>3, <1>4, <1>5, <1>6, <1>7

LEMMA CallbackKeeps ==
    ASSUME IInv, Callback PROVE IInv'
<1> USE DEF IInv, driver, history
<1>1. /\ host = "guest" /\ host' = "notify" /\ ~stale /\ busy /\ ~busy' /\ busy' \in BOOLEAN
      /\ avail_idx' = AvailIdx(Q) /\ req_in_progress' = FALSE
      /\ ConsumeDesc(Q, req.head)
      /\ UNCHANGED <<queue_sel, queue, req, drv, seen, owned, fresh, history>>
  BY DEF Callback, ReqEnd, EnterNotify, Backend!Complete
<1>2. Live /\ Configured(Q)
  BY <1>1 DEF SetUpInv, HostInv, TypeOK, Live
<1>3. QueueTypeOK' /\ Configured(Q)'
  BY <1>1, <1>2 DEF TypeOK, QueueTypeOK, Configured
<1>4. /\ ring' \in [Addr -> Ring] /\ irq' = 1
      /\ int_status' = int_status \cup {"used"}
      /\ ring'[queue[Q].avail_addr] = ring[queue[Q].avail_addr]
      /\ Range(Unseen') = Range(Unseen) \cup {req.head} /\ IsInjective(Unseen')
  BY <1>1, <1>2, <1>3, EndPushes
<1>5. Pending' = Pending
  BY <1>1, <1>3, <1>4, SamePending DEF TypeOK
<1>6. AvailIdx(Q)' = AvailIdx(Q)
  BY <1>1, <1>4 DEF AvailIdx
<1>7. TypeOK'
  BY <1>1, <1>3, <1>4, WindowsType DEF TypeOK
<1>8. SetUpInv'
  BY <1>1, <1>2 DEF SetUpInv, Live
<1>9. HostInv'
  BY <1>1, <1>3, <1>6 DEF HostInv
<1>10. ChainsInv'
  <2>1. Waiting = Pending /\ Waiting' = Pending
    BY <1>1, <1>5 DEF Waiting
  <2>2. InService = {req.head} /\ InService' = {}
    BY <1>1 DEF InService
  <2>3. InOnePlace(owned, Pending, {req.head}, Unseen, dropped)
    BY <1>2, <2>1, <2>2 DEF ChainsInv
  <2>4. InOnePlace(owned', Waiting', InService', Unseen', dropped')
    BY <1>1, <1>4, <2>1, <2>2, <2>3 DEF InOnePlace
  <2>5. QED
    BY <2>4 DEF ChainsInv
<1>11. StoppedIsRestarted' /\ OneRequest'
  BY <1>1 DEF StoppedIsRestarted, OneRequest
<1>12. UsedIsSignalled'
  BY <1>4 DEF UsedIsSignalled, LineIsLevel
<1>13. QED
  BY <1>7, <1>8, <1>9, <1>10, <1>11, <1>12

LEMMA LateCallbackKeeps ==
    ASSUME IInv, LateCallback PROVE IInv'
<1> USE DEF IInv, virtioVars, registers, ram, driver, history
<1>1. /\ host' = "undefined" /\ ~busy' /\ busy' \in BOOLEAN /\ host = "guest"
      /\ UNCHANGED <<int_status, irq, queue_sel, queue, ring, req_in_progress, req,
                     avail_idx, drv, seen, owned, fresh, history>>
  BY DEF LateCallback, Backend!Complete
<1>2. QueueTypeOK' /\ Configured(Q)' = Configured(Q)
  BY <1>1, SameWindows
<1>3. TypeOK'
  BY <1>1, <1>2 DEF TypeOK
<1>4. SetUpInv' /\ HostInv'
  BY <1>1, <1>2 DEF SetUpInv, HostInv
<1>5. ChainsInv' /\ StoppedIsRestarted' /\ OneRequest'
  BY <1>1 DEF ChainsInv, StoppedIsRestarted, OneRequest, Live
<1>6. UsedIsSignalled'
  BY <1>1 DEF UsedIsSignalled, LineIsLevel, Live
<1>7. QED
  BY <1>3, <1>4, <1>5, <1>6
-----------------------------------------------------------------------------
(* The theorems *)

LEMMA InitIInv ==
    ASSUME Init PROVE IInv
<1> USE DEF Init, VirtioInit, Backend!Init
<1>1. /\ Q \in QueueId /\ 0 \in QueueId /\ ResetQueue \in QueueState
      /\ 0 \in Placed("avail_addr") /\ 0 \in Placed("used_addr")
      /\ 0 \in Idx /\ 0 \in DescIdx
      /\ [idx |-> 0, ring |-> [h \in DescIdx |-> 0]] \in Ring
  BY VirtioAssumption
     DEF Q, QueueId, ResetQueue, QueueState, Idx, DescIdx, Ring, Placed
<1>2. QueueTypeOK /\ queue[Q].last_avail_idx = 0
  BY <1>1 DEF QueueTypeOK, ResetQueue
<1>3. TypeOK
  <2>1. int_status \subseteq {"used", "config"} /\ irq \in {0, 1} /\ queue_sel \in QueueId
    BY <1>1
  <2>2. ring \in [Addr -> Ring]
    BY <1>1
  <2>3. /\ {req_in_progress, busy, stale} \subseteq BOOLEAN
        /\ host \in {"guest", "notify", "backend", "undefined"}
        /\ drv \in {"setup", "zeroed", "run", "ack", "scan"}
    OBVIOUS
  <2>4. "head" \in DOMAIN req /\ req.head \in DescIdx
    BY <1>1
  <2>5. avail_idx \in Idx /\ seen \in Idx
    BY <1>1
  <2>6. QED
    BY <1>2, <2>1, <2>2, <2>3, <2>4, <2>5 DEF TypeOK
<1>4. SetUpInv /\ HostInv
  BY <1>2 DEF SetUpInv, HostInv
<1>5. ChainsInv /\ StoppedIsRestarted /\ OneRequest
  BY DEF ChainsInv, StoppedIsRestarted, OneRequest, Live
<1>6. UsedIsSignalled
  BY DEF UsedIsSignalled, LineIsLevel, Live
<1>7. QED
  BY <1>3, <1>4, <1>5, <1>6 DEF IInv

LEMMA StepIInv ==
    ASSUME IInv, [Next]_vars PROVE IInv'
<1>1. CASE Driver
  BY <1>1, ClearRingsKeeps, SetUpKeeps, DriverOKKeeps, ResetKeeps, PostKeeps, NotifyKeeps,
     ReadCausesKeeps, AcknowledgeKeeps, AcknowledgePCIKeeps, ScanKeeps DEF Driver
<1>2. CASE Device
  BY <1>2, NotifyReturnsKeeps, DropKeeps, StopKeeps, SubmitKeeps, SyncEndKeeps,
     AsyncReturnKeeps, TransferKeeps, CallbackKeeps, LateCallbackKeeps DEF Device
<1>3. CASE UNCHANGED vars
  <2> USE <1>3 DEF vars, virtioVars, registers, ram, device, backend, driver, history
  <2>1. /\ QueueTypeOK' /\ Pending' = Pending /\ Unseen' = Unseen
        /\ AvailIdx(Q)' = AvailIdx(Q) /\ Configured(Q)' = Configured(Q)
        /\ NextHead(Q)' = NextHead(Q)
    BY SameWindows DEF IInv
  <2>2. TypeOK' /\ SetUpInv' /\ HostInv'
    BY <2>1 DEF IInv, TypeOK, SetUpInv, HostInv
  <2>3. Waiting' = Waiting /\ InService' = InService
    BY <2>1 DEF Waiting, InService
  <2>4. ChainsInv' /\ OneRequest'
    BY <2>1, <2>3 DEF IInv, ChainsInv, OneRequest, Live
  <2>5. StoppedIsRestarted' /\ UsedIsSignalled'
    BY <2>1 DEF IInv, StoppedIsRestarted, UsedIsSignalled, NotifiedWaiting, LineIsLevel, Live
  <2>6. QED
    BY <2>2, <2>4, <2>5 DEF IInv
<1>4. QED
  BY <1>1, <1>2, <1>3 DEF Next

\* The inductive invariant holds in every behaviour.
LEMMA SpecIInv == Spec => []IInv
<1>1. Init => IInv
  BY InitIInv
<1>2. IInv /\ [Next]_vars => IInv'
  BY StepIInv
<1>3. QED
  BY <1>1, <1>2, PTL DEF Spec

\* Registers, indices and heads stay in their ranges, and the rings of a queue
\* where the driver has put them.
THEOREM TypesHold == Spec => []TypeOK
<1>1. IInv => TypeOK
  BY DEF IInv
<1>2. QED
  BY <1>1, SpecIInv, PTL

\* virtio.c:1016 and 1086: req_in_progress is set exactly while the block device
\* has a request and the guest, or queue_notify, runs; it never gets a second.
THEOREM OneRequestAtATime == Spec => []OneRequest
<1>1. IInv => OneRequest
  BY DEF IInv
<1>2. QED
  BY <1>1, SpecIInv, PTL

\* virtio.c:460-478: a used entry the driver has not read holds the line up, or
\* the handler of the interrupt is on its way.
THEOREM NoInterruptIsLost == Spec => []UsedIsSignalled
<1>1. IInv => UsedIsSignalled
  BY DEF IInv
<1>2. QED
  BY <1>1, SpecIInv, PTL

\* virtio.c:119 and 980-1002: what a notification stopped by -1 has left in the
\* available ring has a request in progress before it.
THEOREM StoppedHasARequest == Spec => []StoppedIsRestarted
<1>1. IInv => StoppedIsRestarted
  BY DEF IInv
<1>2. QED
  BY <1>1, SpecIInv, PTL

LEMMA DisjointUnion ==
    ASSUME NEW S, NEW T, IsFiniteSet(S), IsFiniteSet(T), S \cap T = {}
    PROVE  /\ IsFiniteSet(S \cup T)
           /\ Cardinality(S \cup T) = Cardinality(S) + Cardinality(T)
<1>1. /\ IsFiniteSet(S \cup T)
      /\ Cardinality(S \cup T)
           = Cardinality(S) + Cardinality(T) - Cardinality(S \cap T)
  BY FS_Union
<1>2. Cardinality(S \cap T) = 0
  BY FS_EmptySet
<1>3. Cardinality(S) \in Nat /\ Cardinality(T) \in Nat
  BY FS_CardinalityType
<1>4. QED
  BY <1>1, <1>2, <1>3

\* A set of four disjoint places has as many chains as they have together.
LEMMA PlacesAdd ==
    ASSUME NEW w \in Seq(DescIdx), NEW u \in Seq(DescIdx),
           NEW b \in SUBSET DescIdx, NEW d \in SUBSET DescIdx, NEW o,
           InOnePlace(o, w, b, u, d)
    PROVE  Len(w) + Cardinality(b) + Len(u) + Cardinality(d) = Cardinality(o)
<1>1. /\ IsFiniteSet(Range(w)) /\ Cardinality(Range(w)) = Len(w)
      /\ IsFiniteSet(Range(u)) /\ Cardinality(Range(u)) = Len(u)
      /\ Len(w) \in Nat /\ Len(u) \in Nat
  BY InjectiveLen, LenProperties DEF InOnePlace
<1>2. IsFiniteSet(DescIdx)
  BY VirtioAssumption, FS_Interval DEF DescIdx
<1>3. /\ IsFiniteSet(b) /\ IsFiniteSet(d)
      /\ Cardinality(b) \in Nat /\ Cardinality(d) \in Nat
  BY <1>2, FS_Subset, FS_CardinalityType
<1> DEFINE x == Range(w) \cup b
           y == x \cup Range(u)
<1>4. IsFiniteSet(x) /\ Cardinality(x) = Len(w) + Cardinality(b)
  <2>1. Range(w) \cap b = {}
    BY DEF InOnePlace
  <2>2. QED
    BY <1>1, <1>3, <2>1, DisjointUnion
<1>5. IsFiniteSet(y) /\ Cardinality(y) = Len(w) + Cardinality(b) + Len(u)
  <2>1. x \cap Range(u) = {}
    BY DEF InOnePlace
  <2> HIDE DEF x
  <2>2. IsFiniteSet(y) /\ Cardinality(y) = Cardinality(x) + Cardinality(Range(u))
    BY <1>1, <1>4, <2>1, DisjointUnion
  <2> HIDE DEF y
  <2>3. QED
    BY <1>1, <1>4, <2>2
<1>6. Cardinality(y \cup d) = Len(w) + Cardinality(b) + Len(u) + Cardinality(d)
  <2>1. y \cap d = {}
    BY DEF InOnePlace
  <2> HIDE DEF y
  <2>2. QED
    BY <1>3, <1>5, <2>1, DisjointUnion
<1>7. o = y \cup d
  BY DEF InOnePlace
<1>8. QED
  BY <1>6, <1>7

\* virtio.c:460-478 and 518-544: no chain is forgotten, taken twice or given
\* back twice, whatever the wrap-around of the indices.
THEOREM NoChainIsLost == Spec => []ChainsAccounted
<1>1. ASSUME IInv, Live PROVE ChainsAccounted
  <2>1. InOnePlace(owned, Waiting, InService, Unseen, dropped)
    BY <1>1 DEF IInv, ChainsInv
  <2>2. /\ Pending \in Seq(DescIdx) /\ Unseen \in Seq(DescIdx) /\ Waiting \in Seq(DescIdx)
        /\ InService \in SUBSET DescIdx /\ dropped \in SUBSET DescIdx
    <3>1. Pending \in Seq(DescIdx) /\ Unseen \in Seq(DescIdx)
      BY <1>1, WindowsType DEF IInv
    <3>2. host = "backend" => Pending # << >>
      BY <1>1, NextIsPending DEF IInv, HostInv
    <3>3. Waiting \in Seq(DescIdx)
      BY <3>1, <3>2, HeadTailProperties DEF Waiting
    <3>4. InService \in SUBSET DescIdx /\ dropped \in SUBSET DescIdx
      BY <1>1 DEF IInv, TypeOK, InService
    <3>5. QED
      BY <3>1, <3>3, <3>4
  <2>3. Len(Waiting) + Cardinality(InService) + Len(Unseen) + Cardinality(dropped)
          = Cardinality(owned)
    BY <2>1, <2>2, PlacesAdd
  <2>4. owned = UNION {Range(Waiting), InService, Range(Unseen), dropped}
    BY <2>1 DEF InOnePlace
  <2>5. IsInjective(Waiting) /\ IsInjective(Unseen)
    BY <2>1 DEF InOnePlace
  <2>6. QED
    BY <2>3, <2>4, <2>5 DEF ChainsAccounted, Waiting
<1>2. IInv => ChainsAccounted
  BY <1>1 DEF ChainsAccounted
<1>3. QED
  BY <1>2, SpecIInv, PTL
-----------------------------------------------------------------------------
(* What a read delivers *)

LEMMA SectorIs == \A c : SectorOf(c) = data[ReadableCells(c)[2]]
  BY DEF SectorOf, HeaderOf, CopyFromQueue, HeaderSize

\* A request to read is at work for the chain c: what it has moved into its
\* buffer is in the sectors that the header names, and the chain has a cell for
\* each sector and one for the status.
ReadAtWork(c, mem, sectors, r, buf, n) ==
    /\ 2 <= Len(ReadableCells(c))
    /\ Len(buf) \in Nat /\ buf = [i \in 1 .. Len(buf) |-> buf[i]]
    /\ Len(WritableCells(c)) = Len(buf) + 1
    /\ ~r.is_write /\ r.sector_num = mem[ReadableCells(c)[2]]
    /\ n \in 0 .. Len(buf)
    /\ \A i \in 1 .. n : buf[i] = sectors[r.sector_num + i - 1]

Reading == busy /\ ~stale /\ Live /\ req.type = TypeIn

\* A chain is left alone as long as the driver has not got it back.
DataInv ==
    /\ desc = [a \in Addr |-> desc[a]]
    /\ \A a \in Addr : desc[a] = [h \in DescIdx |-> desc[a][h]]
    /\ \A h \in owned : \E t \in Template : ChainOf(Q, h) = ChainAt(h, t)
    /\ Reading => ReadAtWork(ChainOf(Q, req.head), data, disk, request, buffer, moved)

\* The cells of a chain are those of its head, and a chain that the device
\* serves has room for the status.
LEMMA ChainCells ==
    ASSUME NEW h \in DescIdx, NEW t \in Template
    PROVE  /\ ReadableCells(ChainAt(h, t)) \in Seq(ZoneOf(MaxCells, h))
           /\ WritableCells(ChainAt(h, t)) \in Seq(ZoneOf(MaxCells, h))
           /\ Increasing(WritableCells(ChainAt(h, t)))
           /\ WellFormed(ChainAt(h, t)) => Len(WritableCells(ChainAt(h, t))) > 0
<1> DEFINE c == t.chain
           base == h * MaxCells
           k == ChainFrom(base, c)
           r == ReadableCells(k)
           w == WritableCells(k)
           n == CellsBefore(c)[Len(c)]
           room == \E i \in 1 .. Len(c) :
                     /\ c[i].write /\ c[i].len > 0
                     /\ \A j \in 1 .. i : c[j].write => \A l \in j .. i : c[l].write
<1>1. /\ c \in Seq(DescriptorSizes) /\ c # << >> /\ n <= MaxCells
      /\ \E i \in 1 .. Len(c) : c[i].write /\ c[i].len > 0
      /\ MaxCells \in Nat /\ h \in Nat
  <2>1. MaxCells \in Nat /\ h \in Nat
    BY RequestAssumption DEF DescIdx
  <2>2. /\ t.chain \in Seq(DescriptorSizes) /\ t.chain # << >>
        /\ CellsBefore(t.chain)[Len(t.chain)] <= MaxCells
        /\ \E i \in 1 .. Len(t.chain) : t.chain[i].write /\ t.chain[i].len > 0
    BY RequestAssumption, Zenon DEF DescriptorSizes
  <2>3. QED
    BY <2>1, <2>2
<1>2. k = ChainAt(h, t)
  BY DEF ChainAt
<1> HIDE DEF c, n, k
<1>3. base \in Nat /\ (h + 1) * MaxCells = base + MaxCells
  BY <1>1
<1> HIDE DEF base
<1>4. /\ Len(k) = Len(c) /\ Len(c) \in Nat \ {0}
      /\ \A i \in 1 .. Len(c) : k[i].write = c[i].write
  BY <1>1, <1>3, ChainFromIs DEF k
<1>5. n \in Nat
  <2>1. Len(c) \in 0 .. Len(c)
    BY <1>4
  <2>2. QED
    BY <1>1, <2>1, CellsBeforeIs DEF n
<1>6. r \in Seq(base .. base + n - 1)
  BY <1>1, <1>3, ReadableFrom DEF n, k
<1>7. w \in Seq(base .. base + n - 1) /\ Increasing(w) /\ (room => Len(w) > 0)
  BY <1>1, <1>3, WritableFrom DEF n, k
<1>8. WellFormed(k) => room
  <2>1. SUFFICES ASSUME WellFormed(k) PROVE room
    OBVIOUS
  <2>2. PICK i \in 1 .. Len(c) : c[i].write /\ c[i].len > 0
    BY <1>1
  <2>3. ASSUME NEW j \in 1 .. i, c[j].write, NEW l \in j .. i PROVE c[l].write
    <3>1. j \in 1 .. Len(k) /\ l \in 1 .. Len(k) /\ (l = j \/ j < l)
      BY <1>4
    <3>2. k[j].write /\ (j < l => k[l].write)
      BY <1>4, <2>1, <2>3, <3>1 DEF WellFormed
    <3>3. QED
      BY <1>4, <3>1, <3>2
  <2>4. QED
    BY <2>2, <2>3
<1>9. base .. base + n - 1 \subseteq ZoneOf(MaxCells, h)
  BY <1>1, <1>3, <1>5 DEF ZoneOf, base
<1> HIDE DEF r, w, room
<1>10. r \in Seq(ZoneOf(MaxCells, h)) /\ w \in Seq(ZoneOf(MaxCells, h))
  BY <1>6, <1>7, <1>9, SeqWider
<1>11. QED
  BY <1>2, <1>7, <1>8, <1>10 DEF r, w

LEMMA HeadIsOwned ==
    ASSUME IInv, busy, ~stale, Live PROVE req.head \in owned /\ req.head \in DescIdx
  BY DEF IInv, ChainsInv, InOnePlace, InService, TypeOK

\* A step that leaves the chains and the block device alone.
LEMMA QuietStep ==
    ASSUME IInv, DataInv, UNCHANGED <<desc, data>>, owned' \subseteq owned,
           owned' = {} \/ queue'[Q].desc_addr = queue[Q].desc_addr,
           Reading' => /\ Reading /\ req'.head = req.head
                       /\ queue'[Q].desc_addr = queue[Q].desc_addr
                       /\ UNCHANGED <<disk, request, buffer, moved>>
    PROVE  DataInv'
<1>1. \A h \in owned' : \E t \in Template : ChainOf(Q, h)' = ChainAt(h, t)
  BY SMTT(40) DEF DataInv, ChainOf
<1>2. ASSUME Reading'
      PROVE  ReadAtWork(ChainOf(Q, req.head), data, disk, request, buffer, moved)'
  BY <1>2 DEF DataInv, ReadAtWork, ChainOf
<1>3. desc' = [a \in Addr |-> desc'[a]] /\ \A a \in Addr : desc'[a] = [h \in DescIdx |-> desc'[a][h]]
  BY DEF DataInv
<1>4. QED
  BY <1>1, <1>2, <1>3 DEF DataInv, ChainAt, ChainFrom

LEMMA SetUpReads ==
    ASSUME IInv, DataInv, host = "guest", ClearRings \/ SetUp \/ DriverOK \/ Reset
    PROVE  DataInv'
<1> USE DEF registers, ram, device, backend, driver, history
<1>1. CASE ClearRings
  <2>1. owned' = {} /\ ~Reading'
    BY <1>1 DEF IInv, SetUpInv, ClearRings, Reading, Live
  <2>2. desc' = [a \in Addr |-> [h \in DescIdx |-> << >>]]
    BY <1>1 DEF ClearRings
  <2>3. desc' = [a \in Addr |-> desc'[a]] /\ \A a \in Addr : desc'[a] = [h \in DescIdx |-> desc'[a][h]]
    BY <2>2
  <2>4. QED
    BY <2>1, <2>3 DEF DataInv
<1>2. CASE SetUp
  <2>1. UNCHANGED <<desc, data, device, backend, driver, history>> /\ drv = "zeroed"
    BY <1>2 DEF SetUp, WriteQueueSel, WriteQueueNum, WriteQueueAddr, WriteQueueReady
  <2>2. owned' = {} /\ ~Reading'
    BY <2>1 DEF IInv, SetUpInv, Reading, Live
  <2>3. QED
    BY <2>1, <2>2, QuietStep
<1>3. CASE DriverOK
  <2>1. UNCHANGED <<desc, data, device, backend, owned, history>> /\ drv = "zeroed"
    BY <1>3 DEF DriverOK, WriteStatus
  <2>2. owned' = {} /\ ~Reading'
    BY <2>1 DEF IInv, SetUpInv, Reading
  <2>3. QED
    BY <2>1, <2>2, QuietStep
<1>4. CASE Reset
  <2>1. UNCHANGED <<desc, data>> /\ owned' = {} /\ drv' = "setup"
    BY <1>4 DEF Reset, WriteStatus
  <2>2. ~Reading'
    BY <2>1 DEF Reading, Live
  <2>3. QED
    BY <2>1, <2>2, QuietStep
<1>5. QED
  BY <1>1, <1>2, <1>3, <1>4

LEMMA HandlerReads ==
    ASSUME IInv, DataInv, host = "guest",
           Notify \/ ReadCauses \/ Acknowledge \/ AcknowledgePCI \/ Scan
    PROVE  DataInv'
<1> USE DEF virtioVars, registers, ram, device, backend, history
<1>1. /\ UNCHANGED <<desc, data, queue, req, backend, stale>> /\ owned' \subseteq owned
      /\ drv \in {"run", "ack", "scan"}
  BY DEF Notify, QueueNotify, EnterNotify, ReadCauses, Acknowledge, AcknowledgePCI, Scan,
         InterruptAck, ReadISR
<1>2. Reading' => Reading
  BY <1>1 DEF Reading, Live
<1>3. QED
  BY <1>1, <1>2, QuietStep

\* queue_notify steps over a chain, stops or ends.
LEMMA NotifyReads ==
    ASSUME IInv, DataInv, NotifyReturns \/ Drop \/ Stop \/ LateCallback
    PROVE  DataInv'
<1> USE DEF virtioVars, registers, ram, backend, driver, history
<1>1. UNCHANGED <<desc, data, drv, owned, stale, disk, request, buffer, moved>>
  BY DEF NotifyReturns, Drop, Stop, LateCallback, Backend!Complete
<1>2. queue'[Q].desc_addr = queue[Q].desc_addr
  BY AdvanceQueue DEF NotifyReturns, Drop, Stop, LateCallback, IInv
<1>3. ASSUME Reading' PROVE Reading /\ req'.head = req.head
  <2>1. ~LateCallback
    BY <1>3 DEF LateCallback, Reading, Live
  <2>2. busy /\ ~stale /\ drv \in {"run", "ack", "scan"} /\ host = "notify"
    BY <1>1, <1>3, <2>1 DEF NotifyReturns, Drop, Stop, Processing, Reading, Live
  <2>3. req_in_progress
    BY <2>2 DEF IInv, OneRequest, TypeOK
  <2>4. req' = req
    BY <2>1, <2>3 DEF NotifyReturns, Drop, Stop
  <2>5. QED
    BY <1>3, <2>2, <2>4 DEF Reading, Live
<1>4. QED
  BY <1>1, <1>2, <1>3, QuietStep

LEMMA StutterReads ==
    ASSUME IInv, DataInv, UNCHANGED vars PROVE DataInv'
<1> USE DEF vars, virtioVars, registers, ram, device, backend, driver, history
<1>1. Reading' = Reading
  BY DEF Reading, Live
<1>2. QED
  BY <1>1, QuietStep

\* The driver fills a chain that it does not share with the device.
LEMMA PostReads ==
    ASSUME IInv, DataInv, NEW h \in DescIdx, NEW t \in Template, Post(h, t)
    PROVE  DataInv'
<1> DEFINE a == queue[Q].desc_addr
<1> USE DEF registers, device, backend, history
<1>1. /\ h \notin owned /\ owned' = owned \cup {h} /\ drv = "run"
      /\ desc' = [desc EXCEPT ![a][h] = ChainAt(h, t)]
      /\ UNCHANGED <<queue, device, backend, drv, stale>>
  BY DEF Post
<1>2. \A x \in Cell \ ZoneOf(MaxCells, h) : data'[x] = data[x]
  BY DEF Post, ZoneOf
<1>3. a \in Addr
  BY QueueIsPlaced DEF IInv, TypeOK, QueueState
<1> HIDE DEF a
<1>4. /\ desc' = [b \in Addr |-> desc'[b]]
      /\ \A b \in Addr : desc'[b] = [g \in DescIdx |-> desc'[b][g]]
      /\ desc'[a][h] = ChainAt(h, t)
      /\ \A g \in DescIdx \ {h} : desc'[a][g] = desc[a][g]
  <2>1. desc = [b \in Addr |-> desc[b]] /\ \A b \in Addr : desc[b] = [g \in DescIdx |-> desc[b][g]]
    BY DEF DataInv
  <2> DEFINE c == ChainAt(h, t)
  <2>2. desc' = [desc EXCEPT ![a] = [desc[a] EXCEPT ![h] = c]]
    BY <1>1
  <2> HIDE DEF c
  <2>3. /\ [desc[a] EXCEPT ![h] = c] = [g \in DescIdx |-> IF g = h THEN c ELSE desc[a][g]]
    BY <1>3, <2>1
  <2>4. desc' = [b \in Addr |-> IF b = a THEN [g \in DescIdx |-> IF g = h THEN c ELSE desc[a][g]]
                                ELSE desc[b]]
    BY <2>1, <2>2, <2>3
  <2>5. /\ \A b \in Addr : b # a => desc'[b] = desc[b]
        /\ desc'[a] = [g \in DescIdx |-> IF g = h THEN c ELSE desc[a][g]]
        /\ desc' = [b \in Addr |-> desc'[b]]
    BY <1>3, <2>4
  <2>6. \A g \in DescIdx : desc'[a][g] = IF g = h THEN c ELSE desc[a][g]
    BY <2>5
  <2>7. desc'[a] = [g \in DescIdx |-> desc'[a][g]]
    BY <2>5
  <2>8. QED
    BY <2>1, <2>5, <2>6, <2>7 DEF c
<1>5. owned \subseteq DescIdx
  BY DEF IInv, TypeOK
<1>6. ASSUME NEW g \in owned' PROVE \E u \in Template : ChainOf(Q, g)' = ChainAt(g, u)
  <2>1. CASE g = h
    BY <1>1, <1>4, <2>1 DEF ChainOf, a
  <2>2. CASE g # h
    <3>1. g \in owned /\ ChainOf(Q, g)' = ChainOf(Q, g)
      BY <1>1, <1>4, <1>5, <2>2 DEF ChainOf, a
    <3>2. QED
      BY <3>1 DEF DataInv
  <2>3. QED
    BY <2>1, <2>2
<1>7. ASSUME Reading'
      PROVE  ReadAtWork(ChainOf(Q, req.head), data, disk, request, buffer, moved)'
  <2> DEFINE g == req.head
             c == ChainOf(Q, g)
             r == ReadableCells(c)
             x == r[2]
  <2>1. Reading
    BY <1>1, <1>7 DEF Reading, Live
  <2>2. g \in owned /\ g \in DescIdx /\ g # h
    BY <1>1, <2>1, HeadIsOwned DEF Reading
  <2>3. c' = c
    BY <1>1, <1>4, <2>2 DEF ChainOf, a
  <2>4. ReadAtWork(c, data, disk, request, buffer, moved)
    BY <2>1 DEF DataInv
  <2>5. PICK u \in Template : c = ChainAt(g, u)
    BY <2>2 DEF DataInv
  <2> HIDE DEF g, c
  <2>6. r \in Seq(ZoneOf(MaxCells, g)) /\ 2 <= Len(r)
    BY <2>2, <2>4, <2>5, ChainCells DEF ReadAtWork
  <2> HIDE DEF r
  <2>7. x \in ZoneOf(MaxCells, g)
    BY <2>6
  <2>8. x \in Cell /\ x \notin ZoneOf(MaxCells, h)
    BY <2>2, <2>7, RequestAssumption, ZonesOf
  <2>9. data'[x] = data[x]
    BY <1>2, <2>8
  <2>10. ReadAtWork(c, data', disk', request', buffer', moved')
    BY <1>1, <2>4, <2>9 DEF ReadAtWork, r
  <2>11. c' = ChainOf(Q, req.head)' /\ c = ChainOf(Q, req.head)
    BY <1>1 DEF c, g
  <2>12. QED
    BY <2>3, <2>10, <2>11 DEF c, g
<1>8. QED
  BY <1>4, <1>6, <1>7 DEF DataInv, ChainAt, ChainFrom

\* read_async is called: nothing has been moved.
LEMMA SubmitReads ==
    ASSUME IInv, DataInv, Submit PROVE DataInv'
<1> DEFINE c == CandidateChain
           r == ReadableCells(c)
           w == WritableCells(c)
<1> USE DEF virtioVars, registers, ram, driver, history
<1>1. /\ host = "notify" /\ queue[Q].last_avail_idx # avail_idx
      /\ IsRequest(c) /\ req'.head = Candidate /\ req'.type = TypeOf(c)
      /\ moved' = 0
      /\ UNCHANGED <<queue, desc, data, disk, owned>>
  BY DEF Submit, Processing
<1>2. Candidate \in owned
  <2>1. Live /\ Candidate \in Range(Pending)
    BY <1>1, Notifying DEF Candidate
  <2>2. QED
    BY <1>1, <2>1 DEF IInv, ChainsInv, InOnePlace, Waiting
<1>3. Candidate \in DescIdx
  BY <1>2 DEF IInv, TypeOK
<1>4. PICK t \in Template : c = ChainAt(Candidate, t)
  BY <1>2 DEF DataInv, CandidateChain
<1>5. WellFormed(c) /\ 2 <= Len(r)
  BY <1>1 DEF IsRequest, HasHeader, CanCopyFrom, HeaderSize
<1>6. Len(w) \in Nat /\ Len(w) > 0
  <2>1. w \in Seq(ZoneOf(MaxCells, Candidate)) /\ Len(w) > 0
    BY <1>3, <1>4, <1>5, ChainCells
  <2> HIDE DEF w
  <2>2. QED
    BY <2>1
<1>7. \A h \in owned' : \E u \in Template : ChainOf(Q, h)' = ChainAt(h, u)
  BY <1>1 DEF DataInv, ChainOf
<1>8. desc' = [a \in Addr |-> desc'[a]] /\ \A a \in Addr : desc'[a] = [h \in DescIdx |-> desc'[a][h]]
  BY <1>1 DEF DataInv
<1>9. ASSUME Reading'
      PROVE  ReadAtWork(ChainOf(Q, req.head), data, disk, request, buffer, moved)'
  <2> DEFINE n == Len(w) - 1
  <2>1. TypeOf(c) # TypeOut
    BY <1>1, <1>9, RequestAssumption DEF Reading
  <2>2. /\ buffer' = [i \in 1 .. n |-> Garbage]
        /\ request' = [is_write |-> FALSE, sector_num |-> SectorOf(c), data |-> buffer']
    <3>1. LET W == TypeOf(c) = TypeOut
              N == IF W THEN ReadSize(c) - HeaderSize ELSE WriteSize(c) - 1
              b == IF W THEN CopyFromQueue(c, HeaderSize, N) ELSE [i \in 1 .. N |-> Garbage]
          IN  /\ request' = [is_write |-> W, sector_num |-> SectorOf(c), data |-> b]
              /\ buffer' = b
      BY DEF Submit
    <3>2. n = WriteSize(c) - 1
      BY DEF WriteSize
    <3> HIDE DEF c, n, w
    <3>3. (TypeOf(c) = TypeOut) = FALSE
      BY <2>1
    <3>4. QED
      BY <3>1, <3>2, <3>3, Zenon
  <2>3. ~request'.is_write /\ request'.sector_num = data[r[2]]
    BY <2>2, SectorIs
  <2>4. n \in Nat /\ Len(w) = n + 1
    BY <1>6
  <2> HIDE DEF n, w, r, c
  <2>5. Len(buffer') = n /\ buffer' = [i \in 1 .. n |-> buffer'[i]]
    BY <2>2, <2>4
  <2>6. 0 \in 0 .. n
    BY <2>4
  <2>7. ReadAtWork(c, data', disk', request', buffer', moved')
    BY <1>1, <1>5, <2>3, <2>4, <2>5, <2>6 DEF ReadAtWork, r, w
  <2>8. c = ChainOf(Q, req.head)'
    BY <1>1 DEF c, CandidateChain, ChainOf
  <2>9. QED
    BY <2>7, <2>8
<1>10. QED
  BY <1>7, <1>8, <1>9 DEF DataInv, ChainAt, ChainFrom

LEMMA AsyncReturnReads ==
    ASSUME IInv, DataInv, AsyncReturn PROVE DataInv'
<1> USE DEF registers, ram, driver, history
<1>1. /\ UNCHANGED <<desc, data, owned, req, disk, request, moved, busy, drv, stale>>
      /\ Advance(Q) /\ host = "backend"
      /\ buffer' = IF req.type = TypeOut THEN [i \in 1 .. Len(buffer) |-> Garbage] ELSE buffer
  BY DEF AsyncReturn
<1>2. queue'[Q].desc_addr = queue[Q].desc_addr
  BY <1>1, AdvanceQueue DEF IInv
<1>3. Reading' => Reading /\ buffer' = buffer
  BY <1>1, RequestAssumption DEF Reading, Live
<1>4. QED
  BY <1>1, <1>2, <1>3, QuietStep

\* The block device moves the next sectors.
LEMMA TransferReads ==
    ASSUME IInv, DataInv, Transfer PROVE DataInv'
<1> DEFINE c == ChainOf(Q, req.head)
<1> USE DEF virtioVars, registers, ram, device, driver, history
<1>1. PICK n \in 1 .. Len(buffer) - moved : Backend!Transfer(n)
  BY DEF Transfer
<1>2. /\ UNCHANGED <<desc, data, queue, owned, req, drv, host, stale, busy, request>>
      /\ moved' = moved + n
  BY <1>1 DEF Transfer, Backend!Transfer
<1>3. \A h \in owned' : \E u \in Template : ChainOf(Q, h)' = ChainAt(h, u)
  BY <1>2 DEF DataInv, ChainOf
<1>4. desc' = [a \in Addr |-> desc'[a]] /\ \A a \in Addr : desc'[a] = [h \in DescIdx |-> desc'[a][h]]
  BY <1>2 DEF DataInv
<1>5. ASSUME Reading'
      PROVE  ReadAtWork(ChainOf(Q, req.head), data, disk, request, buffer, moved)'
  <2> DEFINE l == Len(buffer)
             s == request.sector_num
             B(i) == IF i \in moved + 1 .. moved + n THEN disk[s + i - 1] ELSE buffer[i]
  <2>1. ReadAtWork(c, data, disk, request, buffer, moved)
    BY <1>2, <1>5 DEF DataInv, Reading, Live
  <2> HIDE DEF c
  <2>2. /\ l \in Nat /\ moved \in 0 .. l /\ moved + n \in 0 .. l /\ n \in Nat
        /\ buffer = [i \in 1 .. l |-> buffer[i]]
        /\ \A i \in 1 .. moved : buffer[i] = disk[s + i - 1]
    BY <2>1 DEF ReadAtWork
  <2>3. disk' = disk /\ buffer' = [i \in DOMAIN buffer |-> B(i)]
    BY <1>1, <2>1 DEF Backend!Transfer, ReadAtWork
  <2>4. DOMAIN buffer = 1 .. l
    BY <2>2
  <2> HIDE DEF l, B
  <2>5. buffer' = [i \in 1 .. l |-> B(i)]
    BY <2>3, <2>4
  <2>6. /\ Len(buffer') = l /\ buffer' = [i \in 1 .. l |-> buffer'[i]]
        /\ \A i \in 1 .. l : buffer'[i] = B(i)
    BY <2>2, <2>5
  <2>7. \A i \in 1 .. moved + n : buffer'[i] = disk[s + i - 1]
    <3>1. SUFFICES ASSUME NEW i \in 1 .. moved + n PROVE buffer'[i] = disk[s + i - 1]
      OBVIOUS
    <3>2. i \in 1 .. l /\ (i \in 1 .. moved \/ i \in moved + 1 .. moved + n)
      BY <2>2
    <3>3. B(i) = disk[s + i - 1]
      BY <2>2, <3>2 DEF B
    <3>4. QED
      BY <2>6, <3>2, <3>3
  <2>8. ReadAtWork(c, data', disk', request', buffer', moved')
    BY <1>2, <2>1, <2>2, <2>3, <2>6, <2>7 DEF ReadAtWork, l
  <2>9. c = ChainOf(Q, req.head)'
    BY <1>2 DEF c, ChainOf
  <2>10. QED
    BY <2>8, <2>9
<1>6. QED
  BY <1>3, <1>4, <1>5 DEF DataInv, ChainAt, ChainFrom

LEMMA EndReads ==
    ASSUME IInv, DataInv, SyncEnd \/ Callback PROVE DataInv'
<1> USE DEF driver, history
<1>1. ~busy' /\ UNCHANGED <<desc, owned>>
  BY DEF SyncEnd, Callback, ReqEnd, Backend!Complete, Backend!Fail
<1>2. queue'[Q].desc_addr = queue[Q].desc_addr
  BY AdvanceQueue DEF SyncEnd, Callback, IInv
<1>3. \A h \in owned' : \E u \in Template : ChainOf(Q, h)' = ChainAt(h, u)
  BY <1>1, <1>2 DEF DataInv, ChainOf
<1>4. ~Reading'
  BY <1>1 DEF Reading
<1>5. QED
  BY <1>1, <1>3, <1>4 DEF DataInv, ChainAt, ChainFrom

LEMMA StepDataInv ==
    ASSUME IInv, DataInv, [Next]_vars PROVE DataInv'
<1>1. CASE Driver
  BY <1>1, SetUpReads, PostReads, HandlerReads DEF Driver
<1>2. CASE Device
  BY <1>2, NotifyReads, SubmitReads, EndReads, AsyncReturnReads, TransferReads DEF Device
<1>3. CASE UNCHANGED vars
  BY <1>3, StutterReads
<1>4. QED
  BY <1>1, <1>2, <1>3 DEF Next

\* What ReadsDeliver says of a step.
Delivers ==
    ~stale /\ Live /\ req.type = TypeIn /\ busy /\ ~busy' /\ moved = Len(buffer)
      => LET c == ChainOf(Q, req.head)
             w == WritableCells(c)
         IN  /\ Len(w) = Len(buffer) + 1
             /\ \A i \in 1 .. Len(buffer) : data'[w[i]] = disk[SectorOf(c) + i - 1]
             /\ buffer # << >> => data'[w[Len(w)]] = StatusOK
             /\ \A x \in Cell \ Range(w) : data'[x] = data[x]

\* virtio_block_req_end copies the buffer and the status to the chain.
LEMMA EndDelivers ==
    ASSUME IInv, DataInv, SyncEnd \/ Callback PROVE Delivers
<1>1. SUFFICES ASSUME ~stale, Live, req.type = TypeIn, busy, moved = Len(buffer)
               PROVE  LET c == ChainOf(Q, req.head)
                          w == WritableCells(c)
                      IN  /\ Len(w) = Len(buffer) + 1
                          /\ \A i \in 1 .. Len(buffer) : data'[w[i]] = disk[SectorOf(c) + i - 1]
                          /\ buffer # << >> => data'[w[Len(w)]] = StatusOK
                          /\ \A x \in Cell \ Range(w) : data'[x] = data[x]
  BY DEF Delivers
<1> DEFINE h == req.head
           c == ChainOf(Q, h)
           w == WritableCells(c)
           n == Len(buffer)
<1>2. PICK s : /\ data' = CopiedTo(data, c, Append(buffer, s))
               /\ buffer # << >> => s = StatusOK
  <2>1. CASE (SyncEnd /\ Backend!Complete /\ ReqEnd(TRUE)) \/ Callback
    BY <1>1, <2>1 DEF Callback, ReqEnd, CopyToQueue
  <2>2. CASE SyncEnd /\ Backend!Fail /\ ReqEnd(FALSE)
    <3>1. data' = CopiedTo(data, c, Append(buffer, StatusErr)) /\ moved = 0
      BY <1>1, <2>2 DEF ReqEnd, CopyToQueue, Backend!Fail
    <3>2. buffer = << >>
      <4>1. Len(buffer) = 0 /\ buffer = [i \in 1 .. Len(buffer) |-> buffer[i]]
        BY <1>1, <3>1 DEF DataInv, Reading, ReadAtWork
      <4>2. QED
        BY <4>1
    <3>3. QED
      BY <3>1, <3>2
  <2>3. QED
    BY <2>1, <2>2 DEF SyncEnd
<1>3. ReadAtWork(c, data, disk, request, buffer, moved)
  BY <1>1 DEF DataInv, Reading
<1>4. h \in owned /\ h \in DescIdx
  BY <1>1, HeadIsOwned
<1>5. PICK t \in Template : c = ChainAt(h, t)
  BY <1>4 DEF DataInv
<1>6. SectorOf(c) = request.sector_num
  BY <1>3, SectorIs DEF ReadAtWork
<1> HIDE DEF h, c
<1>7. w \in Seq(ZoneOf(MaxCells, h)) /\ Increasing(w)
  BY <1>4, <1>5, ChainCells
<1>8. ZoneOf(MaxCells, h) \subseteq Cell
  BY <1>4, RequestAssumption, ZonesOf
<1>9. /\ n \in Nat /\ Len(w) = n + 1
      /\ \A i \in 1 .. n : buffer[i] = disk[SectorOf(c) + i - 1]
  BY <1>1, <1>3, <1>6 DEF ReadAtWork
<1> DEFINE b == Append(buffer, s)
<1>10. Len(b) = n + 1 /\ b[n + 1] = s /\ \A i \in 1 .. n : b[i] = buffer[i]
  <2> DEFINE S == {buffer[i] : i \in 1 .. n} \cup {s}
  <2>1. buffer = [i \in 1 .. n |-> buffer[i]]
    BY <1>3 DEF ReadAtWork
  <2> HIDE DEF n
  <2>2. \A i \in 1 .. n : buffer[i] \in S
    OBVIOUS
  <2> HIDE DEF S
  <2>3. buffer \in [1 .. n -> S]
    BY <2>1, <2>2
  <2>4. buffer \in Seq(S) /\ Len(buffer) = n
    BY <1>9, <2>3, FcnIsSeq
  <2>5. s \in S
    BY DEF S
  <2>6. QED
    BY <2>4, <2>5, AppendProperties
<1>11. \A i \in 1 .. Len(w) : w[i] \in Cell
  <2> HIDE DEF w
  <2>1. \A i \in 1 .. Len(w) : w[i] \in ZoneOf(MaxCells, h)
    BY <1>7
  <2>2. QED
    BY <1>8, <2>1
<1>12. data' = CopiedTo(data, c, b)
  BY <1>2
<1> HIDE DEF b
<1>13. /\ \A i \in 1 .. Len(b) : data'[w[i]] = b[i]
       /\ \A x \in Cell : (\A i \in 1 .. Len(w) : x # w[i]) => data'[x] = data[x]
  <2> DEFINE m == CopiedTo(data, c, b)
  <2>1. w = WritableCells(c) /\ m = CopiedTo(data, c, b)
    OBVIOUS
  <2>2. Len(b) \in Nat /\ Len(w) \in Nat /\ Len(b) <= Len(w)
    BY <1>9, <1>10
  <2> HIDE DEF m, w
  <2>3. /\ \A i \in 1 .. Len(b) : m[w[i]] = b[i]
        /\ \A x \in Cell : (\A i \in 1 .. Len(w) : x # w[i]) => m[x] = data[x]
    BY <1>7, <1>11, <2>1, <2>2, CopyIs
  <2>4. QED
    BY <1>12, <2>1, <2>3
<1>14. \A x \in Cell \ Range(w) : data'[x] = data[x]
  <2> HIDE DEF w
  <2>1. DOMAIN w = 1 .. Len(w)
    BY <1>7, LenProperties
  <2>2. QED
    BY <1>13, <2>1 DEF Range
<1>15. buffer # << >> => data'[w[Len(w)]] = StatusOK
  <2> HIDE DEF w, n
  <2>1. Len(w) \in 1 .. Len(b) /\ Len(w) = n + 1
    BY <1>9, <1>10
  <2>2. QED
    BY <1>2, <1>10, <1>13, <2>1
<1>16. \A i \in 1 .. n : data'[w[i]] = disk[SectorOf(c) + i - 1]
  <2> HIDE DEF w, n
  <2>1. \A i \in 1 .. n : i \in 1 .. Len(b)
    BY <1>9, <1>10
  <2>2. QED
    BY <1>9, <1>10, <1>13, <2>1
<1>17. QED
  BY <1>9, <1>14, <1>15, <1>16 DEF h, c

LEMMA StepDelivers ==
    ASSUME IInv, DataInv, [Next]_vars PROVE [Delivers]_vars
<1>1. CASE SyncEnd \/ Callback
  BY <1>1, EndDelivers
<1>2. CASE LateCallback
  BY <1>2 DEF LateCallback, Delivers
<1>3. CASE Submit
  BY <1>3 DEF Submit, Delivers
<1>4. CASE Transfer
  BY <1>4 DEF Transfer, Backend!Transfer, Delivers
<1>5. CASE AsyncReturn \/ NotifyReturns \/ Drop \/ Stop
  BY <1>5 DEF AsyncReturn, NotifyReturns, Drop, Stop, backend, Delivers
<1>6. CASE Driver
  <2>1. busy' = busy
    BY <1>6 DEF Driver, ClearRings, SetUp, DriverOK, Reset, Post, Notify, QueueNotify,
                ReadCauses, Acknowledge, AcknowledgePCI, Scan, backend
  <2>2. QED
    BY <2>1 DEF Delivers
<1>7. QED
  BY <1>1, <1>2, <1>3, <1>4, <1>5, <1>6 DEF Next, Device

LEMMA InitDataInv ==
    ASSUME Init PROVE DataInv
<1>1. desc = [a \in Addr |-> [h \in DescIdx |-> << >>]] /\ owned = {} /\ ~Reading
  BY DEF Init, VirtioInit, Backend!Init, Reading, Live
<1>2. desc = [a \in Addr |-> desc[a]] /\ \A a \in Addr : desc[a] = [h \in DescIdx |-> desc[a][h]]
  BY <1>1
<1>3. QED
  BY <1>1, <1>2 DEF DataInv

\* virtio.c:1016-1112: a read that ends well leaves in its chain, however that is
\* divided in descriptors, the sectors of the disk and the status, and changes
\* no other byte of the guest: the driver cannot have used the chain for another
\* request in between, and req is still the one of this chain.
THEOREM ReadsAreDelivered == Spec => ReadsDeliver
<1>1. Init => IInv /\ DataInv
  BY InitIInv, InitDataInv
<1>2. IInv /\ DataInv /\ [Next]_vars => IInv' /\ DataInv'
  BY StepIInv, StepDataInv
<1>3. IInv /\ DataInv /\ [Next]_vars => [Delivers]_vars
  BY StepDelivers
<1>4. [][Delivers]_vars => ReadsDeliver
  BY PTL DEF ReadsDeliver, Delivers
<1>5. QED
  BY <1>1, <1>2, <1>3, <1>4, PTL DEF Spec
=============================================================================
