--------------------------- MODULE BlockNetProofs ---------------------------
(***************************************************************************)
(* Theorems about BlockNet, for every image, cache size and client.        *)
(***************************************************************************)
EXTENDS BlockNet, SequenceTheorems, TLAPS

LEMMA DivMod ==
    ASSUME NEW a \in Nat, NEW b \in Nat \ {0}
    PROVE  /\ a \div b \in Nat /\ a % b \in 0 .. b - 1
           /\ a = b * (a \div b) + (a % b)
  OBVIOUS

\* A sector is in the block that its number divided by the size gives.
LEMMA DivBound ==
    ASSUME NEW a \in Nat, NEW b \in Nat \ {0}, NEW n \in Nat, a < b * n
    PROVE  /\ a \div b \in 0 .. n - 1
           /\ a % b \in 0 .. b - 1
           /\ a = b * (a \div b) + (a % b)
  OBVIOUS

LEMMA MulAdd ==
    ASSUME NEW b \in Nat \ {0}, NEW n \in Nat, NEW q \in 0 .. n - 1, NEW k \in 0 .. b - 1
    PROVE  q * b + k \in 0 .. b * n - 1
  OBVIOUS

\* The element at position i is taken out of the sequence.
LEMMA RemoveAtProperties ==
    ASSUME NEW S, NEW s \in Seq(S), NEW i \in 1 .. Len(s)
    PROVE  /\ RemoveAt(s, i) \in Seq(S)
           /\ Len(RemoveAt(s, i)) = Len(s) - 1
           /\ \A j \in 1 .. Len(s) - 1 :
                RemoveAt(s, i)[j] = IF j < i THEN s[j] ELSE s[j + 1]
<1> DEFINE f == SubSeq(s, 1, i - 1)
           b == SubSeq(s, i + 1, Len(s))
<1>1. /\ f \in Seq(S) /\ Len(f) = i - 1
      /\ \A j \in 1 .. i - 1 : f[j] = s[j]
  BY SubSeqProperties
<1>2. /\ b \in Seq(S) /\ Len(b) = Len(s) - i
      /\ \A j \in 1 .. Len(s) - i : b[j] = s[i + j]
  BY SubSeqProperties
<1>3. RemoveAt(s, i) = f \o b
  BY DEF RemoveAt
<1> HIDE DEF f, b
<1>4. /\ f \o b \in Seq(S) /\ Len(f \o b) = Len(s) - 1
      /\ \A j \in 1 .. Len(s) - 1 :
           (f \o b)[j] = IF j < i THEN f[j] ELSE b[j - (i - 1)]
  <2>1. Len(s) \in Nat /\ i \in Nat
    OBVIOUS
  <2>2. /\ f \o b \in Seq(S) /\ Len(f \o b) = Len(f) + Len(b)
        /\ \A j \in 1 .. Len(f) + Len(b) :
             (f \o b)[j] = IF j <= Len(f) THEN f[j] ELSE b[j - Len(f)]
    BY <1>1, <1>2, ConcatProperties
  <2>3. QED
    BY <1>1, <1>2, <2>1, <2>2
<1>5. \A j \in 1 .. Len(s) - 1 :
        (f \o b)[j] = IF j < i THEN s[j] ELSE s[j + 1]
  BY <1>1, <1>2, <1>4
<1>6. QED
  BY <1>3, <1>4, <1>5

\* An element is put in front of the sequence.
LEMMA ConsProperties ==
    ASSUME NEW S, NEW s \in Seq(S), NEW e \in S
    PROVE  /\ <<e>> \o s \in Seq(S)
           /\ Len(<<e>> \o s) = Len(s) + 1
           /\ \A j \in 1 .. Len(s) + 1 :
                (<<e>> \o s)[j] = IF j = 1 THEN e ELSE s[j - 1]
<1>1. <<e>> \in Seq(S) /\ Len(<<e>>) = 1 /\ <<e>>[1] = e
  OBVIOUS
<1>2. QED
  BY <1>1, ConcatProperties

\* While a request is being served its next sector is one of the device, so
\* the cluster and the block it is in exist.
LEMMA PosInDevice ==
    ASSUME DataTypeOK, InRw
    PROVE  /\ Pos \in Sector /\ Left \in Nat \ {0}
           /\ sector_index \in Nat /\ Len(request.data) \in Nat
           /\ ClusterNum \in Cluster /\ BlockNum \in Block
           /\ Pos % SectorsPerCluster \in 0 .. SectorsPerCluster - 1
           /\ Pos % BlockSize \in 0 .. BlockSize - 1
<1> USE SizesAssumption
<1>1. request \in Request
  <2>1. Len(request.data) > 0
    BY DEF InRw, Left, DataTypeOK, NoRequest
  <2>2. QED
    BY <2>1 DEF DataTypeOK, NoRequest
<1>2. /\ Pos \in Nat /\ Pos < BlockSize * NbBlocks /\ Left \in Nat \ {0}
      /\ sector_index \in Nat /\ Len(request.data) \in Nat
  BY <1>1, RequestAssumption, SMTT(40) DEF Pos, Left, InRw, DataTypeOK, NbSectors
<1>3. BlockNum \in Block /\ Pos % BlockSize \in 0 .. BlockSize - 1
  BY <1>2, DivBound DEF BlockNum, Block
<1>4. Pos < SectorsPerCluster * NClusters /\ NClusters \in Nat
  <2> DEFINE a == NbSectors + SectorsPerCluster - 1
  <2>1. NbSectors \in Nat /\ a \in Nat
    BY DEF NbSectors
  <2>2. /\ a \div SectorsPerCluster \in Nat
        /\ a % SectorsPerCluster \in 0 .. SectorsPerCluster - 1
        /\ a = SectorsPerCluster * (a \div SectorsPerCluster)
                 + (a % SectorsPerCluster)
    <3> HIDE DEF a
    <3> QED
      BY <2>1, DivMod
  <2>3. QED
    BY <1>2, <2>1, <2>2, SMTT(40) DEF NClusters, NbSectors
<1>5. /\ ClusterNum \in Cluster
      /\ Pos % SectorsPerCluster \in 0 .. SectorsPerCluster - 1
  BY <1>2, <1>4, DivBound DEF ClusterNum, Cluster
<1>6. QED
  BY <1>2, <1>3, <1>5 DEF Sector, NbSectors
-----------------------------------------------------------------------------
(* The inductive invariant *)

\* The list holds each live cell once, and no other.
ListInv ==
    /\ \A i, j \in Positions : cached_blocks[i] = cached_blocks[j] => i = j
    /\ \A p \in Addr :
         heap[p] # NULL <=> \E i \in Positions : cached_blocks[i] = p

\* No block is cached twice.
NumsInv ==
    \A p, q \in Addr :
        /\ heap[p] # NULL /\ heap[q] # NULL
        /\ heap[p].block_num = heap[q].block_num
        => p = q

\* A group that was sent asks for a block, and the one being built or delivered
\* has not been sent, or not any more.
TabsInv ==
    /\ \A t \in inflight : \E i \in 1 .. Len(t) : t[i] # NULL
    /\ tab_block \notin inflight

\* A running request is not complete, and no block it could be waiting for is
\* being loaded; nothing has been requested before the end of bf_init_onload.
CurrentLoading ==
    \E p \in Addr : /\ heap[p] # NULL
                    /\ heap[p].block_num = cur_block_num
                    /\ heap[p].state = "loading"
ControlInv ==
    /\ rw # "no" => busy /\ ~CurrentLoading
    /\ host = "init" => rw = "no" /\ ~busy /\ cur_block_num = -1

IInv ==
    /\ TypeOK /\ ListInv /\ NumsInv /\ TabsInv /\ ControlInv
    /\ DownloadsAreLive /\ WaitsForCurrentBlock

THEOREM InitIInv == Init => IInv
<1> SUFFICES ASSUME Init PROVE IInv
  OBVIOUS
<1> USE SizesAssumption
<1>1. TypeOK
  <2>1. DataTypeOK
    BY EmptySeq DEF Init, DataTypeOK, NoRequest
  <2>2. CacheTypeOK
    BY PrefetchAssumption, EmptySeq DEF Init, CacheTypeOK
  <2>3. QED
    BY <2>1, <2>2 DEF Init, TypeOK
<1>2. ListInv /\ NumsInv /\ TabsInv
  BY DEF Init, ListInv, NumsInv, TabsInv, Positions
<1>3. ControlInv /\ DownloadsAreLive /\ WaitsForCurrentBlock
  BY DEF Init, ControlInv, CurrentLoading, DownloadsAreLive, Tabs,
         WaitsForCurrentBlock
<1>4. QED
  BY <1>1, <1>2, <1>3 DEF IInv
-----------------------------------------------------------------------------
(* The operations of the cache *)

\* bf_find_block only reorders the list.
LEMMA FindBlockKeeps ==
    ASSUME CacheTypeOK, ListInv, NEW i, NEW n, FindBlock(i, n), heap' = heap
    PROVE  cached_blocks' \in Seq(Addr) /\ ListInv'
<1> DEFINE s == cached_blocks
           r == RemoveAt(s, i)
           x == s[i]
<1>1. s \in Seq(Addr) /\ i \in 1 .. Len(s) /\ x \in Addr /\ Len(s) \in Nat
  BY DEF CacheTypeOK, FindBlock, Positions
<1>2. /\ r \in Seq(Addr) /\ Len(r) = Len(s) - 1
      /\ \A j \in 1 .. Len(s) - 1 : r[j] = IF j < i THEN s[j] ELSE s[j + 1]
  BY <1>1, RemoveAtProperties
<1>3. cached_blocks' = <<x>> \o r
  BY DEF FindBlock
<1> HIDE DEF r, x
<1>4. /\ cached_blocks' \in Seq(Addr) /\ Len(cached_blocks') = Len(s)
      /\ \A j \in 1 .. Len(s) :
           cached_blocks'[j] = IF j = 1 THEN x ELSE r[j - 1]
  BY <1>1, <1>2, <1>3, ConsProperties
<1>5. \A j \in 1 .. Len(s) :
        cached_blocks'[j] =
          IF j = 1 THEN s[i] ELSE IF j <= i THEN s[j - 1] ELSE s[j]
  BY <1>1, <1>2, <1>4 DEF x
<1>6. \A j, k \in 1 .. Len(s) :
        cached_blocks'[j] = cached_blocks'[k] => j = k
  BY <1>1, <1>5 DEF ListInv, Positions
<1>7. ASSUME NEW p \in Addr
      PROVE  (\E j \in 1 .. Len(s) : s[j] = p)
               <=> (\E j \in 1 .. Len(s) : cached_blocks'[j] = p)
  <2>1. ASSUME NEW j \in 1 .. Len(s), s[j] = p
        PROVE  \E k \in 1 .. Len(s) : cached_blocks'[k] = p
    <3>1. CASE j = i
      BY <1>1, <1>5, <2>1, <3>1
    <3>2. CASE j < i
      <4>1. j + 1 \in 1 .. Len(s) /\ cached_blocks'[j + 1] = s[j]
        BY <1>1, <1>5, <3>2
      <4>2. QED
        BY <2>1, <4>1
    <3>3. CASE j > i
      BY <1>1, <1>5, <2>1, <3>3
    <3>4. QED
      BY <1>1, <3>1, <3>2, <3>3
  <2>2. ASSUME NEW j \in 1 .. Len(s), cached_blocks'[j] = p
        PROVE  \E k \in 1 .. Len(s) : s[k] = p
    BY <1>1, <1>5, <2>2
  <2>3. QED
    BY <2>1, <2>2
<1>8. QED
  BY <1>4, <1>6, <1>7 DEF ListInv, Positions

\* The loop of bf_add_block takes one cell that is not loading out of the cache.
LEMMA EvictKeeps ==
    ASSUME CacheTypeOK, ListInv, Evict
    PROVE  /\ cached_blocks' \in Seq(Addr) /\ ListInv'
           /\ heap' \in [Addr -> CachedBlock \cup {NULL}]
           /\ \A p \in Addr : heap'[p] # NULL => heap'[p] = heap[p]
           /\ \A p \in Addr :
                heap[p] # NULL /\ heap[p].state = "loading" => heap'[p] = heap[p]
<1> DEFINE s == cached_blocks
<1>1. PICK i \in Positions :
           /\ Evictable(i)
           /\ cached_blocks' = RemoveAt(s, i)
           /\ heap' = [heap EXCEPT ![s[i]] = NULL]
  BY DEF Evict
<1>2. s \in Seq(Addr) /\ i \in 1 .. Len(s) /\ Len(s) \in Nat /\ s[i] \in Addr
  BY <1>1 DEF CacheTypeOK, Positions
<1>3. /\ cached_blocks' \in Seq(Addr) /\ Len(cached_blocks') = Len(s) - 1
      /\ \A j \in 1 .. Len(s) - 1 :
           cached_blocks'[j] = IF j < i THEN s[j] ELSE s[j + 1]
  BY <1>1, <1>2, RemoveAtProperties
<1>4. \A p \in Addr : heap'[p] = IF p = s[i] THEN NULL ELSE heap[p]
  BY <1>1, <1>2 DEF CacheTypeOK
<1>5. heap' \in [Addr -> CachedBlock \cup {NULL}]
  BY <1>1, <1>2 DEF CacheTypeOK
<1>6. heap[s[i]].state = "loaded"
  BY <1>1 DEF Evictable, At
<1>7. \A j, k \in 1 .. Len(s) - 1 : cached_blocks'[j] = cached_blocks'[k] => j = k
  BY <1>2, <1>3 DEF ListInv, Positions
<1>8. ASSUME NEW p \in Addr
      PROVE  heap'[p] # NULL
               <=> \E j \in 1 .. Len(s) - 1 : cached_blocks'[j] = p
  <2>1. ASSUME NEW j \in 1 .. Len(s), j # i, s[j] = p
        PROVE  \E k \in 1 .. Len(s) - 1 : cached_blocks'[k] = p
    <3>1. CASE j < i
      BY <1>2, <1>3, <2>1, <3>1
    <3>2. CASE j > i
      <4>1. j - 1 \in 1 .. Len(s) - 1 /\ cached_blocks'[j - 1] = s[j]
        BY <1>2, <1>3, <3>2
      <4>2. QED
        BY <2>1, <4>1
    <3>3. QED
      BY <1>2, <2>1, <3>1, <3>2
  <2>2. ASSUME NEW j \in 1 .. Len(s) - 1, cached_blocks'[j] = p
        PROVE  \E k \in 1 .. Len(s) : k # i /\ s[k] = p
    <3>1. CASE j < i
      BY <1>2, <1>3, <2>2, <3>1
    <3>2. CASE j >= i
      <4>1. j + 1 \in 1 .. Len(s) /\ j + 1 # i /\ s[j + 1] = p
        BY <1>2, <1>3, <2>2, <3>2
      <4>2. QED
        BY <4>1
    <3>3. QED
      BY <1>2, <3>1, <3>2
  <2>3. heap'[p] # NULL <=> \E j \in 1 .. Len(s) : j # i /\ s[j] = p
    BY <1>2, <1>4 DEF ListInv, Positions
  <2>4. QED
    BY <2>1, <2>2, <2>3
<1>9. QED
  BY <1>3, <1>4, <1>5, <1>6, <1>7, <1>8 DEF ListInv, Positions

\* bf_add_block puts a free cell in front of the list.
LEMMA AddBlockKeeps ==
    ASSUME CacheTypeOK, ListInv, NEW p \in Addr, NEW n \in Block, AddBlock(p, n)
    PROVE  /\ cached_blocks' \in Seq(Addr) /\ ListInv'
           /\ heap' \in [Addr -> CachedBlock \cup {NULL}]
           /\ heap[p] = NULL /\ heap'[p] # NULL
           /\ heap'[p] = [block_num |-> n, state |-> "loading"]
           /\ \A q \in Addr \ {p} : heap'[q] = heap[q]
<1> DEFINE s == cached_blocks
<1>1. s \in Seq(Addr) /\ Len(s) \in Nat
  BY DEF CacheTypeOK
<1>2. /\ cached_blocks' \in Seq(Addr) /\ Len(cached_blocks') = Len(s) + 1
      /\ \A j \in 1 .. Len(s) + 1 :
           cached_blocks'[j] = IF j = 1 THEN p ELSE s[j - 1]
  BY <1>1, ConsProperties DEF AddBlock
<1>3. [block_num |-> n, state |-> "loading"] \in CachedBlock
  BY DEF CachedBlock
<1>4. /\ heap' \in [Addr -> CachedBlock \cup {NULL}]
      /\ heap[p] = NULL /\ heap'[p] # NULL
      /\ heap'[p] = [block_num |-> n, state |-> "loading"]
      /\ \A q \in Addr \ {p} : heap'[q] = heap[q]
  BY <1>3, NullAssumption DEF CacheTypeOK, AddBlock
<1>5. \A j \in 1 .. Len(s) : s[j] # p
  BY <1>4 DEF ListInv, Positions
<1>6. \A j, k \in 1 .. Len(s) + 1 : cached_blocks'[j] = cached_blocks'[k] => j = k
  BY <1>1, <1>2, <1>5, SMTT(40) DEF ListInv, Positions
<1>7. ASSUME NEW q \in Addr
      PROVE  heap'[q] # NULL
               <=> \E j \in 1 .. Len(s) + 1 : cached_blocks'[j] = q
  <2>1. CASE q = p
    <3>1. 1 \in 1 .. Len(s) + 1 /\ cached_blocks'[1] = p
      BY <1>1, <1>2
    <3>2. QED
      BY <1>4, <2>1, <3>1
  <2>2. CASE q # p
    <3>1. heap'[q] # NULL <=> \E j \in 1 .. Len(s) : s[j] = q
      BY <1>4, <2>2 DEF ListInv, Positions
    <3>2. ASSUME NEW j \in 1 .. Len(s), s[j] = q
          PROVE  \E k \in 1 .. Len(s) + 1 : cached_blocks'[k] = q
      <4>1. j + 1 \in 1 .. Len(s) + 1 /\ cached_blocks'[j + 1] = q
        BY <1>1, <1>2, <3>2
      <4>2. QED
        BY <4>1
    <3>3. ASSUME NEW j \in 1 .. Len(s) + 1, cached_blocks'[j] = q
          PROVE  \E k \in 1 .. Len(s) : s[k] = q
      <4>1. j # 1 /\ j - 1 \in 1 .. Len(s) /\ s[j - 1] = q
        BY <1>1, <1>2, <2>2, <3>3
      <4>2. QED
        BY <4>1
    <3>4. QED
      BY <3>1, <3>2, <3>3
  <2>3. QED
    BY <2>1, <2>2
<1>8. QED
  BY <1>2, <1>4, <1>6, <1>7 DEF ListInv, Positions
-----------------------------------------------------------------------------
(* The steps of a request *)

\* What does not move the downloads nor change a cell keeps what is said of them.
LEMMA SameHeap ==
    ASSUME NumsInv, TabsInv, DownloadsAreLive,
           heap' = heap, inflight' = inflight, tab_block' = tab_block
    PROVE  NumsInv' /\ TabsInv' /\ DownloadsAreLive'
  BY DEF NumsInv, TabsInv, DownloadsAreLive, Tabs

LEMMA SameCache ==
    ASSUME CacheTypeOK, ListInv, cache' = cache, net' = net,
           cur_block_num' = cur_block_num
    PROVE  CacheTypeOK' /\ ListInv'
  BY DEF CacheTypeOK, ListInv, Positions, cache, net

\* A copy between memory and the caller's buffer is made of sector contents.
LEMMA BufferTyped ==
    ASSUME DataTypeOK, NEW f,
           f \in [DOMAIN io_buf -> Value \cup {Garbage}]
    PROVE  f \in Seq(Value \cup {Garbage}) /\ Len(f) = Len(io_buf)
<1>1. /\ DOMAIN io_buf = 1 .. Len(io_buf) /\ Len(io_buf) \in Nat
  BY DEF DataTypeOK
<1>2. f \in Seq(Value \cup {Garbage}) /\ DOMAIN f = 1 .. Len(io_buf)
  BY <1>1, SeqDef
<1>3. QED
  BY <1>1, <1>2, LenProperties

LEMMA BlockDataTyped ==
    ASSUME NEW n \in Block, NEW k \in Nat
    PROVE  BlockData(n, k) \in Value \cup {Garbage}
<1> USE SizesAssumption
<1>1. CASE k < BlockSize
  <2>1. n * BlockSize + k \in Sector
    BY <1>1, MulAdd DEF Block, Sector, NbSectors
  <2>2. QED
    BY <1>1, <2>1, DataAssumption DEF BlockData
<1>2. CASE ~(k < BlockSize)
  BY <1>2 DEF BlockData
<1>3. QED
  BY <1>1, <1>2

LEMMA RwClusterKeeps == ASSUME IInv, RwCluster PROVE IInv'
<1> USE SizesAssumption
<1> DEFINE off == Pos % SectorsPerCluster
           n == SmallerOf(Left, SectorsPerCluster - off)
           V == Value \cup {Garbage}
<1>1. DataTypeOK /\ CacheTypeOK /\ InRw /\ ~NoCluster
  BY DEF IInv, TypeOK, RwCluster
<1>2. /\ Pos \in Sector /\ Left \in Nat \ {0}
      /\ ClusterNum \in Cluster /\ off \in 0 .. SectorsPerCluster - 1
      /\ sector_index \in Nat /\ Len(request.data) \in Nat
  BY <1>1, PosInDevice
<1>3. n \in 1 .. Left /\ n \in 1 .. SectorsPerCluster - off
  BY <1>2 DEF SmallerOf
<1>4. clusters[ClusterNum] \in [0 .. SectorsPerCluster - 1 -> V]
  BY <1>1, <1>2 DEF DataTypeOK, ClusterData, NoCluster
<1>5. /\ sector_index' = sector_index + n /\ request' = request
      /\ UNCHANGED <<cache, cur_block_num, busy, rw, host, net>>
  BY DEF RwCluster
<1> HIDE DEF n, off
<1>6. DataTypeOK'
  <2>1. sector_index' \in 0 .. Len(request.data)
    BY <1>2, <1>3, <1>5 DEF Left
  <2>2. CASE request.is_write
    <3>1. /\ clusters' = [clusters EXCEPT ![ClusterNum] = Written(n)]
          /\ io_buf' = io_buf
      BY <2>2 DEF RwCluster, n, off
    <3>2. Written(n) \in [0 .. SectorsPerCluster - 1 -> V]
      <4>1. ASSUME NEW k \in 0 .. SectorsPerCluster - 1, k \in off .. off + n - 1
            PROVE  io_buf[sector_index + 1 + k - off] \in V
        <5>1. sector_index + 1 + k - off \in 1 .. Len(io_buf)
          BY <1>1, <1>2, <1>3, <4>1, SMTT(40) DEF Left, DataTypeOK
        <5>2. QED
          BY <1>1, <5>1, ElementOfSeq DEF DataTypeOK
      <4>2. QED
        BY <1>4, <4>1 DEF Written, off
    <3>3. QED
      BY <1>1, <1>2, <1>5, <2>1, <3>1, <3>2 DEF DataTypeOK, ClusterData
  <2>3. CASE ~request.is_write
    <3>1. clusters' = clusters /\ ReadInto(n, ClusterSectors)
      BY <2>3 DEF RwCluster, n, off
    <3>2. ASSUME NEW i \in DOMAIN io_buf
          PROVE  ClusterSectors[i] \in V
      <4>1. request.sector_num + i - 1 \in Nat
        <5>1. request.sector_num \in Nat
          BY <1>1, RequestAssumption DEF DataTypeOK, NoRequest
        <5>2. i \in Nat \ {0}
          BY <1>1 DEF DataTypeOK
        <5>3. QED
          BY <5>1, <5>2
      <4>2. QED
        BY <1>4, <4>1, DivMod DEF ClusterSectors
    <3>3. io_buf' \in [DOMAIN io_buf -> V]
      <4>1. \A i \in DOMAIN io_buf : io_buf[i] \in V
        BY <1>1, ElementOfSeq DEF DataTypeOK
      <4>2. QED
        BY <3>1, <3>2, <4>1 DEF ReadInto
    <3>4. io_buf' \in Seq(V) /\ Len(io_buf') = Len(io_buf)
      BY <1>1, <3>3, BufferTyped
    <3>5. QED
      BY <1>1, <1>5, <2>1, <3>1, <3>4 DEF DataTypeOK
  <2>4. QED
    BY <2>2, <2>3
<1>7. CacheTypeOK' /\ ListInv'
  BY <1>1, <1>5, SameCache DEF IInv
<1>8. NumsInv' /\ TabsInv' /\ DownloadsAreLive'
  BY <1>5, SameHeap DEF IInv, cache, net
<1>9. TypeOK' /\ ControlInv' /\ WaitsForCurrentBlock'
  BY <1>5, <1>6, <1>7
     DEF IInv, TypeOK, ControlInv, CurrentLoading, WaitsForCurrentBlock, cache
<1>10. QED
  BY <1>7, <1>8, <1>9 DEF IInv

\* When bf_find_block finds a block, the current block may become that one.
LEMMA FoundKeeps ==
    ASSUME IInv, InRw, NEW i, FindBlock(i, BlockNum), heap' = heap, net' = net,
           cur_block_num' \in {BlockNum, -1}
    PROVE  /\ CacheTypeOK' /\ ListInv' /\ NumsInv' /\ TabsInv' /\ DownloadsAreLive'
<1>1. DataTypeOK /\ CacheTypeOK /\ ListInv
  BY DEF IInv, TypeOK
<1>2. BlockNum \in Block
  BY <1>1, PosInDevice
<1>3. cached_blocks' \in Seq(Addr) /\ ListInv'
  BY <1>1, FindBlockKeeps
<1>4. NumsInv' /\ TabsInv' /\ DownloadsAreLive'
  BY SameHeap DEF IInv, net
<1>5. QED
  BY <1>1, <1>2, <1>3, <1>4 DEF CacheTypeOK, net

\* The block found at position i, and the only live cell with its number.
LEMMA FoundIsOnly ==
    ASSUME IInv, NEW i, NEW n, FindBlock(i, n)
    PROVE  /\ cached_blocks[i] \in Addr /\ heap[cached_blocks[i]] # NULL
           /\ At(i) = heap[cached_blocks[i]] /\ At(i).block_num = n
           /\ \A p \in Addr : heap[p] # NULL /\ heap[p].block_num = n
                                => p = cached_blocks[i]
<1>1. i \in Positions /\ cached_blocks[i] \in Addr
  BY DEF FindBlock, Positions, IInv, TypeOK, CacheTypeOK
<1>2. QED
  BY <1>1 DEF FindBlock, At, IInv, ListInv, NumsInv

LEMMA RwWaitKeeps == ASSUME IInv, RwWait PROVE IInv'
<1>1. PICK i \in Positions : At(i).state = "loading" /\ FindBlock(i, BlockNum)
  BY DEF RwWait
<1>2. /\ InRw /\ heap' = heap /\ net' = net /\ cur_block_num' = BlockNum
      /\ rw' = "no" /\ UNCHANGED <<clusters, call, host>>
  BY DEF RwWait
<1>3. CacheTypeOK' /\ ListInv' /\ NumsInv' /\ TabsInv' /\ DownloadsAreLive'
  BY <1>1, <1>2, FoundKeeps
<1>4. TypeOK'
  BY <1>2, <1>3 DEF IInv, TypeOK, DataTypeOK, call
<1>5. CurrentLoading'
  BY <1>1, <1>2, FoundIsOnly DEF CurrentLoading
<1>6. busy /\ busy' /\ host' # "init"
  BY <1>2 DEF IInv, ControlInv, InRw, call
<1>7. ControlInv' /\ WaitsForCurrentBlock'
  BY <1>2, <1>5, <1>6 DEF ControlInv, WaitsForCurrentBlock, CurrentLoading
<1>8. QED
  BY <1>3, <1>4, <1>7 DEF IInv

\* Nothing the request could wait for is being loaded if its block is loaded.
LEMMA LoadedIsNotAwaited ==
    ASSUME IInv, InRw, NEW i, At(i).state = "loaded", FindBlock(i, BlockNum),
           heap' = heap, cur_block_num' \in {BlockNum, -1},
           UNCHANGED <<rw, host, busy>>
    PROVE  ControlInv' /\ WaitsForCurrentBlock'
<1>1. ~CurrentLoading'
  <2>1. CASE cur_block_num' = BlockNum
    BY <2>1, FoundIsOnly DEF CurrentLoading
  <2>2. CASE cur_block_num' = -1
    BY <2>2, SizesAssumption
       DEF CurrentLoading, IInv, TypeOK, CacheTypeOK, CachedBlock, Block
  <2>3. QED
    BY <2>1, <2>2
<1>2. rw # "no" /\ busy /\ host # "init"
  BY DEF IInv, ControlInv, InRw
<1>3. QED
  BY <1>1, <1>2 DEF ControlInv, WaitsForCurrentBlock

LEMMA RwAllocClusterKeeps == ASSUME IInv, RwAllocCluster PROVE IInv'
<1> USE SizesAssumption
<1> DEFINE m == ClusterNum * SectorsPerCluster
           first == m % BlockSize
           V == Value \cup {Garbage}
           new == [k \in 0 .. SectorsPerCluster - 1 |-> BlockData(BlockNum, first + k)]
<1>1. PICK i \in Positions : At(i).state = "loaded" /\ FindBlock(i, BlockNum)
  BY DEF RwAllocCluster
<1>2. /\ InRw /\ heap' = heap /\ net' = net /\ cur_block_num' = BlockNum
      /\ clusters' = [clusters EXCEPT ![ClusterNum] = new]
      /\ UNCHANGED <<call, rw, host>>
  BY DEF RwAllocCluster
<1>3. CacheTypeOK' /\ ListInv' /\ NumsInv' /\ TabsInv' /\ DownloadsAreLive'
  BY <1>1, <1>2, FoundKeeps
<1>4. DataTypeOK /\ ClusterNum \in Cluster /\ BlockNum \in Block
  BY <1>2, PosInDevice DEF IInv, TypeOK
<1>5. new \in [0 .. SectorsPerCluster - 1 -> V]
  <2>1. m \in Nat
    BY <1>4 DEF Cluster
  <2> HIDE DEF m
  <2>2. first \in Nat
    BY <2>1, DivMod
  <2> HIDE DEF first
  <2>3. ASSUME NEW k \in 0 .. SectorsPerCluster - 1
        PROVE  BlockData(BlockNum, first + k) \in V
    BY <1>4, <2>2, BlockDataTyped
  <2>4. QED
    BY <2>3
<1> HIDE DEF new
<1>6. TypeOK'
  BY <1>2, <1>3, <1>4, <1>5 DEF IInv, TypeOK, DataTypeOK, ClusterData, call
<1>7. ControlInv' /\ WaitsForCurrentBlock'
  BY <1>1, <1>2, LoadedIsNotAwaited DEF call
<1>8. QED
  BY <1>3, <1>6, <1>7 DEF IInv

LEMMA RwReadKeeps == ASSUME IInv, RwRead PROVE IInv'
<1> USE SizesAssumption
<1> DEFINE n == SmallerOf(Left, BlockSize - (Pos % BlockSize))
           V == Value \cup {Garbage}
           cached == [i \in DOMAIN io_buf |->
                        BlockData(BlockNum, (request.sector_num + i - 1) % BlockSize)]
<1>1. PICK i \in Positions : At(i).state = "loaded" /\ FindBlock(i, BlockNum)
  BY DEF RwRead
<1>2. /\ InRw /\ heap' = heap /\ net' = net /\ cur_block_num' = -1
      /\ UNCHANGED <<clusters, request, busy, rw, host>>
      /\ sector_index' = sector_index + n /\ ReadInto(n, cached)
  BY DEF RwRead
<1>3. CacheTypeOK' /\ ListInv' /\ NumsInv' /\ TabsInv' /\ DownloadsAreLive'
  BY <1>1, <1>2, FoundKeeps
<1>4. /\ DataTypeOK /\ BlockNum \in Block /\ Left \in Nat \ {0}
      /\ Pos % BlockSize \in 0 .. BlockSize - 1
      /\ sector_index \in Nat /\ Len(request.data) \in Nat
  BY <1>2, PosInDevice DEF IInv, TypeOK
<1>5. n \in 1 .. Left
  BY <1>4 DEF SmallerOf
<1> HIDE DEF n
<1>6. sector_index' \in 0 .. Len(request.data)
  BY <1>2, <1>4, <1>5 DEF Left
<1>7. io_buf' \in [DOMAIN io_buf -> V]
  <2>1. ASSUME NEW j \in DOMAIN io_buf
        PROVE  cached[j] \in V
    <3>1. request.sector_num \in Nat /\ j \in Nat \ {0}
      BY <1>4, RequestAssumption DEF DataTypeOK, NoRequest
    <3>2. request.sector_num + j - 1 \in Nat
      BY <3>1
    <3>3. QED
      BY <1>4, <3>2, DivMod, BlockDataTyped
  <2>2. \A j \in DOMAIN io_buf : io_buf[j] \in V
    BY <1>4, ElementOfSeq DEF DataTypeOK
  <2>3. QED
    BY <1>2, <2>1, <2>2 DEF ReadInto
<1>8. io_buf' \in Seq(V) /\ Len(io_buf') = Len(io_buf)
  BY <1>4, <1>7, BufferTyped
<1>9. TypeOK'
  BY <1>2, <1>3, <1>4, <1>6, <1>8 DEF IInv, TypeOK, DataTypeOK
<1>10. ControlInv' /\ WaitsForCurrentBlock'
  BY <1>1, <1>2, LoadedIsNotAwaited
<1>11. QED
  BY <1>3, <1>9, <1>10 DEF IInv

\* A pending download has its own cells: a cell that was free is in none.
LEMMA FreshPointer ==
    ASSUME IInv, NEW p \in Addr, heap[p] = NULL
    PROVE  \A t \in Tabs : \A i \in 1 .. Len(t) : t[i] # p
<1>1. p # NULL
  BY NullAssumption
<1>2. QED
  BY <1>1 DEF IInv, DownloadsAreLive

\* A block just added, whose cell is put at the end of tab_block or sent alone.
LEMMA AddedNums ==
    ASSUME CacheTypeOK, NumsInv, NEW p \in Addr, NEW n \in Block,
           ~IsCached(n), ListInv,
           heap'[p] = [block_num |-> n, state |-> "loading"],
           \A q \in Addr \ {p} : heap'[q] = heap[q]
    PROVE  NumsInv'
<1>1. \A q \in Addr : heap[q] # NULL => heap[q].block_num # n
  BY DEF IsCached, ListInv, Positions, At
<1>2. QED
  BY <1>1 DEF NumsInv

LEMMA RwStartLoadKeeps == ASSUME IInv, RwStartLoad PROVE IInv'
<1>1. PICK p \in Addr : AddBlock(p, BlockNum) /\ inflight' = inflight \cup {<<p>>}
  BY DEF RwStartLoad
<1>2. /\ InRw /\ ~IsCached(BlockNum) /\ cur_block_num' = BlockNum /\ rw' = "no"
      /\ UNCHANGED <<clusters, call, host, to_prefetch, tab_block>>
  BY DEF RwStartLoad
<1>3. DataTypeOK /\ CacheTypeOK /\ ListInv /\ NumsInv /\ BlockNum \in Block
  BY <1>2, PosInDevice DEF IInv, TypeOK
<1>4. /\ cached_blocks' \in Seq(Addr) /\ ListInv'
      /\ heap' \in [Addr -> CachedBlock \cup {NULL}]
      /\ heap[p] = NULL /\ heap'[p] # NULL
      /\ heap'[p] = [block_num |-> BlockNum, state |-> "loading"]
      /\ \A q \in Addr \ {p} : heap'[q] = heap[q]
  BY <1>1, <1>3, AddBlockKeeps
<1>5. NumsInv'
  BY <1>2, <1>3, <1>4, AddedNums
<1>6. /\ <<p>> \in Seq(Addr \cup {NULL}) /\ Len(<<p>>) = 1 /\ <<p>>[1] = p
      /\ p # NULL
  BY NullAssumption
<1>7. \A t \in Tabs : \A i \in 1 .. Len(t) : t[i] # p
  BY <1>4, FreshPointer
<1>8. TypeOK'
  <2>1. DataTypeOK'
    BY <1>2, <1>3 DEF DataTypeOK, call
  <2>2. CacheTypeOK'
    BY <1>1, <1>2, <1>3, <1>4, <1>6 DEF CacheTypeOK
  <2>3. QED
    BY <1>2, <2>1, <2>2 DEF IInv, TypeOK, call
<1>9. tab_block # <<p>>
  BY <1>6, <1>7 DEF Tabs
<1>10. TabsInv'
  BY <1>1, <1>2, <1>6, <1>9 DEF IInv, TabsInv
<1>11. DownloadsAreLive'
  <2>1. Tabs' = Tabs \cup {<<p>>}
    BY <1>1, <1>2 DEF Tabs
  <2> SUFFICES ASSUME NEW t \in Tabs', NEW i \in 1 .. Len(t), t[i] # NULL
               PROVE  /\ heap'[t[i]] # NULL /\ heap'[t[i]].state = "loading"
                      /\ \A u \in Tabs' : \A j \in 1 .. Len(u) :
                           u[j] = t[i] => u = t /\ j = i
    BY DEF DownloadsAreLive
  <2>2. CASE t = <<p>>
    <3>1. i = 1 /\ t[i] = p
      BY <1>6, <2>2
    <3>2. QED
      BY <1>4, <1>6, <1>7, <2>1, <2>2, <3>1
  <2>3. CASE t \in Tabs
    <3>1. t[i] # p /\ t[i] \in Addr
      <4>1. t \in Seq(Addr \cup {NULL})
        BY <1>3, <2>3 DEF CacheTypeOK, Tabs
      <4>2. QED
        BY <1>7, <2>3, <4>1
    <3>2. heap'[t[i]] = heap[t[i]]
      BY <1>4, <3>1
    <3>3. QED
      BY <1>6, <2>1, <2>3, <3>1, <3>2 DEF IInv, DownloadsAreLive
  <2>4. QED
    BY <2>1, <2>2, <2>3
<1>12. busy' /\ host' # "init"
  BY <1>2 DEF IInv, ControlInv, InRw, call
<1>13. CurrentLoading'
  BY <1>2, <1>4 DEF CurrentLoading
<1>14. ControlInv' /\ WaitsForCurrentBlock'
  BY <1>2, <1>12, <1>13 DEF ControlInv, WaitsForCurrentBlock, CurrentLoading
<1>15. QED
  BY <1>4, <1>5, <1>8, <1>10, <1>11, <1>14 DEF IInv

LEMMA RwEndKeeps == ASSUME IInv, RwEnd PROVE IInv'
<1>1. /\ rw # "no" /\ busy' = FALSE /\ rw' = "no"
      /\ host' \in {"cb", host} /\ cache' = cache /\ net' = net
      /\ UNCHANGED <<clusters, request, sector_index, io_buf, cur_block_num>>
  BY DEF RwEnd
<1>2. CacheTypeOK' /\ ListInv'
  BY <1>1, SameCache DEF IInv, TypeOK
<1>3. NumsInv' /\ TabsInv' /\ DownloadsAreLive'
  BY <1>1, SameHeap DEF IInv, cache, net
<1>4. TypeOK'
  BY <1>1, <1>2 DEF IInv, TypeOK, DataTypeOK
<1>5. ControlInv' /\ WaitsForCurrentBlock'
  BY <1>1 DEF IInv, ControlInv, CurrentLoading, WaitsForCurrentBlock, cache
<1>6. QED
  BY <1>2, <1>3, <1>4, <1>5 DEF IInv

LEMMA SubmitKeeps == ASSUME IInv, Submit PROVE IInv'
<1>1. PICK r \in Request : request' = r /\ io_buf' = r.data
  BY DEF Submit
<1>2. /\ host \in {"run", "cb"} /\ rw = "no" /\ ~busy
      /\ sector_index' = 0 /\ busy' = TRUE /\ rw' = "sync"
      /\ cache' = cache /\ net' = net
      /\ UNCHANGED <<clusters, cur_block_num, host>>
  BY DEF Submit
<1>3. CacheTypeOK' /\ ListInv'
  BY <1>2, SameCache DEF IInv, TypeOK
<1>4. NumsInv' /\ TabsInv' /\ DownloadsAreLive'
  BY <1>2, SameHeap DEF IInv, cache, net
<1>5. TypeOK'
  <2>1. Len(r.data) \in Nat
    BY RequestAssumption
  <2>2. DataTypeOK'
    BY <1>1, <1>2, <2>1, RequestAssumption DEF IInv, TypeOK, DataTypeOK
  <2>3. QED
    BY <1>2, <1>3, <2>2 DEF IInv, TypeOK
<1>6. ControlInv' /\ WaitsForCurrentBlock'
  BY <1>2 DEF IInv, ControlInv, CurrentLoading, WaitsForCurrentBlock, cache
<1>7. QED
  BY <1>3, <1>4, <1>5, <1>6 DEF IInv
-----------------------------------------------------------------------------
(* The steps of the cache and of the downloads *)

LEMMA EvictStep == ASSUME IInv, Evict PROVE IInv'
<1>1. /\ UNCHANGED <<clusters, call, cur_block_num, rw, host, net>>
  BY DEF Evict
<1>2. /\ cached_blocks' \in Seq(Addr) /\ ListInv'
      /\ heap' \in [Addr -> CachedBlock \cup {NULL}]
      /\ \A p \in Addr : heap'[p] # NULL => heap'[p] = heap[p]
      /\ \A p \in Addr :
           heap[p] # NULL /\ heap[p].state = "loading" => heap'[p] = heap[p]
  BY EvictKeeps DEF IInv, TypeOK
<1>3. TypeOK'
  BY <1>1, <1>2 DEF IInv, TypeOK, DataTypeOK, CacheTypeOK, call, net
<1>4. NumsInv' /\ TabsInv'
  BY <1>1, <1>2 DEF IInv, NumsInv, TabsInv, net
<1>5. DownloadsAreLive'
  <2>1. Tabs' = Tabs
    BY <1>1 DEF Tabs, net
  <2>2. \A t \in Tabs : \A i \in 1 .. Len(t) : t[i] # NULL => t[i] \in Addr
    BY DEF IInv, TypeOK, CacheTypeOK, Tabs
  <2>3. QED
    BY <1>2, <2>1, <2>2 DEF IInv, DownloadsAreLive
<1>6. CurrentLoading' <=> CurrentLoading
  BY <1>1, <1>2 DEF CurrentLoading
<1>7. ControlInv' /\ WaitsForCurrentBlock'
  BY <1>1, <1>6 DEF IInv, ControlInv, WaitsForCurrentBlock, CurrentLoading, call
<1>8. QED
  BY <1>2, <1>3, <1>4, <1>5, <1>7 DEF IInv

\* While bf_init_onload runs nothing is current.
LEMMA NothingCurrent ==
    ASSUME CacheTypeOK, cur_block_num = -1
    PROVE  ~CurrentLoading
  BY SizesAssumption DEF CurrentLoading, CacheTypeOK, CachedBlock, Block

\* What is said of downloads when one element is added to tab_block.
LEMMA AppendTab ==
    ASSUME IInv, NEW e \in Addr \cup {NULL}, tab_block' = Append(tab_block, e),
           inflight' = inflight,
           e # NULL => heap[e] = NULL /\ heap'[e] # NULL /\ heap'[e].state = "loading",
           \A q \in Addr \ {e} : heap'[q] = heap[q]
    PROVE  /\ tab_block' \in Seq(Addr \cup {NULL}) /\ DownloadsAreLive'
           /\ TabsInv'
<1> DEFINE tb == tab_block
<1>1. /\ tb \in Seq(Addr \cup {NULL}) /\ Len(tb) \in Nat
      /\ tab_block' \in Seq(Addr \cup {NULL}) /\ Len(tab_block') = Len(tb) + 1
      /\ \A i \in 1 .. Len(tb) : tab_block'[i] = tb[i]
      /\ tab_block'[Len(tb) + 1] = e
  BY AppendProperties DEF IInv, TypeOK, CacheTypeOK
<1>2. tb \in Tabs /\ \A t \in inflight : t \in Tabs /\ t # tb
  BY DEF Tabs, IInv, TabsInv
<1>3. e # NULL => \A t \in Tabs : \A i \in 1 .. Len(t) : t[i] # e
  BY FreshPointer
<1>4. \A t \in Tabs : \A i \in 1 .. Len(t) :
         t[i] # NULL => t[i] \in Addr /\ heap'[t[i]] = heap[t[i]]
  <2>1. \A t \in Tabs : t \in Seq(Addr \cup {NULL})
    BY DEF IInv, TypeOK, CacheTypeOK, Tabs
  <2>2. QED
    BY <1>3, <2>1
<1>5. \A t \in inflight : \A i \in 1 .. Len(t) : t[i] # NULL =>
         /\ \A j \in 1 .. Len(tb) : tb[j] # t[i]
         /\ t[i] # e
  BY <1>2, <1>3 DEF IInv, DownloadsAreLive
<1>6. tab_block' \notin inflight
  <2> SUFFICES ASSUME tab_block' \in inflight PROVE FALSE
    OBVIOUS
  <2>1. PICK i \in 1 .. Len(tab_block') : tab_block'[i] # NULL
    BY DEF IInv, TabsInv
  <2>2. i \in 1 .. Len(tb) \/ i = Len(tb) + 1
    BY <1>1
  <2>3. QED
    BY <1>1, <1>5, <2>1, <2>2, ZenonT(60)
<1>7. TabsInv'
  BY <1>6 DEF IInv, TabsInv
<1>8. DownloadsAreLive'
  <2>1. Tabs' = inflight \cup {tab_block'}
    BY DEF Tabs
  <2> SUFFICES ASSUME NEW t \in Tabs', NEW i \in 1 .. Len(t), t[i] # NULL
               PROVE  /\ heap'[t[i]] # NULL /\ heap'[t[i]].state = "loading"
                      /\ \A u \in Tabs' : \A j \in 1 .. Len(u) :
                           u[j] = t[i] => u = t /\ j = i
    BY DEF DownloadsAreLive
  <2>2. CASE t \in inflight
    <3>1. heap'[t[i]] # NULL /\ heap'[t[i]].state = "loading"
      BY <1>2, <1>4, <2>2 DEF IInv, DownloadsAreLive
    <3>2. \A u \in inflight : \A j \in 1 .. Len(u) : u[j] = t[i] => u = t /\ j = i
      BY <1>2, <2>2 DEF IInv, DownloadsAreLive
    <3>3. \A j \in 1 .. Len(tab_block') : tab_block'[j] # t[i]
      <4> SUFFICES ASSUME NEW j \in 1 .. Len(tab_block') PROVE tab_block'[j] # t[i]
        OBVIOUS
      <4>1. j \in 1 .. Len(tb) \/ j = Len(tb) + 1
        BY <1>1
      <4>2. QED
        BY <1>1, <1>5, <2>2, <4>1
    <3>4. QED
      BY <2>1, <3>1, <3>2, <3>3
  <2>3. CASE t = tab_block'
    <3>1. CASE i \in 1 .. Len(tb)
      <4>1. t[i] = tb[i] /\ tb[i] # NULL
        BY <1>1, <2>3, <3>1
      <4>2. heap'[t[i]] # NULL /\ heap'[t[i]].state = "loading"
        BY <1>2, <1>4, <3>1, <4>1 DEF IInv, DownloadsAreLive
      <4>3. \A u \in inflight : \A j \in 1 .. Len(u) : u[j] # t[i]
        BY <1>2, <3>1, <4>1 DEF IInv, DownloadsAreLive
      <4>4. \A j \in 1 .. Len(tb) : tb[j] = t[i] => j = i
        BY <1>2, <3>1, <4>1 DEF IInv, DownloadsAreLive
      <4>5. e # t[i]
        BY <1>2, <1>3, <3>1, <4>1
      <4>6. \A j \in 1 .. Len(t) : t[j] = t[i] => j = i
        <5> SUFFICES ASSUME NEW j \in 1 .. Len(t), t[j] = t[i] PROVE j = i
          OBVIOUS
        <5>1. j \in 1 .. Len(tb) \/ j = Len(tb) + 1
          BY <1>1, <2>3
        <5>2. QED
          BY <1>1, <2>3, <4>4, <4>5, <5>1
      <4>7. QED
        BY <2>1, <2>3, <4>2, <4>3, <4>6
    <3>2. CASE i = Len(tb) + 1
      <4>1. t[i] = e /\ e # NULL
        BY <1>1, <2>3, <3>2
      <4>2. \A j \in 1 .. Len(tb) : tb[j] # e
        BY <1>2, <1>3, <4>1
      <4>3. \A j \in 1 .. Len(t) : t[j] = e => j = i
        <5> SUFFICES ASSUME NEW j \in 1 .. Len(t), t[j] = e PROVE j = i
          OBVIOUS
        <5>1. j \in 1 .. Len(tb) \/ j = Len(tb) + 1
          BY <1>1, <2>3
        <5>2. QED
          BY <1>1, <2>3, <3>2, <4>2, <5>1
      <4>4. \A u \in inflight : \A j \in 1 .. Len(u) : u[j] # e
        BY <1>2, <1>3, <4>1
      <4>5. QED
        BY <2>1, <2>3, <4>1, <4>3, <4>4
    <3>3. QED
      BY <1>1, <2>3, <3>1, <3>2
  <2>4. QED
    BY <2>1, <2>2, <2>3
<1>9. QED
  BY <1>1, <1>7, <1>8

LEMMA PrefetchBlockKeeps == ASSUME IInv, PrefetchBlock PROVE IInv'
<1> DEFINE n == Head(to_prefetch)
<1>1. /\ host = "init" /\ to_prefetch # <<>> /\ to_prefetch' = Tail(to_prefetch)
      /\ inflight' = inflight
      /\ UNCHANGED <<clusters, call, cur_block_num, rw, host>>
  BY DEF PrefetchBlock
<1>2. DataTypeOK /\ CacheTypeOK /\ ListInv /\ NumsInv
  BY DEF IInv, TypeOK
<1>3. n \in Block /\ to_prefetch' \in Seq(Block)
  BY <1>1, <1>2, HeadTailProperties DEF CacheTypeOK
<1>4. /\ cached_blocks' \in Seq(Addr) /\ ListInv' /\ NumsInv'
      /\ heap' \in [Addr -> CachedBlock \cup {NULL}]
      /\ tab_block' \in Seq(Addr \cup {NULL}) /\ DownloadsAreLive' /\ TabsInv'
  <2>1. CASE /\ \E i \in Positions : FindBlock(i, n)
             /\ tab_block' = Append(tab_block, NULL)
             /\ heap' = heap
    <3>1. cached_blocks' \in Seq(Addr) /\ ListInv'
      BY <1>2, <2>1, FindBlockKeeps
    <3>2. tab_block' \in Seq(Addr \cup {NULL}) /\ DownloadsAreLive' /\ TabsInv'
      BY <1>1, <2>1, AppendTab
    <3>3. QED
      BY <1>2, <2>1, <3>1, <3>2 DEF NumsInv, CacheTypeOK
  <2>2. CASE /\ ~IsCached(n)
             /\ \E p \in Addr : /\ AddBlock(p, n)
                                /\ tab_block' = Append(tab_block, p)
    <3>1. PICK p \in Addr : AddBlock(p, n) /\ tab_block' = Append(tab_block, p)
      BY <2>2
    <3>2. /\ cached_blocks' \in Seq(Addr) /\ ListInv'
          /\ heap' \in [Addr -> CachedBlock \cup {NULL}]
          /\ heap[p] = NULL /\ heap'[p] # NULL
          /\ heap'[p] = [block_num |-> n, state |-> "loading"]
          /\ \A q \in Addr \ {p} : heap'[q] = heap[q]
      BY <1>2, <1>3, <3>1, AddBlockKeeps
    <3>3. NumsInv'
      BY <1>2, <1>3, <2>2, <3>2, AddedNums
    <3>4. heap'[p].state = "loading"
      BY <3>2
    <3>5. tab_block' \in Seq(Addr \cup {NULL}) /\ DownloadsAreLive' /\ TabsInv'
      BY <1>1, <3>1, <3>2, <3>4, AppendTab
    <3>6. QED
      BY <3>2, <3>3, <3>5
  <2>3. QED
    BY <2>1, <2>2 DEF PrefetchBlock
<1>5. CacheTypeOK'
  BY <1>1, <1>2, <1>3, <1>4 DEF CacheTypeOK
<1>6. TypeOK'
  BY <1>1, <1>2, <1>5 DEF IInv, TypeOK, DataTypeOK, call
<1>7. rw = "no" /\ ~busy /\ cur_block_num = -1
  BY <1>1 DEF IInv, ControlInv
<1>8. ~CurrentLoading'
  <2>1. cur_block_num' = -1
    BY <1>1, <1>7
  <2>2. QED
    BY <1>5, <2>1, SizesAssumption
       DEF CurrentLoading, CacheTypeOK, CachedBlock, Block
<1>9. ControlInv' /\ WaitsForCurrentBlock'
  BY <1>1, <1>7, <1>8 DEF ControlInv, WaitsForCurrentBlock, CurrentLoading, call
<1>10. QED
  BY <1>4, <1>6, <1>9 DEF IInv

\* Tabs only go, or become empty.
LEMMA FewerTabs ==
    ASSUME IInv, Tabs' \subseteq Tabs \cup {<<>>}, heap' = heap
    PROVE  DownloadsAreLive'
<1>1. \A i : i \notin 1 .. Len(<<>>)
  OBVIOUS
<1>2. QED
  BY <1>1 DEF IInv, DownloadsAreLive

LEMMA NetStepKeeps ==
    ASSUME IInv, PrefetchSend \/ Onload
    PROVE  IInv'
<1>1. /\ rw = "no" /\ rw' = rw /\ host \in {"init", "run"}
      /\ host' = host \/ host' = "onload"
      /\ UNCHANGED <<cache, clusters, call, cur_block_num, to_prefetch>>
  BY DEF PrefetchSend, Onload, IInv, ControlInv
<1>2. \A i : i \notin 1 .. Len(<<>>)
  OBVIOUS
<1>3. /\ tab_block' \in Seq(Addr \cup {NULL})
      /\ inflight' \subseteq Seq(Addr \cup {NULL})
      /\ TabsInv' /\ Tabs' \subseteq Tabs \cup {<<>>}
  <2>1. CASE PrefetchSend
    <3>1. tab_block' = <<>> /\ tab_block # <<>>
      BY <2>1 DEF PrefetchSend
    <3>2. inflight' \subseteq inflight \cup {tab_block}
      BY <2>1 DEF PrefetchSend
    <3>3. \A t \in inflight' : \E i \in 1 .. Len(t) : t[i] # NULL
      BY <2>1 DEF PrefetchSend, IInv, TabsInv
    <3>4. tab_block' \notin inflight'
      BY <1>2, <3>1, <3>3
    <3>5. <<>> \in Seq(Addr \cup {NULL})
      BY EmptySeq
    <3>6. QED
      BY <3>1, <3>2, <3>3, <3>4, <3>5
         DEF TabsInv, Tabs, IInv, TypeOK, CacheTypeOK
  <2>2. CASE Onload
    BY <2>2 DEF Onload, TabsInv, Tabs, IInv, TypeOK, CacheTypeOK
  <2>3. QED
    BY <2>1, <2>2
<1>4. heap' = heap /\ cached_blocks' = cached_blocks
  BY <1>1 DEF cache
<1>5. DownloadsAreLive'
  BY <1>3, <1>4, FewerTabs
<1>6. ListInv' /\ NumsInv'
  BY <1>4 DEF IInv, ListInv, NumsInv, Positions
<1>7. TypeOK'
  BY <1>1, <1>3, <1>4 DEF IInv, TypeOK, DataTypeOK, CacheTypeOK, call
<1>8. ControlInv' /\ WaitsForCurrentBlock'
  BY <1>1, <1>4
     DEF IInv, ControlInv, CurrentLoading, WaitsForCurrentBlock, call
<1>9. QED
  BY <1>3, <1>5, <1>6, <1>7, <1>8 DEF IInv

LEMMA UpdateBlockKeeps == ASSUME IInv, UpdateBlock PROVE IInv'
<1> DEFINE p == Head(tab_block)
<1>1. /\ host = "onload" /\ rw = "no" /\ tab_block # <<>>
      /\ tab_block' = Tail(tab_block)
      /\ UNCHANGED <<cached_blocks, clusters, call, cur_block_num, host,
                     to_prefetch, inflight>>
  BY DEF UpdateBlock
<1>2. /\ p \in Addr \cup {NULL} /\ tab_block' \in Seq(Addr \cup {NULL})
      /\ Len(tab_block) \in Nat \ {0} /\ p = tab_block[1]
      /\ Len(tab_block') = Len(tab_block) - 1
      /\ \A i \in 1 .. Len(tab_block') : tab_block'[i] = tab_block[i + 1]
  <2>1. tab_block \in Seq(Addr \cup {NULL})
    BY DEF IInv, TypeOK, CacheTypeOK
  <2>2. QED
    BY <1>1, <2>1, HeadTailProperties, EmptySeq
<1>3. tab_block \in Tabs /\ \A t \in inflight : t \in Tabs /\ t # tab_block
  BY DEF Tabs, IInv, TabsInv
<1>4. p # NULL => /\ p \in Addr /\ heap[p] \in CachedBlock
                  /\ heap[p].state = "loading"
                  /\ heap' = [heap EXCEPT ![p].state = "loaded"]
                  /\ rw' = IF heap[p].block_num = cur_block_num
                           THEN "async" ELSE "no"
  <2> SUFFICES ASSUME p # NULL
               PROVE  /\ p \in Addr /\ heap[p] \in CachedBlock
                      /\ heap[p].state = "loading"
                      /\ heap' = [heap EXCEPT ![p].state = "loaded"]
                      /\ rw' = IF heap[p].block_num = cur_block_num
                               THEN "async" ELSE "no"
    OBVIOUS
  <2>1. 1 \in 1 .. Len(tab_block) /\ tab_block[1] = p
    BY <1>2
  <2>2. heap[p] # NULL /\ heap[p].state = "loading"
    BY <1>3, <2>1 DEF IInv, DownloadsAreLive
  <2>3. p \in Addr /\ heap[p] \in CachedBlock
    BY <1>2, <2>2 DEF IInv, TypeOK, CacheTypeOK
  <2>4. QED
    BY <2>2, <2>3 DEF UpdateBlock
<1>5. p = NULL => heap' = heap /\ rw' = rw
  BY DEF UpdateBlock
<1>6. /\ heap' \in [Addr -> CachedBlock \cup {NULL}]
      /\ \A q \in Addr : q # p => heap'[q] = heap[q]
      /\ \A q \in Addr : heap'[q] # NULL <=> heap[q] # NULL
      /\ \A q \in Addr : heap[q] # NULL => heap'[q].block_num = heap[q].block_num
      /\ p # NULL => heap'[p].state = "loaded"
  <2>1. CASE p = NULL
    BY <1>5, <2>1 DEF IInv, TypeOK, CacheTypeOK
  <2>2. CASE p # NULL
    <3>1. /\ heap'[p] \in CachedBlock /\ heap'[p].state = "loaded"
          /\ heap'[p].block_num = heap[p].block_num
          /\ \A q \in Addr : q # p => heap'[q] = heap[q]
      BY <1>4, <2>2 DEF IInv, TypeOK, CacheTypeOK, CachedBlock
    <3>2. heap' \in [Addr -> CachedBlock \cup {NULL}]
      BY <1>4, <2>2, <3>1 DEF IInv, TypeOK, CacheTypeOK
    <3>3. QED
      BY <1>4, <2>2, <3>1, <3>2, NullAssumption
  <2>3. QED
    BY <2>1, <2>2
<1>7. ListInv' /\ NumsInv'
  BY <1>1, <1>6 DEF IInv, ListInv, NumsInv, Positions
<1>8. \A i \in 1 .. Len(tab_block') :
        i + 1 \in 1 .. Len(tab_block) /\ i + 1 # 1
  BY <1>2
<1>9. \A t \in Tabs' : \A i \in 1 .. Len(t) : t[i] # NULL =>
        /\ t[i] \in Addr /\ t[i] # p
        /\ heap[t[i]] # NULL /\ heap[t[i]].state = "loading"
  <2>1. ASSUME NEW t \in inflight, NEW i \in 1 .. Len(t), t[i] # NULL
        PROVE  /\ t[i] \in Addr /\ t[i] # p
               /\ heap[t[i]] # NULL /\ heap[t[i]].state = "loading"
    <3>1. 1 \in 1 .. Len(tab_block)
      BY <1>2
    <3>2. QED
      BY <1>2, <1>3, <2>1, <3>1
         DEF IInv, DownloadsAreLive, TypeOK, CacheTypeOK
  <2>2. ASSUME NEW i \in 1 .. Len(tab_block'), tab_block'[i] # NULL
        PROVE  /\ tab_block'[i] \in Addr /\ tab_block'[i] # p
               /\ heap[tab_block'[i]] # NULL
               /\ heap[tab_block'[i]].state = "loading"
    <3>1. tab_block'[i] = tab_block[i + 1] /\ 1 \in 1 .. Len(tab_block)
      BY <1>2
    <3>2. QED
      BY <1>2, <1>3, <1>8, <2>2, <3>1, SMTT(40)
         DEF IInv, DownloadsAreLive, TypeOK, CacheTypeOK
  <2>3. QED
    BY <1>1, <2>1, <2>2 DEF Tabs
<1>10. \A t \in Tabs' : \A i \in 1 .. Len(t) : t[i] # NULL =>
         \A u \in Tabs' : \A j \in 1 .. Len(u) : u[j] = t[i] => u = t /\ j = i
  <2>1. ASSUME NEW t \in inflight, NEW i \in 1 .. Len(t), t[i] # NULL,
               NEW u \in inflight, NEW j \in 1 .. Len(u), u[j] = t[i]
        PROVE  u = t /\ j = i
    BY <1>3, <2>1 DEF IInv, DownloadsAreLive
  <2>2. ASSUME NEW t \in inflight, NEW i \in 1 .. Len(t), t[i] # NULL,
               NEW j \in 1 .. Len(tab_block')
        PROVE  tab_block'[j] # t[i]
    BY <1>2, <1>3, <1>8, <2>2 DEF IInv, DownloadsAreLive
  <2>3. ASSUME NEW i \in 1 .. Len(tab_block'), tab_block'[i] # NULL,
               NEW j \in 1 .. Len(tab_block'), tab_block'[j] = tab_block'[i]
        PROVE  j = i
    <3>1. tab_block[j + 1] = tab_block[i + 1] /\ tab_block[i + 1] # NULL
      BY <1>2, <2>3
    <3>2. j + 1 = i + 1
      BY <1>3, <1>8, <2>3, <3>1 DEF IInv, DownloadsAreLive
    <3>3. QED
      BY <3>2
  <2>4. Tabs' = inflight \cup {tab_block'}
    BY <1>1 DEF Tabs
  <2> SUFFICES ASSUME NEW t \in Tabs', NEW i \in 1 .. Len(t), t[i] # NULL,
                      NEW u \in Tabs', NEW j \in 1 .. Len(u), u[j] = t[i]
               PROVE  u = t /\ j = i
    OBVIOUS
  <2>5. CASE t \in inflight /\ u \in inflight
    BY <2>1, <2>5
  <2>6. CASE t \in inflight /\ u = tab_block'
    BY <2>2, <2>6
  <2>7. CASE t = tab_block' /\ u \in inflight
    <3>1. u[j] # NULL
      OBVIOUS
    <3>2. QED
      BY <2>2, <2>7, <3>1
  <2>8. CASE t = tab_block' /\ u = tab_block'
    BY <2>3, <2>8
  <2>9. QED
    BY <2>4, <2>5, <2>6, <2>7, <2>8
<1>11. DownloadsAreLive'
  BY <1>6, <1>9, <1>10 DEF DownloadsAreLive
<1>12. TabsInv'
  <2> SUFFICES ASSUME tab_block' \in inflight PROVE FALSE
    BY <1>1 DEF IInv, TabsInv
  <2>1. PICK i \in 1 .. Len(tab_block') : tab_block'[i] # NULL
    BY DEF IInv, TabsInv
  <2>2. tab_block'[i] = tab_block[i + 1]
    BY <1>2
  <2>3. QED
    BY <1>3, <1>8, <2>1, <2>2 DEF IInv, DownloadsAreLive
<1>13. TypeOK'
  BY <1>1, <1>2, <1>4, <1>5, <1>6
     DEF IInv, TypeOK, DataTypeOK, CacheTypeOK, call
<1>14. ControlInv' /\ WaitsForCurrentBlock'
  <2>1. busy <=> CurrentLoading
    BY <1>1 DEF IInv, WaitsForCurrentBlock, CurrentLoading
  <2>2. CASE p # NULL /\ heap[p].block_num = cur_block_num
    <3>1. CurrentLoading /\ rw' = "async"
      BY <1>4, <2>2, NullAssumption DEF CurrentLoading
    <3>2. ~CurrentLoading'
      BY <1>1, <1>4, <1>6, <2>2, NullAssumption
         DEF CurrentLoading, IInv, NumsInv
    <3>3. QED
      BY <1>1, <2>1, <3>1, <3>2
         DEF ControlInv, WaitsForCurrentBlock, call, CurrentLoading
  <2>3. CASE ~(p # NULL /\ heap[p].block_num = cur_block_num)
    <3>1. CurrentLoading' <=> CurrentLoading
      <4>1. ASSUME NEW q \in Addr
            PROVE  (/\ heap'[q] # NULL /\ heap'[q].block_num = cur_block_num
                    /\ heap'[q].state = "loading")
                   <=>
                   (/\ heap[q] # NULL /\ heap[q].block_num = cur_block_num
                    /\ heap[q].state = "loading")
        <5>1. CASE q = p
          <6>1. p # NULL
            BY <5>1, NullAssumption
          <6>2. heap[p] # NULL /\ heap[p].block_num # cur_block_num
            BY <1>4, <2>3, <6>1, NullAssumption
          <6>3. QED
            BY <1>6, <5>1, <6>2
        <5>2. CASE q # p
          BY <1>6, <5>2
        <5>3. QED
          BY <5>1, <5>2
      <4>2. QED
        BY <1>1, <4>1 DEF CurrentLoading
    <3>2. rw' = "no"
      BY <1>1, <1>4, <1>5, <2>3
    <3>3. QED
      BY <1>1, <2>1, <3>1, <3>2
         DEF ControlInv, WaitsForCurrentBlock, call, CurrentLoading
  <2>4. QED
    BY <2>2, <2>3
<1>15. QED
  BY <1>7, <1>11, <1>12, <1>13, <1>14 DEF IInv

\* The steps that only move the control, and stuttering.
LEMMA ControlStepKeeps ==
    ASSUME IInv,
           \/ InitDone \/ CallbackReturns \/ OnloadReturns \/ LoadError
           \/ UNCHANGED vars
    PROVE  IInv'
<1>1. /\ UNCHANGED <<cache, clusters, call, cur_block_num, rw, net>>
      /\ host' \in {host, "run", "onload", "exit"}
  BY DEF InitDone, CallbackReturns, OnloadReturns, LoadError, vars,
         cache, call, net
<1>2. CacheTypeOK' /\ ListInv'
  BY <1>1, SameCache DEF IInv, TypeOK
<1>3. NumsInv' /\ TabsInv' /\ DownloadsAreLive'
  BY <1>1, SameHeap DEF IInv, cache, net
<1>4. TypeOK'
  BY <1>1, <1>2 DEF IInv, TypeOK, DataTypeOK, call
<1>5. ControlInv' /\ WaitsForCurrentBlock'
  BY <1>1 DEF IInv, ControlInv, CurrentLoading, WaitsForCurrentBlock, cache, call
<1>6. QED
  BY <1>2, <1>3, <1>4, <1>5 DEF IInv

THEOREM StepIInv == IInv /\ [Next]_vars => IInv'
<1> SUFFICES ASSUME IInv, [Next]_vars PROVE IInv'
  OBVIOUS
<1>1. CASE Submit
  BY <1>1, SubmitKeeps
<1>2. CASE RwCluster
  BY <1>2, RwClusterKeeps
<1>3. CASE RwWait
  BY <1>3, RwWaitKeeps
<1>4. CASE RwAllocCluster
  BY <1>4, RwAllocClusterKeeps
<1>5. CASE RwRead
  BY <1>5, RwReadKeeps
<1>6. CASE RwStartLoad
  BY <1>6, RwStartLoadKeeps
<1>7. CASE RwEnd
  BY <1>7, RwEndKeeps
<1>8. CASE Evict
  BY <1>8, EvictStep
<1>9. CASE PrefetchBlock
  BY <1>9, PrefetchBlockKeeps
<1>10. CASE PrefetchSend \/ Onload
  BY <1>10, NetStepKeeps
<1>11. CASE UpdateBlock
  BY <1>11, UpdateBlockKeeps
<1>12. CASE \/ InitDone \/ CallbackReturns \/ OnloadReturns \/ LoadError
            \/ UNCHANGED vars
  BY <1>12, ControlStepKeeps
<1>13. QED
  BY <1>1, <1>2, <1>3, <1>4, <1>5, <1>6, <1>7, <1>8, <1>9, <1>10, <1>11, <1>12
     DEF Next, Step, Answer

LEMMA InvariantIInv == Spec => []IInv
<1>1. QED
  BY InitIInv, StepIInv, PTL DEF Spec

-----------------------------------------------------------------------------
(* The theorems *)

\* The fields of BlockDeviceHTTP keep their types: in particular the cluster and
\* block numbers computed by bf_rw_async1 stay within their arrays.
THEOREM TypeCorrect == Spec => []TypeOK
<1>1. IInv => TypeOK
  BY DEF IInv
<1>2. QED
  BY <1>1, InvariantIInv, PTL

\* No download holds a pointer to a block that bf_add_block has freed, and
\* bf_update_block finds its block loading, whatever the prefetch list, the size
\* of the cache and the order of the answers.
THEOREM DownloadsLive == Spec => []DownloadsAreLive
<1>1. IInv => DownloadsAreLive
  BY DEF IInv
<1>2. QED
  BY <1>1, InvariantIInv, PTL

\* The request that waits is the one the arrival of its block continues, and no
\* arrival continues a request that has been completed.
THEOREM WaitsCorrect == Spec => []WaitsForCurrentBlock
<1>1. IInv => WaitsForCurrentBlock
  BY DEF IInv
<1>2. QED
  BY <1>1, InvariantIInv, PTL
-----------------------------------------------------------------------------
(* The bound of the cache, and that the device implements the disk its client *)
(* sees.                                                                      *)

\* Only bf_add_block lengthens the list: it has freed a block before, unless
\* the list was short or no block of it was loaded.
LEMMA AddBlockBounded ==
    ASSUME CacheTypeOK, ListInv, NEW p \in Addr, NEW n, AddBlock(p, n)
    PROVE  \/ Len(cached_blocks') <= CacheMax
           \/ \A i \in 1 .. Len(cached_blocks') :
                heap'[cached_blocks'[i]].state = "loading"
<1> USE SizesAssumption
<1>1. /\ cached_blocks \in Seq(Addr) /\ Len(cached_blocks) \in Nat
      /\ heap \in [Addr -> CachedBlock \cup {NULL}]
  BY DEF CacheTypeOK
<1>2. /\ Len(cached_blocks') = Len(cached_blocks) + 1
      /\ \A j \in 1 .. Len(cached_blocks) + 1 :
           cached_blocks'[j] = IF j = 1 THEN p ELSE cached_blocks[j - 1]
  BY <1>1, ConsProperties DEF AddBlock
<1>3. heap' = [heap EXCEPT ![p] = [block_num |-> n, state |-> "loading"]]
  BY DEF AddBlock
<1>4. CASE Len(cached_blocks) < CacheMax
  BY <1>1, <1>2, <1>4
<1>5. CASE ~(Len(cached_blocks) < CacheMax)
  <2>1. \A i \in Positions : At(i).state # "loaded"
    BY <1>1, <1>5 DEF AddBlock, MustEvict, Evictable
  <2>2. ASSUME NEW i \in 1 .. Len(cached_blocks')
        PROVE  heap'[cached_blocks'[i]].state = "loading"
    <3>1. CASE i = 1
      BY <1>1, <1>2, <1>3, <3>1
    <3>2. CASE i # 1
      <4>1. /\ i - 1 \in Positions /\ cached_blocks'[i] = cached_blocks[i - 1]
            /\ cached_blocks[i - 1] \in Addr
        BY <1>1, <1>2, <3>2 DEF Positions
      <4>2. heap[cached_blocks[i - 1]] # NULL /\ cached_blocks[i - 1] # p
        BY <4>1 DEF ListInv, AddBlock
      <4>3. heap[cached_blocks[i - 1]].state = "loading"
        BY <1>1, <2>1, <4>1, <4>2 DEF At, CachedBlock
      <4>4. QED
        BY <1>1, <1>3, <4>1, <4>2, <4>3
    <3>3. QED
      BY <3>1, <3>2
  <2>3. QED
    BY <2>2
<1>6. QED
  BY <1>4, <1>5

\* bf_find_block and the loop that frees blocks do not lengthen the list.
LEMMA FindBlockLen ==
    ASSUME CacheTypeOK, NEW i, NEW n, FindBlock(i, n)
    PROVE  Len(cached_blocks') = Len(cached_blocks)
<1>1. /\ cached_blocks \in Seq(Addr) /\ i \in 1 .. Len(cached_blocks)
      /\ cached_blocks[i] \in Addr /\ Len(cached_blocks) \in Nat
  BY DEF CacheTypeOK, FindBlock, Positions
<1>2. /\ RemoveAt(cached_blocks, i) \in Seq(Addr)
      /\ Len(RemoveAt(cached_blocks, i)) = Len(cached_blocks) - 1
  BY <1>1, RemoveAtProperties
<1>3. Len(<<cached_blocks[i]>> \o RemoveAt(cached_blocks, i))
        = Len(cached_blocks) - 1 + 1
  BY <1>1, <1>2, ConsProperties
<1>4. QED
  BY <1>1, <1>3 DEF FindBlock

\* The cache of bf_add_block stays within n_cached_blocks_max as long as a block
\* of it is loaded, in every step that makes it longer.
THEOREM CacheStaysBounded == Spec => CacheBounded
<1> DEFINE Bounded == \/ Len(cached_blocks') <= CacheMax
                      \/ \A i \in 1 .. Len(cached_blocks') :
                           heap'[cached_blocks'[i]].state = "loading"
           Longer == Len(cached_blocks') > Len(cached_blocks)
<1>1. ASSUME IInv, [Next]_vars PROVE [Longer => Bounded]_vars
  <2>1. CacheTypeOK /\ ListInv /\ Len(cached_blocks) \in Nat
    BY <1>1 DEF IInv, TypeOK, CacheTypeOK
  <2>2. CASE RwStartLoad \/ PrefetchBlock
    <3>1. CASE \E p \in Addr, n \in {BlockNum, Head(to_prefetch)} : AddBlock(p, n)
      BY <2>1, <3>1, AddBlockBounded
    <3>2. CASE \E i \in Positions : FindBlock(i, Head(to_prefetch))
      BY <2>1, <3>2, FindBlockLen
    <3>3. QED
      BY <2>2, <3>1, <3>2 DEF RwStartLoad, PrefetchBlock
  <2>3. CASE RwWait \/ RwAllocCluster \/ RwRead
    <3>1. PICK i \in Positions : FindBlock(i, BlockNum)
      BY <2>3 DEF RwWait, RwAllocCluster, RwRead
    <3>2. QED
      BY <2>1, <3>1, FindBlockLen
  <2>4. CASE Evict
    <3>1. PICK i \in Positions : cached_blocks' = RemoveAt(cached_blocks, i)
      BY <2>4 DEF Evict
    <3>2. QED
      BY <2>1, <3>1, RemoveAtProperties DEF CacheTypeOK, Positions
  <2>5. CASE UNCHANGED cached_blocks
    BY <2>1, <2>5
  <2>6. QED
    BY <1>1, <2>2, <2>3, <2>4, <2>5
       DEF Next, Step, Answer, vars, cache, RwCluster, RwEnd, Submit,
           PrefetchSend, InitDone, Onload, UpdateBlock, CallbackReturns,
           OnloadReturns, LoadError
<1>2. QED
  BY <1>1, InvariantIInv, PTL DEF Spec, CacheBounded
-----------------------------------------------------------------------------
(* Sectors, clusters and blocks *)

LEMMA DivUnique ==
    ASSUME NEW b \in Nat \ {0}, NEW q \in Nat, NEW r \in 0 .. b - 1
    PROVE  (b * q + r) \div b = q /\ (b * q + r) % b = r
<1> DEFINE a == b * q + r
           d == a \div b
           m == a % b
<1>1. a \in Nat
  OBVIOUS
<1>2. d \in Nat /\ m \in 0 .. b - 1 /\ a = b * d + m
  <2> HIDE DEF a
  <2>1. QED
    BY <1>1, DivMod
<1> HIDE DEF d, m
<1>3. b * (q - d) = m - r
  BY <1>2
<1>4. ~(q > d)
  BY <1>2, <1>3
<1>5. ~(q < d)
  BY <1>2, <1>3
<1>6. q = d
  BY <1>2, <1>4, <1>5
<1>7. m = r
  BY <1>2, <1>3, <1>6
<1>8. QED
  BY <1>6, <1>7 DEF a, d, m

\* The sectors that follow a, up to the end of its unit of b sectors, are at the
\* offsets that follow that of a.
LEMMA SameUnit ==
    ASSUME NEW b \in Nat \ {0}, NEW a \in Nat, NEW k \in Nat, (a % b) + k < b
    PROVE  (a + k) \div b = a \div b /\ (a + k) % b = (a % b) + k
<1> DEFINE q == a \div b
           r == a % b
<1>1. q \in Nat /\ r \in 0 .. b - 1 /\ a = b * q + r
  BY DivMod
<1>2. r + k \in 0 .. b - 1
  BY <1>1
<1> HIDE DEF q, r
<1>3. (b * q + (r + k)) \div b = q /\ (b * q + (r + k)) % b = r + k
  BY <1>1, <1>2, DivUnique
<1>4. a + k = b * q + (r + k)
  BY <1>1
<1>5. QED
  BY <1>3, <1>4 DEF q, r

\* Every sector of the device is in a cluster.
LEMMA SectorInCluster ==
    ASSUME NEW s \in Sector
    PROVE  /\ s \div SectorsPerCluster \in Cluster
           /\ s % SectorsPerCluster \in 0 .. SectorsPerCluster - 1
           /\ s = SectorsPerCluster * (s \div SectorsPerCluster)
                    + (s % SectorsPerCluster)
<1> USE SizesAssumption
<1> DEFINE a == NbSectors + SectorsPerCluster - 1
<1>1. NbSectors \in Nat /\ a \in Nat /\ s \in Nat /\ s < NbSectors
  BY DEF NbSectors, Sector
<1>2. /\ a \div SectorsPerCluster \in Nat
      /\ a % SectorsPerCluster \in 0 .. SectorsPerCluster - 1
      /\ a = SectorsPerCluster * (a \div SectorsPerCluster)
               + (a % SectorsPerCluster)
  <2> HIDE DEF a
  <2>1. QED
    BY <1>1, DivMod
<1>3. NClusters \in Nat /\ s < SectorsPerCluster * NClusters
  BY <1>1, <1>2 DEF NClusters
<1>4. QED
  BY <1>1, <1>3, DivBound DEF Cluster

\* Where a block holds whole clusters, the copy of a cluster out of its block
\* takes the sectors of the image that have the numbers of the cluster's.
LEMMA ClusterInBlock ==
    ASSUME BlockSize % SectorsPerCluster = 0,
           NEW s \in Nat, NEW k \in 0 .. SectorsPerCluster - 1
    PROVE  LET c == s \div SectorsPerCluster
               first == (c * SectorsPerCluster) % BlockSize
           IN  BlockData(s \div BlockSize, first + k)
                 = Image[SectorsPerCluster * c + k]
<1> USE SizesAssumption
<1> DEFINE w == SectorsPerCluster
           m == BlockSize \div w
           c == s \div w
           o == s % w
           q == c \div m
           r == c % m
<1>1. m \in Nat \ {0} /\ BlockSize = w * m
  <2>1. m \in Nat /\ BlockSize = w * m + (BlockSize % w)
    BY DivMod
  <2>2. BlockSize = w * m + 0
    BY <2>1
  <2> HIDE DEF m
  <2>3. QED
    BY <2>1, <2>2
<1> HIDE DEF m
<1>2. c \in Nat /\ o \in 0 .. w - 1 /\ s = w * c + o
  BY DivMod
<1> HIDE DEF c, o
<1>3. q \in Nat /\ r \in 0 .. m - 1 /\ c = m * q + r
  BY <1>1, <1>2, DivMod
<1> HIDE DEF q, r
<1>4. w * r + w <= BlockSize
  <2>1. w * (m - 1 - r) >= 0
    BY <1>1, <1>3
  <2>2. w * (m - 1 - r) = w * m - w - w * r
    BY <1>1, <1>3
  <2>3. QED
    BY <1>1, <1>3, <2>1, <2>2
<1>5. w * c = BlockSize * q + w * r
  BY <1>1, <1>3
<1>6. w * r \in Nat /\ w * r + o \in 0 .. BlockSize - 1
      /\ w * r \in 0 .. BlockSize - 1 /\ w * r + k \in 0 .. BlockSize - 1
  BY <1>2, <1>3, <1>4
<1>7. s = BlockSize * q + (w * r + o)
  BY <1>2, <1>3, <1>5, <1>6
<1>8. s \div BlockSize = q
  BY <1>3, <1>6, <1>7, DivUnique
<1>9. (c * w) % BlockSize = w * r
  <2>1. (BlockSize * q + w * r) % BlockSize = w * r
    BY <1>3, <1>6, DivUnique, ZenonT(60)
  <2>2. c * w = BlockSize * q + w * r
    BY <1>2, <1>5
  <2>3. QED
    BY <2>1, <2>2
<1>10. q * BlockSize + (w * r + k) = w * c + k
  BY <1>3, <1>5, <1>6, <1>2
<1>11. BlockData(q, w * r + k) = Image[w * c + k]
  BY <1>6, <1>10 DEF BlockData
<1>12. QED
  BY <1>8, <1>9, <1>11 DEF c
-----------------------------------------------------------------------------
(* The disk the client sees *)

\* How many sectors an iteration of bf_rw_async1 moves, of a request for len
\* sectors from the sector first on of which some have been moved: no more than
\* are left, and not past the end of their unit of b sectors.
CopySize(first, moved, len, b) ==
    SmallerOf(len - moved, b - ((first + moved) % b))

\* The sectors it moves are on the device, which ends at the sector end, and in
\* the unit of the first of them.
CopyInUnit(first, moved, len, b, end) ==
    /\ CopySize(first, moved, len, b) \in 1 .. len - moved
    /\ \A i \in moved + 1 .. moved + CopySize(first, moved, len, b) :
         LET s == first + i - 1
         IN  /\ s \in 0 .. end - 1 /\ i \in 1 .. len
             /\ s \div b = (first + moved) \div b
             /\ s % b = ((first + moved) % b) + (i - 1 - moved)

LEMMA CopyBounds ==
    ASSUME NEW first \in Nat, NEW moved \in Nat, NEW len \in Nat, moved < len,
           NEW b \in Nat \ {0}, NEW end \in Nat, first + len <= end
    PROVE  CopyInUnit(first, moved, len, b, end)
<1> DEFINE a == first + moved
           o == a % b
           n == CopySize(first, moved, len, b)
<1>1. a \in Nat /\ o \in 0 .. b - 1
  <2>1. a \in Nat
    OBVIOUS
  <2> HIDE DEF a
  <2>2. QED
    BY <2>1, DivMod
<1>2. n = SmallerOf(len - moved, b - o)
  BY DEF CopySize
<1> HIDE DEF o, n
<1>3. n \in 1 .. len - moved /\ n <= b - o
  BY <1>1, <1>2 DEF SmallerOf
<1>4. ASSUME NEW i \in moved + 1 .. moved + n
      PROVE  /\ first + i - 1 \in 0 .. end - 1 /\ i \in 1 .. len
             /\ (first + i - 1) \div b = a \div b
             /\ (first + i - 1) % b = o + (i - 1 - moved)
  <2> DEFINE k == i - 1 - moved
  <2>1. k \in Nat /\ o + k < b /\ first + i - 1 = a + k
    BY <1>1, <1>3
  <2>2. first + i - 1 \in 0 .. end - 1 /\ i \in 1 .. len
    BY <1>1, <1>3
  <2> HIDE DEF k, a
  <2>3. (a + k) \div b = a \div b /\ (a + k) % b = o + k
    BY <1>1, <2>1, SameUnit DEF o
  <2>4. QED
    BY <2>1, <2>2, <2>3 DEF k
<1>5. QED
  BY <1>3, <1>4 DEF o, n, CopyInUnit

\* So are those of the request being served, in their cluster or block.
LEMMA TransferSectors ==
    ASSUME IInv, InRw, NEW b \in {BlockSize, SectorsPerCluster}, NEW n,
           n = SmallerOf(Left, b - (Pos % b))
    PROVE  /\ n \in 1 .. Len(io_buf) - sector_index
           /\ \A i \in sector_index + 1 .. sector_index + n :
                LET s == request.sector_num + i - 1
                IN  /\ s \in Sector /\ i \in 1 .. Len(io_buf)
                    /\ s \div b = Pos \div b
                    /\ s % b = (Pos % b) + (i - 1 - sector_index)
<1> DEFINE first == request.sector_num
           len == Len(request.data)
<1>1. DataTypeOK
  BY DEF IInv, TypeOK
<1>2. sector_index \in Nat /\ len \in Nat /\ sector_index < len
  BY <1>1, PosInDevice DEF Left
<1>3. request \in Request
  BY <1>1, <1>2 DEF DataTypeOK, NoRequest
<1>4. first \in Nat /\ first + len <= NbSectors
  BY <1>3, RequestAssumption
<1>5. NbSectors \in Nat /\ b \in Nat \ {0}
  BY SizesAssumption DEF NbSectors
<1>6. len = Len(io_buf) /\ n = CopySize(first, sector_index, len, b)
  BY <1>1 DEF DataTypeOK, CopySize, Left, Pos
<1> HIDE DEF first, len
<1>7. CopyInUnit(first, sector_index, len, b, NbSectors)
  BY <1>2, <1>4, <1>5, CopyBounds
<1>8. /\ n \in 1 .. Len(io_buf) - sector_index
      /\ \A i \in sector_index + 1 .. sector_index + n :
           /\ first + i - 1 \in Sector /\ i \in 1 .. Len(io_buf)
           /\ (first + i - 1) \div b = (first + sector_index) \div b
           /\ (first + i - 1) % b
                = ((first + sector_index) % b) + (i - 1 - sector_index)
  BY <1>6, <1>7, Zenon DEF CopyInUnit, Sector
<1>9. QED
  BY <1>8 DEF first, Pos

\* What a read must return, as ReadsModifiedData states it for one step.
ReadsDisk ==
    \A i \in 1 .. Len(io_buf) :
        LET s == request.sector_num + i - 1
        IN  ~request.is_write /\ sector_index < i /\ i <= sector_index'
              => io_buf'[i] = DiskContents[s]

\* A read that returns what the disk contains is a transfer of the disk.
LEMMA ReadTransfers ==
    ASSUME IInv, InRw, ~request.is_write, ReadsDisk,
           NEW n \in 1 .. Len(io_buf) - sector_index, NEW source,
           ReadInto(n, source), sector_index' = sector_index + n,
           UNCHANGED <<clusters, request, busy>>
    PROVE  BlockDevice!Transfer(n)
<1>1. /\ busy /\ sector_index \in Nat /\ Len(io_buf) \in Nat
      /\ DOMAIN io_buf = 1 .. Len(io_buf)
  BY DEF IInv, TypeOK, ControlInv, InRw, DataTypeOK
<1>2. UNCHANGED DiskContents
  BY DEF DiskContents
<1>3. io_buf' = [i \in DOMAIN io_buf |->
                   IF i \in sector_index + 1 .. sector_index + n
                   THEN DiskContents[request.sector_num + i - 1]
                   ELSE io_buf[i]]
  <2>1. ASSUME NEW i \in DOMAIN io_buf, i \in sector_index + 1 .. sector_index + n
        PROVE  io_buf'[i] = DiskContents[request.sector_num + i - 1]
    <3>1. i \in 1 .. Len(io_buf) /\ sector_index < i /\ i <= sector_index'
      BY <1>1, <2>1
    <3>2. QED
      BY <3>1 DEF ReadsDisk
  <2>2. QED
    BY <2>1 DEF ReadInto
<1>4. QED
  BY <1>1, <1>2, <1>3 DEF BlockDevice!Transfer
-----------------------------------------------------------------------------
(* What a read returns *)

\* A read takes no two clusters of one block.  The code allows others: of
\* these, RwRead may take a sector from the cached block although its cluster
\* has been allocated.
ReadsInClusters ==
    \A r \in Request : ~r.is_write =>
        \A i, j \in 1 .. Len(r.data) :
            (r.sector_num + i - 1) \div BlockSize = (r.sector_num + j - 1) \div BlockSize
            => (r.sector_num + i - 1) \div SectorsPerCluster
                 = (r.sector_num + j - 1) \div SectorsPerCluster

LEMMA RwClusterReads ==
    ASSUME IInv, RwCluster PROVE ReadsDisk
<1> DEFINE n == SmallerOf(Left, SectorsPerCluster - (Pos % SectorsPerCluster))
<1> SUFFICES ASSUME NEW i \in 1 .. Len(io_buf), ~request.is_write,
                    sector_index < i, i <= sector_index'
             PROVE  io_buf'[i] = DiskContents[request.sector_num + i - 1]
  BY DEF ReadsDisk
<1>1. /\ InRw /\ ~NoCluster /\ ReadInto(n, ClusterSectors)
      /\ sector_index' = sector_index + n
  BY DEF RwCluster
<1>2. /\ n \in 1 .. Len(io_buf) - sector_index
      /\ \A k \in sector_index + 1 .. sector_index + n :
           /\ request.sector_num + k - 1 \in Sector
           /\ (request.sector_num + k - 1) \div SectorsPerCluster = ClusterNum
  BY <1>1, TransferSectors DEF ClusterNum
<1> HIDE DEF n
<1>3. sector_index \in Nat /\ Len(io_buf) \in Nat /\ DOMAIN io_buf = 1 .. Len(io_buf)
  BY DEF IInv, TypeOK, DataTypeOK
<1>4. i \in sector_index + 1 .. sector_index + n
  BY <1>1, <1>2, <1>3
<1>5. io_buf'[i] = clusters[ClusterNum][(request.sector_num + i - 1) % SectorsPerCluster]
  BY <1>1, <1>3, <1>4 DEF ReadInto, ClusterSectors
<1>6. QED
  BY <1>1, <1>2, <1>4, <1>5, Zenon DEF DiskContents, NoCluster

LEMMA RwReadReads ==
    ASSUME ReadsInClusters, IInv, RwRead PROVE ReadsDisk
<1> USE SizesAssumption
<1> DEFINE n == SmallerOf(Left, BlockSize - (Pos % BlockSize))
           cached == [i \in DOMAIN io_buf |->
                        BlockData(BlockNum, (request.sector_num + i - 1) % BlockSize)]
<1> SUFFICES ASSUME NEW i \in 1 .. Len(io_buf), ~request.is_write,
                    sector_index < i, i <= sector_index'
             PROVE  io_buf'[i] = DiskContents[request.sector_num + i - 1]
  BY DEF ReadsDisk
<1> DEFINE s == request.sector_num + i - 1
<1>1. /\ InRw /\ NoCluster /\ ReadInto(n, cached)
      /\ sector_index' = sector_index + n
  BY DEF RwRead
<1>2. /\ n \in 1 .. Len(io_buf) - sector_index
      /\ \A k \in sector_index + 1 .. sector_index + n :
           /\ request.sector_num + k - 1 \in Sector
           /\ (request.sector_num + k - 1) \div BlockSize = BlockNum
  BY <1>1, TransferSectors DEF BlockNum
<1> HIDE DEF n
<1>3. /\ DataTypeOK /\ sector_index \in Nat /\ Len(io_buf) \in Nat
      /\ DOMAIN io_buf = 1 .. Len(io_buf)
  BY DEF IInv, TypeOK, DataTypeOK
<1>4. i \in sector_index + 1 .. sector_index + n
  BY <1>1, <1>2, <1>3
<1>5. s \in Sector /\ s \div BlockSize = BlockNum
  BY <1>2, <1>4
<1>6. io_buf'[i] = Image[s]
  <2>1. io_buf'[i] = BlockData(BlockNum, s % BlockSize)
    BY <1>1, <1>3, <1>4 DEF ReadInto
  <2>2. s \in Nat
    BY <1>5 DEF Sector
  <2> HIDE DEF s
  <2>3. s % BlockSize \in 0 .. BlockSize - 1 /\ BlockNum \in Nat
        /\ s = BlockSize * BlockNum + (s % BlockSize)
    BY <1>5, <2>2, DivMod
  <2>4. BlockNum * BlockSize + (s % BlockSize) = s
    BY <2>3
  <2>5. QED
    BY <2>1, <2>3, <2>4 DEF BlockData
<1>7. s \div SectorsPerCluster = ClusterNum
  <2> DEFINE j == sector_index + 1
  <2>1. j \in sector_index + 1 .. sector_index + n /\ j \in 1 .. Len(io_buf)
    BY <1>2, <1>3
  <2>2. request \in Request /\ Len(request.data) = Len(io_buf)
    BY <1>3 DEF DataTypeOK, NoRequest
  <2>3. request.sector_num \in Nat
    BY <2>2, RequestAssumption
  <2>4. request.sector_num + j - 1 = Pos
    BY <1>3, <2>3 DEF Pos
  <2>5. (request.sector_num + j - 1) \div BlockSize = BlockNum
    BY <1>2, <2>1
  <2>6. s \div SectorsPerCluster
          = (request.sector_num + j - 1) \div SectorsPerCluster
    <3> HIDE DEF j
    <3> QED
      BY <1>5, <2>1, <2>2, <2>5, Zenon DEF ReadsInClusters
  <2>7. QED
    BY <2>4, <2>6 DEF ClusterNum
<1>8. QED
  <2> HIDE DEF s
  <2>1. DiskContents[s] = Image[s]
    BY <1>1, <1>5, <1>7, Zenon DEF DiskContents, NoCluster
  <2>2. QED
    BY <1>6, <2>1 DEF s

\* What block_net.c:66 says of modified data is true of a client whose reads
\* take no two clusters of one block.
THEOREM ModifiedDataIsRead ==
    ReadsInClusters => (Spec => ReadsModifiedData)
<1> SUFFICES ASSUME ReadsInClusters PROVE Spec => ReadsModifiedData
  OBVIOUS
<1>1. IInv /\ [Next]_vars => [ReadsDisk]_vars
  <2> SUFFICES ASSUME IInv, Next PROVE ReadsDisk
    OBVIOUS
  <2>1. CASE RwCluster
    BY <2>1, RwClusterReads
  <2>2. CASE RwRead
    BY <2>2, RwReadReads
  <2>3. CASE sector_index' \in {0, sector_index}
    <3>1. sector_index \in Nat
      BY DEF IInv, TypeOK, DataTypeOK
    <3>2. QED
      BY <2>3, <3>1 DEF ReadsDisk
  <2>4. QED
    BY <2>1, <2>2, <2>3
       DEF Next, Step, Answer, call, RwWait, RwAllocCluster, RwStartLoad, RwEnd,
           Submit, Evict, PrefetchBlock, PrefetchSend, InitDone, Onload,
           UpdateBlock, CallbackReturns, OnloadReturns, LoadError
<1>2. QED
  BY <1>1, InvariantIInv, PTL DEF Spec, ReadsModifiedData, ReadsDisk
-----------------------------------------------------------------------------
(* The device implements the disk its client sees *)

\* A write to a cluster changes the sectors of the disk it covers, and no other.
LEMMA ClusterWrites ==
    ASSUME IInv, InRw, ~NoCluster, NEW n,
           n = SmallerOf(Left, SectorsPerCluster - (Pos % SectorsPerCluster)),
           clusters' = [clusters EXCEPT ![ClusterNum] = Written(n)]
    PROVE  DiskContents' =
             [s \in Sector |->
                IF s \in Pos .. Pos + n - 1
                THEN io_buf[s - request.sector_num + 1] ELSE DiskContents[s]]
<1> USE SizesAssumption
<1> DEFINE w == SectorsPerCluster
           c == ClusterNum
           o == Pos % SectorsPerCluster
           first == request.sector_num
           len == Len(io_buf)
<1>1. DataTypeOK
  BY DEF IInv, TypeOK
<1>2. /\ Pos \in Sector /\ c \in Cluster /\ o \in 0 .. w - 1
      /\ sector_index \in Nat
  BY <1>1, PosInDevice
<1>3. first \in Nat
  BY <1>1, RequestAssumption DEF DataTypeOK, NoRequest
<1>4. Pos \in Nat /\ Pos = first + sector_index
  BY <1>2 DEF Pos, Sector
<1>5. Pos = w * c + o
  BY <1>2, SectorInCluster DEF ClusterNum
<1> HIDE DEF o
<1>6. /\ n \in 1 .. len - sector_index
      /\ \A i \in sector_index + 1 .. sector_index + n :
           /\ first + i - 1 \in Sector /\ i \in 1 .. len
           /\ (first + i - 1) \div w = c
  BY TransferSectors DEF ClusterNum
<1>7. n \in Nat /\ len \in Nat /\ DOMAIN io_buf = 1 .. len
  BY <1>1, <1>2, <1>6 DEF DataTypeOK
<1> HIDE DEF first, len
<1>8. clusters[c] \in ClusterData
  BY <1>1, <1>2 DEF DataTypeOK, NoCluster
<1>9. Written(n) \in ClusterData
  <2>1. ASSUME NEW k \in 0 .. w - 1, k \in o .. o + n - 1
        PROVE  io_buf[sector_index + 1 + k - o] \in Value \cup {Garbage}
    <3>1. sector_index + 1 + k - o \in 1 .. len
      BY <1>2, <1>6, <1>7, <2>1, SMTT(40)
    <3>2. QED
      BY <1>1, <3>1, ElementOfSeq DEF DataTypeOK, len
  <2>2. QED
    BY <1>8, <2>1 DEF Written, ClusterData, o
<1>10. Written(n) # NULL /\ clusters[c] # NULL
  BY <1>8, <1>9, NullAssumption
<1>11. /\ clusters'[c] = Written(n)
       /\ \A d \in Cluster \ {c} : clusters'[d] = clusters[d]
  BY <1>1, <1>2 DEF DataTypeOK
<1>12. ASSUME NEW s \in Sector
       PROVE  DiskContents'[s] = IF s \in Pos .. Pos + n - 1
                                 THEN io_buf[s - first + 1]
                                 ELSE DiskContents[s]
  <2> DEFINE d == s \div w
             k == s % w
  <2>1. d \in Cluster /\ k \in 0 .. w - 1 /\ s \in Nat
    BY SectorInCluster DEF Sector
  <2>2. s = w * d + k
    BY SectorInCluster
  <2>3. /\ DiskContents[s] = IF clusters[d] = NULL THEN Image[s] ELSE clusters[d][k]
        /\ DiskContents'[s] = IF clusters'[d] = NULL THEN Image[s] ELSE clusters'[d][k]
    BY DEF DiskContents
  <2> HIDE DEF d, k
  <2>4. CASE d # c
    <3>1. s \notin Pos .. Pos + n - 1
      <4>1. SUFFICES ASSUME s \in Pos .. Pos + n - 1 PROVE FALSE
        OBVIOUS
      <4> DEFINE i == s - first + 1
      <4>2. i \in sector_index + 1 .. sector_index + n
            /\ first + i - 1 = s
        BY <1>2, <1>3, <1>4, <1>7, <2>1, <4>1, SMTT(40)
      <4>3. s \div w = c
        <5> HIDE DEF i
        <5>1. QED
          BY <1>6, <4>2
      <4>4. QED
        BY <2>4, <4>3 DEF d
    <3>2. QED
      BY <1>11, <2>1, <2>3, <2>4, <3>1
  <2>5. CASE d = c
    <3>1. s - Pos = k - o
      BY <1>2, <1>4, <1>5, <2>1, <2>5, <2>2 DEF Cluster
    <3>2. k \in o .. o + n - 1 <=> s \in Pos .. Pos + n - 1
      <4>1. /\ k \in Int /\ o \in Int /\ n \in Int /\ s \in Int /\ Pos \in Int
        BY <1>2, <1>4, <1>7, <2>1
      <4>2. QED
        BY ONLY <3>1, <4>1
    <3>3. sector_index + 1 + k - o = s - first + 1
      BY <1>2, <1>3, <1>4, <2>1, <3>1
    <3>4. DiskContents'[s] = Written(n)[k] /\ DiskContents[s] = clusters[c][k]
      BY <1>10, <1>11, <2>3, <2>5
    <3>5. Written(n)[k] = IF k \in o .. o + n - 1
                          THEN io_buf[sector_index + 1 + k - o] ELSE clusters[c][k]
      BY <2>1 DEF Written, o
    <3>6. QED
      BY <3>2, <3>3, <3>4, <3>5
  <2>6. QED
    BY <2>4, <2>5
<1>13. QED
  BY <1>12 DEF DiskContents, first

\* The copy of a cluster out of its block does not change the disk.
LEMMA AllocationIsInvisible ==
    ASSUME BlockSize % SectorsPerCluster = 0, IInv, RwAllocCluster
    PROVE  UNCHANGED DiskContents
<1> USE SizesAssumption
<1> DEFINE w == SectorsPerCluster
           c == ClusterNum
           first == (c * w) % BlockSize
           copy == [k \in 0 .. w - 1 |-> BlockData(BlockNum, first + k)]
<1>1. /\ InRw /\ NoCluster /\ clusters' = [clusters EXCEPT ![c] = copy]
  BY DEF RwAllocCluster
<1>2. DataTypeOK /\ c \in Cluster /\ Pos \in Nat
  BY <1>1, PosInDevice DEF IInv, TypeOK, Sector
<1> HIDE DEF copy
<1>3. clusters'[c] = copy /\ clusters[c] = NULL
      /\ \A d \in Cluster \ {c} : clusters'[d] = clusters[d]
  BY <1>1, <1>2 DEF DataTypeOK, NoCluster
<1>4. ASSUME NEW s \in Sector PROVE DiskContents'[s] = DiskContents[s]
  <2> DEFINE d == s \div w
             k == s % w
  <2>1. d \in Cluster /\ k \in 0 .. w - 1 /\ s = w * d + k
    BY SectorInCluster
  <2>2. /\ DiskContents[s] = IF clusters[d] = NULL THEN Image[s] ELSE clusters[d][k]
        /\ DiskContents'[s] = IF clusters'[d] = NULL THEN Image[s] ELSE clusters'[d][k]
    BY DEF DiskContents
  <2> HIDE DEF d, k
  <2>3. CASE d # c
    BY <1>3, <2>1, <2>2, <2>3
  <2>4. CASE d = c
    <3>1. copy[k] = BlockData(BlockNum, first + k)
      BY <2>1 DEF copy
    <3>2. BlockData(BlockNum, first + k) = Image[w * c + k]
      BY <1>2, <2>1, ClusterInBlock DEF ClusterNum, BlockNum
    <3>3. copy[k] = Image[s]
      BY <2>1, <2>4, <3>1, <3>2
    <3>4. QED
      BY <1>3, <2>2, <2>4, <3>3
  <2>5. QED
    BY <2>3, <2>4
<1>5. QED
  BY <1>4 DEF DiskContents

\* The disk is the image as long as nothing has been written.
LEMMA InitIsDisk == Init => BlockDevice!Init
<1> SUFFICES ASSUME Init PROVE BlockDevice!Init
  OBVIOUS
<1>1. ASSUME NEW s \in Sector PROVE DiskContents[s] = Image[s]
  BY SectorInCluster DEF Init, DiskContents
<1>2. DiskContents = [s \in Sector |-> DiskContents[s]]
  BY DEF DiskContents
<1>3. Image = [s \in Sector |-> Image[s]]
  BY DataAssumption
<1>4. DiskContents = Image
  BY <1>1, <1>2, <1>3
<1>5. QED
  BY <1>4 DEF Init, BlockDevice!Init, NoRequest

LEMMA WriteTransfers ==
    ASSUME IInv, RwCluster, request.is_write
    PROVE  \E n \in 1 .. Len(io_buf) - sector_index : BlockDevice!Transfer(n)
<1> DEFINE n == SmallerOf(Left, SectorsPerCluster - (Pos % SectorsPerCluster))
<1>1. /\ InRw /\ ~NoCluster /\ sector_index' = sector_index + n
      /\ clusters' = [clusters EXCEPT ![ClusterNum] = Written(n)]
      /\ UNCHANGED <<io_buf, request, busy>>
  BY DEF RwCluster
<1>2. n \in 1 .. Len(io_buf) - sector_index
  BY <1>1, TransferSectors
<1> HIDE DEF n
<1>3. DiskContents' =
        [s \in Sector |->
           IF s \in Pos .. Pos + n - 1
           THEN io_buf[s - request.sector_num + 1] ELSE DiskContents[s]]
  BY <1>1, ClusterWrites DEF n
<1>4. busy /\ DOMAIN DiskContents = Sector
      /\ Pos = request.sector_num + sector_index
  BY <1>1 DEF IInv, ControlInv, InRw, DiskContents, Pos
<1>5. BlockDevice!Transfer(n)
  BY <1>1, <1>3, <1>4 DEF BlockDevice!Transfer
<1>6. QED
  BY <1>2, <1>5

LEMMA ReadStepTransfers ==
    ASSUME IInv, RwCluster \/ RwRead, ~request.is_write, ReadsDisk
    PROVE  \E n \in 1 .. Len(io_buf) - sector_index : BlockDevice!Transfer(n)
<1>1. PICK b, source :
        /\ b \in {BlockSize, SectorsPerCluster}
        /\ InRw /\ UNCHANGED <<clusters, request, busy>>
        /\ ReadInto(SmallerOf(Left, b - (Pos % b)), source)
        /\ sector_index' = sector_index + SmallerOf(Left, b - (Pos % b))
  BY DEF RwCluster, RwRead
<1> DEFINE n == SmallerOf(Left, b - (Pos % b))
<1>2. n \in 1 .. Len(io_buf) - sector_index
  BY <1>1, TransferSectors
<1> HIDE DEF n
<1>3. BlockDevice!Transfer(n)
  BY <1>1, <1>2, ReadTransfers DEF n
<1>4. QED
  BY <1>2, <1>3

\* Every step of the device is one of the disk or is invisible to the client.
LEMMA StepIsDisk ==
    ASSUME BlockSize % SectorsPerCluster = 0, IInv, [Next]_vars, [ReadsDisk]_vars
    PROVE  [BlockDevice!Next]_(BlockDevice!diskVars)
<1> USE DEF BlockDevice!diskVars
<1>1. CASE RwCluster \/ RwRead
  <2>1. sector_index' # sector_index
    <3>1. \E b \in {BlockSize, SectorsPerCluster} :
            InRw /\ sector_index' = sector_index + SmallerOf(Left, b - (Pos % b))
      BY <1>1 DEF RwCluster, RwRead
    <3>2. \E n \in 1 .. Len(io_buf) - sector_index : sector_index' = sector_index + n
      BY <3>1, TransferSectors
    <3>3. sector_index \in Nat /\ Len(io_buf) \in Nat
      BY DEF IInv, TypeOK, DataTypeOK
    <3>4. QED
      BY <3>2, <3>3
  <2>2. ReadsDisk
    BY <2>1 DEF vars
  <2>3. \E n \in 1 .. Len(io_buf) - sector_index : BlockDevice!Transfer(n)
    <3>1. CASE request.is_write
      BY <1>1, <3>1, WriteTransfers DEF RwRead
    <3>2. CASE ~request.is_write
      BY <1>1, <2>2, <3>2, ReadStepTransfers
    <3>3. QED
      BY <3>1, <3>2
  <2>4. QED
    BY <2>3 DEF BlockDevice!Next
<1>2. CASE RwAllocCluster
  <2>1. UNCHANGED DiskContents
    BY <1>2, AllocationIsInvisible
  <2>2. QED
    BY <1>2, <2>1 DEF RwAllocCluster, call
<1>3. CASE RwEnd
  <2>1. UNCHANGED DiskContents
    BY <1>3 DEF RwEnd, DiskContents
  <2>2. busy /\ sector_index = Len(io_buf)
    BY <1>3 DEF RwEnd, Left, IInv, ControlInv, TypeOK, DataTypeOK
  <2>3. BlockDevice!Complete
    BY <1>3, <2>1, <2>2 DEF RwEnd, BlockDevice!Complete
  <2>4. QED
    BY <2>3 DEF BlockDevice!Next
<1>4. CASE Submit
  <2>1. UNCHANGED DiskContents
    BY <1>4 DEF Submit, DiskContents
  <2>2. BlockDevice!Submit
    BY <1>4, <2>1 DEF Submit, BlockDevice!Submit
  <2>3. QED
    BY <2>2 DEF BlockDevice!Next
<1>5. CASE UNCHANGED <<clusters, request, sector_index, io_buf, busy>>
  <2>1. UNCHANGED DiskContents
    BY <1>5 DEF DiskContents
  <2>2. QED
    BY <1>5, <2>1
<1>6. QED
  BY <1>1, <1>2, <1>3, <1>4, <1>5
     DEF Next, Step, Answer, vars, call, RwWait, RwStartLoad, Evict,
         PrefetchBlock, PrefetchSend, InitDone, Onload, UpdateBlock,
         CallbackReturns, OnloadReturns, LoadError

\* What block_net.c:66 says of modified data is all that can be missing for the
\* device to be a disk, whatever the requests, if a block holds whole clusters:
\* the loading and freeing of blocks and the allocation of clusters are never
\* seen by the client.
THEOREM ImplementsUnlessStale ==
    BlockSize % SectorsPerCluster = 0
        => (Spec /\ ReadsModifiedData => ImplementsDisk)
<1> SUFFICES ASSUME BlockSize % SectorsPerCluster = 0
             PROVE  Spec /\ ReadsModifiedData => ImplementsDisk
  OBVIOUS
<1>1. IInv /\ [Next]_vars /\ [ReadsDisk]_vars
        => [BlockDevice!Next]_(BlockDevice!diskVars)
  BY StepIsDisk
<1>2. QED
  BY <1>1, InitIsDisk, InvariantIInv, PTL
     DEF Spec, ReadsModifiedData, ReadsDisk, ImplementsDisk, BlockDevice!Spec

\* A client whose reads take no two clusters of one block is given a disk: each
\* request moves its sectors once and in order, and is completed once.
THEOREM ImplementsTheDisk ==
    ReadsInClusters /\ BlockSize % SectorsPerCluster = 0
        => (Spec => ImplementsDisk)
  BY ModifiedDataIsRead, ImplementsUnlessStale, PTL
=============================================================================
